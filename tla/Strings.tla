------------------------------ MODULE Strings ------------------------------
(***************************************************************************)
(* The string library of chromium/: the searches of StringPiece, trimming, *)
(* splitting and joining, the placeholders of an output path, and the      *)
(* growing buffer of StringPrintf.  A string is a sequence of one-symbol   *)
(* strings; positions count from 0, as in the code.                        *)
(***************************************************************************)
EXTENDS Numbers, SequencesExt

\* size_t(-1): beyond every position.
npos == 1000000

Least(a, b) == IF a < b THEN a ELSE b

At(s, i) == s[i + 1]

FirstAt(positions) == IF positions = {} THEN npos ELSE Min(positions)

LastAt(positions) == IF positions = {} THEN npos ELSE Max(positions)

-----------------------------------------------------------------------------
\* StringPiece.

substr(s, pos, n) ==
  LET from == Least(pos, Len(s))
  IN  SubSeq(s, from + 1, from + Least(n, Len(s) - from))

StandsAt(s, t, i) == i + Len(t) <= Len(s) /\ SubSeq(s, i + 1, i + Len(t)) = t

find(s, t, pos) == FirstAt({i \in pos .. Len(s) : StandsAt(s, t, i)})

rfind(s, t, pos) ==
  IF Len(s) < Len(t) THEN npos
  ELSE IF t = <<>> THEN Least(Len(s), pos)
  ELSE LastAt({i \in 0 .. Least(pos, Len(s) - Len(t)) : StandsAt(s, t, i)})

find_first_of(s, chars, pos) == FirstAt({i \in pos .. Len(s) - 1 : At(s, i) \in chars})

find_last_of(s, chars, pos) ==
  LastAt({i \in 0 .. Least(pos, Len(s) - 1) : At(s, i) \in chars})

\* With no characters to skip the answer is 0, wherever the search begins.
find_first_not_of(s, chars, pos) ==
  IF s # <<>> /\ chars = {} THEN 0
  ELSE FirstAt({i \in pos .. Len(s) - 1 : At(s, i) \notin chars})

find_last_not_of(s, chars, pos) ==
  LastAt({i \in 0 .. Least(pos, Len(s) - 1) : At(s, i) \notin chars})

ends_with(s, t) == Len(t) <= Len(s) /\ StandsAt(s, t, Len(s) - Len(t))

remove_prefix(s, n) == SubSeq(s, n + 1, Len(s))

remove_suffix(s, n) == SubSeq(s, 1, Len(s) - n)

-----------------------------------------------------------------------------
\* Trimming and joining.

\* A space, standing for tabs and line ends as well.
kWhitespaceASCII == {" "}

\* The text that is left, and the ends that lost something.
TrimString(s, chars, positions) ==
  LET first == IF "leading" \in positions THEN find_first_not_of(s, chars, 0) ELSE 0
      last == IF "trailing" \in positions THEN find_last_not_of(s, chars, npos) ELSE Len(s) - 1
  IN  IF s = <<>> THEN [text |-> <<>>, from |-> {}]
      ELSE IF npos \in {first, last} THEN [text |-> <<>>, from |-> positions]
      ELSE [text |-> substr(s, first, last - first + 1),
            from |-> {p \in {"leading", "trailing"} :
                        \/ p = "leading" /\ first # 0
                        \/ p = "trailing" /\ last # Len(s) - 1}]

TRIM_ALL == {"leading", "trailing"}

TrimWhitespace(s) == TrimString(s, kWhitespaceASCII, TRIM_ALL).text

JoinString(parts, sep) ==
  FlattenSeq([i \in DOMAIN parts |-> IF i = 1 THEN parts[i] ELSE sep \o parts[i]])

-----------------------------------------------------------------------------
\* Splitting.

\* The positions that end a part, in their order: those of the separator, and
\* the end.
Ends(s, c) ==
  SelectSeq([i \in 1 .. Len(s) + 1 |-> i - 1], LAMBDA i : i = Len(s) \/ At(s, i) = c)

\* Bug: nothing is added behind a separator at the end.
SplitStringT_NoLast(s, c) ==
  LET ends == IF s # <<>> /\ Last(s) = c THEN Front(Ends(s, c)) ELSE Ends(s, c)
  IN  [k \in DOMAIN ends |->
        LET last == IF k = 1 THEN 0 ELSE ends[k - 1] + 1 IN substr(s, last, ends[k] - last)]

SplitStringT(s, c) ==
  LET ends == Ends(s, c)
  IN  [k \in DOMAIN ends |->
        LET last == IF k = 1 THEN 0 ELSE ends[k - 1] + 1 IN substr(s, last, ends[k] - last)]

SplitStringDontTrim(s, c) == SplitStringT(s, c)

SplitString(s, c) ==
  LET parts == SplitStringT(s, c) IN [k \in DOMAIN parts |-> TrimWhitespace(parts[k])]

\* Occurrences of the delimiter are taken from the left and do not overlap.
RECURSIVE SubstrParts(_, _, _)
SubstrParts(s, delimiter, begin) ==
  LET end == find(s, delimiter, begin)
  IN  IF end = npos THEN <<TrimWhitespace(substr(s, begin, npos))>>
      ELSE <<TrimWhitespace(substr(s, begin, end - begin))>>
             \o SubstrParts(s, delimiter, end + Len(delimiter))

\* For a delimiter that is not empty; with an empty one the loop stays where
\* it is and never ends.
SplitStringUsingSubstr(s, delimiter) == SubstrParts(s, delimiter, 0)

\* Bug: only one delimiter is skipped.
SplitStringIntoKeyValues_One(line, delimiter) ==
  LET end == find_first_of(line, {delimiter}, 0)
      value == substr(line, end + 1, npos)
  IN  IF end = npos THEN [ok |-> FALSE, key |-> <<>>, value |-> <<>>]
      ELSE [ok |-> value # <<>>, key |-> substr(line, 0, end), value |-> value]

\* The first delimiter ends the key, and more of them in a row are skipped.
SplitStringIntoKeyValues(line, delimiter) ==
  LET end == find_first_of(line, {delimiter}, 0)
      remains == substr(line, end, npos)
      begin == find_first_not_of(remains, {delimiter}, 0)
  IN  IF end = npos THEN [ok |-> FALSE, key |-> <<>>, value |-> <<>>]
      ELSE IF begin = npos THEN [ok |-> FALSE, key |-> substr(line, 0, end), value |-> <<>>]
      ELSE [ok |-> TRUE, key |-> substr(line, 0, end), value |-> substr(remains, begin, npos)]

\* Empty pairs are skipped, and what is no pair is kept and makes it fail.
SplitStringIntoKeyValuePairs(line, kvDelimiter, pairDelimiter) ==
  LET lines == SelectSeq(SplitString(line, pairDelimiter), LAMBDA l : l # <<>>)
      pairs == [i \in DOMAIN lines |-> SplitStringIntoKeyValues(lines[i], kvDelimiter)]
  IN  [ok |-> \A i \in DOMAIN pairs : pairs[i].ok,
       pairs |-> [i \in DOMAIN pairs |-> [key |-> pairs[i].key, value |-> pairs[i].value]]]

\* Where the words begin: last_non_ws_start of the scan.
WordStarts(s) ==
  {i \in 0 .. Len(s) - 1 :
     At(s, i) \notin kWhitespaceASCII /\ (i = 0 \/ At(s, i - 1) \in kWhitespaceASCII)}

SplitStringAlongWhitespace(s) ==
  LET starts == SetToSortSeq(WordStarts(s), <)
  IN  [k \in DOMAIN starts |->
        substr(s, starts[k],
               Least(find_first_of(s, kWhitespaceASCII, starts[k]), Len(s)) - starts[k])]

-----------------------------------------------------------------------------
\* ReplaceStringPlaceholders.

\* Bug: a run of $ stands for itself.
Dollars_All(n) == [i \in 1 .. n |-> "$"]

\* A run of n $ loses one; one alone is no run.
Dollars(n) == [i \in 1 .. n - 1 |-> "$"]

Literal(text) == <<[parameter |-> 0, text |-> text]>>

\* The format cut into literal text and parameters, which are numbered from 1:
\* "parameter" is 0 for text, and -1 for a $ with no number or number 0 behind
\* it, which stands for nothing.  A $ at the very end is dropped.
RECURSIVE Pieces(_, _)
Pieces(format, subst) ==
  IF format = <<>> THEN <<>>
  ELSE IF Head(format) # "$"
  THEN Literal(<<Head(format)>>) \o Pieces(Tail(format), subst)
  ELSE IF Len(format) = 1 THEN <<>>
  ELSE IF format[2] = "$"
  THEN LET n == RunLength(format, {"$"})
       IN  Literal(Dollars(n)) \o Pieces(remove_prefix(format, n), subst)
  ELSE LET rest == Tail(format)
           n == RunLength(rest, DOMAIN DigitValue)
           index == NumberOf(SubSeq(rest, 1, n))
       IN  <<[parameter |-> IF index = 0 THEN -1 ELSE index,
              text |-> IF index \in DOMAIN subst THEN subst[index] ELSE <<>>]>>
             \o Pieces(remove_prefix(rest, n), subst)

TextOf(pieces) == FlattenSeq([i \in DOMAIN pieces |-> pieces[i].text])

\* r_offsets: by parameter (one that is missing has index SIZE_MAX, and comes
\* last); lower_bound puts a later one in front of its equals.
OffsetOrder(pieces, i, j) ==
  LET a == pieces[i].parameter
      b == pieces[j].parameter
  IN  \/ a = b /\ i > j
      \/ a # b /\ a # -1 /\ (b = -1 \/ a < b)

Offsets(pieces) ==
  LET parameters == {i \in DOMAIN pieces : pieces[i].parameter # 0}
      ordered == SetToSortSeq(parameters, LAMBDA i, j : OffsetOrder(pieces, i, j))
  IN  [k \in DOMAIN ordered |-> Len(TextOf(SubSeq(pieces, 1, ordered[k] - 1)))]

ReplaceStringPlaceholders(format, subst) ==
  [text |-> TextOf(Pieces(format, subst)), offsets |-> Offsets(Pieces(format, subst))]

-----------------------------------------------------------------------------
\* StringPrintf: an output of need characters.

StackBuffer == 1024

MaxBuffer == 32 * 1024 * 1024

\* vsnprintf into a buffer: the length of the output, or, from one that does
\* not count, -1 for an output that does not fit; -1 also when it fails.
vsnprintf(need, size, kind) ==
  IF kind = "counts" \/ (kind = "overflows" /\ need < size) THEN need ELSE -1

\* Bug: the buffer grows past sizes that would do.
NextBuffer_Fourfold(result, size) == IF result < 0 THEN 4 * size ELSE result + 1

NextBuffer(result, size) == IF result < 0 THEN 2 * size ELSE result + 1

\* What is appended to the destination: need characters, or 0 when it is given
\* up.
RECURSIVE Appended(_, _, _, _)
Appended(need, kind, result, size) ==
  LET larger == NextBuffer(result, size)
      again == vsnprintf(need, larger, kind)
  IN  IF result < 0 /\ kind = "fails" THEN 0
      ELSE IF larger > MaxBuffer THEN 0
      ELSE IF 0 <= again /\ again < larger THEN again
      ELSE Appended(need, kind, again, larger)

StringAppendV(need, kind) ==
  LET result == vsnprintf(need, StackBuffer, kind)
  IN  IF 0 <= result /\ result < StackBuffer THEN result
      ELSE Appended(need, kind, result, StackBuffer)
=============================================================================
