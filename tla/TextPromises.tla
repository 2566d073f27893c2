---------------------------- MODULE TextPromises ----------------------------
(***************************************************************************)
(* What the other text algorithms promise, stated without their loops:     *)
(* splitting is the inverse of joining, a word is a maximal run, a glob    *)
(* pattern is cut into matching pieces.                                    *)
(***************************************************************************)
EXTENDS Vlog, UrlText

U == INSTANCE UrlValues

-----------------------------------------------------------------------------
\* Ports and queries.

\* The pairs of a query: what stands between &s, the last one only if it is
\* not empty, each cut at its first =.
PairsOf(query) ==
  LET cut == SplitStringDontTrim(query, "&")
      parts == IF cut[Len(cut)] = <<>> THEN Front(cut) ELSE cut
  IN  [i \in DOMAIN parts |->
        LET k == Least(find(parts[i], <<"=">>, 0), Len(parts[i]))
        IN  [key |-> Prefix(parts[i], k), value |-> Suffix(parts[i], k + 1)]]

\* A port as a decimal number.
PortOf(port) ==
  LET value == FoldLeft(LAMBDA n, d : 10 * n + U!DigitValue[d], 0, port)
  IN  IF port = <<>> THEN U!PORT_UNSPECIFIED
      ELSE IF \E i \in DOMAIN port : port[i] \notin DOMAIN U!DigitValue THEN U!PORT_INVALID
      ELSE IF value <= 65535 THEN value ELSE U!PORT_INVALID

-----------------------------------------------------------------------------
\* Globs.

\* A pattern matches when the string can be cut into one piece for each of
\* its symbols: any piece for a star, one matching character for the others.
GlobMatches(string, pattern) ==
  \E cut \in [0 .. Len(pattern) -> 0 .. Len(string)] :
    /\ cut[0] = 0 /\ cut[Len(pattern)] = Len(string)
    /\ \A i \in DOMAIN pattern :
         IF pattern[i] = "*" THEN cut[i - 1] <= cut[i]
         ELSE cut[i] = cut[i - 1] + 1 /\ SymbolMatches(pattern[i], string[cut[i]])

\* directory, module, -inl and extension of a path.
IsModuleOf(module, file) ==
  \E i \in 0 .. Len(file) : \E j \in i .. Len(file) :
    LET directory == Prefix(file, i)
        name == SubSeq(file, i + 1, j)
        extension == Suffix(file, j)
    IN  /\ directory = <<>> \/ Last(directory) \in SlashChars
        /\ ~Has(name \o extension, SlashChars)
        /\ IF extension = <<>> THEN ~Has(name, {"."})
           ELSE Head(extension) = "." /\ ~Has(Tail(extension), {"."})
        /\ IF IsSuffix(InlSuffix, name) THEN name = module \o InlSuffix ELSE name = module

\* The level the first pattern that matches asks for.
LevelOf(asked, default, file) ==
  LET Target(key) == IF Has(key, SlashChars) THEN file ELSE GetModule(file)
      hits == {i \in DOMAIN asked : GlobMatches(Target(asked[i].key), asked[i].key)}
  IN  IF hits = {} THEN default ELSE atoi(asked[Min(hits)].value)

-----------------------------------------------------------------------------
\* Splitting, words, placeholders and printing.

\* A string cut at a separator is the parts joined by it.
IsSplit(s, c, parts) ==
  /\ JoinString(parts, <<c>>) = s
  /\ parts # <<>>
  /\ \A k \in DOMAIN parts : ~Has(parts[k], {c})

\* The runs between spaces.
WordsOf(s) == SelectSeq(SplitStringDontTrim(s, " "), LAMBDA w : w # <<>>)

\* key=value, with any number of = between them, between commas.
KeyOf(pair) == Prefix(pair, Least(find(pair, <<"=">>, 0), Len(pair)))
ValueOf(pair) ==
  LET from == {i \in 1 .. Len(pair) : pair[i] # "=" /\ Has(Prefix(pair, i), {"="})}
  IN  IF from = {} THEN <<>> ELSE Suffix(pair, Min(from) - 1)

PairListOf(line) ==
  LET given == SelectSeq(SplitString(line, ","), LAMBDA l : l # <<>>)
  IN  [i \in DOMAIN given |->
        [key |-> IF Has(given[i], {"="}) THEN KeyOf(given[i]) ELSE <<>>, value |-> ValueOf(given[i])]]

\* A $ with no other beside it.
Lone(s, i) ==
  /\ s[i] = "$"
  /\ i = 1 \/ s[i - 1] # "$"
  /\ i = Len(s) \/ s[i + 1] # "$"

\* The digit of the placeholder at i.
Numbered(s, i) == Lone(s, i) /\ i < Len(s) /\ s[i + 1] \in Digits

\* What each symbol of a format becomes: a placeholder its parameter, its digit
\* and a lone $ nothing, a $ behind another one itself, and any other symbol
\* itself.
Becomes(s, i, subst) ==
  CASE Numbered(s, i) ->
         LET index == DigitValue[s[i + 1]]
         IN  IF index \in DOMAIN subst THEN subst[index] ELSE <<>>
    [] s[i] = "$" /\ ~Numbered(s, i) -> IF i > 1 /\ s[i - 1] = "$" THEN <<"$">> ELSE <<>>
    [] s[i] # "$" -> IF i > 1 /\ Numbered(s, i - 1) THEN <<>> ELSE <<s[i]>>

FormatOf(s, subst) == FlattenSeq([i \in DOMAIN s |-> Becomes(s, i, subst)])

\* Where the parameters stand, in their order.
OffsetsPointAt(s, subst, result) ==
  LET known == {i \in DOMAIN s : Numbered(s, i)}
      unknown == {i \in DOMAIN s : Lone(s, i) /\ i < Len(s)} \ known
      Index(i) == DigitValue[s[i + 1]]
  IN  /\ Len(result.offsets) = Cardinality(known) + Cardinality(unknown)
      /\ \E rank \in [known -> 1 .. Len(result.offsets)] :
           \A i \in known :
             /\ result.offsets[rank[i]] = Len(FormatOf(Prefix(s, i - 1), subst))
             /\ \A j \in known \ {i} : rank[j] # rank[i] /\ (Index(i) < Index(j) => rank[i] < rank[j])

\* An output is whole, unless printing fails or 32 MiB do not hold it.
IsPrinted(need, kind, appended) ==
  appended = IF kind = "fails" \/ need + 1 > MaxBuffer THEN 0 ELSE need
=============================================================================
