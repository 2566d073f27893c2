------------------------------ MODULE Numbers ------------------------------
(***************************************************************************)
(* atoi of the C library, which the code reads ports, levels and times     *)
(* with: blanks and a sign are skipped, digits are read, and the rest is   *)
(* not looked at.  A text is a sequence of one-symbol strings.             *)
(***************************************************************************)
EXTENDS Integers, Sequences

DigitValue == [d \in {"0", "1", "2", "3", "4", "5", "6", "7", "8", "9"} |->
  CASE d = "0" -> 0 [] d = "1" -> 1 [] d = "2" -> 2 [] d = "3" -> 3 [] d = "4" -> 4
    [] d = "5" -> 5 [] d = "6" -> 6 [] d = "7" -> 7 [] d = "8" -> 8 [] d = "9" -> 9]

Digits == DOMAIN DigitValue

\* Digits as a number, the first digits first.
NumberOf(digits) ==
  LET value[i \in 0 .. Len(digits)] ==
        IF i = 0 THEN 0 ELSE 10 * value[i - 1] + DigitValue[digits[i]]
  IN  value[Len(digits)]

\* The length of the run at the beginning of s of symbols in chars.
RunLength(s, chars) ==
  CHOOSE n \in 0 .. Len(s) :
    /\ \A i \in 1 .. n : s[i] \in chars
    /\ n < Len(s) => s[n + 1] \notin chars

Unblanked(s) == SubSeq(s, RunLength(s, {" "}) + 1, Len(s))

Signed(s) == Unblanked(s) # <<>> /\ Head(Unblanked(s)) \in {"+", "-"}

\* The digits atoi reads; there may be none.
DigitsRead(s) ==
  LET unsigned == IF Signed(s) THEN Tail(Unblanked(s)) ELSE Unblanked(s)
  IN  SubSeq(unsigned, 1, RunLength(unsigned, Digits))

atoi(s) ==
  IF Signed(s) /\ Head(Unblanked(s)) = "-" THEN -NumberOf(DigitsRead(s))
  ELSE NumberOf(DigitsRead(s))

\* More digits than surely fit an int; what atoi returns is then undefined.
Overlong(s) == Len(DigitsRead(s)) - RunLength(DigitsRead(s), {"0"}) > 9

\* The number n is written as these digits: they are what is left of it, one
\* after the other from the last, when it is divided by ten.
Numeral(n, digits) ==
  LET rest[k \in 0 .. Len(digits)] == IF k = 0 THEN n ELSE rest[k - 1] \div 10
  IN  /\ n \in Nat /\ rest[Len(digits)] = 0
      /\ \A i \in 1 .. Len(digits) : DigitValue[digits[i]] = rest[Len(digits) - i] % 10
=============================================================================
