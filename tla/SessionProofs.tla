--------------------------- MODULE SessionProofs ---------------------------
(***************************************************************************)
(* Theorems about RfaConfig, for every list of URLs: type correctness, and *)
(* that every entry is what the last URL that says anything about it says, *)
(* ports as the numbers atoi reads; and about the URL parser, for every    *)
(* text: its parts make up the URL again, and what is counted in front of  *)
(* them is where they are.                                                 *)
(***************************************************************************)
EXTENDS RfaConfig, UrlText, SequenceTheorems, WellFoundedInduction, TLAPS

\* A set of positions of a sequence has a last one.
LEMMA LastPosition ==
  ASSUME NEW n \in Nat, NEW H, H \subseteq 1 .. n, H # {}
  PROVE  \E i \in H : \A j \in H : j <= i
<1> DEFINE Below == {n - i : i \in H}
           Less == OpToRel(<, Nat)
<1>1. Below \subseteq Nat /\ Below # {}
  <2>1. \A i \in H : i \in 1 .. n
    OBVIOUS
  <2>2. \A i \in H : n - i \in Nat
    BY <2>1
  <2>3. QED
    BY <2>2
<1>2. PICK x \in Below : \A y \in Below : <<y, x>> \notin Less
  <2>1. IsWellFoundedOn(Less, Nat)
    BY NatLessThanWellFounded
  <2> HIDE DEF Less, Below
  <2>2. QED
    BY <1>1, <2>1, WFMin
<1>3. \A y \in Below : ~ (y < x)
  BY <1>1, <1>2 DEF OpToRel
<1>4. PICK i \in H : x = n - i
  OBVIOUS
<1>5. \A j \in H : j <= i
  <2>1. TAKE j \in H
  <2>2. ~ (n - j < n - i)
    BY <1>3, <1>4
  <2>3. i \in 1 .. n /\ j \in 1 .. n
    OBVIOUS
  <2>4. QED
    BY <2>2, <2>3
<1>6. QED
  BY <1>5

\* A position of a sequence is an integer.
LEMMA PositionType ==
  ASSUME NEW n \in Nat, NEW i \in 1 .. n
  PROVE  i \in Int
  OBVIOUS

\* A member of a sequence is one of its set.
LEMMA MemberType ==
  ASSUME NEW S, NEW q \in Seq(S), NEW i \in 1 .. Len(q)
  PROVE  q[i] \in S
  OBVIOUS

-----------------------------------------------------------------------------
\* atoi.

\* A set that has 0, and with n also n + 1, has all natural numbers.
LEMMA AllNumbers ==
  ASSUME NEW P, 0 \in P, \A n \in Nat : n \in P => n + 1 \in P
  PROVE  Nat \subseteq P
<1> DEFINE H == Nat \ P
           Before == OpToRel(<, Nat)
<1> SUFFICES ASSUME H # {} PROVE FALSE
  OBVIOUS
<1>1. PICK x \in H : \A y \in H : <<y, x>> \notin Before
  <2>1. IsWellFoundedOn(Before, Nat)
    BY NatLessThanWellFounded
  <2>2. H \subseteq Nat
    OBVIOUS
  <2> HIDE DEF Before, H
  <2>3. QED
    BY <2>1, <2>2, WFMin
<1>2. x \in Nat /\ x \notin P /\ x # 0
  BY <1>1
<1>3. x - 1 \in Nat /\ x - 1 < x /\ (x - 1) + 1 = x
  BY <1>2
<1>4. <<x - 1, x>> \in Before
  BY <1>2, <1>3 DEF OpToRel
<1>5. QED
  BY <1>1, <1>2, <1>3, <1>4

\* A digit.
LEMMA DigitType ==
  ASSUME NEW d \in Digits
  PROVE  DigitValue[d] \in 0 .. 9
BY DEF Digits, DigitValue

\* A number is its last digit behind what it leaves divided by ten.
LEMMA LastDigit ==
  ASSUME NEW a \in Nat, NEW d \in 0 .. 9
  PROVE  10 * a + d \in Nat /\ (10 * a + d) \div 10 = a /\ (10 * a + d) % 10 = d
OBVIOUS

\* What has been read behind each of n digits.
Reads(digits, n, f) ==
  f = [i \in 0 .. n |-> IF i = 0 THEN 0 ELSE 10 * f[i - 1] + DigitValue[digits[i]]]

\* Digits can be read.
LEMMA ReadsExist ==
  ASSUME NEW digits, NEW n \in Nat
  PROVE  \E f : Reads(digits, n, f)
<1> DEFINE P == {m \in Nat : \E f : Reads(digits, m, f)}
<1>1. 0 \in P
  <2> DEFINE f == [i \in 0 .. 0 |-> 0]
  <2>1. Reads(digits, 0, f)
    BY DEF Reads
  <2>2. QED
    BY <2>1
<1>2. ASSUME NEW m \in Nat, m \in P PROVE m + 1 \in P
  <2>1. PICK f : Reads(digits, m, f)
    BY <1>2
  <2> DEFINE g == [i \in 0 .. m + 1 |->
                     IF i = 0 THEN 0 ELSE 10 * f[i - 1] + DigitValue[digits[i]]]
  <2>2. \A i \in 0 .. m : g[i] = f[i]
    <3> SUFFICES ASSUME NEW i \in 0 .. m PROVE g[i] = f[i]
      OBVIOUS
    <3>1. f[i] = IF i = 0 THEN 0 ELSE 10 * f[i - 1] + DigitValue[digits[i]]
      BY <2>1 DEF Reads
    <3>2. i \in 0 .. m + 1
      OBVIOUS
    <3>3. QED
      BY <3>1, <3>2
  <2>3. \A i \in 0 .. m + 1 :
          g[i] = IF i = 0 THEN 0 ELSE 10 * g[i - 1] + DigitValue[digits[i]]
    <3> SUFFICES ASSUME NEW i \in 0 .. m + 1
                 PROVE  g[i] = IF i = 0 THEN 0 ELSE 10 * g[i - 1] + DigitValue[digits[i]]
      OBVIOUS
    <3>1. g[i] = IF i = 0 THEN 0 ELSE 10 * f[i - 1] + DigitValue[digits[i]]
      OBVIOUS
    <3>2. i # 0 => i - 1 \in 0 .. m
      OBVIOUS
    <3> HIDE DEF g
    <3>3. QED
      BY <2>2, <3>1, <3>2
  <2>4. g = [i \in 0 .. m + 1 |-> g[i]]
    OBVIOUS
  <2> HIDE DEF g
  <2>5. Reads(digits, m + 1, g)
    BY <2>3, <2>4 DEF Reads
  <2>6. QED
    BY <2>5
<1> HIDE DEF P
<1>3. n \in P
  BY <1>1, <1>2, AllNumbers
<1>4. QED
  BY <1>3 DEF P

\* The number of digits is read from the first to the last.
LEMMA NumberRead ==
  ASSUME NEW digits \in Seq(Digits)
  PROVE  \E v : /\ v \in [0 .. Len(digits) -> Nat] /\ v[0] = 0
                /\ \A i \in 1 .. Len(digits) : v[i] = 10 * v[i - 1] + DigitValue[digits[i]]
                /\ NumberOf(digits) = v[Len(digits)]
<1> DEFINE n == Len(digits)
           v == CHOOSE f : f = [i \in 0 .. n |->
                  IF i = 0 THEN 0 ELSE 10 * f[i - 1] + DigitValue[digits[i]]]
<1>1. n \in Nat
  OBVIOUS
<1>2. NumberOf(digits) = v[n]
  BY DEF NumberOf
<1>3. \E f : Reads(digits, n, f)
  BY <1>1, ReadsExist
<1>4. Reads(digits, n, v)
  BY <1>3 DEF Reads
<1> HIDE DEF v
<1>5. ASSUME NEW i \in 1 .. n PROVE DigitValue[digits[i]] \in 0 .. 9
  <2>1. digits[i] \in Digits
    OBVIOUS
  <2>2. QED
    BY <2>1, DigitType
<1> HIDE DEF n
<1>6. v[0] = 0 /\ \A i \in 1 .. n : v[i] = 10 * v[i - 1] + DigitValue[digits[i]]
  <2>1. /\ 0 \in 0 .. n
        /\ \A i \in 1 .. n : i \in 0 .. n /\ i # 0
    BY <1>1
  <2>2. QED
    BY <1>4, <2>1 DEF Reads
<1> DEFINE P == {i \in Nat : i <= n => v[i] \in Nat}
<1>7. 0 \in P
  BY <1>6
<1>8. ASSUME NEW i \in Nat, i \in P PROVE i + 1 \in P
  <2> SUFFICES ASSUME i + 1 <= n PROVE v[i + 1] \in Nat
    OBVIOUS
  <2>1. i + 1 \in 1 .. n /\ (i + 1) - 1 = i /\ i <= n
    BY <1>1
  <2>2. v[i] \in Nat /\ DigitValue[digits[i + 1]] \in 0 .. 9
    BY <1>5, <1>8, <2>1
  <2>3. v[i + 1] = 10 * v[i] + DigitValue[digits[i + 1]]
    BY <1>6, <2>1
  <2>4. 10 * v[i] + DigitValue[digits[i + 1]] \in Nat
    BY <2>2, LastDigit
  <2>5. QED
    BY <2>3, <2>4
<1> HIDE DEF P
<1>9. Nat \subseteq P
  BY <1>7, <1>8, AllNumbers
<1>10. v \in [0 .. n -> Nat]
  <2>1. \A i \in 0 .. n : v[i] \in Nat
    BY <1>1, <1>9 DEF P
  <2>2. v = [i \in 0 .. n |-> v[i]]
    BY <1>4 DEF Reads
  <2>3. QED
    BY <2>1, <2>2
<1>11. QED
  BY <1>2, <1>6, <1>10 DEF n

\* What is left of m behind each division by ten.
Divides(m, n, f) == f = [k \in 0 .. n |-> IF k = 0 THEN m ELSE f[k - 1] \div 10]

\* The number read from digits is the number written as these digits.
LEMMA NumberWritten ==
  ASSUME NEW digits \in Seq(Digits)
  PROVE  Numeral(NumberOf(digits), digits)
<1> DEFINE n == Len(digits)
           m == NumberOf(digits)
<1>0. n \in Nat
  OBVIOUS
<1>1. ASSUME NEW i \in 1 .. n PROVE DigitValue[digits[i]] \in 0 .. 9
  <2>1. digits[i] \in Digits
    OBVIOUS
  <2>2. QED
    BY <2>1, DigitType
<1>2. PICK v : /\ v \in [0 .. n -> Nat] /\ v[0] = 0
               /\ \A i \in 1 .. n : v[i] = 10 * v[i - 1] + DigitValue[digits[i]]
               /\ m = v[n]
  BY NumberRead
<1> DEFINE rest == CHOOSE f : f = [k \in 0 .. n |-> IF k = 0 THEN m ELSE f[k - 1] \div 10]
           back == [k \in 0 .. n |-> v[n - k]]
<1>3. Numeral(m, digits) <=>
        /\ m \in Nat /\ rest[n] = 0
        /\ \A i \in 1 .. n : DigitValue[digits[i]] = rest[n - i] % 10
  BY DEF Numeral
<1> HIDE DEF n, m
<1>4. ASSUME NEW i \in 1 .. n
      PROVE  v[i] \div 10 = v[i - 1] /\ v[i] % 10 = DigitValue[digits[i]]
  <2>1. i - 1 \in 0 .. n /\ i \in 0 .. n
    BY <1>0
  <2>2. v[i - 1] \in Nat /\ v[i] \in Nat
    BY <1>2, <2>1
  <2>3. v[i] = 10 * v[i - 1] + DigitValue[digits[i]] /\ DigitValue[digits[i]] \in 0 .. 9
    BY <1>1, <1>2
  <2>4. /\ (10 * v[i - 1] + DigitValue[digits[i]]) \div 10 = v[i - 1]
        /\ (10 * v[i - 1] + DigitValue[digits[i]]) % 10 = DigitValue[digits[i]]
    BY <2>2, <2>3, LastDigit, Zenon
  <2>5. QED
    BY <2>3, <2>4, Zenon
<1>5. Divides(m, n, back)
  <2>1. ASSUME NEW k \in 0 .. n
        PROVE  back[k] = IF k = 0 THEN m ELSE back[k - 1] \div 10
    <3>1. CASE k = 0
      BY <1>0, <1>2, <3>1
    <3>2. CASE k # 0
      <4>1. k - 1 \in 0 .. n /\ n - (k - 1) \in 1 .. n /\ (n - (k - 1)) - 1 = n - k
        BY <1>0, <3>2
      <4>2. back[k - 1] = v[n - (k - 1)] /\ back[k] = v[n - k]
        BY <4>1
      <4> HIDE DEF back
      <4>3. QED
        BY <1>4, <3>2, <4>1, <4>2
    <3>3. QED
      BY <3>1, <3>2
  <2>2. back = [k \in 0 .. n |-> back[k]]
    OBVIOUS
  <2> HIDE DEF back
  <2>3. QED
    BY <2>1, <2>2 DEF Divides
<1>6. Divides(m, n, rest)
  <2>1. \E f : Divides(m, n, f)
    BY <1>5
  <2> HIDE DEF back
  <2>2. QED
    BY <2>1 DEF Divides
<1> HIDE DEF rest
<1> DEFINE P == {k \in Nat : k <= n => rest[k] = v[n - k]}
<1>7. 0 \in P
  BY <1>0, <1>2, <1>6 DEF Divides
<1>8. ASSUME NEW k \in Nat, k \in P PROVE k + 1 \in P
  <2> SUFFICES ASSUME k + 1 <= n PROVE rest[k + 1] = v[n - (k + 1)]
    OBVIOUS
  <2>1. /\ k + 1 \in 0 .. n /\ k + 1 # 0 /\ (k + 1) - 1 = k /\ k <= n
        /\ n - k \in 1 .. n /\ (n - k) - 1 = n - (k + 1)
    BY <1>0
  <2>2. rest[k + 1] = rest[k] \div 10
    BY <1>6, <2>1 DEF Divides
  <2>3. rest[k] = v[n - k]
    BY <1>8, <2>1
  <2>4. v[n - k] \div 10 = v[(n - k) - 1]
    BY <1>4, <2>1
  <2>5. QED
    BY <2>1, <2>2, <2>3, <2>4
<1> HIDE DEF P
<1>9. Nat \subseteq P
  BY <1>7, <1>8, AllNumbers
<1>10. rest[n] = 0
  <2>1. rest[n] = v[n - n] /\ n - n = 0
    BY <1>0, <1>9 DEF P
  <2>2. QED
    BY <1>2, <2>1
<1>11. ASSUME NEW i \in 1 .. n PROVE DigitValue[digits[i]] = rest[n - i] % 10
  <2>1. n - i \in Nat /\ n - i <= n /\ n - (n - i) = i
    BY <1>0
  <2>2. rest[n - i] = v[i]
    BY <1>9, <2>1 DEF P
  <2>3. QED
    BY <1>4, <2>2
<1>12. m \in Nat
  BY <1>0, <1>2
<1>13. QED
  BY <1>3, <1>10, <1>11, <1>12 DEF m

\* A run ends where its symbols end.
LEMMA RunEnds ==
  ASSUME NEW S, NEW s \in Seq(S), NEW chars
  PROVE  /\ RunLength(s, chars) \in 0 .. Len(s)
         /\ \A i \in 1 .. RunLength(s, chars) : s[i] \in chars
         /\ RunLength(s, chars) < Len(s) => s[RunLength(s, chars) + 1] \notin chars
<1> DEFINE H == {n \in 1 .. Len(s) : \A i \in 1 .. n : s[i] \in chars}
           Ends(n) == /\ \A i \in 1 .. n : s[i] \in chars
                      /\ n < Len(s) => s[n + 1] \notin chars
<1>1. Len(s) \in Nat
  OBVIOUS
<1>2. \E n \in 0 .. Len(s) : Ends(n)
  <2>1. CASE H = {}
    <3>1. 0 < Len(s) => s[0 + 1] \notin chars
      <4> SUFFICES ASSUME 0 < Len(s), s[1] \in chars PROVE FALSE
        OBVIOUS
      <4>1. 1 \in 1 .. Len(s) /\ \A i \in 1 .. 1 : i = 1
        BY <1>1
      <4>2. 1 \in H
        BY <4>1
      <4>3. QED
        BY <2>1, <4>2
    <3>2. Ends(0)
      BY <3>1
    <3>3. 0 \in 0 .. Len(s)
      BY <1>1
    <3>4. QED
      BY <3>2, <3>3
  <2>2. CASE H # {}
    <3>1. H \subseteq 1 .. Len(s)
      OBVIOUS
    <3>2. PICK n \in H : \A j \in H : j <= n
      <4> HIDE DEF H
      <4>1. QED
        BY <1>1, <2>2, <3>1, LastPosition
    <3>3. n \in 1 .. Len(s) /\ \A i \in 1 .. n : s[i] \in chars
      OBVIOUS
    <3>4. n < Len(s) => s[n + 1] \notin chars
      <4> SUFFICES ASSUME n < Len(s), s[n + 1] \in chars PROVE FALSE
        OBVIOUS
      <4>1. n + 1 \in 1 .. Len(s) /\ \A i \in 1 .. n + 1 : i \in 1 .. n \/ i = n + 1
        BY <1>1, <3>3
      <4>2. n + 1 \in H
        BY <3>3, <4>1
      <4>3. QED
        BY <3>2, <3>3, <4>2
    <3>5. QED
      BY <1>1, <3>3, <3>4
  <2>3. QED
    BY <2>1, <2>2
<1>3. QED
  BY <1>2 DEF RunLength

\* ... and nowhere else.
LEMMA RunIs ==
  ASSUME NEW S, NEW s \in Seq(S), NEW chars, NEW n \in 0 .. Len(s),
         \A i \in 1 .. n : s[i] \in chars, n < Len(s) => s[n + 1] \notin chars
  PROVE  RunLength(s, chars) = n
<1> DEFINE m == RunLength(s, chars)
<1>1. /\ m \in 0 .. Len(s) /\ \A i \in 1 .. m : s[i] \in chars
      /\ m < Len(s) => s[m + 1] \notin chars
  BY RunEnds
<1> HIDE DEF m
<1>2. Len(s) \in Nat
  OBVIOUS
<1>3. m < n => m + 1 \in 1 .. n /\ m < Len(s)
  BY <1>1, <1>2
<1>4. n < m => n + 1 \in 1 .. m /\ n < Len(s)
  BY <1>1, <1>2
<1>5. m = n
  BY <1>1, <1>2, <1>3, <1>4
<1>6. QED
  BY <1>5 DEF m

\* What atoi reads are digits, and it makes an integer of them.
LEMMA AtoiType ==
  ASSUME NEW port \in Port
  PROVE  DigitsRead(port) \in Seq(Digits) /\ atoi(port) \in Int
<1> DEFINE from == RunLength(port, {" "})
           behind == Unblanked(port)
           unsigned == IF Signed(port) THEN Tail(behind) ELSE behind
           n == RunLength(unsigned, Digits)
<1>1. port \in Seq(STRING) /\ Len(port) \in Nat
  BY DEF Port
<1>2. from \in 0 .. Len(port)
  BY <1>1, RunEnds
<1>3. behind \in Seq(STRING)
  <2> HIDE DEF from
  <2>1. SubSeq(port, from + 1, Len(port)) \in Seq(STRING)
    BY <1>1, <1>2
  <2>2. QED
    BY <2>1 DEF Unblanked, from
<1> HIDE DEF behind
<1>4. unsigned \in Seq(STRING)
  <2>1. Signed(port) => behind # <<>>
    BY DEF Signed, behind
  <2>2. Signed(port) => Tail(behind) \in Seq(STRING)
    BY <1>3, <2>1
  <2>3. QED
    BY <1>3, <2>2
<1> HIDE DEF unsigned
<1>5. n \in 0 .. Len(unsigned) /\ \A i \in 1 .. n : unsigned[i] \in Digits
  BY <1>4, RunEnds
<1> HIDE DEF n
<1> DEFINE read == SubSeq(unsigned, 1, n)
<1>6. read = [i \in 1 .. n |-> unsigned[i]] /\ n \in Nat
  BY <1>4, <1>5
<1>7. read \in Seq(Digits)
  <2> HIDE DEF read
  <2>1. \A i \in 1 .. n : read[i] \in Digits
    BY <1>5, <1>6
  <2>2. QED
    BY <1>6, <2>1
<1>8. DigitsRead(port) = read
  BY DEF DigitsRead, read, n, unsigned, behind
<1> HIDE DEF read
<1>9. NumberOf(read) \in Nat
  BY <1>7, NumberWritten DEF Numeral
<1>10. atoi(port) \in Int
  BY <1>8, <1>9 DEF atoi
<1>11. QED
  BY <1>7, <1>8, <1>10

\* The digits at the beginning of a port are its first k symbols.
AtFront(port, k) ==
  /\ 0 < Len(port) /\ k \in 0 .. Len(port)
  /\ \A i \in 1 .. k : port[i] \in Digits
  /\ k < Len(port) => port[k + 1] \notin Digits
  /\ k = 0 => port[1] \notin {" ", "+", "-"}

\* A port that begins with no blank and no sign is read from its first symbol.
LEMMA DigitsAtFront ==
  ASSUME NEW port \in Port, NEW k, AtFront(port, k)
  PROVE  DigitsRead(port) = SubSeq(port, 1, k) /\ atoi(port) = NumberOf(SubSeq(port, 1, k))
<1>1. /\ port \in Seq(STRING) /\ Len(port) \in Nat /\ 1 <= Len(port)
      /\ k \in 0 .. Len(port)
  <2>1. port \in Seq(STRING) /\ Len(port) \in Nat
    BY DEF Port
  <2>2. 0 < Len(port) /\ k \in 0 .. Len(port)
    BY DEF AtFront
  <2>3. 1 <= Len(port)
    BY <2>1, <2>2
  <2>4. QED
    BY <2>1, <2>2, <2>3
<1>2. port[1] \notin {" ", "+", "-"}
  <2>1. Digits \cap {" ", "+", "-"} = {}
    BY DEF Digits, DigitValue
  <2>2. k # 0 => 1 \in 1 .. k
    BY <1>1
  <2>3. QED
    BY <2>1, <2>2 DEF AtFront
<1>3. RunLength(port, {" "}) = 0
  <2>1. 0 \in 0 .. Len(port) /\ 0 + 1 = 1 /\ 1 .. 0 = {}
    BY <1>1
  <2>2. (\A i \in 1 .. 0 : port[i] \in {" "}) /\ port[0 + 1] \notin {" "}
    BY <1>2, <2>1
  <2>3. QED
    BY <1>1, <2>1, <2>2, RunIs
<1>4. Unblanked(port) = port
  <2>1. SubSeq(port, 1, Len(port)) = port
    BY <1>1
  <2>2. 0 + 1 = 1
    OBVIOUS
  <2>3. QED
    BY <1>3, <2>1, <2>2 DEF Unblanked
<1>5. ~Signed(port)
  <2>1. Head(port) = port[1]
    BY <1>1
  <2>2. QED
    BY <1>2, <1>4, <2>1 DEF Signed
<1>6. RunLength(port, Digits) = k
  BY <1>1, RunIs DEF AtFront
<1>7. DigitsRead(port) = SubSeq(port, 1, k)
  BY <1>4, <1>5, <1>6 DEF DigitsRead
<1>8. QED
  BY <1>5, <1>7 DEF atoi

\* Any number that may be staged for a port is what its digits say.
LEMMA PortRead ==
  ASSUME NEW port \in Port, port # <<>>, NEW number \in PortNumbers(port)
  PROVE  number \in Int /\ PortAsGiven(port, <<number>>)
<1>0. port \in Seq(STRING) /\ Len(port) \in Nat /\ 0 < Len(port)
  <2>1. port \in Seq(STRING) /\ Len(port) \in Nat
    BY DEF Port
  <2>2. QED
    BY <2>1, EmptySeq
<1>1. number \in Int
  BY AtoiType, UrlAssumption DEF PortNumbers
<1> DEFINE k == RunLength(port, Digits)
           digits == SubSeq(port, 1, k)
<1>2. /\ k \in 0 .. Len(port) /\ \A i \in 1 .. k : port[i] \in Digits
      /\ k < Len(port) => port[k + 1] \notin Digits
  BY <1>0, RunEnds
<1> HIDE DEF k
<1>3. digits \in Seq(Digits) /\ Len(digits) = k
  <2>1. digits = [i \in 1 .. k |-> port[i]] /\ k \in Nat
    BY <1>0, <1>2
  <2> HIDE DEF digits
  <2>2. \A i \in 1 .. k : digits[i] \in Digits
    BY <1>2, <2>1
  <2>3. QED
    BY <2>1, <2>2
<1>4. (k = 0 => port[1] \notin {" ", "+", "-"}) =>
        DigitsRead(port) = digits /\ atoi(port) = NumberOf(digits)
  BY <1>0, <1>2, DigitsAtFront DEF AtFront
<1> HIDE DEF digits
<1>5. k <= 9 /\ DigitsRead(port) = digits => ~Overlong(port)
  <2>1. RunLength(digits, {"0"}) \in 0 .. Len(digits)
    BY <1>3, RunEnds
  <2>2. k \in Nat
    BY <1>2
  <2> DEFINE zeros == RunLength(digits, {"0"})
  <2> HIDE DEF zeros
  <2>3. k <= 9 => ~(Len(digits) - zeros > 9)
    BY <1>3, <2>1, <2>2 DEF zeros
  <2>4. QED
    BY <2>3 DEF Overlong, zeros
<1>6. ASSUME k = 0, port[1] \notin {" ", "+", "-"} PROVE number = 0
  <2>1. DigitsRead(port) = digits /\ atoi(port) = NumberOf(digits)
    BY <1>4, <1>6
  <2>2. ~Overlong(port)
    <3>1. k = 0 => k <= 9
      OBVIOUS
    <3>2. QED
      BY <1>5, <1>6, <2>1, <3>1
  <2>3. NumberOf(digits) = 0
    <3>1. PICK v : v[0] = 0 /\ NumberOf(digits) = v[Len(digits)]
      BY <1>3, NumberRead
    <3>2. QED
      BY <1>3, <1>6, <3>1
  <2>4. QED
    BY <2>1, <2>2, <2>3 DEF PortNumbers
<1>7. ASSUME k \in 1 .. 9 PROVE Numeral(number, digits)
  <2>1. k # 0 /\ k <= 9
    BY <1>7
  <2>2. number = NumberOf(digits)
    BY <1>4, <1>5, <2>1 DEF PortNumbers
  <2>3. QED
    BY <1>3, <2>2, NumberWritten
<1>8. Len(<<number>>) = 1 /\ <<number>>[1] = number
  OBVIOUS
<1>9. PortAsGiven(port, <<number>>)
  BY <1>2, <1>6, <1>7, <1>8 DEF PortAsGiven, digits
<1>10. QED
  BY <1>1, <1>9

-----------------------------------------------------------------------------
\* Type correctness.

\* A value found in a query is a string.
LEMMA ValuedType ==
  ASSUME NEW query \in Query, NEW key
  PROVE  Valued(query, key) \in Texts
<1> DEFINE hits == {i \in DOMAIN query : query[i].key = key}
<1>1. CASE hits = {}
  BY <1>1, UrlAssumption DEF Valued
<1>2. CASE hits # {}
  <2>1. Len(query) \in Nat /\ hits \subseteq 1 .. Len(query)
    BY DEF Query
  <2>2. \E i \in hits : \A j \in hits : j <= i
    <3> HIDE DEF hits
    <3>1. QED
      BY <1>2, <2>1, LastPosition
  <2>3. PICK i \in hits : Valued(query, key) = query[i].value
    BY <1>2, <2>2 DEF Valued
  <2>4. query[i] \in [key : Texts, value : Texts]
    <3>1. i \in 1 .. Len(query)
      <4> HIDE DEF hits
      <4>1. QED
        BY <2>1, <2>3
    <3>2. query \in Seq([key : Texts, value : Texts])
      BY DEF Query
    <3>3. QED
      <4> HIDE DEF hits
      <4>1. QED
        BY <3>1, <3>2, MemberType
  <2>5. QED
    BY <2>3, <2>4
<1>3. QED
  BY <1>1, <1>2

\* A URL makes a session.
LEMMA SessionType ==
  ASSUME NEW url \in Url, log_name \in Texts
  PROVE  SessionOf(url) \in Session
<1>1. /\ Given(url.protocol, "") \in Texts
      /\ Given(url.user, log_name) \in Texts
      /\ Given(url.host, "localhost") \in Texts
      /\ Given(url.service, "") \in Names \cup {""}
  <2>1. {"", "localhost"} \subseteq Texts
    BY UrlAssumption
  <2>2. QED
    BY <2>1 DEF Given, Url
<1>2. Given(url.port, <<>>) \in Port
  <2>1. <<>> \in Port
    BY DEF Port
  <2>2. url.port \in Port \cup {Absent}
    BY DEF Url
  <2>3. QED
    BY <2>1, <2>2 DEF Given
<1>3. /\ Valued(url.query, "application-id") \in Texts
      /\ Valued(url.query, "position") \in Texts
  BY ValuedType DEF Url
<1>4. QED
  BY <1>1, <1>2, <1>3 DEF SessionOf, Session

\* The user name of a session is a sequence of strings.
LEMMA DacsUserType ==
  ASSUME NEW s \in Session
  PROVE  DacsUser(s) \in Seq(Texts)
<1>1. s.user \in Texts /\ s.application \in Texts /\ s.position \in Texts
  BY DEF Session
<1>2. QED
  <2>1. CASE s.application = ""
    <3>1. DacsUser(s) = <<s.user>>
      BY <2>1 DEF DacsUser
    <3>2. QED
      BY <1>1, <3>1
  <2>2. CASE s.application # "" /\ s.position = ""
    <3>1. DacsUser(s) = <<s.user, s.application>>
      BY <2>2 DEF DacsUser
    <3>2. QED
      BY <1>1, <3>1
  <2>3. CASE s.application # "" /\ s.position # ""
    <3>1. DacsUser(s) = <<s.user, s.application, s.position>>
      BY <2>3 DEF DacsUser
    <3>2. QED
      BY <1>1, <3>1
  <2>4. QED
    BY <2>1, <2>2, <2>3

\* What atoi makes of a port is an integer.
LEMMA PortNumberType ==
  ASSUME NEW port \in Port
  PROVE  PortNumbers(port) \subseteq Int
BY AtoiType, UrlAssumption DEF PortNumbers

\* What a session writes fits the entry it is for.
LEMMA EntryType ==
  ASSUME NEW s \in Session, NEW key \in Keys, NEW number \in PortNumbers(s.port)
  PROVE  Entry(s, key, number) \in EntriesOf(key)
<1>1. s.service \in Texts /\ s.server \in Texts /\ s.protocol \in Texts
  BY UrlAssumption DEF Session
<1>2. s.port \in Port
  BY DEF Session
<1>3. number \in Int
  BY <1>2, PortNumberType
<1>4. CASE key = "userName"
  BY <1>4, DacsUserType DEF Entry, EntriesOf
<1>5. CASE key = "rsslPort"
  BY <1>2, <1>5 DEF Entry, EntriesOf
<1>6. CASE key = "portNumber"
  <2>1. <<number>> \in Seq(Int)
    BY <1>3
  <2>2. QED
    BY <1>6, <2>1 DEF Entry, EntriesOf
<1>7. CASE key \in {"connectionList", "serverList", "connectionType"}
  <2>1. <<s.service>> \in Seq(Texts) /\ <<s.server>> \in Seq(Texts) /\ <<s.protocol>> \in Seq(Texts)
    BY <1>1
  <2>2. QED
    BY <1>7, <2>1 DEF Entry, EntriesOf, NameOf
<1>8. QED
  BY <1>4, <1>5, <1>6, <1>7 DEF Keys

\* The types of all variables are kept by every step.
THEOREM TypeCorrect == Spec => []TypeOK
<1>1. Init => TypeOK
  <2> SUFFICES ASSUME Init
               PROVE  TypeOK
    OBVIOUS
  <2>1. given \in Seq(Url) /\ urls \in Seq(Url)
    BY UrlAssumption DEF Init
  <2>2. sessions \in Seq(Session) /\ staged \in 0 .. Len(sessions)
    BY DEF Init
  <2>3. \A key : Unset \in EntriesOf(key)
    <3>1. Unset \in Seq(Texts) /\ Unset \in Seq(Int) /\ Unset \in Port
      BY DEF Unset, Port
    <3>2. QED
      BY <3>1 DEF EntriesOf
  <2>4. DOMAIN staging = Paths /\ \A p \in Paths : staging[p] \in EntriesOf(p[2])
    BY <2>3 DEF Init
  <2>5. QED
    BY <2>1, <2>2, <2>4 DEF Init, TypeOK
<1>2. TypeOK /\ [Next]_vars => TypeOK'
  <2> SUFFICES ASSUME TypeOK, [Next]_vars
               PROVE  TypeOK'
    OBVIOUS
  <2> USE DEF TypeOK
  <2>1. CASE ParseUrl
    <3>1. Head(urls) \in Url /\ urls' \in Seq(Url)
      BY <2>1 DEF ParseUrl
    <3>2. SessionOf(Head(urls)) \in Session
      BY <3>1, SessionType, UrlAssumption
    <3>3. sessions' \in Seq(Session) /\ Len(sessions') = Len(sessions) + 1
      BY <2>1, <3>2 DEF ParseUrl
    <3>4. staged' \in 0 .. Len(sessions')
      BY <2>1, <3>3 DEF ParseUrl
    <3>5. QED
      BY <2>1, <3>1, <3>3, <3>4 DEF ParseUrl
  <2>2. CASE StageSession
    <3>1. Current \in Session
      BY <2>2 DEF StageSession, Current
    <3>2. \A p \in Paths : p[2] \in Keys
      BY DEF Paths
    <3>3. PICK number \in PortNumbers(Current.port) :
            staging' = [p \in Paths |-> IF p[1] = NameOf(Current) /\ p[2] \in Written(Current)
                                        THEN Entry(Current, p[2], number) ELSE staging[p]]
      BY <2>2 DEF StageSession
    <3>4. \A p \in Paths : Entry(Current, p[2], number) \in EntriesOf(p[2])
      BY <3>1, <3>2, EntryType
    <3>5. DOMAIN staging' = Paths /\ \A p \in Paths : staging'[p] \in EntriesOf(p[2])
      BY <3>3, <3>4
    <3>6. QED
      BY <2>2, <3>5 DEF StageSession
  <2>3. CASE NoUserCrash
    BY <2>3 DEF NoUserCrash
  <2>4. CASE AllParsed
    BY <2>4 DEF AllParsed
  <2>5. CASE Unsupported
    BY <2>5 DEF Unsupported
  <2>6. CASE DictionaryFails
    BY <2>6 DEF DictionaryFails
  <2>7. CASE AllStaged
    BY <2>7 DEF AllStaged
  <2>8. CASE Merge
    BY <2>8 DEF Merge
  <2>9. CASE Ended
    BY <2>9 DEF Ended, vars
  <2>10. CASE UNCHANGED vars
    BY <2>10 DEF vars
  <2>11. QED
    BY <2>1, <2>2, <2>3, <2>4, <2>5, <2>6, <2>7, <2>8, <2>9, <2>10 DEF Next
<1>3. QED
  BY <1>1, <1>2, PTL DEF Spec

-----------------------------------------------------------------------------
\* What a URL says about the entries of its session.

\* The value found for a key is the last one given for it.
LEMMA ValuedIsLast ==
  ASSUME NEW query \in Query, NEW key
  PROVE  IsLastValue(query, key, Valued(query, key))
<1> DEFINE hits == {i \in DOMAIN query : query[i].key = key}
<1>1. CASE hits = {}
  BY <1>1 DEF Valued, IsLastValue
<1>2. CASE hits # {}
  <2>1. Len(query) \in Nat /\ DOMAIN query = 1 .. Len(query) /\ hits \subseteq 1 .. Len(query)
    BY DEF Query
  <2>2. \E i \in hits : \A j \in hits : j <= i
    <3> HIDE DEF hits
    <3>1. QED
      BY <1>2, <2>1, LastPosition
  <2>3. PICK i \in hits : (\A j \in hits : j <= i) /\ Valued(query, key) = query[i].value
    BY <1>2, <2>2 DEF Valued
  <2>4. \A j \in DOMAIN query : j > i => query[j].key # key
    <3> SUFFICES ASSUME NEW j \in DOMAIN query, j > i, query[j].key = key PROVE FALSE
      OBVIOUS
    <3>1. j \in hits
      OBVIOUS
    <3>2. j <= i /\ i \in 1 .. Len(query) /\ j \in 1 .. Len(query)
      <4> HIDE DEF hits
      <4>1. QED
        BY <2>1, <2>3, <3>1
    <3>3. ~ (j > i)
      BY <2>1, <3>2
    <3>4. QED
      BY <3>3
  <2>5. i \in DOMAIN query /\ query[i].key = key
    BY <2>3
  <2>6. QED
    BY <2>3, <2>4, <2>5 DEF IsLastValue
<1>3. QED
  BY <1>1, <1>2

\* A supported session writes the entries its URL says something about.
LEMMA WrittenIsSaid ==
  ASSUME NEW url \in Url, SessionOf(url).protocol \in Supported, NEW key \in Keys
  PROVE  /\ SessionOf(url).service = ServiceOf(url)
         /\ SessionOf(url).protocol = url.protocol
         /\ key \in Written(SessionOf(url)) <=> Says(url, key)
<1> DEFINE s == SessionOf(url)
<1>1. s.service = ServiceOf(url)
  BY DEF SessionOf, ServiceOf, Given
<1>2. s.protocol = url.protocol
  BY DEF SessionOf, Given, Supported
<1>3. s.port = <<>> <=> url.port \in {Absent, <<>>}
  BY DEF SessionOf, Given
<1>4. s.protocol \in {"RSSL", "SSLED"}
  BY DEF Supported
<1> HIDE DEF s
<1>5. key \in Written(s) <=> Says(url, key)
  BY <1>2, <1>3, <1>4 DEF Written, Says, PortKey, Keys
<1>6. QED
  BY <1>1, <1>2, <1>5 DEF s

\* The user name of a session is the one its URL says.
LEMMA UserSaid ==
  ASSUME NEW url \in Url
  PROVE  UserAsGiven(url, DacsUser(SessionOf(url)))
<1> DEFINE s == SessionOf(url)
<1>1. s.user = IF url.user = Absent THEN log_name ELSE url.user
  BY DEF SessionOf, Given
<1>2. /\ IsLastValue(url.query, "application-id", s.application)
      /\ IsLastValue(url.query, "position", s.position)
  <2>1. url.query \in Query
    BY DEF Url
  <2>2. QED
    BY <2>1, ValuedIsLast DEF SessionOf
<1> HIDE DEF s
<1>3. CASE s.application = ""
  <2> DEFINE e == <<s.user>>
  <2>1. DacsUser(s) = e
    BY <1>3 DEF DacsUser
  <2>2. e # <<>> /\ e[1] = s.user /\ Len(e) = 1 /\ ~(Len(e) > 1) /\ ~(Len(e) > 2)
    OBVIOUS
  <2> HIDE DEF e
  <2>3. UserAsGiven(url, e)
    BY <1>1, <1>2, <1>3, <2>2 DEF UserAsGiven
  <2>4. QED
    BY <2>1, <2>3 DEF s
<1>4. CASE s.application # "" /\ s.position = ""
  <2> DEFINE e == <<s.user, s.application>>
  <2>1. DacsUser(s) = e
    BY <1>4 DEF DacsUser
  <2>2. /\ e # <<>> /\ e[1] = s.user /\ e[2] = s.application
        /\ Len(e) = 2 /\ Len(e) # 1 /\ ~(Len(e) > 2)
    OBVIOUS
  <2> HIDE DEF e
  <2>3. UserAsGiven(url, e)
    BY <1>1, <1>2, <1>4, <2>2 DEF UserAsGiven
  <2>4. QED
    BY <2>1, <2>3 DEF s
<1>5. CASE s.application # "" /\ s.position # ""
  <2> DEFINE e == <<s.user, s.application, s.position>>
  <2>1. DacsUser(s) = e
    BY <1>5 DEF DacsUser
  <2>2. /\ e # <<>> /\ e[1] = s.user /\ e[2] = s.application /\ e[3] = s.position
        /\ Len(e) = 3 /\ Len(e) # 1 /\ Len(e) # 2
    OBVIOUS
  <2> HIDE DEF e
  <2>3. UserAsGiven(url, e)
    BY <1>1, <1>2, <1>5, <2>2 DEF UserAsGiven
  <2>4. QED
    BY <2>1, <2>3 DEF s
<1>6. QED
  BY <1>3, <1>4, <1>5

\* What a session writes is what its URL says.
LEMMA EntryAsGiven ==
  ASSUME NEW url \in Url, SessionOf(url).protocol \in Supported,
         NEW key \in Keys, key \in Written(SessionOf(url)),
         NEW number \in PortNumbers(SessionOf(url).port)
  PROVE  AsGiven(url, key, Entry(SessionOf(url), key, number))
<1> DEFINE s == SessionOf(url)
           entry == Entry(s, key, number)
<1>1. s.service = ServiceOf(url) /\ s.protocol = url.protocol /\ Says(url, key)
  BY WrittenIsSaid
<1>2. s.server = IF url.host = Absent THEN "localhost" ELSE url.host
  BY DEF SessionOf, Given
<1>3. ASSUME key \in {"rsslPort", "portNumber"}
      PROVE  s.port = url.port /\ url.port \in Port /\ url.port # <<>>
  <2>1. url.port \notin {Absent, <<>>}
    BY <1>1, <1>3 DEF Says
  <2>2. QED
    BY <2>1 DEF SessionOf, Given, Url
<1>4. key = "portNumber" => PortAsGiven(url.port, <<number>>)
  BY <1>3, PortRead
<1>5. UserAsGiven(url, DacsUser(s))
  BY UserSaid
<1> HIDE DEF s
<1>6. /\ key = "connectionList" => entry = <<s.service>>
      /\ key = "serverList" => entry = <<s.server>>
      /\ key = "connectionType" => entry = <<s.protocol>>
      /\ key = "rsslPort" => entry = s.port
      /\ key = "portNumber" => entry = <<number>>
      /\ key = "userName" => entry = DacsUser(s)
  BY DEF Entry, NameOf
<1> HIDE DEF entry
<1>7. AsGiven(url, key, entry)
  BY <1>1, <1>2, <1>3, <1>4, <1>5, <1>6 DEF AsGiven
<1>8. QED
  BY <1>7 DEF entry, s

-----------------------------------------------------------------------------
\* The loops of torikuru_t::Init and rfa_t::Init.

\* Parsing a URL appends its session.
LEMMA UrlParsed ==
  ASSUME TypeOK, Parsing, ParseUrl
  PROVE  Parsing'
<1> DEFINE session == SessionOf(Head(urls))
           n == Len(sessions)
<1>1. /\ pc = "urls" /\ pc' = "urls" /\ staged = 0 /\ staged' = 0
      /\ given' = given /\ log_name' = log_name
      /\ sessions' = Append(sessions, session) /\ urls' = Tail(urls) /\ urls # <<>>
  BY DEF ParseUrl, Parsing
<1>2. /\ urls \in Seq(Url) /\ sessions \in Seq(Session) /\ given \in Seq(Url)
      /\ n \in Nat /\ Len(urls) \in Nat
  BY DEF TypeOK
<1>3. /\ n + Len(urls) = Len(given)
      /\ \A i \in 1 .. n : sessions[i] = SessionOf(given[i])
      /\ \A i \in 1 .. Len(urls) : urls[i] = given[n + i]
  <2>1. DOMAIN sessions = 1 .. n /\ DOMAIN urls = 1 .. Len(urls)
    BY <1>2
  <2>2. QED
    BY <2>1 DEF Parsing
<1>4. session \in Session
  <2>1. Head(urls) \in Url
    BY <1>1, <1>2
  <2>2. log_name \in Texts
    BY UrlAssumption DEF TypeOK
  <2>3. QED
    BY <2>1, <2>2, SessionType
<1>5. /\ Len(urls') = Len(urls) - 1 /\ 1 \in 1 .. Len(urls) /\ Head(urls) = urls[1]
      /\ \A i \in 1 .. Len(urls') : urls'[i] = urls[i + 1]
      /\ urls' \in Seq(Url)
  BY <1>1, <1>2
<1>6. session = SessionOf(given[n + 1])
  BY <1>3, <1>5
<1> HIDE DEF session
<1>7. /\ Len(sessions') = n + 1 /\ sessions' \in Seq(Session) /\ sessions'[n + 1] = session
      /\ \A i \in 1 .. n : sessions'[i] = sessions[i]
  BY <1>1, <1>2, <1>4
<1> HIDE DEF n
<1>8. Len(sessions') + Len(urls') = Len(given')
  BY <1>1, <1>2, <1>3, <1>5, <1>7
<1>9. \A i \in DOMAIN sessions' : sessions'[i] = SessionOf(given[i])
  <2> SUFFICES ASSUME NEW i \in 1 .. n + 1 PROVE sessions'[i] = SessionOf(given[i])
    BY <1>7
  <2>1. i \in 1 .. n \/ i = n + 1
    BY <1>2
  <2>2. QED
    BY <1>3, <1>6, <1>7, <2>1
<1>10. \A i \in DOMAIN urls' : urls'[i] = given[Len(sessions') + i]
  <2> SUFFICES ASSUME NEW i \in 1 .. Len(urls') PROVE urls'[i] = given[Len(sessions') + i]
    BY <1>5
  <2>1. i + 1 \in 1 .. Len(urls) /\ n + (i + 1) = (n + 1) + i
    BY <1>2, <1>5
  <2>2. urls'[i] = urls[i + 1] /\ urls[i + 1] = given[n + (i + 1)]
    BY <1>3, <1>5, <2>1
  <2>3. QED
    BY <1>7, <2>1, <2>2
<1>11. \A i \in DOMAIN sessions' : SessionOf(given[i])' = SessionOf(given[i])
  BY <1>1 DEF SessionOf
<1>12. QED
  BY <1>1, <1>8, <1>9, <1>10, <1>11 DEF Parsing

\* Staging a session writes the entries it is to write and leaves all others.
LEMMA SessionStaged ==
  ASSUME TypeOK, StagedSoFar, StageSession
  PROVE  StagedSoFar'
<1>0. PICK n : n = staged + 1
  OBVIOUS
<1>1. /\ sessions' = sessions /\ staged' = n /\ staged \in Nat
      /\ n \in DOMAIN sessions /\ DOMAIN sessions = 1 .. Len(sessions)
  <2>1. sessions \in Seq(Session) /\ staged \in 0 .. Len(sessions)
    BY DEF TypeOK
  <2>2. Len(sessions) \in Nat /\ DOMAIN sessions = 1 .. Len(sessions) /\ staged \in Nat
    BY <2>1
  <2>3. sessions' = sessions /\ staged' = staged + 1 /\ staged < Len(sessions)
    BY DEF StageSession
  <2>4. staged + 1 \in 1 .. Len(sessions)
    BY <2>2, <2>3
  <2>5. QED
    BY <1>0, <2>2, <2>3, <2>4
<1>2. \A i \in DOMAIN sessions : i <= n <=> i <= staged \/ i = n
  <2>1. \A i \in 1 .. Len(sessions) : i <= staged + 1 <=> i <= staged \/ i = staged + 1
    BY <1>1
  <2>2. QED
    BY <1>0, <1>1, <2>1
<1> SUFFICES ASSUME NEW name \in Names \cup {""}, NEW key \in Keys
             PROVE  \/ /\ staging'[<<name, key>>] = Unset
                       /\ \A i \in DOMAIN sessions' : ~WritesTo(i, name, key)'
                    \/ \E i \in DOMAIN sessions' : StagedBy(i, name, key)'
  BY DEF StagedSoFar, Keys
<1> DEFINE writes(i) == sessions[i].service = name /\ key \in Written(sessions[i])
           entry == staging[<<name, key>>]
<1>3. <<name, key>> \in Paths
  BY DEF Paths
<1>4. \A i \in DOMAIN sessions : WritesTo(i, name, key) <=> i <= staged /\ writes(i)
  BY DEF WritesTo
<1>5. \A i \in DOMAIN sessions : WritesTo(i, name, key)' <=> i <= n /\ writes(i)
  BY <1>1 DEF WritesTo
<1>6. \A i \in DOMAIN sessions :
        StagedBy(i, name, key)' <=>
          /\ WritesTo(i, name, key)'
          /\ \A j \in DOMAIN sessions : WritesTo(j, name, key)' => j <= i
          /\ \E number \in PortNumbers(sessions[i].port) :
               staging'[<<name, key>>] = Entry(sessions[i], key, number)
  BY <1>1 DEF StagedBy
<1>7. PICK number \in PortNumbers(sessions[n].port) :
        staging'[<<name, key>>] = IF writes(n) THEN Entry(sessions[n], key, number) ELSE entry
  BY <1>0, <1>3 DEF StageSession, Current, NameOf
<1> HIDE DEF writes, entry
<1>8. CASE writes(n)
  <2>1. \A j \in DOMAIN sessions : WritesTo(j, name, key)' => j <= n
    BY <1>5
  <2>2. n <= n
    BY <1>1, <1>2
  <2>3. StagedBy(n, name, key)'
    BY <1>1, <1>5, <1>6, <1>7, <1>8, <2>1, <2>2
  <2>4. QED
    BY <1>1, <2>3
<1>9. CASE ~writes(n)
  <2>1. \A i \in DOMAIN sessions : WritesTo(i, name, key)' <=> WritesTo(i, name, key)
    BY <1>4, <1>5, <1>2, <1>9
  <2>2. staging'[<<name, key>>] = staging[<<name, key>>]
    BY <1>7, <1>9 DEF entry
  <2>3. CASE /\ staging[<<name, key>>] = Unset
             /\ \A i \in DOMAIN sessions : ~WritesTo(i, name, key)
    BY <1>1, <2>1, <2>2, <2>3
  <2>4. ASSUME NEW i \in DOMAIN sessions, StagedBy(i, name, key)
        PROVE  StagedBy(i, name, key)'
    BY <1>6, <2>1, <2>2, <2>4 DEF StagedBy
  <2>5. QED
    BY <1>1, <2>3, <2>4 DEF StagedSoFar
<1>10. QED
  BY <1>8, <1>9

\* What is staged depends on the sessions staged alone.
LEMMA NothingStaged ==
  ASSUME StagedSoFar, UNCHANGED <<sessions, staged, staging>>
  PROVE  StagedSoFar'
<1> SUFFICES ASSUME NEW name \in Names \cup {""}, NEW key \in Keys
             PROVE  \/ /\ staging'[<<name, key>>] = Unset
                       /\ \A i \in DOMAIN sessions' : ~WritesTo(i, name, key)'
                    \/ \E i \in DOMAIN sessions' : StagedBy(i, name, key)'
  BY DEF StagedSoFar, Keys
<1>1. \A i \in DOMAIN sessions : WritesTo(i, name, key)' <=> WritesTo(i, name, key)
  BY DEF WritesTo
<1>2. \A i \in DOMAIN sessions : StagedBy(i, name, key)' <=> StagedBy(i, name, key)
  BY <1>1 DEF StagedBy
<1>3. \/ /\ staging[<<name, key>>] = Unset
         /\ \A i \in DOMAIN sessions : ~WritesTo(i, name, key)
      \/ \E i \in DOMAIN sessions : StagedBy(i, name, key)
  BY DEF StagedSoFar
<1>4. QED
  BY <1>1, <1>2, <1>3

\* The loop invariants hold initially and are kept by every step.
LEMMA InvariantKept == TypeOK /\ ConfigInvariant /\ [Next]_vars => ConfigInvariant'
<1> SUFFICES ASSUME TypeOK, ConfigInvariant, [Next]_vars
             PROVE  ConfigInvariant'
  OBVIOUS
<1>0. Parsing /\ StagedSoFar /\ staged \in Nat /\ DOMAIN sessions = 1 .. Len(sessions)
      /\ Len(sessions) \in Nat
  BY DEF ConfigInvariant, TypeOK
<1>1. CASE ParseUrl
  <2>1. Parsing'
    BY <1>0, <1>1, UrlParsed
  <2>2. pc' = "urls" /\ staged = 0 /\ staged' = 0 /\ staging' = staging
    BY <1>0, <1>1 DEF ParseUrl, Parsing
  <2>3. sessions' \in Seq(Session)
    <3>1. Head(urls) \in Url
      BY <1>1 DEF ParseUrl, TypeOK
    <3>2. SessionOf(Head(urls)) \in Session
      BY <3>1, SessionType, UrlAssumption DEF TypeOK
    <3>3. QED
      BY <1>1, <3>2 DEF ParseUrl, TypeOK
  <2>4. /\ \A i \in DOMAIN sessions : ~(i <= 0)
        /\ \A i \in DOMAIN sessions' : ~(i <= 0)
    BY <1>0, <2>3
  <2>5. ASSUME NEW name \in Names \cup {""}, NEW key \in Keys
        PROVE  staging[<<name, key>>] = Unset
    BY <1>0, <2>2, <2>4, <2>5 DEF StagedSoFar, StagedBy, WritesTo
  <2>6. StagedSoFar'
    BY <2>2, <2>4, <2>5 DEF StagedSoFar, WritesTo, Keys
  <2>7. QED
    BY <2>1, <2>2, <2>6 DEF ConfigInvariant
<1>2. CASE StageSession
  <2>1. Parsing'
    <3>1. UNCHANGED <<pc, log_name, given, urls, sessions>> /\ pc = "staging"
      BY <1>2 DEF StageSession
    <3>2. QED
      BY <1>0, <3>1 DEF Parsing, SessionOf
  <2>2. StagedSoFar'
    BY <1>0, <1>2, SessionStaged
  <2>3. \A i \in DOMAIN sessions' : i <= staged' => sessions'[i].protocol \in Supported
    <3>1. sessions' = sessions /\ staged' = staged + 1 /\ Current.protocol \in Supported
      BY <1>2 DEF StageSession
    <3>2. \A i \in DOMAIN sessions : i <= staged + 1 => i <= staged \/ i = staged + 1
      BY <1>0
    <3>3. QED
      BY <3>1, <3>2 DEF ConfigInvariant, Current
  <2>4. pc' = "staging"
    BY <1>2 DEF StageSession
  <2>5. QED
    BY <2>1, <2>2, <2>3, <2>4 DEF ConfigInvariant
<1>3. ASSUME UNCHANGED <<log_name, given, urls, sessions, staged, staging>>,
             pc' = "urls" => pc = "urls",
             pc' \in {"staging", "merge", "merged"} =>
               pc \in {"staging", "merge", "merged"} \/ urls = <<>>,
             pc' \in {"merge", "merged"} => pc \in {"merge", "merged"} \/ staged = Len(sessions)
      PROVE  ConfigInvariant'
  <2>1. StagedSoFar'
    BY <1>0, <1>3, NothingStaged
  <2>2. Parsing'
    BY <1>0, <1>3 DEF Parsing, SessionOf
  <2>3. QED
    BY <1>3, <2>1, <2>2 DEF ConfigInvariant
<1>4. CASE NoUserCrash
  BY <1>3, <1>4 DEF NoUserCrash
<1>5. CASE AllParsed
  BY <1>3, <1>5 DEF AllParsed
<1>6. CASE Unsupported
  BY <1>3, <1>6 DEF Unsupported
<1>7. CASE DictionaryFails
  BY <1>3, <1>7 DEF DictionaryFails
<1>8. CASE AllStaged
  BY <1>3, <1>8 DEF AllStaged
<1>9. CASE Merge
  BY <1>3, <1>9 DEF Merge
<1>10. CASE Ended \/ UNCHANGED vars
  BY <1>3, <1>10 DEF Ended, vars
<1>11. QED
  BY <1>1, <1>2, <1>4, <1>5, <1>6, <1>7, <1>8, <1>9, <1>10 DEF Next

\* Once the database is merged, every entry of every service is what the last
\* of the URLs of that service that says anything about it says, whatever the
\* list of URLs (torikuru_t::Init, and the writes of rfa_t::Init); the number
\* of an SSLED port is read from its digits (std::atoi).
THEOREM SessionsConnectAsGiven == Spec => []ConnectsAsGiven
<1>1. Init => ConfigInvariant
  <2> SUFFICES ASSUME Init
               PROVE  ConfigInvariant
    OBVIOUS
  <2>1. given \in Seq(Url) /\ urls = given /\ sessions = <<>> /\ staged = 0 /\ pc = "urls"
    BY UrlAssumption DEF Init
  <2>2. /\ Len(sessions) = 0 /\ DOMAIN sessions = {} /\ Len(given) \in Nat
        /\ 0 + Len(given) = Len(given) /\ \A i \in DOMAIN given : 0 + i = i
    BY <2>1
  <2>3. Parsing
    BY <2>1, <2>2 DEF Parsing
  <2>4. StagedSoFar
    <3>1. \A name \in Names \cup {""}, key \in Keys : staging[<<name, key>>] = Unset
      BY DEF Init, Paths
    <3>2. QED
      BY <2>2, <3>1 DEF StagedSoFar
  <2>5. QED
    BY <2>1, <2>2, <2>3, <2>4 DEF ConfigInvariant
<1>2. ConfigInvariant /\ TypeOK => ConnectsAsGiven
  <2> SUFFICES ASSUME ConfigInvariant, TypeOK, pc = "merged" PROVE ConnectsAsGiven
    BY DEF ConnectsAsGiven
  <2>1. /\ urls = <<>> /\ given \in Seq(Url) /\ sessions \in Seq(Session)
        /\ Len(sessions) + Len(urls) = Len(given) /\ staged = Len(sessions)
    BY DEF ConfigInvariant, Parsing, TypeOK
  <2>2. DOMAIN sessions = DOMAIN given /\ \A i \in DOMAIN sessions : i <= staged
    <3>1. /\ Len(sessions) \in Nat /\ Len(given) \in Nat /\ Len(urls) = 0
          /\ DOMAIN sessions = 1 .. Len(sessions) /\ DOMAIN given = 1 .. Len(given)
      BY <2>1
    <3>2. Len(sessions) = Len(given) /\ \A i \in 1 .. Len(sessions) : i <= staged
      BY <2>1, <3>1
    <3>3. QED
      BY <3>1, <3>2
  <2>3. ASSUME NEW i \in DOMAIN given
        PROVE  /\ given[i] \in Url /\ sessions[i] = SessionOf(given[i])
               /\ SessionOf(given[i]).protocol \in Supported
    <3>1. given[i] \in Url
      BY <2>1
    <3>2. i \in DOMAIN sessions /\ i <= staged
      BY <2>2
    <3>3. sessions[i] = SessionOf(given[i]) /\ sessions[i].protocol \in Supported
      BY <3>2 DEF ConfigInvariant, Parsing
    <3>4. QED
      BY <3>1, <3>3
  <2> SUFFICES ASSUME NEW name \in Names \cup {""}, NEW key \in Keys
               PROVE  LET about == {i \in DOMAIN given :
                                      ServiceOf(given[i]) = name /\ Says(given[i], key)}
                          entry == staging[<<name, key>>]
                      IN  \/ about = {} /\ entry = Unset
                          \/ \E i \in about : (\A j \in about : j <= i)
                                              /\ AsGiven(given[i], key, entry)
    BY DEF ConnectsAsGiven
  <2> DEFINE about == {i \in DOMAIN given : ServiceOf(given[i]) = name /\ Says(given[i], key)}
             entry == staging[<<name, key>>]
  <2>4. ASSUME NEW i \in DOMAIN given
        PROVE  WritesTo(i, name, key) <=> i \in about
    <3>1. /\ sessions[i].service = ServiceOf(given[i])
          /\ key \in Written(sessions[i]) <=> Says(given[i], key)
      BY <2>3, WrittenIsSaid
    <3>2. i <= staged
      BY <2>2
    <3>3. QED
      BY <3>1, <3>2 DEF WritesTo
  <2> HIDE DEF about
  <2>5. about \subseteq DOMAIN given
    BY DEF about
  <2>6. CASE entry = Unset /\ \A i \in DOMAIN sessions : ~WritesTo(i, name, key)
    <3>1. about = {}
      BY <2>2, <2>4, <2>5, <2>6
    <3>2. QED
      BY <2>6, <3>1 DEF about
  <2>7. ASSUME NEW i \in DOMAIN sessions, StagedBy(i, name, key)
        PROVE  i \in about /\ (\A j \in about : j <= i) /\ AsGiven(given[i], key, entry)
    <3>1. i \in DOMAIN given /\ WritesTo(i, name, key)
      BY <2>2, <2>7 DEF StagedBy
    <3>2. i \in about /\ \A j \in about : j <= i
      BY <2>2, <2>4, <2>5, <2>7, <3>1 DEF StagedBy
    <3>3. PICK number \in PortNumbers(sessions[i].port) : entry = Entry(sessions[i], key, number)
      BY <2>7 DEF StagedBy
    <3>4. key \in Written(sessions[i])
      BY <3>1 DEF WritesTo
    <3>5. AsGiven(given[i], key, Entry(SessionOf(given[i]), key, number))
      BY <2>3, <3>1, <3>3, <3>4, EntryAsGiven
    <3>6. QED
      BY <2>3, <3>1, <3>2, <3>3, <3>5
  <2>8. QED
    <3>1. \/ entry = Unset /\ \A i \in DOMAIN sessions : ~WritesTo(i, name, key)
          \/ \E i \in DOMAIN sessions : StagedBy(i, name, key)
      BY DEF ConfigInvariant, StagedSoFar
    <3>2. QED
      BY <2>6, <2>7, <3>1 DEF about
<1>3. QED
  BY <1>1, <1>2, InvariantKept, TypeCorrect, PTL DEF Spec

-----------------------------------------------------------------------------
\* Offsets and what lies between them.

\* The symbols at the offsets [a, b).
Between(spec, a, b) == SubSeq(spec, a + 1, b)

\* No symbol at these offsets is one of chars.
Free(spec, a, b, chars) == \A i \in a .. b - 1 : CharAt(spec, i) \notin chars

\* A set of offsets has a least one.
LEMMA LeastOffset ==
  ASSUME NEW a \in Nat, NEW b \in Nat, NEW H, H \subseteq a .. b, H # {}
  PROVE  Min(H) \in H /\ \A j \in H : Min(H) <= j
<1> DEFINE G == {b + 1 - i : i \in H}
<1>1. G \subseteq 1 .. b + 1 /\ G # {}
  <2>1. \A i \in H : b + 1 - i \in 1 .. b + 1
    OBVIOUS
  <2>2. QED
    BY <2>1
<1>2. PICK g \in G : \A j \in G : j <= g
  <2> HIDE DEF G
  <2>1. b + 1 \in Nat
    OBVIOUS
  <2>2. QED
    BY <1>1, <2>1, LastPosition
<1>3. PICK i \in H : g = b + 1 - i
  OBVIOUS
<1>4. \A j \in H : i <= j
  <2>1. TAKE j \in H
  <2>2. b + 1 - j <= b + 1 - i
    BY <1>2, <1>3
  <2>3. QED
    BY <2>2
<1>5. QED
  BY <1>4 DEF Min

\* ... and a greatest one; -1 counts as an offset here.
LEMMA GreatestOffset ==
  ASSUME NEW b \in Nat, NEW H, H \subseteq -1 .. b, H # {}
  PROVE  Max(H) \in H /\ \A j \in H : j <= Max(H)
<1> DEFINE G == {i + 2 : i \in H}
<1>1. G \subseteq 1 .. b + 2 /\ G # {}
  <2>1. \A i \in H : i + 2 \in 1 .. b + 2
    OBVIOUS
  <2>2. QED
    BY <2>1
<1>2. PICK g \in G : \A j \in G : j <= g
  <2> HIDE DEF G
  <2>1. b + 2 \in Nat
    OBVIOUS
  <2>2. QED
    BY <1>1, <2>1, LastPosition
<1>3. PICK i \in H : g = i + 2
  OBVIOUS
<1>4. \A j \in H : j <= i
  <2>1. TAKE j \in H
  <2>2. j + 2 <= i + 2
    BY <1>2, <1>3
  <2>3. QED
    BY <2>2
<1>5. QED
  BY <1>4 DEF Max

\* The first of some characters.
LEMMA FirstOfIs ==
  ASSUME NEW spec, NEW a \in Nat, NEW b \in Nat, a <= b, NEW chars
  PROVE  LET f == FirstOf(spec, a, b, chars)
         IN  /\ f \in a .. b
             /\ f < b => CharAt(spec, f) \in chars
             /\ Free(spec, a, f, chars)
<1> DEFINE H == Hits(spec, a, b, chars) \cup {b}
<1>1. H \subseteq a .. b /\ H # {}
  BY DEF Hits
<1>2. Min(H) \in H /\ \A j \in H : Min(H) <= j
  <2> HIDE DEF H
  <2>1. QED
    BY <1>1, LeastOffset
<1>3. Min(H) \in a .. b
  BY <1>1, <1>2
<1>4. Min(H) < b => CharAt(spec, Min(H)) \in chars
  BY <1>2 DEF Hits
<1>5. Free(spec, a, Min(H), chars)
  <2>1. SUFFICES ASSUME NEW i \in a .. Min(H) - 1, CharAt(spec, i) \in chars
                 PROVE  FALSE
    BY DEF Free
  <2>2. i \in a .. b - 1
    BY <1>3
  <2>3. i \in H
    BY <2>1, <2>2 DEF Hits
  <2>4. Min(H) <= i
    BY <1>2, <2>3
  <2>5. QED
    BY <1>3, <2>2, <2>4
<1>6. QED
  BY <1>3, <1>4, <1>5 DEF FirstOf

\* The last of some characters.
LEMMA LastOfIs ==
  ASSUME NEW spec, NEW a \in Nat, NEW b \in Nat, a <= b, NEW chars
  PROVE  LET f == LastOf(spec, a, b, chars)
         IN  /\ f = -1 \/ (f \in a .. b - 1 /\ CharAt(spec, f) \in chars)
             /\ f = -1 => Free(spec, a, b, chars)
             /\ f >= 0 => Free(spec, f + 1, b, chars)
<1> DEFINE H == Hits(spec, a, b, chars) \cup {-1}
<1>1. H \subseteq -1 .. b /\ H # {}
  BY DEF Hits
<1>2. Max(H) \in H /\ \A j \in H : j <= Max(H)
  <2> HIDE DEF H
  <2>1. QED
    BY <1>1, GreatestOffset
<1>3. Max(H) = -1 \/ (Max(H) \in a .. b - 1 /\ CharAt(spec, Max(H)) \in chars)
  BY <1>2 DEF Hits
<1>4. \A i \in a .. b - 1 : CharAt(spec, i) \in chars => i <= Max(H)
  <2>1. TAKE i \in a .. b - 1
  <2>2. HAVE CharAt(spec, i) \in chars
  <2>3. i \in H
    BY <2>2 DEF Hits
  <2>4. QED
    BY <1>2, <2>3
<1>5. Max(H) = -1 => Free(spec, a, b, chars)
  <2>1. HAVE Max(H) = -1
  <2>2. \A i \in a .. b - 1 : ~ (i <= -1)
    OBVIOUS
  <2>3. QED
    BY <1>4, <2>1, <2>2 DEF Free
<1>6. Max(H) >= 0 => Free(spec, Max(H) + 1, b, chars)
  <2>1. HAVE Max(H) >= 0
  <2> DEFINE m == Max(H)
  <2>2. m \in a .. b - 1
    BY <1>3, <2>1
  <2> HIDE DEF m
  <2>3. \A i \in m + 1 .. b - 1 : i \in a .. b - 1 /\ ~ (i <= m)
    BY <2>2
  <2>4. QED
    BY <1>4, <2>3 DEF Free, m
<1>7. QED
  BY <1>3, <1>5, <1>6 DEF LastOf

\* What lies between two offsets.
LEMMA BetweenIs ==
  ASSUME NEW S, NEW spec \in Seq(S), NEW a \in Nat, NEW b \in Nat, a <= b, b <= Len(spec)
  PROVE  /\ Between(spec, a, b) \in Seq(S)
         /\ Len(Between(spec, a, b)) = b - a
         /\ \A i \in 1 .. b - a : Between(spec, a, b)[i] = CharAt(spec, a + i - 1)
<1>1. \A i \in a + 1 .. b : spec[i] \in S
  OBVIOUS
<1>2. /\ Between(spec, a, b) \in Seq(S)
      /\ Len(Between(spec, a, b)) = IF a + 1 <= b THEN b - (a + 1) + 1 ELSE 0
      /\ \A i \in 1 .. b - (a + 1) + 1 : Between(spec, a, b)[i] = spec[(a + 1) + i - 1]
  BY <1>1, SubSeqProperties DEF Between
<1>3. QED
  BY <1>2 DEF CharAt

\* Two neighbours.
LEMMA Joined ==
  ASSUME NEW S, NEW spec \in Seq(S), NEW a \in Nat, NEW b \in Nat, NEW c \in Nat,
         a <= b, b <= c, c <= Len(spec)
  PROVE  Between(spec, a, b) \o Between(spec, b, c) = Between(spec, a, c)
<1>1. /\ a + 1 \in 1 .. Len(spec) + 1
      /\ b \in (a + 1) - 1 .. Len(spec)
      /\ c \in b .. Len(spec)
  OBVIOUS
<1>2. SubSeq(spec, a + 1, b) \o SubSeq(spec, b + 1, c) = SubSeq(spec, a + 1, c)
  BY <1>1, ConcatAdjacentSubSeq
<1>3. QED
  BY <1>2 DEF Between

\* A single symbol.
LEMMA SingleIs ==
  ASSUME NEW S, NEW spec \in Seq(S), NEW a \in Nat, a < Len(spec)
  PROVE  Between(spec, a, a + 1) = <<CharAt(spec, a)>>
<1> DEFINE b == a + 1
<1>1. b \in Nat /\ a <= b /\ b <= Len(spec) /\ b - a = 1 /\ a + 1 - 1 = a
  OBVIOUS
<1> HIDE DEF b
<1>2. /\ Between(spec, a, b) \in Seq(S)
      /\ Len(Between(spec, a, b)) = b - a
      /\ \A i \in 1 .. b - a : Between(spec, a, b)[i] = CharAt(spec, a + i - 1)
  BY <1>1, BetweenIs
<1>3. Len(Between(spec, a, b)) = 1 /\ Between(spec, a, b)[1] = CharAt(spec, a)
  BY <1>1, <1>2
<1>4. QED
  BY <1>2, <1>3 DEF b

\* Nothing lies between an offset and itself.
LEMMA NothingBetween ==
  ASSUME NEW S, NEW spec \in Seq(S), NEW a \in Nat, a <= Len(spec)
  PROVE  Between(spec, a, a) = << >>
<1>1. Between(spec, a, a) \in Seq(S) /\ Len(Between(spec, a, a)) = 0
  BY BetweenIs
<1>2. QED
  BY <1>1

\* What is free of some characters does not have them.
LEMMA FreeHasNot ==
  ASSUME NEW S, NEW spec \in Seq(S), NEW a \in Nat, NEW b \in Nat, a <= b, b <= Len(spec),
         NEW chars, Free(spec, a, b, chars)
  PROVE  ~Has(Between(spec, a, b), chars)
<1>1. SUFFICES ASSUME NEW i \in DOMAIN Between(spec, a, b), Between(spec, a, b)[i] \in chars
               PROVE  FALSE
  BY DEF Has
<1>2. i \in 1 .. b - a
  <2>1. Between(spec, a, b) \in Seq(S) /\ Len(Between(spec, a, b)) = b - a
    BY BetweenIs
  <2>2. QED
    BY <2>1
<1>3. Between(spec, a, b)[i] = CharAt(spec, a + i - 1)
  BY <1>2, BetweenIs
<1>4. a + i - 1 \in a .. b - 1
  BY <1>2
<1>5. QED
  BY <1>1, <1>3, <1>4 DEF Free

\* Part of what is free is.
LEMMA FreeWithin ==
  ASSUME NEW spec, NEW a \in Nat, NEW b \in Nat, NEW chars, Free(spec, a, b, chars),
         NEW c \in Nat, NEW d \in Nat, a <= c, d <= b
  PROVE  Free(spec, c, d, chars)
<1>1. c .. d - 1 \subseteq a .. b - 1
  OBVIOUS
<1>2. QED
  BY <1>1 DEF Free

-----------------------------------------------------------------------------
\* Components.

\* A component that is there.
LEMMA RangeIs ==
  ASSUME NEW S, NEW spec \in Seq(S), NEW a \in Nat, NEW b \in Nat, a <= b, b <= Len(spec)
  PROVE  /\ MakeRange(a, b).begin = a /\ MakeRange(a, b).len = b - a
         /\ EndOf(MakeRange(a, b)) = b
         /\ IsValid(MakeRange(a, b))
         /\ IsNonempty(MakeRange(a, b)) <=> a < b
         /\ Part(spec, MakeRange(a, b)) = Between(spec, a, b)
<1> DEFINE c == MakeRange(a, b)
<1>1. c.begin = a /\ c.len = b - a
  BY DEF MakeRange, Component
<1> HIDE DEF c
<1>2. EndOf(c) = b
  BY <1>1 DEF EndOf
<1>3. IsValid(c)
  BY <1>1 DEF IsValid
<1>4. IsNonempty(c) <=> a < b
  BY <1>1 DEF IsNonempty
<1>5. CASE a < b
  BY <1>1, <1>2, <1>3, <1>4, <1>5 DEF c, Part, Between
<1>6. CASE a = b
  <2>1. Part(spec, c) = << >>
    BY <1>4, <1>6 DEF Part
  <2>2. QED
    BY <1>1, <1>2, <1>3, <1>4, <1>6, <2>1, NothingBetween DEF c
<1>7. QED
  BY <1>5, <1>6

\* ... and one that is not.
LEMMA NoneIs ==
  ASSUME NEW spec, NEW before, NEW after
  PROVE  /\ ~IsValid(None) /\ ~IsNonempty(None) /\ Part(spec, None) = << >>
         /\ Around(spec, None, before, after) = << >>
  BY DEF None, IsValid, IsNonempty, Part, Around

\* A component on its own.
LEMMA AroundPlain ==
  ASSUME NEW S, NEW spec \in Seq(S), NEW a \in Nat, NEW b \in Nat, a <= b, b <= Len(spec)
  PROVE  Around(spec, MakeRange(a, b), << >>, << >>) = Between(spec, a, b)
<1>1. Between(spec, a, b) \in Seq(S)
  BY BetweenIs
<1>2. (<< >> \o Between(spec, a, b)) \o << >> = Between(spec, a, b)
  BY <1>1, ConcatEmptySeq
<1>3. QED
  BY <1>2, RangeIs DEF Around

\* ... with the symbol in front of it.
LEMMA AroundBefore ==
  ASSUME NEW S, NEW spec \in Seq(S), NEW a \in Nat, NEW b \in Nat, a < b, b <= Len(spec)
  PROVE  Around(spec, MakeRange(a + 1, b), <<CharAt(spec, a)>>, << >>) = Between(spec, a, b)
<1>1. Between(spec, a, a + 1) = <<CharAt(spec, a)>>
  BY SingleIs
<1>2. Between(spec, a, a + 1) \o Between(spec, a + 1, b) = Between(spec, a, b)
  BY Joined
<1>3. Between(spec, a, b) \o << >> = Between(spec, a, b)
  BY BetweenIs, ConcatEmptySeq
<1>4. a + 1 \in Nat /\ a + 1 <= b
  OBVIOUS
<1>5. IsValid(MakeRange(a + 1, b)) /\ Part(spec, MakeRange(a + 1, b)) = Between(spec, a + 1, b)
  BY <1>4, RangeIs
<1>6. QED
  BY <1>1, <1>2, <1>3, <1>5 DEF Around

\* ... with the one behind it.
LEMMA AroundAfter ==
  ASSUME NEW S, NEW spec \in Seq(S), NEW a \in Nat, NEW b \in Nat, a <= b, b < Len(spec)
  PROVE  Around(spec, MakeRange(a, b), << >>, <<CharAt(spec, b)>>) = Between(spec, a, b + 1)
<1>1. Between(spec, b, b + 1) = <<CharAt(spec, b)>>
  BY SingleIs
<1>2. Between(spec, a, b) \o Between(spec, b, b + 1) = Between(spec, a, b + 1)
  <2>1. b + 1 \in Nat /\ b <= b + 1 /\ b + 1 <= Len(spec)
    OBVIOUS
  <2>2. QED
    BY <2>1, Joined
<1>3. << >> \o Between(spec, a, b) = Between(spec, a, b)
  BY BetweenIs, ConcatEmptySeq
<1>4. IsValid(MakeRange(a, b)) /\ Part(spec, MakeRange(a, b)) = Between(spec, a, b)
  BY RangeIs
<1>5. QED
  BY <1>1, <1>2, <1>3, <1>4 DEF Around

\* A component within [a, b), if it is there at all.
Inside(c, a, b) ==
  c = None \/ \E x, y \in a .. b : x <= y /\ c = MakeRange(x, y)

\* A component has none of the characters its surroundings are free of.
LEMMA InsideHasNot ==
  ASSUME NEW S, NEW spec \in Seq(S), NEW a \in Nat, NEW b \in Nat, a <= b, b <= Len(spec),
         NEW chars, Free(spec, a, b, chars), NEW c, Inside(c, a, b)
  PROVE  ~Has(Part(spec, c), chars)
<1>1. CASE c = None
  <2>1. Part(spec, c) = << >>
    BY <1>1, NoneIs
  <2>2. QED
    BY <2>1 DEF Has
<1>2. CASE c # None
  <2>1. PICK x, y \in a .. b : x <= y /\ c = MakeRange(x, y)
    BY <1>2 DEF Inside
  <2>2. x \in Nat /\ y \in Nat /\ y <= Len(spec) /\ a <= x /\ y <= b
    BY <2>1
  <2>3. Free(spec, x, y, chars)
    BY <2>2, FreeWithin
  <2>4. ~Has(Between(spec, x, y), chars)
    BY <2>1, <2>2, <2>3, FreeHasNot
  <2>5. Part(spec, c) = Between(spec, x, y)
    BY <2>1, <2>2, RangeIs
  <2>6. QED
    BY <2>4, <2>5
<1>3. QED
  BY <1>1, <1>2

\* The symbols of a component are some.
LEMMA InsideType ==
  ASSUME NEW S, NEW spec \in Seq(S), NEW a \in Nat, NEW b \in Nat, a <= b, b <= Len(spec),
         NEW c, Inside(c, a, b)
  PROVE  Part(spec, c) \in Seq(S)
<1>1. CASE c = None
  <2>1. Part(spec, c) = << >>
    BY <1>1, NoneIs
  <2>2. QED
    BY <2>1
<1>2. CASE c # None
  <2>1. PICK x, y \in a .. b : x <= y /\ c = MakeRange(x, y)
    BY <1>2 DEF Inside
  <2>2. x \in Nat /\ y \in Nat /\ y <= Len(spec)
    BY <2>1
  <2>3. Part(spec, c) = Between(spec, x, y) /\ Between(spec, x, y) \in Seq(S)
    BY <2>1, <2>2, RangeIs, BetweenIs
  <2>4. QED
    BY <2>3
<1>3. QED
  BY <1>1, <1>2

\* What lies inside lies inside what is around.
LEMMA InsideWider ==
  ASSUME NEW a \in Nat, NEW b \in Nat, NEW c, Inside(c, a, b),
         NEW d \in Nat, NEW e \in Nat, d <= a, b <= e
  PROVE  Inside(c, d, e)
<1>1. a .. b \subseteq d .. e
  OBVIOUS
<1>2. QED
  BY <1>1 DEF Inside

\* None lies anywhere, and a range where it does.
LEMMA InsideIs ==
  ASSUME NEW a \in Nat, NEW b \in Nat
  PROVE  /\ Inside(None, a, b)
         /\ \A x, y \in a .. b : x <= y => Inside(MakeRange(x, y), a, b)
  BY DEF Inside

\* A concatenation has what its parts have.
LEMMA JoinedHasNot ==
  ASSUME NEW S, NEW s \in Seq(S), NEW t \in Seq(S), NEW chars, ~Has(s, chars), ~Has(t, chars)
  PROVE  ~Has(s \o t, chars)
<1>1. SUFFICES ASSUME NEW i \in DOMAIN (s \o t), (s \o t)[i] \in chars
               PROVE  FALSE
  BY DEF Has
<1>2. /\ s \o t \in Seq(S)
      /\ Len(s \o t) = Len(s) + Len(t)
      /\ \A k \in 1 .. Len(s) + Len(t) : (s \o t)[k] = IF k <= Len(s) THEN s[k] ELSE t[k - Len(s)]
  BY ConcatProperties
<1>3. i \in 1 .. Len(s) + Len(t)
  BY <1>2
<1>4. CASE i <= Len(s)
  <2>1. i \in DOMAIN s
    BY <1>3, <1>4
  <2>2. QED
    BY <1>1, <1>2, <1>3, <1>4, <2>1 DEF Has
<1>5. CASE ~ (i <= Len(s))
  <2>1. i - Len(s) \in DOMAIN t
    BY <1>3, <1>5
  <2>2. QED
    BY <1>1, <1>2, <1>3, <1>5, <2>1 DEF Has
<1>6. QED
  BY <1>4, <1>5

-----------------------------------------------------------------------------
\* The parts of a URL.

\* A user name and a password.
LEMMA UserInfoComposes ==
  ASSUME NEW S, NEW spec \in Seq(S), NEW a \in Nat, NEW b \in Nat, a <= b, b <= Len(spec)
  PROVE  LET u == ParseUserInfo(spec, MakeRange(a, b))
         IN  /\ IsValid(u.username)
             /\ Inside(u.username, a, b) /\ Inside(u.password, a, b)
             /\ ~Has(Part(spec, u.username), {":"})
             /\ Around(spec, u.username, << >>, << >>) \o Around(spec, u.password, <<":">>, << >>)
                  = Between(spec, a, b)
<1> DEFINE u == ParseUserInfo(spec, MakeRange(a, b))
           colon == FirstOf(spec, a, b, {":"})
<1>1. /\ colon \in a .. b
      /\ colon < b => CharAt(spec, colon) \in {":"}
      /\ Free(spec, a, colon, {":"})
  BY FirstOfIs
<1>2. MakeRange(a, b).begin = a /\ EndOf(MakeRange(a, b)) = b
  BY RangeIs
<1>3. u = IF colon < b
          THEN [username |-> MakeRange(a, colon), password |-> MakeRange(colon + 1, b)]
          ELSE [username |-> MakeRange(a, b), password |-> None]
  BY <1>2 DEF ParseUserInfo
<1> HIDE DEF u, colon
<1>4. /\ colon \in Nat /\ a <= colon /\ colon <= b /\ colon <= Len(spec)
      /\ a \in a .. b /\ b \in a .. b
  BY <1>1
<1>5. ~Has(Part(spec, MakeRange(a, colon)), {":"}) /\ IsValid(MakeRange(a, colon))
  <2>1. ~Has(Between(spec, a, colon), {":"})
    BY <1>1, <1>4, FreeHasNot
  <2>2. QED
    BY <1>4, <2>1, RangeIs
<1>6. CASE colon < b
  <2>1. u.username = MakeRange(a, colon) /\ u.password = MakeRange(colon + 1, b)
    BY <1>3, <1>6
  <2>2. colon + 1 \in a .. b /\ colon + 1 <= b
    BY <1>4, <1>6
  <2>3. Inside(u.username, a, b) /\ Inside(u.password, a, b)
    BY <1>1, <1>4, <2>1, <2>2, InsideIs
  <2>4. Around(spec, u.username, << >>, << >>) = Between(spec, a, colon)
    BY <1>4, <2>1, AroundPlain
  <2>5. Around(spec, u.password, <<":">>, << >>) = Between(spec, colon, b)
    <3>1. CharAt(spec, colon) = ":"
      BY <1>1, <1>6
    <3>2. Around(spec, MakeRange(colon + 1, b), <<CharAt(spec, colon)>>, << >>)
            = Between(spec, colon, b)
      BY <1>4, <1>6, AroundBefore
    <3>3. QED
      BY <2>1, <3>1, <3>2
  <2>6. Between(spec, a, colon) \o Between(spec, colon, b) = Between(spec, a, b)
    BY <1>4, Joined
  <2>7. QED
    BY <1>5, <2>1, <2>3, <2>4, <2>5, <2>6 DEF u
<1>7. CASE colon = b
  <2>1. u.username = MakeRange(a, b) /\ u.password = None
    BY <1>3, <1>4, <1>7
  <2>2. Inside(u.username, a, b) /\ Inside(u.password, a, b)
    BY <1>4, <2>1, InsideIs
  <2>3. Around(spec, u.username, << >>, << >>) = Between(spec, a, b)
    BY <2>1, AroundPlain
  <2>4. Around(spec, u.password, <<":">>, << >>) = << >>
    BY <2>1, NoneIs
  <2>5. Between(spec, a, b) \o << >> = Between(spec, a, b)
    BY BetweenIs, ConcatEmptySeq
  <2>6. QED
    BY <1>5, <1>7, <2>1, <2>2, <2>3, <2>4, <2>5 DEF u
<1>8. QED
  BY <1>4, <1>6, <1>7

\* What follows a symbol of a component.
LEMMA SuffixIs ==
  ASSUME NEW S, NEW spec \in Seq(S), NEW a \in Nat, NEW b \in Nat, b <= Len(spec),
         NEW i \in a .. b - 1
  PROVE  /\ i - a + 1 \in DOMAIN Between(spec, a, b)
         /\ Between(spec, a, b)[i - a + 1] = CharAt(spec, i)
         /\ Suffix(Between(spec, a, b), i - a + 1) = Between(spec, i + 1, b)
<1> DEFINE t == Between(spec, a, b)
           k == i - a + 1
<1>1. /\ t \in Seq(S) /\ Len(t) = b - a
      /\ \A j \in 1 .. b - a : t[j] = CharAt(spec, a + j - 1)
  <2>1. a <= b
    OBVIOUS
  <2>2. QED
    BY <2>1, BetweenIs
<1>2. k \in 1 .. b - a /\ a + k - 1 = i
  OBVIOUS
<1> HIDE DEF t, k
<1>3. k \in DOMAIN t /\ t[k] = CharAt(spec, i)
  <2>1. DOMAIN t = 1 .. b - a
    BY <1>1
  <2>2. t[k] = CharAt(spec, a + k - 1)
    BY <1>1, <1>2
  <2>3. QED
    BY <1>2, <2>1, <2>2
<1>4. Suffix(t, k) = Between(spec, i + 1, b)
  <2>1. /\ Suffix(t, k) \in Seq(S)
        /\ Len(Suffix(t, k)) = (b - a) - k
        /\ \A j \in 1 .. (b - a) - k : Suffix(t, k)[j] = t[k + j]
    <3>1. k + 1 \in Int /\ Len(t) \in Int /\ \A j \in k + 1 .. Len(t) : t[j] \in S
      BY <1>1, <1>2
    <3>2. /\ SubSeq(t, k + 1, Len(t)) \in Seq(S)
          /\ Len(SubSeq(t, k + 1, Len(t))) = IF k + 1 <= Len(t) THEN Len(t) - (k + 1) + 1 ELSE 0
          /\ \A j \in 1 .. Len(t) - (k + 1) + 1 : SubSeq(t, k + 1, Len(t))[j] = t[(k + 1) + j - 1]
      BY <3>1, SubSeqProperties
    <3>3. Len(t) - (k + 1) + 1 = (b - a) - k /\ Len(t) = b - a
      BY <1>1, <1>2
    <3>4. (IF k + 1 <= Len(t) THEN Len(t) - (k + 1) + 1 ELSE 0) = (b - a) - k
      BY <1>2, <3>3
    <3>5. \A j \in 1 .. (b - a) - k : (k + 1) + j - 1 = k + j
      BY <1>2
    <3>6. \A j \in 1 .. (b - a) - k : SubSeq(t, k + 1, Len(t))[j] = t[k + j]
      BY <3>2, <3>3, <3>5
    <3>7. QED
      BY <3>2, <3>4, <3>6 DEF Suffix
  <2>2. /\ Between(spec, i + 1, b) \in Seq(S)
        /\ Len(Between(spec, i + 1, b)) = b - (i + 1)
        /\ \A j \in 1 .. b - (i + 1) : Between(spec, i + 1, b)[j] = CharAt(spec, (i + 1) + j - 1)
    <3>1. i + 1 \in Nat /\ i + 1 <= b
      OBVIOUS
    <3>2. QED
      BY <3>1, BetweenIs
  <2>3. (b - a) - k = b - (i + 1)
    BY <1>2
  <2>4. \A j \in 1 .. b - (i + 1) : Suffix(t, k)[j] = Between(spec, i + 1, b)[j]
    <3>1. TAKE j \in 1 .. b - (i + 1)
    <3>2. k + j \in 1 .. b - a /\ a + (k + j) - 1 = (i + 1) + j - 1
      BY <1>2, <2>3
    <3>3. QED
      BY <1>1, <2>1, <2>2, <2>3, <3>2
  <2>5. QED
    BY <2>1, <2>2, <2>3, <2>4, SeqEqual
<1>5. QED
  BY <1>3, <1>4 DEF t, k

\* A host and a port.
LEMMA ServerComposes ==
  ASSUME NEW S, NEW spec \in Seq(S), NEW a \in Nat, NEW b \in Nat, a <= b, b <= Len(spec)
  PROVE  LET v == ParseServerInfo(spec, MakeRange(a, b))
         IN  /\ Inside(v.host, a, b) /\ Inside(v.port, a, b)
             /\ ~Has(Part(spec, v.port), {":", "]"})
             /\ Has(Part(spec, v.host), {":"}) /\ ~IsValid(v.port) => ColonInBrackets(Part(spec, v.host))
             /\ Around(spec, v.host, << >>, << >>) \o Around(spec, v.port, <<":">>, << >>)
                  = Between(spec, a, b)
<1> DEFINE server == MakeRange(a, b)
           v == ParseServerInfo(spec, server)
           colon == LastOf(spec, a, b, {":"})
           closing == LastOf(spec, a, b, {"]"})
           terminator == Ipv6Terminator(spec, server)
<1>1. server.begin = a /\ server.len = b - a /\ EndOf(server) = b
  BY RangeIs
<1>2. v = IF b - a = 0 THEN [host |-> None, port |-> None]
          ELSE IF colon > terminator
          THEN [host |-> IF colon = a THEN None ELSE MakeRange(a, colon),
                port |-> MakeRange(colon + 1, b)]
          ELSE [host |-> server, port |-> None]
  BY <1>1 DEF ParseServerInfo
<1>3. terminator = IF closing >= 0 THEN closing ELSE IF CharAt(spec, a) = "[" THEN b ELSE -1
  BY <1>1 DEF Ipv6Terminator
<1>4. /\ colon = -1 \/ (colon \in a .. b - 1 /\ CharAt(spec, colon) \in {":"})
      /\ colon = -1 => Free(spec, a, b, {":"})
      /\ colon >= 0 => Free(spec, colon + 1, b, {":"})
  BY LastOfIs
<1>5. /\ closing = -1 \/ (closing \in a .. b - 1 /\ CharAt(spec, closing) \in {"]"})
      /\ closing = -1 => Free(spec, a, b, {"]"})
      /\ closing >= 0 => Free(spec, closing + 1, b, {"]"})
  BY LastOfIs
<1> HIDE DEF v, colon, closing, terminator
<1>6. a \in a .. b /\ b \in a .. b
  OBVIOUS
<1>7. CASE a = b
  <2>1. v.host = None /\ v.port = None
    BY <1>2, <1>7
  <2>2. Between(spec, a, b) = << >>
    BY <1>7, NothingBetween
  <2>3. /\ Part(spec, None) = << >>
        /\ Around(spec, None, << >>, << >>) = << >> /\ Around(spec, None, <<":">>, << >>) = << >>
    BY NoneIs
  <2>4. ~Has(<< >>, {":", "]"}) /\ ~Has(<< >>, {":"})
    BY DEF Has
  <2>5. << >> \o << >> = << >>
    OBVIOUS
  <2>6. QED
    BY <2>1, <2>2, <2>3, <2>4, <2>5, InsideIs DEF v
<1>8. CASE a < b /\ colon > terminator
  <2>1. colon \in a .. b - 1 /\ CharAt(spec, colon) = ":"
    BY <1>3, <1>4, <1>5, <1>8
  <2>2. /\ v.host = IF colon = a THEN None ELSE MakeRange(a, colon)
        /\ v.port = MakeRange(colon + 1, b)
    BY <1>2, <1>8
  <2>3. colon \in Nat /\ colon + 1 \in a .. b /\ colon \in a .. b /\ colon + 1 <= b /\ colon < b
    BY <2>1
  <2>4. Inside(v.host, a, b) /\ Inside(v.port, a, b)
    BY <1>6, <2>2, <2>3, InsideIs
  <2>5. Free(spec, colon + 1, b, {":", "]"})
    <3>1. Free(spec, colon + 1, b, {":"})
      BY <1>4, <2>3
    <3>2. Free(spec, colon + 1, b, {"]"})
      <4>1. CASE closing = -1
        BY <1>5, <2>3, <4>1, FreeWithin
      <4>2. CASE closing # -1
        <5>1. closing \in Nat /\ closing < colon /\ Free(spec, closing + 1, b, {"]"})
          BY <1>3, <1>5, <1>8, <4>2
        <5>2. closing + 1 \in Nat /\ closing + 1 <= colon + 1 /\ colon + 1 \in Nat
          BY <2>3, <5>1
        <5>3. QED
          BY <5>1, <5>2, FreeWithin
      <4>3. QED
        BY <4>1, <4>2
    <3>3. QED
      BY <3>1, <3>2 DEF Free
  <2>6. ~Has(Part(spec, v.port), {":", "]"}) /\ IsValid(v.port)
    <3>1. ~Has(Between(spec, colon + 1, b), {":", "]"})
      BY <2>3, <2>5, FreeHasNot
    <3>2. /\ IsValid(MakeRange(colon + 1, b))
          /\ Part(spec, MakeRange(colon + 1, b)) = Between(spec, colon + 1, b)
      <4>1. colon + 1 \in Nat
        BY <2>3
      <4>2. QED
        BY <2>3, <4>1, RangeIs
    <3>3. QED
      BY <2>2, <3>1, <3>2
  <2>7. Around(spec, v.port, <<":">>, << >>) = Between(spec, colon, b)
    <3>1. Around(spec, MakeRange(colon + 1, b), <<CharAt(spec, colon)>>, << >>)
            = Between(spec, colon, b)
      BY <2>3, AroundBefore
    <3>2. QED
      BY <2>1, <2>2, <3>1
  <2>8. Around(spec, v.host, << >>, << >>) = Between(spec, a, colon)
    <3>1. CASE colon = a
      BY <2>2, <2>3, <3>1, NoneIs, NothingBetween
    <3>2. CASE colon # a
      <4>1. a <= colon /\ colon <= Len(spec)
        BY <2>1
      <4>2. QED
        BY <2>2, <2>3, <3>2, <4>1, AroundPlain
    <3>3. QED
      BY <3>1, <3>2
  <2>9. Between(spec, a, colon) \o Between(spec, colon, b) = Between(spec, a, b)
    <3>1. a <= colon /\ colon <= b
      BY <2>1
    <3>2. QED
      BY <2>3, <3>1, Joined
  <2>10. QED
    BY <2>4, <2>6, <2>7, <2>8, <2>9 DEF v
<1>9. CASE a < b /\ ~ (colon > terminator)
  <2>1. v.host = server /\ v.port = None
    BY <1>2, <1>9
  <2>2. Inside(v.host, a, b) /\ Inside(v.port, a, b)
    BY <1>6, <1>9, <2>1, InsideIs
  <2>3. /\ Part(spec, None) = << >> /\ Around(spec, None, <<":">>, << >>) = << >>
        /\ ~Has(<< >>, {":", "]"})
    BY NoneIs DEF Has
  <2>4. Part(spec, v.host) = Between(spec, a, b)
    BY <2>1, RangeIs
  <2>5. Around(spec, v.host, << >>, << >>) = Between(spec, a, b)
    BY <2>1, AroundPlain
  <2>6. Between(spec, a, b) \in Seq(S) /\ Between(spec, a, b) \o << >> = Between(spec, a, b)
    BY BetweenIs, ConcatEmptySeq
  <2>7. Has(Part(spec, v.host), {":"}) => ColonInBrackets(Part(spec, v.host))
    <3>1. HAVE Has(Part(spec, v.host), {":"})
    <3>2. colon # -1
      BY <1>4, <2>4, <3>1, FreeHasNot
    <3>3. CASE closing = -1
      <4>1. CharAt(spec, a) = "["
        BY <1>3, <1>4, <1>9, <3>2, <3>3
      <4>2. ~Has(Between(spec, a, b), {"]"})
        BY <1>5, <3>3, FreeHasNot
      <4>3. Head(Between(spec, a, b)) = CharAt(spec, a)
        <5>1. Between(spec, a, b)[1] = CharAt(spec, a)
          <6>1. \A i \in 1 .. b - a : Between(spec, a, b)[i] = CharAt(spec, a + i - 1)
            BY BetweenIs
          <6>2. 1 \in 1 .. b - a /\ a + 1 - 1 = a
            BY <1>9
          <6>3. QED
            BY <6>1, <6>2
        <5>2. QED
          BY <5>1, <2>6
      <4>4. QED
        BY <2>4, <4>1, <4>2, <4>3 DEF ColonInBrackets
    <3>4. CASE closing # -1
      <4>1. closing \in a .. b - 1 /\ CharAt(spec, closing) = "]" /\ colon <= closing
        BY <1>3, <1>4, <1>5, <1>9, <3>4
      <4>2. /\ closing - a + 1 \in DOMAIN Between(spec, a, b)
            /\ Between(spec, a, b)[closing - a + 1] = CharAt(spec, closing)
            /\ Suffix(Between(spec, a, b), closing - a + 1) = Between(spec, closing + 1, b)
        BY <4>1, SuffixIs
      <4>3. Free(spec, closing + 1, b, {":"})
        <5>1. colon + 1 \in Nat /\ closing + 1 \in Nat /\ colon + 1 <= closing + 1
              /\ Free(spec, colon + 1, b, {":"})
          BY <1>4, <3>2, <4>1
        <5>2. QED
          BY <5>1, FreeWithin
      <4>4. ~Has(Between(spec, closing + 1, b), {":"})
        <5>1. closing + 1 \in Nat /\ closing + 1 <= b
          BY <4>1
        <5>2. QED
          BY <4>3, <5>1, FreeHasNot
      <4>5. QED
        BY <2>4, <4>1, <4>2, <4>4 DEF ColonInBrackets
    <3>5. QED
      BY <3>3, <3>4
  <2>8. QED
    BY <2>1, <2>2, <2>3, <2>5, <2>6, <2>7 DEF v
<1>10. QED
  BY <1>7, <1>8, <1>9

\* The first of two offsets.
LEMMA EarlierOf ==
  ASSUME NEW x \in Nat, NEW y \in Nat
  PROVE  Min({x, y}) = IF x <= y THEN x ELSE y
<1>1. CASE x <= y
  <2>1. {x, y} \subseteq x .. y /\ {x, y} # {}
    BY <1>1
  <2>2. Min({x, y}) \in {x, y} /\ \A j \in {x, y} : Min({x, y}) <= j
    BY <2>1, LeastOffset
  <2>3. QED
    BY <1>1, <2>2
<1>2. CASE ~ (x <= y)
  <2>1. {x, y} \subseteq y .. x /\ {x, y} # {}
    BY <1>2
  <2>2. Min({x, y}) \in {x, y} /\ \A j \in {x, y} : Min({x, y}) <= j
    BY <2>1, LeastOffset
  <2>3. QED
    BY <1>2, <2>2
<1>3. QED
  BY <1>1, <1>2

\* What the symbols between two offsets begin with.
LEMMA HeadIs ==
  ASSUME NEW S, NEW spec \in Seq(S), NEW a \in Nat, NEW b \in Nat, a < b, b <= Len(spec)
  PROVE  Head(Between(spec, a, b)) = CharAt(spec, a)
<1>1. \A i \in 1 .. b - a : Between(spec, a, b)[i] = CharAt(spec, a + i - 1)
  BY BetweenIs
<1>2. 1 \in 1 .. b - a /\ a + 1 - 1 = a
  OBVIOUS
<1>3. Between(spec, a, b)[1] = CharAt(spec, a)
  BY <1>1, <1>2
<1>4. Between(spec, a, b) \in Seq(S) /\ Len(Between(spec, a, b)) = b - a
  <2>1. a <= b
    OBVIOUS
  <2>2. QED
    BY <2>1, BetweenIs
<1>5. QED
  BY <1>3, <1>4

\* Where a path, its query and its reference end: the reference begins at the
\* first #, the query at a ? in front of it.
LEMMA PathEnds ==
  ASSUME NEW S, NEW spec \in Seq(S), NEW a \in Nat, NEW b \in Nat, a < b, b <= Len(spec),
         NEW hash, hash = FirstOf(spec, a, b, {"#"}),
         NEW mark, mark = QueryMark(spec, MakeRange(a, b)),
         NEW end, end = Min({hash, mark})
  PROVE  /\ hash \in a .. b /\ mark \in a .. b /\ end \in a .. hash
         /\ hash < b => CharAt(spec, hash) = "#"
         /\ Free(spec, a, hash, {"#"})
         /\ Free(spec, a, end, {"?", "#"})
         /\ IF mark < b THEN end = mark /\ mark < hash /\ CharAt(spec, mark) = "?"
            ELSE end = hash
<1> DEFINE first == FirstOf(spec, a, b, {"?", "#"})
<1>1. /\ hash \in a .. b
      /\ hash < b => CharAt(spec, hash) \in {"#"}
      /\ Free(spec, a, hash, {"#"})
  BY FirstOfIs
<1>2. /\ first \in a .. b
      /\ first < b => CharAt(spec, first) \in {"?", "#"}
      /\ Free(spec, a, first, {"?", "#"})
  BY FirstOfIs
<1>3. mark = IF first < b /\ CharAt(spec, first) = "?" THEN first ELSE b
  <2>1. MakeRange(a, b).begin = a /\ EndOf(MakeRange(a, b)) = b
    BY RangeIs
  <2>2. QED
    BY <2>1 DEF QueryMark
<1> HIDE DEF first
<1>4. first <= hash
  <2>1. SUFFICES ASSUME hash < first
                 PROVE  FALSE
    BY <1>1, <1>2
  <2>2. hash \in a .. first - 1 /\ hash < b
    BY <1>1, <1>2, <2>1
  <2>3. QED
    BY <1>1, <1>2, <2>2 DEF Free
<1>5. mark \in a .. b /\ hash \in Nat /\ mark \in Nat
  BY <1>1, <1>2, <1>3
<1>6. end = IF hash <= mark THEN hash ELSE mark
  BY <1>5, EarlierOf
<1>7. CASE first < b /\ CharAt(spec, first) = "?"
  <2>1. mark = first
    BY <1>3, <1>7
  <2>2. hash # first
    BY <1>1, <1>7
  <2>3. mark < hash
    BY <1>1, <1>2, <1>4, <2>1, <2>2
  <2>4. end = mark
    BY <1>5, <1>6, <2>3
  <2>5. end \in a .. hash
    BY <1>5, <1>1, <2>3, <2>4
  <2>6. QED
    BY <1>1, <1>2, <1>5, <1>7, <2>1, <2>3, <2>4, <2>5
<1>8. CASE ~ (first < b /\ CharAt(spec, first) = "?")
  <2>1. mark = b
    BY <1>3, <1>8
  <2>2. end = hash
    BY <1>1, <1>5, <1>6, <2>1
  <2>3. hash = first
    <3>1. CASE first = b
      BY <1>1, <1>4, <3>1
    <3>2. CASE first # b
      <4>1. first < b /\ CharAt(spec, first) = "#"
        BY <1>2, <1>8, <3>2
      <4>2. ~ (first \in a .. hash - 1)
        BY <1>1, <4>1 DEF Free
      <4>3. QED
        BY <1>1, <1>2, <1>4, <4>2
    <3>3. QED
      BY <3>1, <3>2
  <2>4. end \in a .. hash
    BY <1>1, <2>2
  <2>5. ~ (mark < b)
    BY <2>1
  <2>6. QED
    BY <1>1, <1>2, <1>5, <2>2, <2>3, <2>4, <2>5
<1>9. QED
  BY <1>7, <1>8

\* A path, a query and a reference.
LEMMA PathComposes ==
  ASSUME NEW S, NEW spec \in Seq(S), NEW a \in Nat, NEW b \in Nat, a < b, b <= Len(spec),
         CharAt(spec, a) \in AuthorityTerminators
  PROVE  LET r == ParsePath(spec, MakeRange(a, b))
         IN  /\ ~Has(Part(spec, r.path), {"?", "#"})
             /\ IsNonempty(r.path) => Head(Part(spec, r.path)) \in Slashes
             /\ ~Has(Part(spec, r.query), {"#"})
             /\ Inside(r.path, a, b) /\ Inside(r.query, a, b) /\ Inside(r.ref, a, b)
             /\ (Around(spec, r.path, << >>, << >>) \o Around(spec, r.query, <<"?">>, << >>))
                    \o Around(spec, r.ref, <<"#">>, << >>)
                  = Between(spec, a, b)
<1> DEFINE r == ParsePath(spec, MakeRange(a, b))
           hash == FirstOf(spec, a, b, {"#"})
           mark == QueryMark(spec, MakeRange(a, b))
           end == Min({hash, mark})
<1>1. r = [path |-> IF end = a THEN None ELSE MakeRange(a, end),
           query |-> IF mark < b THEN MakeRange(mark + 1, hash) ELSE None,
           ref |-> IF hash < b THEN MakeRange(hash + 1, b) ELSE None]
  <2>1. /\ MakeRange(a, b).begin = a /\ EndOf(MakeRange(a, b)) = b
        /\ IsValid(MakeRange(a, b))
    BY RangeIs
  <2>2. QED
    BY <2>1 DEF ParsePath
<1>2. /\ hash \in a .. b /\ mark \in a .. b /\ end \in a .. hash
      /\ hash < b => CharAt(spec, hash) = "#"
      /\ Free(spec, a, hash, {"#"})
      /\ Free(spec, a, end, {"?", "#"})
      /\ IF mark < b THEN end = mark /\ mark < hash /\ CharAt(spec, mark) = "?"
         ELSE end = hash
  BY PathEnds
<1> HIDE DEF r, hash, mark, end
<1>3. /\ hash \in Nat /\ mark \in Nat /\ end \in Nat
      /\ a <= end /\ end <= hash /\ hash <= b /\ hash <= Len(spec) /\ end <= Len(spec)
      /\ end \in a .. b /\ a \in a .. b /\ b \in a .. b /\ a <= hash
  BY <1>2
<1>4. /\ ~Has(Part(spec, r.path), {"?", "#"})
      /\ IsNonempty(r.path) => Head(Part(spec, r.path)) \in Slashes
      /\ Inside(r.path, a, b)
      /\ Around(spec, r.path, << >>, << >>) = Between(spec, a, end)
  <2>1. CASE end = a
    <3>1. r.path = None
      BY <1>1, <2>1
    <3>2. Between(spec, a, end) = << >>
      BY <1>3, <2>1, NothingBetween
    <3>3. QED
      BY <1>3, <3>1, <3>2, NoneIs, InsideIs DEF Has
  <2>2. CASE end # a
    <3>1. r.path = MakeRange(a, end) /\ a < end
      BY <1>1, <1>3, <2>2
    <3>2. Part(spec, r.path) = Between(spec, a, end)
      BY <1>3, <3>1, RangeIs
    <3>3. ~Has(Between(spec, a, end), {"?", "#"})
      BY <1>2, <1>3, FreeHasNot
    <3>4. Head(Between(spec, a, end)) \in Slashes
      <4>1. Head(Between(spec, a, end)) = CharAt(spec, a)
        BY <1>3, <3>1, HeadIs
      <4>2. a \in a .. end - 1
        BY <1>3, <3>1
      <4>3. CharAt(spec, a) \notin {"?", "#"}
        BY <1>2, <4>2 DEF Free
      <4>4. QED
        BY <4>1, <4>3 DEF AuthorityTerminators
    <3>5. Around(spec, r.path, << >>, << >>) = Between(spec, a, end)
      BY <1>3, <3>1, AroundPlain
    <3>6. Inside(r.path, a, b)
      BY <1>3, <3>1, InsideIs
    <3>7. QED
      BY <3>2, <3>3, <3>4, <3>5, <3>6
  <2>3. QED
    BY <2>1, <2>2
<1>5. /\ ~Has(Part(spec, r.query), {"#"})
      /\ Inside(r.query, a, b)
      /\ Around(spec, r.query, <<"?">>, << >>) = Between(spec, end, hash)
  <2>1. CASE mark < b
    <3>1. r.query = MakeRange(mark + 1, hash)
      BY <1>1, <2>1
    <3>2. end = mark /\ mark < hash /\ CharAt(spec, mark) = "?"
      BY <1>2, <2>1
    <3>3. mark + 1 \in Nat /\ mark + 1 <= hash /\ mark + 1 \in a .. b /\ hash \in a .. b
          /\ a <= mark + 1
      BY <1>2, <1>3, <3>2
    <3>4. Part(spec, r.query) = Between(spec, mark + 1, hash)
      BY <1>3, <3>1, <3>3, RangeIs
    <3>5. Free(spec, mark + 1, hash, {"#"})
      BY <1>2, <1>3, <3>3, FreeWithin
    <3>6. ~Has(Between(spec, mark + 1, hash), {"#"})
      BY <1>3, <3>3, <3>5, FreeHasNot
    <3>7. Around(spec, MakeRange(mark + 1, hash), <<CharAt(spec, mark)>>, << >>)
            = Between(spec, mark, hash)
      BY <1>3, <3>2, AroundBefore
    <3>8. Inside(r.query, a, b)
      BY <3>1, <3>3, InsideIs
    <3>9. QED
      BY <3>1, <3>2, <3>4, <3>6, <3>7, <3>8
  <2>2. CASE ~ (mark < b)
    <3>1. r.query = None /\ end = hash
      BY <1>1, <1>2, <2>2
    <3>2. Between(spec, end, hash) = << >>
      BY <1>3, <3>1, NothingBetween
    <3>3. QED
      BY <3>1, <3>2, NoneIs, InsideIs DEF Has
  <2>3. QED
    BY <2>1, <2>2
<1>6. /\ Inside(r.ref, a, b)
      /\ Around(spec, r.ref, <<"#">>, << >>) = Between(spec, hash, b)
  <2>1. CASE hash < b
    <3>1. r.ref = MakeRange(hash + 1, b) /\ CharAt(spec, hash) = "#"
      BY <1>1, <1>2, <2>1
    <3>2. Around(spec, MakeRange(hash + 1, b), <<CharAt(spec, hash)>>, << >>)
            = Between(spec, hash, b)
      BY <1>3, <2>1, AroundBefore
    <3>3. hash + 1 \in a .. b /\ hash + 1 <= b
      BY <1>3, <2>1
    <3>4. Inside(r.ref, a, b)
      BY <1>3, <3>1, <3>3, InsideIs
    <3>5. QED
      BY <3>1, <3>2, <3>4
  <2>2. CASE ~ (hash < b)
    <3>1. r.ref = None /\ hash = b
      BY <1>1, <1>3, <2>2
    <3>2. Between(spec, hash, b) = << >>
      BY <1>3, <3>1, NothingBetween
    <3>3. QED
      BY <3>1, <3>2, NoneIs, InsideIs
  <2>3. QED
    BY <2>1, <2>2
<1>7. Between(spec, a, end) \o Between(spec, end, hash) = Between(spec, a, hash)
  BY <1>3, Joined
<1>8. Between(spec, a, hash) \o Between(spec, hash, b) = Between(spec, a, b)
  BY <1>3, Joined
<1>9. QED
  BY <1>4, <1>5, <1>6, <1>7, <1>8 DEF r

\* User information and a server.
LEMMA AuthorityComposes ==
  ASSUME NEW S, NEW spec \in Seq(S), NEW a \in Nat, NEW b \in Nat, a <= b, b <= Len(spec)
  PROVE  LET w == ParseAuthority(spec, MakeRange(a, b))
         IN  /\ \A c \in {w.username, w.password, w.host, w.port} : Inside(c, a, b)
             /\ ~Has(Part(spec, w.username), {":"})
             /\ ~Has(Part(spec, w.host) \o Part(spec, w.port), {"@"})
             /\ ~Has(Part(spec, w.port), {":", "]"})
             /\ Has(Part(spec, w.host), {":"}) /\ ~IsValid(w.port) => ColonInBrackets(Part(spec, w.host))
             /\ \E s \in a .. b :
                  /\ (Around(spec, w.username, << >>, << >>)
                        \o Around(spec, w.password, <<":">>, << >>))
                        \o (IF IsValid(w.username) THEN <<"@">> ELSE << >>)
                       = Between(spec, a, s)
                  /\ Around(spec, w.host, << >>, << >>) \o Around(spec, w.port, <<":">>, << >>)
                       = Between(spec, s, b)
<1> DEFINE w == ParseAuthority(spec, MakeRange(a, b))
           at == UserInfoEnd(spec, MakeRange(a, b))
           u == IF at >= 0 THEN ParseUserInfo(spec, MakeRange(a, at))
                ELSE [username |-> None, password |-> None]
           s == IF at >= 0 THEN at + 1 ELSE a
           v == ParseServerInfo(spec, MakeRange(s, b))
<1>1. MakeRange(a, b).begin = a /\ EndOf(MakeRange(a, b)) = b
  BY RangeIs
<1>2. /\ w.username = u.username /\ w.password = u.password
      /\ w.host = v.host /\ w.port = v.port
  BY <1>1 DEF ParseAuthority
<1>3. /\ at = -1 \/ (at \in a .. b - 1 /\ CharAt(spec, at) \in {"@"})
      /\ at = -1 => Free(spec, a, b, {"@"})
      /\ at >= 0 => Free(spec, at + 1, b, {"@"})
  BY <1>1, LastOfIs DEF UserInfoEnd
<1>4. /\ s \in Nat /\ a <= s /\ s <= b /\ s \in a .. b
      /\ Free(spec, s, b, {"@"})
  BY <1>3
<1>5. /\ Inside(v.host, s, b) /\ Inside(v.port, s, b)
      /\ ~Has(Part(spec, v.port), {":", "]"})
      /\ Has(Part(spec, v.host), {":"}) /\ ~IsValid(v.port) => ColonInBrackets(Part(spec, v.host))
      /\ Around(spec, v.host, << >>, << >>) \o Around(spec, v.port, <<":">>, << >>)
           = Between(spec, s, b)
  <2> HIDE DEF s
  <2>1. QED
    BY <1>4, ServerComposes
<1>6. /\ Inside(u.username, a, b) /\ Inside(u.password, a, b)
      /\ ~Has(Part(spec, u.username), {":"})
      /\ (Around(spec, u.username, << >>, << >>) \o Around(spec, u.password, <<":">>, << >>))
            \o (IF IsValid(u.username) THEN <<"@">> ELSE << >>)
           = Between(spec, a, s)
  <2>1. CASE at = -1
    <3>1. u.username = None /\ u.password = None /\ s = a
      BY <2>1
    <3>2. Between(spec, a, s) = << >>
      BY <3>1, NothingBetween
    <3>3. (<< >> \o << >>) \o << >> = << >>
      OBVIOUS
    <3> HIDE DEF u, s
    <3>4. Inside(None, a, b)
      BY InsideIs
    <3>5. /\ Part(spec, None) = << >> /\ ~IsValid(None)
          /\ Around(spec, None, << >>, << >>) = << >> /\ Around(spec, None, <<":">>, << >>) = << >>
      BY NoneIs
    <3>6. QED
      BY <3>1, <3>2, <3>3, <3>4, <3>5 DEF Has
  <2>2. CASE at # -1
    <3>1. /\ at \in Nat /\ a <= at /\ at <= Len(spec) /\ at < b /\ at < Len(spec)
          /\ CharAt(spec, at) = "@" /\ at >= 0
      BY <1>3, <2>2
    <3>2. u = ParseUserInfo(spec, MakeRange(a, at)) /\ s = at + 1
      BY <3>1
    <3> HIDE DEF u, s, at
    <3>3. /\ IsValid(u.username)
          /\ Inside(u.username, a, at) /\ Inside(u.password, a, at)
          /\ ~Has(Part(spec, u.username), {":"})
          /\ Around(spec, u.username, << >>, << >>) \o Around(spec, u.password, <<":">>, << >>)
               = Between(spec, a, at)
      BY <3>1, <3>2, UserInfoComposes
    <3>4. Inside(u.username, a, b) /\ Inside(u.password, a, b)
      <4>1. a <= a /\ at <= b
        BY <3>1
      <4>2. QED
        BY <3>1, <3>3, <4>1, InsideWider
    <3>5. Between(spec, at, at + 1) = <<"@">>
      BY <3>1, SingleIs
    <3>6. Between(spec, a, at) \o Between(spec, at, at + 1) = Between(spec, a, at + 1)
      <4>1. at + 1 \in Nat /\ at <= at + 1 /\ at + 1 <= Len(spec)
        BY <3>1
      <4>2. QED
        BY <3>1, <4>1, Joined
    <3>7. QED
      BY <3>2, <3>3, <3>4, <3>5, <3>6
  <2>3. QED
    BY <2>1, <2>2
<1> HIDE DEF w, u, v, s, at
<1>7. ~Has(Part(spec, v.host) \o Part(spec, v.port), {"@"})
  <2>1. ~Has(Part(spec, v.host), {"@"}) /\ ~Has(Part(spec, v.port), {"@"})
    BY <1>4, <1>5, InsideHasNot
  <2>2. Part(spec, v.host) \in Seq(S) /\ Part(spec, v.port) \in Seq(S)
    BY <1>4, <1>5, InsideType
  <2>3. QED
    BY <2>1, <2>2, JoinedHasNot
<1>8. Inside(v.host, a, b) /\ Inside(v.port, a, b)
  <2>1. b <= b
    OBVIOUS
  <2>2. QED
    BY <1>4, <1>5, <2>1, InsideWider
<1>9. QED
  BY <1>2, <1>4, <1>5, <1>6, <1>7, <1>8 DEF w

-----------------------------------------------------------------------------
\* The blanks around a URL, its scheme, and the slashes behind it.

\* What TrimURL keeps.
LEMMA TrimIs ==
  ASSUME NEW S, NEW spec \in Seq(S),
         NEW begin, begin = TrimURL(spec).begin, NEW end, end = TrimURL(spec).len
  PROVE  /\ begin \in Nat /\ end \in Nat /\ begin <= end /\ end <= Len(spec)
         /\ Trimmed(spec) = Between(spec, begin, end)
         /\ Min({i \in 0 .. end - 1 : CharAt(spec, i) \notin Blanks} \cup {end}) = begin
<1> DEFINE n == Len(spec)
           kept == {i \in 0 .. n - 1 : CharAt(spec, i) \notin Blanks}
           places == {i \in DOMAIN spec : spec[i] \notin Blanks}
           H == {i \in 0 .. end - 1 : CharAt(spec, i) \notin Blanks} \cup {end}
<1>1. n \in Nat
  OBVIOUS
<1>2. \A i \in places : i \in 1 .. n /\ i - 1 \in kept
  BY DEF CharAt
<1>3. \A i \in kept : i \in 0 .. n - 1 /\ i + 1 \in places
  BY DEF CharAt
<1>4. Trimmed(spec) = IF places = {} THEN << >> ELSE SubSeq(spec, Min(places), Max(places))
  BY DEF Trimmed
<1>5. CASE kept = {}
  <2>1. begin = n /\ end = n
    BY <1>5 DEF TrimURL
  <2>2. places = {}
    BY <1>2, <1>5
  <2>3. Between(spec, n, n) = << >>
    BY <1>1, NothingBetween
  <2>4. H \subseteq n .. n /\ H # {}
    <3>1. {i \in 0 .. n - 1 : CharAt(spec, i) \notin Blanks} = {}
      BY <1>5
    <3>2. QED
      BY <1>1, <2>1, <3>1
  <2>5. Min(H) \in H
    <3> HIDE DEF H
    <3>1. QED
      BY <1>1, <2>4, LeastOffset
  <2>6. Min(H) = n
    BY <1>1, <2>4, <2>5
  <2>7. QED
    BY <1>1, <1>4, <2>1, <2>2, <2>3, <2>6
<1>6. CASE kept # {}
  <2>1. begin = Min(kept) /\ end = Max(kept) + 1
    BY <1>6 DEF TrimURL
  <2> HIDE DEF n, kept, places, H
  <2>2. kept \subseteq 0 .. n /\ kept \subseteq -1 .. n
    BY <1>1, <1>3
  <2>3. Min(kept) \in kept /\ \A j \in kept : Min(kept) <= j
    BY <1>1, <1>6, <2>2, LeastOffset
  <2>4. Max(kept) \in kept /\ \A j \in kept : j <= Max(kept)
    BY <1>1, <1>6, <2>2, GreatestOffset
  <2>5. /\ begin \in 0 .. n - 1 /\ end \in 1 .. n /\ begin < end
        /\ begin \in Nat /\ end \in Nat /\ end <= n
    <3>1. Min(kept) \in 0 .. n - 1 /\ Max(kept) \in 0 .. n - 1
      BY <1>3, <2>3, <2>4
    <3>2. Min(kept) <= Max(kept)
      BY <2>3, <2>4
    <3>3. QED
      BY <1>1, <2>1, <3>1, <3>2
  <2>6. places # {} /\ places \subseteq 0 .. n /\ places \subseteq -1 .. n
    BY <1>1, <1>2, <1>3, <1>6
  <2>7. Min(places) = begin + 1
    <3>1. Min(places) \in places /\ \A j \in places : Min(places) <= j
      BY <1>1, <2>6, LeastOffset
    <3>2. Min(places) - 1 \in kept /\ Min(places) \in Int
      <4>1. Min(places) \in 1 .. n /\ Min(places) - 1 \in kept
        BY <1>2, <3>1
      <4>2. QED
        BY <1>1, <4>1
    <3>3. begin <= Min(places) - 1
      BY <2>1, <2>3, <3>2
    <3>4. begin + 1 \in places
      BY <1>3, <2>1, <2>3
    <3>5. Min(places) <= begin + 1
      BY <3>1, <3>4
    <3>6. QED
      BY <2>5, <3>2, <3>3, <3>5
  <2>8. Max(places) = end
    <3>1. Max(places) \in places /\ \A j \in places : j <= Max(places)
      BY <1>1, <2>6, GreatestOffset
    <3>2. Max(places) - 1 \in kept /\ Max(places) \in Int
      <4>1. Max(places) \in 1 .. n /\ Max(places) - 1 \in kept
        BY <1>2, <3>1
      <4>2. QED
        BY <1>1, <4>1
    <3>3. Max(places) - 1 <= end - 1
      <4>1. Max(places) - 1 <= Max(kept)
        BY <2>4, <3>2
      <4>2. Max(kept) \in Int
        BY <1>3, <2>4
      <4>3. QED
        BY <2>1, <4>1, <4>2
    <3>4. end \in places
      BY <1>3, <2>1, <2>4
    <3>5. end <= Max(places)
      BY <3>1, <3>4
    <3>6. QED
      BY <2>5, <3>2, <3>3, <3>5
  <2>9. Trimmed(spec) = Between(spec, begin, end)
    BY <1>4, <2>6, <2>7, <2>8 DEF Between
  <2>10. Min(H) = begin
    <3>1. H \subseteq 0 .. end /\ H # {}
      BY <2>5 DEF H
    <3>2. Min(H) \in H /\ \A j \in H : Min(H) <= j
      <4>1. 0 \in Nat /\ end \in Nat
        BY <2>5
      <4>2. QED
        BY <3>1, <4>1, LeastOffset
    <3>3. begin \in H
      <4>1. begin \in 0 .. end - 1
        BY <2>5
      <4>2. CharAt(spec, begin) \notin Blanks
        BY <2>1, <2>3 DEF kept
      <4>3. QED
        BY <4>1, <4>2 DEF H
    <3>4. \A j \in H : begin <= j
      <4>1. TAKE j \in H
      <4>2. CASE j = end
        BY <2>5, <4>2
      <4>3. CASE j # end
        <5>1. j \in 0 .. end - 1 /\ CharAt(spec, j) \notin Blanks
          BY <4>3 DEF H
        <5>2. j \in 0 .. n - 1
          BY <1>1, <2>5, <5>1
        <5>3. j \in kept
          BY <5>1, <5>2 DEF kept
        <5>4. QED
          BY <2>1, <2>3, <5>3
      <4>4. QED
        BY <4>2, <4>3
    <3>5. begin <= Min(H) /\ Min(H) <= begin
      BY <3>2, <3>3, <3>4
    <3>6. Min(H) \in 0 .. end
      BY <3>1, <3>2
    <3>7. Min(H) \in Int
      BY <2>5, <3>6
    <3>8. QED
      BY <2>5, <3>5, <3>7
  <2>11. QED
    BY <1>1, <2>5, <2>9, <2>10 DEF n, H
<1>7. QED
  BY <1>5, <1>6

\* The scheme, and where what follows it begins.
LEMMA SchemeComposes ==
  ASSUME NEW S, NEW spec \in Seq(S),
         NEW begin, begin = TrimURL(spec).begin, NEW end, end = TrimURL(spec).len,
         NEW scheme, scheme = ExtractScheme(spec, end),
         NEW after, after = IF IsValid(scheme) THEN EndOf(scheme) + 1 ELSE begin
  PROVE  /\ after \in Nat /\ begin <= after /\ after <= end
         /\ Inside(scheme, begin, end)
         /\ ~Has(Part(spec, scheme), {":"})
         /\ Around(spec, scheme, << >>, <<":">>) = Between(spec, begin, after)
<1>1. /\ begin \in Nat /\ end \in Nat /\ begin <= end /\ end <= Len(spec)
      /\ Min({i \in 0 .. end - 1 : CharAt(spec, i) \notin Blanks} \cup {end}) = begin
  BY TrimIs
<1> DEFINE colon == FirstOf(spec, begin, end, {":"})
<1>2. scheme = IF colon < end THEN MakeRange(begin, colon) ELSE None
  BY <1>1 DEF ExtractScheme
<1>3. /\ colon \in begin .. end
      /\ colon < end => CharAt(spec, colon) \in {":"}
      /\ Free(spec, begin, colon, {":"})
  BY <1>1, FirstOfIs
<1> HIDE DEF colon
<1>4. /\ colon \in Nat /\ begin <= colon /\ colon <= end /\ colon <= Len(spec)
      /\ begin \in begin .. end /\ colon \in begin .. end
  BY <1>1, <1>3
<1>5. CASE colon < end
  <2>1. scheme = MakeRange(begin, colon)
    BY <1>2, <1>5
  <2>2. IsValid(scheme) /\ EndOf(scheme) = colon /\ Part(spec, scheme) = Between(spec, begin, colon)
    BY <1>1, <1>4, <2>1, RangeIs
  <2>3. after = colon + 1
    BY <2>2
  <2>4. ~Has(Between(spec, begin, colon), {":"})
    BY <1>1, <1>3, <1>4, FreeHasNot
  <2>5. Around(spec, scheme, << >>, <<CharAt(spec, colon)>>) = Between(spec, begin, colon + 1)
    <3>1. colon < Len(spec)
      BY <1>1, <1>4, <1>5
    <3>2. QED
      BY <1>1, <1>4, <2>1, <3>1, AroundAfter
  <2>6. CharAt(spec, colon) = ":"
    BY <1>3, <1>5
  <2>7. Inside(scheme, begin, end)
    BY <1>1, <1>4, <2>1, InsideIs
  <2>8. after \in Nat /\ begin <= after /\ after <= end
    BY <1>1, <1>4, <1>5, <2>3
  <2>9. QED
    BY <2>2, <2>3, <2>4, <2>5, <2>6, <2>7, <2>8
<1>6. CASE ~ (colon < end)
  <2>1. scheme = None
    BY <1>2, <1>6
  <2>2. after = begin
    BY <2>1, NoneIs
  <2>3. begin <= Len(spec)
    BY <1>1
  <2>4. Between(spec, begin, after) = << >>
    BY <1>1, <2>2, <2>3, NothingBetween
  <2>5. QED
    BY <1>1, <2>1, <2>2, <2>4, NoneIs, InsideIs DEF Has
<1>7. QED
  BY <1>5, <1>6

\* The slashes behind the scheme.
LEMMA SlashesAre ==
  ASSUME NEW spec, NEW a \in Nat, NEW b \in Nat, a <= b,
         NEW begin, begin = a + CountConsecutiveSlashes(spec, a, b)
  PROVE  /\ begin \in a .. b
         /\ \A i \in a .. begin - 1 : CharAt(spec, i) \in Slashes
<1> DEFINE H == {i \in a .. b - 1 : CharAt(spec, i) \notin Slashes} \cup {b}
<1>1. begin = a + (Min(H) - a)
  BY DEF CountConsecutiveSlashes
<1>2. H \subseteq a .. b /\ H # {}
  OBVIOUS
<1>3. \A i \in a .. b - 1 : i \in H \/ CharAt(spec, i) \in Slashes
  OBVIOUS
<1> HIDE DEF H
<1>4. Min(H) \in H /\ \A j \in H : Min(H) <= j
  BY <1>2, LeastOffset
<1>5. Min(H) \in a .. b
  BY <1>2, <1>4
<1>6. begin = Min(H)
  BY <1>1, <1>5
<1>7. \A i \in a .. begin - 1 : CharAt(spec, i) \in Slashes
  <2>1. TAKE i \in a .. begin - 1
  <2>2. i \in a .. b - 1 /\ ~ (Min(H) <= i)
    BY <1>5, <1>6
  <2>3. QED
    BY <1>3, <1>4, <2>2
<1>8. QED
  BY <1>5, <1>6, <1>7

-----------------------------------------------------------------------------
\* Whole URLs.

\* A component with what separates it is a sequence of symbols.
LEMMA AroundType ==
  ASSUME NEW S, NEW spec \in Seq(S), NEW a \in Nat, NEW b \in Nat, a <= b, b <= Len(spec),
         NEW c, Inside(c, a, b), NEW before \in Seq(S), NEW after \in Seq(S)
  PROVE  Around(spec, c, before, after) \in Seq(S)
<1>1. Part(spec, c) \in Seq(S)
  BY InsideType
<1>2. (before \o Part(spec, c)) \o after \in Seq(S)
  BY <1>1, ConcatProperties
<1>3. QED
  BY <1>2 DEF Around

\* Two sequences behind a third are one behind it.
LEMMA BehindTwo ==
  ASSUME NEW S, NEW s \in Seq(S), NEW x \in Seq(S), NEW y \in Seq(S)
  PROVE  (s \o x) \o y = s \o (x \o y)
  BY ConcatAssociative

\* No part of a standard URL is lost, doubled or put in the wrong place.
LEMMA StandardUrlComposes ==
  ASSUME NEW S, {":", "@", "?", "#"} \subseteq S, NEW spec \in Seq(S)
  PROVE  IsUrlOf(spec, ParseStandardURL(spec))
<1> DEFINE first == TrimURL(spec).begin
           last == TrimURL(spec).len
           scheme == ExtractScheme(spec, last)
           after == IF IsValid(scheme) THEN EndOf(scheme) + 1 ELSE first
           begin == after + CountConsecutiveSlashes(spec, after, last)
           end == FindNextAuthorityTerminator(spec, begin, last)
           w == ParseAuthority(spec, MakeRange(begin, end))
           r == ParsePath(spec, IF end = last THEN None ELSE MakeRange(end, last))
           p == ParseStandardURL(spec)
<1>1. /\ p.scheme = scheme
      /\ p.username = w.username /\ p.password = w.password /\ p.host = w.host /\ p.port = w.port
      /\ p.path = r.path /\ p.query = r.query /\ p.ref = r.ref
  BY DEF ParseStandardURL, ParseAfterScheme, Parsed
<1>2. /\ first \in Nat /\ last \in Nat /\ first <= last /\ last <= Len(spec)
      /\ Trimmed(spec) = Between(spec, first, last)
  BY TrimIs
<1>3. /\ after \in Nat /\ first <= after /\ after <= last
      /\ Inside(scheme, first, last)
      /\ ~Has(Part(spec, scheme), {":"})
      /\ Around(spec, scheme, << >>, <<":">>) = Between(spec, first, after)
  BY SchemeComposes
<1> HIDE DEF first, last, scheme, after
<1>4. begin \in after .. last /\ \A i \in after .. begin - 1 : CharAt(spec, i) \in Slashes
  BY <1>2, <1>3, SlashesAre
<1>5. begin \in Nat /\ begin <= last /\ after <= begin /\ begin <= Len(spec)
  BY <1>2, <1>3, <1>4
<1> HIDE DEF begin
<1>6. /\ end \in begin .. last
      /\ end < last => CharAt(spec, end) \in AuthorityTerminators
      /\ Free(spec, begin, end, AuthorityTerminators)
  BY <1>2, <1>5, FirstOfIs DEF FindNextAuthorityTerminator
<1>7. end \in Nat /\ begin <= end /\ end <= last /\ end <= Len(spec)
  BY <1>2, <1>5, <1>6
<1> HIDE DEF end
<1>8. /\ \A c \in {w.username, w.password, w.host, w.port} : Inside(c, begin, end)
      /\ ~Has(Part(spec, w.username), {":"})
      /\ ~Has(Part(spec, w.host) \o Part(spec, w.port), {"@"})
      /\ ~Has(Part(spec, w.port), {":", "]"})
      /\ Has(Part(spec, w.host), {":"}) /\ ~IsValid(w.port) => ColonInBrackets(Part(spec, w.host))
  BY <1>5, <1>7, AuthorityComposes
<1>9. PICK s \in begin .. end :
        /\ (Around(spec, w.username, << >>, << >>)
              \o Around(spec, w.password, <<":">>, << >>))
              \o (IF IsValid(w.username) THEN <<"@">> ELSE << >>)
             = Between(spec, begin, s)
        /\ Around(spec, w.host, << >>, << >>) \o Around(spec, w.port, <<":">>, << >>)
             = Between(spec, s, end)
  BY <1>5, <1>7, AuthorityComposes
<1> HIDE DEF w
<1>10. /\ ~Has(Part(spec, r.path), {"?", "#"})
       /\ IsNonempty(r.path) => Head(Part(spec, r.path)) \in Slashes
       /\ ~Has(Part(spec, r.query), {"#"})
       /\ Inside(r.path, end, last) /\ Inside(r.query, end, last) /\ Inside(r.ref, end, last)
       /\ (Around(spec, r.path, << >>, << >>) \o Around(spec, r.query, <<"?">>, << >>))
              \o Around(spec, r.ref, <<"#">>, << >>)
            = Between(spec, end, last)
  <2>1. CASE end = last
    <3>1. r = [path |-> None, query |-> None, ref |-> None]
      BY <2>1, NoneIs DEF ParsePath
    <3>2. r.path = None /\ r.query = None /\ r.ref = None
      BY <3>1
    <3> HIDE DEF r
    <3>3. Between(spec, end, last) = << >>
      BY <1>2, <1>7, <2>1, NothingBetween
    <3>4. (<< >> \o << >>) \o << >> = << >>
      OBVIOUS
    <3>5. /\ Part(spec, None) = << >> /\ ~IsNonempty(None)
          /\ Around(spec, None, << >>, << >>) = << >> /\ Around(spec, None, <<"?">>, << >>) = << >>
          /\ Around(spec, None, <<"#">>, << >>) = << >>
      BY NoneIs
    <3>6. Inside(None, end, last)
      BY <1>2, <1>7, InsideIs
    <3>7. QED
      BY <3>2, <3>3, <3>4, <3>5, <3>6 DEF Has
  <2>2. CASE end # last
    <3>1. end < last /\ CharAt(spec, end) \in AuthorityTerminators
      BY <1>2, <1>6, <1>7, <2>2
    <3>2. r = ParsePath(spec, MakeRange(end, last))
      BY <2>2
    <3> HIDE DEF r
    <3>3. QED
      BY <1>2, <1>7, <3>1, <3>2, PathComposes
  <2>3. QED
    BY <2>1, <2>2
<1> HIDE DEF r, p
<1>11. \A c \in {w.username, w.password, w.host, w.port} :
         ~Has(Part(spec, c), AuthorityTerminators)
  BY <1>5, <1>6, <1>7, <1>8, InsideHasNot
<1>12. PartsEndInTime(spec, p)
  BY <1>1, <1>3, <1>8, <1>10, <1>11 DEF PartsEndInTime
<1> DEFINE slashes == Between(spec, after, begin)
           un == Around(spec, p.username, << >>, << >>)
           pw == Around(spec, p.password, <<":">>, << >>)
           sign == IF IsValid(p.username) THEN <<"@">> ELSE << >>
           host == Around(spec, p.host, << >>, << >>)
           port == Around(spec, p.port, <<":">>, << >>)
           path == Around(spec, p.path, << >>, << >>)
           query == Around(spec, p.query, <<"?">>, << >>)
           ref == Around(spec, p.ref, <<"#">>, << >>)
<1>13. UrlOfParts(spec, p, slashes)
         = ((((((((Around(spec, p.scheme, << >>, <<":">>) \o slashes) \o un) \o pw) \o sign)
              \o host) \o port) \o path) \o query) \o ref
  BY DEF UrlOfParts
<1>14. /\ << >> \in Seq(S) /\ <<":">> \in Seq(S) /\ <<"@">> \in Seq(S)
       /\ <<"?">> \in Seq(S) /\ <<"#">> \in Seq(S)
  OBVIOUS
<1>15. /\ un \in Seq(S) /\ pw \in Seq(S) /\ sign \in Seq(S)
       /\ host \in Seq(S) /\ port \in Seq(S)
  <2>1. /\ Inside(w.username, begin, end) /\ Inside(w.password, begin, end)
        /\ Inside(w.host, begin, end) /\ Inside(w.port, begin, end)
    BY <1>8
  <2>2. un \in Seq(S)
    BY <1>1, <1>5, <1>7, <1>14, <2>1, AroundType
  <2>3. pw \in Seq(S)
    BY <1>1, <1>5, <1>7, <1>14, <2>1, AroundType
  <2>4. host \in Seq(S)
    BY <1>1, <1>5, <1>7, <1>14, <2>1, AroundType
  <2>5. port \in Seq(S)
    BY <1>1, <1>5, <1>7, <1>14, <2>1, AroundType
  <2>6. QED
    BY <1>14, <2>2, <2>3, <2>4, <2>5
<1>16. path \in Seq(S) /\ query \in Seq(S) /\ ref \in Seq(S)
  <2>1. path \in Seq(S)
    BY <1>1, <1>2, <1>7, <1>10, <1>14, AroundType
  <2>2. query \in Seq(S)
    BY <1>1, <1>2, <1>7, <1>10, <1>14, AroundType
  <2>3. ref \in Seq(S)
    BY <1>1, <1>2, <1>7, <1>10, <1>14, AroundType
  <2>4. QED
    BY <2>1, <2>2, <2>3
<1>17. /\ s \in Nat /\ begin <= s /\ s <= end /\ s <= Len(spec)
       /\ first <= begin /\ first <= s /\ first <= end
  BY <1>2, <1>3, <1>5, <1>7
<1>18. Around(spec, p.scheme, << >>, <<":">>) \o slashes = Between(spec, first, begin)
  <2>1. Between(spec, first, after) \o Between(spec, after, begin) = Between(spec, first, begin)
    BY <1>2, <1>3, <1>5, Joined
  <2>2. QED
    BY <1>1, <1>3, <2>1
<1>19. (un \o pw) \o sign = Between(spec, begin, s) /\ host \o port = Between(spec, s, end)
       /\ (path \o query) \o ref = Between(spec, end, last)
  BY <1>1, <1>9, <1>10
<1> HIDE DEF slashes, un, pw, sign, host, port, path, query, ref
<1>20. ((Between(spec, first, begin) \o un) \o pw) \o sign = Between(spec, first, s)
  <2> DEFINE front == Between(spec, first, begin)
             info == un \o pw
  <2>1. front \in Seq(S)
    BY <1>2, <1>5, <1>17, BetweenIs
  <2>2. info \in Seq(S)
    BY <1>15, ConcatProperties
  <2>3. front \o Between(spec, begin, s) = Between(spec, first, s)
    BY <1>2, <1>5, <1>17, Joined
  <2>4. un \in Seq(S) /\ pw \in Seq(S)
    BY <1>15
  <2>5. sign \in Seq(S)
    BY <1>15
  <2>6. (front \o un) \o pw = front \o info
    <3> HIDE DEF front
    <3>1. QED
      BY <2>1, <2>4, BehindTwo, SMTT(30)
  <2>7. (front \o info) \o sign = front \o (info \o sign)
    <3> HIDE DEF front, info
    <3>1. QED
      BY <2>1, <2>2, <2>5, BehindTwo, SMTT(30)
  <2>8. info \o sign = Between(spec, begin, s)
    BY <1>19
  <2>9. QED
    BY <2>3, <2>6, <2>7, <2>8
<1>21. (Between(spec, first, s) \o host) \o port = Between(spec, first, end)
  <2> DEFINE front == Between(spec, first, s)
  <2>1. front \in Seq(S)
    BY <1>2, <1>7, <1>17, BetweenIs
  <2>2. front \o Between(spec, s, end) = Between(spec, first, end)
    BY <1>2, <1>7, <1>17, Joined
  <2>3. host \in Seq(S) /\ port \in Seq(S)
    BY <1>15
  <2>4. (front \o host) \o port = front \o (host \o port)
    <3> HIDE DEF front
    <3>1. QED
      BY <2>1, <2>3, BehindTwo, SMTT(30)
  <2>5. QED
    BY <1>19, <2>2, <2>4
<1>22. ((Between(spec, first, end) \o path) \o query) \o ref = Between(spec, first, last)
  <2> DEFINE front == Between(spec, first, end)
             asked == path \o query
  <2>1. front \in Seq(S)
    BY <1>2, <1>7, <1>17, BetweenIs
  <2>2. asked \in Seq(S)
    BY <1>16, ConcatProperties
  <2>3. front \o Between(spec, end, last) = Between(spec, first, last)
    BY <1>2, <1>7, <1>17, Joined
  <2>4. path \in Seq(S) /\ query \in Seq(S)
    BY <1>16
  <2>5. ref \in Seq(S)
    BY <1>16
  <2>6. (front \o path) \o query = front \o asked
    <3> HIDE DEF front
    <3>1. QED
      BY <2>1, <2>4, BehindTwo, SMTT(30)
  <2>7. (front \o asked) \o ref = front \o (asked \o ref)
    <3> HIDE DEF front, asked
    <3>1. QED
      BY <2>1, <2>2, <2>5, BehindTwo, SMTT(30)
  <2>8. asked \o ref = Between(spec, end, last)
    BY <1>19
  <2>9. QED
    BY <2>3, <2>6, <2>7, <2>8
<1>23. UrlOfParts(spec, p, slashes) = Trimmed(spec)
  BY <1>2, <1>13, <1>18, <1>20, <1>21, <1>22
<1>24. \A k \in DOMAIN slashes : slashes[k] \in Slashes
  <2>1. /\ slashes \in Seq(S) /\ Len(slashes) = begin - after
        /\ \A k \in 1 .. begin - after : slashes[k] = CharAt(spec, after + k - 1)
    BY <1>3, <1>5, BetweenIs DEF slashes
  <2>2. TAKE k \in DOMAIN slashes
  <2>3. k \in 1 .. begin - after
    BY <2>1
  <2>4. after + k - 1 \in after .. begin - 1
    BY <1>3, <1>5, <2>3
  <2>5. QED
    BY <1>4, <2>1, <2>3, <2>4
<1>25. slashes = SubSeq(spec, after + 1, after + (begin - after))
  <2>1. after + (begin - after) = begin
    BY <1>3, <1>5
  <2>2. QED
    BY <2>1 DEF slashes, Between
<1>26. begin - after \in 0 .. Len(spec) /\ after \in 0 .. Len(spec) - (begin - after)
  BY <1>3, <1>5
<1>27. QED
  BY <1>12, <1>23, <1>24, <1>25, <1>26 DEF IsUrlOf, p

\* A URL of a scheme, a path and a query.
LEMMA PathUrlIs ==
  ASSUME NEW S, {":", "@", "?", "#"} \subseteq S, NEW spec \in Seq(S),
         NEW first \in Nat, NEW after \in Nat, NEW last \in Nat,
         first <= after, after <= last, last <= Len(spec),
         NEW p, Inside(p.path, after, last), Inside(p.query, after, last)
  PROVE  /\ p.username = None /\ p.password = None /\ p.host = None /\ p.port = None /\ p.ref = None
         /\ Trimmed(spec) = Between(spec, first, last)
         /\ ~Has(Part(spec, p.scheme), {":"})
         /\ Around(spec, p.scheme, << >>, <<":">>) = Between(spec, first, after)
         /\ Around(spec, p.path, << >>, << >>) \o Around(spec, p.query, <<"?">>, << >>)
              = Between(spec, after, last)
         => IsPathUrlOf(spec, p)
<1> DEFINE front == Between(spec, first, after)
           path == Around(spec, p.path, << >>, << >>)
           query == Around(spec, p.query, <<"?">>, << >>)
<1>1. front \o Between(spec, after, last) = Between(spec, first, last)
  BY Joined
<1>2. front \in Seq(S)
  <2>1. after <= Len(spec)
    OBVIOUS
  <2>2. QED
    BY <2>1, BetweenIs
<1>3. path \in Seq(S) /\ query \in Seq(S)
  <2>1. << >> \in Seq(S) /\ <<"?">> \in Seq(S)
    OBVIOUS
  <2>2. path \in Seq(S)
    BY <2>1, AroundType
  <2>3. query \in Seq(S)
    BY <2>1, AroundType
  <2>4. QED
    BY <2>2, <2>3
<1>4. (front \o path) \o query = front \o (path \o query)
  <2> HIDE DEF front, path, query
  <2>1. QED
    BY <1>2, <1>3, BehindTwo, SMTT(30)
<1>5. front \o << >> = front
  BY <1>2, ConcatEmptySeq
<1>6. ((front \o path) \o query) \o << >> = (front \o path) \o query
  <2> HIDE DEF front, path, query
  <2>1. front \o path \in Seq(S)
    BY <1>2, <1>3, ConcatProperties
  <2>2. (front \o path) \o query \in Seq(S)
    BY <1>3, <2>1, ConcatProperties
  <2>3. QED
    BY <2>2, ConcatEmptySeq
<1>7. SUFFICES ASSUME p.username = None /\ p.password = None /\ p.host = None,
                      p.port = None /\ p.ref = None,
                      Trimmed(spec) = Between(spec, first, last),
                      ~Has(Part(spec, p.scheme), {":"}),
                      Around(spec, p.scheme, << >>, <<":">>) = front,
                      path \o query = Between(spec, after, last)
               PROVE  IsPathUrlOf(spec, p)
  BY Zenon
<1> HIDE DEF front, path, query
<1>8. UrlOfParts(spec, p, << >>)
        = (((((((((front \o << >>) \o << >>) \o << >>) \o << >>) \o << >>) \o << >>)
             \o path) \o query) \o << >>)
  <2>1. /\ ~IsValid(None)
        /\ Around(spec, None, << >>, << >>) = << >> /\ Around(spec, None, <<":">>, << >>) = << >>
        /\ Around(spec, None, <<"#">>, << >>) = << >>
    BY NoneIs
  <2>2. QED
    BY <1>7, <2>1 DEF UrlOfParts, path, query
<1>9. UrlOfParts(spec, p, << >>) = Trimmed(spec)
  BY <1>1, <1>4, <1>5, <1>6, <1>7, <1>8
<1>10. {p.username, p.password, p.host, p.port, p.ref} = {None}
  BY <1>7
<1>11. QED
  BY <1>7, <1>9, <1>10 DEF IsPathUrlOf

\* What ParsePathURL makes of a URL.
LEMMA PathUrlComposes ==
  ASSUME NEW S, {":", "@", "?", "#"} \subseteq S, NEW spec \in Seq(S)
  PROVE  /\ IsPathUrlOf(spec, ParsePathURL(spec))
         /\ LET path == ParsePathURL(spec).path
            IN  path = None \/ \E a, b \in 0 .. Len(spec) : a < b /\ path = MakeRange(a, b)
<1> DEFINE first == TrimURL(spec).begin
           last == TrimURL(spec).len
           scheme == ExtractScheme(spec, last)
           after == IF IsValid(scheme) THEN EndOf(scheme) + 1 ELSE first
           p == ParsePathURL(spec)
<1>1. /\ p.scheme = scheme
      /\ p.username = None /\ p.password = None /\ p.host = None /\ p.port = None
      /\ p.path = IF after = last THEN None ELSE MakeRange(after, last)
      /\ p.query = None /\ p.ref = None
  BY DEF ParsePathURL, Parsed
<1>2. /\ first \in Nat /\ last \in Nat /\ first <= last /\ last <= Len(spec)
      /\ Trimmed(spec) = Between(spec, first, last)
  BY TrimIs
<1>3. /\ after \in Nat /\ first <= after /\ after <= last
      /\ ~Has(Part(spec, scheme), {":"})
      /\ Around(spec, scheme, << >>, <<":">>) = Between(spec, first, after)
  BY SchemeComposes
<1> HIDE DEF first, last, scheme, after
<1>4. /\ Inside(p.path, after, last) /\ Inside(p.query, after, last)
      /\ Around(spec, p.path, << >>, << >>) \o Around(spec, p.query, <<"?">>, << >>)
           = Between(spec, after, last)
      /\ p.path = None \/ \E a, b \in 0 .. Len(spec) : a < b /\ p.path = MakeRange(a, b)
  <2> HIDE DEF p
  <2>1. Around(spec, p.query, <<"?">>, << >>) = << >> /\ Inside(p.query, after, last)
    BY <1>1, <1>2, <1>3, NoneIs, InsideIs
  <2>2. CASE after = last
    <3>1. Between(spec, after, last) = << >>
      BY <1>2, <1>3, <2>2, NothingBetween
    <3>2. p.path = None
      BY <1>1, <2>2
    <3>3. Around(spec, p.path, << >>, << >>) = << >> /\ Inside(p.path, after, last)
      BY <1>2, <1>3, <3>2, NoneIs, InsideIs
    <3>4. << >> \o << >> = << >>
      OBVIOUS
    <3>5. QED
      BY <2>1, <3>1, <3>2, <3>3, <3>4
  <2>3. CASE after # last
    <3>1. p.path = MakeRange(after, last)
      BY <1>1, <2>3
    <3>2. Around(spec, p.path, << >>, << >>) = Between(spec, after, last)
      BY <1>2, <1>3, <3>1, AroundPlain
    <3>3. after \in after .. last /\ last \in after .. last
      BY <1>2, <1>3
    <3>4. Inside(p.path, after, last)
      BY <1>2, <1>3, <3>1, <3>3, InsideIs
    <3>5. Between(spec, after, last) \in Seq(S)
      BY <1>2, <1>3, BetweenIs
    <3>6. Between(spec, after, last) \o << >> = Between(spec, after, last)
      BY <3>5, ConcatEmptySeq
    <3>7. after \in 0 .. Len(spec) /\ last \in 0 .. Len(spec) /\ after < last
      BY <1>2, <1>3, <2>3
    <3>8. QED
      BY <2>1, <3>1, <3>2, <3>4, <3>6, <3>7
  <2>4. QED
    BY <2>2, <2>3
<1>5. IsPathUrlOf(spec, p)
  <2> HIDE DEF p
  <2>1. QED
    BY <1>1, <1>2, <1>3, <1>4, PathUrlIs
<1>6. QED
  BY <1>4, <1>5

\* What ParseMailtoURL makes of one.
LEMMA MailtoUrlComposes ==
  ASSUME NEW S, {":", "@", "?", "#"} \subseteq S, NEW spec \in Seq(S)
  PROVE  IsMailtoUrlOf(spec, ParseMailtoURL(spec))
<1> DEFINE first == TrimURL(spec).begin
           last == TrimURL(spec).len
           scheme == ExtractScheme(spec, last)
           after == IF IsValid(scheme) THEN EndOf(scheme) + 1 ELSE first
           whole == ParsePathURL(spec)
           mark == FirstOf(spec, whole.path.begin, EndOf(whole.path), {"?"})
           p == ParseMailtoURL(spec)
<1>1. /\ whole.scheme = scheme
      /\ whole.username = None /\ whole.password = None /\ whole.host = None /\ whole.port = None
      /\ whole.path = IF after = last THEN None ELSE MakeRange(after, last)
      /\ whole.query = None /\ whole.ref = None
  BY DEF ParsePathURL, Parsed
<1>2. whole \in [{"scheme", "username", "password", "host", "port", "path", "query", "ref"}
                   -> {whole[c] : c \in {"scheme", "username", "password", "host", "port",
                                         "path", "query", "ref"}}]
  BY DEF ParsePathURL, Parsed
<1>3. p = IF ~IsValid(whole.path) \/ mark = EndOf(whole.path) THEN whole
          ELSE [whole EXCEPT
                  !.path = IF MakeRange(whole.path.begin, mark).len = 0 THEN None
                           ELSE MakeRange(whole.path.begin, mark),
                  !.query = MakeRange(mark + 1, EndOf(whole.path))]
  BY DEF ParseMailtoURL
<1>4. /\ first \in Nat /\ last \in Nat /\ first <= last /\ last <= Len(spec)
      /\ Trimmed(spec) = Between(spec, first, last)
  BY TrimIs
<1>5. /\ after \in Nat /\ first <= after /\ after <= last /\ after <= Len(spec)
      /\ ~Has(Part(spec, scheme), {":"})
      /\ Around(spec, scheme, << >>, <<":">>) = Between(spec, first, after)
  BY <1>4, SchemeComposes
<1>6. IsPathUrlOf(spec, whole)
  BY PathUrlComposes
<1>7. CASE after = last
  <2>1. whole.path = None
    BY <1>1, <1>7
  <2> HIDE DEF first, last, scheme, after, whole, mark, p
  <2>2. ~IsValid(whole.path) /\ Part(spec, whole.path) = << >>
    BY <2>1, NoneIs
  <2>3. p = whole
    BY <1>3, <2>2
  <2>4. QED
    BY <1>6, <2>2, <2>3 DEF IsMailtoUrlOf, Has, p
<1>8. CASE after # last
  <2>1. whole.path = MakeRange(after, last) /\ after < last
    BY <1>1, <1>4, <1>5, <1>8
  <2>2. /\ whole.path.begin = after /\ EndOf(whole.path) = last /\ IsValid(whole.path)
        /\ Part(spec, whole.path) = Between(spec, after, last)
    BY <1>4, <1>5, <2>1, RangeIs
  <2>3. /\ mark \in after .. last
        /\ mark < last => CharAt(spec, mark) \in {"?"}
        /\ Free(spec, after, mark, {"?"})
    <3> HIDE DEF first, last, scheme, after, whole, p
    <3>1. QED
      BY <1>4, <1>5, <2>2, FirstOfIs
  <2> HIDE DEF mark
  <2>4. /\ mark \in Nat /\ after <= mark /\ mark <= last /\ mark <= Len(spec)
        /\ after \in after .. last /\ mark \in after .. last /\ last \in after .. last
    BY <1>4, <1>5, <2>3
  <2>5. ~Has(Between(spec, after, mark), {"?"})
    BY <1>5, <2>3, <2>4, FreeHasNot
  <2>6. CASE mark = last
    <3> HIDE DEF first, last, scheme, after, whole, p
    <3>1. p = whole
      BY <1>3, <2>2, <2>6
    <3>2. QED
      BY <1>6, <2>2, <2>5, <2>6, <3>1 DEF IsMailtoUrlOf, p
  <2>7. CASE mark # last
    <3> HIDE DEF first, last, scheme, after, whole, p
    <3>1. mark < last /\ CharAt(spec, mark) = "?"
      BY <1>4, <2>3, <2>4, <2>7
    <3>2. MakeRange(after, mark).len = mark - after
      BY <1>5, <2>4, RangeIs
    <3>3. p = [whole EXCEPT
                 !.path = IF mark - after = 0 THEN None ELSE MakeRange(after, mark),
                 !.query = MakeRange(mark + 1, last)]
      BY <1>3, <2>2, <2>7, <3>2
    <3>4. /\ p.scheme = scheme
          /\ p.username = None /\ p.password = None /\ p.host = None /\ p.port = None
          /\ p.path = IF mark = after THEN None ELSE MakeRange(after, mark)
          /\ p.query = MakeRange(mark + 1, last) /\ p.ref = None
      <4>1. mark - after = 0 <=> mark = after
        BY <1>5, <2>4
      <4>2. QED
        BY <1>1, <1>2, <3>3, <4>1
    <3>5. mark + 1 \in Nat /\ mark + 1 <= last /\ mark + 1 \in after .. last
      BY <1>4, <1>5, <2>4, <3>1
    <3>6. /\ Inside(p.path, after, last) /\ Inside(p.query, after, last)
          /\ Around(spec, p.path, << >>, << >>) = Between(spec, after, mark)
          /\ ~Has(Part(spec, p.path), {"?"})
      <4>1. Inside(p.query, after, last)
        BY <1>4, <1>5, <2>4, <3>4, <3>5, InsideIs
      <4>2. CASE mark = after
        <5>1. Between(spec, after, mark) = << >>
          BY <1>5, <4>2, NothingBetween
        <5>2. p.path = None
          BY <3>4, <4>2
        <5>3. QED
          BY <1>4, <1>5, <4>1, <5>1, <5>2, NoneIs, InsideIs DEF Has
      <4>3. CASE mark # after
        <5>1. p.path = MakeRange(after, mark)
          BY <3>4, <4>3
        <5>2. Inside(p.path, after, last)
          BY <1>4, <1>5, <2>4, <5>1, InsideIs
        <5>3. Part(spec, p.path) = Between(spec, after, mark)
          BY <1>5, <2>4, <5>1, RangeIs
        <5>4. Around(spec, p.path, << >>, << >>) = Between(spec, after, mark)
          BY <1>5, <2>4, <5>1, AroundPlain
        <5>5. QED
          BY <2>5, <4>1, <5>2, <5>3, <5>4
      <4>4. QED
        BY <4>2, <4>3
    <3>7. Around(spec, p.query, <<"?">>, << >>) = Between(spec, mark, last)
      <4>1. Around(spec, MakeRange(mark + 1, last), <<CharAt(spec, mark)>>, << >>)
              = Between(spec, mark, last)
        BY <1>4, <2>4, <3>1, AroundBefore
      <4>2. QED
        BY <3>1, <3>4, <4>1
    <3>8. Between(spec, after, mark) \o Between(spec, mark, last) = Between(spec, after, last)
      BY <1>4, <1>5, <2>4, Joined
    <3>9. Around(spec, p.path, << >>, << >>) \o Around(spec, p.query, <<"?">>, << >>)
            = Between(spec, after, last)
      BY <3>6, <3>7, <3>8
    <3>10. IsPathUrlOf(spec, p)
      BY <1>4, <1>5, <3>4, <3>6, <3>9, PathUrlIs
    <3>11. QED
      BY <3>6, <3>10 DEF IsMailtoUrlOf, p
  <2>8. QED
    BY <2>6, <2>7
<1>9. QED
  BY <1>7, <1>8

-----------------------------------------------------------------------------
\* The file name of a path.

\* A stretch of what lies between two offsets.
LEMMA StretchIs ==
  ASSUME NEW S, NEW spec \in Seq(S), NEW a \in Nat, NEW b \in Nat, a <= b, b <= Len(spec),
         NEW x \in a .. b, NEW y \in a .. b, x <= y
  PROVE  SubSeq(Between(spec, a, b), x - a + 1, y - a) = Between(spec, x, y)
<1> DEFINE t == Between(spec, a, b)
           u == SubSeq(t, x - a + 1, y - a)
           v == Between(spec, x, y)
<1>1. /\ t \in Seq(S) /\ Len(t) = b - a
      /\ \A j \in 1 .. b - a : t[j] = CharAt(spec, a + j - 1)
  BY BetweenIs
<1>2. /\ v \in Seq(S) /\ Len(v) = y - x
      /\ \A j \in 1 .. y - x : v[j] = CharAt(spec, x + j - 1)
  <2>1. x \in Nat /\ y \in Nat /\ y <= Len(spec)
    OBVIOUS
  <2>2. QED
    BY <2>1, BetweenIs
<1> HIDE DEF t, v
<1>3. /\ u \in Seq(S) /\ Len(u) = y - x
      /\ \A j \in 1 .. y - x : u[j] = t[x - a + j]
  <2> DEFINE m == x - a + 1
             n == y - a
  <2>1. m \in Int /\ n \in Int /\ m \in 1 .. n + 1 /\ n <= b - a /\ n - m + 1 = y - x
    OBVIOUS
  <2>2. \A j \in m .. n : t[j] \in S
    BY <1>1, <2>1
  <2> HIDE DEF m, n
  <2>3. /\ SubSeq(t, m, n) \in Seq(S)
        /\ Len(SubSeq(t, m, n)) = IF m <= n THEN n - m + 1 ELSE 0
        /\ \A j \in 1 .. n - m + 1 : SubSeq(t, m, n)[j] = t[m + j - 1]
    BY <2>1, <2>2, SubSeqProperties
  <2>4. (IF m <= n THEN n - m + 1 ELSE 0) = y - x
    BY <2>1
  <2>5. \A j \in 1 .. y - x : m + j - 1 = x - a + j
    BY DEF m
  <2>6. QED
    BY <2>1, <2>3, <2>4, <2>5 DEF m, n
<1> HIDE DEF u
<1>4. \A j \in 1 .. y - x : u[j] = v[j]
  <2>1. TAKE j \in 1 .. y - x
  <2>2. x - a + j \in 1 .. b - a /\ a + (x - a + j) - 1 = x + j - 1
    OBVIOUS
  <2>3. QED
    BY <1>1, <1>2, <1>3, <2>2
<1>5. u = v
  BY <1>2, <1>3, <1>4, SeqEqual
<1>6. QED
  BY <1>5 DEF t, u, v

\* All but the first symbol.
LEMMA TailIs ==
  ASSUME NEW S, NEW spec \in Seq(S), NEW a \in Nat, NEW b \in Nat, a < b, b <= Len(spec)
  PROVE  Tail(Between(spec, a, b)) = Between(spec, a + 1, b)
<1>1. a + 1 \in 1 .. Len(spec) /\ b \in a + 1 .. Len(spec)
  OBVIOUS
<1>2. Tail(SubSeq(spec, a + 1, b)) = SubSeq(spec, (a + 1) + 1, b)
  BY <1>1, HeadTailOfSubSeq
<1>3. QED
  BY <1>2 DEF Between

\* ExtractFileName cuts a path into directory, name and parameters.
LEMMA FileNameIs ==
  ASSUME NEW S, NEW spec \in Seq(S), NEW a \in Nat, NEW b \in Nat, a < b, b <= Len(spec)
  PROVE  IsFileNameOf(spec, MakeRange(a, b), ExtractFileName(spec, MakeRange(a, b)))
<1> DEFINE path == MakeRange(a, b)
           semicolon == LastOf(spec, a + 1, b, {ParameterMark})
           end == IF semicolon >= 0 THEN semicolon ELSE b
           slash == LastOf(spec, a, end, Slashes)
           start == IF slash >= 0 THEN slash + 1 ELSE a
           stretch == Between(spec, a, b)
<1>0. a <= b /\ a + 1 \in Nat /\ a + 1 <= b
  OBVIOUS
<1>1. /\ path.begin = a /\ EndOf(path) = b /\ IsNonempty(path)
      /\ Part(spec, path) = stretch
  BY <1>0, RangeIs
<1>2. ExtractFileName(spec, path) = MakeRange(start, end)
  BY <1>1 DEF ExtractFileName
<1>3. /\ semicolon = -1 \/ (semicolon \in a + 1 .. b - 1 /\ CharAt(spec, semicolon) \in {ParameterMark})
      /\ semicolon = -1 => Free(spec, a + 1, b, {ParameterMark})
      /\ semicolon >= 0 => Free(spec, semicolon + 1, b, {ParameterMark})
  BY <1>0, LastOfIs
<1>4. end \in a + 1 .. b /\ end \in Nat /\ a <= end
  <2> HIDE DEF semicolon
  <2>1. semicolon = -1 => end = b
    OBVIOUS
  <2>2. semicolon \in a + 1 .. b - 1 => end = semicolon
    BY <1>0
  <2> HIDE DEF end
  <2>3. QED
    BY <1>0, <1>3, <2>1, <2>2
<1> HIDE DEF semicolon
<1>5. /\ slash = -1 \/ (slash \in a .. end - 1 /\ CharAt(spec, slash) \in Slashes)
      /\ slash = -1 => Free(spec, a, end, Slashes)
      /\ slash >= 0 => Free(spec, slash + 1, end, Slashes)
  <2> HIDE DEF end
  <2>1. QED
    BY <1>4, LastOfIs
<1> HIDE DEF slash
<1>6. /\ start \in a .. end /\ start \in Nat /\ Free(spec, start, end, Slashes)
      /\ start # a => CharAt(spec, start - 1) \in Slashes
  BY <1>4, <1>5
<1>7. /\ stretch \in Seq(S) /\ Len(stretch) = b - a
      /\ \A i \in 1 .. b - a : stretch[i] = CharAt(spec, a + i - 1)
  BY <1>0, BetweenIs
<1>8. stretch # << >>
  BY <1>7
<1>9. IF end = b THEN ~Has(Tail(stretch), {ParameterMark})
      ELSE /\ Head(Between(spec, end, b)) = ParameterMark
           /\ ~Has(Tail(Between(spec, end, b)), {ParameterMark})
  <2>1. CASE semicolon = -1
    <3>1. end = b
      BY <2>1
    <3>2. Free(spec, a + 1, b, {ParameterMark})
      BY <1>3, <2>1
    <3>3. ~Has(Between(spec, a + 1, b), {ParameterMark})
      BY <1>0, <3>2, FreeHasNot
    <3>4. Tail(stretch) = Between(spec, a + 1, b)
      BY TailIs
    <3>5. QED
      BY <3>1, <3>3, <3>4
  <2>2. CASE semicolon # -1
    <3>1. semicolon \in a + 1 .. b - 1 /\ CharAt(spec, semicolon) = ParameterMark /\ semicolon >= 0
      <4>1. semicolon \in a + 1 .. b - 1 /\ CharAt(spec, semicolon) \in {ParameterMark}
        BY <1>3, <2>2
      <4>2. QED
        BY <1>0, <4>1
    <3>2. end = semicolon
      BY <3>1
    <3> HIDE DEF end
    <3>3. end < b /\ end + 1 \in Nat /\ end + 1 <= b
      BY <1>0, <1>4, <3>1, <3>2
    <3>4. Head(Between(spec, end, b)) = ParameterMark
      BY <1>4, <3>1, <3>2, <3>3, HeadIs
    <3>5. Tail(Between(spec, end, b)) = Between(spec, end + 1, b)
      BY <1>4, <3>3, TailIs
    <3>6. Free(spec, end + 1, b, {ParameterMark})
      BY <1>3, <3>1, <3>2
    <3>7. ~Has(Between(spec, end + 1, b), {ParameterMark})
      BY <3>3, <3>6, FreeHasNot
    <3>8. end # b
      BY <1>4, <3>3
    <3>9. QED
      BY <3>4, <3>5, <3>7, <3>8
  <2>3. QED
    BY <2>1, <2>2
<1> HIDE DEF path, end, start, stretch
<1> DEFINE i == start - a
           j == end - a
<1>10. i \in 0 .. Len(stretch) /\ j \in i .. Len(stretch) /\ j > 0
  BY <1>4, <1>6, <1>7
<1>11. MakeRange(start, end) = Component(path.begin + i, j - i)
  <2>1. a + i = start /\ j - i = end - start
    BY <1>4, <1>6
  <2>2. QED
    BY <1>1, <2>1 DEF MakeRange
<1>12. Prefix(stretch, i) = << >> \/ Prefix(stretch, i)[i] \in Slashes
  <2>1. a \in a .. b /\ start \in a .. b /\ a <= start /\ a - a + 1 = 1
    BY <1>4, <1>6
  <2>2. Prefix(stretch, i) = Between(spec, a, start)
    <3>1. SubSeq(stretch, a - a + 1, start - a) = Between(spec, a, start)
      BY <1>0, <2>1, StretchIs DEF stretch
    <3>2. QED
      BY <2>1, <3>1 DEF Prefix
  <2>3. CASE start = a
    <3>1. Between(spec, a, start) = << >>
      BY <2>3, NothingBetween
    <3>2. QED
      BY <2>2, <3>1
  <2>4. CASE start # a
    <3>1. \A k \in 1 .. start - a : Between(spec, a, start)[k] = CharAt(spec, a + k - 1)
      <4>1. start <= Len(spec)
        BY <2>1
      <4>2. QED
        BY <1>6, <2>1, <4>1, BetweenIs
    <3>2. start - a \in 1 .. start - a /\ a + (start - a) - 1 = start - 1
      BY <2>1, <2>4
    <3>3. Between(spec, a, start)[start - a] = CharAt(spec, start - 1)
      BY <3>1, <3>2
    <3>4. QED
      BY <1>6, <2>2, <2>4, <3>3
  <2>5. QED
    BY <2>3, <2>4
<1>13. ~Has(SubSeq(stretch, i + 1, j), Slashes)
  <2>1. start \in a .. b /\ end \in a .. b /\ start <= end /\ end <= Len(spec)
    BY <1>4, <1>6
  <2>2. SubSeq(stretch, start - a + 1, end - a) = Between(spec, start, end)
    BY <1>0, <2>1, StretchIs DEF stretch
  <2>3. ~Has(Between(spec, start, end), Slashes)
    BY <1>4, <1>6, <2>1, FreeHasNot
  <2>4. QED
    BY <2>2, <2>3
<1>14. Suffix(stretch, j) = Between(spec, end, b)
  <2>1. end \in a .. b /\ b \in a .. b /\ end <= b
    BY <1>4
  <2>2. SubSeq(stretch, end - a + 1, b - a) = Between(spec, end, b)
    BY <1>0, <2>1, StretchIs DEF stretch
  <2>3. QED
    BY <1>7, <2>2 DEF Suffix
<1>15. Suffix(stretch, j) = << >> <=> end = b
  <2>1. Len(Between(spec, end, b)) = b - end
    BY <1>4, BetweenIs
  <2>2. CASE end = b
    BY <1>14, <2>2, NothingBetween
  <2>3. CASE end # b
    BY <1>4, <1>14, <2>1, <2>3
  <2>4. QED
    BY <2>2, <2>3
<1>16. IF Suffix(stretch, j) = << >> THEN ~Has(Tail(stretch), {ParameterMark})
       ELSE Head(Suffix(stretch, j)) = ParameterMark /\ ~Has(Tail(Suffix(stretch, j)), {ParameterMark})
  BY <1>9, <1>14, <1>15
<1> HIDE DEF i, j
<1>17. \E k \in 0 .. Len(stretch) : \E l \in k .. Len(stretch) :
         /\ l > 0
         /\ MakeRange(start, end) = Component(path.begin + k, l - k)
         /\ Prefix(stretch, k) = << >> \/ Prefix(stretch, k)[k] \in Slashes
         /\ ~Has(SubSeq(stretch, k + 1, l), Slashes)
         /\ IF Suffix(stretch, l) = << >> THEN ~Has(Tail(stretch), {ParameterMark})
            ELSE Head(Suffix(stretch, l)) = ParameterMark /\ ~Has(Tail(Suffix(stretch, l)), {ParameterMark})
  BY <1>10, <1>11, <1>12, <1>13, <1>16
<1>18. IsFileNameOf(spec, path, MakeRange(start, end))
  BY <1>1, <1>8, <1>17 DEF IsFileNameOf
<1>19. QED
  BY <1>2, <1>18 DEF path

-----------------------------------------------------------------------------
\* What the user types.

\* The symbols of a text, and those that stand between the parts of a URL.
UrlSymbols == STRING \cup {":", "@", "?", "#"}

\* A text that is a URL is a sequence of symbols.
LEMMA TextIsSymbols ==
  TextSpec => [](subject = "url" => text \in Seq(UrlSymbols))
<1> DEFINE Inv == subject = "url" => text \in Seq(UrlSymbols)
<1>1. Begin => Inv
  <2>1. Seq(STRING) \subseteq Seq(UrlSymbols)
    BY DEF UrlSymbols
  <2>2. QED
    BY <2>1, TextAssumption DEF Begin
<1>2. Inv /\ [Typing]_textVars => Inv'
  <2>1. SUFFICES ASSUME Inv, [Typing]_textVars
                 PROVE  Inv'
    OBVIOUS
  <2>2. CASE Typing
    <3>1. PICK c \in Symbols[subject] : Type(c)
      BY <2>2 DEF Typing
    <3>2. SUFFICES ASSUME subject' = "url"
                   PROVE  text' \in Seq(UrlSymbols)
      OBVIOUS
    <3>3. subject = "url" /\ text' = Append(text, c)
      BY <3>1, <3>2 DEF Type
    <3>4. text \in Seq(UrlSymbols) /\ c \in UrlSymbols
      BY <2>1, <3>1, <3>3, TextAssumption DEF UrlSymbols
    <3>5. QED
      BY <3>3, <3>4
  <2>3. CASE UNCHANGED textVars
    BY <2>1, <2>3 DEF textVars
  <2>4. QED
    BY <2>1, <2>2, <2>3
<1>3. QED
  BY <1>1, <1>2, PTL DEF TextSpec

\* Whatever URL the user types, ParseStandardURL, ParsePathURL and
\* ParseMailtoURL lose, double or misplace none of it, and ExtractFileName cuts
\* the symbol list's name out of its path.
THEOREM UrlsCompose == TextSpec => []UrlPartsCompose
<1>1. (subject = "url" => text \in Seq(UrlSymbols)) => UrlPartsCompose
  <2>1. SUFFICES ASSUME subject = "url", text \in Seq(UrlSymbols)
                 PROVE  UrlPartsCompose
    BY DEF UrlPartsCompose
  <2>2. {":", "@", "?", "#"} \subseteq UrlSymbols
    BY DEF UrlSymbols
  <2>3. IsUrlOf(text, ParseStandardURL(text))
    BY <2>1, <2>2, StandardUrlComposes
  <2>4. /\ IsPathUrlOf(text, ParsePathURL(text))
        /\ LET path == ParsePathURL(text).path
           IN  path = None \/ \E a, b \in 0 .. Len(text) : a < b /\ path = MakeRange(a, b)
    BY <2>1, <2>2, PathUrlComposes
  <2>5. IsMailtoUrlOf(text, ParseMailtoURL(text))
    BY <2>1, <2>2, MailtoUrlComposes
  <2> DEFINE path == ParsePathURL(text).path
  <2>6. IsFileNameOf(text, path, ExtractFileName(text, path))
    <3>1. CASE path = None
      <4>1. Part(text, None) = << >> /\ ~IsNonempty(None)
        BY NoneIs
      <4> HIDE DEF path
      <4>2. QED
        BY <3>1, <4>1 DEF IsFileNameOf, ExtractFileName
    <3>2. CASE path # None
      <4>1. PICK a, b \in 0 .. Len(text) : a < b /\ path = MakeRange(a, b)
        BY <2>4, <3>2
      <4>2. a \in Nat /\ b \in Nat /\ b <= Len(text)
        BY <2>1, <4>1
      <4> HIDE DEF path
      <4>3. QED
        BY <2>1, <4>1, <4>2, FileNameIs
    <3>3. QED
      BY <3>1, <3>2
  <2>7. QED
    BY <2>3, <2>4, <2>5, <2>6 DEF UrlPartsCompose
<1>2. QED
  BY <1>1, TextIsSymbols, PTL

-----------------------------------------------------------------------------
\* The layout of a URL.

\* A component that is there stands between two cuts: behind its delimiter, with
\* what the layout knows to follow it up to the second.
Fits(c, from, to, delimiter, advance) ==
  IsValid(c) =>
    /\ c.begin \in Nat /\ EndOf(c) \in Nat
    /\ from + delimiter <= c.begin /\ c.begin <= EndOf(c) /\ EndOf(c) + advance = to

\* ... and one that is not there takes no place.
Fills(c, from, to, delimiter, advance) ==
  Fits(c, from, to, delimiter, advance) /\ (~IsValid(c) => from = to)

\* A user name, with what follows it, and a password.
LEMMA UserInfoLaid ==
  ASSUME NEW S, NEW spec \in Seq(S), NEW a \in Nat, NEW b \in Nat, a <= b, b <= Len(spec)
  PROVE  LET u == ParseUserInfo(spec, MakeRange(a, b))
         IN  \E x \in a .. b + 1 :
               Fits(u.username, a, x, 0, 1) /\ Fills(u.password, x, b + 1, 0, 1)
<1> DEFINE u == ParseUserInfo(spec, MakeRange(a, b))
           colon == FirstOf(spec, a, b, {":"})
<1>1. colon \in a .. b
  BY FirstOfIs
<1>2. MakeRange(a, b).begin = a /\ EndOf(MakeRange(a, b)) = b
  BY RangeIs
<1>3. u = IF colon < b
          THEN [username |-> MakeRange(a, colon), password |-> MakeRange(colon + 1, b)]
          ELSE [username |-> MakeRange(a, b), password |-> None]
  BY <1>2 DEF ParseUserInfo
<1> HIDE DEF u, colon
<1>4. colon \in Nat /\ a <= colon /\ colon <= b /\ colon <= Len(spec)
  BY <1>1
<1>5. CASE colon < b
  <2>1. u.username = MakeRange(a, colon) /\ u.password = MakeRange(colon + 1, b)
    BY <1>3, <1>5
  <2>2. colon + 1 \in Nat /\ colon + 1 <= b
    BY <1>4, <1>5
  <2>3. /\ MakeRange(a, colon).begin = a /\ EndOf(MakeRange(a, colon)) = colon
        /\ MakeRange(colon + 1, b).begin = colon + 1 /\ EndOf(MakeRange(colon + 1, b)) = b
        /\ IsValid(MakeRange(colon + 1, b))
    BY <1>4, <2>2, RangeIs
  <2>4. Fits(u.username, a, colon + 1, 0, 1)
    BY <1>4, <2>1, <2>3 DEF Fits
  <2>5. Fills(u.password, colon + 1, b + 1, 0, 1)
    BY <1>4, <2>1, <2>2, <2>3 DEF Fits, Fills
  <2>6. colon + 1 \in a .. b + 1
    BY <1>4, <2>2
  <2>7. QED
    BY <2>4, <2>5, <2>6 DEF u
<1>6. CASE ~ (colon < b)
  <2>1. u.username = MakeRange(a, b) /\ u.password = None
    BY <1>3, <1>6
  <2>2. Fits(u.username, a, b + 1, 0, 1)
    BY <1>2, <2>1 DEF Fits
  <2>3. Fills(u.password, b + 1, b + 1, 0, 1)
    BY <2>1, NoneIs DEF Fits, Fills
  <2>4. b + 1 \in a .. b + 1
    OBVIOUS
  <2>5. QED
    BY <2>2, <2>3, <2>4 DEF u
<1>7. QED
  BY <1>5, <1>6

\* A host and a port.
LEMMA ServerLaid ==
  ASSUME NEW S, NEW spec \in Seq(S), NEW a \in Nat, NEW b \in Nat, a <= b, b <= Len(spec)
  PROVE  LET v == ParseServerInfo(spec, MakeRange(a, b))
         IN  \E x \in a .. b : Fills(v.host, a, x, 0, 0) /\ Fills(v.port, x, b, 1, 0)
<1> DEFINE server == MakeRange(a, b)
           v == ParseServerInfo(spec, server)
           colon == LastOf(spec, a, b, {":"})
           closing == LastOf(spec, a, b, {"]"})
           terminator == Ipv6Terminator(spec, server)
<1>1. server.begin = a /\ server.len = b - a /\ EndOf(server) = b
  BY RangeIs
<1>2. v = IF b - a = 0 THEN [host |-> None, port |-> None]
          ELSE IF colon > terminator
          THEN [host |-> IF colon = a THEN None ELSE MakeRange(a, colon),
                port |-> MakeRange(colon + 1, b)]
          ELSE [host |-> server, port |-> None]
  BY <1>1 DEF ParseServerInfo
<1>3. terminator = IF closing >= 0 THEN closing ELSE IF CharAt(spec, a) = "[" THEN b ELSE -1
  BY <1>1 DEF Ipv6Terminator
<1>4. /\ colon = -1 \/ colon \in a .. b - 1
      /\ closing = -1 \/ closing \in a .. b - 1
  BY LastOfIs
<1> HIDE DEF v, colon, closing, terminator
<1>5. ~IsValid(None)
  BY NoneIs
<1>6. CASE a = b
  <2>1. v.host = None /\ v.port = None
    BY <1>2, <1>6
  <2>2. Fills(v.host, a, a, 0, 0) /\ Fills(v.port, a, b, 1, 0) /\ a \in a .. b
    BY <1>5, <1>6, <2>1 DEF Fits, Fills
  <2>3. QED
    BY <2>2 DEF v
<1>7. CASE a < b /\ colon > terminator
  <2>1. colon \in a .. b - 1
    BY <1>3, <1>4, <1>7
  <2>2. colon \in Nat /\ a <= colon /\ colon + 1 \in Nat /\ colon + 1 <= b /\ colon <= Len(spec)
        /\ colon \in a .. b
    BY <2>1
  <2>3. /\ v.host = IF colon = a THEN None ELSE MakeRange(a, colon)
        /\ v.port = MakeRange(colon + 1, b)
    BY <1>2, <1>7
  <2>4. /\ MakeRange(a, colon).begin = a /\ EndOf(MakeRange(a, colon)) = colon
        /\ MakeRange(colon + 1, b).begin = colon + 1 /\ EndOf(MakeRange(colon + 1, b)) = b
        /\ IsValid(MakeRange(a, colon)) /\ IsValid(MakeRange(colon + 1, b))
    BY <2>2, RangeIs
  <2>5. Fills(v.host, a, colon, 0, 0)
    <3>1. CASE colon = a
      BY <1>5, <2>3, <3>1 DEF Fits, Fills
    <3>2. CASE colon # a
      BY <2>2, <2>3, <2>4, <3>2 DEF Fits, Fills
    <3>3. QED
      BY <3>1, <3>2
  <2>6. Fills(v.port, colon, b, 1, 0)
    BY <2>2, <2>3, <2>4 DEF Fits, Fills
  <2>7. QED
    BY <2>2, <2>5, <2>6 DEF v
<1>8. CASE a < b /\ ~ (colon > terminator)
  <2>1. v.host = server /\ v.port = None
    BY <1>2, <1>8
  <2>2. IsValid(server)
    BY RangeIs
  <2>3. Fills(v.host, a, b, 0, 0) /\ Fills(v.port, b, b, 1, 0) /\ b \in a .. b
    BY <1>1, <1>5, <2>1, <2>2 DEF Fits, Fills
  <2>4. QED
    BY <2>3 DEF v
<1>9. QED
  BY <1>6, <1>7, <1>8

\* An authority.
LEMMA AuthorityLaid ==
  ASSUME NEW S, NEW spec \in Seq(S), NEW a \in Nat, NEW b \in Nat, a <= b, b <= Len(spec)
  PROVE  LET w == ParseAuthority(spec, MakeRange(a, b))
         IN  \E x, y, z \in a .. b :
               /\ x <= y /\ y <= z
               /\ Fits(w.username, a, x, 0, 1) /\ Fills(w.password, x, y, 0, 1)
               /\ Fills(w.host, y, z, 0, 0) /\ Fills(w.port, z, b, 1, 0)
<1> DEFINE w == ParseAuthority(spec, MakeRange(a, b))
           at == UserInfoEnd(spec, MakeRange(a, b))
           u == IF at >= 0 THEN ParseUserInfo(spec, MakeRange(a, at))
                ELSE [username |-> None, password |-> None]
           s == IF at >= 0 THEN at + 1 ELSE a
           v == ParseServerInfo(spec, MakeRange(s, b))
<1>1. MakeRange(a, b).begin = a /\ EndOf(MakeRange(a, b)) = b
  BY RangeIs
<1>2. /\ w.username = u.username /\ w.password = u.password
      /\ w.host = v.host /\ w.port = v.port
  BY <1>1 DEF ParseAuthority
<1>3. at = -1 \/ at \in a .. b - 1
  BY <1>1, LastOfIs DEF UserInfoEnd
<1>4. s \in Nat /\ a <= s /\ s <= b /\ s \in a .. b
  BY <1>3
<1>5. PICK z \in s .. b : Fills(v.host, s, z, 0, 0) /\ Fills(v.port, z, b, 1, 0)
  <2> HIDE DEF s
  <2>1. QED
    BY <1>4, ServerLaid
<1>6. PICK x \in a .. s : Fits(u.username, a, x, 0, 1) /\ Fills(u.password, x, s, 0, 1)
  <2>1. CASE at = -1
    <3>1. u.username = None /\ u.password = None /\ s = a
      BY <2>1
    <3> HIDE DEF u, s
    <3>2. Fits(None, a, a, 0, 1) /\ Fills(None, a, a, 0, 1) /\ a \in a .. a
      BY NoneIs DEF Fits, Fills
    <3>3. QED
      BY <3>1, <3>2
  <2>2. CASE at # -1
    <3>1. at \in Nat /\ a <= at /\ at <= Len(spec) /\ at >= 0
      BY <1>3, <2>2
    <3>2. u = ParseUserInfo(spec, MakeRange(a, at)) /\ s = at + 1
      BY <3>1
    <3> HIDE DEF u, s, at
    <3>3. QED
      BY <3>1, <3>2, UserInfoLaid
  <2>3. QED
    BY <2>1, <2>2
<1> HIDE DEF w, u, v, s, at
<1>7. /\ x \in a .. b /\ s \in a .. b /\ z \in a .. b
      /\ x <= s /\ s <= z
  BY <1>4, <1>5, <1>6
<1>8. QED
  BY <1>2, <1>5, <1>6, <1>7 DEF w

\* A path, a query and a reference.
LEMMA PathLaid ==
  ASSUME NEW S, NEW spec \in Seq(S), NEW a \in Nat, NEW b \in Nat, a < b, b <= Len(spec)
  PROVE  LET r == ParsePath(spec, MakeRange(a, b))
         IN  \E x, y \in a .. b :
               /\ x <= y
               /\ Fills(r.path, a, x, 0, 0) /\ Fills(r.query, x, y, 1, 0)
               /\ Fills(r.ref, y, b, 1, 0)
<1> DEFINE r == ParsePath(spec, MakeRange(a, b))
           hash == FirstOf(spec, a, b, {"#"})
           mark == QueryMark(spec, MakeRange(a, b))
           end == Min({hash, mark})
<1>1. r = [path |-> IF end = a THEN None ELSE MakeRange(a, end),
           query |-> IF mark < b THEN MakeRange(mark + 1, hash) ELSE None,
           ref |-> IF hash < b THEN MakeRange(hash + 1, b) ELSE None]
  <2>1. /\ MakeRange(a, b).begin = a /\ EndOf(MakeRange(a, b)) = b
        /\ IsValid(MakeRange(a, b))
    BY RangeIs
  <2>2. QED
    BY <2>1 DEF ParsePath
<1>2. /\ hash \in a .. b /\ mark \in a .. b /\ end \in a .. hash
      /\ IF mark < b THEN end = mark /\ mark < hash ELSE end = hash
  BY PathEnds
<1> HIDE DEF r, hash, mark, end
<1>3. /\ hash \in Nat /\ mark \in Nat /\ end \in Nat
      /\ a <= end /\ end <= hash /\ hash <= b /\ hash <= Len(spec) /\ end <= Len(spec)
      /\ end \in a .. b /\ hash \in a .. b
  BY <1>2
<1>4. ~IsValid(None)
  BY NoneIs
<1>5. Fills(r.path, a, end, 0, 0)
  <2>1. CASE end = a
    BY <1>1, <1>4, <2>1 DEF Fits, Fills
  <2>2. CASE end # a
    <3>1. r.path = MakeRange(a, end)
      BY <1>1, <2>2
    <3>2. MakeRange(a, end).begin = a /\ EndOf(MakeRange(a, end)) = end /\ IsValid(MakeRange(a, end))
      BY <1>3, RangeIs
    <3>3. QED
      BY <1>3, <3>1, <3>2 DEF Fits, Fills
  <2>3. QED
    BY <2>1, <2>2
<1>6. Fills(r.query, end, hash, 1, 0)
  <2>1. CASE mark < b
    <3>1. r.query = MakeRange(mark + 1, hash) /\ end = mark /\ mark + 1 \in Nat /\ mark + 1 <= hash
      BY <1>1, <1>2, <1>3, <2>1
    <3>2. /\ MakeRange(mark + 1, hash).begin = mark + 1 /\ EndOf(MakeRange(mark + 1, hash)) = hash
          /\ IsValid(MakeRange(mark + 1, hash))
      BY <1>3, <3>1, RangeIs
    <3>3. QED
      BY <1>3, <3>1, <3>2 DEF Fits, Fills
  <2>2. CASE ~ (mark < b)
    BY <1>1, <1>2, <1>4, <2>2 DEF Fits, Fills
  <2>3. QED
    BY <2>1, <2>2
<1>7. Fills(r.ref, hash, b, 1, 0)
  <2>1. CASE hash < b
    <3>1. r.ref = MakeRange(hash + 1, b) /\ hash + 1 \in Nat /\ hash + 1 <= b
      BY <1>1, <1>3, <2>1
    <3>2. /\ MakeRange(hash + 1, b).begin = hash + 1 /\ EndOf(MakeRange(hash + 1, b)) = b
          /\ IsValid(MakeRange(hash + 1, b))
      BY <3>1, RangeIs
    <3>3. QED
      BY <1>3, <3>1, <3>2 DEF Fits, Fills
  <2>2. CASE ~ (hash < b)
    BY <1>1, <1>3, <1>4, <2>2 DEF Fits, Fills
  <2>3. QED
    BY <2>1, <2>2
<1>8. QED
  BY <1>3, <1>5, <1>6, <1>7 DEF r

-----------------------------------------------------------------------------
\* Counting the characters before a component.

\* The nth component, the width of its delimiter, and what is known to follow it.
Nth(p, n) == p[ComponentTypes[n]]

There(p, n) == IsValid(Nth(p, n))

Mark(n) == IF ComponentTypes[n] \in Delimited THEN 1 ELSE 0

Behind(n) == Advance(ComponentTypes[n])

\* The components in their order.
LEMMA TypesAre ==
  /\ ComponentTypes[1] = "scheme" /\ ComponentTypes[2] = "username"
  /\ ComponentTypes[3] = "password" /\ ComponentTypes[4] = "host"
  /\ ComponentTypes[5] = "port" /\ ComponentTypes[6] = "path"
  /\ ComponentTypes[7] = "query" /\ ComponentTypes[8] = "ref"
  /\ DOMAIN ComponentTypes = 1 .. 8
  BY DEF ComponentTypes

\* There are eight numbers of components.
LEMMA EightNumbers ==
  ASSUME NEW n \in 1 .. 8
  PROVE  n = 1 \/ n = 2 \/ n = 3 \/ n = 4 \/ n = 5 \/ n = 6 \/ n = 7 \/ n = 8
  OBVIOUS

\* No two components are of the same type.
LEMMA TypesDiffer ==
  ASSUME NEW m \in 1 .. 8, NEW n \in 1 .. 8, ComponentTypes[m] = ComponentTypes[n]
  PROVE  m = n
<1>1. CASE m = 1
  BY <1>1, TypesAre, EightNumbers
<1>2. CASE m = 2
  BY <1>2, TypesAre, EightNumbers
<1>3. CASE m = 3
  BY <1>3, TypesAre, EightNumbers
<1>4. CASE m = 4
  BY <1>4, TypesAre, EightNumbers
<1>5. CASE m = 5
  BY <1>5, TypesAre, EightNumbers
<1>6. CASE m = 6
  BY <1>6, TypesAre, EightNumbers
<1>7. CASE m = 7
  BY <1>7, TypesAre, EightNumbers
<1>8. CASE m = 8
  BY <1>8, TypesAre, EightNumbers
<1>9. QED
  BY <1>1, <1>2, <1>3, <1>4, <1>5, <1>6, <1>7, <1>8, EightNumbers

\* The widths.
LEMMA WidthsAre ==
  /\ Mark(1) = 0 /\ Mark(2) = 0 /\ Mark(3) = 0 /\ Mark(4) = 0
  /\ Mark(5) = 1 /\ Mark(6) = 0 /\ Mark(7) = 1 /\ Mark(8) = 1
  /\ Behind(1) = 1 /\ Behind(2) = 1 /\ Behind(3) = 1 /\ Behind(4) = 0
  /\ Behind(5) = 0 /\ Behind(6) = 0 /\ Behind(7) = 0 /\ Behind(8) = 0
  BY TypesAre DEF Mark, Behind, Advance, Delimited

\* What CountCharactersBefore counts before the nth component: up to the next
\* there is, else up to the end of the last.
Counted(p, n, flag, count) ==
  \/ \E k \in n .. 8 :
       /\ There(p, k) /\ \A m \in n .. k - 1 : ~There(p, m)
       /\ count = Nth(p, k).begin - (IF k # n \/ flag THEN Mark(k) ELSE 0)
  \/ /\ \A m \in 1 .. 8 : ~There(p, m)
     /\ count = 0
  \/ \E k \in 1 .. n - 1 :
       /\ There(p, k) /\ \A m \in k + 1 .. 8 : ~There(p, m)
       /\ count = EndOf(Nth(p, k)) + Behind(k)

\* That is what it counts; before the scheme nothing but where it begins.
LEMMA CountIs ==
  ASSUME NEW p, NEW n \in 1 .. 8, NEW flag \in BOOLEAN
  PROVE  LET count == CountCharactersBefore(p, ComponentTypes[n], flag)
         IN  IF n = 1 THEN count = p.scheme.begin ELSE Counted(p, n, flag, count)
<1> DEFINE type == ComponentTypes[n]
           at == CHOOSE i \in DOMAIN ComponentTypes : ComponentTypes[i] = type
           there == {i \in DOMAIN ComponentTypes : IsValid(p[ComponentTypes[i]])}
           next == {i \in there : i >= at /\ i > 1}
           before == {i \in there : i < at}
           count == CountCharactersBefore(p, type, flag)
<1>1. at = n
  <2>1. n \in DOMAIN ComponentTypes /\ ComponentTypes[n] = type
    BY TypesAre
  <2>2. at \in DOMAIN ComponentTypes /\ ComponentTypes[at] = type
    BY <2>1
  <2>3. at \in 1 .. 8
    BY <2>2, TypesAre
  <2> HIDE DEF at
  <2>4. QED
    BY <2>2, <2>3, TypesDiffer
<1>2. count =
        IF type = "scheme" THEN p.scheme.begin
        ELSE IF next # {}
        THEN p[ComponentTypes[Min(next)]].begin
               - (IF ComponentTypes[Min(next)] \in Delimited
                     /\ (ComponentTypes[Min(next)] # type \/ flag) THEN 1 ELSE 0)
        ELSE IF before = {} THEN 0
        ELSE EndOf(p[ComponentTypes[Max(before)]]) + Advance(ComponentTypes[Max(before)])
  BY DEF CountCharactersBefore
<1>3. \A i \in 1 .. 8 : (i \in next <=> There(p, i) /\ i >= n /\ i > 1)
                        /\ (i \in before <=> There(p, i) /\ i < n)
  <2> HIDE DEF at
  <2>1. QED
    BY <1>1, TypesAre DEF There, Nth
<1>4. next \subseteq 1 .. 8 /\ before \subseteq 1 .. 8
  BY TypesAre
<1> HIDE DEF at, there, next, before, count
<1>5. CASE n = 1
  BY <1>2, <1>5, TypesAre DEF count
<1>6. CASE n # 1 /\ next # {}
  <2> DEFINE k == Min(next)
  <2>1. k \in next /\ \A j \in next : k <= j
    <3>1. next \subseteq 0 .. 8
      BY <1>4
    <3>2. QED
      BY <1>6, <3>1, LeastOffset
  <2> HIDE DEF k
  <2>2. k \in 1 .. 8 /\ There(p, k) /\ k >= n
    BY <1>3, <1>4, <2>1
  <2>3. \A m \in n .. k - 1 : ~There(p, m)
    <3>1. SUFFICES ASSUME NEW m \in n .. k - 1, There(p, m)
                   PROVE  FALSE
      OBVIOUS
    <3>2. m \in 1 .. 8 /\ m >= n /\ m > 1 /\ ~ (k <= m)
      BY <1>6, <2>2
    <3>3. QED
      BY <1>3, <2>1, <3>1, <3>2
  <2>4. type # "scheme"
    <3>1. 1 \in 1 .. 8
      OBVIOUS
    <3>2. QED
      BY <1>6, <3>1, TypesAre, TypesDiffer
  <2>5. ComponentTypes[k] # type <=> k # n
    BY <2>2, TypesDiffer
  <2>6. count = Nth(p, k).begin - (IF k # n \/ flag THEN Mark(k) ELSE 0)
    <3>1. count = p[ComponentTypes[k]].begin
               - (IF ComponentTypes[k] \in Delimited
                     /\ (ComponentTypes[k] # type \/ flag) THEN 1 ELSE 0)
      BY <1>2, <1>6, <2>4 DEF k
    <3>2. (IF ComponentTypes[k] \in Delimited /\ (ComponentTypes[k] # type \/ flag) THEN 1 ELSE 0)
            = (IF k # n \/ flag THEN Mark(k) ELSE 0)
      BY <2>5 DEF Mark
    <3>3. QED
      BY <3>1, <3>2 DEF Nth
  <2>7. k \in n .. 8
    BY <2>2
  <2>8. Counted(p, n, flag, count)
    BY <2>2, <2>3, <2>6, <2>7 DEF Counted
  <2>9. QED
    BY <1>6, <2>8 DEF count
<1>7. CASE n # 1 /\ next = {}
  <2>1. type # "scheme"
    <3>1. 1 \in 1 .. 8
      OBVIOUS
    <3>2. QED
      BY <1>7, <3>1, TypesAre, TypesDiffer
  <2>2. \A m \in n .. 8 : ~There(p, m)
    <3>1. TAKE m \in n .. 8
    <3>2. m \in 1 .. 8 /\ m >= n /\ m > 1
      BY <1>7
    <3>3. QED
      BY <1>3, <1>7, <3>2
  <2>3. CASE before = {}
    <3>1. \A m \in 1 .. 8 : ~There(p, m)
      <4>1. TAKE m \in 1 .. 8
      <4>2. m < n => ~There(p, m)
        BY <1>3, <2>3
      <4>3. m >= n => m \in n .. 8
        OBVIOUS
      <4>4. QED
        BY <2>2, <4>2, <4>3
    <3>2. count = 0
      BY <1>2, <1>7, <2>1, <2>3
    <3>3. QED
      BY <1>7, <3>1, <3>2 DEF Counted, count
  <2>4. CASE before # {}
    <3> DEFINE k == Max(before)
    <3>1. k \in before /\ \A j \in before : j <= k
      <4>1. before \subseteq -1 .. 8
        BY <1>4
      <4>2. QED
        BY <2>4, <4>1, GreatestOffset
    <3>2. count = EndOf(Nth(p, k)) + Behind(k)
      BY <1>2, <1>7, <2>1, <2>4 DEF Nth, Behind
    <3> HIDE DEF k
    <3>3. k \in 1 .. 8 /\ There(p, k) /\ k < n
      BY <1>3, <1>4, <3>1
    <3>4. \A m \in k + 1 .. 8 : ~There(p, m)
      <4>1. TAKE m \in k + 1 .. 8
      <4>2. m \in 1 .. 8 /\ ~ (m <= k)
        BY <3>3
      <4>3. m < n => ~There(p, m)
        BY <1>3, <3>1, <4>2
      <4>4. m >= n => m \in n .. 8
        BY <4>2
      <4>5. QED
        BY <2>2, <4>2, <4>3, <4>4
    <3>5. k \in 1 .. n - 1
      BY <3>3
    <3>6. Counted(p, n, flag, count)
      BY <3>2, <3>3, <3>4, <3>5 DEF Counted
    <3>7. QED
      BY <1>7, <3>6 DEF count
  <2>5. QED
    BY <2>3, <2>4
<1>8. QED
  BY <1>5, <1>6, <1>7

-----------------------------------------------------------------------------
\* The cuts of a URL.

\* x are the offsets at which a URL is cut: its nth component lies between the
\* nth and the next, and from the password on one that is not there leaves no
\* gap (the slashes behind the scheme are with the user name).
Laid(p, x) ==
  /\ \A k \in 1 .. 9 : x[k] \in Nat
  /\ \A k, m \in 1 .. 9 : k <= m => x[k] <= x[m]
  /\ \A k \in 1 .. 8 : Fits(Nth(p, k), x[k], x[k + 1], Mark(k), Behind(k))
  /\ \A k \in 3 .. 8 : ~There(p, k) => x[k] = x[k + 1]
  /\ ~IsValid(p.scheme) => p.scheme.begin = 0

\* Nine numbers each not below the one before it rise.
LEMMA Rising ==
  ASSUME NEW x, \A k \in 1 .. 9 : x[k] \in Nat, \A k \in 1 .. 8 : x[k] <= x[k + 1],
         NEW k \in 1 .. 9, NEW m \in 1 .. 9, k <= m
  PROVE  x[k] <= x[m]
<1>1. /\ x[1] <= x[2] /\ x[2] <= x[3] /\ x[3] <= x[4] /\ x[4] <= x[5]
      /\ x[5] <= x[6] /\ x[6] <= x[7] /\ x[7] <= x[8] /\ x[8] <= x[9]
  OBVIOUS
<1>2. /\ x[1] \in Nat /\ x[2] \in Nat /\ x[3] \in Nat /\ x[4] \in Nat /\ x[5] \in Nat
      /\ x[6] \in Nat /\ x[7] \in Nat /\ x[8] \in Nat /\ x[9] \in Nat
  OBVIOUS
<1>3. k = 1 \/ k = 2 \/ k = 3 \/ k = 4 \/ k = 5 \/ k = 6 \/ k = 7 \/ k = 8 \/ k = 9
  OBVIOUS
<1>4. m = 1 \/ m = 2 \/ m = 3 \/ m = 4 \/ m = 5 \/ m = 6 \/ m = 7 \/ m = 8 \/ m = 9
  OBVIOUS
<1>5. QED
  BY <1>1, <1>2, <1>3, <1>4

\* Where the scheme of a URL stands.
LEMMA SchemeLaid ==
  ASSUME NEW S, NEW spec \in Seq(S),
         NEW begin, begin = TrimURL(spec).begin, NEW end, end = TrimURL(spec).len,
         NEW scheme, scheme = ExtractScheme(spec, end),
         NEW after, after = IF IsValid(scheme) THEN EndOf(scheme) + 1 ELSE begin
  PROVE  Fits(scheme, begin, after, 0, 1) /\ (~IsValid(scheme) => scheme.begin = 0)
<1>1. /\ begin \in Nat /\ end \in Nat /\ begin <= end /\ end <= Len(spec)
      /\ Min({i \in 0 .. end - 1 : CharAt(spec, i) \notin Blanks} \cup {end}) = begin
  BY TrimIs
<1> DEFINE colon == FirstOf(spec, begin, end, {":"})
<1>2. scheme = IF colon < end THEN MakeRange(begin, colon) ELSE None
  BY <1>1 DEF ExtractScheme
<1>3. colon \in begin .. end
  BY <1>1, FirstOfIs
<1> HIDE DEF colon
<1>4. colon \in Nat /\ begin <= colon /\ colon <= Len(spec)
  BY <1>1, <1>3
<1>5. CASE colon < end
  <2>1. scheme = MakeRange(begin, colon)
    BY <1>2, <1>5
  <2>2. IsValid(scheme) /\ scheme.begin = begin /\ EndOf(scheme) = colon
    BY <1>1, <1>4, <2>1, RangeIs
  <2>3. QED
    BY <1>1, <1>4, <2>2 DEF Fits
<1>6. CASE ~ (colon < end)
  BY <1>2, <1>6, NoneIs DEF Fits, None
<1>7. QED
  BY <1>5, <1>6

\* ParseStandardURL cuts a URL, all of it.
LEMMA StandardUrlLaid ==
  ASSUME NEW S, NEW spec \in Seq(S)
  PROVE  \E x : Laid(ParseStandardURL(spec), x) /\ x[9] = TrimURL(spec).len
<1> DEFINE first == TrimURL(spec).begin
           last == TrimURL(spec).len
           scheme == ExtractScheme(spec, last)
           after == IF IsValid(scheme) THEN EndOf(scheme) + 1 ELSE first
           begin == after + CountConsecutiveSlashes(spec, after, last)
           end == FindNextAuthorityTerminator(spec, begin, last)
           w == ParseAuthority(spec, MakeRange(begin, end))
           r == ParsePath(spec, IF end = last THEN None ELSE MakeRange(end, last))
           p == ParseStandardURL(spec)
<1>1. /\ p.scheme = scheme
      /\ p.username = w.username /\ p.password = w.password /\ p.host = w.host /\ p.port = w.port
      /\ p.path = r.path /\ p.query = r.query /\ p.ref = r.ref
  BY DEF ParseStandardURL, ParseAfterScheme, Parsed
<1>2. first \in Nat /\ last \in Nat /\ first <= last /\ last <= Len(spec)
  BY TrimIs
<1>3. after \in Nat /\ first <= after /\ after <= last
  BY SchemeComposes
<1>4. Fits(scheme, first, after, 0, 1) /\ (~IsValid(scheme) => scheme.begin = 0)
  BY SchemeLaid
<1> HIDE DEF first, last, scheme, after
<1>5. begin \in after .. last
  BY <1>2, <1>3, SlashesAre
<1>6. begin \in Nat /\ begin <= last /\ after <= begin
  BY <1>2, <1>3, <1>5
<1> HIDE DEF begin
<1>7. end \in begin .. last
  BY <1>2, <1>6, FirstOfIs DEF FindNextAuthorityTerminator
<1>8. end \in Nat /\ begin <= end /\ end <= last /\ end <= Len(spec)
  BY <1>2, <1>6, <1>7
<1> HIDE DEF end
<1>9. PICK c3, c4, c5 \in begin .. end :
        /\ c3 <= c4 /\ c4 <= c5
        /\ Fits(w.username, begin, c3, 0, 1) /\ Fills(w.password, c3, c4, 0, 1)
        /\ Fills(w.host, c4, c5, 0, 0) /\ Fills(w.port, c5, end, 1, 0)
  BY <1>6, <1>8, AuthorityLaid
<1> HIDE DEF w
<1>10. PICK c7, c8 \in end .. last :
         /\ c7 <= c8
         /\ Fills(r.path, end, c7, 0, 0) /\ Fills(r.query, c7, c8, 1, 0)
         /\ Fills(r.ref, c8, last, 1, 0)
  <2>1. CASE end = last
    <3>1. r = [path |-> None, query |-> None, ref |-> None]
      BY <2>1, NoneIs DEF ParsePath
    <3>2. r.path = None /\ r.query = None /\ r.ref = None
      BY <3>1
    <3> HIDE DEF r
    <3>3. Fills(None, end, last, 0, 0) /\ Fills(None, last, last, 1, 0)
      BY <2>1, NoneIs DEF Fits, Fills
    <3>4. last \in end .. last /\ last <= last
      BY <1>2, <1>8
    <3>5. QED
      BY <3>2, <3>3, <3>4
  <2>2. CASE end # last
    <3>1. end < last
      BY <1>2, <1>8, <2>2
    <3>2. r = ParsePath(spec, MakeRange(end, last))
      BY <2>2
    <3> HIDE DEF r
    <3>3. QED
      BY <1>2, <1>8, <3>1, <3>2, PathLaid
  <2>3. QED
    BY <2>1, <2>2
<1> HIDE DEF r, p
<1> DEFINE x == <<first, after, c3, c4, c5, end, c7, c8, last>>
<1>11. /\ x[1] = first /\ x[2] = after /\ x[3] = c3 /\ x[4] = c4 /\ x[5] = c5
       /\ x[6] = end /\ x[7] = c7 /\ x[8] = c8 /\ x[9] = last
  OBVIOUS
<1> HIDE DEF x
<1>12. /\ c3 \in Nat /\ c4 \in Nat /\ c5 \in Nat /\ c7 \in Nat /\ c8 \in Nat
       /\ begin <= c3 /\ c5 <= end /\ end <= c7 /\ c8 <= last
  BY <1>2, <1>6, <1>8, <1>9, <1>10
<1>13. \A k \in 1 .. 9 : x[k] \in Nat
  <2>1. TAKE k \in 1 .. 9
  <2>2. k = 9 \/ k \in 1 .. 8
    OBVIOUS
  <2>3. QED
    BY <1>2, <1>3, <1>8, <1>11, <1>12, <2>2, EightNumbers
<1>14. \A k \in 1 .. 8 : x[k] <= x[k + 1]
  <2>1. /\ x[1] <= x[2] /\ x[2] <= x[3] /\ x[3] <= x[4] /\ x[4] <= x[5]
        /\ x[5] <= x[6] /\ x[6] <= x[7] /\ x[7] <= x[8] /\ x[8] <= x[9]
    BY <1>2, <1>3, <1>6, <1>8, <1>9, <1>10, <1>11, <1>12
  <2>2. TAKE k \in 1 .. 8
  <2>3. QED
    BY <2>1, EightNumbers
<1>15. /\ Nth(p, 1) = scheme /\ Nth(p, 2) = w.username /\ Nth(p, 3) = w.password
       /\ Nth(p, 4) = w.host /\ Nth(p, 5) = w.port /\ Nth(p, 6) = r.path
       /\ Nth(p, 7) = r.query /\ Nth(p, 8) = r.ref
  BY <1>1, TypesAre DEF Nth
<1>16. Fits(w.username, after, c3, 0, 1)
  BY <1>3, <1>6, <1>9, <1>12 DEF Fits
<1>17. \A k \in 1 .. 8 : Fits(Nth(p, k), x[k], x[k + 1], Mark(k), Behind(k))
  <2>1. /\ Fits(Nth(p, 1), x[1], x[2], Mark(1), Behind(1))
        /\ Fits(Nth(p, 2), x[2], x[3], Mark(2), Behind(2))
    BY <1>4, <1>11, <1>15, <1>16, WidthsAre
  <2>2. /\ Fits(Nth(p, 3), x[3], x[4], Mark(3), Behind(3))
        /\ Fits(Nth(p, 4), x[4], x[5], Mark(4), Behind(4))
        /\ Fits(Nth(p, 5), x[5], x[6], Mark(5), Behind(5))
    BY <1>9, <1>11, <1>15, WidthsAre DEF Fills
  <2>3. /\ Fits(Nth(p, 6), x[6], x[7], Mark(6), Behind(6))
        /\ Fits(Nth(p, 7), x[7], x[8], Mark(7), Behind(7))
        /\ Fits(Nth(p, 8), x[8], x[9], Mark(8), Behind(8))
    BY <1>10, <1>11, <1>15, WidthsAre DEF Fills
  <2>4. TAKE k \in 1 .. 8
  <2>5. k + 1 = 2 \/ k + 1 = 3 \/ k + 1 = 4 \/ k + 1 = 5 \/ k + 1 = 6 \/ k + 1 = 7
          \/ k + 1 = 8 \/ k + 1 = 9
    OBVIOUS
  <2>6. QED
    BY <2>1, <2>2, <2>3, EightNumbers
<1>18. \A k \in 3 .. 8 : ~There(p, k) => x[k] = x[k + 1]
  <2>1. /\ ~There(p, 3) => x[3] = x[4]
        /\ ~There(p, 4) => x[4] = x[5]
        /\ ~There(p, 5) => x[5] = x[6]
    BY <1>9, <1>11, <1>15 DEF Fills, There
  <2>2. /\ ~There(p, 6) => x[6] = x[7]
        /\ ~There(p, 7) => x[7] = x[8]
        /\ ~There(p, 8) => x[8] = x[9]
    BY <1>10, <1>11, <1>15 DEF Fills, There
  <2>3. TAKE k \in 3 .. 8
  <2>4. k = 3 \/ k = 4 \/ k = 5 \/ k = 6 \/ k = 7 \/ k = 8
    OBVIOUS
  <2>5. QED
    BY <2>1, <2>2, <2>4
<1>19. \A k, m \in 1 .. 9 : k <= m => x[k] <= x[m]
  BY <1>13, <1>14, Rising
<1>20. Laid(p, x)
  BY <1>1, <1>4, <1>13, <1>17, <1>18, <1>19 DEF Laid
<1>21. QED
  BY <1>11, <1>20 DEF p, last

-----------------------------------------------------------------------------
\* What is counted in a URL that is cut.

\* A component that is there, between its cuts.
LEMMA BetweenCuts ==
  ASSUME NEW p, NEW x, Laid(p, x), NEW k \in 1 .. 8
  PROVE  /\ x[k] \in Nat /\ x[k + 1] \in Nat /\ x[k] <= x[k + 1]
         /\ Mark(k) \in 0 .. 1
         /\ There(p, k) =>
              /\ Nth(p, k).begin \in Nat /\ EndOf(Nth(p, k)) + Behind(k) = x[k + 1]
              /\ x[k] <= Nth(p, k).begin - Mark(k) /\ Nth(p, k).begin <= x[k + 1]
<1>1. k \in 1 .. 9 /\ k + 1 \in 1 .. 9 /\ k <= k + 1
  OBVIOUS
<1>2. x[k] \in Nat /\ x[k + 1] \in Nat /\ x[k] <= x[k + 1]
  BY <1>1 DEF Laid
<1>3. Fits(Nth(p, k), x[k], x[k + 1], Mark(k), Behind(k))
  BY DEF Laid
<1>4. Mark(k) \in 0 .. 1 /\ Behind(k) \in 0 .. 1
  BY DEF Mark, Behind, Advance
<1>5. CASE There(p, k)
  <2>1. /\ Nth(p, k).begin \in Nat /\ EndOf(Nth(p, k)) \in Nat
        /\ x[k] + Mark(k) <= Nth(p, k).begin /\ Nth(p, k).begin <= EndOf(Nth(p, k))
        /\ EndOf(Nth(p, k)) + Behind(k) = x[k + 1]
    BY <1>3, <1>5 DEF Fits, There
  <2>2. QED
    BY <1>2, <1>4, <2>1
<1>6. QED
  BY <1>2, <1>4, <1>5

\* Every count is an offset; the cuts of a component that is there bound what is
\* counted before it and before those in front of it that are not.
LEMMA CountLies ==
  ASSUME NEW p, NEW x, Laid(p, x), NEW n \in 1 .. 8, NEW flag \in BOOLEAN, NEW k \in 1 .. 8,
         There(p, k),
         NEW count, count = Nth(p, k).begin - (IF k # n \/ flag THEN Mark(k) ELSE 0)
  PROVE  count \in Nat /\ x[k] <= count /\ count <= x[k + 1]
<1>1. CASE k # n \/ flag
  BY <1>1, BetweenCuts
<1>2. CASE ~ (k # n \/ flag)
  BY <1>2, BetweenCuts
<1>3. QED
  BY <1>1, <1>2

\* The counts rise with the components.
LEMMA CountsRise ==
  ASSUME NEW p, NEW x, Laid(p, x), NEW i \in 1 .. 8, NEW j \in 1 .. 8, i < j,
         NEW flag \in BOOLEAN
  PROVE  CountCharactersBefore(p, ComponentTypes[i], flag)
           <= CountCharactersBefore(p, ComponentTypes[j], flag)
<1> DEFINE before == CountCharactersBefore(p, ComponentTypes[i], flag)
           behind == CountCharactersBefore(p, ComponentTypes[j], flag)
<1>1. Counted(p, j, flag, behind)
  <2>1. j # 1
    OBVIOUS
  <2>2. IF j = 1 THEN behind = p.scheme.begin ELSE Counted(p, j, flag, behind)
    BY CountIs
  <2>3. QED
    BY <2>1, <2>2
<1>2. IF i = 1 THEN before = p.scheme.begin ELSE Counted(p, i, flag, before)
  BY CountIs
<1> HIDE DEF before, behind
<1>3. \A k \in 1 .. 8, m \in 1 .. 8 : k < m => x[k + 1] <= x[m]
  BY DEF Laid
\* What is counted before the second.
<1>4. PICK q \in 0 .. 8 :
        \/ q \in j .. 8 /\ There(p, q)
             /\ behind = Nth(p, q).begin - (IF q # j \/ flag THEN Mark(q) ELSE 0)
             /\ \A m \in j .. q - 1 : ~There(p, m)
        \/ q = 0 /\ behind = 0 /\ \A m \in 1 .. 8 : ~There(p, m)
        \/ q \in 1 .. j - 1 /\ There(p, q) /\ behind = x[q + 1]
             /\ \A m \in q + 1 .. 8 : ~There(p, m)
  <2>1. CASE \E k \in j .. 8 :
               /\ There(p, k) /\ \A m \in j .. k - 1 : ~There(p, m)
               /\ behind = Nth(p, k).begin - (IF k # j \/ flag THEN Mark(k) ELSE 0)
    <3>1. PICK k \in j .. 8 :
               /\ There(p, k) /\ \A m \in j .. k - 1 : ~There(p, m)
               /\ behind = Nth(p, k).begin - (IF k # j \/ flag THEN Mark(k) ELSE 0)
      BY <2>1
    <3>2. k \in 0 .. 8
      OBVIOUS
    <3>3. QED
      BY <3>1, <3>2
  <2>2. CASE (\A m \in 1 .. 8 : ~There(p, m)) /\ behind = 0
    BY <2>2
  <2>3. CASE \E k \in 1 .. j - 1 :
               /\ There(p, k) /\ \A m \in k + 1 .. 8 : ~There(p, m)
               /\ behind = EndOf(Nth(p, k)) + Behind(k)
    <3>1. PICK k \in 1 .. j - 1 :
               /\ There(p, k) /\ \A m \in k + 1 .. 8 : ~There(p, m)
               /\ behind = EndOf(Nth(p, k)) + Behind(k)
      BY <2>3
    <3>2. k \in 1 .. 8 /\ k \in 0 .. 8
      OBVIOUS
    <3>3. behind = x[k + 1]
      BY <3>1, <3>2, BetweenCuts
    <3>4. QED
      BY <3>1, <3>2, <3>3
  <2>4. QED
    BY <1>1, <2>1, <2>2, <2>3 DEF Counted
<1>5. behind \in Nat
  <2>1. CASE q \in j .. 8 /\ There(p, q)
               /\ behind = Nth(p, q).begin - (IF q # j \/ flag THEN Mark(q) ELSE 0)
    <3>1. q \in 1 .. 8
      BY <2>1
    <3>2. QED
      BY <2>1, <3>1, CountLies
  <2>2. CASE q \in 1 .. j - 1 /\ behind = x[q + 1]
    <3>1. q \in 1 .. 8
      BY <2>2
    <3>2. QED
      BY <2>2, <3>1, BetweenCuts
  <2>3. QED
    BY <1>4, <2>1, <2>2
\* A component there that the first count reaches no further than.
<1>6. ASSUME NEW k \in 1 .. 8, There(p, k), before <= x[k + 1], before \in Nat,
             \A m \in i .. k - 1 : ~There(p, m),
             k < j \/ before = Nth(p, k).begin - Mark(k)
      PROVE  before <= behind
  <2>1. x[k + 1] \in Nat
    BY BetweenCuts
  <2>2. CASE q \in j .. 8 /\ There(p, q)
               /\ behind = Nth(p, q).begin - (IF q # j \/ flag THEN Mark(q) ELSE 0)
    <3>1. q \in 1 .. 8
      BY <2>2
    <3>2. ~ (q < k)
      BY <1>6, <2>2, <3>1
    <3>3. x[q] <= behind /\ x[q] \in Nat
      BY <2>2, <3>1, CountLies, BetweenCuts
    <3>4. CASE q = k
      <4>1. before = Nth(p, k).begin - Mark(k)
        BY <1>6, <2>2, <3>4
      <4>2. behind = Nth(p, k).begin - (IF k # j \/ flag THEN Mark(k) ELSE 0)
        BY <2>2, <3>4
      <4>3. Mark(k) \in 0 .. 1 /\ Nth(p, k).begin \in Nat
        BY <1>6, BetweenCuts
      <4>4. CASE k # j \/ flag
        BY <1>5, <4>1, <4>2, <4>4
      <4>5. CASE ~ (k # j \/ flag)
        BY <4>1, <4>2, <4>3, <4>5
      <4>6. QED
        BY <4>4, <4>5
    <3>5. CASE k < q
      BY <1>3, <1>5, <1>6, <2>1, <3>1, <3>3, <3>5
    <3>6. QED
      BY <3>1, <3>2, <3>4, <3>5
  <2>3. CASE q = 0 /\ \A m \in 1 .. 8 : ~There(p, m)
    BY <1>6, <2>3
  <2>4. CASE q \in 1 .. j - 1 /\ behind = x[q + 1] /\ \A m \in q + 1 .. 8 : ~There(p, m)
    <3>1. q \in 1 .. 8 /\ k + 1 \in 1 .. 9 /\ q + 1 \in 1 .. 9
      BY <2>4
    <3>2. k <= q
      BY <1>6, <2>4, <3>1
    <3>3. x[k + 1] <= x[q + 1]
      BY <3>1, <3>2 DEF Laid
    <3>4. QED
      BY <1>5, <1>6, <2>1, <2>4, <3>3
  <2>5. QED
    BY <1>4, <2>2, <2>3, <2>4
<1>7. ASSUME i = 1
      PROVE  before <= behind
  <2>1. before = p.scheme.begin /\ Nth(p, 1) = p.scheme
    BY <1>2, <1>7, TypesAre DEF Nth
  <2>2. CASE There(p, 1)
    <3>1. 1 \in 1 .. 8 /\ 1 < j
      BY <1>7
    <3>2. before \in Nat /\ before <= x[1 + 1]
      BY <2>1, <2>2, <3>1, BetweenCuts
    <3>3. \A m \in i .. 1 - 1 : ~There(p, m)
      BY <1>7
    <3>4. QED
      BY <1>6, <2>2, <3>1, <3>2, <3>3
  <2>3. CASE ~There(p, 1)
    <3>1. before = 0
      BY <2>1, <2>3 DEF Laid, There
    <3>2. QED
      BY <1>5, <3>1
  <2>4. QED
    BY <2>2, <2>3
<1>8. ASSUME i # 1
      PROVE  before <= behind
  <2>1. Counted(p, i, flag, before)
    BY <1>2, <1>8
  <2>2. ASSUME NEW k \in i .. 8, There(p, k), \A m \in i .. k - 1 : ~There(p, m),
               before = Nth(p, k).begin - (IF k # i \/ flag THEN Mark(k) ELSE 0)
        PROVE  before <= behind
    <3>1. k \in 1 .. 8
      OBVIOUS
    <3>2. before \in Nat /\ before <= x[k + 1]
      BY <2>2, <3>1, CountLies
    <3>3. k < j \/ before = Nth(p, k).begin - Mark(k)
      BY <2>2
    <3>4. QED
      BY <1>6, <2>2, <3>1, <3>2, <3>3
  <2>3. CASE (\A m \in 1 .. 8 : ~There(p, m)) /\ before = 0
    BY <1>5, <2>3
  <2>4. ASSUME NEW k \in 1 .. i - 1, There(p, k), \A m \in k + 1 .. 8 : ~There(p, m),
               before = EndOf(Nth(p, k)) + Behind(k)
        PROVE  before <= behind
    <3>1. k \in 1 .. 8 /\ k < j
      OBVIOUS
    <3>2. before = x[k + 1] /\ before \in Nat
      BY <2>4, <3>1, BetweenCuts
    <3>3. \A m \in i .. k - 1 : ~There(p, m)
      OBVIOUS
    <3>4. before <= x[k + 1]
      BY <3>2
    <3>5. QED
      BY <1>6, <2>4, <3>1, <3>2, <3>3, <3>4
  <2>5. QED
    BY <2>1, <2>2, <2>3, <2>4 DEF Counted
<1>9. QED
  BY <1>7, <1>8 DEF before, behind

\* A component that is there is found where it begins.
LEMMA FoundWhereItBegins ==
  ASSUME NEW p, NEW n \in 1 .. 8, There(p, n), Nth(p, n).begin \in Nat, NEW flag \in BOOLEAN
  PROVE  CountCharactersBefore(p, ComponentTypes[n], flag)
           = Nth(p, n).begin - (IF flag THEN Mark(n) ELSE 0)
<1> DEFINE count == CountCharactersBefore(p, ComponentTypes[n], flag)
<1>1. IF n = 1 THEN count = p.scheme.begin ELSE Counted(p, n, flag, count)
  BY CountIs
<1> HIDE DEF count
<1>2. ASSUME n = 1
      PROVE  count = Nth(p, n).begin - (IF flag THEN Mark(n) ELSE 0)
  <2>1. count = Nth(p, 1).begin
    BY <1>1, <1>2, TypesAre DEF Nth
  <2>2. Mark(1) = 0
    BY WidthsAre
  <2>3. QED
    BY <1>2, <2>1, <2>2
<1>3. ASSUME n # 1
      PROVE  count = Nth(p, n).begin - (IF flag THEN Mark(n) ELSE 0)
  <2>1. Counted(p, n, flag, count)
    BY <1>1, <1>3
  <2>2. ASSUME NEW k \in n .. 8, \A m \in n .. k - 1 : ~There(p, m)
        PROVE  k = n
    BY <2>2
  <2>3. ASSUME NEW k \in 1 .. n - 1
        PROVE  ~ \A m \in k + 1 .. 8 : ~There(p, m)
    OBVIOUS
  <2>4. \E k \in n .. 8 :
       /\ There(p, k) /\ \A m \in n .. k - 1 : ~There(p, m)
       /\ count = Nth(p, k).begin - (IF k # n \/ flag THEN Mark(k) ELSE 0)
    BY <2>1, <2>3 DEF Counted
  <2>5. count = Nth(p, n).begin - (IF flag THEN Mark(n) ELSE 0)
    BY <2>2, <2>4
  <2>6. QED
    BY <2>5
<1>4. QED
  BY <1>2, <1>3 DEF count

\* A URL is as long as its last cut says, unless it ends in slashes.
LEMMA LengthIs ==
  ASSUME NEW p, NEW x, Laid(p, x)
  PROVE  EndsInSlashes(p) \/ LengthOf(p) = x[9]
<1>1. 8 \in 1 .. 8 /\ FALSE \in BOOLEAN /\ 8 + 1 = 9
  OBVIOUS
<1> DEFINE count == CountCharactersBefore(p, ComponentTypes[8], FALSE)
<1>2. LengthOf(p) = IF There(p, 8) THEN EndOf(Nth(p, 8)) ELSE count
  BY TypesAre DEF LengthOf, There, Nth
<1>3. Counted(p, 8, FALSE, count)
  <2>1. IF 8 = 1 THEN count = p.scheme.begin ELSE Counted(p, 8, FALSE, count)
    BY <1>1, CountIs
  <2>2. 8 # 1
    OBVIOUS
  <2> HIDE DEF count
  <2>3. QED
    BY <2>1, <2>2, Zenon
<1> HIDE DEF count
<1>4. CASE There(p, 8)
  <2>1. EndOf(Nth(p, 8)) + Behind(8) = x[8 + 1]
    BY <1>1, <1>4, BetweenCuts
  <2>2. EndOf(Nth(p, 8)) \in Nat
    BY <1>1, <1>4 DEF Laid, Fits, There
  <2>3. QED
    BY <1>1, <1>2, <1>4, <2>1, <2>2, WidthsAre
<1>5. ASSUME \A m \in 2 .. 8 : ~There(p, m)
      PROVE  EndsInSlashes(p)
  <2>1. /\ ~There(p, 2) /\ ~There(p, 3) /\ ~There(p, 4) /\ ~There(p, 5)
        /\ ~There(p, 6) /\ ~There(p, 7) /\ ~There(p, 8)
    BY <1>5
  <2>2. QED
    BY <2>1, TypesAre DEF There, Nth, EndsInSlashes
<1>6. ASSUME NEW k \in 2 .. 7, There(p, k), \A m \in k + 1 .. 8 : ~There(p, m)
      PROVE  x[k + 1] = x[9]
  <2>1. \A m \in 3 .. 8 : ~There(p, m) => x[m] = x[m + 1]
    BY DEF Laid
  <2>2. /\ ~There(p, 3) => x[3] = x[4]
        /\ ~There(p, 4) => x[4] = x[5]
        /\ ~There(p, 5) => x[5] = x[6]
        /\ ~There(p, 6) => x[6] = x[7]
        /\ ~There(p, 7) => x[7] = x[8]
        /\ ~There(p, 8) => x[8] = x[9]
    BY <2>1
  <2>3. k = 2 \/ k = 3 \/ k = 4 \/ k = 5 \/ k = 6 \/ k = 7
    OBVIOUS
  <2>4. /\ k < 3 => ~There(p, 3)
        /\ k < 4 => ~There(p, 4)
        /\ k < 5 => ~There(p, 5)
        /\ k < 6 => ~There(p, 6)
        /\ k < 7 => ~There(p, 7)
        /\ k < 8 => ~There(p, 8)
    BY <1>6
  <2>5. QED
    BY <2>2, <2>3, <2>4
<1>7. CASE ~There(p, 8)
  <2>1. ASSUME NEW k \in 1 .. 8 - 1, There(p, k), \A m \in k + 1 .. 8 : ~There(p, m),
               count = EndOf(Nth(p, k)) + Behind(k)
        PROVE  EndsInSlashes(p) \/ LengthOf(p) = x[9]
    <3>1. CASE k = 1
      BY <1>5, <2>1, <3>1
    <3>2. CASE k # 1
      <4>1. k \in 2 .. 7 /\ k \in 1 .. 8
        BY <3>2
      <4>2. x[k + 1] = x[9]
        BY <1>6, <2>1, <4>1
      <4>3. count = x[k + 1]
        BY <2>1, <4>1, BetweenCuts
      <4>4. QED
        BY <1>2, <1>7, <4>2, <4>3
    <3>3. QED
      BY <3>1, <3>2
  <2>2. ~ \E k \in 8 .. 8 : There(p, k)
    BY <1>7
  <2>3. (\A m \in 1 .. 8 : ~There(p, m)) => EndsInSlashes(p)
    BY <1>5
  <2>4. QED
    BY <1>3, <2>1, <2>2, <2>3 DEF Counted
<1>8. QED
  BY <1>4, <1>7

\* Whatever URL the user types, Parsed::CountCharactersBefore finds every part
\* of it where it begins, and in order, and Length counts all of it but the
\* slashes it may end in.
THEOREM UrlsLaidOut == TextSpec => []UrlLaidOut
<1>1. (subject = "url" => text \in Seq(UrlSymbols)) => UrlLaidOut
  <2>1. SUFFICES ASSUME subject = "url", text \in Seq(UrlSymbols)
                 PROVE  UrlLaidOut
    BY DEF UrlLaidOut
  <2> DEFINE p == ParseStandardURL(text)
  <2>2. PICK x : Laid(p, x) /\ x[9] = TrimURL(text).len
    BY <2>1, StandardUrlLaid
  <2> HIDE DEF p
  <2>3. DOMAIN ComponentTypes = 1 .. 8
    BY TypesAre
  <2>4. ASSUME NEW c \in {ComponentTypes[i] : i \in DOMAIN ComponentTypes}, IsValid(p[c])
        PROVE  /\ CountCharactersBefore(p, c, FALSE) = p[c].begin
               /\ CountCharactersBefore(p, c, TRUE)
                    = p[c].begin - (IF c \in Delimited THEN 1 ELSE 0)
    <3>1. PICK n \in 1 .. 8 : c = ComponentTypes[n]
      BY <2>3
    <3>2. There(p, n) /\ Nth(p, n) = p[c] /\ Mark(n) = IF c \in Delimited THEN 1 ELSE 0
      BY <2>4, <3>1 DEF There, Nth, Mark
    <3>3. Nth(p, n).begin \in Nat
      BY <2>2, <3>2, BetweenCuts
    <3>4. \A flag \in BOOLEAN :
            CountCharactersBefore(p, c, flag) = Nth(p, n).begin - (IF flag THEN Mark(n) ELSE 0)
      BY <3>1, <3>2, <3>3, FoundWhereItBegins
    <3> DEFINE plain == CountCharactersBefore(p, c, FALSE)
    <3>5. plain = Nth(p, n).begin - 0
      BY <3>4, Zenon
    <3>6. CountCharactersBefore(p, c, TRUE) = Nth(p, n).begin - Mark(n)
      BY <3>4, Zenon
    <3>7. plain = Nth(p, n).begin
      <4> HIDE DEF plain
      <4>1. QED
        BY <3>3, <3>5
    <3>8. QED
      BY <3>2, <3>6, <3>7, Zenon
  <2>5. ASSUME NEW i \in DOMAIN ComponentTypes, NEW j \in DOMAIN ComponentTypes,
               NEW flag \in BOOLEAN, i < j
        PROVE  CountCharactersBefore(p, ComponentTypes[i], flag)
                 <= CountCharactersBefore(p, ComponentTypes[j], flag)
    BY <2>2, <2>3, <2>5, CountsRise
  <2>6. EndsInSlashes(p) \/ LengthOf(p) = TrimURL(text).len
    BY <2>2, LengthIs
  <2>7. QED
    BY <2>4, <2>5, <2>6 DEF UrlLaidOut, p
<1>2. QED
  BY <1>1, TextIsSymbols, PTL
=============================================================================
