-------------------------- MODULE HistogramProofs --------------------------
(***************************************************************************)
(* For histograms of any shape, any samples and any number of threads: the *)
(* binary search finds the bucket of each sample, a thread that is alone   *)
(* loses no sample, and a snapshot that is overtaken is off by no more     *)
(* than FindCorruption allows for.  What is assumed of the shapes is then  *)
(* proved of every shape that the factories make.  At the end, the rows of *)
(* a printed histogram.                                                    *)
(***************************************************************************)
EXTENDS Histogram, FiniteSetTheorems, WellFoundedInduction, TLAPS

\* A histogram whose ranges rise from 0 to the end: what ValidateBucketRanges
\* and the factories are for.
Rising(s) ==
  /\ s.bucket_count \in Nat \ {0}
  /\ s.ranges \in [0 .. s.bucket_count -> Nat]
  /\ s.ranges[0] = 0 /\ s.ranges[s.bucket_count] = kSampleType_MAX
  /\ \A i \in 1 .. s.bucket_count : s.ranges[i - 1] < s.ranges[i]

\* Every shape is one of these, samples are integers, threads finitely many.
\* LinearRangesRise, BooleanRangesRise, CustomRangesRise and ExponentialRangesRise
\* show that what the factories make is such a shape.
HistogramAssumptions ==
  /\ kSampleType_MAX \in Nat \ {0}
  /\ \A s \in Shapes : Rising(s) /\ ValidateBucketRanges(s)
  /\ Samples \subseteq Int
  /\ IsFiniteSet(Threads)

-----------------------------------------------------------------------------
\* The binary search.

\* A set that has 0, and with n also n + 1, has all natural numbers.
LEMMA AllNumbers ==
  ASSUME NEW P, 0 \in P, \A n \in Nat : n \in P => n + 1 \in P
  PROVE  Nat \subseteq P
<1> DEFINE H == Nat \ P
           Before == OpToRel(<, Nat)
<1> SUFFICES ASSUME H # {} PROVE FALSE
  OBVIOUS
<1>1. PICK x \in H : \A y \in H : <<y, x>> \notin Before
  <2>1. IsWellFoundedOn(Before, Nat)
    BY NatLessThanWellFounded
  <2>2. H \subseteq Nat
    OBVIOUS
  <2> HIDE DEF Before, H
  <2>3. QED
    BY <2>1, <2>2, WFMin
<1>2. x \in Nat /\ x \notin P /\ x # 0
  BY <1>1
<1>3. x - 1 \in Nat /\ x - 1 < x /\ (x - 1) + 1 = x
  BY <1>2
<1>4. x - 1 \notin P
  BY <1>2, <1>3
<1>5. <<x - 1, x>> \in Before
  BY <1>2, <1>3 DEF OpToRel
<1>6. QED
  BY <1>1, <1>3, <1>4, <1>5

\* The intervals of ranges a search may be left with, those up to a width, and
\* one step from one of them.
Intervals(s) == {x \in (0 .. s.bucket_count) \X (0 .. s.bucket_count) : x[1] <= x[2]}
UpTo(s, d) == {x \in Intervals(s) : x[2] - x[1] <= d}
Middle(r) == r[1] + (r[2] - r[1]) \div 2
Searched(s, value, f, r) ==
  IF Middle(r) = r[1] THEN Middle(r)
  ELSE IF s.ranges[Middle(r)] <= value THEN f[<<Middle(r), r[2]>>] ELSE f[<<r[1], Middle(r)>>]

\* f is the search in the intervals of S.
Searches(s, value, S, f) == f = [r \in S |-> Searched(s, value, f, r)]

\* A step makes an interval narrower, unless it is the last.
LEMMA Narrower ==
  ASSUME NEW s, s.bucket_count \in Nat, NEW r \in Intervals(s)
  PROVE  /\ Middle(r) = r[1] <=> r[2] - r[1] <= 1
         /\ Middle(r) \in Nat /\ r[1] <= Middle(r) /\ Middle(r) <= r[2]
         /\ Middle(r) # r[1] =>
              /\ r[1] < Middle(r) /\ Middle(r) < r[2]
              /\ <<Middle(r), r[2]>> \in UpTo(s, (r[2] - r[1]) - 1)
              /\ <<r[1], Middle(r)>> \in UpTo(s, (r[2] - r[1]) - 1)
<1> DEFINE u == r[1]
           o == r[2]
           m == u + (o - u) \div 2
<1>1. u \in 0 .. s.bucket_count /\ o \in 0 .. s.bucket_count /\ u <= o
  BY DEF Intervals
<1> HIDE DEF u, o
<1>2. (o - u) \div 2 \in Nat /\ 2 * ((o - u) \div 2) <= o - u /\ o - u <= 2 * ((o - u) \div 2) + 1
  BY <1>1
<1>3. /\ m = u <=> o - u <= 1
      /\ m \in Nat /\ u <= m /\ m <= o
      /\ m # u => u < m /\ m < o
  BY <1>1, <1>2
<1> HIDE DEF m
<1>4. m # u => <<m, o>> \in UpTo(s, (o - u) - 1) /\ <<u, m>> \in UpTo(s, (o - u) - 1)
  BY <1>1, <1>3 DEF UpTo, Intervals
<1>5. Middle(r) = m
  BY DEF Middle, m, u, o
<1>6. QED
  BY <1>3, <1>4, <1>5 DEF u, o

\* There is a search up to any width.
LEMMA SearchExists ==
  ASSUME NEW s, s.bucket_count \in Nat, NEW value, NEW d \in Nat
  PROVE  \E f : Searches(s, value, UpTo(s, d), f)
<1> DEFINE P == {n \in Nat : \E f : Searches(s, value, UpTo(s, n), f)}
<1>1. 0 \in P
  <2> DEFINE f == [r \in UpTo(s, 0) |-> Middle(r)]
  <2>1. ASSUME NEW r \in UpTo(s, 0) PROVE Middle(r) = r[1]
    <3>1. r \in Intervals(s) /\ r[2] - r[1] <= 1
      BY <2>1 DEF UpTo, Intervals
    <3>2. QED
      BY <3>1, Narrower
  <2>2. \A r \in UpTo(s, 0) : f[r] = Searched(s, value, f, r)
    BY <2>1 DEF Searched
  <2>3. f = [r \in UpTo(s, 0) |-> f[r]]
    OBVIOUS
  <2> HIDE DEF f
  <2>4. QED
    BY <2>2, <2>3 DEF Searches
<1>2. ASSUME NEW n \in Nat, n \in P PROVE n + 1 \in P
  <2>1. PICK f : Searches(s, value, UpTo(s, n), f)
    BY <1>2
  <2> DEFINE S == UpTo(s, n + 1)
             g == [r \in S |-> Searched(s, value, f, r)]
  <2>2. UpTo(s, n) \subseteq S
    BY DEF UpTo, Intervals
  <2>3. ASSUME NEW r \in UpTo(s, n) PROVE g[r] = f[r]
    BY <2>1, <2>2 DEF Searches
  <2>4. ASSUME NEW r \in S PROVE g[r] = Searched(s, value, g, r)
    <3>1. g[r] = Searched(s, value, f, r)
      OBVIOUS
    <3>2. ASSUME Middle(r) # r[1]
          PROVE  <<Middle(r), r[2]>> \in UpTo(s, n) /\ <<r[1], Middle(r)>> \in UpTo(s, n)
      <4>1. r \in Intervals(s) /\ (r[2] - r[1]) - 1 <= n /\ r[1] \in Int /\ r[2] \in Int
        BY DEF UpTo, Intervals
      <4>2. /\ <<Middle(r), r[2]>> \in UpTo(s, (r[2] - r[1]) - 1)
            /\ <<r[1], Middle(r)>> \in UpTo(s, (r[2] - r[1]) - 1)
        BY <3>2, <4>1, Narrower
      <4>3. \A x \in UpTo(s, (r[2] - r[1]) - 1) : x \in UpTo(s, n)
        BY <4>1 DEF UpTo, Intervals
      <4>4. QED
        BY <4>2, <4>3
    <3> HIDE DEF g
    <3>3. QED
      BY <2>3, <3>1, <3>2 DEF Searched
  <2>5. g = [r \in S |-> g[r]]
    OBVIOUS
  <2> HIDE DEF g, S
  <2>6. g = [r \in S |-> Searched(s, value, g, r)]
    BY <2>4, <2>5
  <2>7. QED
    BY <2>6 DEF S, Searches
<1> HIDE DEF P
<1>3. d \in P
  BY <1>1, <1>2, AllNumbers
<1>4. QED
  BY <1>3 DEF P

\* BucketIndex is what it gives for all ranges.
LEMMA SearchIndex ==
  ASSUME NEW s, s.bucket_count \in Nat, NEW value
  PROVE  \E f : /\ Searches(s, value, Intervals(s), f)
                /\ BucketIndex(s, value) = f[<<0, s.bucket_count>>]
<1> DEFINE g == CHOOSE f : f = [r \in Intervals(s) |->
                 IF r[1] + (r[2] - r[1]) \div 2 = r[1] THEN r[1] + (r[2] - r[1]) \div 2
                 ELSE IF s.ranges[r[1] + (r[2] - r[1]) \div 2] <= value
                      THEN f[<<r[1] + (r[2] - r[1]) \div 2, r[2]>>]
                 ELSE f[<<r[1], r[1] + (r[2] - r[1]) \div 2>>]]
<1>1. UpTo(s, s.bucket_count) = Intervals(s)
  BY DEF UpTo, Intervals
<1>2. \E f : Searches(s, value, Intervals(s), f)
  BY <1>1, SearchExists
<1>3. Searches(s, value, Intervals(s), g)
  BY <1>2 DEF Searches, Searched, Middle
<1>4. BucketIndex(s, value) = g[<<0, s.bucket_count>>]
  BY DEF BucketIndex, Intervals
<1> HIDE DEF g
<1>5. QED
  BY <1>3, <1>4

\* Around a sample between the ends, the search ends at the bucket it is in.
LEMMA BucketFound ==
  ASSUME kSampleType_MAX \in Nat, NEW s, Rising(s), NEW value \in 0 .. kSampleType_MAX - 1
  PROVE  /\ BucketIndex(s, value) \in 0 .. s.bucket_count - 1
         /\ s.ranges[BucketIndex(s, value)] <= value
         /\ value < s.ranges[BucketIndex(s, value) + 1]
<1> DEFINE n == s.bucket_count
           Around(r) == s.ranges[r[1]] <= value /\ value < s.ranges[r[2]]
           In(i) == i \in 0 .. n - 1 /\ s.ranges[i] <= value /\ value < s.ranges[i + 1]
<1>1. n \in Nat \ {0} /\ s.ranges \in [0 .. n -> Nat]
  BY DEF Rising
<1>2. PICK f : Searches(s, value, Intervals(s), f) /\ BucketIndex(s, value) = f[<<0, n>>]
  BY <1>1, SearchIndex
<1> DEFINE P == {d \in Nat : \A r \in UpTo(s, d) : Around(r) => In(f[r])}
<1>3. ASSUME NEW r \in Intervals(s), Around(r), r[2] - r[1] <= 1 PROVE In(f[r])
  <2>1. f[r] = r[1]
    BY <1>1, <1>2, <1>3, Narrower DEF Searches, Searched
  <2>2. r[1] \in 0 .. n /\ r[2] \in 0 .. n /\ r[1] <= r[2]
    BY DEF Intervals
  <2>3. r[1] # r[2]
    <3>1. s.ranges[r[1]] \in Nat /\ s.ranges[r[2]] \in Nat
      BY <1>1, <2>2
    <3>2. s.ranges[r[1]] # s.ranges[r[2]]
      BY <1>3, <3>1
    <3>3. QED
      BY <3>2
  <2>4. r[2] = r[1] + 1 /\ r[1] \in 0 .. n - 1
    BY <1>1, <1>3, <2>2, <2>3
  <2>5. QED
    BY <1>3, <2>1, <2>4
<1>4. 0 \in P
  BY <1>3 DEF UpTo, Intervals
<1>5. ASSUME NEW d \in Nat, d \in P PROVE d + 1 \in P
  <2> SUFFICES ASSUME NEW r \in UpTo(s, d + 1), Around(r) PROVE In(f[r])
    OBVIOUS
  <2>1. r \in Intervals(s) /\ r[1] \in 0 .. n /\ r[2] \in 0 .. n /\ r[2] - r[1] <= d + 1
    BY DEF UpTo, Intervals
  <2>2. CASE Middle(r) = r[1]
    BY <1>1, <1>3, <2>1, <2>2, Narrower
  <2>3. CASE Middle(r) # r[1]
    <3> DEFINE m == Middle(r)
    <3>1. /\ <<m, r[2]>> \in UpTo(s, (r[2] - r[1]) - 1) /\ <<r[1], m>> \in UpTo(s, (r[2] - r[1]) - 1)
          /\ m \in 0 .. n
      BY <1>1, <2>1, <2>3, Narrower
    <3>2. \A x \in UpTo(s, (r[2] - r[1]) - 1) : x \in UpTo(s, d)
      BY <2>1 DEF UpTo, Intervals
    <3>3. f[r] = IF s.ranges[m] <= value THEN f[<<m, r[2]>>] ELSE f[<<r[1], m>>]
      BY <1>2, <2>1, <2>3 DEF Searches, Searched
    <3>4. s.ranges[m] \in Nat
      BY <1>1, <3>1
    <3> HIDE DEF m
    <3>5. CASE s.ranges[m] <= value
      <4>1. Around(<<m, r[2]>>)
        BY <3>5
      <4>2. In(f[<<m, r[2]>>])
        BY <1>5, <3>1, <3>2, <4>1
      <4>3. QED
        BY <3>3, <3>5, <4>2
    <3>6. CASE ~(s.ranges[m] <= value)
      <4>1. Around(<<r[1], m>>)
        BY <3>4, <3>6
      <4>2. In(f[<<r[1], m>>])
        BY <1>5, <3>1, <3>2, <4>1
      <4>3. QED
        BY <3>3, <3>6, <4>2
    <3>7. QED
      BY <3>5, <3>6
  <2>4. QED
    BY <2>2, <2>3
<1>6. <<0, n>> \in UpTo(s, n) /\ Around(<<0, n>>)
  BY <1>1 DEF UpTo, Intervals, Rising
<1> HIDE DEF P
<1>7. n \in P
  BY <1>1, <1>4, <1>5, AllNumbers
<1>8. In(f[<<0, n>>])
  BY <1>6, <1>7 DEF P
<1>9. QED
  BY <1>2, <1>8

-----------------------------------------------------------------------------
\* Sums.

\* f is a histogram's counts, n of them.
Numbers(f, n) == n \in Nat /\ f \in [0 .. n - 1 -> Int]

\* sums has the sums of the first numbers.
PartialSums(f, m, sums) ==
  sums = [k \in 0 .. m |-> IF k = 0 THEN 0 ELSE sums[k - 1] + f[k - 1]]

\* There are such sums.
LEMMA SumsExist ==
  ASSUME NEW f, NEW m \in Nat
  PROVE  \E sums : PartialSums(f, m, sums)
<1> DEFINE P == {j \in Nat : \E sums : PartialSums(f, j, sums)}
           NextSum(g, k) == IF k = 0 THEN 0 ELSE g[k - 1] + f[k - 1]
<1>1. 0 \in P
  <2> DEFINE g == [k \in 0 .. 0 |-> 0]
  <2>1. g = [k \in 0 .. 0 |-> NextSum(g, k)]
    OBVIOUS
  <2> HIDE DEF g
  <2>2. QED
    BY <2>1 DEF PartialSums
<1>2. ASSUME NEW j \in Nat, j \in P PROVE j + 1 \in P
  <2>1. PICK g : PartialSums(f, j, g)
    BY <1>2
  <2> DEFINE last == NextSum(g, j + 1)
             h == [k \in 0 .. j + 1 |-> IF k = j + 1 THEN last ELSE g[k]]
  <2>2. ASSUME NEW k \in 0 .. j + 1 PROVE h[k] = NextSum(h, k)
    <3>1. CASE k = j + 1
      <4>1. (j + 1) - 1 = j /\ j \in 0 .. j + 1 /\ j # j + 1
        OBVIOUS
      <4>2. h[j] = g[j]
        BY <4>1
      <4>3. last = NextSum(h, j + 1)
        BY <4>1, <4>2
      <4>4. h[k] = last
        BY <3>1
      <4>5. QED
        BY <3>1, <4>3, <4>4
    <3>2. CASE k # j + 1
      <4>1. k \in 0 .. j /\ (k # 0 => k - 1 \in 0 .. j + 1 /\ k - 1 # j + 1)
        BY <3>2
      <4>2. g[k] = NextSum(g, k)
        BY <2>1, <4>1 DEF PartialSums
      <4>3. k # 0 => h[k - 1] = g[k - 1]
        BY <4>1
      <4>4. h[k] = g[k]
        BY <3>2
      <4>5. QED
        BY <4>2, <4>3, <4>4
    <3>3. QED
      BY <3>1, <3>2
  <2>3. h = [k \in 0 .. j + 1 |-> h[k]]
    OBVIOUS
  <2> HIDE DEF h, NextSum
  <2>4. h = [k \in 0 .. j + 1 |-> NextSum(h, k)]
    BY <2>2, <2>3
  <2>5. QED
    BY <2>4 DEF PartialSums, NextSum
<1> HIDE DEF P
<1>3. m \in P
  BY <1>1, <1>2, AllNumbers
<1>4. QED
  BY <1>3 DEF P

\* sums rises to total by the numbers of f.
Adds(f, n, sums, total) ==
  /\ sums \in [0 .. n -> Int] /\ sums[0] = 0 /\ sums[n] = total
  /\ \A k \in 0 .. n - 1 : sums[k + 1] = sums[k] + f[k]

\* Total adds all of them.
LEMMA TotalAdds ==
  ASSUME NEW f, NEW n, Numbers(f, n)
  PROVE  \E sums : Adds(f, n, sums, Total(f))
<1> DEFINE g == CHOOSE sums : PartialSums(f, n, sums)
<1>1. n \in Nat /\ f \in [0 .. n - 1 -> Int] /\ DOMAIN f = 0 .. n - 1
  BY DEF Numbers
<1>2. Cardinality(DOMAIN f) = n
  <2>1. Cardinality(0 .. n - 1) = IF 0 > n - 1 THEN 0 ELSE (n - 1) - 0 + 1
    BY <1>1, FS_Interval
  <2>2. QED
    BY <1>1, <2>1
<1>3. PartialSums(f, n, g)
  BY <1>1, SumsExist
<1>4. Total(f) = g[n]
  BY <1>2 DEF Total, PartialSums
<1> HIDE DEF g
<1>5. /\ g[0] = 0
      /\ \A k \in 0 .. n - 1 : g[k + 1] = g[k] + f[k]
  <2>1. \A k \in 0 .. n - 1 : k + 1 \in 0 .. n /\ k + 1 # 0 /\ (k + 1) - 1 = k
    BY <1>1
  <2>2. 0 \in 0 .. n
    BY <1>1
  <2>3. \A k \in 0 .. n : g[k] = IF k = 0 THEN 0 ELSE g[k - 1] + f[k - 1]
    BY <1>3 DEF PartialSums
  <2>4. QED
    BY <2>1, <2>2, <2>3
<1>6. g \in [0 .. n -> Int]
  <2>1. \A k \in 0 .. n : g[k] \in Int
    <3> DEFINE Q == {k \in Nat : k <= n => g[k] \in Int}
    <3>1. 0 \in Q
      BY <1>5
    <3>2. ASSUME NEW k \in Nat, k \in Q PROVE k + 1 \in Q
      <4> SUFFICES ASSUME k + 1 <= n PROVE g[k + 1] \in Int
        OBVIOUS
      <4>1. k \in 0 .. n - 1 /\ g[k] \in Int /\ f[k] \in Int
        BY <1>1, <3>2
      <4>2. QED
        BY <1>5, <4>1
    <3> HIDE DEF Q
    <3>3. Nat \subseteq Q
      BY <3>1, <3>2, AllNumbers
    <3>4. QED
      BY <1>1, <3>3 DEF Q
  <2>2. g = [k \in 0 .. n |-> g[k]]
    BY <1>3 DEF PartialSums
  <2>3. QED
    BY <2>1, <2>2
<1>7. Adds(f, n, g, Total(f))
  BY <1>4, <1>5, <1>6 DEF Adds
<1>8. QED
  BY <1>7

\* Zeros add up to nothing.
LEMMA TotalOfNone ==
  ASSUME NEW f, NEW n, Numbers(f, n), \A k \in 0 .. n - 1 : f[k] = 0
  PROVE  Total(f) = 0
<1>1. PICK sums : Adds(f, n, sums, Total(f))
  BY TotalAdds
<1> DEFINE P == {k \in Nat : k <= n => sums[k] = 0}
<1>2. n \in Nat
  BY DEF Numbers
<1>3. 0 \in P
  BY <1>1 DEF Adds
<1>4. ASSUME NEW k \in Nat, k \in P PROVE k + 1 \in P
  BY <1>1, <1>2, <1>4 DEF Adds
<1> HIDE DEF P
<1>5. n \in P
  BY <1>2, <1>3, <1>4, AllNumbers
<1>6. QED
  BY <1>1, <1>2, <1>5 DEF P, Adds

\* Larger numbers have a larger total.
LEMMA TotalGrows ==
  ASSUME NEW f, NEW g, NEW n, Numbers(f, n), Numbers(g, n), \A k \in 0 .. n - 1 : f[k] <= g[k]
  PROVE  Total(f) \in Int /\ Total(g) \in Int /\ Total(f) <= Total(g)
<1>1. PICK a : Adds(f, n, a, Total(f))
  BY TotalAdds
<1>2. PICK b : Adds(g, n, b, Total(g))
  BY TotalAdds
<1> DEFINE P == {k \in Nat : k <= n => a[k] <= b[k]}
<1>3. n \in Nat
  BY DEF Numbers
<1>4. 0 \in P
  BY <1>1, <1>2 DEF Adds
<1>5. ASSUME NEW k \in Nat, k \in P PROVE k + 1 \in P
  <2> SUFFICES ASSUME k + 1 <= n PROVE a[k + 1] <= b[k + 1]
    OBVIOUS
  <2>1. k \in 0 .. n - 1 /\ k \in 0 .. n /\ a[k] <= b[k]
    BY <1>3, <1>5
  <2>2. f[k] \in Int /\ g[k] \in Int /\ a[k] \in Int /\ b[k] \in Int
    BY <1>1, <1>2, <2>1 DEF Adds, Numbers
  <2>3. a[k + 1] = a[k] + f[k] /\ b[k + 1] = b[k] + g[k] /\ f[k] <= g[k]
    BY <1>1, <1>2, <2>1 DEF Adds
  <2>4. QED
    BY <2>1, <2>2, <2>3
<1> HIDE DEF P
<1>6. n \in P
  BY <1>3, <1>4, <1>5, AllNumbers
<1>7. a[n] = Total(f) /\ b[n] = Total(g) /\ a[n] \in Int /\ b[n] \in Int
  BY <1>1, <1>2, <1>3 DEF Adds
<1>8. QED
  BY <1>3, <1>6, <1>7 DEF P

\* A total is an integer.
LEMMA TotalIsInt ==
  ASSUME NEW f, NEW n, Numbers(f, n)
  PROVE  Total(f) \in Int
<1>1. PICK sums : Adds(f, n, sums, Total(f))
  BY TotalAdds
<1>2. QED
  BY <1>1 DEF Adds, Numbers

\* A total grows by what one of the numbers does.
LEMMA TotalOfOneMore ==
  ASSUME NEW f, NEW g, NEW n, Numbers(f, n), Numbers(g, n), NEW w \in 0 .. n - 1, NEW d \in Int,
         g[w] = f[w] + d, \A k \in 0 .. n - 1 : k # w => g[k] = f[k]
  PROVE  Total(g) = Total(f) + d
<1>1. PICK a : Adds(f, n, a, Total(f))
  BY TotalAdds
<1>2. PICK b : Adds(g, n, b, Total(g))
  BY TotalAdds
<1> DEFINE P == {k \in Nat : k <= n => b[k] = IF k <= w THEN a[k] ELSE a[k] + d}
<1>3. n \in Nat
  BY DEF Numbers
<1>4. 0 \in P
  BY <1>1, <1>2 DEF Adds
<1>5. ASSUME NEW k \in Nat, k \in P PROVE k + 1 \in P
  <2> SUFFICES ASSUME k + 1 <= n PROVE b[k + 1] = IF k + 1 <= w THEN a[k + 1] ELSE a[k + 1] + d
    OBVIOUS
  <2>1. k \in 0 .. n - 1 /\ k \in 0 .. n /\ b[k] = IF k <= w THEN a[k] ELSE a[k] + d
    BY <1>3, <1>5
  <2>2. f[k] \in Int /\ g[k] \in Int /\ a[k] \in Int /\ b[k] \in Int
    BY <1>1, <1>2, <2>1 DEF Adds, Numbers
  <2>3. a[k + 1] = a[k] + f[k] /\ b[k + 1] = b[k] + g[k]
    BY <1>1, <1>2, <2>1 DEF Adds
  <2>4. g[k] = IF k = w THEN f[k] + d ELSE f[k]
    BY <2>1
  <2>5. QED
    BY <2>1, <2>2, <2>3, <2>4
<1> HIDE DEF P
<1>6. n \in P
  BY <1>3, <1>4, <1>5, AllNumbers
<1>7. a[n] = Total(f) /\ b[n] = Total(g) /\ ~(n <= w)
  BY <1>1, <1>2, <1>3 DEF Adds
<1>8. QED
  BY <1>3, <1>6, <1>7 DEF P

\* One number more counts as it is.
LEMMA TotalOfLonger ==
  ASSUME NEW f, NEW g, NEW n, Numbers(f, n), Numbers(g, n + 1), \A k \in 0 .. n - 1 : g[k] = f[k]
  PROVE  Total(g) = Total(f) + g[n]
<1>1. PICK a : Adds(f, n, a, Total(f))
  BY TotalAdds
<1>2. PICK b : Adds(g, n + 1, b, Total(g))
  BY TotalAdds
<1> DEFINE P == {k \in Nat : k <= n => b[k] = a[k]}
<1>3. n \in Nat
  BY DEF Numbers
<1>4. 0 \in P
  BY <1>1, <1>2 DEF Adds
<1>5. ASSUME NEW k \in Nat, k \in P PROVE k + 1 \in P
  <2> SUFFICES ASSUME k + 1 <= n PROVE b[k + 1] = a[k + 1]
    OBVIOUS
  <2>1. k \in 0 .. n - 1 /\ k \in 0 .. (n + 1) - 1 /\ b[k] = a[k]
    BY <1>3, <1>5
  <2>2. a[k + 1] = a[k] + f[k] /\ b[k + 1] = b[k] + g[k]
    BY <1>1, <1>2, <2>1 DEF Adds
  <2>3. QED
    BY <2>1, <2>2
<1> HIDE DEF P
<1>6. n \in P
  BY <1>3, <1>4, <1>5, AllNumbers
<1>7. n \in 0 .. (n + 1) - 1
  BY <1>3
<1>8. b[n + 1] = b[n] + g[n] /\ a[n] = Total(f) /\ b[n + 1] = Total(g)
  BY <1>1, <1>2, <1>7 DEF Adds
<1>9. QED
  BY <1>3, <1>6, <1>8 DEF P

-----------------------------------------------------------------------------
\* What a call has still to add.

\* The addition to a word among those that are left.
Left(list, w) ==
  IF \E j \in 1 .. Len(list) : list[j].word = w
  THEN list[CHOOSE j \in 1 .. Len(list) : list[j].word = w].delta ELSE 0

\* What is left of a call that adds to bucket b, one of count: a word each once;
\* two samples go to the redundant count before they go to the bucket.
Due(list, count, b) ==
  /\ count \in Nat /\ b \in 0 .. count - 1
  /\ list \in Seq([word : 0 .. count + 1, delta : Nat])
  /\ \A j, k \in 1 .. Len(list) : list[j].word = list[k].word => j = k
  /\ \A j \in 1 .. Len(list) :
       /\ list[j].word < count /\ list[j].word # b => list[j].delta = 0
       /\ list[j].word \in {b, count + 1} => list[j].delta <= 2
       /\ list[j].word = count + 1 /\ list[j].delta > 1 =>
            \E k \in 1 .. Len(list) : j < k /\ list[k].word = b /\ list[k].delta = list[j].delta

\* What a list of additions has at a place is one.
LEMMA EntryOf ==
  ASSUME NEW count, NEW list \in Seq([word : 0 .. count + 1, delta : Nat]),
         NEW j \in 1 .. Len(list)
  PROVE  list[j].word \in 0 .. count + 1 /\ list[j].delta \in Nat
<1> DEFINE E == [word : 0 .. count + 1, delta : Nat]
<1>1. list \in Seq(E)
  OBVIOUS
<1> HIDE DEF E
<1>2. list[j] \in E
  BY <1>1
<1>3. QED
  BY <1>2 DEF E

\* Left is the one addition to a word, or nothing.
LEMMA LeftIs ==
  ASSUME NEW list, NEW count, NEW b, Due(list, count, b)
  PROVE  /\ \A j \in 1 .. Len(list) : Left(list, list[j].word) = list[j].delta
         /\ \A w : (\A j \in 1 .. Len(list) : list[j].word # w) => Left(list, w) = 0
<1>1. ASSUME NEW j \in 1 .. Len(list) PROVE Left(list, list[j].word) = list[j].delta
  <2> DEFINE c == CHOOSE k \in 1 .. Len(list) : list[k].word = list[j].word
  <2>1. c \in 1 .. Len(list) /\ list[c].word = list[j].word
    OBVIOUS
  <2> HIDE DEF c
  <2>2. c = j
    BY <2>1 DEF Due
  <2>3. Left(list, list[j].word) = list[c].delta
    BY DEF Left, c
  <2>4. QED
    BY <2>2, <2>3
<1>2. QED
  BY <1>1 DEF Left

\* The additions to a bucket are at most two, and none is to another bucket.
LEMMA LeftBounds ==
  ASSUME NEW list, NEW count, NEW b, Due(list, count, b)
  PROVE  /\ \A w : Left(list, w) \in Nat
         /\ \A w \in 0 .. count - 1 : Left(list, w) <= 2 /\ (w # b => Left(list, w) = 0)
         /\ Left(list, count + 1) <= Left(list, b) + 1
         /\ list = << >> => \A w : Left(list, w) = 0
<1>1. list \in Seq([word : 0 .. count + 1, delta : Nat]) /\ count \in Nat /\ b \in 0 .. count - 1
  BY DEF Due
<1>2. \A j \in 1 .. Len(list) : list[j].word \in 0 .. count + 1 /\ list[j].delta \in Nat
  BY <1>1, EntryOf
<1>3. ASSUME NEW w PROVE Left(list, w) \in Nat
  <2>1. CASE \E j \in 1 .. Len(list) : list[j].word = w
    BY <1>2, <2>1, LeftIs
  <2>2. CASE \A j \in 1 .. Len(list) : list[j].word # w
    <3>1. Left(list, w) = 0
      BY <2>2, LeftIs
    <3>2. QED
      BY <3>1
  <2>3. QED
    BY <2>1, <2>2
<1>4. ASSUME NEW w \in 0 .. count - 1 PROVE Left(list, w) <= 2 /\ (w # b => Left(list, w) = 0)
  <2>1. CASE \E j \in 1 .. Len(list) : list[j].word = w
    <3>1. PICK j \in 1 .. Len(list) : list[j].word = w
      BY <2>1
    <3>2. Left(list, w) = list[j].delta
      BY <3>1, LeftIs
    <3>3. w < count /\ (w # b => list[j].delta = 0) /\ (w = b => list[j].delta <= 2)
      BY <1>1, <3>1 DEF Due
    <3>4. QED
      BY <3>2, <3>3
  <2>2. CASE \A j \in 1 .. Len(list) : list[j].word # w
    <3>1. Left(list, w) = 0
      BY <2>2, LeftIs
    <3>2. QED
      BY <3>1
  <2>3. QED
    BY <2>1, <2>2
<1>5. Left(list, count + 1) <= Left(list, b) + 1
  <2>1. Left(list, b) \in Nat /\ Left(list, count + 1) \in Nat
    BY <1>3
  <2>2. CASE \E j \in 1 .. Len(list) : list[j].word = count + 1
    <3>1. PICK j \in 1 .. Len(list) : list[j].word = count + 1
      BY <2>2
    <3>2. Left(list, count + 1) = list[j].delta
      BY <3>1, LeftIs
    <3>3. CASE list[j].delta > 1
      <4>1. PICK k \in 1 .. Len(list) : list[k].word = b /\ list[k].delta = list[j].delta
        BY <3>1, <3>3 DEF Due
      <4>2. Left(list, b) = list[j].delta
        BY <4>1, LeftIs
      <4>3. QED
        BY <2>1, <3>2, <4>2
    <3>4. CASE ~(list[j].delta > 1)
      BY <1>2, <2>1, <3>2, <3>4
    <3>5. QED
      BY <3>3, <3>4
  <2>3. CASE \A j \in 1 .. Len(list) : list[j].word # count + 1
    <3>1. Left(list, count + 1) = 0
      BY <2>3, LeftIs
    <3>2. QED
      BY <2>1, <3>1
  <2>4. QED
    BY <2>2, <2>3
<1>6. ASSUME list = << >>, NEW w PROVE Left(list, w) = 0
  <2>1. 1 .. Len(list) = {}
    BY <1>6
  <2>2. QED
    BY <2>1 DEF Left
<1>7. QED
  BY <1>3, <1>4, <1>5, <1>6

\* An addition that is made is left no more, the others are.
LEMMA DueTail ==
  ASSUME NEW list, NEW count, NEW b, Due(list, count, b), list # << >>
  PROVE  /\ Due(Tail(list), count, b)
         /\ Head(list).word \in 0 .. count + 1
         /\ Left(list, Head(list).word) = Head(list).delta
         /\ Left(Tail(list), Head(list).word) = 0
         /\ \A w : w # Head(list).word => Left(Tail(list), w) = Left(list, w)
<1> DEFINE n == Len(list)
           rest == Tail(list)
           E == [word : 0 .. count + 1, delta : Nat]
<1>1. list \in Seq(E) /\ n \in Nat \ {0} /\ Head(list) = list[1]
  BY DEF Due
<1>2. /\ rest \in Seq(E) /\ Len(rest) = n - 1
      /\ \A j \in 1 .. n - 1 : rest[j] = list[j + 1]
  BY <1>1
<1>3. list[1].word \in 0 .. count + 1
  BY <1>1, EntryOf
<1> HIDE DEF n, rest
<1>4. \A j \in 1 .. n - 1 : j + 1 \in 1 .. n /\ j + 1 # 1
  BY <1>1
<1>5. \A j, k \in 1 .. n : list[j].word = list[k].word => j = k
  BY DEF Due, n
<1>6. ASSUME NEW j \in 1 .. n - 1, NEW k \in 1 .. n - 1, rest[j].word = rest[k].word PROVE j = k
  <2>1. list[j + 1].word = list[k + 1].word
    BY <1>2, <1>6
  <2>2. j + 1 = k + 1
    BY <1>4, <1>5, <2>1
  <2>3. QED
    BY <2>2
<1>7. ASSUME NEW j \in 1 .. n - 1
      PROVE  /\ rest[j].word < count /\ rest[j].word # b => rest[j].delta = 0
             /\ rest[j].word \in {b, count + 1} => rest[j].delta <= 2
             /\ rest[j].word = count + 1 /\ rest[j].delta > 1 =>
                  \E k \in 1 .. n - 1 : j < k /\ rest[k].word = b /\ rest[k].delta = rest[j].delta
  <2>1. rest[j] = list[j + 1] /\ j + 1 \in 1 .. n
    BY <1>2, <1>4
  <2>2. /\ list[j + 1].word < count /\ list[j + 1].word # b => list[j + 1].delta = 0
        /\ list[j + 1].word \in {b, count + 1} => list[j + 1].delta <= 2
        /\ list[j + 1].word = count + 1 /\ list[j + 1].delta > 1 =>
             \E k \in 1 .. n : j + 1 < k /\ list[k].word = b /\ list[k].delta = list[j + 1].delta
    BY <2>1 DEF Due, n
  <2>3. ASSUME rest[j].word = count + 1, rest[j].delta > 1
        PROVE  \E k \in 1 .. n - 1 : j < k /\ rest[k].word = b /\ rest[k].delta = rest[j].delta
    <3>1. PICK k \in 1 .. n : j + 1 < k /\ list[k].word = b /\ list[k].delta = list[j + 1].delta
      BY <2>1, <2>2, <2>3
    <3>2. k - 1 \in 1 .. n - 1 /\ j < k - 1 /\ (k - 1) + 1 = k
      BY <1>1, <3>1
    <3>3. rest[k - 1] = list[k]
      BY <1>2, <3>2
    <3>4. QED
      BY <2>1, <3>1, <3>2, <3>3
  <2>4. QED
    BY <2>1, <2>2, <2>3
<1>8. Due(rest, count, b)
  BY <1>2, <1>6, <1>7 DEF Due
<1>9. 1 \in 1 .. n
  BY <1>1
<1>11. Left(list, list[1].word) = list[1].delta
  BY <1>9, LeftIs DEF n
<1>12. Left(rest, list[1].word) = 0
  <2>1. ASSUME NEW j \in 1 .. n - 1 PROVE rest[j].word # list[1].word
    <3>1. rest[j] = list[j + 1] /\ j + 1 \in 1 .. n /\ j + 1 # 1
      BY <1>2, <1>4
    <3>2. QED
      BY <1>5, <1>9, <3>1
  <2>2. QED
    BY <1>2, <1>8, <2>1, LeftIs
<1>13. ASSUME NEW w, w # list[1].word PROVE Left(rest, w) = Left(list, w)
  <2>1. CASE \E j \in 1 .. n : list[j].word = w
    <3>1. PICK j \in 1 .. n : list[j].word = w
      BY <2>1
    <3>2. j - 1 \in 1 .. n - 1 /\ (j - 1) + 1 = j
      BY <1>1, <1>13, <3>1
    <3>3. rest[j - 1] = list[j] /\ j - 1 \in 1 .. Len(rest)
      BY <1>2, <3>2
    <3>4. Left(rest, rest[j - 1].word) = rest[j - 1].delta
      BY <1>8, <3>3, LeftIs
    <3>5. Left(list, list[j].word) = list[j].delta
      BY <3>1, LeftIs DEF n
    <3>6. QED
      BY <3>1, <3>3, <3>4, <3>5
  <2>2. CASE \A j \in 1 .. n : list[j].word # w
    <3>1. Left(list, w) = 0
      BY <2>2, LeftIs DEF n
    <3>2. \A j \in 1 .. Len(rest) : rest[j].word # w
      BY <1>2, <1>4, <2>2
    <3>3. Left(rest, w) = 0
      BY <1>8, <3>2, LeftIs
    <3>4. QED
      BY <3>1, <3>3
  <2>3. QED
    BY <2>1, <2>2
<1>14. QED
  BY <1>1, <1>3, <1>8, <1>11, <1>12, <1>13 DEF rest

\* A call with n samples of value, which go to bucket b.
Begun(list, count, b, value, n) ==
  /\ Due(list, count, b)
  /\ Left(list, b) = n /\ Left(list, count) = n * value /\ Left(list, count + 1) = n

\* Accumulate begins with one sample.
LEMMA AccumulateBegins ==
  ASSUME kSampleType_MAX \in Nat, Rising(shape), NEW value \in 0 .. kSampleType_MAX - 1
  PROVE  Begun(Accumulate(value), shape.bucket_count, BucketIndex(shape, value), value, 1)
<1> DEFINE count == shape.bucket_count
           b == BucketIndex(shape, value)
           list == Accumulate(value)
<1>1. count \in Nat /\ b \in 0 .. count - 1 /\ value \in Nat
  BY BucketFound DEF Rising
<1>2. list = <<[word |-> b, delta |-> 1], [word |-> count, delta |-> value],
               [word |-> count + 1, delta |-> 1]>>
  BY DEF Accumulate, Plus, SumWord, RedundantWord
<1> HIDE DEF count, b, list
<1>3. /\ Len(list) = 3
      /\ list[1].word = b /\ list[1].delta = 1 /\ list[2].word = count /\ list[2].delta = value
      /\ list[3].word = count + 1 /\ list[3].delta = 1
  BY <1>2
<1>4. list \in Seq([word : 0 .. count + 1, delta : Nat])
  <2>1. \A x \in {b, count, count + 1}, d \in {1, value} :
          [word |-> x, delta |-> d] \in [word : 0 .. count + 1, delta : Nat]
    BY <1>1
  <2>2. QED
    BY <1>2, <2>1
<1>5. \A j \in 1 .. Len(list) : j = 1 \/ j = 2 \/ j = 3
  BY <1>3
<1>6. b # count /\ b # count + 1 /\ b < count /\ count # count + 1 /\ ~(count + 1 < count)
      /\ ~(count < count)
  BY <1>1
<1>7. \A j, k \in 1 .. Len(list) : list[j].word = list[k].word => j = k
  BY <1>3, <1>5, <1>6
<1>8. ASSUME NEW j \in 1 .. Len(list)
      PROVE  /\ list[j].word < count /\ list[j].word # b => list[j].delta = 0
             /\ list[j].word \in {b, count + 1} => list[j].delta <= 2
             /\ ~(list[j].word = count + 1 /\ list[j].delta > 1)
  BY <1>3, <1>5, <1>6
<1>9. Due(list, count, b)
  BY <1>1, <1>4, <1>7, <1>8 DEF Due
<1>10. 1 \in 1 .. Len(list) /\ 2 \in 1 .. Len(list) /\ 3 \in 1 .. Len(list)
  BY <1>3
<1>11. Left(list, b) = 1 /\ Left(list, count) = value /\ Left(list, count + 1) = 1
  BY <1>3, <1>9, <1>10, LeftIs
<1>12. QED
  BY <1>1, <1>9, <1>11 DEF Begun, count, b, list

\* A function on 1 .. n is a sequence.
LEMMA FunctionIsSequence ==
  ASSUME NEW E, NEW n \in Nat, NEW f \in [1 .. n -> E]
  PROVE  f \in Seq(E) /\ Len(f) = n
  OBVIOUS

\* A sequence over a set is one over a larger set.
LEMMA SequenceOfMore ==
  ASSUME NEW A, NEW E, A \subseteq E, NEW s \in Seq(A)
  PROVE  s \in Seq(E)
<1>1. Len(s) \in Nat /\ s \in [1 .. Len(s) -> A]
  OBVIOUS
<1>2. s \in [1 .. Len(s) -> E]
  BY <1>1
<1>3. QED
  BY <1>1, <1>2, FunctionIsSequence

\* s and then t.
Joined(s, t, u, E) ==
  /\ u \in Seq(E) /\ Len(u) = Len(s) + Len(t)
  /\ \A j \in 1 .. Len(s) : u[j] = s[j]
  /\ \A j \in Len(s) + 1 .. Len(s) + Len(t) : u[j] = t[j - Len(s)]

\* Concatenation does that.
LEMMA ConcatenationJoins ==
  ASSUME NEW E, NEW s \in Seq(E), NEW t \in Seq(E)
  PROVE  Joined(s, t, s \o t, E)
  BY DEF Joined

\* AddSampleSet begins with the words of two.
LEMMA AddWordsBegins ==
  ASSUME kSampleType_MAX \in Nat, Rising(shape), NEW value \in 0 .. kSampleType_MAX - 1
  PROVE  Begun(AddWords(SetOf(value, 2)), shape.bucket_count, BucketIndex(shape, value), value, 2)
<1> DEFINE count == shape.bucket_count
           b == BucketIndex(shape, value)
           list == AddWords(SetOf(value, 2))
           Of(w) == IF w = b THEN 2 ELSE 0
           front == <<[word |-> count, delta |-> 2 * value], [word |-> count + 1, delta |-> 2]>>
           back == [i \in 1 .. count |-> [word |-> i - 1, delta |-> Of(i - 1)]]
           E == [word : 0 .. count + 1, delta : Nat]
<1>1. count \in Nat /\ b \in 0 .. count - 1 /\ value \in Nat
  BY BucketFound DEF Rising
<1>2. b # count /\ b # count + 1 /\ b < count /\ count # count + 1
  BY <1>1
<1>3. list = front \o back
  <2>1. \A w \in 0 .. count + 1 : SetOf(value, 2)[w] =
          IF w = count THEN 2 * value ELSE IF w \in {count + 1, b} THEN 2 ELSE 0
    BY DEF SetOf, Words, SumWord, RedundantWord
  <2>2. count \in 0 .. count + 1 /\ count + 1 \in 0 .. count + 1
    BY <1>1
  <2>3. SetOf(value, 2)[count] = 2 * value /\ SetOf(value, 2)[count + 1] = 2
    BY <1>2, <2>1, <2>2
  <2>4. ASSUME NEW i \in 1 .. count PROVE SetOf(value, 2)[i - 1] = Of(i - 1)
    <3>1. i - 1 \in 0 .. count + 1 /\ i - 1 # count /\ i - 1 # count + 1
      BY <1>1
    <3>2. QED
      BY <2>1, <3>1
  <2>5. back = [i \in 1 .. count |-> Plus(i - 1, SetOf(value, 2)[i - 1])]
    BY <2>4 DEF Plus
  <2>6. QED
    BY <2>3, <2>5 DEF AddWords, Plus, SumWord, RedundantWord
<1>4. front \in Seq(E) /\ Len(front) = 2
  <2>1. [word |-> count, delta |-> 2 * value] \in E /\ [word |-> count + 1, delta |-> 2] \in E
    BY <1>1
  <2> HIDE DEF E
  <2>2. QED
    BY <2>1
<1>5. back \in Seq(E) /\ Len(back) = count
  <2>1. \A i \in 1 .. count : [word |-> i - 1, delta |-> Of(i - 1)] \in E
    BY <1>1
  <2> HIDE DEF E
  <2>2. back \in [1 .. count -> E]
    BY <2>1
  <2> HIDE DEF back
  <2>3. QED
    BY <1>1, <2>2, FunctionIsSequence
<1>6. front[1].word = count /\ front[1].delta = 2 * value /\ front[2].word = count + 1
      /\ front[2].delta = 2
  OBVIOUS
<1>7. \A i \in 1 .. count : back[i].word = i - 1 /\ back[i].delta = Of(i - 1)
  OBVIOUS
<1> HIDE DEF front, back, E
<1>8. /\ list \in Seq(E) /\ Len(list) = count + 2
      /\ list[1] = front[1] /\ list[2] = front[2]
      /\ \A j \in 3 .. count + 2 : list[j] = back[j - 2]
  <2>1. Joined(front, back, list, E)
    BY <1>3, <1>4, <1>5, ConcatenationJoins
  <2> HIDE DEF list, b, count
  <2>2. list \in Seq(E) /\ Len(list) = count + 2
    BY <1>1, <1>4, <1>5, <2>1 DEF Joined
  <2>3. 1 \in 1 .. Len(front) /\ 2 \in 1 .. Len(front)
    BY <1>4
  <2>4. list[1] = front[1] /\ list[2] = front[2]
    BY <2>1, <2>3 DEF Joined
  <2>5. ASSUME NEW j \in 3 .. count + 2 PROVE list[j] = back[j - 2]
    <3>1. j \in Len(front) + 1 .. Len(front) + Len(back)
      BY <1>1, <1>4, <1>5
    <3>2. list[j] = back[j - Len(front)]
      BY <2>1, <3>1 DEF Joined
    <3>3. QED
      BY <1>4, <3>2
  <2>6. QED
    BY <2>2, <2>4, <2>5
<1> HIDE DEF list, b, count
<1>9. \A j \in 1 .. Len(list) : j = 1 \/ j = 2 \/ j \in 3 .. count + 2
  BY <1>1, <1>8
<1>10. \A j \in 3 .. count + 2 :
         list[j].word = j - 3 /\ list[j].delta = Of(j - 3) /\ j - 3 \in 0 .. count - 1
  <2> SUFFICES ASSUME NEW j \in 3 .. count + 2
               PROVE  /\ list[j].word = j - 3 /\ list[j].delta = Of(j - 3)
                      /\ j - 3 \in 0 .. count - 1
    OBVIOUS
  <2>1. j - 2 \in 1 .. count /\ (j - 2) - 1 = j - 3 /\ j - 3 \in 0 .. count - 1
    BY <1>1
  <2>2. QED
    BY <1>7, <1>8, <2>1
<1>11. /\ list[1].word = count /\ list[1].delta = 2 * value
       /\ list[2].word = count + 1 /\ list[2].delta = 2
  BY <1>6, <1>8
<1>12. ASSUME NEW j \in 1 .. Len(list), NEW k \in 1 .. Len(list), list[j].word = list[k].word
       PROVE  j = k
  <2>1. \A i \in 3 .. count + 2 : list[i].word # count /\ list[i].word # count + 1
    BY <1>1, <1>10
  <2>2. CASE j \in {1, 2} \/ k \in {1, 2}
    BY <1>1, <1>9, <1>11, <1>12, <2>1, <2>2
  <2>3. CASE j \in 3 .. count + 2 /\ k \in 3 .. count + 2
    BY <1>10, <1>12, <2>3
  <2>4. QED
    BY <1>9, <2>2, <2>3
<1>13. b + 3 \in 3 .. count + 2 /\ b + 3 \in 1 .. Len(list) /\ 2 < b + 3
       /\ list[b + 3].word = b /\ list[b + 3].delta = 2
  <2>1. b + 3 \in 3 .. count + 2 /\ b + 3 \in 1 .. Len(list) /\ 2 < b + 3 /\ (b + 3) - 3 = b
    BY <1>1, <1>8
  <2>2. QED
    BY <1>10, <2>1
<1>14. ASSUME NEW j \in 1 .. Len(list)
       PROVE  /\ list[j].word < count /\ list[j].word # b => list[j].delta = 0
              /\ list[j].word \in {b, count + 1} => list[j].delta <= 2
              /\ list[j].word = count + 1 /\ list[j].delta > 1 =>
                   \E k \in 1 .. Len(list) : j < k /\ list[k].word = b /\ list[k].delta = list[j].delta
  <2>1. CASE j = 1
    BY <1>1, <1>2, <1>11, <2>1
  <2>2. CASE j = 2
    BY <1>1, <1>2, <1>11, <1>13, <2>2
  <2>3. CASE j \in 3 .. count + 2
    BY <1>1, <1>10, <2>3
  <2>4. QED
    BY <1>9, <2>1, <2>2, <2>3
<1>15. Due(list, count, b)
  BY <1>1, <1>8, <1>12, <1>14 DEF Due, E
<1>16. 1 \in 1 .. Len(list) /\ 2 \in 1 .. Len(list)
  BY <1>1, <1>8
<1>17. Left(list, b) = 2 /\ Left(list, count) = 2 * value /\ Left(list, count + 1) = 2
  BY <1>11, <1>13, <1>15, <1>16, LeftIs
<1>18. QED
  BY <1>15, <1>17 DEF Begun, count, b, list

-----------------------------------------------------------------------------
\* What the threads have still to add to a bucket, one by one.
Units(td, i) == {x \in Threads \X {1, 2} : x[2] <= Left(td[x[1]], i)}

\* There are finitely many.
LEMMA UnitsFinite ==
  ASSUME IsFiniteSet(Threads), NEW td, NEW i
  PROVE  IsFiniteSet(Units(td, i)) /\ Cardinality(Units(td, i)) \in Nat
<1>1. IsFiniteSet({1, 2})
  <2>1. {1, 2} = {1} \cup {2}
    OBVIOUS
  <2>2. IsFiniteSet({1} \cup {2})
    BY FS_Singleton, FS_AddElement
  <2>3. QED
    BY <2>1, <2>2
<1>2. IsFiniteSet(Threads \X {1, 2})
  BY <1>1, FS_Product
<1>3. Units(td, i) \subseteq Threads \X {1, 2}
  BY DEF Units
<1>4. QED
  BY <1>2, <1>3, FS_Subset, FS_CardinalityType

\* Those of one thread.
Mine(t, n) == {x \in {t} \X {1, 2} : x[2] <= n}

\* They are as many as it has left.
LEMMA MineAre ==
  ASSUME NEW t, NEW n \in 0 .. 2
  PROVE  IsFiniteSet(Mine(t, n)) /\ Cardinality(Mine(t, n)) = n
<1>1. n = 0 \/ n = 1 \/ n = 2
  OBVIOUS
<1>2. CASE n = 0
  <2>1. Mine(t, n) = {}
    BY <1>2 DEF Mine
  <2>2. QED
    BY <1>2, <2>1, FS_EmptySet
<1>3. CASE n = 1
  <2>1. Mine(t, n) = {<<t, 1>>}
    BY <1>3 DEF Mine
  <2>2. QED
    BY <1>3, <2>1, FS_Singleton
<1>4. CASE n = 2
  <2>1. Mine(t, n) = {<<t, 1>>} \cup {<<t, 2>>} /\ <<t, 2>> \notin {<<t, 1>>}
    BY <1>4 DEF Mine
  <2>2. IsFiniteSet({<<t, 1>>}) /\ Cardinality({<<t, 1>>}) = 1
    BY FS_Singleton
  <2>3. IsFiniteSet({<<t, 1>>} \cup {<<t, 2>>}) /\ Cardinality({<<t, 1>>} \cup {<<t, 2>>}) = 1 + 1
    BY <2>1, <2>2, FS_AddElement
  <2>4. QED
    BY <1>4, <2>1, <2>3
<1>5. QED
  BY <1>1, <1>2, <1>3, <1>4

\* When one thread's list changes, its additions do, those of the others do not.
LEMMA UnitsChange ==
  ASSUME IsFiniteSet(Threads), NEW td, NEW t \in Threads, NEW new, NEW i,
         \A u \in Threads \ {t} : new[u] = td[u],
         Left(td[t], i) \in 0 .. 2, Left(new[t], i) \in 0 .. 2
  PROVE  Cardinality(Units(new, i)) + Left(td[t], i) = Cardinality(Units(td, i)) + Left(new[t], i)
<1> DEFINE Others == {x \in Units(td, i) : x[1] # t}
           a == Mine(t, Left(td[t], i))
           c == Mine(t, Left(new[t], i))
<1>1. Units(td, i) = Others \cup a /\ Others \cap a = {}
  BY DEF Units, Mine
<1>2. Units(new, i) = Others \cup c /\ Others \cap c = {}
  BY DEF Units, Mine
<1>3. IsFiniteSet(Others)
  BY UnitsFinite, FS_Subset
<1>4. IsFiniteSet(a) /\ Cardinality(a) = Left(td[t], i)
  BY MineAre
<1>5. IsFiniteSet(c) /\ Cardinality(c) = Left(new[t], i)
  BY MineAre
<1> HIDE DEF Others, a, c
<1>6. Cardinality(Others) \in Nat
  BY <1>3, FS_CardinalityType
<1>7. Cardinality(Units(td, i)) = Cardinality(Others) + Cardinality(a)
  <2>1. Cardinality(Others \cup a) = Cardinality(Others) + Cardinality(a) - Cardinality(Others \cap a)
    BY <1>3, <1>4, FS_Union
  <2>2. Cardinality(Others \cap a) = 0
    BY <1>1, FS_EmptySet
  <2>3. QED
    BY <1>1, <1>4, <1>6, <2>1, <2>2
<1>8. Cardinality(Units(new, i)) = Cardinality(Others) + Cardinality(c)
  <2>1. Cardinality(Others \cup c) = Cardinality(Others) + Cardinality(c) - Cardinality(Others \cap c)
    BY <1>3, <1>5, FS_Union
  <2>2. Cardinality(Others \cap c) = 0
    BY <1>2, FS_EmptySet
  <2>3. QED
    BY <1>2, <1>5, <1>6, <2>1, <2>2
<1>9. QED
  BY <1>4, <1>5, <1>6, <1>7, <1>8

-----------------------------------------------------------------------------
\* What has been given.

\* The samples that belong to bucket i of s.
GivenIn(s, samples, i) == {k \in 1 .. Len(samples) : BucketIndex(s, samples[k]) = i}

\* The samples as numbers to add.
Given(samples) == [k \in 0 .. Len(samples) - 1 |-> samples[k + 1]]

\* They are finitely many, none of no samples.
LEMMA GivenFinite ==
  ASSUME NEW s, NEW samples, Len(samples) \in Nat, NEW i
  PROVE  /\ IsFiniteSet(GivenIn(s, samples, i)) /\ Cardinality(GivenIn(s, samples, i)) \in Nat
         /\ samples = << >> => Cardinality(GivenIn(s, samples, i)) = 0
<1>1. IsFiniteSet(1 .. Len(samples))
  BY FS_Interval
<1>2. GivenIn(s, samples, i) \subseteq 1 .. Len(samples)
  BY DEF GivenIn
<1>3. samples = << >> => GivenIn(s, samples, i) = {}
  BY <1>2
<1>4. QED
  BY <1>1, <1>2, <1>3, FS_Subset, FS_CardinalityType, FS_EmptySet

\* more is samples and n times value.
Extended(s, samples, more, value, n) ==
  /\ Len(more) = Len(samples) + n
  /\ Total(Given(more)) = Total(Given(samples)) + n * value
  /\ \A i : Cardinality(GivenIn(s, more, i)) =
              Cardinality(GivenIn(s, samples, i)) + (IF i = BucketIndex(s, value) THEN n ELSE 0)

\* One sample more.
LEMMA GivenOne ==
  ASSUME NEW s, NEW samples \in Seq(Nat), NEW value \in Nat
  PROVE  Extended(s, samples, Append(samples, value), value, 1)
<1> DEFINE more == Append(samples, value)
           n == Len(samples)
<1>1. n \in Nat /\ Len(more) = n + 1 /\ more \in Seq(Nat)
      /\ more[n + 1] = value /\ \A k \in 1 .. n : more[k] = samples[k]
  OBVIOUS
<1>2. (\A k \in 1 .. n : samples[k] \in Nat) /\ \A k \in 1 .. n + 1 : more[k] \in Nat
  BY <1>1
<1> HIDE DEF more
<1>3. Total(Given(more)) = Total(Given(samples)) + value
  <2>1. Numbers(Given(samples), n)
    BY <1>1, <1>2 DEF Numbers, Given
  <2>2. Numbers(Given(more), n + 1)
    BY <1>1, <1>2 DEF Numbers, Given
  <2>3. \A k \in 0 .. n - 1 : Given(more)[k] = Given(samples)[k]
    BY <1>1 DEF Given
  <2>4. Given(more)[n] = value
    BY <1>1 DEF Given
  <2>5. QED
    BY <2>1, <2>2, <2>3, <2>4, TotalOfLonger
<1>4. ASSUME NEW i
      PROVE  Cardinality(GivenIn(s, more, i)) =
               Cardinality(GivenIn(s, samples, i)) + (IF i = BucketIndex(s, value) THEN 1 ELSE 0)
  <2>1. IsFiniteSet(GivenIn(s, samples, i)) /\ Cardinality(GivenIn(s, samples, i)) \in Nat
    BY <1>1, GivenFinite DEF n
  <2>2. CASE i = BucketIndex(s, value)
    <3>1. GivenIn(s, more, i) = GivenIn(s, samples, i) \cup {n + 1}
      BY <1>1, <2>2 DEF GivenIn
    <3>2. n + 1 \notin GivenIn(s, samples, i)
      BY <1>1 DEF GivenIn
    <3>3. Cardinality(GivenIn(s, samples, i) \cup {n + 1}) = Cardinality(GivenIn(s, samples, i)) + 1
      BY <2>1, <3>2, FS_AddElement
    <3>4. QED
      BY <2>2, <3>1, <3>3
  <2>3. CASE i # BucketIndex(s, value)
    <3>1. GivenIn(s, more, i) = GivenIn(s, samples, i)
      BY <1>1, <2>3 DEF GivenIn
    <3>2. QED
      BY <2>1, <2>3, <3>1
  <2>4. QED
    BY <2>2, <2>3
<1>5. QED
  BY <1>1, <1>3, <1>4 DEF Extended, more

\* One or two.
LEMMA GivenMore ==
  ASSUME NEW s, NEW samples \in Seq(Nat), NEW value \in Nat
  PROVE  /\ Extended(s, samples, samples \o <<value>>, value, 1)
         /\ Extended(s, samples, samples \o <<value, value>>, value, 2)
<1> DEFINE one == Append(samples, value)
           two == Append(one, value)
<1>1. one \in Seq(Nat) /\ samples \o <<value>> = one /\ samples \o <<value, value>> = two
  OBVIOUS
<1>2. Extended(s, samples, one, value, 1)
  BY GivenOne
<1>3. Extended(s, one, two, value, 1)
  BY <1>1, GivenOne
<1>4. Len(samples) \in Nat /\ Total(Given(samples)) \in Int
  <2>1. Len(samples) \in Nat /\ \A k \in 1 .. Len(samples) : samples[k] \in Nat
    OBVIOUS
  <2>2. Numbers(Given(samples), Len(samples))
    BY <2>1 DEF Numbers, Given
  <2>3. Total(Given(samples)) \in Int
    BY <2>2, TotalIsInt
  <2>4. QED
    BY <2>1, <2>3
<1>5. \A i : Cardinality(GivenIn(s, samples, i)) \in Nat
  BY <1>4, GivenFinite
<1> HIDE DEF one, two
<1>6. Extended(s, samples, two, value, 2)
  <2>1. Len(two) = Len(samples) + 2 /\ Total(Given(two)) = Total(Given(samples)) + 2 * value
    BY <1>2, <1>3, <1>4 DEF Extended
  <2>2. ASSUME NEW i
        PROVE  Cardinality(GivenIn(s, two, i)) =
                 Cardinality(GivenIn(s, samples, i)) + (IF i = BucketIndex(s, value) THEN 2 ELSE 0)
    BY <1>2, <1>3, <1>5 DEF Extended
  <2>3. QED
    BY <2>1, <2>2 DEF Extended
<1>7. QED
  BY <1>1, <1>2, <1>6

-----------------------------------------------------------------------------
\* The invariant: types, ...
HTypes ==
  /\ shape \in Shapes
  /\ samplers \in SUBSET Threads
  /\ sample_ \in [Words -> Nat]
  /\ todo \in [Threads -> Seq([word : Words, delta : Nat])]
  /\ loaded \in [Threads -> Nat \cup {Unloaded}]
  /\ given \in Seq(0 .. kSampleType_MAX - 1)
  /\ snapshots \in Nat
  /\ \E c \in 0 .. shape.bucket_count + 2 : snapshot \in [0 .. c - 1 -> Nat]

\* ... what is left of each thread's call, ...
Calls ==
  \A t \in Threads :
    /\ \E b : Due(todo[t], shape.bucket_count, b)
    /\ loaded[t] # Unloaded => todo[t] # << >>

\* ... that no bucket, and no load or copy of it, counts too many, ...
NoneTooMany ==
  \A i \in 0 .. shape.bucket_count - 1 :
    /\ sample_[i] + Cardinality(Units(todo, i)) <= Cardinality(GivenIn(shape, given, i))
    /\ \A t \in Threads : loaded[t] # Unloaded /\ Head(todo[t]).word = i =>
         loaded[t] + Cardinality(Units(todo, i)) <= Cardinality(GivenIn(shape, given, i))
    /\ i \in DOMAIN snapshot => snapshot[i] <= Cardinality(GivenIn(shape, given, i))

\* The first n of some numbers.
FirstOf(f, n) == [i \in 0 .. n - 1 |-> f[i]]

\* ... that all is counted but what the only sampler has still to add, ...
AllCounted(t) ==
  /\ loaded[t] # Unloaded => loaded[t] = sample_[Head(todo[t]).word]
  /\ \A i \in 0 .. shape.bucket_count - 1 :
       sample_[i] + Left(todo[t], i) = Cardinality(GivenIn(shape, given, i))
  /\ sample_[SumWord] + Left(todo[t], SumWord) = Total(Given(given))
  /\ sample_[RedundantWord] + Left(todo[t], RedundantWord) = Len(given)
  /\ \E b : /\ Due(todo[t], shape.bucket_count, b)
            /\ Total(FirstOf(sample_, shape.bucket_count)) + Left(todo[t], b) = Len(given)

\* ... and how far a snapshot of its histogram is overtaken.
Mixed(copied, words, n) ==
  [i \in 0 .. n - 1 |-> IF i \in DOMAIN copied THEN copied[i] ELSE words[i]]

BarelyOvertaken ==
  /\ \A w \in DOMAIN snapshot : w \in Words /\ snapshot[w] <= sample_[w]
  /\ settled \in Int /\ settled <= Total(Mixed(snapshot, sample_, shape.bucket_count))
  /\ RedundantWord \in DOMAIN snapshot =>
       Total(FirstOf(snapshot, shape.bucket_count)) <= snapshot[RedundantWord] + 1

HistogramInvariant ==
  /\ HTypes /\ Calls /\ NoneTooMany
  /\ \A t \in Threads : samplers = {t} => AllCounted(t) /\ BarelyOvertaken

-----------------------------------------------------------------------------
\* The steps.

\* A call begins with n samples of value.
Begins(t, list, value, n) ==
  /\ todo[t] = << >>
  /\ Begun(list, shape.bucket_count, BucketIndex(shape, value), value, n)
  /\ todo' = [todo EXCEPT ![t] = list]
  /\ given' \in Seq(0 .. kSampleType_MAX - 1)
  /\ Extended(shape, given, given', value, n)
  /\ UNCHANGED <<shape, samplers, sample_, loaded, snapshot, snapshots, settled>>

\* Add and AddSampleSet begin one.
LEMMA CallsBegin ==
  ASSUME HistogramAssumptions, HTypes, NEW t \in Threads, NEW value \in Samples,
         Add(t, value) \/ AddSampleSet(t, value)
  PROVE  \E v \in 0 .. kSampleType_MAX - 1, n \in {1, 2} : \E list : Begins(t, list, v, n)
<1> DEFINE v == Clamped(value)
           V == 0 .. kSampleType_MAX - 1
<1>1. kSampleType_MAX \in Nat /\ Rising(shape) /\ value \in Int
  BY DEF HistogramAssumptions, HTypes
<1>2. v \in V
  BY <1>1 DEF Clamped, Greater, Least, HistogramAssumptions
<1>3. given \in Seq(V) /\ given \in Seq(Nat) /\ v \in Nat
  <2>1. given \in Seq(V) /\ V \subseteq Nat
    BY DEF HTypes
  <2>2. v \in Nat
    BY <1>2, <2>1
  <2> HIDE DEF V, v
  <2>3. QED
    BY <2>1, <2>2, SequenceOfMore
<1> HIDE DEF v
<1>4. CASE Add(t, value)
  <2> DEFINE list == Accumulate(v)
  <2>1. Called(t, list, <<v>>)
    BY <1>4 DEF Add, v
  <2>2. Begun(list, shape.bucket_count, BucketIndex(shape, v), v, 1)
    BY <1>1, <1>2, AccumulateBegins
  <2>3. Extended(shape, given, given \o <<v>>, v, 1)
    BY <1>3, GivenMore
  <2> HIDE DEF list, V
  <2>4. given \o <<v>> \in Seq(V)
    BY <1>2, <1>3
  <2>5. Begins(t, list, v, 1)
    BY <2>1, <2>2, <2>3, <2>4 DEF Called, Begins, V
  <2>6. QED
    BY <1>2, <2>5 DEF V
<1>5. CASE AddSampleSet(t, value)
  <2> DEFINE list == AddWords(SetOf(v, 2))
  <2>1. Called(t, list, <<v, v>>)
    BY <1>5 DEF AddSampleSet, v
  <2>2. Begun(list, shape.bucket_count, BucketIndex(shape, v), v, 2)
    BY <1>1, <1>2, AddWordsBegins
  <2>3. Extended(shape, given, given \o <<v, v>>, v, 2)
    BY <1>3, GivenMore
  <2> HIDE DEF list, V
  <2>4. given \o <<v, v>> \in Seq(V)
    BY <1>2, <1>3
  <2>5. Begins(t, list, v, 2)
    BY <2>1, <2>2, <2>3, <2>4 DEF Called, Begins, V
  <2>6. QED
    BY <1>2, <2>5 DEF V
<1>6. QED
  BY <1>4, <1>5

\* What the types say of the shape, and the words.
LEMMA ShapeFacts ==
  ASSUME HistogramAssumptions, HTypes
  PROVE  /\ kSampleType_MAX \in Nat \ {0} /\ Rising(shape) /\ ValidateBucketRanges(shape)
         /\ shape.bucket_count \in Nat \ {0}
         /\ Words = 0 .. shape.bucket_count + 1
         /\ SumWord = shape.bucket_count /\ RedundantWord = shape.bucket_count + 1
         /\ IsFiniteSet(Threads)
  BY DEF HistogramAssumptions, HTypes, Rising, Words, SumWord, RedundantWord

\* What is left of a call adds two to a bucket at most.
LEMMA LeftOfCall ==
  ASSUME HistogramAssumptions, HTypes, Calls, NEW t \in Threads,
         NEW i \in 0 .. shape.bucket_count - 1
  PROVE  Left(todo[t], i) \in 0 .. 2
<1>1. PICK b : Due(todo[t], shape.bucket_count, b)
  BY DEF Calls
<1>2. Left(todo[t], i) \in Nat /\ Left(todo[t], i) <= 2
  BY <1>1, LeftBounds
<1>3. QED
  BY <1>2

\* Types and calls from the start.
LEMMA TypesInit == ASSUME HistogramAssumptions, Init PROVE HTypes /\ Calls
<1>1. shape \in Shapes /\ Rising(shape) /\ shape.bucket_count \in Nat \ {0}
  BY DEF Init, HistogramAssumptions, Rising
<1>2. snapshot \in [0 .. 0 - 1 -> Nat]
  <2>1. 0 .. 0 - 1 = {} /\ snapshot = << >>
    BY DEF Init
  <2>2. DOMAIN << >> = {}
    OBVIOUS
  <2>3. QED
    BY <2>1, <2>2
<1>3. HTypes
  <2>1. sample_ \in [Words -> Nat] /\ loaded \in [Threads -> Nat \cup {Unloaded}]
    BY DEF Init
  <2>2. todo \in [Threads -> Seq([word : Words, delta : Nat])]
    <3> DEFINE E == [word : Words, delta : Nat]
    <3>1. todo = [t \in Threads |-> << >>]
      BY DEF Init
    <3> HIDE DEF E
    <3>2. << >> \in Seq(E)
      OBVIOUS
    <3>3. todo \in [Threads -> Seq(E)]
      BY <3>1, <3>2
    <3>4. QED
      BY <3>3 DEF E
  <2>3. given \in Seq(0 .. kSampleType_MAX - 1)
    BY DEF Init
  <2>4. samplers \in SUBSET Threads /\ snapshots \in Nat
    BY DEF Init
  <2>5. 0 \in 0 .. shape.bucket_count + 2
    BY <1>1
  <2>6. QED
    BY <1>1, <1>2, <2>1, <2>2, <2>3, <2>4, <2>5 DEF HTypes
<1>4. ASSUME NEW t \in Threads
      PROVE  (\E b : Due(todo[t], shape.bucket_count, b)) /\ loaded[t] = Unloaded
  <2>1. todo[t] = << >> /\ loaded[t] = Unloaded
    BY DEF Init
  <2>2. Due(<< >>, shape.bucket_count, 0)
    <3>1. << >> \in Seq([word : 0 .. shape.bucket_count + 1, delta : Nat])
          /\ 1 .. Len(<< >>) = {}
      OBVIOUS
    <3>2. QED
      BY <1>1, <3>1 DEF Due
  <2>3. QED
    BY <2>1, <2>2
<1>5. QED
  BY <1>3, <1>4 DEF Calls

\* A call that begins keeps them.
LEMMA TypesBegin ==
  ASSUME HistogramAssumptions, HTypes, Calls, NEW t \in Threads, NEW list,
         NEW value \in 0 .. kSampleType_MAX - 1, NEW n \in {1, 2}, Begins(t, list, value, n)
  PROVE  HTypes' /\ Calls'
<1> DEFINE E == [word : Words, delta : Nat]
<1>1. Due(list, shape.bucket_count, BucketIndex(shape, value))
  BY DEF Begins, Begun
<1>2. list \in Seq(E)
  BY <1>1, ShapeFacts DEF Due
<1>3. todo' = [todo EXCEPT ![t] = list] /\ todo \in [Threads -> Seq(E)]
  BY DEF Begins, HTypes
<1> HIDE DEF E
<1>4. todo' \in [Threads -> Seq(E)]
  BY <1>2, <1>3
<1>5. UNCHANGED <<shape, samplers, sample_, loaded, snapshot, snapshots, Words>>
  BY DEF Begins, Words, RedundantWord
<1>6. HTypes'
  BY <1>4, <1>5 DEF HTypes, Begins, E
<1>7. ASSUME NEW u \in Threads
      PROVE  (\E b : Due(todo'[u], shape.bucket_count, b)) /\ (loaded[u] # Unloaded => todo'[u] # << >>)
  <2>1. CASE u = t
    <3>1. todo'[u] = list /\ loaded[u] = Unloaded
      BY <1>3, <2>1 DEF Begins, Calls
    <3>2. QED
      BY <1>1, <3>1
  <2>2. CASE u # t
    <3>1. todo'[u] = todo[u]
      BY <1>3, <2>2
    <3>2. QED
      BY <3>1 DEF Calls
  <2>3. QED
    BY <2>1, <2>2
<1>8. Calls'
  BY <1>5, <1>7 DEF Calls
<1>9. QED
  BY <1>6, <1>8

\* So does a load.
LEMMA TypesLoad ==
  ASSUME HistogramAssumptions, HTypes, Calls, NEW t \in Threads, Load(t)
  PROVE  /\ HTypes' /\ Calls'
         /\ Head(todo[t]).word \in Words /\ loaded'[t] = sample_[Head(todo[t]).word]
         /\ \A u \in Threads \ {t} : loaded'[u] = loaded[u]
<1>1. PICK b : Due(todo[t], shape.bucket_count, b)
  BY DEF Calls
<1>2. todo[t] # << >>
  BY DEF Load
<1> DEFINE w == Head(todo[t]).word
<1>3. w \in Words
  BY <1>1, <1>2, DueTail, ShapeFacts
<1> HIDE DEF w
<1>4. sample_[w] \in Nat
  BY <1>3 DEF HTypes
<1>5. loaded' = [loaded EXCEPT ![t] = sample_[w]] /\ loaded \in [Threads -> Nat \cup {Unloaded}]
  BY DEF Load, HTypes, w
<1>6. loaded' \in [Threads -> Nat \cup {Unloaded}] /\ loaded'[t] = sample_[w]
      /\ \A u \in Threads \ {t} : loaded'[u] = loaded[u]
  BY <1>4, <1>5
<1>7. UNCHANGED <<shape, samplers, sample_, todo, given, snapshot, snapshots, Words>>
  BY DEF Load, Words, RedundantWord
<1>8. HTypes'
  BY <1>6, <1>7 DEF HTypes
<1>9. Calls'
  <2>1. \A u \in Threads : loaded'[u] # Unloaded => todo[u] # << >>
    BY <1>2, <1>6 DEF Calls
  <2>2. QED
    BY <1>7, <2>1 DEF Calls
<1>10. QED
  BY <1>3, <1>6, <1>8, <1>9 DEF w

\* A store adds what is left for its word to what was loaded.
Stores(t, w) ==
  /\ w \in Words /\ w = Head(todo[t]).word /\ todo[t] # << >>
  /\ loaded[t] \in Nat /\ Left(todo[t], w) \in Nat
  /\ sample_'[w] = loaded[t] + Left(todo[t], w)
  /\ \A x \in Words \ {w} : sample_'[x] = sample_[x]
  /\ todo'[t] = Tail(todo[t]) /\ loaded'[t] = Unloaded
  /\ \A u \in Threads \ {t} : todo'[u] = todo[u] /\ loaded'[u] = loaded[u]
  /\ UNCHANGED <<shape, samplers, given, snapshot, snapshots, settled, Words>>

\* It does, and keeps types and calls.
LEMMA TypesStore ==
  ASSUME HistogramAssumptions, HTypes, Calls, NEW t \in Threads, Store(t)
  PROVE  HTypes' /\ Calls' /\ \E w : Stores(t, w)
<1> DEFINE w == Head(todo[t]).word
           d == Head(todo[t]).delta
           E == [word : Words, delta : Nat]
<1>1. PICK b : Due(todo[t], shape.bucket_count, b)
  BY DEF Calls
<1>2. loaded[t] # Unloaded /\ todo[t] # << >> /\ loaded[t] \in Nat
  BY DEF Store, Calls, HTypes
<1>3. w \in Words /\ Left(todo[t], w) = d
  BY <1>1, <1>2, DueTail, ShapeFacts
<1>4. d \in Nat
  BY <1>1, <1>3, LeftBounds
<1>5. /\ sample_' = [sample_ EXCEPT ![w] = loaded[t] + d] /\ sample_ \in [Words -> Nat]
      /\ todo' = [todo EXCEPT ![t] = Tail(todo[t])] /\ todo \in [Threads -> Seq(E)]
      /\ loaded' = [loaded EXCEPT ![t] = Unloaded] /\ loaded \in [Threads -> Nat \cup {Unloaded}]
  BY DEF Store, HTypes
<1> HIDE DEF w, d, E
<1>6. /\ sample_' \in [Words -> Nat] /\ sample_'[w] = loaded[t] + d
      /\ \A x \in Words \ {w} : sample_'[x] = sample_[x]
  BY <1>2, <1>3, <1>4, <1>5
<1>7. Tail(todo[t]) \in Seq(E)
  <2>1. todo[t] \in Seq(E)
    BY <1>5
  <2>2. QED
    BY <1>2, <2>1
<1>8. /\ todo' \in [Threads -> Seq(E)] /\ todo'[t] = Tail(todo[t])
      /\ \A u \in Threads \ {t} : todo'[u] = todo[u]
  BY <1>5, <1>7
<1>9. /\ loaded' \in [Threads -> Nat \cup {Unloaded}] /\ loaded'[t] = Unloaded
      /\ \A u \in Threads \ {t} : loaded'[u] = loaded[u]
  BY <1>5
<1>10. UNCHANGED <<shape, samplers, given, snapshot, snapshots, settled, Words>>
  BY DEF Store, Words, RedundantWord
<1>11. HTypes'
  BY <1>6, <1>8, <1>9, <1>10 DEF HTypes, E
<1>12. ASSUME NEW u \in Threads
       PROVE  /\ \E c : Due(todo'[u], shape.bucket_count, c)
              /\ loaded'[u] # Unloaded => todo'[u] # << >>
  <2>1. CASE u = t
    <3>1. Due(todo'[t], shape.bucket_count, b)
      BY <1>1, <1>2, <1>8, DueTail
    <3>2. QED
      BY <1>9, <2>1, <3>1
  <2>2. CASE u # t
    BY <1>8, <1>9, <2>2 DEF Calls
  <2>3. QED
    BY <2>1, <2>2
<1>13. Calls'
  BY <1>10, <1>12 DEF Calls
<1>14. Stores(t, w)
  BY <1>2, <1>3, <1>4, <1>6, <1>8, <1>9, <1>10 DEF Stores, w
<1>15. QED
  BY <1>11, <1>13, <1>14

\* A snapshot that begins has no words.
LEMMA TypesSnapshot ==
  ASSUME HistogramAssumptions, HTypes, Calls, Snapshot
  PROVE  HTypes' /\ Calls' /\ DOMAIN snapshot' = {}
<1>1. snapshot' \in [0 .. 0 - 1 -> Nat] /\ DOMAIN snapshot' = {}
  <2>1. 0 .. 0 - 1 = {} /\ snapshot' = << >>
    BY DEF Snapshot
  <2>2. DOMAIN << >> = {}
    OBVIOUS
  <2>3. QED
    BY <2>1, <2>2
<1>2. 0 \in 0 .. shape.bucket_count + 2 /\ snapshots' \in Nat
  <2>1. snapshots' = snapshots + 1 /\ snapshots \in Nat
    BY DEF Snapshot, HTypes
  <2>2. shape.bucket_count \in Nat
    BY ShapeFacts
  <2>3. QED
    BY <2>1, <2>2
<1>3. UNCHANGED <<shape, samplers, sample_, todo, loaded, given, Words>>
  BY DEF Snapshot, Words, RedundantWord
<1>4. HTypes'
  BY <1>1, <1>2, <1>3 DEF HTypes
<1>5. Calls'
  BY <1>3 DEF Calls
<1>6. QED
  BY <1>1, <1>4, <1>5

\* The words of a snapshot are the first ones.
LEMMA SnapshotSize ==
  ASSUME HistogramAssumptions, HTypes
  PROVE  /\ NextWord \in 0 .. shape.bucket_count + 2
         /\ snapshot \in [0 .. NextWord - 1 -> Nat]
         /\ NextWord = Cardinality(DOMAIN snapshot)
<1>1. PICK c \in 0 .. shape.bucket_count + 2 : snapshot \in [0 .. c - 1 -> Nat]
  BY DEF HTypes
<1>2. c \in Nat
  BY <1>1, ShapeFacts
<1>3. Cardinality(0 .. c - 1) = IF 0 > c - 1 THEN 0 ELSE (c - 1) - 0 + 1
  BY <1>2, FS_Interval
<1>4. NextWord = c
  BY <1>1, <1>2, <1>3 DEF NextWord
<1>5. QED
  BY <1>1, <1>4 DEF NextWord

\* A copy of the next word keeps the types and the words copied.
Copies(w) ==
  /\ w \in Words /\ snapshot'[w] = sample_[w] /\ sample_[w] \in Nat
  /\ DOMAIN snapshot = 0 .. w - 1 /\ DOMAIN snapshot' = 0 .. w
  /\ \A x \in 0 .. w - 1 : snapshot'[x] = snapshot[x]
  /\ UNCHANGED <<shape, samplers, sample_, todo, loaded, given, snapshots, settled, Words>>

\* It does.
LEMMA TypesCopy ==
  ASSUME HistogramAssumptions, HTypes, Calls, Copy
  PROVE  HTypes' /\ Calls' /\ \E w : Copies(w)
<1> DEFINE c == NextWord
           count == shape.bucket_count
<1>1. /\ c \in 0 .. count + 2 /\ snapshot \in [0 .. c - 1 -> Nat]
      /\ c = Cardinality(DOMAIN snapshot)
  BY SnapshotSize
<1>2. /\ snapshot' = [w \in DOMAIN snapshot \cup {c} |->
                        IF w \in DOMAIN snapshot THEN snapshot[w] ELSE sample_[w]]
      /\ ~(c > RedundantWord)
  BY <1>1 DEF Copy, Copied
<1> HIDE DEF c, count
<1>3. count \in Nat /\ Words = 0 .. count + 1 /\ RedundantWord = count + 1
  BY ShapeFacts DEF count
<1>4. c \in Words /\ c \in Nat /\ sample_[c] \in Nat
  <2>1. c \in Words /\ c \in Nat
    BY <1>1, <1>2, <1>3
  <2>2. QED
    BY <2>1 DEF HTypes
<1>5. (0 .. c - 1) \cup {c} = 0 .. c /\ c \notin 0 .. c - 1
  BY <1>4
<1>6. DOMAIN snapshot = 0 .. c - 1
  BY <1>1
<1>7. /\ DOMAIN snapshot' = 0 .. c /\ snapshot'[c] = sample_[c]
      /\ \A x \in 0 .. c - 1 : snapshot'[x] = snapshot[x]
      /\ snapshot' \in [0 .. c -> Nat]
  BY <1>1, <1>2, <1>4, <1>5, <1>6
<1>8. UNCHANGED <<shape, samplers, sample_, todo, loaded, given, snapshots, settled, Words>>
  BY DEF Copy, Words, RedundantWord
<1>9. HTypes'
  <2>1. c + 1 \in 0 .. count + 2 /\ (c + 1) - 1 = c
    BY <1>1, <1>3, <1>4
  <2>2. \E k \in 0 .. shape.bucket_count + 2 : snapshot' \in [0 .. k - 1 -> Nat]
    BY <1>7, <2>1 DEF count
  <2>3. QED
    BY <1>8, <2>2 DEF HTypes
<1>10. Calls'
  BY <1>8 DEF Calls
<1>11. Copies(c)
  BY <1>4, <1>6, <1>7, <1>8 DEF Copies
<1>12. QED
  BY <1>9, <1>10, <1>11

-----------------------------------------------------------------------------
\* No bucket counts too many.

\* The numbers it is about.
LEMMA Numbered ==
  ASSUME HistogramAssumptions, HTypes, NEW i \in 0 .. shape.bucket_count - 1
  PROVE  /\ sample_[i] \in Nat /\ Cardinality(Units(todo, i)) \in Nat
         /\ Cardinality(GivenIn(shape, given, i)) \in Nat
<1>1. i \in Words
  BY ShapeFacts
<1>2. sample_[i] \in Nat
  BY <1>1 DEF HTypes
<1>3. Len(given) \in Nat
  BY DEF HTypes
<1>4. QED
  BY <1>2, <1>3, ShapeFacts, UnitsFinite, GivenFinite

\* None does at the start.
LEMMA NoneInit == ASSUME HistogramAssumptions, Init PROVE NoneTooMany
<1> SUFFICES ASSUME NEW i \in 0 .. shape.bucket_count - 1
             PROVE  /\ sample_[i] + Cardinality(Units(todo, i)) <=
                         Cardinality(GivenIn(shape, given, i))
                    /\ \A t \in Threads : loaded[t] = Unloaded
                    /\ i \notin DOMAIN snapshot
  BY DEF NoneTooMany
<1>1. HTypes
  BY TypesInit
<1>2. sample_[i] = 0
  BY <1>1, ShapeFacts DEF Init
<1>3. Units(todo, i) = {}
  <2>1. \A t \in Threads : todo[t] = << >>
    BY DEF Init
  <2>2. Left(<< >>, i) = 0
    <3>1. 1 .. Len(<< >>) = {}
      OBVIOUS
    <3>2. QED
      BY <3>1 DEF Left
  <2>3. QED
    BY <2>1, <2>2 DEF Units
<1>4. Cardinality(Units(todo, i)) = 0
  BY <1>3, FS_EmptySet
<1>5. Cardinality(GivenIn(shape, given, i)) \in Nat
  BY <1>1, Numbered
<1>6. QED
  BY <1>2, <1>4, <1>5 DEF Init

\* A call adds as many to what is given as to what is still to add.
LEMMA NoneBegin ==
  ASSUME HistogramAssumptions, HTypes, Calls, NoneTooMany, NEW t \in Threads, NEW list,
         NEW value \in 0 .. kSampleType_MAX - 1, NEW n \in {1, 2}, Begins(t, list, value, n)
  PROVE  NoneTooMany'
<1> DEFINE b == BucketIndex(shape, value)
<1>1. Begun(list, shape.bucket_count, b, value, n) /\ Due(list, shape.bucket_count, b)
      /\ todo[t] = << >>
  BY DEF Begins, Begun
<1>2. /\ todo'[t] = list
      /\ \A u \in Threads \ {t} : todo'[u] = todo[u]
      /\ UNCHANGED <<shape, sample_, loaded, snapshot>>
  BY DEF Begins, HTypes
<1>3. loaded[t] = Unloaded
  BY <1>1 DEF Calls
<1> SUFFICES ASSUME NEW i \in 0 .. shape.bucket_count - 1
             PROVE  /\ sample_[i] + Cardinality(Units(todo', i)) <=
                         Cardinality(GivenIn(shape, given', i))
                    /\ \A u \in Threads \ {t} : loaded[u] # Unloaded /\ Head(todo[u]).word = i =>
                         loaded[u] + Cardinality(Units(todo', i)) <=
                           Cardinality(GivenIn(shape, given', i))
                    /\ i \in DOMAIN snapshot =>
                         snapshot[i] <= Cardinality(GivenIn(shape, given', i))
  BY <1>2, <1>3 DEF NoneTooMany
<1>4. Left(todo[t], i) = 0
  <2>1. 1 .. Len(<< >>) = {}
    OBVIOUS
  <2>2. QED
    BY <1>1, <2>1 DEF Left
<1>5. Left(list, i) = (IF i = b THEN n ELSE 0) /\ Left(list, i) \in 0 .. 2
  <2>1. i # b => Left(list, i) = 0
    BY <1>1, LeftBounds
  <2>2. i = b => Left(list, i) = n
    BY <1>1 DEF Begun
  <2> HIDE DEF b
  <2>3. QED
    BY <2>1, <2>2
<1>6. Cardinality(Units(todo', i)) + 0 = Cardinality(Units(todo, i)) + Left(list, i)
  <2>1. Left(todo[t], i) \in 0 .. 2 /\ Left(todo'[t], i) \in 0 .. 2 /\ IsFiniteSet(Threads)
    BY <1>2, <1>4, <1>5, ShapeFacts
  <2>2. Cardinality(Units(todo', i)) + Left(todo[t], i) =
          Cardinality(Units(todo, i)) + Left(todo'[t], i)
    BY <1>2, <2>1, UnitsChange
  <2>3. QED
    BY <1>2, <1>4, <2>2
<1>7. Cardinality(GivenIn(shape, given', i)) = Cardinality(GivenIn(shape, given, i)) + Left(list, i)
  BY <1>5 DEF Begins, Extended
<1> DEFINE units == Cardinality(Units(todo, i))
           units2 == Cardinality(Units(todo', i))
           gave == Cardinality(GivenIn(shape, given, i))
           gave2 == Cardinality(GivenIn(shape, given', i))
           left == Left(list, i)
<1>8. /\ sample_[i] \in Nat /\ units \in Nat /\ gave \in Nat /\ left \in Nat /\ units2 \in Nat
  BY <1>5, Numbered, UnitsFinite, ShapeFacts
<1>9. sample_[i] + units <= gave
      /\ (\A u \in Threads : loaded[u] # Unloaded /\ Head(todo[u]).word = i =>
            loaded[u] + units <= gave)
      /\ (i \in DOMAIN snapshot => snapshot[i] <= gave)
  BY DEF NoneTooMany
<1>10. units2 = units + left /\ gave2 = gave + left
  BY <1>6, <1>7, <1>8
<1> HIDE DEF units, units2, gave, gave2, left
<1>11. \A u \in Threads : loaded[u] # Unloaded => loaded[u] \in Nat
  BY DEF HTypes
<1>12. i \in DOMAIN snapshot => snapshot[i] \in Nat
  BY DEF HTypes
<1>13. /\ sample_[i] + units2 <= gave2
       /\ \A u \in Threads \ {t} : loaded[u] # Unloaded /\ Head(todo[u]).word = i =>
            loaded[u] + units2 <= gave2
       /\ i \in DOMAIN snapshot => snapshot[i] <= gave2
  BY <1>8, <1>9, <1>10, <1>11, <1>12
<1>14. QED
  BY <1>13 DEF units2, gave2

\* A load starts from what is counted.
LEMMA NoneLoad ==
  ASSUME HistogramAssumptions, HTypes, Calls, NoneTooMany, NEW t \in Threads, Load(t)
  PROVE  NoneTooMany'
<1>1. /\ loaded'[t] = sample_[Head(todo[t]).word]
      /\ \A u \in Threads \ {t} : loaded'[u] = loaded[u]
  BY TypesLoad
<1>2. UNCHANGED <<shape, sample_, todo, given, snapshot>>
  BY DEF Load
<1>3. QED
  BY <1>1, <1>2 DEF NoneTooMany

\* A store counts what is no longer to add.
LEMMA NoneStore ==
  ASSUME HistogramAssumptions, HTypes, Calls, NoneTooMany, NEW t \in Threads, NEW w, Stores(t, w)
  PROVE  NoneTooMany'
<1>1. UNCHANGED <<shape, given, snapshot>>
  BY DEF Stores
<1>2. PICK b : Due(todo[t], shape.bucket_count, b)
  BY DEF Calls
<1>3. /\ todo[t] # << >> /\ w = Head(todo[t]).word /\ todo'[t] = Tail(todo[t])
      /\ \A u \in Threads \ {t} : todo'[u] = todo[u] /\ loaded'[u] = loaded[u]
      /\ loaded'[t] = Unloaded /\ loaded[t] \in Nat
  BY DEF Stores
<1> SUFFICES ASSUME NEW i \in 0 .. shape.bucket_count - 1
             PROVE  /\ sample_'[i] + Cardinality(Units(todo', i)) <=
                         Cardinality(GivenIn(shape, given, i))
                    /\ \A u \in Threads \ {t} : loaded[u] # Unloaded /\ Head(todo[u]).word = i =>
                         loaded[u] + Cardinality(Units(todo', i)) <=
                           Cardinality(GivenIn(shape, given, i))
                    /\ i \in DOMAIN snapshot =>
                         snapshot[i] <= Cardinality(GivenIn(shape, given, i))
  BY <1>1, <1>3 DEF NoneTooMany
<1> DEFINE units == Cardinality(Units(todo, i))
           units2 == Cardinality(Units(todo', i))
           gave == Cardinality(GivenIn(shape, given, i))
           left == Left(todo[t], i)
           left2 == Left(todo'[t], i)
<1>4. left \in 0 .. 2 /\ left2 = (IF i = w THEN 0 ELSE left)
  <2>1. left \in 0 .. 2
    BY LeftOfCall
  <2>2. i = w => left2 = 0
    BY <1>2, <1>3, DueTail
  <2>3. i # w => left2 = left
    BY <1>2, <1>3, DueTail
  <2> HIDE DEF left, left2
  <2>4. QED
    BY <2>1, <2>2, <2>3
<1>5. left2 \in 0 .. 2
  BY <1>4
<1>6. units2 + left = units + left2
  BY <1>3, <1>4, <1>5, UnitsChange, ShapeFacts
<1>7. sample_[i] \in Nat /\ units \in Nat /\ gave \in Nat /\ units2 \in Nat
  BY Numbered, UnitsFinite, ShapeFacts
<1>8. sample_[i] + units <= gave
      /\ (\A u \in Threads : loaded[u] # Unloaded /\ Head(todo[u]).word = i =>
            loaded[u] + units <= gave)
      /\ (i \in DOMAIN snapshot => snapshot[i] <= gave)
  BY DEF NoneTooMany
<1>9. sample_'[i] = IF i = w THEN loaded[t] + left ELSE sample_[i]
  <2>1. i \in Words
    BY ShapeFacts
  <2>2. QED
    BY <2>1 DEF Stores
<1>10. loaded[t] # Unloaded
  BY <1>3 DEF Unloaded
<1>11. \A u \in Threads : loaded[u] # Unloaded => loaded[u] \in Nat
  BY DEF HTypes
<1>12. i = w => loaded[t] + units <= gave
  BY <1>3, <1>8, <1>10
<1> HIDE DEF units, units2, gave, left, left2
<1>13. sample_'[i] + units2 <= gave
  BY <1>3, <1>4, <1>5, <1>6, <1>7, <1>8, <1>9, <1>12
<1>14. units2 <= units
  BY <1>4, <1>5, <1>6, <1>7
<1>15. ASSUME NEW u \in Threads \ {t}, loaded[u] # Unloaded, Head(todo[u]).word = i
       PROVE  loaded[u] + units2 <= gave
  BY <1>7, <1>8, <1>11, <1>14, <1>15
<1>16. QED
  BY <1>8, <1>13, <1>15 DEF units2, gave

\* A snapshot begins without words, and copies what is counted.
LEMMA NoneSnapshot ==
  ASSUME HistogramAssumptions, HTypes, Calls, NoneTooMany, Snapshot
  PROVE  NoneTooMany'
<1>1. DOMAIN snapshot' = {}
  BY TypesSnapshot
<1>2. UNCHANGED <<shape, sample_, todo, loaded, given>>
  BY DEF Snapshot
<1>3. QED
  BY <1>1, <1>2 DEF NoneTooMany

\* A copy is of what is counted.
LEMMA NoneCopy ==
  ASSUME HistogramAssumptions, HTypes, Calls, NoneTooMany, NEW w, Copies(w)
  PROVE  NoneTooMany'
<1>1. UNCHANGED <<shape, sample_, todo, loaded, given>>
  BY DEF Copies
<1>2. ASSUME NEW i \in 0 .. shape.bucket_count - 1, i \in DOMAIN snapshot'
      PROVE  snapshot'[i] <= Cardinality(GivenIn(shape, given, i))
  <2>1. /\ sample_[i] \in Nat /\ Cardinality(Units(todo, i)) \in Nat
        /\ Cardinality(GivenIn(shape, given, i)) \in Nat
    BY Numbered
  <2>2. CASE i = w
    <3>1. snapshot'[i] = sample_[i]
      BY <2>2 DEF Copies
    <3>2. sample_[i] + Cardinality(Units(todo, i)) <= Cardinality(GivenIn(shape, given, i))
      BY DEF NoneTooMany
    <3>3. QED
      BY <2>1, <3>1, <3>2
  <2>3. CASE i # w
    <3>1. w \in Nat
      BY ShapeFacts DEF Copies
    <3>2. i \in 0 .. w - 1
      BY <1>2, <2>3, <3>1 DEF Copies
    <3>3. snapshot'[i] = snapshot[i] /\ i \in DOMAIN snapshot
      BY <3>2 DEF Copies
    <3>4. QED
      BY <3>3 DEF NoneTooMany
  <2>4. QED
    BY <2>2, <2>3
<1>3. QED
  BY <1>1, <1>2 DEF NoneTooMany

-----------------------------------------------------------------------------
\* One sampler loses no sample.

\* The counts have a total.
LEMMA CountsTotal ==
  ASSUME HistogramAssumptions, HTypes
  PROVE  /\ Numbers(FirstOf(sample_, shape.bucket_count), shape.bucket_count)
         /\ Total(FirstOf(sample_, shape.bucket_count)) \in Int
         /\ Len(given) \in Nat /\ Total(Given(given)) \in Int
<1>1. Numbers(FirstOf(sample_, shape.bucket_count), shape.bucket_count)
  <2>1. shape.bucket_count \in Nat /\ Words = 0 .. shape.bucket_count + 1
    BY ShapeFacts
  <2>2. sample_ \in [Words -> Nat]
    BY DEF HTypes
  <2>3. \A i \in 0 .. shape.bucket_count - 1 : sample_[i] \in Int
    BY <2>1, <2>2
  <2>4. QED
    BY <2>1, <2>3 DEF Numbers, FirstOf
<1>2. Len(given) \in Nat /\ Numbers(Given(given), Len(given))
  <2> DEFINE V == 0 .. kSampleType_MAX - 1
  <2>1. given \in Seq(V) /\ V \subseteq Int
    BY DEF HTypes
  <2> HIDE DEF V
  <2>2. Len(given) \in Nat /\ \A k \in 1 .. Len(given) : given[k] \in V
    BY <2>1
  <2>3. \A k \in 0 .. Len(given) - 1 : given[k + 1] \in Int
    <3> SUFFICES ASSUME NEW k \in 0 .. Len(given) - 1 PROVE given[k + 1] \in Int
      OBVIOUS
    <3>1. k + 1 \in 1 .. Len(given)
      BY <2>2
    <3>2. QED
      BY <2>1, <2>2, <3>1
  <2>4. QED
    BY <2>2, <2>3 DEF Numbers, Given
<1>3. QED
  BY <1>1, <1>2, TotalIsInt

\* At the start nothing is given and nothing counted.
LEMMA AllInit ==
  ASSUME HistogramAssumptions, Init, NEW t \in Threads
  PROVE  AllCounted(t)
<1> DEFINE n == shape.bucket_count
<1>1. HTypes /\ n \in Nat \ {0} /\ SumWord = n /\ RedundantWord = n + 1 /\ Words = 0 .. n + 1
  BY TypesInit, ShapeFacts
<1>2. todo[t] = << >> /\ loaded[t] = Unloaded /\ given = << >>
  BY DEF Init
<1>3. \A w : Left(todo[t], w) = 0
  <2>1. 1 .. Len(<< >>) = {}
    OBVIOUS
  <2>2. QED
    BY <1>2, <2>1 DEF Left
<1>4. \A w \in 0 .. n + 1 : sample_[w] = 0
  BY <1>1 DEF Init
<1>5. Len(given) = 0
  BY <1>2
<1>6. \A i : Cardinality(GivenIn(shape, given, i)) = 0
  BY <1>2, <1>5, GivenFinite
<1>7. Total(Given(given)) = 0
  <2>1. Numbers(Given(given), 0)
    BY <1>5 DEF Numbers, Given
  <2>2. 0 .. 0 - 1 = {}
    OBVIOUS
  <2>3. QED
    BY <2>1, <2>2, TotalOfNone
<1>8. Total(FirstOf(sample_, n)) = 0
  <2>1. Numbers(FirstOf(sample_, n), n)
    BY <1>1, CountsTotal
  <2>2. \A k \in 0 .. n - 1 : FirstOf(sample_, n)[k] = 0
    BY <1>1, <1>4 DEF FirstOf
  <2>3. QED
    BY <2>1, <2>2, TotalOfNone
<1>9. PICK b : Due(todo[t], n, b)
  BY TypesInit DEF Calls
<1> HIDE DEF n
<1>10. /\ \A i \in 0 .. n - 1 : sample_[i] + Left(todo[t], i) = Cardinality(GivenIn(shape, given, i))
       /\ sample_[n] + Left(todo[t], n) = Total(Given(given))
       /\ sample_[n + 1] + Left(todo[t], n + 1) = Len(given)
       /\ Total(FirstOf(sample_, n)) + Left(todo[t], b) = Len(given)
  BY <1>1, <1>3, <1>4, <1>5, <1>6, <1>7, <1>8
<1>11. QED
  BY <1>1, <1>2, <1>9, <1>10 DEF AllCounted, n

\* What a call is given it has to add.
LEMMA AllBegin ==
  ASSUME HistogramAssumptions, HTypes, Calls, NEW t \in Threads, AllCounted(t), NEW list,
         NEW value \in 0 .. kSampleType_MAX - 1, NEW n \in {1, 2}, Begins(t, list, value, n)
  PROVE  AllCounted(t)'
<1> DEFINE b == BucketIndex(shape, value)
           count == shape.bucket_count
<1>1. /\ Due(list, count, b) /\ Left(list, b) = n /\ Left(list, count) = n * value
      /\ Left(list, count + 1) = n /\ todo[t] = << >>
  BY DEF Begins, Begun
<1>2. /\ todo'[t] = list
      /\ UNCHANGED <<shape, sample_, loaded, SumWord, RedundantWord>>
  BY DEF Begins, HTypes, SumWord, RedundantWord
<1>3. \A w : Left(todo[t], w) = 0
  <2>1. 1 .. Len(<< >>) = {}
    OBVIOUS
  <2>2. QED
    BY <1>1, <2>1 DEF Left
<1>4. SumWord = count /\ RedundantWord = count + 1 /\ Words = 0 .. count + 1 /\ count \in Nat \ {0}
  BY ShapeFacts
<1>5. /\ Len(given') = Len(given) + n
      /\ Total(Given(given')) = Total(Given(given)) + n * value
      /\ \A i : Cardinality(GivenIn(shape, given', i)) =
                  Cardinality(GivenIn(shape, given, i)) + (IF i = b THEN n ELSE 0)
  BY DEF Begins, Extended
<1>6. /\ Len(given) \in Nat /\ Total(Given(given)) \in Int /\ Total(FirstOf(sample_, count)) \in Int
      /\ \A w \in 0 .. count + 1 : sample_[w] \in Nat
  BY <1>4, CountsTotal DEF HTypes
<1>7. \A i \in 0 .. count - 1 : i # b => Left(list, i) = 0
  BY <1>1, LeftBounds
<1>8. /\ \A i \in 0 .. count - 1 : sample_[i] + 0 = Cardinality(GivenIn(shape, given, i))
      /\ sample_[count] + 0 = Total(Given(given))
      /\ sample_[count + 1] + 0 = Len(given)
      /\ Total(FirstOf(sample_, count)) + 0 = Len(given)
  BY <1>3, <1>4 DEF AllCounted
<1>9. loaded'[t] = Unloaded
  BY <1>1, <1>2 DEF Calls
<1> HIDE DEF b, count
<1>10. ASSUME NEW i \in 0 .. count - 1
       PROVE  sample_[i] + Left(list, i) = Cardinality(GivenIn(shape, given', i))
  <2>1. sample_[i] \in Nat /\ sample_[i] = Cardinality(GivenIn(shape, given, i))
    BY <1>4, <1>6, <1>8
  <2>2. Left(list, i) = IF i = b THEN n ELSE 0
    BY <1>1, <1>7
  <2>3. QED
    BY <1>5, <2>1, <2>2
<1>11. n * value \in Int /\ n \in Int
  OBVIOUS
<1>12. sample_[count] + Left(list, count) = Total(Given(given'))
  BY <1>1, <1>4, <1>5, <1>6, <1>8, <1>11
<1>13. /\ sample_[count + 1] + Left(list, count + 1) = Len(given')
       /\ Total(FirstOf(sample_, count)) + Left(list, b) = Len(given')
  BY <1>1, <1>4, <1>5, <1>6, <1>8
<1>14. QED
  BY <1>1, <1>2, <1>4, <1>9, <1>10, <1>12, <1>13 DEF AllCounted, count

\* A store moves what is left to where it is counted.
LEMMA AllStore ==
  ASSUME HistogramAssumptions, HTypes, HTypes', Calls, NEW t \in Threads, AllCounted(t),
         NEW w, Stores(t, w)
  PROVE  /\ AllCounted(t)'
         /\ \A x \in Words : sample_[x] <= sample_'[x]
<1> DEFINE n == shape.bucket_count
           rest == Tail(todo[t])
           d == Left(todo[t], w)
<1>1. /\ w \in Words /\ w = Head(todo[t]).word /\ todo[t] # << >>
      /\ loaded[t] \in Nat /\ d \in Nat
      /\ sample_'[w] = loaded[t] + d
      /\ \A x \in Words \ {w} : sample_'[x] = sample_[x]
      /\ todo'[t] = rest /\ loaded'[t] = Unloaded
      /\ UNCHANGED <<shape, given, SumWord, RedundantWord>>
  BY DEF Stores, SumWord, RedundantWord
<1>2. n \in Nat \ {0} /\ Words = 0 .. n + 1 /\ SumWord = n /\ RedundantWord = n + 1
  BY ShapeFacts
<1>3. PICK b : Due(todo[t], n, b) /\ Total(FirstOf(sample_, n)) + Left(todo[t], b) = Len(given)
  BY DEF AllCounted
<1>4. Due(rest, n, b) /\ Left(rest, w) = 0 /\ \A x : x # w => Left(rest, x) = Left(todo[t], x)
  BY <1>1, <1>3, DueTail
<1>5. \A x : Left(todo[t], x) \in Nat
  BY <1>3, LeftBounds
<1>6. b \in 0 .. n - 1 /\ (w \in 0 .. n - 1 /\ w # b => d = 0)
  <2>1. b \in 0 .. n - 1
    BY <1>3 DEF Due
  <2>2. w \in 0 .. n - 1 /\ w # b => Left(todo[t], w) = 0
    BY <1>3, LeftBounds
  <2>3. QED
    BY <2>1, <2>2
<1>7. \A x \in Words : sample_[x] \in Nat
  BY DEF HTypes
<1>8. loaded[t] = sample_[w]
  <2>1. loaded[t] # Unloaded
    BY <1>1 DEF Unloaded
  <2>2. QED
    BY <1>1, <2>1 DEF AllCounted
<1> HIDE DEF d, rest, n
<1>9. \A x \in Words : sample_'[x] + Left(rest, x) = sample_[x] + Left(todo[t], x)
  <2> SUFFICES ASSUME NEW x \in Words
               PROVE  sample_'[x] + Left(rest, x) = sample_[x] + Left(todo[t], x)
    OBVIOUS
  <2>1. CASE x = w
    <3>1. Left(rest, x) = 0 /\ Left(todo[t], x) = d /\ sample_'[x] = sample_[x] + d
      BY <1>1, <1>4, <1>8, <2>1 DEF d
    <3>2. QED
      BY <1>1, <1>7, <3>1
  <2>2. CASE x # w
    BY <1>1, <1>4, <2>2
  <2>3. QED
    BY <2>1, <2>2
<1>10. \A x \in Words : sample_[x] <= sample_'[x]
  BY <1>1, <1>7, <1>8
<1>11. Total(FirstOf(sample_', n)) + Left(rest, b) = Total(FirstOf(sample_, n)) + Left(todo[t], b)
  <2>1. Numbers(FirstOf(sample_, n), n) /\ Total(FirstOf(sample_, n)) \in Int
    BY CountsTotal DEF n
  <2>2. \A x \in Words : sample_'[x] \in Nat
    BY <1>1, <1>7
  <2>3. Numbers(FirstOf(sample_', n), n)
    BY <1>2, <2>2 DEF Numbers, FirstOf
  <2>4. CASE w = b
    <3>1. FirstOf(sample_', n)[b] = FirstOf(sample_, n)[b] + d
      BY <1>1, <1>6, <1>8, <2>4 DEF FirstOf
    <3>2. \A k \in 0 .. n - 1 : k # b => FirstOf(sample_', n)[k] = FirstOf(sample_, n)[k]
      BY <1>1, <1>2, <2>4 DEF FirstOf
    <3>3. d \in Int
      BY <1>1
    <3>4. Total(FirstOf(sample_', n)) = Total(FirstOf(sample_, n)) + d
      BY <1>6, <2>1, <2>3, <3>1, <3>2, <3>3, TotalOfOneMore
    <3>5. Left(rest, b) = 0 /\ Left(todo[t], b) = d
      BY <1>4, <2>4 DEF d
    <3>6. QED
      BY <2>1, <3>3, <3>4, <3>5
  <2>5. CASE w # b
    <3>1. \A k \in 0 .. n - 1 : sample_'[k] = sample_[k]
      <4>1. ASSUME NEW k \in 0 .. n - 1 PROVE sample_'[k] = sample_[k]
        <5>1. k \in Words
          BY <1>2
        <5>2. CASE k = w
          <6>1. d = 0
            BY <1>6, <2>5, <5>2
          <6>2. QED
            BY <1>1, <1>7, <1>8, <5>1, <5>2, <6>1
        <5>3. CASE k # w
          BY <1>1, <5>1, <5>3
        <5>4. QED
          BY <5>2, <5>3
      <4>2. QED
        BY <4>1
    <3>2. FirstOf(sample_', n) = FirstOf(sample_, n)
      BY <3>1 DEF FirstOf
    <3>3. Left(rest, b) = Left(todo[t], b)
      BY <1>4, <2>5
    <3>4. QED
      BY <3>2, <3>3
  <2>6. QED
    BY <2>4, <2>5
<1>12. /\ \A i \in 0 .. n - 1 :
            sample_'[i] + Left(rest, i) = Cardinality(GivenIn(shape, given, i))
       /\ sample_'[n] + Left(rest, n) = Total(Given(given))
       /\ sample_'[n + 1] + Left(rest, n + 1) = Len(given)
  <2>1. /\ \A i \in 0 .. n - 1 :
             sample_[i] + Left(todo[t], i) = Cardinality(GivenIn(shape, given, i))
        /\ sample_[n] + Left(todo[t], n) = Total(Given(given))
        /\ sample_[n + 1] + Left(todo[t], n + 1) = Len(given)
    BY <1>2 DEF AllCounted, n
  <2>2. n \in Words /\ n + 1 \in Words /\ \A i \in 0 .. n - 1 : i \in Words
    BY <1>2
  <2>3. QED
    BY <1>9, <2>1, <2>2
<1>13. UNCHANGED n
  BY <1>1 DEF n
<1>14. \E c : /\ Due(rest, n, c)
              /\ Total(FirstOf(sample_', n)) + Left(rest, c) = Len(given)
  BY <1>3, <1>4, <1>11
<1>15. AllCounted(t)'
  BY <1>1, <1>2, <1>12, <1>13, <1>14 DEF AllCounted, n
<1>16. QED
  BY <1>10, <1>15

-----------------------------------------------------------------------------
\* A snapshot beside one sampler.

\* It has not begun.
LEMMA BarelyInit ==
  ASSUME HistogramAssumptions, Init
  PROVE  BarelyOvertaken
<1> DEFINE n == shape.bucket_count
<1>1. HTypes /\ n \in Nat \ {0} /\ Words = 0 .. n + 1
  BY TypesInit, ShapeFacts
<1>2. DOMAIN snapshot = {} /\ settled = 0
  BY DEF Init
<1>3. Mixed(snapshot, sample_, n) = FirstOf(sample_, n)
  BY <1>2 DEF Mixed, FirstOf
<1>4. Total(FirstOf(sample_, n)) = 0
  <2>1. Numbers(FirstOf(sample_, n), n)
    BY <1>1, CountsTotal
  <2>2. \A k \in 0 .. n - 1 : k \in Words /\ sample_[k] = 0
    BY <1>1 DEF Init
  <2>3. \A k \in 0 .. n - 1 : FirstOf(sample_, n)[k] = 0
    BY <2>2 DEF FirstOf
  <2>4. QED
    BY <2>1, <2>3, TotalOfNone
<1>5. QED
  BY <1>2, <1>3, <1>4 DEF BarelyOvertaken

\* What is mixed has a total.
LEMMA MixedNumbers ==
  ASSUME NEW n \in Nat, NEW copied, NEW words,
         \A i \in 0 .. n - 1 : words[i] \in Nat,
         \A i \in DOMAIN copied : copied[i] \in Nat
  PROVE  Numbers(Mixed(copied, words, n), n)
  BY DEF Numbers, Mixed

\* Stores only raise it.
LEMMA BarelyStore ==
  ASSUME HistogramAssumptions, HTypes, HTypes', BarelyOvertaken, NEW t \in Threads, NEW w,
         Stores(t, w), \A x \in Words : sample_[x] <= sample_'[x]
  PROVE  BarelyOvertaken'
<1> DEFINE n == shape.bucket_count
<1>1. UNCHANGED <<shape, snapshot, settled, Words, RedundantWord>>
  BY DEF Stores, RedundantWord
<1>2. n \in Nat \ {0} /\ Words = 0 .. n + 1
  BY ShapeFacts
<1>3. \A x \in Words : sample_[x] \in Nat /\ sample_'[x] \in Nat
  BY <1>1 DEF HTypes
<1>4. \A x \in DOMAIN snapshot : x \in Words /\ snapshot[x] <= sample_[x] /\ snapshot[x] \in Nat
  BY DEF BarelyOvertaken, HTypes
<1>5. \A x \in DOMAIN snapshot : snapshot[x] <= sample_'[x]
  BY <1>3, <1>4
<1>6. settled \in Int /\ settled <= Total(Mixed(snapshot, sample_, n))
  BY DEF BarelyOvertaken
<1> HIDE DEF n
<1>7. \A i \in 0 .. n - 1 : i \in Words
  BY <1>2
<1>8. Numbers(Mixed(snapshot, sample_, n), n) /\ Numbers(Mixed(snapshot, sample_', n), n)
  BY <1>2, <1>3, <1>4, <1>7, MixedNumbers
<1>9. \A k \in 0 .. n - 1 : Mixed(snapshot, sample_, n)[k] <= Mixed(snapshot, sample_', n)[k]
  BY <1>3, <1>4, <1>7 DEF Mixed
<1>10. /\ Total(Mixed(snapshot, sample_, n)) \in Int /\ Total(Mixed(snapshot, sample_', n)) \in Int
       /\ Total(Mixed(snapshot, sample_, n)) <= Total(Mixed(snapshot, sample_', n))
  BY <1>8, <1>9, TotalGrows
<1>11. settled <= Total(Mixed(snapshot, sample_', n))
  BY <1>6, <1>10
<1>12. QED
  BY <1>1, <1>4, <1>5, <1>6, <1>11 DEF BarelyOvertaken, n

\* When it begins, what is not settled is of calls under way.
LEMMA BarelySnapshot ==
  ASSUME HistogramAssumptions, HTypes, Calls, NEW t \in Threads, samplers = {t}, AllCounted(t),
         Snapshot
  PROVE  BarelyOvertaken'
<1> DEFINE n == shape.bucket_count
           total == Total(FirstOf(sample_, n))
<1>1. DOMAIN snapshot' = {}
  BY TypesSnapshot
<1>2. UNCHANGED <<shape, sample_, Words, RedundantWord>>
  BY DEF Snapshot, Words, RedundantWord
<1>3. settled' = Len(given) - 2 * Pending
  BY DEF Snapshot
<1>4. total \in Int /\ Len(given) \in Nat
  BY CountsTotal
<1>5. PICK b : Due(todo[t], n, b) /\ total + Left(todo[t], b) = Len(given)
  BY DEF AllCounted
<1>6. /\ Left(todo[t], b) \in Nat /\ Left(todo[t], b) <= 2
      /\ todo[t] = << >> => Left(todo[t], b) = 0
  <2>1. b \in 0 .. n - 1
    BY <1>5 DEF Due
  <2>2. QED
    BY <1>5, <2>1, LeftBounds
<1> HIDE DEF total, n
<1>7. Pending = IF todo[t] = << >> THEN 0 ELSE 1
  <2>1. CASE todo[t] = << >>
    <3>1. {u \in samplers : todo[u] # << >>} = {}
      BY <2>1
    <3>2. QED
      BY <2>1, <3>1, FS_EmptySet DEF Pending
  <2>2. CASE todo[t] # << >>
    <3>1. {u \in samplers : todo[u] # << >>} = {t}
      BY <2>2
    <3>2. QED
      BY <2>2, <3>1, FS_Singleton DEF Pending
  <2>3. QED
    BY <2>1, <2>2
<1>8. settled' \in Int /\ settled' <= total
  <2>1. Pending \in Nat /\ (Pending = 0 => todo[t] = << >>) /\ (Pending = 0 \/ Pending = 1)
    BY <1>7
  <2>2. Left(todo[t], b) <= 2 * Pending
    BY <1>6, <2>1
  <2>3. QED
    BY <1>3, <1>4, <1>5, <1>6, <2>1, <2>2
<1>9. Mixed(snapshot', sample_, n) = FirstOf(sample_, n)
  BY <1>1 DEF Mixed, FirstOf
<1>10. QED
  BY <1>1, <1>2, <1>8, <1>9 DEF BarelyOvertaken, n, total

\* A copied word counts as it did; at the last, all the others are copied.
LEMMA BarelyCopy ==
  ASSUME HistogramAssumptions, HTypes, HTypes', NEW t \in Threads, AllCounted(t), BarelyOvertaken,
         NEW w, Copies(w)
  PROVE  BarelyOvertaken'
<1> DEFINE n == shape.bucket_count
           total == Total(FirstOf(sample_, n))
<1>1. n \in Nat \ {0} /\ Words = 0 .. n + 1 /\ RedundantWord = n + 1
  BY ShapeFacts
<1>2. /\ w \in Words /\ snapshot'[w] = sample_[w] /\ sample_[w] \in Nat
      /\ DOMAIN snapshot = 0 .. w - 1 /\ DOMAIN snapshot' = 0 .. w
      /\ \A x \in 0 .. w - 1 : snapshot'[x] = snapshot[x]
      /\ UNCHANGED <<shape, sample_, settled, Words, RedundantWord>>
  BY DEF Copies, RedundantWord
<1>3. \A x \in 0 .. w - 1 : x \in Words /\ snapshot[x] <= sample_[x]
  BY <1>2 DEF BarelyOvertaken
<1>4. settled \in Int /\ settled <= Total(Mixed(snapshot, sample_, n))
  BY DEF BarelyOvertaken
<1>5. PICK b : Due(todo[t], n, b) /\ total + Left(todo[t], b) = Len(given)
  BY DEF AllCounted
<1>6. sample_[n + 1] + Left(todo[t], n + 1) = Len(given)
  BY <1>1 DEF AllCounted
<1>7. /\ Left(todo[t], n + 1) \in Nat /\ Left(todo[t], b) \in Nat
      /\ Left(todo[t], n + 1) <= Left(todo[t], b) + 1
  BY <1>5, LeftBounds
<1>8. Numbers(FirstOf(sample_, n), n) /\ total \in Int /\ Len(given) \in Nat
  BY CountsTotal
<1>9. \A x \in DOMAIN snapshot' : snapshot'[x] \in Nat
  BY DEF HTypes
<1>10. \A x \in Words : sample_[x] \in Nat
  BY DEF HTypes
<1> HIDE DEF n, total
<1>11. \A x \in 0 .. w : x = w \/ x \in 0 .. w - 1
  BY <1>1, <1>2
<1>12. \A x \in DOMAIN snapshot' : x \in Words /\ snapshot'[x] <= sample_[x]
  <2>1. ASSUME NEW x \in 0 .. w PROVE x \in Words /\ snapshot'[x] <= sample_[x]
    <3>1. CASE x = w
      BY <1>2, <3>1
    <3>2. CASE x # w
      BY <1>2, <1>3, <1>11, <3>2
    <3>3. QED
      BY <3>1, <3>2
  <2>2. QED
    BY <1>2, <2>1
<1>13. Mixed(snapshot', sample_, n) = Mixed(snapshot, sample_, n)
  <2>1. ASSUME NEW i \in 0 .. n - 1
        PROVE  (IF i \in DOMAIN snapshot' THEN snapshot'[i] ELSE sample_[i]) =
                 (IF i \in DOMAIN snapshot THEN snapshot[i] ELSE sample_[i])
    <3>1. CASE i = w
      <4>1. w \in 0 .. w /\ w \notin 0 .. w - 1
        BY <1>1, <1>2
      <4>2. QED
        BY <1>2, <3>1, <4>1
    <3>2. CASE i # w
      <4>1. i \in 0 .. w <=> i \in 0 .. w - 1
        BY <1>1, <1>2, <3>2
      <4>2. QED
        BY <1>2, <4>1
    <3>3. QED
      BY <3>1, <3>2
  <2>2. QED
    BY <2>1 DEF Mixed
<1>14. n + 1 \in DOMAIN snapshot' => Total(FirstOf(snapshot', n)) <= snapshot'[n + 1] + 1
  <2> SUFFICES ASSUME n + 1 \in DOMAIN snapshot'
               PROVE  Total(FirstOf(snapshot', n)) <= snapshot'[n + 1] + 1
    OBVIOUS
  <2>1. w = n + 1
    BY <1>1, <1>2
  <2>2. \A i \in 0 .. n - 1 : i \in DOMAIN snapshot'
    BY <1>1, <1>2, <2>1
  <2>3. Numbers(FirstOf(snapshot', n), n)
    BY <1>1, <1>9, <2>2 DEF Numbers, FirstOf
  <2>4. \A i \in 0 .. n - 1 : FirstOf(snapshot', n)[i] <= FirstOf(sample_, n)[i]
    BY <1>12, <2>2 DEF FirstOf
  <2>5. Total(FirstOf(snapshot', n)) \in Int /\ Total(FirstOf(snapshot', n)) <= total
    BY <1>8, <2>3, <2>4, TotalGrows DEF total
  <2>6. snapshot'[n + 1] = sample_[n + 1] /\ sample_[n + 1] \in Nat
    BY <1>2, <2>1
  <2>7. QED
    BY <1>5, <1>6, <1>7, <1>8, <2>5, <2>6
<1>15. QED
  BY <1>1, <1>2, <1>4, <1>12, <1>13, <1>14 DEF BarelyOvertaken, n

-----------------------------------------------------------------------------
\* The invariant holds.

\* Whatever has the variables as they were keeps what is said of them.
LEMMA StutterKeeps ==
  ASSUME HistogramInvariant, UNCHANGED vars PROVE HistogramInvariant'
<1>1. UNCHANGED <<Words, SumWord, RedundantWord>>
  BY DEF vars, Words, SumWord, RedundantWord
<1>2. HTypes' /\ Calls' /\ NoneTooMany'
  BY <1>1 DEF HistogramInvariant, vars, HTypes, Calls, NoneTooMany
<1>3. ASSUME NEW t \in Threads, samplers' = {t} PROVE AllCounted(t)' /\ BarelyOvertaken'
  <2>1. AllCounted(t) /\ BarelyOvertaken
    BY <1>3 DEF HistogramInvariant, vars
  <2>2. QED
    BY <1>1, <2>1 DEF vars, AllCounted, BarelyOvertaken
<1>4. QED
  BY <1>2, <1>3 DEF HistogramInvariant

\* A call's beginning does.
LEMMA BeginKeeps ==
  ASSUME HistogramAssumptions, HistogramInvariant, NEW t \in Threads, t \in samplers,
         NEW value \in Samples, Add(t, value) \/ AddSampleSet(t, value)
  PROVE  HistogramInvariant'
<1>1. HTypes /\ Calls /\ NoneTooMany
  BY DEF HistogramInvariant
<1>2. PICK v \in 0 .. kSampleType_MAX - 1, n \in {1, 2} : \E list : Begins(t, list, v, n)
  BY <1>1, CallsBegin
<1>3. PICK list : Begins(t, list, v, n)
  BY <1>2
<1>4. HTypes' /\ Calls'
  BY <1>1, <1>3, TypesBegin
<1>5. NoneTooMany'
  BY <1>1, <1>3, NoneBegin
<1>6. ASSUME NEW u \in Threads, samplers' = {u} PROVE AllCounted(u)' /\ BarelyOvertaken'
  <2>1. samplers = {u} /\ u = t
    BY <1>3, <1>6 DEF Begins
  <2>2. AllCounted(t) /\ BarelyOvertaken
    BY <2>1 DEF HistogramInvariant
  <2>3. AllCounted(t)'
    BY <1>1, <1>3, <2>2, AllBegin
  <2>4. UNCHANGED <<shape, sample_, snapshot, settled, Words, RedundantWord>>
    BY <1>3 DEF Begins, Words, RedundantWord
  <2>5. BarelyOvertaken'
    BY <2>2, <2>4 DEF BarelyOvertaken
  <2>6. QED
    BY <2>1, <2>3, <2>5
<1>7. QED
  BY <1>4, <1>5, <1>6 DEF HistogramInvariant

\* A load does.
LEMMA LoadKeeps ==
  ASSUME HistogramAssumptions, HistogramInvariant, NEW t \in Threads, Load(t)
  PROVE  HistogramInvariant'
<1>1. HTypes /\ Calls /\ NoneTooMany
  BY DEF HistogramInvariant
<1>2. /\ HTypes' /\ Calls' /\ loaded'[t] = sample_[Head(todo[t]).word]
      /\ \A u \in Threads \ {t} : loaded'[u] = loaded[u]
  BY <1>1, TypesLoad
<1>3. NoneTooMany'
  BY <1>1, NoneLoad
<1>4. UNCHANGED <<shape, samplers, sample_, todo, given, snapshot, settled, Words, SumWord, RedundantWord>>
  BY DEF Load, Words, SumWord, RedundantWord
<1>5. ASSUME NEW u \in Threads, samplers' = {u} PROVE AllCounted(u)' /\ BarelyOvertaken'
  <2>1. AllCounted(u) /\ BarelyOvertaken
    BY <1>4, <1>5 DEF HistogramInvariant
  <2>2. loaded'[u] # Unloaded => loaded'[u] = sample_[Head(todo[u]).word]
    BY <1>2, <2>1 DEF AllCounted
  <2>3. QED
    BY <1>4, <2>1, <2>2 DEF AllCounted, BarelyOvertaken
<1>6. QED
  BY <1>2, <1>3, <1>5 DEF HistogramInvariant

\* A store does.
LEMMA StoreKeeps ==
  ASSUME HistogramAssumptions, HistogramInvariant, NEW t \in Threads, t \in samplers, Store(t)
  PROVE  HistogramInvariant'
<1>1. HTypes /\ Calls /\ NoneTooMany
  BY DEF HistogramInvariant
<1>2. HTypes' /\ Calls' /\ \E w : Stores(t, w)
  BY <1>1, TypesStore
<1>3. PICK w : Stores(t, w)
  BY <1>2
<1>4. NoneTooMany'
  BY <1>1, <1>3, NoneStore
<1>5. ASSUME NEW u \in Threads, samplers' = {u} PROVE AllCounted(u)' /\ BarelyOvertaken'
  <2>1. samplers = {u} /\ u = t
    BY <1>3, <1>5 DEF Stores
  <2>2. AllCounted(t) /\ BarelyOvertaken
    BY <2>1 DEF HistogramInvariant
  <2>3. AllCounted(t)' /\ \A x \in Words : sample_[x] <= sample_'[x]
    BY <1>1, <1>2, <1>3, <2>2, AllStore
  <2>4. BarelyOvertaken'
    BY <1>1, <1>2, <1>3, <2>2, <2>3, BarelyStore
  <2>5. QED
    BY <2>1, <2>3, <2>4
<1>6. QED
  BY <1>2, <1>4, <1>5 DEF HistogramInvariant

\* The beginning of a snapshot does.
LEMMA SnapshotKeeps ==
  ASSUME HistogramAssumptions, HistogramInvariant, Snapshot
  PROVE  HistogramInvariant'
<1>1. HTypes /\ Calls /\ NoneTooMany
  BY DEF HistogramInvariant
<1>2. HTypes' /\ Calls'
  BY <1>1, TypesSnapshot
<1>3. NoneTooMany'
  BY <1>1, NoneSnapshot
<1>4. UNCHANGED <<shape, samplers, sample_, todo, loaded, given, SumWord, RedundantWord>>
  BY DEF Snapshot, SumWord, RedundantWord
<1>5. ASSUME NEW u \in Threads, samplers' = {u} PROVE AllCounted(u)' /\ BarelyOvertaken'
  <2>1. AllCounted(u) /\ samplers = {u}
    BY <1>4, <1>5 DEF HistogramInvariant
  <2>2. BarelyOvertaken'
    BY <1>1, <2>1, BarelySnapshot
  <2>3. QED
    BY <1>4, <2>1, <2>2 DEF AllCounted
<1>6. QED
  BY <1>2, <1>3, <1>5 DEF HistogramInvariant

\* A copy does.
LEMMA CopyKeeps ==
  ASSUME HistogramAssumptions, HistogramInvariant, Copy
  PROVE  HistogramInvariant'
<1>1. HTypes /\ Calls /\ NoneTooMany
  BY DEF HistogramInvariant
<1>2. HTypes' /\ Calls' /\ \E w : Copies(w)
  BY <1>1, TypesCopy
<1>3. PICK w : Copies(w)
  BY <1>2
<1>4. NoneTooMany'
  BY <1>1, <1>3, NoneCopy
<1>5. UNCHANGED <<shape, samplers, sample_, todo, loaded, given, SumWord, RedundantWord>>
  BY DEF Copy, SumWord, RedundantWord
<1>6. ASSUME NEW u \in Threads, samplers' = {u} PROVE AllCounted(u)' /\ BarelyOvertaken'
  <2>1. AllCounted(u) /\ BarelyOvertaken
    BY <1>5, <1>6 DEF HistogramInvariant
  <2>2. BarelyOvertaken'
    BY <1>1, <1>2, <1>3, <2>1, BarelyCopy
  <2>3. QED
    BY <1>5, <2>1, <2>2 DEF AllCounted
<1>7. QED
  BY <1>2, <1>4, <1>6 DEF HistogramInvariant

\* The invariant of any histogram, however many threads sample it.
LEMMA InvariantHolds ==
  ASSUME HistogramAssumptions
  PROVE  Spec => []HistogramInvariant
<1>1. ASSUME Init PROVE HistogramInvariant
  BY <1>1, TypesInit, NoneInit, AllInit, BarelyInit DEF HistogramInvariant
<1>2. ASSUME HistogramInvariant, [Next]_vars PROVE HistogramInvariant'
  <2>1. samplers \subseteq Threads
    BY <1>2 DEF HistogramInvariant, HTypes
  <2>2. CASE \E t \in samplers, value \in Samples : Add(t, value) \/ AddSampleSet(t, value)
    BY <1>2, <2>1, <2>2, BeginKeeps
  <2>3. CASE \E t \in samplers : Load(t)
    BY <1>2, <2>1, <2>3, LoadKeeps
  <2>4. CASE \E t \in samplers : Store(t)
    BY <1>2, <2>1, <2>4, StoreKeeps
  <2>5. CASE Snapshot
    BY <1>2, <2>5, SnapshotKeeps
  <2>6. CASE Copy
    BY <1>2, <2>6, CopyKeeps
  <2>7. CASE UNCHANGED vars
    BY <1>2, <2>7, StutterKeeps
  <2>8. QED
    BY <1>2, <2>2, <2>3, <2>4, <2>5, <2>6, <2>7 DEF Next
<1>3. QED
  BY <1>1, <1>2, PTL DEF Spec

-----------------------------------------------------------------------------
\* What it says.

\* Ranges that rise step by step rise.
LEMMA RangesRise ==
  ASSUME NEW s, Rising(s), NEW i \in 0 .. s.bucket_count, NEW j \in 0 .. s.bucket_count, i <= j
  PROVE  s.ranges[i] <= s.ranges[j]
<1> DEFINE n == s.bucket_count
           P == {d \in Nat : i + d <= n => s.ranges[i] <= s.ranges[i + d]}
<1>1. n \in Nat \ {0} /\ s.ranges \in [0 .. n -> Nat]
      /\ \A k \in 1 .. n : s.ranges[k - 1] < s.ranges[k]
  BY DEF Rising
<1>2. \A k \in 0 .. n : s.ranges[k] \in Nat
  BY <1>1
<1>3. 0 \in P
  BY <1>2
<1>4. ASSUME NEW d \in Nat, d \in P PROVE d + 1 \in P
  <2> SUFFICES ASSUME i + (d + 1) <= n PROVE s.ranges[i] <= s.ranges[i + (d + 1)]
    OBVIOUS
  <2>1. i + d \in 0 .. n /\ i + (d + 1) \in 1 .. n /\ (i + (d + 1)) - 1 = i + d
        /\ i + (d + 1) \in 0 .. n
    BY <1>1
  <2>2. s.ranges[i] <= s.ranges[i + d]
    BY <1>4, <2>1
  <2>3. s.ranges[i + d] < s.ranges[i + (d + 1)]
    BY <1>1, <2>1
  <2>4. QED
    BY <1>2, <2>1, <2>2, <2>3
<1>5. j - i \in Nat /\ i + (j - i) = j /\ j <= n
  BY <1>1
<1> HIDE DEF P
<1>6. j - i \in P
  BY <1>3, <1>4, <1>5, AllNumbers
<1>7. QED
  BY <1>5, <1>6 DEF P

\* A sample falls into the bucket whose range it is in and no other.
LEMMA BucketOnly ==
  ASSUME kSampleType_MAX \in Nat, NEW s, Rising(s), NEW value \in 0 .. kSampleType_MAX - 1,
         NEW i \in 0 .. s.bucket_count - 1
  PROVE  BucketIndex(s, value) = i <=> s.ranges[i] <= value /\ value < s.ranges[i + 1]
<1> DEFINE n == s.bucket_count
           b == BucketIndex(s, value)
<1>1. b \in 0 .. n - 1 /\ s.ranges[b] <= value /\ value < s.ranges[b + 1]
  BY BucketFound
<1>2. n \in Nat \ {0} /\ \A k \in 0 .. n : s.ranges[k] \in Nat
  BY DEF Rising
<1> HIDE DEF b
<1>3. ASSUME s.ranges[i] <= value, value < s.ranges[i + 1] PROVE b = i
  <2>1. i \in 0 .. n /\ i + 1 \in 0 .. n /\ b \in 0 .. n /\ b + 1 \in 0 .. n
    BY <1>1, <1>2
  <2>2. CASE b < i
    <3>1. s.ranges[b + 1] <= s.ranges[i]
      BY <1>1, <2>1, <2>2, RangesRise
    <3>2. QED
      BY <1>1, <1>2, <1>3, <2>1, <3>1
  <2>3. CASE i < b
    <3>1. s.ranges[i + 1] <= s.ranges[b]
      BY <1>1, <2>1, <2>3, RangesRise
    <3>2. QED
      BY <1>1, <1>2, <1>3, <2>1, <3>1
  <2>4. QED
    BY <2>1, <2>2, <2>3
<1>4. QED
  BY <1>1, <1>3 DEF b

\* One sampler is a thread that is alone.
LEMMA Alone ==
  ASSUME HistogramAssumptions, HTypes, OneSampler
  PROVE  \E t \in Threads : samplers = {t}
<1>1. samplers \subseteq Threads /\ IsFiniteSet(samplers)
  BY ShapeFacts, FS_Subset DEF HTypes
<1>2. Cardinality(samplers) = 1
  BY DEF OneSampler
<1>3. samplers # {}
  BY <1>2, FS_EmptySet
<1>4. PICK t : t \in samplers
  BY <1>3
<1>5. Cardinality(samplers \ {t}) = 0 /\ IsFiniteSet(samplers \ {t})
  <2>1. IsFiniteSet(samplers \ {t}) /\ Cardinality(samplers \ {t}) = Cardinality(samplers) - 1
    BY <1>1, <1>4, FS_RemoveElement
  <2>2. QED
    BY <1>2, <2>1
<1>6. samplers \ {t} = {}
  BY <1>5, FS_EmptySet
<1>7. samplers = {t}
  BY <1>4, <1>6
<1>8. QED
  BY <1>1, <1>4, <1>7

\* Whatever the shape and the samples: the histogram is valid and its buckets
\* rise; and the samples that a thread alone has added, one by one or as a set,
\* are each in the bucket around it, in the sum and in the redundant count.
THEOREM EverySampleIsCounted ==
  ASSUME HistogramAssumptions
  PROVE  Spec => []EverySampleHasItsBucket
<1>1. ASSUME HistogramInvariant PROVE EverySampleHasItsBucket
  <2> DEFINE n == shape.bucket_count
  <2>1. HTypes /\ Rising(shape) /\ ValidateBucketRanges(shape) /\ SumWord = n
        /\ RedundantWord = n + 1 /\ Words = 0 .. n + 1 /\ n \in Nat \ {0} /\ kSampleType_MAX \in Nat
    BY <1>1, ShapeFacts DEF HistogramInvariant
  <2>2. \A i \in 1 .. n : shape.ranges[i - 1] < shape.ranges[i]
    BY <2>1 DEF Rising
  <2>3. ASSUME OneSampler, Quiet
        PROVE  /\ \A i \in 0 .. n - 1 :
                    sample_[i] = Cardinality({k \in DOMAIN given :
                                   shape.ranges[i] <= given[k] /\ given[k] < shape.ranges[i + 1]})
               /\ sample_[SumWord] = Total(Given(given))
               /\ sample_[RedundantWord] = Len(given)
    <3>1. PICK t \in Threads : samplers = {t}
      BY <2>1, <2>3, Alone
    <3>2. AllCounted(t)
      BY <1>1, <3>1 DEF HistogramInvariant
    <3>3. \A w : Left(todo[t], w) = 0
      <4>1. todo[t] = << >> /\ 1 .. Len(<< >>) = {}
        BY <2>3, <3>1 DEF Quiet
      <4>2. QED
        BY <4>1 DEF Left
    <3>4. \A w \in Words : sample_[w] \in Nat
      BY <2>1 DEF HTypes
    <3>5. /\ \A i \in 0 .. n - 1 : sample_[i] = Cardinality(GivenIn(shape, given, i))
          /\ sample_[SumWord] = Total(Given(given))
          /\ sample_[RedundantWord] = Len(given)
      <4>1. SumWord \in Words /\ RedundantWord \in Words /\ \A i \in 0 .. n - 1 : i \in Words
        BY <2>1
      <4>2. \A w \in Words : sample_[w] + Left(todo[t], w) = sample_[w]
        BY <3>3, <3>4
      <4>3. QED
        BY <3>2, <4>1, <4>2 DEF AllCounted
    <3>6. ASSUME NEW i \in 0 .. n - 1
          PROVE  GivenIn(shape, given, i) =
                   {k \in DOMAIN given : shape.ranges[i] <= given[k] /\ given[k] < shape.ranges[i + 1]}
      <4> DEFINE V == 0 .. kSampleType_MAX - 1
      <4>1. given \in Seq(V)
        BY <2>1 DEF HTypes
      <4> HIDE DEF V
      <4>2. DOMAIN given = 1 .. Len(given) /\ \A k \in 1 .. Len(given) : given[k] \in V
        BY <4>1
      <4>3. \A k \in 1 .. Len(given) : BucketIndex(shape, given[k]) = i <=>
              shape.ranges[i] <= given[k] /\ given[k] < shape.ranges[i + 1]
        BY <2>1, <4>2, BucketOnly DEF V
      <4>4. QED
        BY <4>2, <4>3 DEF GivenIn
    <3>7. QED
      BY <3>5, <3>6
  <2>4. QED
    BY <2>1, <2>2, <2>3 DEF EverySampleHasItsBucket, Given
<1>2. QED
  BY <1>1, InvariantHolds, PTL

\* Whatever the shape, the samples and the threads: no bucket of a complete
\* snapshot counts more samples than it was given; and with one sampler the
\* snapshot is never called low, called high only when more than a sample came
\* while it was taken, and not corrupt at all when none did.
THEOREM SnapshotsAreBarelyOvertaken ==
  ASSUME HistogramAssumptions
  PROVE  Spec => []SnapshotsBarelyRace
<1>1. ASSUME HistogramInvariant PROVE SnapshotsBarelyRace
  <2> DEFINE n == shape.bucket_count
             counts == Counts(snapshot)
             redundant == snapshot[RedundantWord]
             corruption == FindCorruption(shape, counts, redundant)
  <2> SUFFICES ASSUME Copied
               PROVE  /\ \A i \in 0 .. n - 1 : snapshot[i] <=
                           Cardinality({k \in DOMAIN given : BucketIndex(shape, given[k]) = i})
                      /\ OneSampler =>
                           /\ "COUNT_LOW_ERROR" \notin corruption
                           /\ "COUNT_HIGH_ERROR" \in corruption => Len(given) > settled + 1
                           /\ Len(given) = settled => corruption = {}
    BY DEF SnapshotsBarelyRace
  <2>1. HTypes /\ Rising(shape) /\ n \in Nat \ {0} /\ Words = 0 .. n + 1 /\ RedundantWord = n + 1
    BY <1>1, ShapeFacts DEF HistogramInvariant
  <2>2. snapshot \in [0 .. n + 1 -> Nat]
    <3>1. /\ NextWord \in 0 .. n + 2 /\ snapshot \in [0 .. NextWord - 1 -> Nat]
          /\ NextWord > RedundantWord
      BY <1>1, SnapshotSize DEF HistogramInvariant, Copied
    <3> HIDE DEF n
    <3>2. NextWord = n + 2 /\ NextWord - 1 = n + 1
      BY <2>1, <3>1
    <3>3. QED
      BY <3>1, <3>2
  <2>3. \A i \in 0 .. n - 1 : snapshot[i] <= Cardinality(GivenIn(shape, given, i))
    <3>1. \A i \in 0 .. n - 1 : i \in DOMAIN snapshot
      BY <2>1, <2>2
    <3>2. QED
      BY <1>1, <3>1 DEF HistogramInvariant, NoneTooMany
  <2>4. DOMAIN given = 1 .. Len(given)
    BY <2>1 DEF HTypes
  <2>5. ASSUME OneSampler
        PROVE  /\ "COUNT_LOW_ERROR" \notin corruption
               /\ "COUNT_HIGH_ERROR" \in corruption => Len(given) > settled + 1
               /\ Len(given) = settled => corruption = {}
    <3>1. PICK t \in Threads : samplers = {t}
      BY <2>1, <2>5, Alone
    <3>2. AllCounted(t) /\ BarelyOvertaken
      BY <1>1, <3>1 DEF HistogramInvariant
    <3>3. counts = FirstOf(snapshot, n) /\ Mixed(snapshot, sample_, n) = counts
      BY <2>1, <2>2 DEF Counts, FirstOf, Mixed
    <3>4. Total(counts) \in Int
      <4>1. Numbers(FirstOf(snapshot, n), n)
        BY <2>1, <2>2 DEF Numbers, FirstOf
      <4>2. QED
        BY <3>3, <4>1, TotalIsInt
    <3>5. redundant \in Nat /\ n + 1 \in DOMAIN snapshot
      BY <2>1, <2>2
    <3>6. redundant <= Len(given) /\ Len(given) \in Nat
      <4>1. redundant <= sample_[n + 1]
        BY <2>1, <3>2, <3>5 DEF BarelyOvertaken
      <4>2. sample_[n + 1] \in Nat /\ sample_[n + 1] + Left(todo[t], n + 1) = Len(given)
        BY <2>1, <3>2 DEF AllCounted, HTypes
      <4>3. Left(todo[t], n + 1) \in Nat
        BY <3>2, LeftBounds DEF AllCounted
      <4>4. Len(given) \in Nat
        BY <2>1, CountsTotal
      <4> HIDE DEF redundant, n
      <4>5. QED
        BY <3>5, <4>1, <4>2, <4>3, <4>4
    <3>7. settled \in Int /\ settled <= Total(counts) /\ Total(counts) <= redundant + 1
      BY <2>1, <3>2, <3>3, <3>5 DEF BarelyOvertaken
    <3> DEFINE delta == redundant - Total(counts)
    <3>8. ~(-delta > 1) /\ delta \in Int
      BY <3>4, <3>5, <3>7
    <3>9. delta > 1 => Len(given) > settled + 1
      BY <3>4, <3>5, <3>6, <3>7
    <3>10. ~ \E i \in 1 .. n - 1 : shape.ranges[i - 1] >= shape.ranges[i]
      <4>1. \A i \in 1 .. n - 1 : i \in 1 .. n /\ i \in 0 .. n /\ i - 1 \in 0 .. n
        BY <2>1
      <4>2. \A i \in 1 .. n - 1 : shape.ranges[i - 1] < shape.ranges[i]
            /\ shape.ranges[i - 1] \in Nat /\ shape.ranges[i] \in Nat
        BY <2>1, <4>1 DEF Rising
      <4>3. QED
        BY <4>2
    <3>11. corruption = IF delta > 1 THEN {"COUNT_HIGH_ERROR"} ELSE {}
      <4> HIDE DEF counts, redundant
      <4>1. QED
        BY <3>8, <3>10 DEF FindCorruption, kCommonRaceBasedCountMismatch
    <3> HIDE DEF delta, corruption
    <3>12. QED
      BY <3>6, <3>7, <3>9, <3>11
  <2>6. QED
    BY <2>3, <2>4, <2>5 DEF GivenIn
<1>2. QED
  BY <1>1, InvariantHolds, PTL

-----------------------------------------------------------------------------
\* Shapes the factories make.

\* What division by a whole number gives.
LEMMA Quotient ==
  ASSUME NEW a \in Nat, NEW m \in Nat \ {0}
  PROVE  a \div m \in Nat /\ m * (a \div m) <= a /\ a < m * (a \div m) + m
  OBVIOUS

\* There is one such quotient.
LEMMA QuotientIs ==
  ASSUME NEW a \in Nat, NEW m \in Nat \ {0}, NEW q \in Nat, m * q <= a, a < m * q + m
  PROVE  a \div m = q
<1> DEFINE r == a \div m
<1>1. r \in Nat /\ m * r <= a /\ a < m * r + m
  BY Quotient
<1> HIDE DEF r
<1>2. m * (r + 1) = m * r + m /\ m * (q + 1) = m * q + m /\ m * r \in Nat /\ m * q \in Nat
  BY <1>1
<1>3. m * r < m * (q + 1) /\ m * q < m * (r + 1)
  BY <1>1, <1>2
<1>4. ASSUME NEW x \in Nat, NEW y \in Nat, m * x < m * y PROVE x < y
  BY <1>4
<1>5. r < q + 1 /\ q < r + 1
  BY <1>1, <1>3, <1>4
<1>6. QED
  BY <1>1, <1>5 DEF r

\* A divisor more, one in the quotient more.
LEMMA QuotientGrows ==
  ASSUME NEW a \in Nat, NEW c \in Nat, NEW m \in Nat \ {0}, c >= a + m
  PROVE  a \div m < c \div m
<1> DEFINE p == a \div m
           q == c \div m
<1>1. p \in Nat /\ m * p <= a /\ a < m * p + m
  BY Quotient
<1>2. q \in Nat /\ m * q <= c /\ c < m * q + m
  BY Quotient
<1> HIDE DEF p, q
<1>3. m * p \in Nat /\ m * q \in Nat
  BY <1>1, <1>2
<1>4. m * p < m * q
  BY <1>1, <1>2, <1>3
<1>5. ASSUME NEW x \in Nat, NEW y \in Nat, m * x < m * y PROVE x < y
  BY <1>5
<1>6. QED
  BY <1>1, <1>2, <1>4, <1>5 DEF p, q

\* What lies between the ends: starts that rise from the smallest to the
\* largest sample with a bucket of its own.
Starts(ranges, min, max, count) ==
  /\ \A i \in 1 .. count - 1 : ranges[i] \in Nat
  /\ ranges[1] = min /\ ranges[count - 1] = max
  /\ \A i \in 2 .. count - 1 : ranges[i - 1] < ranges[i]

\* A shape of such starts is a rising one.
LEMMA ShapeRises ==
  ASSUME kSampleType_MAX \in Nat, NEW type, NEW min \in Nat, NEW max \in Nat, NEW count \in Nat,
         NEW ranges, NEW described,
         0 < min, max < kSampleType_MAX, count >= 2, Starts(ranges, min, max, count)
  PROVE  /\ Rising(Shape(type, min, max, count, ranges, described))
         /\ ValidateBucketRanges(Shape(type, min, max, count, ranges, described))
<1> DEFINE s == Shape(type, min, max, count, ranges, described)
           all == [i \in 0 .. count |->
                     IF i = 0 THEN 0 ELSE IF i = count THEN kSampleType_MAX ELSE ranges[i]]
<1>1. s.bucket_count = count /\ s.declared_min = min /\ s.declared_max = max /\ s.ranges = all
  BY DEF Shape
<1> HIDE DEF s
<1>2. \A i \in 1 .. count - 1 : i \in 0 .. count /\ i # 0 /\ i # count
  OBVIOUS
<1>3. /\ all[0] = 0 /\ all[count] = kSampleType_MAX
      /\ \A i \in 1 .. count - 1 : all[i] = ranges[i]
  BY <1>2
<1>4. all \in [0 .. count -> Nat]
  <2>1. \A i \in 0 .. count : all[i] \in Nat
    <3> SUFFICES ASSUME NEW i \in 0 .. count PROVE all[i] \in Nat
      OBVIOUS
    <3>1. i = 0 \/ i = count \/ i \in 1 .. count - 1
      OBVIOUS
    <3> HIDE DEF all
    <3>2. QED
      BY <1>3, <3>1 DEF Starts
  <2>2. QED
    BY <2>1
<1> HIDE DEF all
<1>5. 1 \in 1 .. count - 1 /\ count - 1 \in 1 .. count - 1
  OBVIOUS
<1>6. ASSUME NEW i \in 1 .. count PROVE all[i - 1] < all[i]
  <2>1. CASE i = 1
    BY <1>3, <1>5, <2>1 DEF Starts
  <2>2. CASE i = count
    BY <1>3, <1>5, <2>2 DEF Starts
  <2>3. CASE i \in 2 .. count - 1
    <3>1. i \in 1 .. count - 1 /\ i - 1 \in 1 .. count - 1
      BY <2>3
    <3>2. QED
      BY <1>3, <2>3, <3>1 DEF Starts
  <2>4. QED
    BY <2>1, <2>2, <2>3
<1>7. Rising(s)
  BY <1>1, <1>3, <1>4, <1>6 DEF Rising
<1>8. ValidateBucketRanges(s)
  BY <1>1, <1>3, <1>5 DEF ValidateBucketRanges, Starts
<1>9. QED
  BY <1>7, <1>8 DEF s

\* Rounding does not make two equal widths overlap: every linear histogram
\* that Valid admits is a rising one, with the ends it was asked for.
THEOREM LinearRangesRise ==
  ASSUME kSampleType_MAX \in Nat, NEW minimum \in Int, NEW maximum \in Int, NEW count \in Nat,
         NEW described, Valid(Minimum(minimum), Maximum(maximum), count)
  PROVE  /\ Rising(LinearHistogram(minimum, maximum, count, described))
         /\ ValidateBucketRanges(LinearHistogram(minimum, maximum, count, described))
<1> DEFINE min == Minimum(minimum)
           max == Maximum(maximum)
           ranges == LinearRanges(min, max, count)
           d == count - 2
           m == 2 * d
           N(i) == min * (count - 1 - i) + max * (i - 1)
           X(i) == 2 * N(i) + d
<1>1. min \in Nat /\ 0 < min /\ max \in Int /\ max < kSampleType_MAX
  BY DEF Minimum, Maximum, Greater, Least
<1>2. max > min /\ count > 2 /\ count <= max - min + 2
  BY DEF Valid
<1>3. ranges = [i \in 1 .. count - 1 |-> (2 * N(i) + count - 2) \div (2 * (count - 2))]
  BY DEF LinearRanges
<1> HIDE DEF min, max, ranges
<1>4. max \in Nat /\ d \in Nat \ {0} /\ m \in Nat \ {0} /\ count = d + 2 /\ d <= max - min
      /\ max - min \in Nat
  BY <1>1, <1>2
<1>5. ASSUME NEW i \in 1 .. count - 1
      PROVE  N(i) \in Nat /\ X(i) \in Nat /\ ranges[i] = X(i) \div m
  <2>1. count - 1 - i \in Nat /\ i - 1 \in Nat
    BY <1>4
  <2>2. N(i) \in Nat
    <3>1. \A x, y \in Nat : x * y \in Nat
      OBVIOUS
    <3>2. min * (count - 1 - i) \in Nat /\ max * (i - 1) \in Nat
      BY <1>1, <1>4, <2>1, <3>1
    <3>3. QED
      BY <3>2
  <2>3. 2 * N(i) + count - 2 = X(i) /\ X(i) \in Nat
    BY <1>4, <2>2
  <2> HIDE DEF N, X
  <2>4. QED
    BY <1>3, <2>2, <2>3
<1>6. ASSUME NEW i \in 2 .. count - 1 PROVE X(i) >= X(i - 1) + m
  <2>1. i \in 1 .. count - 1 /\ i - 1 \in 1 .. count - 1
    BY <1>4
  <2> DEFINE a == count - 1 - i
             e == i - 2
  <2>2. a \in Nat /\ e \in Nat /\ count - 1 - (i - 1) = a + 1 /\ i - 1 = e + 1 /\ (i - 1) - 1 = e
    BY <1>4
  <2>3. min * (a + 1) = min * a + min /\ max * (e + 1) = max * e + max
        /\ min * a \in Int /\ max * e \in Int
    BY <1>1, <1>4, <2>2
  <2>4. N(i) = min * a + max * (e + 1) /\ N(i - 1) = min * (a + 1) + max * e
    BY <2>2
  <2>5. N(i) = N(i - 1) + (max - min)
    BY <1>1, <1>4, <2>3, <2>4
  <2>6. N(i - 1) \in Nat
    BY <1>5, <2>1
  <2> HIDE DEF N
  <2>7. QED
    BY <1>4, <2>5, <2>6
<1>7. ranges[1] = min
  <2>1. 1 \in 1 .. count - 1
    BY <1>4
  <2>2. count - 1 - 1 = d /\ N(1) = min * d
    BY <1>1, <1>4
  <2>3. m * min = 2 * (min * d) /\ min * d \in Nat
    BY <1>1, <1>4
  <2>4. X(1) = m * min + d
    BY <2>2, <2>3
  <2>5. m * min <= X(1) /\ X(1) < m * min + m
    BY <1>4, <2>3, <2>4
  <2> HIDE DEF X, m
  <2>6. QED
    BY <1>1, <1>4, <1>5, <2>1, <2>5, QuotientIs
<1>8. ranges[count - 1] = max
  <2>1. count - 1 \in 1 .. count - 1
    BY <1>4
  <2>2. count - 1 - (count - 1) = 0 /\ (count - 1) - 1 = d /\ min * 0 = 0
    BY <1>1, <1>4
  <2>3. m * max = 2 * (max * d) /\ max * d \in Nat
    BY <1>4
  <2>4. N(count - 1) = max * d
    BY <2>2, <2>3
  <2>5. X(count - 1) = m * max + d
    BY <2>3, <2>4
  <2>6. m * max <= X(count - 1) /\ X(count - 1) < m * max + m
    BY <1>4, <2>3, <2>5
  <2> HIDE DEF X, m
  <2>7. QED
    BY <1>4, <1>5, <2>1, <2>6, QuotientIs
<1> HIDE DEF N, X, m, d
<1>9. \A i \in 1 .. count - 1 : ranges[i] \in Nat
  BY <1>4, <1>5, Quotient
<1>10. ASSUME NEW i \in 2 .. count - 1 PROVE ranges[i - 1] < ranges[i]
  <2>1. i \in 1 .. count - 1 /\ i - 1 \in 1 .. count - 1
    BY <1>2
  <2>2. X(i - 1) \in Nat /\ X(i) \in Nat /\ X(i) >= X(i - 1) + m
    BY <1>5, <1>6, <2>1
  <2>3. QED
    BY <1>4, <1>5, <2>1, <2>2, QuotientGrows
<1>11. Starts(ranges, min, max, count)
  BY <1>7, <1>8, <1>9, <1>10 DEF Starts
<1>12. LinearHistogram(minimum, maximum, count, described) =
         Shape("LINEAR_HISTOGRAM", min, max, count, ranges, described)
  BY DEF LinearHistogram, min, max, ranges
<1>13. QED
  BY <1>1, <1>2, <1>4, <1>11, <1>12, ShapeRises

\* The boolean histogram is one of them.
LEMMA BooleanRangesRise ==
  ASSUME kSampleType_MAX \in Nat, kSampleType_MAX > 2
  PROVE  Rising(BooleanHistogram) /\ ValidateBucketRanges(BooleanHistogram)
<1> DEFINE s == LinearHistogram(1, 2, 3, {})
<1>1. Minimum(1) = 1 /\ Maximum(2) = 2
  BY DEF Minimum, Maximum, Greater, Least
<1>2. Valid(1, 2, 3)
  BY DEF Valid
<1>3. Rising(s) /\ ValidateBucketRanges(s)
  BY <1>1, <1>2, LinearRangesRise
<1>4. /\ BooleanHistogram.bucket_count = s.bucket_count /\ BooleanHistogram.ranges = s.ranges
      /\ BooleanHistogram.declared_min = s.declared_min
      /\ BooleanHistogram.declared_max = s.declared_max
  BY DEF BooleanHistogram, LinearHistogram, Shape
<1> HIDE DEF s
<1>5. QED
  BY <1>3, <1>4 DEF Rising, ValidateBucketRanges

\* The members of S below v: their number is where v comes in S.
Below(S, v) == {w \in S : w < v}
Rank(S, v) == Cardinality(Below(S, v))

\* Some natural numbers have a smallest.
LEMMA Smallest ==
  ASSUME NEW T, T \subseteq Nat, T # {}
  PROVE  \E x \in T : \A y \in T : x <= y
<1> DEFINE Before == OpToRel(<, Nat)
<1>1. PICK x \in T : \A y \in T : <<y, x>> \notin Before
  <2>1. IsWellFoundedOn(Before, Nat)
    BY NatLessThanWellFounded
  <2> HIDE DEF Before
  <2>2. QED
    BY <2>1, WFMin
<1>2. \A y \in T : ~(y < x)
  BY <1>1 DEF OpToRel
<1>3. \A y \in T : x <= y
  BY <1>2
<1>4. QED
  BY <1>3

\* Ranks are numbers and rise.
LEMMA RanksRise ==
  ASSUME NEW S, S \subseteq Nat, IsFiniteSet(S), NEW v \in S, NEW w \in S
  PROVE  Rank(S, v) \in Nat /\ (v < w => Rank(S, v) < Rank(S, w))
<1>1. IsFiniteSet(Below(S, v)) /\ IsFiniteSet(Below(S, w))
  BY FS_Subset DEF Below
<1>2. Rank(S, v) \in Nat /\ Rank(S, w) \in Nat
  BY <1>1, FS_CardinalityType DEF Rank
<1>3. ASSUME v < w PROVE Rank(S, v) < Rank(S, w)
  <2>1. v \notin Below(S, v) /\ Below(S, v) \cup {v} \subseteq Below(S, w)
    <3>1. v \in Nat /\ w \in Nat /\ \A x \in S : x \in Nat
      OBVIOUS
    <3>2. ~(v < v) /\ \A x \in S : x < v => x < w
      BY <1>3, <3>1
    <3>3. QED
      BY <1>3, <3>2 DEF Below
  <2>2. Cardinality(Below(S, v) \cup {v}) = Rank(S, v) + 1 /\ IsFiniteSet(Below(S, v) \cup {v})
    BY <1>1, <2>1, FS_AddElement DEF Rank
  <2>3. Cardinality(Below(S, v) \cup {v}) <= Rank(S, w)
    BY <1>1, <2>1, FS_Subset DEF Rank
  <2>4. QED
    BY <1>2, <2>2, <2>3
<1>4. QED
  BY <1>2, <1>3

\* Each place has its member.
LEMMA RankTaken ==
  ASSUME NEW S, S \subseteq Nat, IsFiniteSet(S), NEW i \in Nat, i < Cardinality(S)
  PROVE  \E v \in S : Rank(S, v) = i
<1> DEFINE P == {n \in Nat : n < Cardinality(S) => \E v \in S : Rank(S, v) = n}
<1>1. Cardinality(S) \in Nat
  BY FS_CardinalityType
<1>2. 0 \in P
  <2> SUFFICES ASSUME 0 < Cardinality(S) PROVE \E v \in S : Rank(S, v) = 0
    OBVIOUS
  <2>1. S # {}
    BY FS_EmptySet
  <2>2. PICK x \in S : \A y \in S : x <= y
    BY <2>1, Smallest
  <2>3. Below(S, x) = {}
    <3>1. \A y \in S : y \in Nat /\ x \in Nat
      OBVIOUS
    <3>2. \A y \in S : ~(y < x)
      BY <2>2, <3>1
    <3>3. QED
      BY <3>2 DEF Below
  <2>4. QED
    BY <2>3, FS_EmptySet DEF Rank
<1>3. ASSUME NEW n \in Nat, n \in P PROVE n + 1 \in P
  <2> SUFFICES ASSUME n + 1 < Cardinality(S) PROVE \E u \in S : Rank(S, u) = n + 1
    OBVIOUS
  <2>1. n < Cardinality(S)
    BY <1>1
  <2>2. PICK v \in S : Rank(S, v) = n
    BY <1>3, <2>1
  <2>3. IsFiniteSet(Below(S, v)) /\ v \notin Below(S, v) /\ v \in Nat
    BY FS_Subset DEF Below
  <2>4. Cardinality(Below(S, v) \cup {v}) = n + 1
    BY <2>2, <2>3, FS_AddElement DEF Rank
  <2> DEFINE T == {w \in S : v < w}
  <2>5. T # {}
    <3> SUFFICES ASSUME T = {} PROVE FALSE
      OBVIOUS
    <3>1. S = Below(S, v) \cup {v}
      <4>1. \A x \in S : x \in Nat
        OBVIOUS
      <4>2. \A x \in S : ~(v < x)
        OBVIOUS
      <4>3. \A x \in S : x < v \/ x = v
        BY <2>3, <4>1, <4>2
      <4>4. QED
        BY <4>3 DEF Below
    <3>2. QED
      BY <1>1, <2>4, <3>1
  <2>6. T \subseteq Nat
    OBVIOUS
  <2>7. PICK u \in T : \A y \in T : u <= y
    <3> HIDE DEF T
    <3>1. QED
      BY <2>5, <2>6, Smallest
  <2>8. Below(S, u) = Below(S, v) \cup {v}
    <3>1. ASSUME NEW x \in S PROVE x < u <=> (x < v \/ x = v)
      <4>1. x \in Nat /\ u \in Nat /\ v < u
        BY <2>7
      <4>2. v < x => u <= x
        BY <2>7
      <4>3. QED
        BY <2>3, <4>1, <4>2
    <3>2. QED
      BY <3>1 DEF Below
  <2>9. Rank(S, u) = n + 1 /\ u \in S
    BY <2>4, <2>7, <2>8 DEF Rank
  <2>10. QED
    BY <2>9
<1> HIDE DEF P
<1>4. i \in P
  BY <1>2, <1>3, AllNumbers
<1>5. QED
  BY <1>4 DEF P

\* Sorting its values and leaving out those given twice makes every custom
\* histogram a rising one.
THEOREM CustomRangesRise ==
  ASSUME kSampleType_MAX \in Nat, kSampleType_MAX > 1, NEW values, IsFiniteSet(values),
         values \subseteq 0 .. kSampleType_MAX - 1
  PROVE  Rising(CustomHistogram(values)) /\ ValidateBucketRanges(CustomHistogram(values))
<1> DEFINE all == values \cup {0}
           S == IF Cardinality(all) <= 1 THEN all \cup {1} ELSE all
           Start(i) == CHOOSE v \in S : Cardinality({w \in S : w < v}) = i
           count == Cardinality(S)
           ranges == [i \in 1 .. count - 1 |-> Start(i)]
<1>1. all \subseteq 0 .. kSampleType_MAX - 1 /\ 0 \in all /\ IsFiniteSet(all)
  BY FS_AddElement
<1>2. Cardinality(all) \in Nat
  BY <1>1, FS_CardinalityType
<1>3. /\ S \subseteq 0 .. kSampleType_MAX - 1 /\ 0 \in S /\ IsFiniteSet(S)
      /\ Cardinality(S) \in Nat /\ Cardinality(S) >= 2
  <2>1. CASE Cardinality(all) <= 1
    <3>1. Cardinality(all) = 1
      <4>1. Cardinality(all) # 0
        BY <1>1, FS_EmptySet
      <4>2. QED
        BY <1>2, <2>1, <4>1
    <3>2. 1 \notin all
      <4>1. PICK x : all = {x}
        BY <1>1, <3>1, FS_Singleton
      <4>2. QED
        BY <1>1, <4>1
    <3>3. IsFiniteSet(all \cup {1}) /\ Cardinality(all \cup {1}) = Cardinality(all) + 1
      BY <1>1, <3>2, FS_AddElement
    <3> HIDE DEF all
    <3>4. S = all \cup {1}
      BY <2>1
    <3>5. QED
      BY <1>1, <3>1, <3>3, <3>4
  <2>2. CASE ~(Cardinality(all) <= 1)
    <3> HIDE DEF all
    <3>1. S = all
      BY <2>2
    <3>2. QED
      BY <1>1, <1>2, <2>2, <3>1
  <2>3. QED
    BY <2>1, <2>2
<1> HIDE DEF all, S
<1>4. S \subseteq Nat /\ count \in Nat /\ count >= 2
  BY <1>3
<1>5. ASSUME NEW i \in 1 .. count - 1
      PROVE  ranges[i] \in S /\ Rank(S, ranges[i]) = i
  <2>1. i \in Nat /\ i < Cardinality(S)
    BY <1>4
  <2>2. \E v \in S : Cardinality({w \in S : w < v}) = i
    BY <1>3, <1>4, <2>1, RankTaken DEF Rank, Below
  <2>3. Start(i) \in S /\ Cardinality({w \in S : w < Start(i)}) = i
    BY <2>2
  <2>4. ranges[i] = Start(i)
    OBVIOUS
  <2> HIDE DEF Start, ranges
  <2>5. QED
    BY <2>3, <2>4 DEF Rank, Below
<1>6. CustomHistogram(values) =
        Shape("CUSTOM_HISTOGRAM", ranges[1], ranges[count - 1], count, ranges, {})
  <2>1. CustomHistogram(values) =
          Shape("CUSTOM_HISTOGRAM", Start(1), Start(count - 1), count, ranges, {})
    BY DEF CustomHistogram, all, S
  <2>2. 1 \in 1 .. count - 1 /\ count - 1 \in 1 .. count - 1
    BY <1>4
  <2>3. ranges[1] = Start(1) /\ ranges[count - 1] = Start(count - 1)
    <3> HIDE DEF Start, count
    <3>1. QED
      BY <2>2
  <2>4. QED
    BY <2>1, <2>3
<1> HIDE DEF ranges, count, Start
<1>7. ASSUME NEW i \in 2 .. count - 1 PROVE ranges[i - 1] < ranges[i]
  <2>1. i \in 1 .. count - 1 /\ i - 1 \in 1 .. count - 1
    BY <1>4
  <2> DEFINE v == ranges[i - 1]
             w == ranges[i]
  <2>2. v \in S /\ w \in S /\ Rank(S, v) = i - 1 /\ Rank(S, w) = i
    BY <1>5, <2>1
  <2> HIDE DEF v, w
  <2>3. w < v => Rank(S, w) < Rank(S, v)
    BY <1>3, <1>4, <2>2, RanksRise
  <2>4. v # w /\ ~(w < v)
    BY <2>1, <2>2, <2>3
  <2>5. v \in Nat /\ w \in Nat
    BY <1>4, <2>2
  <2>6. v < w
    BY <2>4, <2>5
  <2>7. QED
    BY <2>6 DEF v, w
<1>8. \A i \in 1 .. count - 1 : ranges[i] \in Nat /\ ranges[i] < kSampleType_MAX
  <2>1. \A x \in S : x \in Nat /\ x < kSampleType_MAX
    BY <1>3
  <2>2. QED
    BY <1>5, <2>1
<1>9. 1 \in 1 .. count - 1 /\ count - 1 \in 1 .. count - 1
  BY <1>4
<1>10. 0 < ranges[1]
  <2>1. Below(S, 0) = {}
    <3>1. \A x \in S : x \in Nat
      BY <1>4
    <3>2. \A x \in S : ~(x < 0)
      BY <3>1
    <3>3. QED
      BY <3>2 DEF Below
  <2>2. Rank(S, 0) = 0
    BY <2>1, FS_EmptySet DEF Rank
  <2>3. ranges[1] # 0
    BY <1>5, <1>9, <2>2
  <2>4. QED
    BY <1>8, <1>9, <2>3
<1>11. Starts(ranges, ranges[1], ranges[count - 1], count)
  BY <1>7, <1>8 DEF Starts
<1>12. QED
  BY <1>4, <1>6, <1>8, <1>9, <1>10, <1>11, ShapeRises

-----------------------------------------------------------------------------
\* Exponential ranges.

\* What f is when it is computed from first by the steps of g, m of them.
Iterates(g, first, m, f) ==
  f = [i \in 0 .. m |-> IF i = 0 THEN first ELSE g[<<i, f[i - 1]>>]]

\* What is computed step by step among the values of V is there.
LEMMA IterationExists ==
  ASSUME NEW V, NEW first \in V, NEW m \in Nat, NEW g \in [(1 .. m) \X V -> V]
  PROVE  \E f \in [0 .. m -> V] : Iterates(g, first, m, f)
<1> DEFINE P == {n \in Nat : n <= m => \E f \in [0 .. n -> V] : Iterates(g, first, n, f)}
<1>1. 0 \in P
  <2> DEFINE f == [i \in 0 .. 0 |-> first]
  <2>1. f \in [0 .. 0 -> V] /\ f = [i \in 0 .. 0 |-> IF i = 0 THEN first ELSE g[<<i, f[i - 1]>>]]
    OBVIOUS
  <2>2. QED
    BY <2>1 DEF Iterates
<1>2. ASSUME NEW n \in Nat, n \in P PROVE n + 1 \in P
  <2> SUFFICES ASSUME n + 1 <= m
               PROVE  \E f \in [0 .. n + 1 -> V] : Iterates(g, first, n + 1, f)
    OBVIOUS
  <2>1. PICK f \in [0 .. n -> V] : Iterates(g, first, n, f)
    BY <1>2
  <2> DEFINE last == g[<<n + 1, f[n]>>]
             h == [i \in 0 .. n + 1 |-> IF i = n + 1 THEN last ELSE f[i]]
             After(e, i) == IF i = 0 THEN first ELSE g[<<i, e[i - 1]>>]
  <2>2. last \in V
    <3>1. f[n] \in V /\ n + 1 \in 1 .. m
      OBVIOUS
    <3>2. QED
      BY <3>1
  <2>3. h \in [0 .. n + 1 -> V]
    <3>1. \A i \in 0 .. n + 1 : i # n + 1 => i \in 0 .. n
      OBVIOUS
    <3>2. QED
      BY <2>2, <3>1
  <2>4. ASSUME NEW i \in 0 .. n + 1 PROVE h[i] = After(h, i)
    <3>1. CASE i = n + 1
      <4>1. (n + 1) - 1 = n /\ n \in 0 .. n + 1 /\ n # n + 1 /\ i # 0
        BY <3>1
      <4>2. h[n] = f[n]
        BY <4>1
      <4>3. h[i] = last
        BY <3>1
      <4> HIDE DEF h
      <4>4. QED
        BY <3>1, <4>1, <4>2, <4>3
    <3>2. CASE i # n + 1
      <4>1. i \in 0 .. n /\ (i # 0 => i - 1 \in 0 .. n + 1 /\ i - 1 # n + 1)
        BY <3>2
      <4>2. f[i] = After(f, i)
        BY <2>1, <4>1 DEF Iterates
      <4>3. i # 0 => h[i - 1] = f[i - 1]
        BY <4>1
      <4>4. h[i] = f[i]
        BY <3>2
      <4> HIDE DEF h
      <4>5. QED
        BY <4>2, <4>3, <4>4
    <3>3. QED
      BY <3>1, <3>2
  <2>5. h = [i \in 0 .. n + 1 |-> h[i]]
    OBVIOUS
  <2> HIDE DEF h, After
  <2>6. h = [i \in 0 .. n + 1 |-> After(h, i)]
    BY <2>4, <2>5
  <2>7. QED
    BY <2>3, <2>6 DEF Iterates, After
<1> HIDE DEF P
<1>3. m \in P
  BY <1>1, <1>2, AllNumbers
<1>4. QED
  BY <1>3 DEF P

\* f has the powers of base up to k.
Powers(base, k, f) == f = [n \in 0 .. k |-> IF n = 0 THEN 1 ELSE base * f[n - 1]]

\* Powers are numbers.
LEMMA PowersExist ==
  ASSUME NEW base \in Nat, NEW k \in Nat
  PROVE  \E f \in [0 .. k -> Nat] : Powers(base, k, f)
<1> DEFINE g == [x \in (1 .. k) \X Nat |-> base * x[2]]
<1>1. g \in [(1 .. k) \X Nat -> Nat]
  <2>1. \A a, b \in Nat : a * b \in Nat
    OBVIOUS
  <2>2. \A x \in (1 .. k) \X Nat : base * x[2] \in Nat
    BY <2>1
  <2>3. QED
    BY <2>2
<1>2. ASSUME NEW i \in 1 .. k, NEW v \in Nat PROVE g[<<i, v>>] = base * v
  OBVIOUS
<1> HIDE DEF g
<1>3. PICK f \in [0 .. k -> Nat] : Iterates(g, 1, k, f)
  <2>1. 1 \in Nat
    OBVIOUS
  <2>2. QED
    BY <1>1, <2>1, IterationExists
<1>4. ASSUME NEW i \in 0 .. k PROVE f[i] = IF i = 0 THEN 1 ELSE base * f[i - 1]
  <2>1. f[i] = IF i = 0 THEN 1 ELSE g[<<i, f[i - 1]>>]
    BY <1>3 DEF Iterates
  <2>2. i # 0 => i \in 1 .. k /\ i - 1 \in 0 .. k /\ f[i - 1] \in Nat
    OBVIOUS
  <2>3. QED
    BY <1>2, <2>1, <2>2
<1>5. f = [i \in 0 .. k |-> f[i]]
  OBVIOUS
<1>6. QED
  BY <1>4, <1>5 DEF Powers

\* Power is the last of them.
LEMMA PowerIs ==
  ASSUME NEW base \in Nat, NEW k \in Nat
  PROVE  \E f : /\ Power(base, k) = f[k] /\ f[0] = 1
                /\ \A n \in 1 .. k : f[n] = base * f[n - 1]
<1> DEFINE f == CHOOSE p : Powers(base, k, p)
<1>1. Powers(base, k, f)
  BY PowersExist
<1>2. Power(base, k) = f[k]
  BY DEF Power, Powers
<1> HIDE DEF f
<1>3. \A n \in 0 .. k : f[n] = IF n = 0 THEN 1 ELSE base * f[n - 1]
  BY <1>1 DEF Powers
<1>4. \A n \in 1 .. k : n \in 0 .. k /\ n # 0
  OBVIOUS
<1>5. QED
  BY <1>2, <1>3, <1>4

\* The equations of powers.
LEMMA PowerGrows ==
  ASSUME NEW base \in Nat
  PROVE  /\ Power(base, 0) = 1
         /\ \A k \in Nat : Power(base, k) \in Nat /\ Power(base, k + 1) = base * Power(base, k)
<1>1. Power(base, 0) = 1
  BY PowerIs
<1>2. ASSUME NEW k \in Nat PROVE Power(base, k + 1) = base * Power(base, k)
  <2>1. PICK f : /\ Power(base, k) = f[k] /\ f[0] = 1
                 /\ \A n \in 1 .. k : f[n] = base * f[n - 1]
    BY PowerIs
  <2>2. PICK h : /\ Power(base, k + 1) = h[k + 1] /\ h[0] = 1
                 /\ \A n \in 1 .. k + 1 : h[n] = base * h[n - 1]
    <3>1. k + 1 \in Nat
      OBVIOUS
    <3> HIDE DEF Power
    <3>2. QED
      BY <3>1, PowerIs
  <2> DEFINE Same == {n \in Nat : n <= k => f[n] = h[n]}
  <2>3. 0 \in Same
    BY <2>1, <2>2
  <2>4. ASSUME NEW n \in Nat, n \in Same PROVE n + 1 \in Same
    <3>1. n + 1 <= k => n + 1 \in 1 .. k /\ n + 1 \in 1 .. k + 1 /\ (n + 1) - 1 = n /\ n <= k
      OBVIOUS
    <3>2. n + 1 <= k => f[n + 1] = base * f[n] /\ h[n + 1] = base * h[n] /\ f[n] = h[n]
      BY <2>1, <2>2, <2>4, <3>1
    <3>3. QED
      BY <3>2
  <2> HIDE DEF Same
  <2>5. k \in Same
    BY <2>3, <2>4, AllNumbers
  <2>6. f[k] = h[k] /\ k + 1 \in 1 .. k + 1 /\ (k + 1) - 1 = k
    BY <2>5 DEF Same
  <2>7. QED
    BY <2>1, <2>2, <2>6
<1> DEFINE P == {k \in Nat : Power(base, k) \in Nat}
<1>3. 0 \in P
  BY <1>1
<1>4. ASSUME NEW k \in Nat, k \in P PROVE k + 1 \in P
  <2>1. \A a, b \in Nat : a * b \in Nat
    OBVIOUS
  <2>2. QED
    BY <1>2, <1>4, <2>1
<1>5. Nat \subseteq P
  <2> HIDE DEF P
  <2>1. QED
    BY <1>3, <1>4, AllNumbers
<1>6. QED
  BY <1>1, <1>2, <1>5

\* Products keep the order of their factors.
LEMMA ProductsKeepOrder ==
  ASSUME NEW a \in Nat, NEW b \in Nat, NEW c \in Nat, NEW d \in Nat, a <= b, c <= d
  PROVE  a * c \in Nat /\ b * d \in Nat /\ a * c <= b * d /\ (a < b /\ 0 < d => a * c < b * d)
<1>1. a * c \in Nat /\ a * d \in Nat /\ b * d \in Nat
  <2>1. \A x, y \in Nat : x * y \in Nat
    OBVIOUS
  <2>2. QED
    BY <2>1
<1>2. a * c <= a * d
  OBVIOUS
<1>3. a * d <= b * d
  OBVIOUS
<1>4. ASSUME a < b, 0 < d PROVE a * d < b * d
  BY <1>4
<1>5. QED
  BY <1>1, <1>2, <1>3, <1>4

\* A larger base has larger powers.
LEMMA PowerRises ==
  ASSUME NEW a \in Nat, NEW b \in Nat, a <= b, NEW k \in Nat
  PROVE  Power(a, k) <= Power(b, k) /\ (a < b /\ k > 0 => Power(a, k) < Power(b, k))
<1> DEFINE P == {n \in Nat : /\ Power(a, n) <= Power(b, n)
                             /\ 0 < b => 0 < Power(b, n)
                             /\ a < b /\ n > 0 => Power(a, n) < Power(b, n)}
<1>1. 0 \in P
  BY PowerGrows
<1>2. ASSUME NEW n \in Nat, n \in P PROVE n + 1 \in P
  <2> DEFINE x == Power(a, n)
             y == Power(b, n)
  <2>1. x \in Nat /\ y \in Nat /\ x <= y /\ (0 < b => 0 < y)
    BY <1>2, PowerGrows
  <2>2. Power(a, n + 1) = a * x /\ Power(b, n + 1) = b * y
    BY PowerGrows
  <2> HIDE DEF x, y
  <2>3. a * x <= b * y /\ (a < b /\ 0 < y => a * x < b * y)
    BY <2>1, ProductsKeepOrder
  <2>4. 0 < b => 0 < b * y
    BY <2>1
  <2>5. a < b => 0 < b
    OBVIOUS
  <2>6. QED
    BY <2>1, <2>2, <2>3, <2>4, <2>5
<1> HIDE DEF P
<1>3. k \in P
  BY <1>1, <1>2, AllNumbers
<1>4. QED
  BY <1>3 DEF P

\* The power of a double.
LEMMA PowerOfDouble ==
  ASSUME NEW a \in Nat, NEW k \in Nat
  PROVE  Power(2 * a, k) = Power(2, k) * Power(a, k)
<1> DEFINE P == {n \in Nat : Power(2 * a, n) = Power(2, n) * Power(a, n)}
<1>1. 2 * a \in Nat /\ 2 \in Nat
  OBVIOUS
<1>2. 0 \in P
  <2>1. Power(2 * a, 0) = 1 /\ Power(2, 0) = 1 /\ Power(a, 0) = 1
    BY <1>1, PowerGrows
  <2>2. QED
    BY <2>1
<1>3. ASSUME NEW n \in Nat, n \in P PROVE n + 1 \in P
  <2> DEFINE x == Power(2, n)
             y == Power(a, n)
             z == Power(2 * a, n)
  <2>1. x \in Nat /\ y \in Nat /\ z \in Nat /\ z = x * y
    BY <1>1, <1>3, PowerGrows
  <2>2. Power(2 * a, n + 1) = (2 * a) * z /\ Power(2, n + 1) = 2 * x /\ Power(a, n + 1) = a * y
    BY <1>1, PowerGrows
  <2> HIDE DEF x, y, z
  <2>3. (2 * a) * (x * y) = (2 * x) * (a * y)
    BY <2>1
  <2>4. QED
    BY <2>1, <2>2, <2>3
<1> HIDE DEF P
<1>4. k \in P
  BY <1>2, <1>3, AllNumbers
<1>5. QED
  BY <1>4 DEF P

\* The inequality of Bernoulli: m ^ (j + 1) >= (m - 1) ^ j * (m + j).
LEMMA Bernoulli ==
  ASSUME NEW m \in Nat \ {0}, NEW j \in Nat
  PROVE  Power(m - 1, j) * (m + j) <= Power(m, j + 1)
<1> DEFINE l == m - 1
           P == {n \in Nat : Power(l, n) * (m + n) <= Power(m, n + 1)}
<1>1. l \in Nat /\ m \in Nat /\ m = l + 1
  OBVIOUS
<1> HIDE DEF l
<1>2. 0 \in P
  <2>1. Power(l, 0) = 1 /\ Power(m, 0) = 1 /\ Power(m, 0 + 1) = m * Power(m, 0)
    BY <1>1, PowerGrows
  <2>2. 0 + 1 = 1 /\ 1 * (m + 0) = m /\ m * 1 = m
    BY <1>1
  <2>3. QED
    BY <1>1, <2>1, <2>2
<1>3. ASSUME NEW n \in Nat, n \in P PROVE n + 1 \in P
  <2> DEFINE x == Power(l, n)
             y == Power(m, n + 1)
  <2>1. x \in Nat /\ y \in Nat /\ x * (m + n) <= y
    BY <1>1, <1>3, PowerGrows
  <2>2. n + 1 \in Nat /\ Power(l, n + 1) = l * x /\ Power(m, (n + 1) + 1) = m * y
    BY <1>1, PowerGrows
  <2> HIDE DEF x, y
  <2>3. m * (x * (m + n)) <= m * y
    <3>1. x * (m + n) \in Nat
      <4>1. \A a, b \in Nat : a * b \in Nat
        OBVIOUS
      <4>2. QED
        BY <1>1, <2>1, <4>1
    <3>2. QED
      BY <1>1, <2>1, <3>1, ProductsKeepOrder
  <2>4. (l * x) * (m + (n + 1)) <= m * (x * (m + n))
    <3>1. l * (m + (n + 1)) <= m * (m + n)
      <4>1. m * (m + n) = l * (m + n) + (m + n)
        BY <1>1
      <4>2. l * (m + (n + 1)) = l * (m + n) + l
        BY <1>1
      <4>3. l * (m + n) \in Nat
        <5>1. \A a, b \in Nat : a * b \in Nat
          OBVIOUS
        <5>2. QED
          BY <1>1, <5>1
      <4>4. QED
        BY <1>1, <4>1, <4>2, <4>3
    <3>2. (l * x) * (m + (n + 1)) = x * (l * (m + (n + 1))) /\ m * (x * (m + n)) = x * (m * (m + n))
      BY <1>1, <2>1
    <3>3. l * (m + (n + 1)) \in Nat /\ m * (m + n) \in Nat
      <4>1. \A a, b \in Nat : a * b \in Nat
        OBVIOUS
      <4>2. m + n \in Nat /\ m + (n + 1) \in Nat
        BY <1>1
      <4>3. QED
        BY <1>1, <4>1, <4>2
    <3>4. x * (l * (m + (n + 1))) <= x * (m * (m + n))
      BY <2>1, <3>1, <3>3, ProductsKeepOrder
    <3>5. QED
      BY <3>2, <3>4
  <2>5. (l * x) * (m + (n + 1)) <= m * y
    <3>1. (l * x) * (m + (n + 1)) \in Int /\ m * (x * (m + n)) \in Int /\ m * y \in Int
      BY <1>1, <2>1
    <3>2. QED
      BY <2>3, <2>4, <3>1
  <2>6. QED
    BY <2>2, <2>5
<1> HIDE DEF P
<1>4. j \in P
  BY <1>2, <1>3, AllNumbers
<1>5. QED
  BY <1>4 DEF P, l

\* With k steps left to max, and room for them, the next start leaves room for
\* the others; the last one is max.
LEMMA NextStartFits ==
  ASSUME kSampleType_MAX \in Nat, NEW c \in Nat, NEW k \in Nat \ {0}, NEW max \in Nat,
         max <= kSampleType_MAX, c + k <= max
  PROVE  LET next == NextStart(c, max, k)
         IN  next \in Nat /\ next <= max - k + 1 /\ (k = 1 => next = max)
<1> DEFINE power == Power(2, k) * Power(c, k - 1) * max
           Rounds(n) == /\ (IF n = 0 THEN 0 ELSE Power(2 * n - 1, k)) <= power
                        /\ power < Power(2 * n + 1, k)
           m == max - k + 1
           j == k - 1
           T == {n \in Nat : power < Power(2 * n + 1, k)}
<1>1. m \in Nat \ {0} /\ c <= m - 1 /\ m <= kSampleType_MAX /\ j \in Nat /\ j + 1 = k /\ max = m + j
      /\ m - 1 \in Nat /\ 2 \in Nat /\ m <= max
  OBVIOUS
<1>2. \A a, b \in Nat : a * b \in Nat
  OBVIOUS
<1>3. power \in Nat /\ power <= Power(2 * m, k)
  <2> DEFINE x == Power(2, k)
             y == Power(c, j)
             z == Power(m - 1, j)
             w == Power(m, k)
  <2>1. x \in Nat /\ y \in Nat /\ z \in Nat /\ w \in Nat
    BY <1>1, PowerGrows
  <2>2. y <= z
    BY <1>1, PowerRises
  <2>3. z * (m + j) <= w
    BY <1>1, Bernoulli
  <2>4. Power(2 * m, k) = x * w
    BY PowerOfDouble, <1>1
  <2>5. power = x * y * max
    OBVIOUS
  <2> HIDE DEF x, y, z, w, m, j, power
  <2>6. x * y * max = x * (y * max)
    BY <2>1
  <2>7. y * max <= z * max /\ y * max \in Nat /\ z * max \in Nat
    BY <2>1, <2>2, ProductsKeepOrder
  <2>8. y * max <= w
    BY <1>1, <2>1, <2>3, <2>7
  <2>9. x * (y * max) <= x * w /\ x * (y * max) \in Nat
    BY <2>1, <2>7, <2>8, ProductsKeepOrder
  <2>10. QED
    BY <2>4, <2>5, <2>6, <2>9
<1>4. m \in T
  <2>1. 2 * m \in Nat /\ 2 * m + 1 \in Nat /\ 2 * m < 2 * m + 1 /\ 2 * m <= 2 * m + 1
    BY <1>1
  <2>2. Power(2 * m, k) < Power(2 * m + 1, k)
    BY <2>1, PowerRises
  <2>3. Power(2 * m, k) \in Nat /\ Power(2 * m + 1, k) \in Nat
    BY <2>1, PowerGrows
  <2> HIDE DEF power, m
  <2>4. QED
    BY <1>1, <1>3, <2>2, <2>3
<1> HIDE DEF power
<1>5. PICK n \in T : \A i \in T : n <= i
  <2>1. T \subseteq Nat /\ T # {}
    BY <1>4
  <2> HIDE DEF T
  <2>2. QED
    BY <2>1, Smallest
<1>6. n \in 0 .. kSampleType_MAX /\ Rounds(n)
  <2>1. n \in Nat /\ n <= m /\ power < Power(2 * n + 1, k)
    BY <1>4, <1>5
  <2>2. n # 0 => Power(2 * n - 1, k) <= power
    <3> SUFFICES ASSUME n # 0 PROVE Power(2 * n - 1, k) <= power
      OBVIOUS
    <3>1. n - 1 \in Nat /\ ~(n <= n - 1) /\ 2 * (n - 1) + 1 = 2 * n - 1 /\ 2 * n - 1 \in Nat
      BY <2>1
    <3>2. n - 1 \notin T
      BY <1>5, <3>1
    <3>3. ~(power < Power(2 * n - 1, k))
      BY <3>1, <3>2
    <3>4. Power(2 * n - 1, k) \in Nat
      BY <3>1, PowerGrows
    <3>5. QED
      BY <1>3, <3>3, <3>4
  <2> HIDE DEF m
  <2>3. QED
    BY <1>1, <1>3, <2>1, <2>2
<1> DEFINE next == CHOOSE i \in 0 .. kSampleType_MAX : Rounds(i)
<1>7. next \in 0 .. kSampleType_MAX /\ Rounds(next)
  <2> HIDE DEF Rounds
  <2>1. QED
    BY <1>6
<1>8. NextStart(c, max, k) = next
  BY DEF NextStart, power
<1> HIDE DEF next
<1>9. next \in Nat
  BY <1>7
<1>10. next <= m
  <2> SUFFICES ASSUME next > m PROVE FALSE
    BY <1>1, <1>9
  <2>1. next # 0 /\ 2 * next - 1 \in Nat /\ 2 * m + 1 \in Nat /\ 2 * m + 1 <= 2 * next - 1
    BY <1>1, <1>9
  <2>2. Power(2 * m + 1, k) <= Power(2 * next - 1, k)
    BY <2>1, PowerRises
  <2>3. Power(2 * m + 1, k) \in Nat /\ Power(2 * next - 1, k) \in Nat
    BY <2>1, PowerGrows
  <2>4. Power(2 * next - 1, k) <= power /\ power < Power(2 * m + 1, k)
    BY <1>4, <1>7, <2>1
  <2> HIDE DEF m
  <2>5. QED
    BY <1>3, <2>2, <2>3, <2>4
<1>11. ASSUME k = 1 PROVE next = max
  <2>1. m = max /\ j = 0
    BY <1>11
  <2>2. \A a \in Nat : Power(a, 1) = a
    <3>1. ASSUME NEW a \in Nat PROVE Power(a, 1) = a
      <4>1. Power(a, 0) = 1 /\ Power(a, 0 + 1) = a * Power(a, 0)
        BY PowerGrows
      <4>2. 0 + 1 = 1 /\ a * 1 = a
        OBVIOUS
      <4>3. QED
        BY <4>1, <4>2
    <3>2. QED
      BY <3>1
  <2>3. power = 2 * max
    <3>1. power = Power(2, 1) * Power(c, 0) * max
      BY <1>11, <2>1 DEF power
    <3>2. Power(2, 1) = 2 /\ Power(c, 0) = 1 /\ 2 * 1 * max = 2 * max
      BY <1>1, <2>2, PowerGrows
    <3>3. QED
      BY <3>1, <3>2
  <2>4. power < Power(2 * next + 1, 1)
    BY <1>7, <1>11
  <2>5. Power(2 * next + 1, 1) = 2 * next + 1
    BY <1>9, <2>2
  <2>6. max <= next
    BY <1>9, <2>3, <2>4, <2>5
  <2>7. QED
    BY <1>9, <1>10, <2>1, <2>6
<1>12. QED
  BY <1>8, <1>9, <1>10, <1>11

\* f has the starts of the buckets that ExponentialRanges computes.
Exponentials(min, max, count, f) ==
  f = [i \in 1 .. count - 1 |->
         IF i = 1 THEN min ELSE Greater(f[i - 1] + 1, NextStart(f[i - 1], max, count - i))]

\* Steps of one at least, of equal ratio where that is more, end at the largest
\* sample: every exponential histogram that Valid admits is a rising one, with
\* the ends it was asked for.
THEOREM ExponentialRangesRise ==
  ASSUME kSampleType_MAX \in Nat, NEW minimum \in Int, NEW maximum \in Int, NEW count \in Nat,
         Valid(Minimum(minimum), Maximum(maximum), count)
  PROVE  /\ Rising(ExponentialHistogram(minimum, maximum, count))
         /\ ValidateBucketRanges(ExponentialHistogram(minimum, maximum, count))
<1> DEFINE min == Minimum(minimum)
           max == Maximum(maximum)
           ranges == ExponentialRanges(min, max, count)
           Room(i, v) == v + (count - 1 - i) <= max
           After(i, v) == Greater(v + 1, NextStart(v, max, count - i))
<1>1. min \in Nat /\ 0 < min /\ max \in Int /\ max < kSampleType_MAX
  BY DEF Minimum, Maximum, Greater, Least
<1>2. max > min /\ count > 2 /\ count <= max - min + 2
  BY DEF Valid
<1>3. ranges = CHOOSE f : Exponentials(min, max, count, f)
  <2> HIDE DEF min, max
  <2>1. ExponentialRanges(min, max, count) = CHOOSE f : Exponentials(min, max, count, f)
    BY DEF ExponentialRanges, Exponentials
  <2>2. QED
    BY <2>1
<1> HIDE DEF min, max, ranges
<1>4. max \in Nat /\ max <= kSampleType_MAX
  BY <1>1, <1>2
<1>5. ASSUME NEW i \in 2 .. count - 1, NEW v \in Nat, Room(i - 1, v)
      PROVE  After(i, v) \in Nat /\ v < After(i, v) /\ Room(i, After(i, v))
             /\ (i = count - 1 => After(i, v) = max)
  <2> DEFINE k == count - i
             next == NextStart(v, max, k)
  <2>1. k \in Nat \ {0} /\ v + k <= max /\ count - 1 - i = k - 1 /\ (i = count - 1 <=> k = 1)
        /\ count - i = k
    BY <1>2, <1>4, <1>5
  <2> HIDE DEF k
  <2>2. next \in Nat /\ next <= max - k + 1 /\ (k = 1 => next = max)
    BY <1>4, <2>1, NextStartFits
  <2>3. After(i, v) = Greater(v + 1, next)
    BY <2>1
  <2> HIDE DEF next, After
  <2>4. After(i, v) = IF v + 1 > next THEN v + 1 ELSE next
    BY <2>3 DEF Greater
  <2>5. After(i, v) \in Nat /\ v < After(i, v) /\ After(i, v) <= max - k + 1
        /\ (k = 1 => After(i, v) = max)
    BY <1>4, <2>1, <2>2, <2>4
  <2>6. QED
    BY <1>4, <2>1, <2>5
\* What the loop computes, as the step of an iteration that starts at 0.
<1> DEFINE V == Nat
           last == count - 2
           g == [x \in (1 .. last) \X V |->
                   IF Room(x[1], x[2]) THEN After(x[1] + 1, x[2]) ELSE 0]
<1>6. last \in Nat /\ last + 1 = count - 1
  BY <1>2
<1>7. ASSUME NEW i \in 1 .. last, NEW v \in V
      PROVE  g[<<i, v>>] = (IF Room(i, v) THEN After(i + 1, v) ELSE 0) /\ g[<<i, v>>] \in V
  <2>1. i + 1 \in 2 .. count - 1 /\ (i + 1) - 1 = i
    BY <1>6
  <2>2. Room(i, v) => After(i + 1, v) \in Nat
    <3> SUFFICES ASSUME Room(i, v) PROVE After(i + 1, v) \in Nat
      OBVIOUS
    <3>1. Room((i + 1) - 1, v)
      BY <2>1
    <3> HIDE DEF Room, After
    <3>2. QED
      BY <1>5, <2>1, <3>1
  <2> HIDE DEF Room, After
  <2>3. QED
    BY <2>2
<1>8. g \in [(1 .. last) \X V -> V]
  <2>1. \A x \in (1 .. last) \X V : x = <<x[1], x[2]>> /\ x[1] \in 1 .. last /\ x[2] \in V
    OBVIOUS
  <2>2. \A x \in (1 .. last) \X V : g[x] \in V
    BY <1>7, <2>1
  <2>3. g = [x \in (1 .. last) \X V |-> g[x]]
    OBVIOUS
  <2> HIDE DEF g
  <2>4. QED
    BY <2>2, <2>3
<1> HIDE DEF g
<1>9. PICK h \in [0 .. last -> V] : Iterates(g, min, last, h)
  BY <1>1, <1>6, <1>8, IterationExists
<1>10. \A i \in 0 .. last : h[i] = IF i = 0 THEN min ELSE g[<<i, h[i - 1]>>]
  BY <1>9 DEF Iterates
<1> DEFINE P == {i \in Nat : i <= last => Room(i + 1, h[i])}
<1>11. 0 \in P
  <2>1. h[0] = min
    <3>1. 0 \in 0 .. last
      BY <1>6
    <3> HIDE DEF last
    <3>2. QED
      BY <1>10, <3>1
  <2>2. QED
    BY <1>1, <1>2, <1>6, <2>1
<1>12. ASSUME NEW i \in Nat, i \in P PROVE i + 1 \in P
  <2> SUFFICES ASSUME i + 1 <= last PROVE Room((i + 1) + 1, h[i + 1])
    OBVIOUS
  <2>1. i + 1 \in 1 .. last /\ i + 1 \in 0 .. last /\ i + 1 # 0 /\ (i + 1) - 1 = i /\ h[i] \in V
        /\ (i + 1) + 1 \in 2 .. count - 1 /\ ((i + 1) + 1) - 1 = i + 1
    BY <1>6
  <2>2. h[i + 1] = g[<<i + 1, h[i]>>]
    BY <1>10, <2>1
  <2>3. Room(i + 1, h[i])
    BY <1>6, <1>12
  <2> HIDE DEF Room, After, P
  <2>4. h[i + 1] = After((i + 1) + 1, h[i])
    BY <1>7, <2>1, <2>2, <2>3
  <2>5. QED
    BY <1>5, <2>1, <2>3, <2>4
<1> HIDE DEF P
<1>13. \A i \in 0 .. last : Room(i + 1, h[i])
  <2>1. Nat \subseteq P
    BY <1>11, <1>12, AllNumbers
  <2>2. \A i \in 0 .. last : i \in Nat /\ i <= last
    BY <1>6
  <2> HIDE DEF Room, last
  <2>3. QED
    BY <2>1, <2>2 DEF P
<1> DEFINE f == [i \in 1 .. count - 1 |-> h[i - 1]]
<1>14. ASSUME NEW i \in 1 .. count - 1
       PROVE  f[i] = IF i = 1 THEN min ELSE After(i, f[i - 1])
  <2>1. CASE i = 1
    <3>1. 1 - 1 = 0 /\ 0 \in 0 .. last /\ f[1] = h[1 - 1]
      BY <1>6, <2>1
    <3>2. QED
      BY <1>10, <2>1, <3>1
  <2>2. CASE i # 1
    <3> DEFINE p == i - 1
    <3>1. p \in 1 .. last /\ p \in 0 .. last /\ p # 0 /\ p \in 1 .. count - 1 /\ p + 1 = i
          /\ p - 1 \in 0 .. last /\ (p - 1) + 1 = p
      BY <1>6, <2>2
    <3>2. f[i] = h[p] /\ f[p] = h[p - 1]
      BY <3>1
    <3> HIDE DEF f, p
    <3>3. h[p] = g[<<p, h[p - 1]>>] /\ h[p - 1] \in V /\ Room(p, h[p - 1])
      BY <1>10, <1>13, <3>1
    <3> HIDE DEF Room, After
    <3>4. h[p] = After(p + 1, h[p - 1])
      BY <1>7, <3>1, <3>3
    <3>5. QED
      BY <2>2, <3>1, <3>2, <3>4 DEF p
  <2>3. QED
    BY <2>1, <2>2
<1>15. f = [i \in 1 .. count - 1 |-> f[i]]
  OBVIOUS
<1> HIDE DEF f
<1>16. Exponentials(min, max, count, f)
  <2>1. f = [i \in 1 .. count - 1 |-> IF i = 1 THEN min ELSE After(i, f[i - 1])]
    <3> HIDE DEF After
    <3>1. QED
      BY <1>14, <1>15
  <2>2. QED
    BY <2>1 DEF Exponentials
<1>17. Exponentials(min, max, count, ranges)
  BY <1>3, <1>16
<1>18. \A i \in 1 .. count - 1 : ranges[i] = IF i = 1 THEN min ELSE After(i, ranges[i - 1])
  BY <1>17 DEF Exponentials
\* The starts leave room for the others.
<1> DEFINE Q == {i \in Nat : i \in 1 .. count - 1 => ranges[i] \in Nat /\ Room(i, ranges[i])}
<1>19. 0 \in Q
  OBVIOUS
<1>20. ASSUME NEW i \in Nat, i \in Q PROVE i + 1 \in Q
  <2> SUFFICES ASSUME i + 1 \in 1 .. count - 1
               PROVE  ranges[i + 1] \in Nat /\ Room(i + 1, ranges[i + 1])
    OBVIOUS
  <2>1. CASE i = 0
    <3>1. ranges[1] = min
      BY <1>18, <2>1
    <3>2. QED
      BY <1>1, <1>2, <2>1, <3>1
  <2>2. CASE i # 0
    <3>1. i \in 1 .. count - 1 /\ i + 1 \in 2 .. count - 1 /\ (i + 1) - 1 = i /\ i + 1 # 1
      BY <2>2
    <3>2. ranges[i] \in Nat /\ Room(i, ranges[i])
      BY <1>20, <3>1
    <3>3. ranges[i + 1] = After(i + 1, ranges[i])
      BY <1>18, <3>1
    <3> HIDE DEF Room, After
    <3>4. QED
      BY <1>5, <3>1, <3>2, <3>3
  <2>3. QED
    BY <2>1, <2>2
<1>21. \A i \in 1 .. count - 1 : ranges[i] \in Nat /\ Room(i, ranges[i])
  <2> HIDE DEF Q
  <2>1. Nat \subseteq Q
    BY <1>19, <1>20, AllNumbers
  <2>2. \A i \in 1 .. count - 1 : i \in Q
    BY <2>1
  <2>3. QED
    BY <2>2 DEF Q
<1>22. ASSUME NEW i \in 2 .. count - 1
       PROVE  ranges[i - 1] < ranges[i] /\ (i = count - 1 => ranges[i] = max)
  <2>1. i \in 1 .. count - 1 /\ i - 1 \in 1 .. count - 1 /\ i # 1
    OBVIOUS
  <2>2. ranges[i] = After(i, ranges[i - 1]) /\ ranges[i - 1] \in Nat /\ Room(i - 1, ranges[i - 1])
    BY <1>18, <1>21, <2>1
  <2> HIDE DEF Room, After
  <2>3. QED
    BY <1>5, <2>2
<1>23. Starts(ranges, min, max, count)
  <2>1. 1 \in 1 .. count - 1 /\ count - 1 \in 2 .. count - 1
    BY <1>2
  <2>2. ranges[1] = min /\ ranges[count - 1] = max
    BY <1>18, <1>22, <2>1
  <2>3. QED
    BY <1>21, <1>22, <2>2 DEF Starts
<1>24. ExponentialHistogram(minimum, maximum, count) =
         Shape("HISTOGRAM", min, max, count, ranges, {})
  BY DEF ExponentialHistogram, min, max, ranges
<1>25. QED
  BY <1>1, <1>2, <1>4, <1>23, <1>24, ShapeRises

-----------------------------------------------------------------------------
\* Rows.

\* Some natural numbers below a bound have a largest, and Max is it.
LEMMA LargestIs ==
  ASSUME NEW n \in Nat, NEW T, T \subseteq 0 .. n, T # {}
  PROVE  Max(T) \in T /\ \A x \in T : x <= Max(T)
<1> DEFINE R == {n - x : x \in T}
<1>1. R \subseteq Nat /\ R # {}
  <2>1. \A x \in T : n - x \in Nat /\ n - x \in R
    OBVIOUS
  <2>2. \A y \in R : \E x \in T : y = n - x
    OBVIOUS
  <2> HIDE DEF R
  <2>3. QED
    BY <2>1, <2>2
<1>2. PICK r \in R : \A y \in R : r <= y
  BY <1>1, Smallest
<1>3. PICK m \in T : r = n - m
  BY <1>2
<1>4. ASSUME NEW x \in T PROVE m >= x
  <2>1. n - x \in R /\ x \in 0 .. n /\ m \in 0 .. n
    OBVIOUS
  <2>2. n - m <= n - x
    BY <1>2, <1>3, <2>1
  <2>3. QED
    BY <2>1, <2>2
<1>5. Max(T) \in T /\ \A x \in T : Max(T) >= x
  BY <1>4 DEF Max
<1>6. \A x \in T : x \in Nat
  OBVIOUS
<1>7. QED
  BY <1>5, <1>6

\* Some natural numbers have a smallest, and Min is it.
LEMMA SmallestIs ==
  ASSUME NEW T, T \subseteq Nat, T # {}
  PROVE  Min(T) \in T
<1>1. \E x \in T : \A y \in T : x <= y
  BY Smallest
<1>2. QED
  BY <1>1 DEF Min

\* A shape and what its buckets count.
Counted(s, counts) ==
  s.bucket_count \in Nat \ {0} /\ counts \in [0 .. s.bucket_count - 1 -> Nat]

\* What the first i buckets count.
Tally(counts, i) == Total(FirstOf(counts, i))

\* It grows bucket by bucket to the total.
LEMMA TallyGrows ==
  ASSUME NEW s, NEW counts, Counted(s, counts)
  PROVE  /\ Tally(counts, 0) = 0 /\ Tally(counts, s.bucket_count) = Total(counts)
         /\ Total(counts) \in Int
         /\ \A i \in 0 .. s.bucket_count : Tally(counts, i) \in Int
         /\ \A i \in 0 .. s.bucket_count - 1 : Tally(counts, i + 1) = Tally(counts, i) + counts[i]
<1> DEFINE n == s.bucket_count
<1>1. n \in Nat \ {0} /\ counts \in [0 .. n - 1 -> Nat]
  BY DEF Counted
<1> HIDE DEF n
<1>2. \A i \in 0 .. n : Numbers(FirstOf(counts, i), i)
  BY <1>1 DEF Numbers, FirstOf
<1>3. Tally(counts, 0) = 0
  <2>1. Numbers(FirstOf(counts, 0), 0)
    BY <1>1, <1>2
  <2>2. QED
    BY <2>1, TotalOfNone DEF Tally
<1>4. FirstOf(counts, n) = counts
  BY <1>1 DEF FirstOf
<1>5. \A i \in 0 .. n : Tally(counts, i) \in Int
  BY <1>2, TotalIsInt DEF Tally
<1>6. ASSUME NEW i \in 0 .. n - 1 PROVE Tally(counts, i + 1) = Tally(counts, i) + counts[i]
  <2>1. Numbers(FirstOf(counts, i), i) /\ Numbers(FirstOf(counts, i + 1), i + 1)
    BY <1>1, <1>2
  <2>2. /\ \A k \in 0 .. i - 1 : FirstOf(counts, i + 1)[k] = FirstOf(counts, i)[k]
        /\ FirstOf(counts, i + 1)[i] = counts[i]
    BY DEF FirstOf
  <2>3. QED
    BY <2>1, <2>2, TotalOfLonger DEF Tally
<1>7. n \in 0 .. n
  BY <1>1
<1>8. QED
  BY <1>3, <1>4, <1>5, <1>6, <1>7 DEF n, Tally

\* The rows, and where WriteAscii has come to.
Rows(s) ==
  [bucket : 0 .. s.bucket_count - 1, current : Nat, past : Int, remaining : Int, dots : BOOLEAN]
Places(s) == [rows : Seq(Rows(s)), past : Int, remaining : Int, next : 0 .. s.bucket_count]

\* The empty buckets behind an empty one end before the last.
LEMMA EmptyEnds ==
  ASSUME NEW s, NEW counts, Counted(s, counts), NEW i \in 0 .. s.bucket_count - 1, counts[i] = 0
  PROVE  /\ EndOfEmpty(s, counts, i) \in i .. s.bucket_count - 1
         /\ \A k \in i .. EndOfEmpty(s, counts, i) : counts[k] = 0
<1> DEFINE n == s.bucket_count
           T == {j \in i .. n - 1 : \A k \in i .. j : counts[k] = 0}
<1>1. n \in Nat \ {0}
  BY DEF Counted
<1>2. i \in T /\ T \subseteq 0 .. n
  BY <1>1
<1>3. Max(T) \in T
  <2> HIDE DEF T
  <2>1. QED
    BY <1>1, <1>2, LargestIs
<1>4. EndOfEmpty(s, counts, i) = Max(T)
  BY DEF EndOfEmpty
<1>5. QED
  BY <1>3, <1>4

\* A row goes to the end of the rows; dots stand for all the empty buckets.
LEMMA RowFromIs ==
  ASSUME NEW s, NEW counts, Counted(s, counts), NEW acc \in Places(s),
         NEW i \in 0 .. s.bucket_count - 1
  PROVE  LET after == RowFrom(s, counts, acc, i)
             last == IF counts[i] = 0 THEN EndOfEmpty(s, counts, i) ELSE i
             row == [bucket |-> i, current |-> counts[i], past |-> acc.past,
                     remaining |-> acc.remaining - counts[i], dots |-> last > i]
         IN  /\ after \in Places(s)
             /\ row \in Rows(s)
             /\ after.rows = Append(acc.rows, row)
             /\ after.past = acc.past + counts[i] /\ after.remaining = acc.remaining - counts[i]
             /\ after.next = last + 1
             /\ last \in i .. s.bucket_count - 1
             /\ last > i => \A k \in i .. last : counts[k] = 0
<1> DEFINE n == s.bucket_count
           end == EndOfEmpty(s, counts, i)
           last == IF counts[i] = 0 THEN end ELSE i
           row == [bucket |-> i, current |-> counts[i], past |-> acc.past,
                   remaining |-> acc.remaining - counts[i], dots |-> last > i]
           after == RowFrom(s, counts, acc, i)
<1>1. n \in Nat \ {0} /\ counts[i] \in Nat
  BY DEF Counted
<1>2. acc.rows \in Seq(Rows(s)) /\ acc.past \in Int /\ acc.remaining \in Int
  BY DEF Places
<1>3. counts[i] = 0 => end \in i .. n - 1 /\ \A k \in i .. end : counts[k] = 0
  BY EmptyEnds
<1> HIDE DEF end
<1>4. last \in i .. n - 1 /\ (last > i => \A k \in i .. last : counts[k] = 0)
  BY <1>1, <1>3
<1>5. (counts[i] = 0 /\ end > i) <=> last > i
  BY <1>1
<1>6. after = [rows |-> Append(acc.rows, [bucket |-> i, current |-> counts[i], past |-> acc.past,
                                          remaining |-> acc.remaining - counts[i],
                                          dots |-> counts[i] = 0 /\ end > i]),
               past |-> acc.past + counts[i], remaining |-> acc.remaining - counts[i],
               next |-> IF counts[i] = 0 /\ end > i THEN end + 1 ELSE i + 1]
  BY DEF RowFrom, end
<1>7. (IF counts[i] = 0 /\ end > i THEN end + 1 ELSE i + 1) = last + 1
  BY <1>1, <1>3
<1>8. (counts[i] = 0 /\ end > i) = (last > i)
  BY <1>5
<1>9. after = [rows |-> Append(acc.rows, row), past |-> acc.past + counts[i],
               remaining |-> acc.remaining - counts[i], next |-> last + 1]
  BY <1>6, <1>7, <1>8
<1>10. (last > i) \in BOOLEAN
  OBVIOUS
<1> DEFINE long == last > i
<1>11. row \in Rows(s)
  <2>1. i \in 0 .. s.bucket_count - 1 /\ acc.remaining - counts[i] \in Int
    BY <1>1, <1>2
  <2>2. long \in BOOLEAN
    BY <1>10
  <2>3. row = [bucket |-> i, current |-> counts[i], past |-> acc.past,
               remaining |-> acc.remaining - counts[i], dots |-> long]
    OBVIOUS
  <2> HIDE DEF long, row
  <2>4. QED
    BY <1>1, <1>2, <2>1, <2>2, <2>3 DEF Rows
<1> HIDE DEF row, last, after
<1>12. last + 1 \in 0 .. n /\ acc.past + counts[i] \in Int /\ acc.remaining - counts[i] \in Int
  BY <1>1, <1>2, <1>4
<1>13. Append(acc.rows, row) \in Seq(Rows(s))
  BY <1>2, <1>11
<1>14. after \in Places(s)
  BY <1>9, <1>12, <1>13 DEF Places
<1>15. QED
  BY <1>4, <1>9, <1>11, <1>14 DEF after, last, row, end

\* Where WriteAscii begins, and where it comes to at its m-th bucket.
Beginning(counts) == [rows |-> << >>, past |-> 0, remaining |-> Total(counts), next |-> 0]
Written(s, counts, acc, m) ==
  IF m - 1 < acc.next \/ (counts[m - 1] = 0 /\ ~PrintEmptyBucket(s, m - 1)) THEN acc
  ELSE RowFrom(s, counts, acc, m - 1)

\* f is WriteAscii's loop.
Writes(s, counts, f) ==
  f = [n \in 0 .. s.bucket_count |->
         IF n = 0 THEN Beginning(counts) ELSE Written(s, counts, f[n - 1], n)]

\* It comes from a place to a place.
LEMMA PlacesFollow ==
  ASSUME NEW s, NEW counts, Counted(s, counts)
  PROVE  /\ Beginning(counts) \in Places(s)
         /\ \A m \in 1 .. s.bucket_count : \A acc \in Places(s) :
              Written(s, counts, acc, m) \in Places(s)
<1>1. s.bucket_count \in Nat \ {0}
  BY DEF Counted
<1>2. Beginning(counts) \in Places(s)
  <2>1. Total(counts) \in Int
    BY TallyGrows
  <2>2. << >> \in Seq(Rows(s)) /\ 0 \in 0 .. s.bucket_count
    BY <1>1
  <2>3. QED
    BY <2>1, <2>2 DEF Beginning, Places
<1>3. ASSUME NEW m \in 1 .. s.bucket_count, NEW acc \in Places(s)
      PROVE  Written(s, counts, acc, m) \in Places(s)
  <2>1. m - 1 \in 0 .. s.bucket_count - 1
    BY <1>1
  <2>2. RowFrom(s, counts, acc, m - 1) \in Places(s)
    BY <2>1, RowFromIs
  <2>3. QED
    BY <2>2 DEF Written
<1>4. QED
  BY <1>2, <1>3

\* The loop is what it gives at all places.
LEMMA WriteAsciiIs ==
  ASSUME NEW s, NEW counts, Counted(s, counts)
  PROVE  \E f : /\ WriteAscii(s, counts) = f[s.bucket_count].rows
                /\ f[0] = Beginning(counts)
                /\ \A i \in 0 .. s.bucket_count - 1 : f[i + 1] = Written(s, counts, f[i], i + 1)
<1> DEFINE n == s.bucket_count
           V == Places(s)
           g == [x \in (1 .. n) \X V |-> Written(s, counts, x[2], x[1])]
<1>1. n \in Nat \ {0} /\ n \in Nat
  BY DEF Counted
<1>2. ASSUME NEW i \in 1 .. n, NEW v \in V
      PROVE  g[<<i, v>>] = Written(s, counts, v, i) /\ g[<<i, v>>] \in V
  <2>1. Written(s, counts, v, i) \in V
    BY PlacesFollow
  <2>2. QED
    BY <2>1
<1>3. g \in [(1 .. n) \X V -> V]
  <2>1. \A x \in (1 .. n) \X V : x = <<x[1], x[2]>> /\ x[1] \in 1 .. n /\ x[2] \in V
    OBVIOUS
  <2>2. g = [x \in (1 .. n) \X V |-> g[x]]
    OBVIOUS
  <2> HIDE DEF g, V
  <2>3. \A x \in (1 .. n) \X V : g[x] \in V
    BY <1>2, <2>1
  <2>4. QED
    BY <2>2, <2>3
<1>4. Beginning(counts) \in V
  BY PlacesFollow
<1> HIDE DEF g, V
<1>5. PICK h \in [0 .. n -> V] : Iterates(g, Beginning(counts), n, h)
  <2> HIDE DEF n
  <2>1. QED
    BY <1>1, <1>3, <1>4, IterationExists
<1>6. Writes(s, counts, h)
  <2>1. ASSUME NEW i \in 0 .. n
        PROVE  h[i] = IF i = 0 THEN Beginning(counts) ELSE Written(s, counts, h[i - 1], i)
    <3>1. h[i] = IF i = 0 THEN Beginning(counts) ELSE g[<<i, h[i - 1]>>]
      BY <1>5 DEF Iterates
    <3>2. i # 0 => i \in 1 .. n /\ i - 1 \in 0 .. n /\ h[i - 1] \in V
      BY <1>1
    <3>3. QED
      BY <1>2, <3>1, <3>2
  <2>2. h = [i \in 0 .. n |-> h[i]]
    OBVIOUS
  <2>3. QED
    BY <2>1, <2>2 DEF Writes
<1> DEFINE f == CHOOSE e : Writes(s, counts, e)
<1>7. Writes(s, counts, f)
  BY <1>6
<1>8. WriteAscii(s, counts) = f[n].rows
  BY DEF WriteAscii, Writes, Beginning, Written
<1> HIDE DEF f
<1>9. \A i \in 0 .. n : f[i] = IF i = 0 THEN Beginning(counts) ELSE Written(s, counts, f[i - 1], i)
  BY <1>7 DEF Writes
<1>10. f[0] = Beginning(counts)
  <2>1. 0 \in 0 .. n
    BY <1>1
  <2>2. QED
    BY <1>9, <2>1
<1>11. ASSUME NEW i \in 0 .. n - 1 PROVE f[i + 1] = Written(s, counts, f[i], i + 1)
  <2>1. i + 1 \in 0 .. n /\ i + 1 # 0 /\ (i + 1) - 1 = i
    BY <1>1
  <2>2. QED
    BY <1>9, <2>1
<1>12. QED
  BY <1>8, <1>10, <1>11

\* A row with dots stands for a bucket.
Under(counts, row, i) == row.dots /\ row.bucket <= i /\ \A j \in row.bucket .. i : counts[j] = 0

\* Bucket i has its row, is under dots, or is empty and has a name.
Shown(s, counts, rows, i) ==
  \/ \E k \in DOMAIN rows : rows[k].bucket = i \/ Under(counts, rows[k], i)
  \/ counts[i] = 0 /\ s.ranges[i] \in s.described

\* The rows are in order and have what came before them and comes behind them.
InOrder(counts, rows) ==
  \A k \in DOMAIN rows :
    /\ rows[k].past = Tally(counts, rows[k].bucket)
    /\ rows[k].past + rows[k].current + rows[k].remaining = Total(counts)
    /\ k > 1 => rows[k - 1].bucket < rows[k].bucket

\* What holds when WriteAscii has come to bucket i: it is in the middle of dots
\* or behind the last row.
WrittenUpTo(s, counts, i, acc) ==
  /\ acc \in Places(s)
  /\ acc.past = Tally(counts, i) /\ acc.remaining = Total(counts) - Tally(counts, i)
  /\ InOrder(counts, acc.rows)
  /\ \A k \in DOMAIN acc.rows : acc.rows[k].bucket < i
  /\ i < acc.next =>
       /\ Len(acc.rows) > 0 /\ acc.rows[Len(acc.rows)].dots
       /\ \A j \in acc.rows[Len(acc.rows)].bucket .. acc.next - 1 : counts[j] = 0
  /\ \A j \in 0 .. i - 1 : Shown(s, counts, acc.rows, j)

\* A bucket that is left out has nothing to count.
LEMMA LeftOutKeeps ==
  ASSUME NEW s, NEW counts, Counted(s, counts), NEW i \in 0 .. s.bucket_count - 1, NEW acc,
         WrittenUpTo(s, counts, i, acc),
         i < acc.next \/ (counts[i] = 0 /\ ~PrintEmptyBucket(s, i))
  PROVE  WrittenUpTo(s, counts, i + 1, acc)
<1> DEFINE rows == acc.rows
           l == Len(rows)
<1>1. /\ acc \in Places(s) /\ rows \in Seq(Rows(s)) /\ acc.next \in Int
      /\ l \in Nat /\ DOMAIN rows = 1 .. l /\ i \in Nat
  BY DEF WrittenUpTo, Places
<1>2. ASSUME NEW k \in DOMAIN rows PROVE rows[k].bucket \in Nat /\ rows[k].bucket < i
  <2>1. rows[k] \in Rows(s)
    BY <1>1
  <2>2. QED
    BY <2>1 DEF WrittenUpTo, Rows
<1>3. i < acc.next => /\ l \in DOMAIN rows /\ rows[l].dots
                      /\ \A j \in rows[l].bucket .. acc.next - 1 : counts[j] = 0
  BY <1>1 DEF WrittenUpTo
<1> HIDE DEF l
<1>4. i < acc.next => counts[i] = 0 /\ Under(counts, rows[l], i)
  <2> SUFFICES ASSUME i < acc.next PROVE counts[i] = 0 /\ Under(counts, rows[l], i)
    OBVIOUS
  <2>1. rows[l].bucket \in Nat /\ rows[l].bucket < i
    BY <1>2, <1>3
  <2>2. i \in rows[l].bucket .. acc.next - 1
        /\ \A j \in rows[l].bucket .. i : j \in rows[l].bucket .. acc.next - 1
    BY <1>1, <2>1
  <2>3. QED
    BY <1>1, <1>3, <2>1, <2>2 DEF Under
<1>5. counts[i] = 0
  BY <1>4
<1>6. Tally(counts, i + 1) = Tally(counts, i)
  <2>1. Tally(counts, i) \in Int /\ Tally(counts, i + 1) = Tally(counts, i) + counts[i]
    <3>1. i \in 0 .. s.bucket_count
      BY DEF Counted
    <3>2. QED
      BY <3>1, TallyGrows
  <2>2. QED
    BY <1>5, <2>1
<1>7. Shown(s, counts, rows, i)
  <2>1. CASE i < acc.next
    BY <1>3, <1>4, <2>1 DEF Shown
  <2>2. CASE ~(i < acc.next)
    BY <2>2 DEF Shown, PrintEmptyBucket
  <2>3. QED
    BY <2>1, <2>2
<1>8. \A j \in 0 .. (i + 1) - 1 : Shown(s, counts, rows, j)
  <2>1. \A j \in 0 .. (i + 1) - 1 : j = i \/ j \in 0 .. i - 1
    BY <1>1
  <2>2. QED
    BY <1>7, <2>1 DEF WrittenUpTo
<1>9. \A k \in DOMAIN rows : rows[k].bucket < i + 1
  BY <1>1, <1>2
<1>10. i + 1 < acc.next => i < acc.next
  BY <1>1
<1>11. QED
  BY <1>6, <1>8, <1>9, <1>10 DEF WrittenUpTo

\* A row shows its bucket, and with dots what comes behind.
LEMMA RowKeeps ==
  ASSUME NEW s, NEW counts, Counted(s, counts), NEW i \in 0 .. s.bucket_count - 1, NEW acc,
         WrittenUpTo(s, counts, i, acc), ~(i < acc.next)
  PROVE  WrittenUpTo(s, counts, i + 1, RowFrom(s, counts, acc, i))
<1> DEFINE rows == acc.rows
           l == Len(rows)
           after == RowFrom(s, counts, acc, i)
           last == IF counts[i] = 0 THEN EndOfEmpty(s, counts, i) ELSE i
           row == [bucket |-> i, current |-> counts[i], past |-> acc.past,
                   remaining |-> acc.remaining - counts[i], dots |-> last > i]
           more == after.rows
<1>1. /\ acc \in Places(s) /\ rows \in Seq(Rows(s)) /\ l \in Nat /\ DOMAIN rows = 1 .. l
      /\ i \in Nat /\ s.bucket_count \in Nat \ {0} /\ counts[i] \in Nat
  BY DEF WrittenUpTo, Places, Counted
<1>2. /\ after \in Places(s) /\ row \in Rows(s)
      /\ more = Append(rows, row)
      /\ after.past = acc.past + counts[i] /\ after.remaining = acc.remaining - counts[i]
      /\ after.next = last + 1 /\ last \in i .. s.bucket_count - 1
      /\ last > i => \A k \in i .. last : counts[k] = 0
  BY <1>1, RowFromIs
<1>3. row.bucket = i /\ row.current = counts[i] /\ row.past = acc.past
      /\ row.remaining = acc.remaining - counts[i] /\ row.dots = (last > i)
  OBVIOUS
<1> HIDE DEF after, last, row
<1>4. /\ more \in Seq(Rows(s)) /\ Len(more) = l + 1 /\ DOMAIN more = 1 .. l + 1
      /\ more[l + 1] = row /\ \A k \in 1 .. l : more[k] = rows[k]
  BY <1>1, <1>2
<1> HIDE DEF more
<1>5. /\ acc.past = Tally(counts, i) /\ acc.remaining = Total(counts) - Tally(counts, i)
      /\ InOrder(counts, rows) /\ \A k \in DOMAIN rows : rows[k].bucket < i
      /\ \A j \in 0 .. i - 1 : Shown(s, counts, rows, j)
  BY DEF WrittenUpTo
<1>6. /\ Tally(counts, i) \in Int /\ Total(counts) \in Int
      /\ Tally(counts, i + 1) = Tally(counts, i) + counts[i]
  <2>1. i \in 0 .. s.bucket_count
    BY <1>1
  <2>2. QED
    BY <2>1, TallyGrows
<1>7. after.past = Tally(counts, i + 1) /\ after.remaining = Total(counts) - Tally(counts, i + 1)
  BY <1>1, <1>2, <1>5, <1>6
<1>8. InOrder(counts, more)
  <2> SUFFICES ASSUME NEW k \in 1 .. l + 1
               PROVE  /\ more[k].past = Tally(counts, more[k].bucket)
                      /\ more[k].past + more[k].current + more[k].remaining = Total(counts)
                      /\ k > 1 => more[k - 1].bucket < more[k].bucket
    BY <1>4 DEF InOrder
  <2>1. CASE k = l + 1
    <3>1. more[k] = row
      BY <1>4, <2>1
    <3>2. row.past = Tally(counts, row.bucket)
          /\ row.past + row.current + row.remaining = Total(counts)
      BY <1>1, <1>3, <1>5, <1>6
    <3>3. k > 1 => more[k - 1].bucket < row.bucket
      <4> SUFFICES ASSUME k > 1 PROVE more[k - 1].bucket < row.bucket
        OBVIOUS
      <4>1. k - 1 \in 1 .. l
        BY <1>1, <2>1
      <4>2. QED
        BY <1>1, <1>3, <1>4, <1>5, <4>1
    <3>4. QED
      BY <3>1, <3>2, <3>3
  <2>2. CASE k # l + 1
    <3>1. k \in 1 .. l /\ (k > 1 => k - 1 \in 1 .. l)
      BY <1>1, <2>2
    <3>2. more[k] = rows[k] /\ (k > 1 => more[k - 1] = rows[k - 1])
      BY <1>4, <3>1
    <3>3. QED
      BY <1>1, <1>5, <3>1, <3>2 DEF InOrder
  <2>3. QED
    BY <2>1, <2>2
<1>9. \A k \in DOMAIN more : more[k].bucket < i + 1
  <2> SUFFICES ASSUME NEW k \in 1 .. l + 1 PROVE more[k].bucket < i + 1
    BY <1>4
  <2>1. CASE k = l + 1
    BY <1>1, <1>3, <1>4, <2>1
  <2>2. CASE k # l + 1
    <3>1. k \in 1 .. l
      BY <1>1, <2>2
    <3>2. rows[k] \in Rows(s) /\ more[k] = rows[k] /\ rows[k].bucket < i
      BY <1>1, <1>4, <1>5, <3>1
    <3>3. rows[k].bucket \in Nat
      BY <3>2 DEF Rows
    <3>4. QED
      BY <1>1, <3>2, <3>3
  <2>3. QED
    BY <2>1, <2>2
<1>10. i + 1 < after.next =>
         /\ Len(more) > 0 /\ more[Len(more)].dots
         /\ \A j \in more[Len(more)].bucket .. after.next - 1 : counts[j] = 0
  <2> SUFFICES ASSUME i + 1 < after.next
               PROVE  /\ Len(more) > 0 /\ more[Len(more)].dots
                      /\ \A j \in more[Len(more)].bucket .. after.next - 1 : counts[j] = 0
    OBVIOUS
  <2>1. last > i /\ after.next - 1 = last
    BY <1>1, <1>2
  <2>2. Len(more) > 0 /\ more[Len(more)] = row
    BY <1>1, <1>4
  <2>3. row.dots
    BY <1>3, <2>1
  <2>4. \A j \in row.bucket .. last : counts[j] = 0
    BY <1>2, <1>3, <2>1
  <2>5. QED
    BY <2>1, <2>2, <2>3, <2>4
<1>11. ASSUME NEW j \in 0 .. (i + 1) - 1 PROVE Shown(s, counts, more, j)
  <2>1. CASE j = i
    <3>1. l + 1 \in DOMAIN more /\ more[l + 1].bucket = i
      BY <1>1, <1>3, <1>4
    <3>2. QED
      BY <2>1, <3>1 DEF Shown
  <2>2. CASE j # i
    <3>1. j \in 0 .. i - 1
      BY <1>1, <2>2
    <3>2. Shown(s, counts, rows, j)
      BY <1>5, <3>1
    <3>3. \A k \in DOMAIN rows : k \in DOMAIN more /\ more[k] = rows[k]
      BY <1>1, <1>4
    <3>4. QED
      BY <3>2, <3>3 DEF Shown
  <2>3. QED
    BY <2>1, <2>2
<1>12. QED
  BY <1>2, <1>7, <1>8, <1>9, <1>10, <1>11 DEF WrittenUpTo, more, after

\* The rows of all buckets.
LEMMA AllRows ==
  ASSUME NEW s, NEW counts, Counted(s, counts)
  PROVE  LET rows == WriteAscii(s, counts)
         IN  InOrder(counts, rows) /\ \A i \in DOMAIN counts : Shown(s, counts, rows, i)
<1> DEFINE n == s.bucket_count
<1>1. n \in Nat \ {0} /\ DOMAIN counts = 0 .. n - 1
  BY DEF Counted
<1>2. PICK f : /\ WriteAscii(s, counts) = f[n].rows
               /\ f[0] = Beginning(counts)
               /\ \A i \in 0 .. n - 1 : f[i + 1] = Written(s, counts, f[i], i + 1)
  BY WriteAsciiIs
<1> DEFINE P == {i \in Nat : i <= n => WrittenUpTo(s, counts, i, f[i])}
<1>3. 0 \in P
  <2>1. Beginning(counts) \in Places(s) /\ Tally(counts, 0) = 0 /\ Total(counts) \in Int
    BY PlacesFollow, TallyGrows
  <2>2. /\ Beginning(counts).rows = << >> /\ Beginning(counts).past = 0
        /\ Beginning(counts).remaining = Total(counts) /\ Beginning(counts).next = 0
    BY DEF Beginning
  <2>3. DOMAIN << >> = {}
    OBVIOUS
  <2>4. WrittenUpTo(s, counts, 0, Beginning(counts))
    BY <2>1, <2>2, <2>3 DEF WrittenUpTo, InOrder
  <2>5. QED
    BY <1>2, <2>4
<1>4. ASSUME NEW i \in Nat, i \in P PROVE i + 1 \in P
  <2> SUFFICES ASSUME i + 1 <= n PROVE WrittenUpTo(s, counts, i + 1, f[i + 1])
    OBVIOUS
  <2>1. i \in 0 .. n - 1 /\ WrittenUpTo(s, counts, i, f[i]) /\ (i + 1) - 1 = i
    BY <1>1, <1>4
  <2>2. f[i + 1] = IF i < f[i].next \/ (counts[i] = 0 /\ ~PrintEmptyBucket(s, i)) THEN f[i]
                   ELSE RowFrom(s, counts, f[i], i)
    BY <1>2, <2>1 DEF Written
  <2> HIDE DEF n, P
  <2>3. CASE i < f[i].next \/ (counts[i] = 0 /\ ~PrintEmptyBucket(s, i))
    BY <2>1, <2>2, <2>3, LeftOutKeeps DEF n
  <2>4. CASE ~(i < f[i].next \/ (counts[i] = 0 /\ ~PrintEmptyBucket(s, i)))
    BY <2>1, <2>2, <2>4, RowKeeps DEF n
  <2>5. QED
    BY <2>3, <2>4
<1>5. n \in P
  <2> HIDE DEF P
  <2>1. QED
    BY <1>1, <1>3, <1>4, AllNumbers
<1>6. WrittenUpTo(s, counts, n, f[n])
  BY <1>1, <1>5
<1> HIDE DEF n, P
<1>7. QED
  BY <1>1, <1>2, <1>6 DEF WrittenUpTo

\* Fractions: AtMost is an order on those that are not negative.
Fraction(a) == a.num \in Nat /\ a.den \in Nat \ {0}

LEMMA AtMostOrders ==
  ASSUME NEW a, NEW b, NEW c, Fraction(a), Fraction(b), Fraction(c)
  PROVE  AtMost(a, a) /\ (AtMost(a, b) \/ AtMost(b, a))
         /\ (AtMost(a, b) /\ AtMost(b, c) => AtMost(a, c))
<1> DEFINE p == a.num
           q == a.den
           r == b.num
           t == b.den
           u == c.num
           v == c.den
<1>1. p \in Nat /\ q \in Nat \ {0} /\ r \in Nat /\ t \in Nat \ {0} /\ u \in Nat /\ v \in Nat \ {0}
  BY DEF Fraction
<1>2. /\ AtMost(a, a) <=> p * q <= p * q
      /\ AtMost(a, b) <=> p * t <= r * q
      /\ AtMost(b, a) <=> r * q <= p * t
      /\ AtMost(b, c) <=> r * v <= u * t
      /\ AtMost(a, c) <=> p * v <= u * q
  BY DEF AtMost
<1> HIDE DEF p, q, r, t, u, v
<1>3. p * q \in Nat /\ p * t \in Nat /\ r * q \in Nat /\ r * v \in Nat /\ u * t \in Nat
      /\ p * v \in Nat /\ u * q \in Nat
  <2>1. \A x, y \in Nat : x * y \in Nat
    OBVIOUS
  <2>2. QED
    BY <1>1, <2>1
<1>4. ASSUME p * t <= r * q, r * v <= u * t PROVE p * v <= u * q
  <2>1. (p * t) * v <= (r * q) * v
    BY <1>1, <1>3, <1>4, ProductsKeepOrder
  <2>2. (r * v) * q <= (u * t) * q
    BY <1>1, <1>3, <1>4, ProductsKeepOrder
  <2>3. (p * t) * v = t * (p * v) /\ (r * q) * v = (r * v) * q /\ (u * t) * q = t * (u * q)
    BY <1>1
  <2>4. t * (p * v) <= t * (u * q)
    <3>1. t * (p * v) \in Int /\ (r * v) * q \in Int /\ t * (u * q) \in Int
      BY <1>1, <1>3
    <3>2. QED
      BY <2>1, <2>2, <2>3, <3>1
  <2>5. ASSUME NEW x \in Nat, NEW y \in Nat, t * x <= t * y PROVE x <= y
    BY <1>1, <2>5
  <2>6. QED
    BY <1>3, <2>4, <2>5
<1>5. p * t <= r * q \/ r * q <= p * t
  BY <1>3
<1>6. p * q <= p * q
  BY <1>3
<1>7. QED
  BY <1>2, <1>4, <1>5, <1>6

\* The sizes of buckets are fractions.
LEMMA SizesAreFractions ==
  ASSUME NEW s, Rising(s), NEW counts, Counted(s, counts), NEW i \in 0 .. s.bucket_count - 1
  PROVE  LET size == GetBucketSize(s, counts[i], i) IN Fraction(size) /\ size.num = counts[i]
<1>1. Width(s, i) \in Nat \ {0}
  <2>1. i \in 0 .. s.bucket_count /\ i + 1 \in 0 .. s.bucket_count /\ i + 1 \in 1 .. s.bucket_count
        /\ (i + 1) - 1 = i
    BY DEF Counted
  <2>2. s.ranges[i] \in Nat /\ s.ranges[i + 1] \in Nat /\ s.ranges[i] < s.ranges[i + 1]
    BY <2>1 DEF Rising
  <2>3. QED
    BY <2>2 DEF Width
<1>2. Least(Width(s, i), kTransitionWidth) \in Nat \ {0}
  BY <1>1 DEF Least, kTransitionWidth
<1>3. counts[i] \in Nat
  BY DEF Counted
<1> DEFINE den == CASE s.type = "CUSTOM_HISTOGRAM" -> 1
                    [] s.type = "HISTOGRAM" -> Least(Width(s, i), kTransitionWidth)
                    [] OTHER -> Width(s, i)
<1>4. GetBucketSize(s, counts[i], i) = [num |-> counts[i], den |-> den]
  BY DEF GetBucketSize
<1>5. den \in Nat \ {0}
  <2>1. CASE s.type = "CUSTOM_HISTOGRAM"
    BY <2>1
  <2>2. CASE s.type = "HISTOGRAM"
    BY <1>2, <2>2
  <2>3. CASE s.type # "CUSTOM_HISTOGRAM" /\ s.type # "HISTOGRAM"
    BY <1>1, <2>3
  <2>4. QED
    BY <2>1, <2>2, <2>3
<1> HIDE DEF den
<1>6. QED
  BY <1>3, <1>4, <1>5 DEF Fraction

\* One bucket has the peak, and no other has more.
LEMMA PeakIs ==
  ASSUME NEW s, Rising(s), NEW counts, Counted(s, counts)
  PROVE  LET Size(i) == GetBucketSize(s, counts[i], i)
             peak == GetPeakBucketSize(s, counts)
         IN  /\ \E i \in DOMAIN counts : peak = Size(i)
             /\ \A i \in DOMAIN counts : AtMost(Size(i), peak)
<1> DEFINE n == s.bucket_count
           Size(i) == GetBucketSize(s, counts[i], i)
           peak == GetPeakBucketSize(s, counts)
           sizes == {Size(i) : i \in DOMAIN counts}
<1>1. n \in Nat \ {0} /\ DOMAIN counts = 0 .. n - 1
  BY DEF Counted
<1>2. \A i \in 0 .. n - 1 : Fraction(Size(i))
  BY SizesAreFractions
<1>3. peak = CHOOSE p \in sizes : \A size \in sizes : AtMost(size, p)
  BY DEF GetPeakBucketSize
<1> HIDE DEF Size, peak, n
<1> DEFINE P == {k \in Nat : k < n => \E i \in 0 .. k : \A j \in 0 .. k : AtMost(Size(j), Size(i))}
<1>4. 0 \in P
  <2>1. 0 \in 0 .. n - 1 /\ 0 .. 0 = {0}
    BY <1>1
  <2>2. AtMost(Size(0), Size(0))
    BY <1>2, <2>1, AtMostOrders
  <2>3. QED
    BY <2>1, <2>2
<1>5. ASSUME NEW k \in Nat, k \in P PROVE k + 1 \in P
  <2> SUFFICES ASSUME k + 1 < n
               PROVE  \E i \in 0 .. k + 1 : \A j \in 0 .. k + 1 : AtMost(Size(j), Size(i))
    OBVIOUS
  <2>1. PICK i \in 0 .. k : \A j \in 0 .. k : AtMost(Size(j), Size(i))
    BY <1>1, <1>5
  <2>2. /\ i \in 0 .. n - 1 /\ k + 1 \in 0 .. n - 1 /\ i \in 0 .. k + 1 /\ k + 1 \in 0 .. k + 1
        /\ \A j \in 0 .. k + 1 : j = k + 1 \/ j \in 0 .. k
        /\ \A j \in 0 .. k : j \in 0 .. n - 1
    BY <1>1
  <2>3. Fraction(Size(i)) /\ Fraction(Size(k + 1)) /\ \A j \in 0 .. k : Fraction(Size(j))
    BY <1>2, <2>2
  <2>4. CASE AtMost(Size(k + 1), Size(i))
    BY <2>1, <2>2, <2>4
  <2>5. CASE AtMost(Size(i), Size(k + 1))
    <3>1. \A j \in 0 .. k : AtMost(Size(j), Size(k + 1))
      BY <2>1, <2>3, <2>5, AtMostOrders
    <3>2. AtMost(Size(k + 1), Size(k + 1))
      BY <2>3, AtMostOrders
    <3>3. QED
      BY <2>2, <3>1, <3>2
  <2>6. QED
    BY <2>3, <2>4, <2>5, AtMostOrders
<1> HIDE DEF P
<1>6. n - 1 \in P /\ n - 1 < n
  BY <1>1, <1>4, <1>5, AllNumbers
<1>7. PICK i \in 0 .. n - 1 : \A j \in 0 .. n - 1 : AtMost(Size(j), Size(i))
  BY <1>6 DEF P
<1>8. peak \in sizes /\ \A size \in sizes : AtMost(size, peak)
  <2>1. Size(i) \in sizes /\ \A size \in sizes : AtMost(size, Size(i))
    BY <1>1, <1>7
  <2> HIDE DEF sizes
  <2>2. QED
    BY <1>3, <2>1
<1>9. /\ \E j \in DOMAIN counts : peak = Size(j)
      /\ \A j \in DOMAIN counts : AtMost(Size(j), peak)
  BY <1>8
<1>10. QED
  BY <1>9 DEF Size, peak

\* A bar is as long as the line at most, and that of the peak is.
LEMMA BarsFit ==
  ASSUME NEW size, NEW peak, Fraction(size), Fraction(peak), AtMost(size, peak), peak.num > 0
  PROVE  BarLength(size, peak) \in 0 .. k_line_length
         /\ (size = peak => BarLength(size, peak) = k_line_length)
<1> DEFINE x == size.num * peak.den
           y == size.den * peak.num
           a == 144 * x + y
           m == 2 * y
<1>1. size.num \in Nat /\ size.den \in Nat \ {0} /\ peak.num \in Nat \ {0} /\ peak.den \in Nat \ {0}
  BY DEF Fraction
<1>2. x \in Nat /\ y \in Nat \ {0} /\ peak.num * size.den = y
  <2>1. \A v, w \in Nat : v * w \in Nat
    OBVIOUS
  <2>2. \A v, w \in Nat \ {0} : v * w # 0
    OBVIOUS
  <2>3. QED
    BY <1>1, <2>1, <2>2
<1>3. x <= y
  BY <1>2 DEF AtMost
<1>4. size = peak => x = y
  BY <1>1
<1>5. BarLength(size, peak) = a \div m
  <2>1. 2 * 72 * size.num * peak.den = 144 * x
    BY <1>1
  <2>2. 2 * size.den * peak.num = m
    BY <1>1
  <2>3. BarLength(size, peak) = (2 * 72 * size.num * peak.den + y) \div (2 * size.den * peak.num)
    BY DEF BarLength, k_line_length
  <2> HIDE DEF x, y, m
  <2>4. QED
    BY <2>1, <2>2, <2>3
<1> HIDE DEF x, y
<1>6. a \in Nat /\ m \in Nat \ {0}
  BY <1>2
<1>7. a \div m \in Nat /\ m * (a \div m) <= a
  <2> HIDE DEF a, m
  <2>1. QED
    BY <1>6, Quotient
<1>8. a \div m <= 72
  <2> SUFFICES ASSUME a \div m > 72 PROVE FALSE
    BY <1>7
  <2> DEFINE q == a \div m
  <2>1. q \in Nat /\ q >= 73 /\ m * q <= a
    BY <1>7
  <2> HIDE DEF q
  <2>2. m * 73 <= m * q /\ m * q \in Nat
    BY <1>6, <2>1, ProductsKeepOrder
  <2>3. QED
    BY <1>2, <1>3, <2>1, <2>2
<1>9. ASSUME size = peak PROVE a \div m = 72
  <2>1. m * 72 <= a /\ a < m * 72 + m
    BY <1>2, <1>4, <1>9
  <2> HIDE DEF a, m
  <2>2. QED
    BY <1>6, <2>1, QuotientIs
<1>10. QED
  BY <1>5, <1>7, <1>8, <1>9 DEF k_line_length

\* If anything is counted, the longest bar fills the line.
LEMMA BarsFillTheLine ==
  ASSUME NEW s, Rising(s), NEW counts, Counted(s, counts), Total(counts) > 0
  PROVE  LET peak == GetPeakBucketSize(s, counts)
             bars == {BarLength(GetBucketSize(s, counts[i], i), peak) : i \in DOMAIN counts}
         IN  Max(bars) = k_line_length /\ Min(bars) >= 0
<1> DEFINE n == s.bucket_count
           Size(i) == GetBucketSize(s, counts[i], i)
           peak == GetPeakBucketSize(s, counts)
           bars == {BarLength(Size(i), peak) : i \in DOMAIN counts}
<1>1. n \in Nat \ {0} /\ DOMAIN counts = 0 .. n - 1 /\ counts \in [0 .. n - 1 -> Nat]
  BY DEF Counted
<1>2. \A i \in 0 .. n - 1 : Fraction(Size(i)) /\ Size(i).num = counts[i]
  BY SizesAreFractions
<1>3. PICK top \in DOMAIN counts : peak = Size(top)
  BY PeakIs
<1>4. \A i \in DOMAIN counts : AtMost(Size(i), peak)
  BY PeakIs
<1> HIDE DEF Size, peak
<1>5. PICK full \in 0 .. n - 1 : counts[full] # 0
  <2>1. Numbers(counts, n)
    BY <1>1 DEF Numbers
  <2>2. \E i \in 0 .. n - 1 : counts[i] # 0
    BY <2>1, TotalOfNone
  <2>3. QED
    BY <2>2
<1>6. Fraction(peak) /\ peak.num > 0
  <2>1. Fraction(peak)
    BY <1>1, <1>2, <1>3
  <2>2. /\ Size(full).num \in Nat \ {0} /\ Size(full).den \in Nat \ {0}
        /\ peak.num \in Nat /\ peak.den \in Nat \ {0}
    BY <1>1, <1>2, <1>5, <2>1 DEF Fraction
  <2>3. Size(full).num * peak.den <= peak.num * Size(full).den
    BY <1>1, <1>4 DEF AtMost
  <2>4. ASSUME NEW a \in Nat \ {0}, NEW b \in Nat \ {0}, NEW c \in Nat, NEW d \in Nat \ {0},
               a * d <= c * b
        PROVE  c > 0
    <3>1. a * d > 0 /\ 0 * b = 0
      OBVIOUS
    <3>2. QED
      BY <2>4, <3>1
  <2>5. QED
    BY <2>1, <2>2, <2>3, <2>4
<1>7. ASSUME NEW i \in DOMAIN counts
      PROVE  BarLength(Size(i), peak) \in 0 .. k_line_length
             /\ (Size(i) = peak => BarLength(Size(i), peak) = k_line_length)
  BY <1>1, <1>2, <1>4, <1>6, BarsFit
<1>8. bars \subseteq 0 .. k_line_length /\ k_line_length \in bars
  BY <1>3, <1>7
<1>9. bars # {} /\ bars \subseteq Nat /\ k_line_length \in Nat
  BY <1>8 DEF k_line_length
<1> HIDE DEF bars
<1>10. Max(bars) \in bars /\ \A x \in bars : x <= Max(bars)
  BY <1>8, <1>9, LargestIs
<1>11. Max(bars) = k_line_length
  <2>1. Max(bars) \in 0 .. k_line_length /\ k_line_length <= Max(bars)
    BY <1>8, <1>10
  <2>2. QED
    BY <1>9, <2>1
<1>12. Min(bars) >= 0
  <2>1. Min(bars) \in Nat
    BY <1>9, SmallestIs
  <2>2. QED
    BY <2>1
<1>13. QED
  BY <1>11, <1>12 DEF bars, Size, peak

\* A printed histogram is complete: whatever its shape, whichever threads have
\* sampled it and however many samples they lost, its rows account for every
\* bucket, each says truly what lies before and behind it, and no bar leaves
\* the line.
THEOREM RowsAreComplete ==
  ASSUME HistogramAssumptions
  PROVE  Spec => []RowsAddUp
<1>1. ASSUME HistogramInvariant PROVE RowsAddUp
  <2> DEFINE counts == Counts(sample_)
             rows == WriteAscii(shape, counts)
             n == shape.bucket_count
  <2>1. HTypes /\ Rising(shape) /\ n \in Nat \ {0} /\ Words = 0 .. n + 1
    BY <1>1, ShapeFacts DEF HistogramInvariant
  <2>2. counts \in [0 .. n - 1 -> Nat]
    <3>1. \A i \in 0 .. n - 1 : i \in Words
      BY <2>1
    <3>2. QED
      BY <2>1, <3>1 DEF HTypes, Counts
  <2>3. Counted(shape, counts)
    BY <2>1, <2>2 DEF Counted
  <2> HIDE DEF counts
  <2>4. InOrder(counts, rows) /\ \A i \in DOMAIN counts : Shown(shape, counts, rows, i)
    BY <2>3, AllRows
  <2> DEFINE peak == GetPeakBucketSize(shape, counts)
             bars == {BarLength(GetBucketSize(shape, counts[i], i), peak) : i \in DOMAIN counts}
  <2>5. Total(counts) > 0 => Max(bars) = k_line_length /\ Min(bars) >= 0
    BY <2>1, <2>3, BarsFillTheLine
  <2> HIDE DEF rows, bars, peak
  <2> DEFINE Before(i) == Total([j \in 0 .. i - 1 |-> counts[j]])
             Covers(dots, i) ==
               dots.dots /\ dots.bucket <= i /\ \A j \in dots.bucket .. i : counts[j] = 0
  <2>6. \A i \in DOMAIN counts :
          \/ \E k \in DOMAIN rows : rows[k].bucket = i \/ Covers(rows[k], i)
          \/ counts[i] = 0 /\ shape.ranges[i] \in shape.described
    BY <2>4 DEF Shown, Under
  <2>7. \A k \in DOMAIN rows :
          /\ rows[k].past = Before(rows[k].bucket)
          /\ rows[k].past + rows[k].current + rows[k].remaining = Total(counts)
          /\ k > 1 => rows[k - 1].bucket < rows[k].bucket
    BY <2>4 DEF InOrder, Tally, FirstOf
  <2>8. QED
    BY <2>5, <2>6, <2>7 DEF RowsAddUp, counts, rows, bars, peak
<1>2. QED
  BY <1>1, InvariantHolds, PTL
=============================================================================
