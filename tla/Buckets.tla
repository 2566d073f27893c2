------------------------------ MODULE Buckets ------------------------------
(***************************************************************************)
(* The buckets of the histograms of metrics/histogram: how each kind of    *)
(* histogram divides the samples from 0 to kSampleType_MAX, which bucket a *)
(* sample falls into, and the rows a histogram is printed in.  ranges[i]   *)
(* is the smallest sample of bucket i, and ranges[bucket_count] the end.   *)
(***************************************************************************)
EXTENDS Integers, Sequences, FiniteSets, SequencesExt

CONSTANT kSampleType_MAX   \* INT_MAX in the code

Greater(a, b) == IF a > b THEN a ELSE b
Least(a, b) == IF a < b THEN a ELSE b

\* The sum of counts[0], counts[1] and so on.
Total(counts) ==
  LET total[n \in 0 .. Cardinality(DOMAIN counts)] ==
        IF n = 0 THEN 0 ELSE total[n - 1] + counts[n - 1]
  IN  total[Cardinality(DOMAIN counts)]

\* A histogram without its samples.  Samples in described have a name.
Shape(type, min, max, count, ranges, described) ==
  [type |-> type, declared_min |-> min, declared_max |-> max, bucket_count |-> count,
   ranges |-> [i \in 0 .. count |->
                 IF i = 0 THEN 0 ELSE IF i = count THEN kSampleType_MAX ELSE ranges[i]],
   described |-> described]

\* Defensive code of the factories.
Minimum(minimum) == Greater(minimum, 1)
Maximum(maximum) == Least(maximum, kSampleType_MAX - 1)

\* What a valid histogram is asked for.
Valid(min, max, count) == max > min /\ count > 2 /\ count <= max - min + 2

-----------------------------------------------------------------------------
\* Ranges.

\* base ^ k, for the provers.
Power(base, k) ==
  LET power[n \in 0 .. k] == IF n = 0 THEN 1 ELSE base * power[n - 1] IN power[k]

\* current * (max / current) ^ (1 / k), rounded: the code takes logarithms.
\* Twice a whole number is never odd, so there are no ties.
NextStart(current, max, k) ==
  CHOOSE n \in 0 .. kSampleType_MAX :
    LET power == Power(2, k) * Power(current, k - 1) * max
    IN  (IF n = 0 THEN 0 ELSE Power(2 * n - 1, k)) <= power /\ power < Power(2 * n + 1, k)

\* Bug: the root is taken of one bucket too many.
ExponentialRanges_Short(min, max, count) ==
  LET start[i \in 1 .. count - 1] ==
        IF i = 1 THEN min
        ELSE Greater(start[i - 1] + 1, NextStart(start[i - 1], max, count - i + 1))
  IN  start

\* Equal ratios, in steps of one at least.
ExponentialRanges(min, max, count) ==
  LET start[i \in 1 .. count - 1] ==
        IF i = 1 THEN min
        ELSE Greater(start[i - 1] + 1, NextStart(start[i - 1], max, count - i))
  IN  start

\* Equal widths, rounded.
LinearRanges(min, max, count) ==
  [i \in 1 .. count - 1 |->
     LET n == min * (count - 1 - i) + max * (i - 1) IN (2 * n + count - 2) \div (2 * (count - 2))]

ExponentialHistogram(minimum, maximum, count) ==
  LET min == Minimum(minimum)
      max == Maximum(maximum)
  IN  Shape("HISTOGRAM", min, max, count, ExponentialRanges(min, max, count), {})

LinearHistogram(minimum, maximum, count, described) ==
  LET min == Minimum(minimum)
      max == Maximum(maximum)
  IN  Shape("LINEAR_HISTOGRAM", min, max, count, LinearRanges(min, max, count), described)

BooleanHistogram == [LinearHistogram(1, 2, 3, {}) EXCEPT !.type = "BOOLEAN_HISTOGRAM"]

\* A guard bucket behind each value.
ArrayToCustomRanges(values) == values \cup {v + 1 : v \in values}

\* The values and zero, each once, in their order; at least one beside zero.
CustomHistogram(values) ==
  LET given == values \cup {0}
      starts == IF Cardinality(given) <= 1 THEN given \cup {1} ELSE given
      Start(i) == CHOOSE v \in starts : Cardinality({w \in starts : w < v}) = i
      count == Cardinality(starts)
  IN  Shape("CUSTOM_HISTOGRAM", Start(1), Start(count - 1), count,
            [i \in 1 .. count - 1 |-> Start(i)], {})

-----------------------------------------------------------------------------
\* The bucket of a sample.

\* Add forces samples between the ends.
Clamped(value) == Greater(0, Least(value, kSampleType_MAX - 1))

\* A binary search between under and over.
BucketIndex(shape, value) ==
  LET search[r \in {x \in (0 .. shape.bucket_count) \X (0 .. shape.bucket_count) : x[1] <= x[2]}] ==
        LET mid == r[1] + (r[2] - r[1]) \div 2
        IN  IF mid = r[1] THEN mid
            ELSE IF shape.ranges[mid] <= value THEN search[<<mid, r[2]>>] ELSE search[<<r[1], mid>>]
  IN  search[<<0, shape.bucket_count>>]

-----------------------------------------------------------------------------
\* Rows.  Sizes are fractions.

kTransitionWidth == 5

Width(shape, i) == shape.ranges[i + 1] - shape.ranges[i]

\* How dense a bucket is: custom buckets count as they are, exponential ones
\* up to a width.
GetBucketSize(shape, current, i) ==
  [num |-> current,
   den |-> CASE shape.type = "CUSTOM_HISTOGRAM" -> 1
             [] shape.type = "HISTOGRAM" -> Least(Width(shape, i), kTransitionWidth)
             [] OTHER -> Width(shape, i)]

AtMost(a, b) == a.num * b.den <= b.num * a.den

GetPeakBucketSize(shape, counts) ==
  LET sizes == {GetBucketSize(shape, counts[i], i) : i \in DOMAIN counts}
  IN  CHOOSE peak \in sizes : \A size \in sizes : AtMost(size, peak)

k_line_length == 72

\* The length of the bar of a bucket.
BarLength(size, peak) ==
  (2 * k_line_length * size.num * peak.den + size.den * peak.num) \div (2 * size.den * peak.num)

PrintEmptyBucket(shape, i) == shape.ranges[i] \notin shape.described

\* Bug: the dots swallow the bucket behind them.
EndOfEmpty_Beyond(shape, counts, i) ==
  Max({j \in i .. shape.bucket_count - 1 : \A k \in i .. j - 1 : counts[k] = 0})

\* The last of the empty buckets from i on.
EndOfEmpty(shape, counts, i) ==
  Max({j \in i .. shape.bucket_count - 1 : \A k \in i .. j : counts[k] = 0})

\* What stands for bucket i in the rows, and where they go on: a run of empty
\* buckets is one row with dots.
RowFrom(shape, counts, acc, i) ==
  LET current == counts[i]
      last == EndOfEmpty(shape, counts, i)
      remaining == acc.remaining - current
      row == [bucket |-> i, current |-> current, past |-> acc.past, remaining |-> remaining,
              dots |-> current = 0 /\ last > i]
  IN  [rows |-> Append(acc.rows, row), past |-> acc.past + current, remaining |-> remaining,
       next |-> IF row.dots THEN last + 1 ELSE i + 1]

WriteAscii(shape, counts) ==
  LET acc[n \in 0 .. shape.bucket_count] ==
        IF n = 0 THEN [rows |-> << >>, past |-> 0, remaining |-> Total(counts), next |-> 0]
        ELSE IF n - 1 < acc[n - 1].next \/ (counts[n - 1] = 0 /\ ~PrintEmptyBucket(shape, n - 1))
        THEN acc[n - 1]
        ELSE RowFrom(shape, counts, acc[n - 1], n - 1)
  IN  acc[shape.bucket_count].rows

-----------------------------------------------------------------------------
kCommonRaceBasedCountMismatch == 1

\* What is wrong with the ranges, or between a snapshot and its redundant
\* count.  (The checksum of the ranges is the ranges, which nothing changes.)
FindCorruption(shape, counts, redundantCount) ==
  LET delta == redundantCount - Total(counts)
  IN  (IF \E i \in 1 .. shape.bucket_count - 1 : shape.ranges[i - 1] >= shape.ranges[i]
       THEN {"BUCKET_ORDER_ERROR"} ELSE {})
        \cup (IF delta > kCommonRaceBasedCountMismatch THEN {"COUNT_HIGH_ERROR"} ELSE {})
        \cup (IF -delta > kCommonRaceBasedCountMismatch THEN {"COUNT_LOW_ERROR"} ELSE {})

ValidateBucketRanges(shape) ==
  /\ shape.ranges[0] = 0
  /\ shape.ranges[1] = shape.declared_min
  /\ shape.ranges[shape.bucket_count - 1] = shape.declared_max
  /\ shape.ranges[shape.bucket_count] = kSampleType_MAX
=============================================================================
