----------------------------- MODULE Histogram -----------------------------
(***************************************************************************)
(* A histogram and the threads that use it.  sample_ is an array of words: *)
(* the counts of the buckets, the sum and the redundant count, in the      *)
(* order of the members.  Nothing locks it: each += is a load and a store, *)
(* and a snapshot is a copy, word by word.                                 *)
(***************************************************************************)
EXTENDS Buckets

CONSTANTS
  Shapes,        \* histograms to choose from
  Threads,       \* threads that may add samples
  Samples,       \* samples they add
  MaxSamples,    \* bound on the samples
  MaxSnapshots   \* bound on the snapshots

VARIABLES
  shape,      \* the histogram
  samplers,   \* the threads that add samples to it
  sample_,    \* word -> value
  todo,       \* thread -> additions its call has still to make
  loaded,     \* thread -> the value its next addition starts from, or Unloaded
  given,      \* history: the samples given to Add and AddSampleSet, in order
  snapshot,   \* word -> value, as far as the snapshot has come
  snapshots,  \* snapshots begun
  settled     \* history: samples all of whose words were stored before it

vars == <<shape, samplers, sample_, todo, loaded, given, snapshot, snapshots, settled>>

Unloaded == -1000

SumWord == shape.bucket_count
RedundantWord == shape.bucket_count + 1
Words == 0 .. RedundantWord

Counts(words) == [i \in 0 .. shape.bucket_count - 1 |-> words[i]]

Init ==
  /\ shape \in Shapes
  /\ samplers \in SUBSET Threads \ {{}}
  /\ sample_ = [w \in Words |-> 0]
  /\ todo = [t \in Threads |-> << >>]
  /\ loaded = [t \in Threads |-> Unloaded]
  /\ given = << >>
  /\ snapshot = << >>
  /\ snapshots = 0
  /\ settled = 0

Plus(word, delta) == [word |-> word, delta |-> delta]

\* SampleSet::Accumulate: one sample.
Accumulate(value) ==
  <<Plus(BucketIndex(shape, value), 1), Plus(SumWord, value), Plus(RedundantWord, 1)>>

\* SampleSet::Add: the words of another set, sum and redundant count first.
AddWords(other) ==
  <<Plus(SumWord, other[SumWord]), Plus(RedundantWord, other[RedundantWord])>>
    \o [i \in 1 .. shape.bucket_count |-> Plus(i - 1, other[i - 1])]

\* A set of one sample that was accumulated n times.
SetOf(value, n) ==
  [w \in Words |-> IF w = SumWord THEN n * value
                   ELSE IF w \in {RedundantWord, BucketIndex(shape, value)} THEN n ELSE 0]

Called(t, additions, samples) ==
  /\ todo[t] = << >>
  /\ Len(given) + Len(samples) <= MaxSamples
  /\ todo' = [todo EXCEPT ![t] = additions]
  /\ given' = given \o samples
  /\ UNCHANGED <<shape, samplers, sample_, loaded, snapshot, snapshots, settled>>

Add(t, value) == Called(t, Accumulate(Clamped(value)), <<Clamped(value)>>)

AddSampleSet(t, value) ==
  Called(t, AddWords(SetOf(Clamped(value), 2)), <<Clamped(value), Clamped(value)>>)

Load(t) ==
  /\ todo[t] # << >> /\ loaded[t] = Unloaded
  /\ loaded' = [loaded EXCEPT ![t] = sample_[Head(todo[t]).word]]
  /\ UNCHANGED <<shape, samplers, sample_, todo, given, snapshot, snapshots, settled>>

Store(t) ==
  /\ loaded[t] # Unloaded
  /\ sample_' = [sample_ EXCEPT ![Head(todo[t]).word] = loaded[t] + Head(todo[t]).delta]
  /\ todo' = [todo EXCEPT ![t] = Tail(@)]
  /\ loaded' = [loaded EXCEPT ![t] = Unloaded]
  /\ UNCHANGED <<shape, samplers, given, snapshot, snapshots, settled>>

\* Samples of calls that have not returned.
Pending == Cardinality({t \in samplers : todo[t] # << >>})

\* SnapshotSample begins; a sampler adds one sample or two at a time.
Snapshot ==
  /\ snapshots < MaxSnapshots
  /\ snapshots' = snapshots + 1
  /\ snapshot' = << >>
  /\ settled' = Len(given) - 2 * Pending
  /\ UNCHANGED <<shape, samplers, sample_, todo, loaded, given>>

\* Bug: the last word is copied first.
NextWord_Backwards == RedundantWord - Cardinality(DOMAIN snapshot)

NextWord == Cardinality(DOMAIN snapshot)

Copied == Cardinality(DOMAIN snapshot) > RedundantWord

Copy ==
  /\ snapshots > 0 /\ ~Copied
  /\ snapshot' = [w \in DOMAIN snapshot \cup {NextWord} |->
                    IF w \in DOMAIN snapshot THEN snapshot[w] ELSE sample_[w]]
  /\ UNCHANGED <<shape, samplers, sample_, todo, loaded, given, snapshots, settled>>

Next ==
  \/ \E t \in samplers :
       \/ \E value \in Samples : Add(t, value) \/ AddSampleSet(t, value)
       \/ Load(t)
       \/ Store(t)
  \/ Snapshot
  \/ Copy

Spec == Init /\ [][Next]_vars

-----------------------------------------------------------------------------
\* Properties.

OneSampler == Cardinality(samplers) = 1

Quiet == \A t \in samplers : todo[t] = << >>

\* The ranges of every kind of histogram are as declared and rise from 0 to
\* the end, so each bucket can be met; and what one thread has added is in the
\* sum, in the redundant count and in the bucket around it.
EverySampleHasItsBucket ==
  /\ ValidateBucketRanges(shape)
  /\ \A i \in 1 .. shape.bucket_count : shape.ranges[i - 1] < shape.ranges[i]
  /\ OneSampler /\ Quiet =>
       /\ \A i \in 0 .. shape.bucket_count - 1 :
            sample_[i] = Cardinality({k \in DOMAIN given :
                           shape.ranges[i] <= given[k] /\ given[k] < shape.ranges[i + 1]})
       /\ sample_[SumWord] = Total([k \in 0 .. Len(given) - 1 |-> given[k + 1]])
       /\ sample_[RedundantWord] = Len(given)

\* The rows of a histogram show every bucket that has samples, in order, with
\* what comes before and behind it, under dots there are only empty ones, and
\* no bar is longer than the line, which one of them fills.
RowsAddUp ==
  LET counts == Counts(sample_)
      rows == WriteAscii(shape, counts)
      Before(i) == Total([j \in 0 .. i - 1 |-> counts[j]])
      Under(dots, i) ==
        dots.dots /\ dots.bucket <= i /\ \A j \in dots.bucket .. i : counts[j] = 0
      peak == GetPeakBucketSize(shape, counts)
      bars == {BarLength(GetBucketSize(shape, counts[i], i), peak) : i \in DOMAIN counts}
  IN  /\ \A i \in DOMAIN counts :
           \/ \E k \in DOMAIN rows : rows[k].bucket = i \/ Under(rows[k], i)
           \/ counts[i] = 0 /\ shape.ranges[i] \in shape.described
      /\ \A k \in DOMAIN rows :
           /\ rows[k].past = Before(rows[k].bucket)
           /\ rows[k].past + rows[k].current + rows[k].remaining = Total(counts)
           /\ k > 1 => rows[k - 1].bucket < rows[k].bucket
      /\ Total(counts) > 0 => Max(bars) = k_line_length /\ Min(bars) >= 0

\* A snapshot of a histogram that one thread samples never counts more than
\* one sample too many in its buckets, and is called corrupt only when samples
\* were added while it was taken.  With more samplers an addition may be lost,
\* but no bucket ever counts more samples than it was given.
SnapshotsBarelyRace ==
  Copied =>
    LET corruption == FindCorruption(shape, Counts(snapshot), snapshot[RedundantWord])
    IN  /\ \A i \in 0 .. shape.bucket_count - 1 :
             snapshot[i] <= Cardinality({k \in DOMAIN given : BucketIndex(shape, given[k]) = i})
        /\ OneSampler =>
             /\ "COUNT_LOW_ERROR" \notin corruption
             /\ "COUNT_HIGH_ERROR" \in corruption => Len(given) > settled + 1
             /\ Len(given) = settled => corruption = {}
=============================================================================
