---------------------------- MODULE MCHistogram ----------------------------
(***************************************************************************)
(* Histograms of the shapes the factories make of small arguments, sampled *)
(* by one thread.  On the shapes of few words a second thread may race     *)
(* with it, and snapshots are taken.                                       *)
(***************************************************************************)
EXTENDS Histogram

Exponential ==
  {ExponentialHistogram(x[1], x[2], x[3]) :
     x \in {y \in (0 .. 6) \X (2 .. 9) \X (3 .. 8) : Valid(Minimum(y[1]), Maximum(y[2]), y[3])}}

Linear ==
  {LinearHistogram(x[1], x[2], x[3], {}) :
     x \in {y \in {1, 3} \X (2 .. 7) \X (3 .. 8) : Valid(y[1], y[2], y[3])}}
  \cup {LinearHistogram(1, 4, 5, described) : described \in SUBSET {0, 1, 2, 4}}

Custom ==
  {CustomHistogram(values) : values \in SUBSET {0, 1, 2, 5, 7}}
  \cup {CustomHistogram(ArrayToCustomRanges(values)) : values \in SUBSET {2, 3, 6}}

AllKinds == Exponential \cup Linear \cup Custom \cup {BooleanHistogram}

FewWords == {LinearHistogram(1, 3, 3, {}), CustomHistogram({1})}

BelowAndBeyond == -1 .. 9

-----------------------------------------------------------------------------
SmallInit ==
  /\ Init
  /\ samplers = {1} \/ (samplers = Threads /\ shape \in FewWords)

\* Samples in the first and the last bucket are enough for a race.
SmallNext ==
  /\ Next
  /\ shape \notin FewWords => snapshots' = 0
  /\ shape \in FewWords => \A k \in DOMAIN given' : given'[k] \in {0, 2}

SmallSpec == SmallInit /\ [][SmallNext]_vars
=============================================================================
