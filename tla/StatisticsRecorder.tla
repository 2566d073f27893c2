------------------------- MODULE StatisticsRecorder -------------------------
(***************************************************************************)
(* Registration of histograms, metrics/histogram: FactoryGet looks a name  *)
(* up under lock_, constructs a histogram if there is none, and registers  *)
(* it under lock_ again, where another thread may have been faster.  The   *)
(* macros keep the result in a static pointer of their own.  The recorder  *)
(* comes and goes while this happens.                                      *)
(***************************************************************************)
EXTENDS Integers, Sequences, FiniteSets, SequencesExt

CONSTANTS
  Threads,
  Names,          \* names of histograms
  RangesOf,       \* name -> the ranges its histogram is declared with
  ChecksumOf,     \* ranges -> checksum; not injective
  MaxObjects      \* bound on the histograms ever constructed

NULL == 0

VARIABLES
  lock_,        \* whether the lock exists: it is made once and never destroyed
  histograms_,  \* name -> registered histogram or NULL, or NoMap
  ranges_,      \* checksum -> list of registered CachedRanges, or NoMap
  made,         \* the histograms constructed: a sequence of names
  cached,       \* histogram -> its cached_ranges_: each is made with its own
  deleted,      \* histograms deleted
  freed,        \* CachedRanges deleted
  pointer,      \* name -> atomic_histogram_pointer of the macro, or NULL
  pc,           \* thread -> where it is
  name,         \* thread -> the histogram it wants
  histogram,    \* thread -> the one it has
  epoch,        \* recorders constructed and destroyed
  since         \* history: thread -> epoch when it looked the name up

threadVars == <<pointer, pc, name, histogram, since>>
objectVars == <<made, cached, deleted, freed>>
vars == <<lock_, histograms_, ranges_, objectVars, threadVars, epoch>>

NoMap == << >>
EmptyMap == [n \in Names |-> NULL]
Checksums == {ChecksumOf[RangesOf[n]] : n \in Names}

\* Odd epochs have a recorder.
Active == histograms_ # NoMap

Init ==
  /\ lock_ = FALSE
  /\ histograms_ = NoMap /\ ranges_ = NoMap
  /\ made = << >> /\ cached = << >>
  /\ deleted = {} /\ freed = {}
  /\ pointer = [n \in Names |-> NULL]
  /\ pc = [t \in Threads |-> "idle"]
  /\ name \in [Threads -> Names]
  /\ histogram = [t \in Threads |-> NULL]
  /\ epoch = 0
  /\ since = [t \in Threads |-> 0]

-----------------------------------------------------------------------------
\* The recorder.  It is constructed in the single threaded portion of main().

Construct ==
  /\ epoch = 0 /\ \A t \in Threads : pc[t] = "idle"
  /\ epoch' = 1
  /\ lock_' = TRUE
  /\ histograms_' = EmptyMap
  /\ ranges_' = [c \in Checksums |-> << >>]
  /\ UNCHANGED <<objectVars, threadVars>>

\* The destructor takes the two maps away, one after the other.
Destruct ==
  /\ epoch \in {1, 2} /\ epoch' = epoch + 1
  /\ IF epoch = 1 THEN histograms_' = NoMap /\ UNCHANGED ranges_
     ELSE ranges_' = NoMap /\ UNCHANGED histograms_
  /\ UNCHANGED <<lock_, objectVars, threadVars>>

-----------------------------------------------------------------------------
\* A thread in the macro.

Go(t, from, to) == pc[t] = from /\ pc' = [pc EXCEPT ![t] = to]

\* Acquire_Load of the static pointer.
Load(t) ==
  /\ Go(t, "idle", IF pointer[name[t]] = NULL THEN "find" ELSE "add")
  /\ histogram' = [histogram EXCEPT ![t] = pointer[name[t]]]
  /\ UNCHANGED <<lock_, histograms_, ranges_, objectVars, pointer, name, epoch, since>>

FindHistogram(n) == IF lock_ /\ Active THEN histograms_[n] ELSE NULL

Find(t) ==
  /\ Go(t, "find", IF FindHistogram(name[t]) = NULL THEN "new" ELSE "store")
  /\ histogram' = [histogram EXCEPT ![t] = FindHistogram(name[t])]
  /\ since' = [since EXCEPT ![t] = epoch]
  /\ UNCHANGED <<lock_, histograms_, ranges_, objectVars, pointer, name, epoch>>

\* The tentative histogram, with ranges of its own.
New(t) ==
  /\ Len(made) < MaxObjects
  /\ Go(t, "new", "register")
  /\ made' = Append(made, name[t])
  /\ cached' = Append(cached, Len(made) + 1)
  /\ histogram' = [histogram EXCEPT ![t] = Len(made) + 1]
  /\ UNCHANGED <<lock_, histograms_, ranges_, deleted, freed, pointer, name, epoch, since>>

\* The ranges a CachedRanges object was made with.
Ranges(c) == RangesOf[made[c]]

\* CachedRanges::Equals.
Equal(c, d) == ChecksumOf[Ranges(c)] = ChecksumOf[Ranges(d)] /\ Ranges(c) = Ranges(d)

\* The first of the list with the same checksum that is equal stands in for
\* the new ranges, which are deleted; if there is none they join the list.
RegisterOrDeleteDuplicateRanges(h) ==
  LET c == cached[h]
      list == ranges_[ChecksumOf[Ranges(c)]]
      match == SelectInSeq(list, LAMBDA d : Equal(d, c))
  IN  IF match # 0
      THEN /\ cached' = [cached EXCEPT ![h] = list[match]]
           /\ freed' = freed \cup {c}
           /\ UNCHANGED ranges_
      ELSE /\ ranges_' = [ranges_ EXCEPT ![ChecksumOf[Ranges(c)]] = <<c>> \o @]
           /\ UNCHANGED <<cached, freed>>

\* Bug: nobody looks whether the name has been registered meanwhile.
Taken_Never(n) == FALSE

Taken(n) == histograms_[n] # NULL

\* RegisterOrDeleteDuplicate under the lock.
Register(t) ==
  /\ Go(t, "register", "store")
  /\ IF ~lock_ \/ ~Active
     THEN UNCHANGED <<histograms_, ranges_, objectVars, histogram>>
     ELSE IF Taken(name[t])
     THEN /\ deleted' = deleted \cup {histogram[t]}
          /\ histogram' = [histogram EXCEPT ![t] = histograms_[name[t]]]
          /\ UNCHANGED <<histograms_, ranges_, made, cached, freed>>
     ELSE /\ histograms_' = [histograms_ EXCEPT ![name[t]] = histogram[t]]
          /\ RegisterOrDeleteDuplicateRanges(histogram[t])
          /\ UNCHANGED <<made, deleted, histogram>>
  /\ UNCHANGED <<lock_, pointer, name, epoch, since>>

\* Release_Store: several threads may do it.
Store(t) ==
  /\ Go(t, "store", "add")
  /\ pointer' = [pointer EXCEPT ![name[t]] = histogram[t]]
  /\ UNCHANGED <<lock_, histograms_, ranges_, objectVars, name, histogram, epoch, since>>

\* The sample is added, and the thread goes on to another.
Add(t) ==
  /\ Go(t, "add", "idle")
  /\ histogram' = [histogram EXCEPT ![t] = NULL]
  /\ \E n \in Names : name' = [name EXCEPT ![t] = n]
  /\ UNCHANGED <<lock_, histograms_, ranges_, objectVars, pointer, epoch, since>>

Step(t) == Load(t) \/ Find(t) \/ New(t) \/ Register(t) \/ Store(t) \/ Add(t)

Next == Construct \/ Destruct \/ \E t \in Threads : Step(t)

Spec == Init /\ [][Next]_vars

-----------------------------------------------------------------------------
\* Properties.

Registered == IF Active THEN {histograms_[n] : n \in Names} \ {NULL} ELSE {}

\* Threads that will add to the histogram they have, or are about to.
Adding == {t \in Threads : pc[t] \in {"store", "add"}}

\* Whoever has looked a name up while a recorder was active, and is still, has
\* the registered histogram of that name, so that no sample is added to another
\* one; nobody has a deleted histogram; registered histograms of equal ranges
\* share them, and the ranges of no histogram in use are freed, nor are they
\* those of a histogram declared otherwise.
OneHistogramPerName ==
  /\ \A t \in Adding :
       /\ histogram[t] \notin deleted
       /\ made[histogram[t]] = name[t]
       /\ Active /\ since[t] = epoch /\ pc[t] = "store" => histogram[t] = histograms_[name[t]]
  /\ \A n \in Names : pointer[n] \notin deleted
  /\ \A g, h \in Registered :
       RangesOf[made[g]] = RangesOf[made[h]] <=> cached[g] = cached[h]
  /\ \A h \in DOMAIN made \ deleted : cached[h] \notin freed /\ Ranges(cached[h]) = RangesOf[made[h]]
  /\ Active => ranges_ # NoMap
=============================================================================
