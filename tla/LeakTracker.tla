---------------------------- MODULE LeakTracker ----------------------------
(***************************************************************************)
(* debug/leak_tracker and the intrusive list under it, linked_list: each   *)
(* tracked object is a node of a circular list with a root, which its      *)
(* constructor joins and its destructor leaves.  Lifecycle takes what      *)
(* CheckForLeaks sees at the end of the program for the set of live        *)
(* objects; here it is the walk along the pointers.                        *)
(***************************************************************************)
EXTENDS Integers, Sequences, FiniteSets, SequencesExt

CONSTANTS
  Addresses,   \* where an object may be: they are used again
  root_,       \* the root of the list
  MaxObjects   \* bound on the objects

VARIABLES
  previous_,   \* node -> node
  next_,       \* node -> node
  instances,   \* history: the live objects, in the order of the list
  reported,    \* what the last CheckForLeaks has logged
  objects      \* objects constructed

vars == <<previous_, next_, instances, reported, objects>>

Nodes == Addresses \cup {root_}

\* Each node points to itself, which is how the root begins.
Init ==
  /\ previous_ = [n \in Nodes |-> n]
  /\ next_ = [n \in Nodes |-> n]
  /\ instances = << >>
  /\ reported = << >>
  /\ objects = 0

-----------------------------------------------------------------------------
\* LinkNode and LinkedList.

InsertBefore(n, e) ==
  /\ next_' = [next_ EXCEPT ![n] = e, ![previous_[e]] = n]
  /\ previous_' = [previous_ EXCEPT ![n] = previous_[e], ![e] = n]

InsertAfter(n, e) ==
  /\ next_' = [next_ EXCEPT ![n] = next_[e], ![e] = n]
  /\ previous_' = [previous_ EXCEPT ![n] = e, ![next_[e]] = n]

\* Bug: the node behind keeps its pointer to the removed one.
RemoveFromList_Half(n) ==
  /\ next_' = [next_ EXCEPT ![previous_[n]] = next_[n]]
  /\ UNCHANGED previous_

\* The node's own pointers stay.
RemoveFromList(n) ==
  /\ next_' = [next_ EXCEPT ![previous_[n]] = next_[n]]
  /\ previous_' = [previous_ EXCEPT ![next_[n]] = previous_[n]]

\* Along the pointers, from the head or from the tail to end(); a list that
\* does not come back is followed a little beyond its length.
Along(links) ==
  LET walk[k \in 0 .. Cardinality(Nodes)] ==
        [n \in Nodes |-> IF n = root_ \/ k = 0 THEN << >> ELSE <<n>> \o walk[k - 1][links[n]]]
  IN  walk[Cardinality(Nodes)][links[root_]]

-----------------------------------------------------------------------------
\* LeakTracker.

\* Where an object stands in the list.
Position(n) == SelectInSeq(instances, LAMBDA i : i = n)

\* The constructor appends.
Construct(n) ==
  /\ objects < MaxObjects /\ objects' = objects + 1
  /\ ~Contains(instances, n)
  /\ InsertBefore(n, root_)
  /\ instances' = Append(instances, n)
  /\ UNCHANGED reported

\* A node put behind another one of the list, which LeakTracker never does.
Insert(n, e) ==
  /\ objects < MaxObjects /\ objects' = objects + 1
  /\ ~Contains(instances, n) /\ Contains(instances, e)
  /\ InsertAfter(n, e)
  /\ instances' = InsertAt(instances, Position(e) + 1, n)
  /\ UNCHANGED reported

Destruct(n) ==
  /\ Contains(instances, n)
  /\ RemoveFromList(n)
  /\ instances' = RemoveAt(instances, Position(n))
  /\ UNCHANGED <<reported, objects>>

NumLiveInstances == Len(Along(next_))

\* Logs each, and fails a CHECK, which only logs, when there are any.
CheckForLeaks ==
  /\ reported' = Along(next_)
  /\ UNCHANGED <<previous_, next_, instances, objects>>

Next ==
  \/ \E n \in Addresses : Construct(n) \/ Destruct(n) \/ \E e \in Addresses : Insert(n, e)
  \/ CheckForLeaks

Spec == Init /\ [][Next]_vars

-----------------------------------------------------------------------------
\* Properties.

\* Whatever the order objects come and go in, at addresses that were used
\* before or not, the walk forward meets the live ones, each once, the walk
\* backward meets them the other way round, and they are counted right: what
\* is reported at the end leaked, and nothing else did.
ListHoldsTheLive ==
  /\ Along(next_) = instances
  /\ Along(previous_) = Reverse(instances)
  /\ NumLiveInstances = Len(instances)
=============================================================================
