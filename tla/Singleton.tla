----------------------------- MODULE Singleton -----------------------------
(***************************************************************************)
(* Singleton<Type, Traits> of memory/singleton.hh: one word, instance_,    *)
(* serves as pointer and as spinlock.  The first caller of get() swaps the *)
(* marker into it and constructs; callers that meet the marker spin.  With *)
(* StaticMemorySingletonTraits an object that has been destroyed at exit   *)
(* is not revived: get() then returns null, until Resurrect.               *)
(***************************************************************************)
EXTENDS Integers, FiniteSets

CONSTANTS
  Threads,   \* callers of get()
  Traits,    \* traits to choose from: "Default" and "StaticMemory"
  MaxExits   \* bound on the runs of OnExit

Null == 0
kBeingCreatedMarker == 1

VARIABLES
  traits,     \* the traits of this singleton
  instance_,  \* Null, the marker or the address of the object
  dead_,      \* StaticMemorySingletonTraits::dead_
  alive,      \* objects constructed and not destroyed
  made,       \* address of the last object constructed
  exits,      \* runs of OnExit
  pc,         \* thread -> where in get() it is, "idle" outside
  value       \* thread -> newval while it creates, and what get() returns

vars == <<traits, instance_, dead_, alive, made, exits, pc, value>>

Places == {"idle", "load", "swap", "new", "store", "wait", "done"}

Static == traits = "StaticMemory"

TypeOK ==
  /\ traits \in Traits
  /\ instance_ \in Nat
  /\ dead_ \in BOOLEAN
  /\ alive \subseteq Nat
  /\ made \in Nat \ {Null}
  /\ exits \in Nat
  /\ pc \in [Threads -> Places]
  /\ value \in [Threads -> Nat]

Init ==
  /\ traits \in Traits
  /\ instance_ = Null
  /\ dead_ = FALSE
  /\ alive = {}
  /\ made = kBeingCreatedMarker
  /\ exits = 0
  /\ pc = [t \in Threads |-> "idle"]
  /\ value = [t \in Threads |-> Null]

-----------------------------------------------------------------------------
Go(t, from, to) == pc[t] = from /\ pc' = [pc EXCEPT ![t] = to]

Answer(t, from, result) ==
  /\ Go(t, from, "done")
  /\ value' = [value EXCEPT ![t] = result]

Call(t) ==
  /\ Go(t, "idle", "load")
  /\ UNCHANGED <<traits, instance_, dead_, alive, made, exits, value>>

\* The first look, without a barrier.
Load(t) ==
  /\ IF instance_ \notin {Null, kBeingCreatedMarker}
     THEN Answer(t, "load", instance_)
     ELSE Go(t, "load", "swap") /\ UNCHANGED value
  /\ UNCHANGED <<traits, instance_, dead_, alive, made, exits>>

\* Bug: the marker is stored by every caller that has found no object.
Swap_Store(t) ==
  /\ Go(t, "swap", "new") /\ instance_' = kBeingCreatedMarker
  /\ UNCHANGED <<traits, dead_, alive, made, exits, value>>

\* Acquire_CompareAndSwap.
Swap(t) ==
  /\ IF instance_ = Null
     THEN Go(t, "swap", "new") /\ instance_' = kBeingCreatedMarker
     ELSE Go(t, "swap", "wait") /\ UNCHANGED instance_
  /\ UNCHANGED <<traits, dead_, alive, made, exits, value>>

\* Traits::New.  The static memory is given out once.
New(t) ==
  /\ Go(t, "new", "store")
  /\ dead_' = Static
  /\ IF Static /\ dead_
     THEN value' = [value EXCEPT ![t] = Null] /\ UNCHANGED <<alive, made>>
     ELSE /\ made' = made + 1
          /\ alive' = alive \cup {made'}
          /\ value' = [value EXCEPT ![t] = made']
  /\ UNCHANGED <<traits, instance_, exits>>

\* Bug: the creator returns without having stored its pointer.
Store_Never(t) ==
  /\ Go(t, "store", "done")
  /\ UNCHANGED <<traits, instance_, dead_, alive, made, exits, value>>

\* Release_Store.
Store(t) ==
  /\ Go(t, "store", "done")
  /\ instance_' = value[t]
  /\ UNCHANGED <<traits, dead_, alive, made, exits, value>>

\* WaitForInstance: a look that meets the marker is followed by another.
Wait(t) ==
  /\ instance_ # kBeingCreatedMarker
  /\ Answer(t, "wait", instance_)
  /\ UNCHANGED <<traits, instance_, dead_, alive, made, exits>>

Return(t) ==
  /\ Go(t, "done", "idle")
  /\ value' = [value EXCEPT ![t] = Null]
  /\ UNCHANGED <<traits, instance_, dead_, alive, made, exits>>

Quiet == \A t \in Threads : pc[t] = "idle"

\* OnExit, "called single threaded".
OnExit ==
  /\ Quiet /\ exits < MaxExits /\ instance_ # Null
  /\ alive' = alive \ {instance_}
  /\ dead_' = (dead_ \/ Static)
  /\ instance_' = Null
  /\ exits' = exits + 1
  /\ UNCHANGED <<traits, made, pc, value>>

\* For tests, between two uses.
Resurrect ==
  /\ Static /\ Quiet /\ instance_ = Null
  /\ dead_' = FALSE
  /\ UNCHANGED <<traits, instance_, alive, made, exits, pc, value>>

Get(t) == Load(t) \/ Swap(t) \/ New(t) \/ Store(t) \/ Wait(t)

Next == (\E t \in Threads : Call(t) \/ Get(t) \/ Return(t)) \/ OnExit \/ Resurrect

Spec == Init /\ [][Next]_vars

\* A thread inside get() is scheduled.
Fairness == \A t \in Threads : WF_vars(Get(t))

FairSpec == Spec /\ Fairness

-----------------------------------------------------------------------------
\* Properties.

\* However first callers race, there is one object at most, and every caller
\* has that object; null it gets only from a singleton in static memory whose
\* object is gone.
OneInstance ==
  /\ \A x, y \in alive : x = y
  /\ \A t \in Threads :
       pc[t] = "done" =>
         IF value[t] = Null THEN Static /\ dead_ /\ alive = {} ELSE alive = {value[t]}

\* Threads that construct: between the swap and the store.
Creators == {t \in Threads : pc[t] \in {"new", "store"}}

\* What makes OneInstance inductive: the marker is there as long as one thread
\* constructs, and the object alive is the one stored or about to be.
SpinlockInvariant ==
  /\ instance_ = kBeingCreatedMarker <=> Creators # {}
  /\ \A t, u \in Creators : t = u
  /\ made >= kBeingCreatedMarker
  /\ instance_ \notin {Null, kBeingCreatedMarker} => alive = {instance_}
  /\ instance_ = Null => alive = {}
  /\ \A t \in Threads :
       /\ pc[t] = "new" => alive = {}
       /\ pc[t] = "store" =>
            IF value[t] = Null THEN Static /\ dead_ /\ alive = {}
            ELSE value[t] > kBeingCreatedMarker /\ alive = {value[t]}
       /\ pc[t] = "wait" /\ instance_ = Null => Static /\ dead_
       /\ pc[t] = "done" =>
            IF value[t] = Null THEN Static /\ dead_ /\ alive = {}
            ELSE value[t] > kBeingCreatedMarker /\ instance_ = value[t]

\* A caller gets its answer, unless the object is gone for good: then callers
\* keep swapping the marker in and out, and one that waits may meet it at each
\* look.
CallersServed ==
  \A t \in Threads :
    pc[t] = "load" ~> (pc[t] = "done" \/ (Static /\ exits > 0))
=============================================================================
