---------------------------- MODULE CaptureProofs ----------------------------
(***************************************************************************)
(* Theorems about Torikuru, for all sessions, symbol lists, switches and   *)
(* bounds: type correctness; that a snapshot capture ends neither before   *)
(* the last symbol is answered nor after, what it leaves in the archive,   *)
(* and that one of SSLED sessions implements CaptureContract; and, of      *)
(* every capture, snapshot or not, which handles RFA holds for the streams *)
(* of a consumer, how often each is registered and released, and what of   *)
(* their events is archived.                                               *)
(***************************************************************************)
EXTENDS Torikuru, FiniteSetTheorems, TLAPS

\* Slots are the positions of a non-empty list: a finite set without 0.
LEMMA SlotsFact ==
  /\ Len(Instruments) \in Nat \ {0}
  /\ Slots = 1 .. Len(Instruments)
  /\ IsFiniteSet(Slots)
  /\ 0 \notin Slots
<1>1. Instruments \in Seq(STRING) /\ Instruments # <<>>
  BY ConfigAssumption
<1>2. Slots = 1 .. Len(Instruments) /\ Len(Instruments) \in Nat \ {0}
  BY <1>1 DEF Slots
<1>3. QED
  BY <1>2, FS_Interval

-----------------------------------------------------------------------------
\* Type correctness.

\* The program's initial state is well typed.
LEMMA InitTypeOK == Init => TypeOK
  BY SlotsFact DEF Init, ConsumerInit, InitiallyMuted, TypeOK, ConsumerTypeOK, InterestStates,
     Locations

\* Each of RFA's operations on a handle leaves it in one of its states.
LEMMA HandleStates ==
  ASSUME NEW state \in InterestStates
  PROVE  Registered(state) \in InterestStates /\ Unregistered(state) \in InterestStates
  BY DEF InterestStates, Registered, Unregistered

\* Dispatching takes an event off the queue.
LEMMA DispatchType ==
  ASSUME TypeOK, Dispatch
  PROVE  Head(queue) \in Events /\ queue' \in Seq(Events)
  BY DEF TypeOK, Dispatch

\* An event adds nothing, one or two to the count of its session.
LEMMA GainType ==
  ASSUME NEW s, NEW e
  PROVE  Gain(s, e) \in 0 .. 2
  BY DEF Gain

\* A counter of a stream stays a number.
LEMMA CountedType ==
  ASSUME NEW received \in [Sessions -> [Slots -> Nat]], NEW type,
         NEW e, e.session \in Sessions, e.slot \in Slots
  PROVE  Counted(e, type, received) \in [Sessions -> [Slots -> Nat]]
<1>1. [received[e.session] EXCEPT ![e.slot] = @ + 1] \in [Slots -> Nat]
  OBVIOUS
<1>2. [received EXCEPT ![e.session][e.slot] = @ + 1] \in [Sessions -> [Slots -> Nat]]
  BY <1>1
<1>3. QED
  BY <1>2 DEF Counted

\* ... and so does a record count of the archive.
LEMMA RecordedType ==
  ASSUME NEW records \in [Sessions -> [Slots -> [SsledTypes -> Nat]]],
         NEW s \in Sessions, NEW k \in Slots, NEW type \in SsledTypes
  PROVE  [records EXCEPT ![s][k][type] = @ + 1] \in [Sessions -> [Slots -> [SsledTypes -> Nat]]]
<1>1. [records[s][k] EXCEPT ![type] = @ + 1] \in [SsledTypes -> Nat]
  OBVIOUS
<1>2. [records[s] EXCEPT ![k][type] = @ + 1] \in [Slots -> [SsledTypes -> Nat]]
  BY <1>1
<1>3. QED
  BY <1>2

\* Submitting requests keeps handles and registrations well typed.
LEMMA ResubscribeType ==
  ASSUME TypeOK, NEW s \in Sessions, NEW granted, Resubscribe(s, granted)
  PROVE  /\ item_handle' \in [Sessions -> SUBSET Slots]
         /\ interest' \in [Sessions -> [Slots -> InterestStates]]
<1>1. granted \subseteq Slots
  BY DEF Resubscribe, Unfulfilled, TypeOK, ConsumerTypeOK
<1>2. [k \in Slots |-> IF k \in granted THEN Registered(interest[s][k]) ELSE interest[s][k]]
        \in [Slots -> InterestStates]
  BY HandleStates DEF TypeOK, ConsumerTypeOK
<1>3. QED
  BY <1>1, <1>2 DEF Resubscribe, TypeOK, ConsumerTypeOK

\* A market data event keeps its consumer well typed.
LEMMA MarketDataType ==
  ASSUME TypeOK, NEW s \in Sessions, NEW e \in Events, e.session = s, e.slot \in Slots,
         e.type \in SsledTypes, OnMarketDataItemEvent(s, e)
  PROVE  ConsumerTypeOK'
<1> USE DEF TypeOK, ConsumerTypeOK, OnMarketDataItemEvent
<1>1. refresh_count' \in [Sessions -> Nat]
  <2>1. refresh_count[s] \in Nat /\ Gain(s, e) \in 0 .. 2
    BY GainType
  <2>2. refresh_count[s] + Gain(s, e) \in Nat
    BY <2>1
  <2>3. QED
    BY <2>2
<1>2. is_closed' \in [Sessions -> SUBSET Slots] /\ answered' \in [Sessions -> SUBSET Slots]
  OBVIOUS
<1>3. /\ refresh_received' \in [Sessions -> [Slots -> Nat]]
      /\ update_received' \in [Sessions -> [Slots -> Nat]]
  BY CountedType
<1>4. interest' \in [Sessions -> [Slots -> InterestStates]]
  <2>1. Released(s, e) \in InterestStates
    BY HandleStates DEF Released
  <2>2. QED
    BY <2>1
<1>5. archive' \in [Sessions -> [Slots -> [SsledTypes -> Nat]]]
  <2>1. archive \in [Sessions -> [Slots -> [SsledTypes -> Nat]]]
    OBVIOUS
  <2>2. [archive EXCEPT ![s][e.slot][e.type] = @ + 1]
          \in [Sessions -> [Slots -> [SsledTypes -> Nat]]]
    BY <2>1, RecordedType
  <2>3. archive' = archive \/ archive' = [archive EXCEPT ![s][e.slot][e.type] = @ + 1]
    OBVIOUS
  <2>4. QED
    BY <2>1, <2>2, <2>3
<1>6. in_sync' \subseteq Sessions
  OBVIOUS
<1>7. QED
  BY <1>1, <1>2, <1>3, <1>4, <1>5, <1>6

\* Every step of the program and of RFA keeps the state well typed.
LEMMA NextTypeOK == TypeOK /\ [Next]_vars => TypeOK'
<1> SUFFICES ASSUME TypeOK, [Next]_vars PROVE TypeOK'
  OBVIOUS
<1>1. CASE InitFails
  BY <1>1 DEF InitFails, TypeOK, ConsumerTypeOK, Locations, consumerVars, countVars, feedVars
<1>2. ASSUME NEW s \in Sessions, InitConsumer(s) PROVE TypeOK'
  BY <1>2 DEF InitConsumer, TypeOK, ConsumerTypeOK, Locations, consumerVars, countVars, feedVars
<1>3. ASSUME NEW s \in Sessions, AddStream(s) PROVE TypeOK'
  <2>1. attempted'[s] \in Slots /\ attempted' \in [Sessions -> 0 .. Len(Instruments)]
    BY <1>3, SlotsFact DEF AddStream, TypeOK
  <2>2. CreateItemStream(s, attempted'[s])
    BY <1>3 DEF AddStream
  <2>3. interest' \in [Sessions -> [Slots -> InterestStates]]
    BY <2>1, <2>2, HandleStates DEF CreateItemStream, TypeOK, ConsumerTypeOK
  <2>4. /\ item_handle' \in [Sessions -> SUBSET Slots]
        /\ directory' \in [Sessions -> SUBSET Slots]
        /\ streams' \in [Sessions -> SUBSET Slots]
    BY <2>1, <2>2 DEF CreateItemStream, TypeOK, ConsumerTypeOK
  <2>5. pc' \in Locations
    BY <1>3 DEF AddStream, TypeOK, Locations
  <2>6. QED
    BY <1>3, <2>1, <2>2, <2>3, <2>4, <2>5
    DEF AddStream, CreateItemStream, TypeOK, ConsumerTypeOK, countVars, feedVars
<1>4. ASSUME NEW s \in Sessions, Subscribe(s) PROVE TypeOK'
  <2>1. PICK granted \in SUBSET Unfulfilled(s), threw \in BOOLEAN :
          /\ Resubscribe(s, granted)
          /\ pc' = IF threw THEN "failing" ELSE IF subscribed' = Sessions THEN "loop" ELSE pc
    BY <1>4 DEF Subscribe
  <2>2. QED
    BY <1>4, <2>1, ResubscribeType
    DEF Subscribe, TypeOK, ConsumerTypeOK, Locations, countVars, feedVars
<1>5. ASSUME NEW s \in Sessions, PostLogin(s) PROVE TypeOK'
  <2>1. PICK type \in LoginTypes :
          Post([session |-> s, slot |-> 0, type |-> type, closed |-> FALSE,
                marketfeed |-> FALSE])
    BY <1>5 DEF PostLogin
  <2> DEFINE e == [session |-> s, slot |-> 0, type |-> type, closed |-> FALSE,
                   marketfeed |-> FALSE]
  <2>2. e \in Events
    BY DEF Events
  <2>3. queue' = Append(queue, e) /\ UNCHANGED appVars
    BY <2>1 DEF Post
  <2> HIDE DEF e
  <2>4. queue' \in Seq(Events)
    BY <2>2, <2>3 DEF TypeOK
  <2>5. UNCHANGED <<consumerVars, sent>> /\ logins' = [logins EXCEPT ![s] = @ + 1]
    BY <1>5 DEF PostLogin
  <2>6. ConsumerTypeOK'
    BY <2>5 DEF TypeOK, ConsumerTypeOK, consumerVars, countVars
  <2>7. QED
    BY <2>3, <2>4, <2>5, <2>6 DEF TypeOK, appVars
<1>6. ASSUME NEW s \in Sessions, NEW k \in Slots, PostItem(s, k) PROVE TypeOK'
  <2>1. PICK type \in ItemTypes(s), closed \in BOOLEAN, marketfeed \in BOOLEAN :
          /\ Post([session |-> s, slot |-> k, type |-> type, closed |-> closed,
                   marketfeed |-> marketfeed])
          /\ interest' = [interest EXCEPT ![s][k] = IF closed THEN "final" ELSE @]
    BY <1>6, FeedAssumption DEF PostItem, ItemTypes
  <2>2. queue' \in Seq(Events)
    BY <2>1, SlotsFact DEF Post, Events, ItemTypes, TypeOK
  <2>3. interest' \in [Sessions -> [Slots -> InterestStates]]
    BY <2>1 DEF TypeOK, ConsumerTypeOK, InterestStates
  <2>4. QED
    BY <1>6, <2>1, <2>2, <2>3 DEF PostItem, Post, TypeOK, ConsumerTypeOK, countVars, appVars
<1>7. CASE DispatchMarketData
  <2> DEFINE e == Head(queue)
  <2>1. /\ e \in Events /\ e.session \in Sessions /\ e.slot \in Slots
        /\ e.type \in SsledTypes /\ queue' \in Seq(Events)
    BY <1>7, DispatchType DEF DispatchMarketData, Events, ItemTypes
  <2>2. OnMarketDataItemEvent(e.session, e)
    BY <1>7 DEF DispatchMarketData
  <2>3. ConsumerTypeOK'
    BY <2>1, <2>2, MarketDataType
  <2>4. consumers_in_sync' \in Nat /\ active' \in BOOLEAN
    <3>1. OnSync \/ NoSync
      BY <1>7 DEF DispatchMarketData
    <3>2. consumers_in_sync' \in Nat
      BY <3>1 DEF OnSync, NoSync, TypeOK
    <3>3. active' \in BOOLEAN
      BY <3>1, Zenon DEF OnSync, NoSync, TypeOK
    <3>4. QED
      BY <3>2, <3>3
  <2>5. QED
    BY <1>7, <2>1, <2>3, <2>4 DEF DispatchMarketData, Dispatch, TypeOK, feedVars
<1>8. CASE DispatchMarketPrice
  <2> DEFINE e == Head(queue)
  <2>1. /\ e \in Events /\ e.session \in Sessions /\ e.slot \in Slots
        /\ queue' \in Seq(Events)
    BY <1>8, DispatchType DEF DispatchMarketPrice, Events
  <2>2. OnMarketPrice(e.session, e)
    BY <1>8 DEF DispatchMarketPrice
  <2> HIDE DEF e
  <2>3. ConsumerTypeOK'
    BY <2>1, <2>2, CountedType DEF OnMarketPrice, TypeOK, ConsumerTypeOK
  <2>4. QED
    BY <1>8, <2>1, <2>3 DEF DispatchMarketPrice, Dispatch, NoSync, TypeOK, feedVars
<1>9. CASE DispatchLogin
  <2> DEFINE e == Head(queue)
  <2>1. e \in Events /\ e.session \in Sessions /\ queue' \in Seq(Events)
    BY <1>9, DispatchType DEF DispatchLogin, Events
  <2>2. ConsumerTypeOK'
    <3>1. ASSUME NEW granted, NEW threw, OnLoginSuccess(e.session, granted, threw)
          PROVE  ConsumerTypeOK'
      BY <2>1, <3>1, ResubscribeType DEF OnLoginSuccess, TypeOK, ConsumerTypeOK, countVars
    <3>2. CASE OnLoginLost(e.session)
      BY <2>1, <3>2 DEF OnLoginLost, TypeOK, ConsumerTypeOK, countVars
    <3>3. CASE UNCHANGED consumerVars
      BY <3>3 DEF consumerVars, countVars, TypeOK, ConsumerTypeOK
    <3>4. QED
      BY <1>9, <3>1, <3>2, <3>3 DEF DispatchLogin
  <2>3. QED
    BY <1>9, <2>1, <2>2 DEF DispatchLogin, Dispatch, NoSync, TypeOK, feedVars
<1>10. CASE DropStale
  BY <1>10, DispatchType
  DEF DropStale, Dispatch, NoSync, TypeOK, ConsumerTypeOK, consumerVars, countVars, feedVars
<1>11. CASE LeaveLoop
  BY <1>11 DEF LeaveLoop, TypeOK, ConsumerTypeOK, Locations, consumerVars, countVars, feedVars
<1>12. CASE Clear
  <2>1. interest' \in [Sessions -> [Slots -> InterestStates]]
    BY <1>12 DEF Clear, Destroyed, TypeOK, ConsumerTypeOK, InterestStates
  <2>2. QED
    BY <1>12, <2>1 DEF Clear, Destroyed, TypeOK, ConsumerTypeOK, Locations, countVars, feedVars
<1>13. CASE UNCHANGED vars
  BY <1>13 DEF vars, consumerVars, countVars, appVars, feedVars, TypeOK, ConsumerTypeOK
<1>14. QED
  BY <1>1, <1>2, <1>3, <1>4, <1>5, <1>6, <1>7, <1>8, <1>9, <1>10, <1>11, <1>12, <1>13
  DEF Next, Startup, MainLoop, Feed, DispatchTimeout, Exited

\* Every variable keeps its type in every behaviour, whatever RFA posts,
\* refuses or delivers late.
THEOREM TypeCorrect == Spec => []TypeOK
<1>1. QED
  BY InitTypeOK, NextTypeOK, PTL DEF Spec

-----------------------------------------------------------------------------
\* Snapshot captures: SnapshotInvariant is preserved, action by action.

\* What taking the first event off the queue leaves.
LEMMA TailFact ==
  ASSUME TypeOK, queue # <<>>, queue' = Tail(queue)
  PROVE  /\ Head(queue) = queue[1] /\ 1 \in 1 .. Len(queue)
         /\ Len(queue') \in Nat
         /\ \A i \in 1 .. Len(queue') : i + 1 \in 2 .. Len(queue) /\ queue'[i] = queue[i + 1]
<1>1. queue \in Seq(Events)
  BY DEF TypeOK
<1>2. QED
  BY <1>1

\* What posting one more leaves.
LEMMA AppendFact ==
  ASSUME TypeOK, NEW e, queue' = Append(queue, e)
  PROVE  /\ Len(queue) \in Nat /\ Len(queue') = Len(queue) + 1
         /\ \A i \in 1 .. Len(queue) : queue'[i] = queue[i]
         /\ queue'[Len(queue) + 1] = e
<1>1. queue \in Seq(Events)
  BY DEF TypeOK
<1>2. QED
  BY <1>1

\* Sets of streams and of sessions are finite.
LEMMA Finite ==
  ASSUME TypeOK
  PROVE  /\ \A s \in Sessions : IsFiniteSet(is_closed[s]) /\ IsFiniteSet(directory[s])
         /\ IsFiniteSet(in_sync) /\ IsFiniteSet(Sessions)
  BY SlotsFact, ConfigAssumption, FS_Subset DEF TypeOK, ConsumerTypeOK

\* Before anything happens nothing is listed, queued or in sync.
LEMMA InitSnapshot == Init => SnapshotInvariant
<1> SUFFICES ASSUME Init PROVE SnapshotInvariant
  OBVIOUS
<1> USE DEF Init, ConsumerInit, InitiallyMuted
<1>1. queue = <<>> /\ 1 .. Len(queue) = {}
  OBVIOUS
<1>2. Phases /\ OnlyListed /\ CloseIsLast /\ ClosedIsQuiet
  BY <1>1 DEF Phases, OnlyListed, CloseIsLast, ClosedIsQuiet, SSLEDSessions
<1>3. CountsClosed /\ SyncIsComplete
  BY FS_EmptySet DEF CountsClosed, SyncIsComplete, OnSyncOncePerConsumer, Finished, SSLEDSessions
<1>4. QED
  BY <1>2, <1>3 DEF SnapshotInvariant

\* Steps of Run itself move pc and no more than the list of consumers.
LEMMA RunSteps ==
  ASSUME TypeOK, SnapshotInvariant, NEW s \in Sessions,
         InitFails \/ InitConsumer(s) \/ LeaveLoop
  PROVE  SnapshotInvariant'
<1> USE DEF InitFails, InitConsumer, LeaveLoop, consumerVars, countVars, SnapshotInvariant
<1>1. Phases'
  BY DEF Phases
<1>2. (OnlyListed /\ CloseIsLast /\ ClosedIsQuiet /\ CountsClosed)'
  BY DEF OnlyListed, CloseIsLast, ClosedIsQuiet, CountsClosed, SSLEDSessions, SameStream
<1>3. SyncIsComplete'
  BY DEF SyncIsComplete, OnSyncOncePerConsumer, Finished, Phases
<1>4. QED
  BY <1>1, <1>2, <1>3

\* Streams are created while muted, so none is requested, and before any
\* consumer is in sync.
LEMMA AddStreamStep ==
  ASSUME TypeOK, SnapshotInvariant, NEW s \in Sessions, AddStream(s)
  PROVE  SnapshotInvariant'
<1>1. /\ pc = "streams" /\ is_muted = Sessions /\ in_sync = {} /\ active
      /\ \A t \in Sessions : is_closed[t] = {}
  BY DEF AddStream, SnapshotInvariant, Phases
<1>2. /\ interest' = interest /\ queue' = queue /\ active' = active /\ consumers' = consumers
      /\ pc' \in {"streams", "subscribe"} /\ is_muted' = is_muted
      /\ consumers_in_sync' = consumers_in_sync /\ answered' = answered
      /\ UNCHANGED countVars
  BY <1>1 DEF AddStream, CreateItemStream
<1>3. \A t \in Sessions : directory[t] \subseteq directory'[t]
  BY DEF AddStream, CreateItemStream, TypeOK, ConsumerTypeOK
<1> USE DEF countVars, SnapshotInvariant
<1>4. Phases'
  BY <1>1, <1>2 DEF Phases
<1>5. OnlyListed'
  BY <1>2, <1>3 DEF OnlyListed
<1>6. (CloseIsLast /\ ClosedIsQuiet /\ CountsClosed)'
  BY <1>2 DEF CloseIsLast, ClosedIsQuiet, CountsClosed, SSLEDSessions, SameStream
<1>7. SyncIsComplete'
  BY <1>1, <1>2 DEF SyncIsComplete, OnSyncOncePerConsumer, Finished
<1>8. QED
  BY <1>4, <1>5, <1>6, <1>7

\* Requests only turn unregistered streams of the directory into registered
\* ones, and no registered stream into an open one.
LEMMA RequestsOpen ==
  ASSUME TypeOK, NEW s \in Sessions, NEW granted, Resubscribe(s, granted)
  PROVE  \A t \in Sessions, k \in Slots :
           /\ interest'[t][k] # interest[t][k] => k \in directory[t]
           /\ interest[t][k] # "none" => interest'[t][k] \in {interest[t][k], "doubled"}
  BY DEF Resubscribe, Unfulfilled, Registered, TypeOK, ConsumerTypeOK

\* The events left are events there were, in their order.
Shifted(d) ==
  /\ Len(queue') \in Nat
  /\ \A i \in 1 .. Len(queue') : i + d \in 1 .. Len(queue) /\ queue'[i] = queue[i + d]
  /\ \A i \in 1 .. Len(queue') : \A j \in i + 1 .. Len(queue') :
       j + d \in (i + d) + 1 .. Len(queue)

LEMMA KeptQueue ==
  ASSUME TypeOK, queue' = queue
  PROVE  Shifted(0)
<1>1. queue \in Seq(Events)
  BY DEF TypeOK
<1>2. QED
  BY <1>1 DEF Shifted

LEMMA TailQueue ==
  ASSUME TypeOK, queue # <<>>, queue' = Tail(queue)
  PROVE  Shifted(1)
<1>1. queue \in Seq(Events) /\ Len(queue') = Len(queue) - 1 /\ Len(queue) \in Nat
  BY DEF TypeOK
<1>2. QED
  BY <1>1 DEF Shifted

\* Steps that change registrations in ways RequestsOpen allows, count nothing
\* and post nothing, keep what concerns streams.
LEMMA StreamsKept ==
  ASSUME TypeOK, SnapshotInvariant, NEW d \in {0, 1}, Shifted(d),
         \A t \in Sessions, k \in Slots :
           /\ interest'[t][k] # interest[t][k] => k \in directory[t]
           /\ interest[t][k] # "none" =>
                interest'[t][k] \in {interest[t][k], "doubled", "cancelled"},
         UNCHANGED <<directory, answered, countVars>>
  PROVE  (OnlyListed /\ CloseIsLast /\ ClosedIsQuiet /\ CountsClosed)'
<1> USE DEF countVars, SnapshotInvariant
<1>0. \A i \in 1 .. Len(queue) :
        queue[i].session \in Sessions /\ (queue[i].slot # 0 => queue[i].slot \in Slots)
  BY DEF TypeOK, Events
<1>r. ASSUME NEW t \in Sessions, NEW k \in Slots, interest[t][k] # "none"
      PROVE  interest'[t][k] # "none" /\ (interest[t][k] # "open" => interest'[t][k] # "open")
  BY <1>r
<1>1. OnlyListed'
  <2>1. \A t \in Sessions, k \in Slots : interest'[t][k] # "none" => k \in directory'[t]
    BY DEF OnlyListed
  <2>2. \A t \in Sessions : \A k \in is_closed'[t] : interest'[t][k] # "none"
    BY DEF OnlyListed, TypeOK, ConsumerTypeOK
  <2>3. \A i \in 1 .. Len(queue') :
          queue'[i].slot # 0 => interest'[queue'[i].session][queue'[i].slot] # "none"
    <3> SUFFICES ASSUME NEW i \in 1 .. Len(queue'), queue'[i].slot # 0
                 PROVE  interest'[queue'[i].session][queue'[i].slot] # "none"
      OBVIOUS
    <3>1. i + d \in 1 .. Len(queue) /\ queue'[i] = queue[i + d]
      BY DEF Shifted
    <3>2. interest[queue[i + d].session][queue[i + d].slot] # "none"
      BY <3>1 DEF OnlyListed
    <3>3. QED
      BY <1>0, <1>r, <3>1, <3>2
  <2>4. QED
    BY <2>1, <2>2, <2>3 DEF OnlyListed
<1>2. CloseIsLast'
  <2> SUFFICES ASSUME NEW i \in 1 .. Len(queue'), queue'[i].closed
               PROVE  /\ queue'[i].slot # 0 /\ queue'[i].type \in FinalTypes
                      /\ interest'[queue'[i].session][queue'[i].slot] # "open"
                      /\ \A j \in i + 1 .. Len(queue') : ~SameStream(queue'[i], queue'[j])
    BY DEF CloseIsLast, SameStream
  <2>1. i + d \in 1 .. Len(queue) /\ queue'[i] = queue[i + d]
    BY DEF Shifted
  <2>2. /\ queue[i + d].slot # 0 /\ queue[i + d].type \in FinalTypes
        /\ interest[queue[i + d].session][queue[i + d].slot] \notin {"open", "none"}
        /\ \A j \in (i + d) + 1 .. Len(queue) : ~SameStream(queue[i + d], queue[j])
    BY <2>1 DEF CloseIsLast, OnlyListed
  <2>3. interest'[queue'[i].session][queue'[i].slot] # "open"
    BY <1>0, <1>r, <2>1, <2>2
  <2>4. ASSUME NEW j \in i + 1 .. Len(queue') PROVE ~SameStream(queue'[i], queue'[j])
    <3>1. j \in 1 .. Len(queue')
      BY DEF Shifted
    <3>2. j + d \in (i + d) + 1 .. Len(queue) /\ queue'[j] = queue[j + d]
      BY <3>1 DEF Shifted
    <3>3. QED
      BY <2>1, <2>2, <3>2
  <2>5. QED
    BY <2>1, <2>2, <2>3, <2>4
<1>3. ClosedIsQuiet'
  <2> SUFFICES ASSUME NEW s \in SSLEDSessions, NEW k \in is_closed[s],
                      refresh_received[s][k] = 0
               PROVE  /\ interest'[s][k] # "open"
                      /\ \A i \in 1 .. Len(queue') : queue'[i].session # s \/ queue'[i].slot # k
    BY DEF ClosedIsQuiet
  <2>1. s \in Sessions /\ k \in Slots /\ interest[s][k] # "none"
    BY DEF SSLEDSessions, TypeOK, ConsumerTypeOK, OnlyListed
  <2>2. interest[s][k] # "open"
        /\ \A i \in 1 .. Len(queue) : queue[i].session # s \/ queue[i].slot # k
    BY DEF ClosedIsQuiet
  <2>3. QED
    BY <2>1, <2>2 DEF Shifted
<1>4. CountsClosed'
  BY DEF CountsClosed
<1>5. QED
  BY <1>1, <1>2, <1>3, <1>4

\* SyncIsComplete speaks of nothing else than these.
LEMMA SyncKept ==
  ASSUME SyncIsComplete, UNCHANGED <<directory, is_closed, in_sync, consumers_in_sync>>,
         Finished' => Finished
  PROVE  SyncIsComplete'
  BY DEF SyncIsComplete, OnSyncOncePerConsumer

\* Submitting the subscriptions of a consumer, in Init.
LEMMA SubscribeStep ==
  ASSUME TypeOK, SnapshotInvariant, NEW s \in Sessions, Subscribe(s)
  PROVE  SnapshotInvariant'
<1>1. PICK granted : Resubscribe(s, granted)
  BY DEF Subscribe
<1>2. /\ UNCHANGED <<directory, answered, countVars, queue, active, consumers, is_muted,
                     consumers_in_sync>>
      /\ pc = "subscribe" /\ pc' \in {"subscribe", "loop", "failing"}
  BY DEF Subscribe
<1>3. (OnlyListed /\ CloseIsLast /\ ClosedIsQuiet /\ CountsClosed)'
  BY <1>1, <1>2, RequestsOpen, KeptQueue, StreamsKept
<1>4. active /\ Phases'
  BY <1>2 DEF SnapshotInvariant, Phases, countVars
<1>5. SyncIsComplete'
  BY <1>2, <1>4, SyncKept DEF SnapshotInvariant, countVars, Finished
<1>6. QED
  BY <1>3, <1>4, <1>5 DEF SnapshotInvariant

\* Events and requests that count nothing: login responses, OMM market prices,
\* dropped events.
LEMMA LoginStep ==
  ASSUME TypeOK, SnapshotInvariant, DispatchLogin
  PROVE  SnapshotInvariant'
<1>1. /\ UNCHANGED <<pc, consumers, consumers_in_sync, active, directory, answered, countVars>>
      /\ queue # <<>> /\ queue' = Tail(queue) /\ pc = "loop" /\ active
  BY DEF DispatchLogin, Dispatch, NoSync, OnLoginSuccess, OnLoginLost, consumerVars, countVars
<1>2. Head(queue).session \in Sessions
  BY DispatchType DEF DispatchLogin, Events
<1>3. (OnlyListed /\ CloseIsLast /\ ClosedIsQuiet /\ CountsClosed)'
  <2>1. CASE \E granted : Resubscribe(Head(queue).session, granted)
    BY <1>1, <1>2, <2>1, RequestsOpen, TailQueue, StreamsKept
  <2>2. CASE interest' = interest
    BY <1>1, <2>2, TailQueue, StreamsKept
  <2>3. QED
    BY <2>1, <2>2 DEF DispatchLogin, OnLoginSuccess, OnLoginLost, consumerVars
<1>4. Phases'
  BY <1>1 DEF SnapshotInvariant, Phases
<1>5. SyncIsComplete'
  BY <1>1, SyncKept DEF SnapshotInvariant, countVars, Finished
<1>6. QED
  BY <1>3, <1>4, <1>5 DEF SnapshotInvariant

LEMMA DropStep ==
  ASSUME TypeOK, SnapshotInvariant, DropStale
  PROVE  SnapshotInvariant'
<1>1. /\ UNCHANGED <<pc, consumers, consumers_in_sync, active, directory, interest, answered,
                     countVars>>
      /\ queue # <<>> /\ queue' = Tail(queue) /\ pc = "loop" /\ active
  BY DEF DropStale, Dispatch, NoSync, consumerVars, countVars
<1>2. (OnlyListed /\ CloseIsLast /\ ClosedIsQuiet /\ CountsClosed)'
  BY <1>1, TailQueue, StreamsKept
<1>3. Phases' /\ SyncIsComplete'
  BY <1>1, SyncKept DEF SnapshotInvariant, Phases, countVars, Finished
<1>4. QED
  BY <1>2, <1>3 DEF SnapshotInvariant

\* Clear cancels what is still registered.
LEMMA ClearStep ==
  ASSUME TypeOK, SnapshotInvariant, Clear
  PROVE  SnapshotInvariant'
<1>1. /\ UNCHANGED <<queue, consumers_in_sync, directory, answered, countVars>>
      /\ pc' \in {"success", "failure"}
  BY DEF Clear, Destroyed
<1>2. \A t \in Sessions, k \in Slots :
        /\ interest'[t][k] # interest[t][k] => k \in directory[t]
        /\ interest'[t][k] \in {interest[t][k], "cancelled"}
  BY DEF Clear, Destroyed, Live, SnapshotInvariant, OnlyListed
<1>3. (OnlyListed /\ CloseIsLast /\ ClosedIsQuiet /\ CountsClosed)'
  BY <1>1, <1>2, KeptQueue, StreamsKept
<1>4. Phases' /\ SyncIsComplete'
  BY <1>1, SyncKept DEF SnapshotInvariant, Phases, countVars, Finished
<1>5. QED
  BY <1>3, <1>4 DEF SnapshotInvariant

\* A response to an OMM item request is counted and nothing else.
LEMMA MarketPriceStep ==
  ASSUME TypeOK, SnapshotInvariant, DispatchMarketPrice
  PROVE  SnapshotInvariant'
<1> DEFINE e == Head(queue)
<1>1. /\ UNCHANGED <<pc, consumers, consumers_in_sync, active, directory, interest, is_muted,
                     is_closed, refresh_count, in_sync>>
      /\ queue # <<>> /\ queue' = Tail(queue) /\ pc = "loop" /\ active
  BY DEF DispatchMarketPrice, Dispatch, NoSync, OnMarketPrice
<1>2. e.session \in Sessions /\ Protocol[e.session] = "RSSL"
  BY DispatchType DEF DispatchMarketPrice, Events
<1>3. \A s \in SSLEDSessions : refresh_received'[s] = refresh_received[s]
  BY <1>2 DEF DispatchMarketPrice, OnMarketPrice, Counted, SSLEDSessions, TypeOK, ConsumerTypeOK
<1>4. \A s \in Sessions : answered[s] \subseteq answered'[s]
  BY DEF DispatchMarketPrice, OnMarketPrice, TypeOK, ConsumerTypeOK
<1>5. (OnlyListed /\ CloseIsLast)'
  <2>1. Shifted(1)
    BY <1>1, TailQueue
  <2>2. OnlyListed'
    BY <1>1, <2>1 DEF SnapshotInvariant, OnlyListed, Shifted
  <2>3. CloseIsLast'
    BY <1>1, <2>1 DEF SnapshotInvariant, CloseIsLast, Shifted, SameStream
  <2>4. QED
    BY <2>2, <2>3
<1>6. ClosedIsQuiet'
  BY <1>1, <1>3, TailQueue DEF SnapshotInvariant, ClosedIsQuiet, Shifted
<1>7. CountsClosed'
  BY <1>1, <1>3, <1>4 DEF SnapshotInvariant, CountsClosed, SSLEDSessions
<1>8. Phases' /\ SyncIsComplete'
  BY <1>1, SyncKept DEF SnapshotInvariant, Phases, Finished
<1>9. QED
  BY <1>5, <1>6, <1>7, <1>8 DEF SnapshotInvariant

\* A login response belongs to no stream.
LEMMA PostLoginStep ==
  ASSUME TypeOK, SnapshotInvariant, NEW s \in Sessions, PostLogin(s)
  PROVE  SnapshotInvariant'
<1>1. PICK e : e.slot = 0 /\ ~e.closed /\ queue' = Append(queue, e)
  BY DEF PostLogin, Post
<1>2. UNCHANGED consumerVars /\ UNCHANGED appVars
  BY DEF PostLogin, Post
<1>3. /\ Len(queue) \in Nat /\ Len(queue') = Len(queue) + 1
      /\ \A i \in 1 .. Len(queue') :
           queue'[i] = IF i \in 1 .. Len(queue) THEN queue[i] ELSE e
  BY <1>1, AppendFact
<1> USE DEF SnapshotInvariant, consumerVars, countVars, appVars
<1>4. OnlyListed'
  BY <1>1, <1>2, <1>3 DEF OnlyListed
<1>5. CloseIsLast'
  <2> SUFFICES ASSUME NEW i \in 1 .. Len(queue'), queue'[i].closed
               PROVE  /\ queue'[i].slot # 0 /\ queue'[i].type \in FinalTypes
                      /\ interest'[queue'[i].session][queue'[i].slot] # "open"
                      /\ \A j \in i + 1 .. Len(queue') : ~SameStream(queue'[i], queue'[j])
    BY DEF CloseIsLast, SameStream
  <2>1. i \in 1 .. Len(queue) /\ queue'[i] = queue[i]
    BY <1>1, <1>3
  <2>2. /\ queue[i].slot # 0 /\ queue[i].type \in FinalTypes
        /\ interest[queue[i].session][queue[i].slot] # "open"
        /\ \A j \in i + 1 .. Len(queue) : ~SameStream(queue[i], queue[j])
    BY <2>1 DEF CloseIsLast
  <2>3. ASSUME NEW j \in i + 1 .. Len(queue') PROVE ~SameStream(queue'[i], queue'[j])
    BY <1>1, <1>3, <2>1, <2>2 DEF SameStream
  <2>4. QED
    BY <1>2, <2>1, <2>2, <2>3
<1>6. ClosedIsQuiet'
  <2>1. 0 \notin Slots
    BY SlotsFact
  <2>2. \A t \in Sessions : is_closed[t] \subseteq Slots
    BY DEF TypeOK, ConsumerTypeOK
  <2>3. QED
    BY <1>1, <1>2, <1>3, <2>1, <2>2 DEF ClosedIsQuiet, SSLEDSessions
<1>7. (Phases /\ CountsClosed /\ SyncIsComplete)'
  BY <1>2 DEF Phases, CountsClosed, SyncIsComplete, OnSyncOncePerConsumer, Finished, SSLEDSessions
<1>8. QED
  BY <1>4, <1>5, <1>6, <1>7

\* RFA posts for an open stream, and a closing event makes it final.
LEMMA PostItemStep ==
  ASSUME TypeOK, SnapshotInvariant, NEW s \in Sessions, NEW k \in Slots, PostItem(s, k)
  PROVE  SnapshotInvariant'
<1>1. PICK e : /\ e.session = s /\ e.slot = k /\ e.closed \in BOOLEAN
               /\ e.closed => e.type \in FinalTypes
               /\ queue' = Append(queue, e)
               /\ interest' = [interest EXCEPT ![s][k] = IF e.closed THEN "final" ELSE @]
  <2>1. PICK type \in IF Protocol[s] = "SSLED" THEN FeedTypes ELSE RsslTypes,
             closed \in BOOLEAN, marketfeed \in Marketfeed :
          /\ closed => type \in FinalTypes
          /\ queue' = Append(queue, [session |-> s, slot |-> k, type |-> type,
                                    closed |-> closed, marketfeed |-> marketfeed])
          /\ interest' = [interest EXCEPT ![s][k] = IF closed THEN "final" ELSE @]
    BY DEF PostItem, Post
  <2>2. WITNESS [session |-> s, slot |-> k, type |-> type, closed |-> closed,
                 marketfeed |-> marketfeed]
  <2>3. QED
    BY <2>1
<1>2. /\ interest[s][k] = "open" /\ k \in directory[s]
      /\ UNCHANGED <<directory, is_muted, answered, countVars, appVars>>
  BY DEF PostItem, Post, SnapshotInvariant, OnlyListed
<1>3. /\ Len(queue) \in Nat /\ Len(queue') = Len(queue) + 1
      /\ \A i \in 1 .. Len(queue') :
           queue'[i] = IF i \in 1 .. Len(queue) THEN queue[i] ELSE e
  BY <1>1, AppendFact
<1>4. \A t \in Sessions, j \in Slots :
        /\ interest'[t][j] # "none" <=> interest[t][j] # "none"
        /\ interest'[t][j] = "open" => interest[t][j] = "open"
  BY <1>1, <1>2 DEF TypeOK, ConsumerTypeOK
<1>5. e.closed => interest'[s][k] # "open"
  BY <1>1 DEF TypeOK, ConsumerTypeOK
<1>6. \A i \in 1 .. Len(queue) :
        queue[i].session \in Sessions /\ (queue[i].slot # 0 => queue[i].slot \in Slots)
  BY DEF TypeOK, Events
<1> USE DEF SnapshotInvariant, countVars, appVars
<1>7. OnlyListed'
  <2>1. \A t \in Sessions, j \in Slots : interest'[t][j] # "none" => j \in directory'[t]
    BY <1>2, <1>4 DEF OnlyListed
  <2>2. \A t \in Sessions : \A j \in is_closed'[t] : interest'[t][j] # "none"
    BY <1>2, <1>4 DEF OnlyListed, TypeOK, ConsumerTypeOK
  <2>3. ASSUME NEW i \in 1 .. Len(queue'), queue'[i].slot # 0
        PROVE  interest'[queue'[i].session][queue'[i].slot] # "none"
    <3>1. CASE i \in 1 .. Len(queue)
      BY <1>3, <1>4, <1>6, <2>3, <3>1 DEF OnlyListed
    <3>2. CASE i \notin 1 .. Len(queue)
      BY <1>1, <1>2, <1>3, <1>4, <3>2
    <3>3. QED
      BY <3>1, <3>2
  <2>4. QED
    BY <2>1, <2>2, <2>3 DEF OnlyListed
<1>8. CloseIsLast'
  <2> SUFFICES ASSUME NEW i \in 1 .. Len(queue'), queue'[i].closed
               PROVE  /\ queue'[i].slot # 0 /\ queue'[i].type \in FinalTypes
                      /\ interest'[queue'[i].session][queue'[i].slot] # "open"
                      /\ \A j \in i + 1 .. Len(queue') : ~SameStream(queue'[i], queue'[j])
    BY DEF CloseIsLast, SameStream
  <2>1. CASE i \in 1 .. Len(queue)
    <3>1. queue'[i] = queue[i]
      BY <1>3, <2>1
    <3>2. /\ queue[i].slot # 0 /\ queue[i].type \in FinalTypes
          /\ interest[queue[i].session][queue[i].slot] # "open"
          /\ \A j \in i + 1 .. Len(queue) : ~SameStream(queue[i], queue[j])
      BY <2>1, <3>1 DEF CloseIsLast
    <3>3. interest'[queue[i].session][queue[i].slot] # "open"
      BY <1>4, <1>6, <2>1, <3>2
    <3>4. ASSUME NEW j \in i + 1 .. Len(queue') PROVE ~SameStream(queue'[i], queue'[j])
      <4>1. CASE j \in i + 1 .. Len(queue)
        BY <1>3, <2>1, <3>1, <3>2, <4>1
      <4>2. CASE j \notin i + 1 .. Len(queue)
        <5>1. queue'[j] = e
          BY <1>3, <2>1, <4>2
        <5>2. QED
          BY <1>1, <1>2, <3>1, <3>2, <5>1 DEF SameStream
      <4>3. QED
        BY <4>1, <4>2
    <3>5. QED
      BY <3>1, <3>2, <3>3, <3>4
  <2>2. CASE i \notin 1 .. Len(queue)
    <3>1. queue'[i] = e /\ i + 1 .. Len(queue') = {}
      BY <1>3, <2>2
    <3>2. k # 0
      BY SlotsFact
    <3>3. QED
      BY <1>1, <1>5, <3>1, <3>2
  <2>3. QED
    BY <2>1, <2>2
<1>9. ClosedIsQuiet'
  <2> SUFFICES ASSUME NEW t \in SSLEDSessions, NEW j \in is_closed[t], refresh_received[t][j] = 0
               PROVE  /\ interest'[t][j] # "open"
                      /\ \A i \in 1 .. Len(queue') : queue'[i].session # t \/ queue'[i].slot # j
    BY <1>2 DEF ClosedIsQuiet
  <2>1. t \in Sessions /\ j \in Slots
    BY DEF SSLEDSessions, TypeOK, ConsumerTypeOK
  <2>2. interest[t][j] # "open"
        /\ \A i \in 1 .. Len(queue) : queue[i].session # t \/ queue[i].slot # j
    BY DEF ClosedIsQuiet
  <2>3. QED
    BY <1>1, <1>2, <1>3, <1>4, <2>1, <2>2
<1>10. (Phases /\ CountsClosed /\ SyncIsComplete)'
  BY <1>2 DEF Phases, CountsClosed, SyncIsComplete, OnSyncOncePerConsumer, Finished, SSLEDSessions
<1>11. QED
  BY <1>7, <1>8, <1>9, <1>10

-----------------------------------------------------------------------------
\* The market data event, where the counting happens.

\* What is known of the event a market data step takes off the queue.
LEMMA TakenEvent ==
  ASSUME TypeOK, SnapshotInvariant, SnapshotMode, NEW e, e = Head(queue), DispatchMarketData
  PROVE  /\ e = queue[1] /\ 1 \in 1 .. Len(queue) /\ Shifted(1)
         /\ e.session \in SSLEDSessions /\ e.session \in Sessions /\ e.slot \in Slots
         /\ e.slot \in directory[e.session] /\ interest[e.session][e.slot] # "none"
         /\ e.closed \in BOOLEAN /\ (e.closed => e.type # "Image")
         /\ OnMarketDataItemEvent(e.session, e)
         /\ pc = "loop" /\ active /\ UNCHANGED <<pc, consumers>>
<1>1. /\ queue # <<>> /\ queue' = Tail(queue) /\ e.slot # 0 /\ Protocol[e.session] = "SSLED"
      /\ OnMarketDataItemEvent(e.session, e) /\ pc = "loop" /\ active
      /\ UNCHANGED <<pc, consumers>>
  BY DEF DispatchMarketData, Dispatch
<1>2. e = queue[1] /\ 1 \in 1 .. Len(queue) /\ Shifted(1)
  BY <1>1, TailFact, TailQueue
<1>3. e.session \in Sessions /\ e.slot \in Slots /\ e.closed \in BOOLEAN
  BY <1>1, DispatchType DEF DispatchMarketData, Events
<1>4. interest[e.session][e.slot] # "none" /\ e.slot \in directory[e.session]
  BY <1>1, <1>2, <1>3 DEF SnapshotInvariant, OnlyListed
<1>5. e.closed => e.type # "Image"
  BY <1>2 DEF SnapshotInvariant, CloseIsLast, SnapshotMode
<1>6. QED
  BY <1>1, <1>2, <1>3, <1>4, <1>5 DEF SSLEDSessions

\* In snapshot mode an event gains one exactly when it closes a stream: a
\* closing event that is the first, or the first image of a stream that,
\* having an event queued, is not closed.
LEMMA GainIsClosing ==
  ASSUME TypeOK, SnapshotInvariant, SnapshotMode, NEW e, e = Head(queue), DispatchMarketData
  PROVE  LET s == e.session IN
         /\ is_closed'[s] = is_closed[s] \/ is_closed'[s] = is_closed[s] \cup {e.slot}
         /\ refresh_count'[s] = Cardinality(is_closed'[s])
         /\ refresh_count'[s] = refresh_count[s] + Gain(s, e)
         /\ e.closed \/ FirstImage(s, e) => e.slot \in is_closed'[s]
         /\ e.slot \in is_closed'[s] \ is_closed[s] => e.closed \/ FirstImage(s, e)
<1> DEFINE s == e.session
<1>1. /\ s \in SSLEDSessions /\ s \in Sessions /\ e.slot \in Slots /\ e = queue[1]
      /\ 1 \in 1 .. Len(queue) /\ e.closed \in BOOLEAN /\ (e.closed => e.type # "Image")
      /\ OnMarketDataItemEvent(s, e)
  BY TakenEvent
<1> HIDE DEF s
<1>2. EndsSnapshot(s, e) <=> FirstImage(s, e)
  BY DEF EndsSnapshot, SnapshotMode, InterestAfterRefresh
<1>3. /\ refresh_count'[s] = refresh_count[s] + Gain(s, e)
      /\ is_closed'[s] = IF e.closed \/ FirstImage(s, e) THEN is_closed[s] \cup {e.slot}
                         ELSE is_closed[s]
  BY <1>1, <1>2 DEF OnMarketDataItemEvent, TypeOK, ConsumerTypeOK
<1>4. FirstImage(s, e) => ~e.closed /\ e.slot \notin is_closed[s]
  BY <1>1 DEF FirstImage, SnapshotInvariant, ClosedIsQuiet, s
<1>5. Gain(s, e) = IF (e.closed \/ FirstImage(s, e)) /\ e.slot \notin is_closed[s] THEN 1 ELSE 0
  BY <1>4 DEF Gain, ClosesNow
<1>6. /\ refresh_count[s] = Cardinality(is_closed[s]) /\ refresh_count[s] \in Nat
      /\ Cardinality(is_closed[s] \cup {e.slot}) =
           IF e.slot \in is_closed[s] THEN Cardinality(is_closed[s])
           ELSE Cardinality(is_closed[s]) + 1
  BY <1>1, Finite, FS_AddElement DEF SnapshotInvariant, CountsClosed, TypeOK, ConsumerTypeOK
<1>7. is_closed[s] \cup {e.slot} = is_closed[s] <=> e.slot \in is_closed[s]
  OBVIOUS
<1>8. refresh_count'[s] = Cardinality(is_closed'[s])
  BY <1>3, <1>5, <1>6
<1>9. QED
  BY <1>3, <1>8 DEF s

LEMMA MarketDataStep ==
  ASSUME TypeOK, SnapshotInvariant, SnapshotMode, DispatchMarketData
  PROVE  SnapshotInvariant'
<1>1. PICK e : e = Head(queue)
  OBVIOUS
<1>2. PICK s : s = e.session
  OBVIOUS
<1>3. /\ e = queue[1] /\ 1 \in 1 .. Len(queue) /\ Shifted(1)
      /\ s \in SSLEDSessions /\ s \in Sessions /\ e.slot \in Slots
      /\ e.slot \in directory[s] /\ interest[s][e.slot] # "none"
      /\ e.closed \in BOOLEAN /\ (e.closed => e.type # "Image")
      /\ OnMarketDataItemEvent(s, e)
      /\ pc = "loop" /\ active /\ UNCHANGED <<pc, consumers>>
  BY <1>1, <1>2, TakenEvent
<1>4. /\ is_closed'[s] = is_closed[s] \/ is_closed'[s] = is_closed[s] \cup {e.slot}
      /\ refresh_count'[s] = Cardinality(is_closed'[s])
      /\ refresh_count'[s] = refresh_count[s] + Gain(s, e)
      /\ e.closed \/ FirstImage(s, e) => e.slot \in is_closed'[s]
      /\ e.slot \in is_closed'[s] \ is_closed[s] => e.closed \/ FirstImage(s, e)
  BY <1>1, <1>2, GainIsClosing
<1>5. \A t \in Sessions \ {s} :
        /\ is_closed'[t] = is_closed[t] /\ refresh_count'[t] = refresh_count[t]
        /\ answered'[t] = answered[t] /\ refresh_received'[t] = refresh_received[t]
        /\ interest'[t] = interest[t]
  BY <1>2, <1>3 DEF OnMarketDataItemEvent, Counted, TypeOK, ConsumerTypeOK
<1>6. /\ directory' = directory /\ is_muted' = is_muted
      /\ \A k \in Slots \ {e.slot} : /\ interest'[s][k] = interest[s][k]
                                     /\ refresh_received'[s][k] = refresh_received[s][k]
      /\ interest'[s][e.slot] = Released(s, e)
      /\ refresh_received'[s][e.slot] = refresh_received[s][e.slot]
                                         + (IF e.type = "Image" THEN 1 ELSE 0)
  <2>1. /\ directory' = directory /\ is_muted' = is_muted
        /\ \A k \in Slots \ {e.slot} : interest'[s][k] = interest[s][k]
        /\ interest'[s][e.slot] = Released(s, e)
    BY <1>3 DEF OnMarketDataItemEvent, TypeOK, ConsumerTypeOK
  <2>2. refresh_received' = IF e.type = "Image"
                            THEN [refresh_received EXCEPT ![s][e.slot] = @ + 1]
                            ELSE refresh_received
    BY <1>2, <1>3 DEF OnMarketDataItemEvent, Counted
  <2>3. refresh_received \in [Sessions -> [Slots -> Nat]]
    BY DEF TypeOK, ConsumerTypeOK
  <2>4. \A k \in Slots \ {e.slot} : refresh_received'[s][k] = refresh_received[s][k]
    BY <1>3, <2>2, <2>3
  <2>5. refresh_received'[s][e.slot] = refresh_received[s][e.slot]
                                       + (IF e.type = "Image" THEN 1 ELSE 0)
    <3>1. CASE e.type = "Image"
      BY <1>3, <2>2, <2>3, <3>1
    <3>2. CASE e.type # "Image"
      <4>1. refresh_received[s][e.slot] \in Nat
        BY <1>3, <2>3
      <4>2. QED
        BY <2>2, <3>2, <4>1
    <3>3. QED
      BY <3>1, <3>2
  <2>6. QED
    BY <2>1, <2>4, <2>5
<1>7. Released(s, e) # "none" /\ (interest[s][e.slot] # "open" => Released(s, e) # "open")
  BY <1>3 DEF Released, Unregistered
<1>8. \A t \in Sessions, k \in Slots :
        /\ interest[t][k] # "none" <=> interest'[t][k] # "none"
        /\ interest[t][k] # "open" => interest'[t][k] # "open"
  BY <1>3, <1>5, <1>6, <1>7
<1>9. \A i \in 1 .. Len(queue) :
        queue[i].session \in Sessions /\ (queue[i].slot # 0 => queue[i].slot \in Slots)
  BY DEF TypeOK, Events
<1>c. \A t \in Sessions :
        /\ is_closed[t] \subseteq is_closed'[t] /\ is_closed'[t] \subseteq Slots
        /\ \A k \in is_closed'[t] : k \in is_closed[t] \/ (t = s /\ k = e.slot)
  BY <1>3, <1>4, <1>5 DEF TypeOK, ConsumerTypeOK
<1>10. Phases'
  BY <1>3 DEF SnapshotInvariant, Phases
<1>11. OnlyListed'
  <2>1. \A t \in Sessions, k \in Slots : interest'[t][k] # "none" => k \in directory'[t]
    BY <1>6, <1>8 DEF SnapshotInvariant, OnlyListed
  <2>2. \A t \in Sessions : \A k \in is_closed'[t] : interest'[t][k] # "none"
    BY <1>3, <1>8, <1>c DEF SnapshotInvariant, OnlyListed
  <2>3. ASSUME NEW i \in 1 .. Len(queue'), queue'[i].slot # 0
        PROVE  interest'[queue'[i].session][queue'[i].slot] # "none"
    <3>1. i + 1 \in 1 .. Len(queue) /\ queue'[i] = queue[i + 1]
      BY <1>3 DEF Shifted
    <3>2. interest[queue[i + 1].session][queue[i + 1].slot] # "none"
      BY <2>3, <3>1 DEF SnapshotInvariant, OnlyListed
    <3>3. QED
      BY <1>8, <1>9, <2>3, <3>1, <3>2
  <2>4. QED
    BY <2>1, <2>2, <2>3 DEF OnlyListed
<1>12. CloseIsLast'
  <2> SUFFICES ASSUME NEW i \in 1 .. Len(queue'), queue'[i].closed
               PROVE  /\ queue'[i].slot # 0 /\ queue'[i].type \in FinalTypes
                      /\ interest'[queue'[i].session][queue'[i].slot] # "open"
                      /\ \A j \in i + 1 .. Len(queue') : ~SameStream(queue'[i], queue'[j])
    BY DEF CloseIsLast, SameStream
  <2>1. i + 1 \in 1 .. Len(queue) /\ queue'[i] = queue[i + 1]
    BY <1>3 DEF Shifted
  <2>2. /\ queue[i + 1].slot # 0 /\ queue[i + 1].type \in FinalTypes
        /\ interest[queue[i + 1].session][queue[i + 1].slot] # "open"
        /\ \A j \in (i + 1) + 1 .. Len(queue) : ~SameStream(queue[i + 1], queue[j])
    BY <2>1 DEF SnapshotInvariant, CloseIsLast
  <2>3. interest'[queue'[i].session][queue'[i].slot] # "open"
    BY <1>8, <1>9, <2>1, <2>2
  <2>4. ASSUME NEW j \in i + 1 .. Len(queue') PROVE ~SameStream(queue'[i], queue'[j])
    <3>1. j \in 1 .. Len(queue') /\ j + 1 \in (i + 1) + 1 .. Len(queue)
      BY <1>3 DEF Shifted
    <3>2. queue'[j] = queue[j + 1]
      BY <1>3, <3>1 DEF Shifted
    <3>3. QED
      BY <2>1, <2>2, <3>1, <3>2
  <2>5. QED
    BY <2>1, <2>2, <2>3, <2>4
<1>13. ClosedIsQuiet'
  <2> SUFFICES ASSUME NEW t \in SSLEDSessions, NEW k \in is_closed'[t],
                      refresh_received'[t][k] = 0
               PROVE  /\ interest'[t][k] # "open"
                      /\ \A i \in 1 .. Len(queue') : queue'[i].session # t \/ queue'[i].slot # k
    BY DEF ClosedIsQuiet, SSLEDSessions
  <2>1. t \in Sessions
    BY DEF SSLEDSessions
  <2>2. CASE k \in is_closed[t]
    <3>1. k \in Slots /\ refresh_received[t][k] \in Nat
      BY <2>1, <2>2 DEF TypeOK, ConsumerTypeOK
    <3>2. refresh_received[t][k] = 0
      BY <1>5, <1>6, <2>1, <3>1
    <3>3. interest[t][k] # "open"
          /\ \A i \in 1 .. Len(queue) : queue[i].session # t \/ queue[i].slot # k
      BY <2>2, <3>2 DEF SnapshotInvariant, ClosedIsQuiet
    <3>4. QED
      BY <1>3, <1>8, <2>1, <3>1, <3>3 DEF Shifted
  <2>3. CASE k \notin is_closed[t]
    <3>1. t = s /\ k = e.slot
      BY <1>4, <1>5, <2>1, <2>3
    <3>2. e.closed
      <4>1. ~FirstImage(s, e)
        BY <1>6, <3>1 DEF FirstImage
      <4>2. QED
        BY <1>4, <2>3, <3>1, <4>1
    <3>3. /\ interest[s][e.slot] # "open"
          /\ \A j \in 1 + 1 .. Len(queue) : ~SameStream(e, queue[j])
      BY <1>2, <1>3, <3>2 DEF SnapshotInvariant, CloseIsLast
    <3>4. interest'[t][k] # "open"
      BY <1>3, <1>8, <3>1, <3>3
    <3>5. ASSUME NEW i \in 1 .. Len(queue') PROVE queue'[i].session # t \/ queue'[i].slot # k
      <4>1. queue'[i] = queue[i + 1] /\ i + 1 \in 1 + 1 .. Len(queue)
        BY <1>3 DEF Shifted
      <4>2. QED
        BY <1>2, <3>1, <3>3, <4>1 DEF SameStream
    <3>6. QED
      BY <3>4, <3>5
  <2>4. QED
    BY <2>2, <2>3
<1>14. CountsClosed'
  <2>1. \A t \in Sessions : refresh_count'[t] = Cardinality(is_closed'[t])
    BY <1>4, <1>5 DEF SnapshotInvariant, CountsClosed
  <2>2. \A t \in Sessions : is_closed'[t] \subseteq answered'[t]
    <3>1. answered[s] \subseteq answered'[s]
      BY <1>3 DEF OnMarketDataItemEvent, TypeOK, ConsumerTypeOK
    <3>2. e.closed \/ FirstImage(s, e) => e.slot \in answered'[s]
      BY <1>3 DEF OnMarketDataItemEvent, FirstImage, TypeOK, ConsumerTypeOK
    <3>3. is_closed'[s] \subseteq answered'[s]
      BY <1>3, <1>4, <3>1, <3>2 DEF SnapshotInvariant, CountsClosed
    <3>4. QED
      BY <1>5, <3>3 DEF SnapshotInvariant, CountsClosed
  <2>3. ASSUME NEW t \in SSLEDSessions, NEW k \in Slots, refresh_received'[t][k] > 0
        PROVE  k \in is_closed'[t]
    <3>1. t \in Sessions /\ is_closed[t] \subseteq is_closed'[t]
      BY <1>4, <1>5 DEF SSLEDSessions
    <3>2. refresh_received[t][k] \in Nat /\ (refresh_received[t][k] > 0 => k \in is_closed[t])
      BY <3>1 DEF SnapshotInvariant, CountsClosed, TypeOK, ConsumerTypeOK
    <3>3. CASE refresh_received[t][k] > 0
      BY <3>1, <3>2, <3>3
    <3>4. CASE refresh_received[t][k] = 0
      <4>1. t = s /\ k = e.slot /\ FirstImage(s, e)
        BY <1>5, <1>6, <2>3, <3>1, <3>4 DEF FirstImage
      <4>2. QED
        BY <1>4, <4>1
    <3>5. QED
      BY <3>2, <3>3, <3>4
  <2>4. QED
    BY <2>1, <2>2, <2>3 DEF CountsClosed, SSLEDSessions
<1>15. SyncIsComplete'
  <2>1. \A t \in Sessions : /\ is_closed[t] \subseteq is_closed'[t]
                            /\ is_closed'[t] \subseteq directory[t]
    BY <1>3, <1>c DEF SnapshotInvariant, OnlyListed
  <2>2. \A t \in in_sync : is_closed'[t] = directory'[t]
    BY <1>6, <2>1 DEF SnapshotInvariant, SyncIsComplete, TypeOK, ConsumerTypeOK
  <2>3. CASE ReachesSync(s, e)
    <3>1. is_closed'[s] = directory'[s]
      <4>1. Cardinality(is_closed'[s]) = Cardinality(directory[s])
        BY <1>4, <2>3 DEF ReachesSync
      <4>2. QED
        BY <1>3, <1>6, <2>1, <4>1, Finite, FS_Subset
    <3>2. in_sync' = in_sync \cup {s} /\ s \notin in_sync
      BY <1>3, <2>3 DEF OnMarketDataItemEvent, ReachesSync
    <3>3. OnSync
      BY <1>1, <1>2, <2>3 DEF DispatchMarketData
    <3>4. OnSyncOncePerConsumer'
      BY <3>2, <3>3, Finite, FS_AddElement
      DEF OnSync, OnSyncOncePerConsumer, SnapshotInvariant, SyncIsComplete
    <3>5. Finished' => in_sync' = Sessions
      <4>1. SUFFICES ASSUME ~active' PROVE in_sync' = Sessions
        BY DEF Finished
      <4>2. consumers_in_sync' = Cardinality(Sessions)
        BY <1>3, <3>3, <4>1 DEF OnSync, SnapshotInvariant, Phases
      <4>3. in_sync' \subseteq Sessions
        BY <1>3, <3>2 DEF TypeOK, ConsumerTypeOK
      <4>4. QED
        BY <3>4, <4>2, <4>3, Finite, FS_Subset DEF OnSyncOncePerConsumer
    <3>6. QED
      BY <2>2, <3>1, <3>2, <3>4, <3>5 DEF SyncIsComplete
  <2>4. CASE ~ReachesSync(s, e)
    <3>1. in_sync' = in_sync
      BY <1>3, <2>4 DEF OnMarketDataItemEvent
    <3>2. NoSync
      BY <1>1, <1>2, <2>4 DEF DispatchMarketData
    <3>3. QED
      BY <1>3, <2>2, <3>1, <3>2
      DEF NoSync, SnapshotInvariant, SyncIsComplete, OnSyncOncePerConsumer, Finished
  <2>5. QED
    BY <2>3, <2>4
<1>16. QED
  BY <1>10, <1>11, <1>12, <1>13, <1>14, <1>15 DEF SnapshotInvariant

-----------------------------------------------------------------------------
\* Every step of a snapshot capture preserves the invariant.
LEMMA NextSnapshot ==
  ASSUME SnapshotMode, TypeOK, SnapshotInvariant, [Next]_vars
  PROVE  SnapshotInvariant'
<1>1. CASE InitFails \/ LeaveLoop
  BY <1>1, RunSteps, ConfigAssumption
<1>2. ASSUME NEW s \in Sessions, InitConsumer(s) \/ AddStream(s) \/ Subscribe(s) \/ PostLogin(s)
      PROVE  SnapshotInvariant'
  BY <1>2, RunSteps, AddStreamStep, SubscribeStep, PostLoginStep
<1>3. ASSUME NEW s \in Sessions, NEW k \in Slots, PostItem(s, k) PROVE SnapshotInvariant'
  BY <1>3, PostItemStep
<1>4. CASE DispatchMarketData
  BY <1>4, MarketDataStep
<1>5. CASE DispatchMarketPrice \/ DispatchLogin \/ DropStale \/ Clear
  BY <1>5, MarketPriceStep, LoginStep, DropStep, ClearStep
<1>6. CASE UNCHANGED vars
  BY <1>6 DEF vars, consumerVars, countVars, appVars, SnapshotInvariant, Phases, OnlyListed,
     CloseIsLast, ClosedIsQuiet, CountsClosed, SyncIsComplete, OnSyncOncePerConsumer, Finished,
     SSLEDSessions, SameStream
<1>7. QED
  BY <1>1, <1>2, <1>3, <1>4, <1>5, <1>6
  DEF Next, Startup, MainLoop, Feed, DispatchTimeout, Exited

\* In every snapshot capture the counters mean what check_sync takes them for:
\* refresh_count_ is the number of closed streams, all of them answered.
THEOREM SnapshotCorrect ==
  ASSUME SnapshotMode
  PROVE  Spec => []SnapshotInvariant
<1>1. TypeOK /\ SnapshotInvariant /\ [Next]_vars => (TypeOK /\ SnapshotInvariant)'
  BY NextTypeOK, NextSnapshot
<1>2. QED
  BY <1>1, InitTypeOK, InitSnapshot, PTL DEF Spec

\* Terminate-on-sync never cuts a snapshot capture short, for any number of
\* sessions and symbols, repeated ones included, of either protocol, whatever
\* RFA refuses, closes or delivers late.
THEOREM NeverFinishesEarly ==
  ASSUME SnapshotMode
  PROVE  Spec => []FinishOnlyWhenAnswered
<1>1. SnapshotInvariant => FinishOnlyWhenAnswered
  BY DEF SnapshotInvariant, SyncIsComplete, CountsClosed, FinishOnlyWhenAnswered, Complete
<1>2. QED
  BY <1>1, SnapshotCorrect, PTL

-----------------------------------------------------------------------------
\* What RFA holds for the streams.

\* Where Run is before anything is dispatched, and after Clear.
Starting == {"consumers", "streams", "subscribe"}
Over == {"success", "failure"}

\* A registration has its handle, a handle its entry in the directory, and an
\* entry its stream; what is queued was posted for a registration.
Handles ==
  /\ pc \in Starting => is_muted = Sessions
  /\ \A s \in Sessions : item_handle[s] \subseteq directory[s]
  /\ \A s \in Sessions, k \in Slots :
       interest[s][k] # "none" => k \in item_handle[s] /\ interest[s][k] # "doubled"
  /\ pc \notin Over => streams = directory
  /\ \A i \in 1 .. Len(queue) :
       queue[i].slot # 0 => interest[queue[i].session][queue[i].slot] # "none"

\* The directory has one entry for each symbol offered so far.
Listing ==
  /\ \A s \in Sessions : \A i, j \in directory[s] : Instruments[i] = Instruments[j] => i = j
  /\ \A s \in Sessions : \A k \in 1 .. attempted[s] :
       \E j \in directory[s] : Instruments[j] = Instruments[k]
  /\ pc \in {"subscribe", "loop"} => \A s \in Sessions : attempted[s] = Len(Instruments)

-----------------------------------------------------------------------------
\* Handles.

\* Events of the queue are well typed.
LEMMA QueuedEvent ==
  ASSUME TypeOK, NEW i \in 1 .. Len(queue)
  PROVE  /\ queue[i] \in Events /\ queue[i].session \in Sessions
         /\ queue[i].slot # 0 => queue[i].slot \in Slots
  BY DEF TypeOK, Events

\* Nothing is registered or listed at first.
LEMMA InitHandles == Init => Handles /\ Listing
<1> SUFFICES ASSUME Init PROVE Handles /\ Listing
  OBVIOUS
<1>1. queue = <<>> /\ 1 .. Len(queue) = {}
  BY DEF Init
<1>2. Handles
  BY <1>1 DEF Init, ConsumerInit, InitiallyMuted, Handles, Starting
<1>3. Listing
  BY DEF Init, ConsumerInit, Listing
<1>4. QED
  BY <1>2, <1>3

\* Steps that neither list, nor request, nor post, whatever they release.
LEMMA HandlesKept ==
  ASSUME TypeOK, Handles, NEW d \in {0, 1}, Shifted(d),
         UNCHANGED <<directory, item_handle, streams>>,
         \A t \in Sessions, k \in Slots :
           /\ interest'[t][k] # "none" <=> interest[t][k] # "none"
           /\ interest'[t][k] = "doubled" => interest[t][k] = "doubled",
         pc' \in Starting => pc \in Starting /\ is_muted' = is_muted,
         pc' \notin Over => pc \notin Over
  PROVE  Handles'
<1>1. ASSUME NEW i \in 1 .. Len(queue'), queue'[i].slot # 0
      PROVE  interest'[queue'[i].session][queue'[i].slot] # "none"
  <2>1. i + d \in 1 .. Len(queue) /\ queue'[i] = queue[i + d]
    BY DEF Shifted
  <2>2. interest[queue[i + d].session][queue[i + d].slot] # "none"
    BY <1>1, <2>1 DEF Handles
  <2>3. QED
    BY <1>1, <2>1, <2>2, QueuedEvent
<1>2. (pc \in Starting => is_muted = Sessions)' /\ (pc \notin Over => streams = directory)'
  BY DEF Handles
<1>3. QED
  BY <1>1, <1>2 DEF Handles

\* A request is made for streams that have no handle: the second one never
\* meets a registration.
LEMMA HandlesRequested ==
  ASSUME TypeOK, Handles, NEW s \in Sessions, NEW granted, Resubscribe(s, granted),
         NEW d \in {0, 1}, Shifted(d),
         UNCHANGED <<directory, streams>>,
         pc' \in Starting => pc \in Starting /\ is_muted' = is_muted,
         pc' \notin Over => pc \notin Over
  PROVE  Handles'
<1>1. granted \subseteq directory[s] /\ granted \subseteq Slots
      /\ \A k \in granted : k \notin item_handle[s] /\ interest[s][k] = "none"
  BY DEF Resubscribe, Unfulfilled, Handles, TypeOK, ConsumerTypeOK
<1>2. /\ item_handle' = [item_handle EXCEPT ![s] = @ \cup granted]
      /\ \A t \in Sessions, k \in Slots :
           interest'[t][k] = IF t = s /\ k \in granted THEN "open" ELSE interest[t][k]
  BY <1>1 DEF Resubscribe, Registered, TypeOK, ConsumerTypeOK
<1>3. \A t \in Sessions : item_handle'[t] \subseteq directory'[t]
  BY <1>1, <1>2 DEF Handles, TypeOK, ConsumerTypeOK
<1>4. \A t \in Sessions, k \in Slots :
        interest'[t][k] # "none" => k \in item_handle'[t] /\ interest'[t][k] # "doubled"
  BY <1>2 DEF Handles, TypeOK, ConsumerTypeOK
<1>5. ASSUME NEW i \in 1 .. Len(queue'), queue'[i].slot # 0
      PROVE  interest'[queue'[i].session][queue'[i].slot] # "none"
  <2>1. i + d \in 1 .. Len(queue) /\ queue'[i] = queue[i + d]
    BY DEF Shifted
  <2>2. interest[queue[i + d].session][queue[i + d].slot] # "none"
    BY <1>5, <2>1 DEF Handles
  <2>3. QED
    BY <1>2, <1>5, <2>1, <2>2, QueuedEvent
<1>6. (pc \in Starting => is_muted = Sessions)' /\ (pc \notin Over => streams = directory)'
  BY DEF Handles
<1>7. QED
  BY <1>3, <1>4, <1>5, <1>6 DEF Handles

\* Creating a stream while the consumer is muted requests nothing.
LEMMA HandlesAddStream ==
  ASSUME TypeOK, Handles, NEW s \in Sessions, AddStream(s)
  PROVE  Handles'
<1>1. /\ pc = "streams" /\ s \in is_muted /\ is_muted = Sessions /\ streams = directory
      /\ CreateItemStream(s, attempted'[s])
  BY DEF AddStream, Handles, Starting, Over
<1>2. UNCHANGED <<interest, item_handle, is_muted, queue>> /\ pc' \in {"streams", "subscribe"}
  BY <1>1 DEF AddStream, CreateItemStream
<1>3. streams' = directory' /\ \A t \in Sessions : directory[t] \subseteq directory'[t]
  BY <1>1 DEF CreateItemStream, TypeOK, ConsumerTypeOK
<1>4. QED
  BY <1>1, <1>2, <1>3 DEF Handles

\* RFA posts for what is registered.
LEMMA HandlesPosted ==
  ASSUME TypeOK, Handles, NEW e, queue' = Append(queue, e),
         e.slot # 0 => /\ e.session \in Sessions /\ e.slot \in Slots
                       /\ interest[e.session][e.slot] # "none",
         UNCHANGED <<directory, item_handle, streams, is_muted, pc>>,
         \A t \in Sessions, k \in Slots :
           /\ interest'[t][k] # "none" <=> interest[t][k] # "none"
           /\ interest'[t][k] = "doubled" => interest[t][k] = "doubled"
  PROVE  Handles'
<1>1. ASSUME NEW i \in 1 .. Len(queue'), queue'[i].slot # 0
      PROVE  interest'[queue'[i].session][queue'[i].slot] # "none"
  <2>1. CASE i \in 1 .. Len(queue)
    BY <1>1, <2>1, AppendFact, QueuedEvent DEF Handles
  <2>2. CASE i \notin 1 .. Len(queue)
    BY <1>1, <2>2, AppendFact
  <2>3. QED
    BY <2>1, <2>2
<1>2. QED
  BY <1>1 DEF Handles

\* What a market data event is: of a session and a stream that is registered.
LEMMA TakenForStream ==
  ASSUME TypeOK, Handles, Dispatch, Head(queue).slot # 0
  PROVE  LET e == Head(queue) IN
         /\ e \in Events /\ e.session \in Sessions /\ e.slot \in Slots
         /\ interest[e.session][e.slot] # "none"
         /\ pc = "loop" /\ pc' = pc /\ Shifted(1)
<1>1. queue # <<>> /\ queue' = Tail(queue) /\ pc = "loop" /\ pc' = pc
  BY DEF Dispatch
<1>2. Head(queue) = queue[1] /\ 1 \in 1 .. Len(queue) /\ Shifted(1)
  BY <1>1, TailFact, TailQueue
<1>3. QED
  BY <1>1, <1>2, QueuedEvent DEF Handles

\* No release makes a registration out of none, or doubles one.
LEMMA ReleasedStates ==
  ASSUME NEW s, NEW e, interest[s][e.slot] \in InterestStates \ {"none", "doubled"}
  PROVE  Released(s, e) \in InterestStates \ {"none", "doubled"}
  BY DEF Released, Unregistered, InterestStates

\* Every step keeps handles, registrations and the directory together.
LEMMA NextHandles ==
  ASSUME TypeOK, Handles, [Next]_vars
  PROVE  Handles'
<1> USE DEF consumerVars, countVars, feedVars
<1>1. CASE InitFails \/ LeaveLoop
  BY <1>1, KeptQueue, HandlesKept DEF InitFails, LeaveLoop, Starting, Over
<1>2. ASSUME NEW s \in Sessions, InitConsumer(s) PROVE Handles'
  BY <1>2, KeptQueue, HandlesKept DEF InitConsumer, Starting, Over
<1>3. ASSUME NEW s \in Sessions, AddStream(s) PROVE Handles'
  BY <1>3, HandlesAddStream
<1>4. ASSUME NEW s \in Sessions, Subscribe(s) PROVE Handles'
  <2>1. PICK granted : Resubscribe(s, granted)
    BY <1>4 DEF Subscribe
  <2>2. /\ UNCHANGED <<directory, streams, is_muted, queue>>
        /\ pc = "subscribe" /\ pc' \in {"subscribe", "loop", "failing"}
    BY <1>4 DEF Subscribe
  <2>3. QED
    BY <2>1, <2>2, KeptQueue, HandlesRequested DEF Starting, Over
<1>5. ASSUME NEW s \in Sessions, PostLogin(s) PROVE Handles'
  <2>1. PICK e : e.slot = 0 /\ queue' = Append(queue, e)
    BY <1>5 DEF PostLogin, Post
  <2>2. UNCHANGED <<directory, item_handle, streams, is_muted, pc, interest>>
    BY <1>5 DEF PostLogin, Post, appVars
  <2>3. QED
    BY <2>1, <2>2, HandlesPosted
<1>6. ASSUME NEW s \in Sessions, NEW k \in Slots, PostItem(s, k) PROVE Handles'
  <2>1. PICK e : /\ e.session = s /\ e.slot = k
                 /\ queue' = Append(queue, e)
                 /\ interest' = [interest EXCEPT ![s][k] = IF e.closed THEN "final" ELSE @]
    <3>1. PICK type \in IF Protocol[s] = "SSLED" THEN FeedTypes ELSE RsslTypes,
               closed \in BOOLEAN, marketfeed \in Marketfeed :
            /\ queue' = Append(queue, [session |-> s, slot |-> k, type |-> type,
                                      closed |-> closed, marketfeed |-> marketfeed])
            /\ interest' = [interest EXCEPT ![s][k] = IF closed THEN "final" ELSE @]
      BY <1>6 DEF PostItem, Post
    <3>2. WITNESS [session |-> s, slot |-> k, type |-> type, closed |-> closed,
                   marketfeed |-> marketfeed]
    <3>3. QED
      BY <3>1
  <2>2. /\ interest[s][k] = "open"
        /\ UNCHANGED <<directory, item_handle, streams, is_muted, pc>>
    BY <1>6 DEF PostItem, Post, appVars
  <2>3. \A t \in Sessions, j \in Slots :
          /\ interest'[t][j] # "none" <=> interest[t][j] # "none"
          /\ interest'[t][j] = "doubled" => interest[t][j] = "doubled"
    BY <2>1, <2>2 DEF TypeOK, ConsumerTypeOK
  <2>4. QED
    BY <2>1, <2>2, <2>3, HandlesPosted
<1>7. CASE DispatchMarketData
  <2> DEFINE e == Head(queue)
  <2>1. /\ e.session \in Sessions /\ e.slot \in Slots /\ interest[e.session][e.slot] # "none"
        /\ pc = "loop" /\ pc' = pc /\ Shifted(1) /\ OnMarketDataItemEvent(e.session, e)
    BY <1>7, TakenForStream DEF DispatchMarketData
  <2> HIDE DEF e
  <2>2. Released(e.session, e) \in InterestStates \ {"none", "doubled"}
    BY <2>1, ReleasedStates DEF Handles, TypeOK, ConsumerTypeOK
  <2>3. /\ UNCHANGED <<directory, item_handle, streams, is_muted>>
        /\ interest' = [interest EXCEPT ![e.session][e.slot] = Released(e.session, e)]
    BY <2>1 DEF OnMarketDataItemEvent
  <2>4. \A t \in Sessions, k \in Slots :
          /\ interest'[t][k] # "none" <=> interest[t][k] # "none"
          /\ interest'[t][k] = "doubled" => interest[t][k] = "doubled"
    BY <2>1, <2>2, <2>3 DEF TypeOK, ConsumerTypeOK
  <2>5. QED
    BY <2>1, <2>3, <2>4, HandlesKept DEF Over
<1>8. CASE DispatchMarketPrice \/ DropStale
  <2>1. /\ UNCHANGED <<directory, item_handle, streams, is_muted, interest, pc>>
        /\ queue # <<>> /\ queue' = Tail(queue)
    BY <1>8 DEF DispatchMarketPrice, DropStale, Dispatch, OnMarketPrice
  <2>2. QED
    BY <2>1, TailQueue, HandlesKept
<1>9. CASE DispatchLogin
  <2> DEFINE e == Head(queue)
  <2>1. /\ queue # <<>> /\ queue' = Tail(queue) /\ pc = "loop" /\ pc' = pc
        /\ UNCHANGED <<directory, streams>> /\ e.session \in Sessions
    BY <1>9, DispatchType
    DEF DispatchLogin, Dispatch, OnLoginSuccess, OnLoginLost, Events
  <2>2. CASE \E granted : Resubscribe(e.session, granted)
    BY <2>1, <2>2, TailQueue, HandlesRequested DEF Starting, Over
  <2>3. CASE UNCHANGED <<item_handle, interest>>
    BY <2>1, <2>3, TailQueue, HandlesKept DEF Starting, Over
  <2>4. QED
    BY <1>9, <2>2, <2>3 DEF DispatchLogin, OnLoginSuccess, OnLoginLost
<1>10. CASE Clear
  <2>1. /\ UNCHANGED <<directory, item_handle, queue>> /\ pc' \in Over
        /\ \A t \in Sessions, k \in Slots :
             interest'[t][k] = IF k \in Live(t) THEN "cancelled" ELSE interest[t][k]
    BY <1>10 DEF Clear, Destroyed, Over
  <2>2. \A t \in Sessions, k \in Slots :
          /\ interest'[t][k] # "none" <=> interest[t][k] # "none"
          /\ interest'[t][k] # "doubled"
    BY <2>1 DEF Live, Handles
  <2>3. QED
    BY <2>1, <2>2, QueuedEvent DEF Handles, Starting, Over
<1>11. CASE UNCHANGED vars
  BY <1>11 DEF vars, appVars, Handles
<1>12. QED
  BY <1>1, <1>2, <1>3, <1>4, <1>5, <1>6, <1>7, <1>8, <1>9, <1>10, <1>11
  DEF Next, Startup, MainLoop, Feed, DispatchTimeout, Exited

-----------------------------------------------------------------------------
\* The directory.

\* A step that lists nothing and offers nothing keeps the listing.
LEMMA ListingKept ==
  ASSUME Listing, UNCHANGED <<directory, attempted>>,
         pc' \in {"subscribe", "loop"} => pc \in {"subscribe", "loop"}
  PROVE  Listing'
  BY DEF Listing

\* A stream joins the directory unless its symbol is there.
LEMMA ListingAddStream ==
  ASSUME TypeOK, Listing, NEW s \in Sessions, AddStream(s)
  PROVE  Listing'
<1>1. PICK k : k = attempted[s] + 1
  OBVIOUS
<1>2. /\ k \in Slots /\ attempted' = [attempted EXCEPT ![s] = k]
      /\ directory' = [directory EXCEPT ![s] = IF Listed(s, k) THEN @ ELSE @ \cup {k}]
      /\ pc = "streams"
      /\ pc' = IF \A t \in Sessions : attempted'[t] = Len(Instruments) THEN "subscribe" ELSE pc
  BY <1>1, SlotsFact DEF AddStream, CreateItemStream, TypeOK
<1>3. /\ attempted'[s] = k /\ \A t \in Sessions \ {s} : attempted'[t] = attempted[t]
      /\ directory'[s] = IF Listed(s, k) THEN directory[s] ELSE directory[s] \cup {k}
      /\ \A t \in Sessions \ {s} : directory'[t] = directory[t]
  BY <1>2 DEF TypeOK, ConsumerTypeOK
<1>4. \A i, j \in directory'[s] : Instruments[i] = Instruments[j] => i = j
  BY <1>3 DEF Listing, Listed
<1>5. ASSUME NEW i \in 1 .. k
      PROVE  \E j \in directory'[s] : Instruments[j] = Instruments[i]
  <2>1. CASE i = k
    BY <1>3, <2>1 DEF Listed
  <2>2. CASE i # k
    <3>1. i \in 1 .. attempted[s]
      BY <1>1, <1>2, <2>2 DEF TypeOK
    <3>2. QED
      BY <1>3, <3>1 DEF Listing
  <2>3. QED
    BY <2>1, <2>2
<1>6. \A t \in Sessions : \A i, j \in directory'[t] : Instruments[i] = Instruments[j] => i = j
  BY <1>3, <1>4 DEF Listing
<1>7. \A t \in Sessions : \A i \in 1 .. attempted'[t] :
        \E j \in directory'[t] : Instruments[j] = Instruments[i]
  BY <1>3, <1>5 DEF Listing
<1>8. QED
  BY <1>2, <1>6, <1>7 DEF Listing

\* Every step keeps one entry for each symbol offered.
LEMMA NextListing ==
  ASSUME TypeOK, Listing, [Next]_vars
  PROVE  Listing'
<1> USE DEF consumerVars, countVars, feedVars, appVars
<1>1. ASSUME NEW s \in Sessions, AddStream(s) PROVE Listing'
  BY <1>1, ListingAddStream
<1>2. ASSUME NEW s \in Sessions,
             InitFails \/ LeaveLoop \/ InitConsumer(s) \/ Subscribe(s) \/ PostLogin(s)
      PROVE  Listing'
  BY <1>2, ListingKept DEF InitFails, LeaveLoop, InitConsumer, Subscribe, PostLogin, Post
<1>3. ASSUME NEW s \in Sessions, NEW k \in Slots, PostItem(s, k) PROVE Listing'
  BY <1>3, ListingKept DEF PostItem, Post
<1>4. CASE DispatchMarketData \/ DispatchMarketPrice \/ DispatchLogin \/ DropStale
  BY <1>4, ListingKept
  DEF DispatchMarketData, DispatchMarketPrice, DispatchLogin, DropStale, Dispatch,
      OnMarketDataItemEvent, OnMarketPrice, OnLoginSuccess, OnLoginLost
<1>5. CASE Clear
  BY <1>5, ListingKept DEF Clear, Destroyed
<1>6. CASE UNCHANGED vars
  BY <1>6, ListingKept DEF vars
<1>7. QED
  BY <1>1, <1>2, <1>3, <1>4, <1>5, <1>6, ConfigAssumption
  DEF Next, Startup, MainLoop, Feed, DispatchTimeout, Exited

\* The invariant of handles and directory holds in every state.
LEMMA RegistrationInvariant == Spec => [](TypeOK /\ Handles /\ Listing)
<1>1. TypeOK /\ Handles /\ Listing /\ [Next]_vars => (TypeOK /\ Handles /\ Listing)'
  BY NextTypeOK, NextHandles, NextListing
<1>2. QED
  BY <1>1, InitTypeOK, InitHandles, PTL DEF Spec

\* No item is ever requested with a handle that is registered already, however
\* often a session logs in and whatever RFA refuses in between.
THEOREM RegisteredOnce == Spec => []OneRegistration
<1>1. Handles => OneRegistration
  BY DEF Handles, OneRegistration
<1>2. QED
  BY <1>1, RegistrationInvariant, PTL

\* As long as events may be dispatched, the closure of every registration, a
\* raw pointer, is that of a stream the application still owns.
THEOREM ClosuresAlive == Spec => []NoDanglingClosure
<1>1. TypeOK /\ Handles => NoDanglingClosure
  BY DEF Handles, NoDanglingClosure, Live, Over, TypeOK, ConsumerTypeOK
<1>2. QED
  BY <1>1, RegistrationInvariant, PTL

\* In the main loop each symbol has exactly one stream per session, and only
\* that stream has a handle or a registration, for any list with repetitions.
THEOREM SymbolsListedOnce == Spec => []OneStreamPerSymbol
<1>1. TypeOK /\ Handles /\ Listing => OneStreamPerSymbol
  <2> SUFFICES ASSUME TypeOK, Handles, Listing, pc = "loop",
                      NEW s \in Sessions, NEW k \in Slots
               PROVE  \E j \in directory[s] :
                        /\ Instruments[j] = Instruments[k]
                        /\ \A i \in directory[s] \cup item_handle[s] \cup Live(s) :
                              Instruments[i] = Instruments[k] => i = j
    BY DEF OneStreamPerSymbol
  <2>1. k \in 1 .. attempted[s]
    BY SlotsFact DEF Listing
  <2>2. PICK j \in directory[s] : Instruments[j] = Instruments[k]
    BY <2>1 DEF Listing
  <2>3. directory[s] \cup item_handle[s] \cup Live(s) \subseteq directory[s]
    BY DEF Handles, Live, TypeOK, ConsumerTypeOK
  <2>4. QED
    BY <2>2, <2>3 DEF Listing
<1>2. QED
  BY <1>1, RegistrationInvariant, PTL

-----------------------------------------------------------------------------
\* on_sync_.

\* The count of consumers in sync goes with the set of them.
LEMMA NextOnSync ==
  ASSUME TypeOK, OnSyncOncePerConsumer, [Next]_vars
  PROVE  OnSyncOncePerConsumer'
<1>1. CASE DispatchMarketData
  <2> DEFINE e == Head(queue)
  <2>1. e.session \in Sessions /\ OnMarketDataItemEvent(e.session, e)
    BY <1>1, DispatchType DEF DispatchMarketData, Events
  <2>2. CASE ReachesSync(e.session, e)
    <3>1. in_sync' = in_sync \cup {e.session} /\ e.session \notin in_sync
      BY <2>1, <2>2 DEF OnMarketDataItemEvent, ReachesSync
    <3>2. consumers_in_sync' = consumers_in_sync + 1
      BY <1>1, <2>2 DEF DispatchMarketData, OnSync
    <3>3. QED
      BY <3>1, <3>2, Finite, FS_AddElement DEF OnSyncOncePerConsumer
  <2>3. CASE ~ReachesSync(e.session, e)
    BY <1>1, <2>1, <2>3
    DEF DispatchMarketData, OnMarketDataItemEvent, NoSync, OnSyncOncePerConsumer
  <2>4. QED
    BY <2>2, <2>3
<1>2. CASE ~DispatchMarketData
  <2>1. UNCHANGED <<in_sync, consumers_in_sync>>
    BY <1>2
    DEF Next, Startup, MainLoop, Feed, DispatchTimeout, Exited, vars, consumerVars, countVars,
        appVars, InitFails, InitConsumer, AddStream, CreateItemStream, Subscribe, PostLogin,
        PostItem, Post, DispatchMarketPrice, OnMarketPrice, DispatchLogin, OnLoginSuccess,
        OnLoginLost, DropStale, NoSync, LeaveLoop, Clear, Destroyed
  <2>2. QED
    BY <2>1 DEF OnSyncOncePerConsumer
<1>3. QED
  BY <1>1, <1>2

\* In every capture on_sync_ is called once for each consumer that comes into
\* sync, so that consumers_in_sync_ can be compared with their number.
THEOREM CallsOnSyncOnce == Spec => []OnSyncOncePerConsumer
<1>1. Init => OnSyncOncePerConsumer
  BY FS_EmptySet DEF Init, ConsumerInit, OnSyncOncePerConsumer
<1>2. TypeOK /\ OnSyncOncePerConsumer /\ [Next]_vars => (TypeOK /\ OnSyncOncePerConsumer)'
  BY NextTypeOK, NextOnSync
<1>3. QED
  BY <1>1, <1>2, InitTypeOK, PTL DEF Spec

-----------------------------------------------------------------------------
\* The archive and the release of handles, on feeds of Marketfeed data only.

\* What is queued for a stream can be archived.
QueuedMarketfeed == \A i \in 1 .. Len(queue) : queue[i].slot # 0 => queue[i].marketfeed

\* A handle is only given back when its stream has had its first image, which
\* cannot come again.
ReleasedByImage ==
  \A s \in SSLEDSessions, k \in Slots :
    /\ interest[s][k] # "misused"
    /\ interest[s][k] = "cancelled" /\ pc \notin Over => refresh_received[s][k] > 0

\* OMM streams are not released one by one.
NeverReleased ==
  \A s \in Sessions \ SSLEDSessions, k \in Slots :
    interest[s][k] \in {"none", "open", "final", "cancelled"}

Archiving == QueuedMarketfeed /\ ReleasedByImage /\ NeverReleased /\ ArchiveMatchesCounts

\* Nothing is archived or counted before the first event.
LEMMA InitArchiving == Init => Archiving
<1> SUFFICES ASSUME Init PROVE Archiving
  OBVIOUS
<1>1. queue = <<>> /\ 1 .. Len(queue) = {}
  BY DEF Init
<1>2. QED
  BY <1>1
  DEF Init, ConsumerInit, Archiving, QueuedMarketfeed, ReleasedByImage, NeverReleased,
      ArchiveMatchesCounts, SSLEDSessions, SsledTypes

\* Taking events off the queue leaves events that were there.
LEMMA MarketfeedKept ==
  ASSUME QueuedMarketfeed, NEW d \in {0, 1}, Shifted(d)
  PROVE  QueuedMarketfeed'
  BY DEF QueuedMarketfeed, Shifted

\* Steps that record nothing, count nothing and release nothing.
LEMMA ArchivingKept ==
  ASSUME Archiving, NEW d \in {0, 1}, Shifted(d),
         UNCHANGED <<archive, refresh_received, update_received>>,
         \A s \in Sessions, k \in Slots :
           interest'[s][k] = interest[s][k] \/ interest'[s][k] \in {"open", "final"},
         pc' \notin Over => pc \notin Over
  PROVE  Archiving'
<1>1. ReleasedByImage' /\ NeverReleased'
  BY DEF Archiving, ReleasedByImage, NeverReleased, SSLEDSessions
<1>2. ArchiveMatchesCounts'
  BY DEF Archiving, ArchiveMatchesCounts, SSLEDSessions
<1>3. QED
  BY <1>1, <1>2, MarketfeedKept DEF Archiving

\* RFA posts Marketfeed for streams.
LEMMA ArchivingPosted ==
  ASSUME TypeOK, Archiving, NEW e, queue' = Append(queue, e), e.slot # 0 => e.marketfeed,
         UNCHANGED <<archive, refresh_received, update_received, pc>>,
         \A s \in Sessions, k \in Slots :
           interest'[s][k] = interest[s][k] \/ interest'[s][k] \in {"open", "final"}
  PROVE  Archiving'
<1>1. QueuedMarketfeed'
  BY AppendFact DEF Archiving, QueuedMarketfeed
<1>2. ReleasedByImage' /\ NeverReleased'
  BY DEF Archiving, ReleasedByImage, NeverReleased, SSLEDSessions
<1>3. ArchiveMatchesCounts'
  BY DEF Archiving, ArchiveMatchesCounts, SSLEDSessions
<1>4. QED
  BY <1>1, <1>2, <1>3 DEF Archiving

\* A request opens what was not registered.
LEMMA RequestedOpen ==
  ASSUME TypeOK, Handles, NEW s \in Sessions, NEW granted, Resubscribe(s, granted)
  PROVE  \A t \in Sessions, k \in Slots :
           interest'[t][k] = interest[t][k] \/ interest'[t][k] \in {"open", "final"}
<1>1. \A k \in granted : k \in Slots /\ interest[s][k] = "none"
  BY DEF Resubscribe, Unfulfilled, Handles, TypeOK, ConsumerTypeOK
<1>2. QED
  BY <1>1 DEF Resubscribe, Registered, TypeOK, ConsumerTypeOK

\* What one more record does to the archive.
LEMMA RecordedAt ==
  ASSUME NEW records \in [Sessions -> [Slots -> [SsledTypes -> Nat]]],
         NEW s \in Sessions, NEW k \in Slots, NEW type \in SsledTypes,
         NEW after, after = [records EXCEPT ![s][k][type] = @ + 1]
  PROVE  /\ \A t \in Sessions, j \in Slots : t # s \/ j # k => after[t][j] = records[t][j]
         /\ \A u \in SsledTypes :
              after[s][k][u] = records[s][k][u] + (IF u = type THEN 1 ELSE 0)
<1>1. after[s] = [records[s] EXCEPT ![k][type] = @ + 1]
      /\ \A t \in Sessions \ {s} : after[t] = records[t]
  OBVIOUS
<1>2. records[s] \in [Slots -> [SsledTypes -> Nat]]
  OBVIOUS
<1>3. after[s][k] = [records[s][k] EXCEPT ![type] = @ + 1]
      /\ \A j \in Slots \ {k} : after[s][j] = records[s][j]
  BY <1>1, <1>2
<1>4. records[s][k] \in [SsledTypes -> Nat]
  BY <1>2
<1>5. ASSUME NEW u \in SsledTypes
      PROVE  after[s][k][u] = records[s][k][u] + (IF u = type THEN 1 ELSE 0)
  <2>1. records[s][k][u] \in Nat
    BY <1>4
  <2>2. CASE u = type
    BY <1>3, <1>4, <2>2
  <2>3. CASE u # type
    <3>1. after[s][k][u] = records[s][k][u]
      BY <1>3, <1>4, <2>3
    <3>2. QED
      BY <2>1, <2>3, <3>1
  <2>4. QED
    BY <2>2, <2>3
<1>6. QED
  BY <1>1, <1>3, <1>5

\* A market data event counts, archives and releases its own stream.
LEMMA MarketDataEffect ==
  ASSUME TypeOK, NEW s \in Sessions, NEW e \in Events, e.session = s, e.slot \in Slots,
         e.type \in SsledTypes, OnMarketDataItemEvent(s, e)
  PROVE  /\ \A t \in Sessions, k \in Slots : t # s \/ k # e.slot =>
              /\ interest'[t][k] = interest[t][k]
              /\ refresh_received'[t][k] = refresh_received[t][k]
              /\ update_received'[t][k] = update_received[t][k]
              /\ archive'[t][k] = archive[t][k]
         /\ interest'[s][e.slot] = Released(s, e)
         /\ refresh_received'[s][e.slot] =
              refresh_received[s][e.slot] + (IF e.type = "Image" THEN 1 ELSE 0)
         /\ update_received'[s][e.slot] =
              update_received[s][e.slot] + (IF e.type = "Update" THEN 1 ELSE 0)
         /\ \A type \in SsledTypes :
              archive'[s][e.slot][type] =
                archive[s][e.slot][type] + (IF Recorded(s, e) /\ type = e.type THEN 1 ELSE 0)
<1> USE DEF TypeOK, ConsumerTypeOK, OnMarketDataItemEvent
<1>1. \A t \in Sessions, k \in Slots : t # s \/ k # e.slot => interest'[t][k] = interest[t][k]
  OBVIOUS
<1>2. interest'[s][e.slot] = Released(s, e)
  OBVIOUS
<1>3. ASSUME NEW received \in [Sessions -> [Slots -> Nat]], NEW type,
             NEW after, after = Counted(e, type, received)
      PROVE  /\ \A t \in Sessions, k \in Slots : t # s \/ k # e.slot => after[t][k] = received[t][k]
             /\ after[s][e.slot] = received[s][e.slot] + (IF e.type = type THEN 1 ELSE 0)
  <2> HIDE DEF TypeOK, ConsumerTypeOK, OnMarketDataItemEvent
  <2>1. CASE e.type = type
    BY <1>3, <2>1 DEF Counted
  <2>2. CASE e.type # type
    <3>1. after = received /\ received[s][e.slot] \in Nat
      BY <1>3, <2>2 DEF Counted
    <3>2. QED
      BY <2>2, <3>1
  <2>3. QED
    BY <2>1, <2>2
<1>4. /\ \A t \in Sessions, k \in Slots : t # s \/ k # e.slot =>
           /\ refresh_received'[t][k] = refresh_received[t][k]
           /\ update_received'[t][k] = update_received[t][k]
      /\ refresh_received'[s][e.slot] =
           refresh_received[s][e.slot] + (IF e.type = "Image" THEN 1 ELSE 0)
      /\ update_received'[s][e.slot] =
           update_received[s][e.slot] + (IF e.type = "Update" THEN 1 ELSE 0)
  <2>1. /\ refresh_received \in [Sessions -> [Slots -> Nat]]
        /\ update_received \in [Sessions -> [Slots -> Nat]]
        /\ refresh_received' = Counted(e, "Image", refresh_received)
        /\ update_received' = Counted(e, "Update", update_received)
    OBVIOUS
  <2> HIDE DEF TypeOK, ConsumerTypeOK, OnMarketDataItemEvent
  <2>2. QED
    BY <1>3, <2>1
<1>5. /\ \A t \in Sessions, k \in Slots : t # s \/ k # e.slot => archive'[t][k] = archive[t][k]
      /\ \A type \in SsledTypes :
           archive'[s][e.slot][type] =
             archive[s][e.slot][type] + (IF Recorded(s, e) /\ type = e.type THEN 1 ELSE 0)
  <2>1. archive \in [Sessions -> [Slots -> [SsledTypes -> Nat]]]
    OBVIOUS
  <2>2. archive' = IF Recorded(s, e) THEN [archive EXCEPT ![s][e.slot][e.type] = @ + 1] ELSE archive
    OBVIOUS
  <2> HIDE DEF TypeOK, ConsumerTypeOK, OnMarketDataItemEvent
  <2>3. CASE Recorded(s, e)
    BY <2>1, <2>2, <2>3, RecordedAt
  <2>4. CASE ~Recorded(s, e)
    <3>1. \A type \in SsledTypes : archive[s][e.slot][type] \in Nat
      BY <2>1
    <3>2. QED
      BY <2>2, <2>4, <3>1
  <2>5. QED
    BY <2>3, <2>4
<1> HIDE DEF TypeOK, ConsumerTypeOK, OnMarketDataItemEvent
<1>6. QED
  BY <1>1, <1>2, <1>4, <1>5

\* ... and keeps archive, counts and handles in step.
LEMMA ArchivingMarketData ==
  ASSUME Marketfeed = {TRUE}, TypeOK, Handles, Archiving, DispatchMarketData
  PROVE  Archiving'
<1>1. PICK e : e = Head(queue)
  OBVIOUS
<1>2. PICK s : s = e.session
  OBVIOUS
<1>3. /\ e \in Events /\ s \in Sessions /\ s \in SSLEDSessions /\ e.slot \in Slots
      /\ e.slot # 0 /\ e.type \in SsledTypes
      /\ interest[s][e.slot] # "none" /\ interest[s][e.slot] # "doubled"
      /\ pc = "loop" /\ pc' = pc /\ Shifted(1) /\ OnMarketDataItemEvent(s, e)
  <2>1. Dispatch /\ e.slot # 0 /\ Protocol[s] = "SSLED" /\ OnMarketDataItemEvent(s, e)
    BY <1>1, <1>2 DEF DispatchMarketData
  <2>2. /\ e \in Events /\ s \in Sessions /\ e.slot \in Slots /\ interest[s][e.slot] # "none"
        /\ pc = "loop" /\ pc' = pc /\ Shifted(1)
    BY <1>1, <1>2, <2>1, TakenForStream
  <2>3. e.type \in SsledTypes
    BY <1>2, <2>1, <2>2 DEF Events, ItemTypes
  <2>4. QED
    BY <2>1, <2>2, <2>3 DEF Handles, SSLEDSessions
<1>4. e.marketfeed
  <2>1. queue # <<>> /\ queue' = Tail(queue)
    BY DEF DispatchMarketData, Dispatch
  <2>2. QED
    BY <1>1, <1>3, <2>1, TailFact DEF Archiving, QueuedMarketfeed
<1>5. /\ \A t \in Sessions, k \in Slots : t # s \/ k # e.slot =>
           /\ interest'[t][k] = interest[t][k]
           /\ refresh_received'[t][k] = refresh_received[t][k]
           /\ update_received'[t][k] = update_received[t][k]
           /\ archive'[t][k] = archive[t][k]
      /\ interest'[s][e.slot] = Released(s, e)
      /\ refresh_received'[s][e.slot] =
           refresh_received[s][e.slot] + (IF e.type = "Image" THEN 1 ELSE 0)
      /\ update_received'[s][e.slot] =
           update_received[s][e.slot] + (IF e.type = "Update" THEN 1 ELSE 0)
      /\ \A type \in SsledTypes :
           archive'[s][e.slot][type] =
             archive[s][e.slot][type] + (IF Recorded(s, e) /\ type = e.type THEN 1 ELSE 0)
  BY <1>2, <1>3, MarketDataEffect
<1>6. /\ refresh_received[s][e.slot] \in Nat /\ update_received[s][e.slot] \in Nat
      /\ archive[s][e.slot]["Image"] \in Nat /\ archive[s][e.slot]["Update"] \in Nat
      /\ {"Image", "Update"} \subseteq SsledTypes
  <2>1. {"Image", "Update"} \subseteq SsledTypes
    BY DEF SsledTypes
  <2>2. QED
    BY <1>3, <2>1 DEF TypeOK, ConsumerTypeOK
<1>7. Released(s, e) = IF EndsSnapshot(s, e) THEN Unregistered(interest[s][e.slot])
                       ELSE interest[s][e.slot]
  BY <1>4 DEF Released, Rejected
<1>8. ReleasedByImage'
  <2> SUFFICES ASSUME NEW t \in SSLEDSessions, NEW k \in Slots
               PROVE  /\ interest'[t][k] # "misused"
                      /\ interest'[t][k] = "cancelled" /\ pc' \notin Over
                           => refresh_received'[t][k] > 0
    BY DEF ReleasedByImage, SSLEDSessions
  <2>1. t \in Sessions
    BY DEF SSLEDSessions
  <2>2. CASE t # s \/ k # e.slot
    BY <1>3, <1>5, <2>1, <2>2 DEF Archiving, ReleasedByImage
  <2>3. CASE t = s /\ k = e.slot
    <3>1. CASE EndsSnapshot(s, e)
      <4>1. e.type = "Image" /\ refresh_received[s][e.slot] = 0
        BY <3>1 DEF EndsSnapshot, FirstImage
      <4>2. interest[s][e.slot] \in {"open", "final"}
        BY <1>3, <4>1 DEF Archiving, ReleasedByImage, Over, TypeOK, ConsumerTypeOK, InterestStates
      <4>3. QED
        BY <1>5, <1>7, <2>3, <3>1, <4>1, <4>2 DEF Unregistered
    <3>2. CASE ~EndsSnapshot(s, e)
      BY <1>3, <1>5, <1>6, <1>7, <2>3, <3>2 DEF Archiving, ReleasedByImage
    <3>3. QED
      BY <3>1, <3>2
  <2>4. QED
    BY <2>2, <2>3
<1>9. NeverReleased'
  BY <1>3, <1>5 DEF Archiving, NeverReleased, SSLEDSessions
<1>10. ArchiveMatchesCounts'
  <2> SUFFICES ASSUME HasOutput, NEW t \in SSLEDSessions, NEW k \in Slots
               PROVE  /\ ~DisableRefresh => archive'[t][k]["Image"] = refresh_received'[t][k]
                      /\ archive'[t][k]["Update"] =
                           IF DisableUpdate THEN 0 ELSE update_received'[t][k]
    BY DEF ArchiveMatchesCounts, SSLEDSessions
  <2>1. t \in Sessions
    BY DEF SSLEDSessions
  <2>2. /\ ~DisableRefresh => archive[t][k]["Image"] = refresh_received[t][k]
        /\ archive[t][k]["Update"] = IF DisableUpdate THEN 0 ELSE update_received[t][k]
    BY DEF Archiving, ArchiveMatchesCounts
  <2>3. CASE t # s \/ k # e.slot
    BY <1>5, <2>1, <2>2, <2>3
  <2>4. CASE t = s /\ k = e.slot
    <3>1. e.type = "Image" /\ ~DisableRefresh => Recorded(s, e)
      BY <1>4 DEF Recorded, Skipped, IgnoredTypes
    <3>2. e.type = "Update" => (Recorded(s, e) <=> ~DisableUpdate)
      BY <1>4 DEF Recorded, Skipped, FirstImage, IgnoredTypes
    <3>3. ~DisableRefresh => archive'[t][k]["Image"] = refresh_received'[t][k]
      BY <1>5, <1>6, <2>2, <2>4, <3>1
    <3>4. archive'[t][k]["Update"] = IF DisableUpdate THEN 0 ELSE update_received'[t][k]
      BY <1>5, <1>6, <2>2, <2>4, <3>2
    <3>5. QED
      BY <3>3, <3>4
  <2>5. QED
    BY <2>3, <2>4
<1>11. QED
  BY <1>3, <1>8, <1>9, <1>10, MarketfeedKept DEF Archiving

\* Every step of a capture of Marketfeed data keeps archive, counts and handles
\* in step.
LEMMA NextArchiving ==
  ASSUME Marketfeed = {TRUE}, TypeOK, Handles, Archiving, [Next]_vars
  PROVE  Archiving'
<1> USE DEF consumerVars, countVars, feedVars
<1>1. ASSUME NEW s \in Sessions,
             InitFails \/ LeaveLoop \/ InitConsumer(s) \/ AddStream(s)
      PROVE  Archiving'
  <2>1. pc \notin Over
    BY <1>1 DEF InitFails, LeaveLoop, InitConsumer, AddStream, Over
  <2>2. UNCHANGED <<archive, refresh_received, update_received, queue>>
    BY <1>1 DEF InitFails, LeaveLoop, InitConsumer, AddStream, CreateItemStream
  <2>3. interest' = interest
    BY <1>1 DEF InitFails, LeaveLoop, InitConsumer, AddStream, CreateItemStream, Handles, Starting
  <2>4. QED
    BY <2>1, <2>2, <2>3, KeptQueue, ArchivingKept
<1>2. ASSUME NEW s \in Sessions, Subscribe(s) PROVE Archiving'
  <2>1. PICK granted : Resubscribe(s, granted)
    BY <1>2 DEF Subscribe
  <2>2. UNCHANGED <<archive, refresh_received, update_received, queue>> /\ pc \notin Over
    BY <1>2 DEF Subscribe, Over
  <2>3. QED
    BY <2>1, <2>2, RequestedOpen, KeptQueue, ArchivingKept
<1>3. ASSUME NEW s \in Sessions, PostLogin(s) PROVE Archiving'
  <2>1. PICK e : e.slot = 0 /\ queue' = Append(queue, e)
    BY <1>3 DEF PostLogin, Post
  <2>2. UNCHANGED <<archive, refresh_received, update_received, pc, interest>>
    BY <1>3 DEF PostLogin, Post, appVars
  <2>3. QED
    BY <2>1, <2>2, ArchivingPosted
<1>4. ASSUME NEW s \in Sessions, NEW k \in Slots, PostItem(s, k) PROVE Archiving'
  <2>1. PICK e : /\ e.marketfeed
                 /\ queue' = Append(queue, e)
                 /\ interest' = [interest EXCEPT ![s][k] = IF e.closed THEN "final" ELSE @]
    <3>1. PICK type \in IF Protocol[s] = "SSLED" THEN FeedTypes ELSE RsslTypes,
               closed \in BOOLEAN, marketfeed \in Marketfeed :
            /\ queue' = Append(queue, [session |-> s, slot |-> k, type |-> type,
                                      closed |-> closed, marketfeed |-> marketfeed])
            /\ interest' = [interest EXCEPT ![s][k] = IF closed THEN "final" ELSE @]
      BY <1>4 DEF PostItem, Post
    <3>2. WITNESS [session |-> s, slot |-> k, type |-> type, closed |-> closed,
                   marketfeed |-> marketfeed]
    <3>3. QED
      BY <3>1
  <2>2. UNCHANGED <<archive, refresh_received, update_received, pc>>
    BY <1>4 DEF PostItem, Post, appVars
  <2>3. \A t \in Sessions, j \in Slots :
          interest'[t][j] = interest[t][j] \/ interest'[t][j] \in {"open", "final"}
    BY <2>1 DEF TypeOK, ConsumerTypeOK
  <2>4. QED
    BY <2>1, <2>2, <2>3, ArchivingPosted
<1>5. CASE DispatchMarketData
  BY <1>5, ArchivingMarketData
<1>6. CASE DispatchMarketPrice
  <2>1. PICK e : e = Head(queue)
    OBVIOUS
  <2>2. /\ e.session \in Sessions \ SSLEDSessions /\ e.slot \in Slots
        /\ pc = "loop" /\ pc' = pc /\ Shifted(1) /\ OnMarketPrice(e.session, e)
    BY <1>6, <2>1, TakenForStream DEF DispatchMarketPrice, SSLEDSessions
  <2>3. \A t \in SSLEDSessions :
          refresh_received'[t] = refresh_received[t] /\ update_received'[t] = update_received[t]
    BY <2>2 DEF OnMarketPrice, Counted, SSLEDSessions, TypeOK, ConsumerTypeOK
  <2>4. UNCHANGED <<archive, interest>>
    BY <2>2 DEF OnMarketPrice
  <2>5. ReleasedByImage' /\ NeverReleased' /\ ArchiveMatchesCounts'
    BY <2>2, <2>3, <2>4
    DEF Archiving, ReleasedByImage, NeverReleased, ArchiveMatchesCounts, SSLEDSessions
  <2>6. QED
    BY <2>2, <2>5, MarketfeedKept DEF Archiving
<1>7. CASE DropStale
  <2>1. /\ UNCHANGED <<archive, refresh_received, update_received, interest, pc>>
        /\ queue # <<>> /\ queue' = Tail(queue)
    BY <1>7 DEF DropStale, Dispatch
  <2>2. QED
    BY <2>1, TailQueue, ArchivingKept
<1>8. CASE DispatchLogin
  <2> DEFINE e == Head(queue)
  <2>1. /\ queue # <<>> /\ queue' = Tail(queue) /\ pc = "loop" /\ e.session \in Sessions
        /\ UNCHANGED <<archive, refresh_received, update_received>>
    BY <1>8, DispatchType DEF DispatchLogin, Dispatch, OnLoginSuccess, OnLoginLost, Events
  <2>2. CASE \E granted : Resubscribe(e.session, granted)
    BY <2>1, <2>2, TailQueue, RequestedOpen, ArchivingKept DEF Over
  <2>3. CASE interest' = interest
    BY <2>1, <2>3, TailQueue, ArchivingKept DEF Over
  <2>4. QED
    BY <1>8, <2>2, <2>3 DEF DispatchLogin, OnLoginSuccess, OnLoginLost
<1>9. CASE Clear
  <2>1. /\ UNCHANGED <<archive, refresh_received, update_received, queue>> /\ pc' \in Over
        /\ \A t \in Sessions, k \in Slots :
             interest'[t][k] = IF k \in Live(t) THEN "cancelled" ELSE interest[t][k]
    BY <1>9 DEF Clear, Destroyed, Over
  <2>2. ReleasedByImage' /\ NeverReleased' /\ ArchiveMatchesCounts'
    BY <2>1
    DEF Archiving, ReleasedByImage, NeverReleased, ArchiveMatchesCounts, SSLEDSessions
  <2>3. QED
    BY <2>1, <2>2, KeptQueue, MarketfeedKept DEF Archiving
<1>10. CASE UNCHANGED vars
  BY <1>10, KeptQueue, ArchivingKept DEF vars, appVars
<1>11. QED
  BY <1>1, <1>2, <1>3, <1>4, <1>5, <1>6, <1>7, <1>8, <1>9, <1>10, ConfigAssumption
  DEF Next, Startup, MainLoop, Feed, DispatchTimeout, Exited

\* On feeds of Marketfeed data the archive keeps step with the counters.
LEMMA ArchivingInvariant ==
  ASSUME Marketfeed = {TRUE}
  PROVE  Spec => [](TypeOK /\ Handles /\ Archiving)
<1>1. TypeOK /\ Handles /\ Archiving /\ [Next]_vars => (TypeOK /\ Handles /\ Archiving)'
  BY NextTypeOK, NextHandles, NextArchiving
<1>2. QED
  BY <1>1, InitTypeOK, InitHandles, InitArchiving, PTL DEF Spec

\* On feeds of Marketfeed data every image and update a consumer counts is
\* archived exactly once, whatever switches drop the others.
THEOREM ArchiveComplete == Spec => []ArchiveMatchesCounts
<1>1. CASE Marketfeed = {TRUE}
  <2>1. Archiving => ArchiveMatchesCounts
    BY DEF Archiving
  <2>2. QED
    BY <1>1, <2>1, ArchivingInvariant, PTL
<1>2. CASE Marketfeed # {TRUE}
  <2>1. ArchiveMatchesCounts
    BY <1>2 DEF ArchiveMatchesCounts
  <2>2. QED
    BY <2>1, PTL
<1>3. QED
  BY <1>1, <1>2

\* ... and no handle is given back to RFA twice, although it is never set to
\* null and late events of the stream may follow.
THEOREM ReleasedOnce ==
  ASSUME Marketfeed = {TRUE}
  PROVE  Spec => []HandleReleasedOnce
<1>1. Archiving => HandleReleasedOnce
  BY DEF Archiving, ReleasedByImage, NeverReleased, HandleReleasedOnce
<1>2. QED
  BY <1>1, ArchivingInvariant, PTL

-----------------------------------------------------------------------------
\* Snapshots.

\* The counters lag behind nothing: what was answered is closed, a consumer
\* all of whose directory is closed is in sync, and the last one in sync has
\* deactivated the queue.
Closing ==
  /\ \A s \in SSLEDSessions : answered[s] \subseteq is_closed[s]
  /\ pc = "loop" => \A s \in SSLEDSessions : is_closed[s] = directory[s] => s \in in_sync
  /\ pc \in {"loop", "stopping"} /\ in_sync = Sessions => ~active

\* Nothing is answered at first.
LEMMA InitClosing == Init => Closing
  BY DEF Init, ConsumerInit, Closing, SSLEDSessions

\* Steps that answer and count nothing.
LEMMA ClosingKept ==
  ASSUME Closing, UNCHANGED <<answered, is_closed, in_sync>>,
         pc' = "loop" => pc = "loop" /\ UNCHANGED <<directory, active>>,
         pc' = "stopping" => pc \in {"loop", "stopping"} /\ UNCHANGED active
  PROVE  Closing'
  BY DEF Closing, SSLEDSessions

\* The loop is entered with every symbol listed and none closed.
LEMMA ClosingSubscribe ==
  ASSUME TypeOK, SnapshotInvariant, Listing, Closing, NEW s \in Sessions, Subscribe(s)
  PROVE  Closing'
<1>1. /\ pc = "subscribe" /\ in_sync = {} /\ \A t \in Sessions : is_closed[t] = {}
      /\ UNCHANGED <<answered, is_closed, in_sync, directory, active>>
      /\ pc' \in {"subscribe", "loop", "failing"}
  BY DEF Subscribe, SnapshotInvariant, Phases, countVars
<1>2. \A t \in Sessions : directory[t] # {}
  <2>1. 1 \in 1 .. Len(Instruments)
    BY SlotsFact
  <2>2. QED
    BY <1>1, <2>1 DEF Listing
<1>3. Sessions # {}
  OBVIOUS
<1>4. QED
  BY <1>1, <1>2, <1>3 DEF Closing, SSLEDSessions

\* An answer closes its stream; when it is the last of its consumer the count
\* meets the size of the directory, and when that consumer is the last one
\* on_sync deactivates the queue.
LEMMA ClosingMarketData ==
  ASSUME SnapshotMode, TypeOK, SnapshotInvariant, Closing, DispatchMarketData
  PROVE  Closing'
<1>1. PICK e : e = Head(queue)
  OBVIOUS
<1>2. PICK s : s = e.session
  OBVIOUS
<1>3. /\ s \in SSLEDSessions /\ s \in Sessions /\ e.slot \in Slots
      /\ OnMarketDataItemEvent(s, e)
      /\ pc = "loop" /\ active /\ UNCHANGED <<pc, consumers>>
  BY <1>1, <1>2, TakenEvent
<1>4. /\ is_closed'[s] = is_closed[s] \/ is_closed'[s] = is_closed[s] \cup {e.slot}
      /\ refresh_count'[s] = Cardinality(is_closed'[s])
      /\ refresh_count'[s] = refresh_count[s] + Gain(s, e)
      /\ e.closed \/ FirstImage(s, e) => e.slot \in is_closed'[s]
  BY <1>1, <1>2, GainIsClosing
<1>5. /\ directory' = directory
      /\ \A t \in Sessions \ {s} : is_closed'[t] = is_closed[t] /\ answered'[t] = answered[t]
      /\ answered'[s] = IF e.closed \/ e.type = "Image" THEN answered[s] \cup {e.slot}
                        ELSE answered[s]
      /\ in_sync' = IF ReachesSync(s, e) THEN in_sync \cup {s} ELSE in_sync
  BY <1>3 DEF OnMarketDataItemEvent, TypeOK, ConsumerTypeOK
<1>6. \A t \in SSLEDSessions : answered'[t] \subseteq is_closed'[t]
  <2>1. e.type = "Image" /\ ~FirstImage(s, e) => e.slot \in is_closed[s]
    <3>1. refresh_received[s][e.slot] \in Nat
      BY <1>3 DEF TypeOK, ConsumerTypeOK
    <3>2. QED
      BY <1>3, <3>1 DEF FirstImage, SnapshotInvariant, CountsClosed
  <2>2. answered'[s] \subseteq is_closed'[s]
    BY <1>3, <1>4, <1>5, <2>1 DEF Closing
  <2>3. QED
    BY <1>5, <2>2 DEF Closing, SSLEDSessions
<1>7. \A t \in SSLEDSessions : is_closed'[t] = directory'[t] => t \in in_sync'
  <2>1. is_closed'[s] = directory[s] => s \in in_sync'
    BY <1>4, <1>5 DEF ReachesSync
  <2>2. QED
    BY <1>3, <1>5, <2>1 DEF Closing, SSLEDSessions
<1>8. in_sync' = Sessions => ~active'
  <2> SUFFICES ASSUME in_sync' = Sessions PROVE ~active'
    OBVIOUS
  <2>1. in_sync # Sessions
    BY <1>3 DEF Closing
  <2>2. ReachesSync(s, e)
    BY <1>5, <2>1
  <2>3. OnSync
    BY <1>1, <1>2, <2>2 DEF DispatchMarketData
  <2>4. OnSyncOncePerConsumer'
    <3>1. in_sync' = in_sync \cup {s} /\ s \notin in_sync
      BY <1>5, <2>2 DEF ReachesSync
    <3>2. QED
      BY <2>3, <3>1, Finite, FS_AddElement
      DEF OnSync, OnSyncOncePerConsumer, SnapshotInvariant, SyncIsComplete
  <2>5. consumers_in_sync' = Cardinality(consumers)
    BY <1>3, <2>4 DEF OnSyncOncePerConsumer, SnapshotInvariant, Phases
  <2>6. QED
    BY <2>3, <2>5 DEF OnSync, SnapshotMode
<1>9. QED
  BY <1>3, <1>6, <1>7, <1>8 DEF Closing, SSLEDSessions

\* No step leaves the counters behind.
LEMMA NextClosing ==
  ASSUME SnapshotMode, TypeOK, SnapshotInvariant, Listing, Closing, [Next]_vars
  PROVE  Closing'
<1> USE DEF consumerVars, countVars
<1>1. ASSUME NEW s \in Sessions, InitFails \/ InitConsumer(s) \/ AddStream(s) PROVE Closing'
  <2>1. UNCHANGED <<answered, is_closed, in_sync>> /\ pc' \notin {"loop", "stopping"}
    BY <1>1 DEF InitFails, InitConsumer, AddStream, CreateItemStream
  <2>2. QED
    BY <2>1, ClosingKept
<1>2. ASSUME NEW s \in Sessions, Subscribe(s) PROVE Closing'
  BY <1>2, ClosingSubscribe
<1>3. ASSUME NEW s \in Sessions, PostLogin(s) PROVE Closing'
  BY <1>3, ClosingKept DEF PostLogin, Post, appVars
<1>4. ASSUME NEW s \in Sessions, NEW k \in Slots, PostItem(s, k) PROVE Closing'
  BY <1>4, ClosingKept DEF PostItem, Post, appVars
<1>5. CASE DispatchMarketData
  BY <1>5, ClosingMarketData
<1>6. CASE DispatchMarketPrice
  <2>1. PICK e : e = Head(queue)
    OBVIOUS
  <2>2. /\ e.session \in Sessions \ SSLEDSessions
        /\ OnMarketPrice(e.session, e) /\ UNCHANGED <<pc, active>>
    BY <1>6, <2>1, DispatchType
    DEF DispatchMarketPrice, Dispatch, NoSync, Events, SSLEDSessions
  <2>3. /\ \A t \in SSLEDSessions : answered'[t] = answered[t]
        /\ UNCHANGED <<is_closed, in_sync, directory>>
    BY <2>2 DEF OnMarketPrice, SSLEDSessions, TypeOK, ConsumerTypeOK
  <2>4. QED
    BY <2>2, <2>3 DEF Closing, SSLEDSessions
<1>7. CASE DispatchLogin \/ DropStale
  <2>1. UNCHANGED <<answered, is_closed, in_sync, directory, pc, active>>
    BY <1>7 DEF DispatchLogin, DropStale, Dispatch, NoSync, OnLoginSuccess, OnLoginLost
  <2>2. QED
    BY <2>1, ClosingKept
<1>8. CASE LeaveLoop \/ Clear
  BY <1>8, ClosingKept DEF LeaveLoop, Clear, Destroyed
<1>9. CASE UNCHANGED vars
  BY <1>9, ClosingKept DEF vars, appVars
<1>10. QED
  BY <1>1, <1>2, <1>3, <1>4, <1>5, <1>6, <1>7, <1>8, <1>9, ConfigAssumption
  DEF Next, Startup, MainLoop, Feed, DispatchTimeout, Exited

\* All that is known of a snapshot capture.
SnapshotState == TypeOK /\ SnapshotInvariant /\ Handles /\ Listing /\ Closing

\* ... and it is known in every state.
LEMMA SnapshotStates ==
  ASSUME SnapshotMode
  PROVE  Spec => []SnapshotState
<1>1. Init => SnapshotState
  BY InitTypeOK, InitSnapshot, InitHandles, InitClosing DEF SnapshotState
<1>2. SnapshotState /\ [Next]_vars => SnapshotState'
  BY NextTypeOK, NextSnapshot, NextHandles, NextListing, NextClosing DEF SnapshotState
<1>3. QED
  BY <1>1, <1>2, PTL DEF Spec

-----------------------------------------------------------------------------
\* Ending.

\* A capture of SSLED sessions whose symbols have all been answered is over:
\* the equality check_sync waits for is met by the event that answers last,
\* never passed over.
LEMMA AnsweredIsOver ==
  ASSUME SnapshotState, SSLEDSessions = Sessions, pc \in {"loop", "stopping"}
  PROVE  /\ pc = "loop" /\ (\A s \in Sessions : Complete(s)) => in_sync = Sessions
         /\ in_sync = Sessions <=> ~active
<1>1. pc = "loop" /\ (\A s \in Sessions : Complete(s)) => in_sync = Sessions
  <2> SUFFICES ASSUME pc = "loop", \A s \in Sessions : directory[s] \subseteq answered[s]
               PROVE  in_sync = Sessions
    BY DEF Complete
  <2>1. \A s \in Sessions : is_closed[s] \subseteq directory[s]
    BY DEF SnapshotState, SnapshotInvariant, OnlyListed, TypeOK, ConsumerTypeOK
  <2>2. \A s \in Sessions : is_closed[s] = directory[s]
    BY <2>1 DEF SnapshotState, Closing
  <2>3. QED
    BY <2>2 DEF SnapshotState, Closing, TypeOK, ConsumerTypeOK
<1>2. in_sync = Sessions => ~active
  BY DEF SnapshotState, Closing
<1>3. ~active => in_sync = Sessions
  BY DEF SnapshotState, SnapshotInvariant, SyncIsComplete, Finished
<1>4. QED
  BY <1>1, <1>2, <1>3

\* Terminate-on-sync never misses the moment, for any number of SSLED sessions
\* and symbols (with an RSSL session it always does: OMM answers are not
\* counted).
THEOREM NeverFinishesLate ==
  ASSUME SnapshotMode, SSLEDSessions = Sessions
  PROVE  Spec => []FinishOnceAnswered
<1>1. SnapshotState => FinishOnceAnswered
  BY AnsweredIsOver DEF FinishOnceAnswered
<1>2. QED
  BY <1>1, SnapshotStates, PTL

\* A capture that ends by sync leaves an image of every symbol in the archive,
\* unless the feed closed the symbol's stream before the first image.
THEOREM SnapshotIsWhole ==
  ASSUME SnapshotMode, Marketfeed = {TRUE}
  PROVE  Spec => []SnapshotHoldsImages
<1>1. SnapshotState /\ Archiving => SnapshotHoldsImages
  <2> SUFFICES ASSUME SnapshotState, Archiving, Finished, HasOutput, ~DisableRefresh,
                      NEW s \in SSLEDSessions, NEW k \in directory[s],
                      interest[s][k] # "final"
               PROVE  archive[s][k]["Image"] > 0
    BY DEF SnapshotHoldsImages
  <2>1. s \in Sessions /\ k \in Slots
    BY DEF SSLEDSessions, SnapshotState, TypeOK, ConsumerTypeOK
  <2>2. k \in is_closed[s]
    BY <2>1 DEF SnapshotState, SnapshotInvariant, SyncIsComplete
  <2>3. interest[s][k] \in {"open", "cancelled"}
    BY <2>1, <2>2
    DEF SnapshotState, SnapshotInvariant, OnlyListed, Handles, Archiving, ReleasedByImage,
        TypeOK, ConsumerTypeOK, InterestStates
  <2>4. refresh_received[s][k] # 0
    <3>1. CASE interest[s][k] = "open"
      BY <2>2, <3>1 DEF SnapshotState, SnapshotInvariant, ClosedIsQuiet
    <3>2. CASE interest[s][k] = "cancelled"
      BY <2>1, <3>2 DEF Archiving, ReleasedByImage, Finished, Over
    <3>3. QED
      BY <2>3, <3>1, <3>2
  <2>5. archive[s][k]["Image"] = refresh_received[s][k] /\ refresh_received[s][k] \in Nat
    BY <2>1 DEF Archiving, ArchiveMatchesCounts, SnapshotState, TypeOK, ConsumerTypeOK
  <2>6. QED
    BY <2>4, <2>5
<1>2. QED
  BY <1>1, SnapshotStates, ArchivingInvariant, PTL

-----------------------------------------------------------------------------
\* Captures of SSLED sessions implement CaptureContract.

\* What CaptureContract sees of the answers.
Answers == UNION {{<<s, Instruments[k]>> : k \in answered[s]} : s \in Sessions}
Wanted == Sessions \X {Instruments[k] : k \in Slots}

\* Everything the contract wants is there when every consumer has answered
\* for its directory, which has an entry for each symbol.
LEMMA WantedIsComplete ==
  ASSUME TypeOK, Handles, Listing, pc = "loop",
         \A s \in Sessions : answered[s] \subseteq directory[s]
  PROVE  Answers = Wanted <=> \A s \in Sessions : Complete(s)
<1>1. \A s \in Sessions, k \in Slots : \E j \in directory[s] : Instruments[j] = Instruments[k]
  BY SlotsFact DEF Listing
<1>2. \A s \in Sessions : answered[s] \subseteq Slots /\ directory[s] \subseteq Slots
  BY DEF TypeOK, ConsumerTypeOK
<1>3. ASSUME \A s \in Sessions : Complete(s) PROVE Answers = Wanted
  <2>1. Answers \subseteq Wanted
    BY <1>2 DEF Answers, Wanted
  <2>2. ASSUME NEW s \in Sessions, NEW k \in Slots PROVE <<s, Instruments[k]>> \in Answers
    <3>1. PICK j \in answered[s] : Instruments[j] = Instruments[k]
      BY <1>1, <1>3 DEF Complete
    <3>2. <<s, Instruments[j]>> \in {<<s, Instruments[i]>> : i \in answered[s]}
      OBVIOUS
    <3>3. QED
      BY <3>1, <3>2 DEF Answers
  <2>3. Wanted \subseteq Answers
    BY <2>2 DEF Wanted
  <2>4. QED
    BY <2>1, <2>3
<1>4. ASSUME Answers = Wanted, NEW s \in Sessions, NEW j \in directory[s]
      PROVE  j \in answered[s]
  <2>1. <<s, Instruments[j]>> \in Answers
    BY <1>2, <1>4 DEF Wanted
  <2>2. PICK t \in Sessions : <<s, Instruments[j]>> \in {<<t, Instruments[i]>> : i \in answered[t]}
    BY <2>1 DEF Answers
  <2>3. PICK k \in answered[t] : <<s, Instruments[j]>> = <<t, Instruments[k]>>
    BY <2>2
  <2>4. t = s /\ k \in directory[s] /\ Instruments[k] = Instruments[j]
    BY <2>3
  <2>5. QED
    BY <2>3, <2>4 DEF Listing
<1>5. QED
  BY <1>3, <1>4 DEF Complete

\* ... so that in the loop the contract's collection is complete exactly when
\* the queue has been deactivated.
LEMMA CompleteIsOver ==
  ASSUME SSLEDSessions = Sessions
  PROVE  SnapshotState /\ pc = "loop" => (Answers = Wanted <=> ~active)
<1> SUFFICES ASSUME SnapshotState, pc = "loop" PROVE Answers = Wanted <=> ~active
  OBVIOUS
<1>1. \A s \in Sessions : is_closed[s] \subseteq directory[s] /\ answered[s] = is_closed[s]
  BY DEF SnapshotState, Closing, SnapshotInvariant, OnlyListed, CountsClosed, TypeOK,
     ConsumerTypeOK
<1>2. Answers = Wanted <=> \A s \in Sessions : Complete(s)
  BY <1>1, WantedIsComplete DEF SnapshotState
<1>3. ~active => \A s \in Sessions : Complete(s)
  BY <1>1 DEF SnapshotState, SnapshotInvariant, SyncIsComplete, Complete, Finished
<1>4. QED
  BY <1>2, <1>3, AnsweredIsOver

\* Nothing is answered and nothing has ended at first.
LEMMA ContractInit == Init => Contract!Init
<1> SUFFICES ASSUME Init PROVE Contract!Init
  OBVIOUS
<1>1. CaptureOutcome = "running" /\ \A s \in Sessions : answered[s] = {}
  BY DEF Init, ConsumerInit, CaptureOutcome, Finished
<1>2. QED
  BY <1>1 DEF Contract!Init

\* A step that answers nothing stutters in the contract, or stops its capture.
LEMMA ContractKept ==
  ASSUME UNCHANGED answered,
         \/ CaptureOutcome' = CaptureOutcome
         \/ CaptureOutcome = "running" /\ CaptureOutcome' = "stopped"
  PROVE  [Contract!Next]_(Contract!vars)
<1>1. CASE CaptureOutcome' = CaptureOutcome
  BY <1>1 DEF Contract!vars
<1>2. CASE CaptureOutcome = "running" /\ CaptureOutcome' = "stopped"
  BY <1>2 DEF Contract!Next, Contract!Stop
<1>3. QED
  BY <1>1, <1>2

\* A market data event answers for its symbol, and completes the capture when
\* it brings the last answer; any other event completes nothing.
LEMMA ContractMarketData ==
  ASSUME SnapshotMode, SSLEDSessions = Sessions, SnapshotState, SnapshotState',
         DispatchMarketData
  PROVE  [Contract!Next]_(Contract!vars)
<1>0. TypeOK /\ SnapshotInvariant /\ Handles /\ Listing
      /\ TypeOK' /\ SnapshotInvariant' /\ Handles' /\ Listing'
  BY DEF SnapshotState
<1>1. PICK e : e = Head(queue)
  OBVIOUS
<1>2. PICK s : s = e.session
  OBVIOUS
<1>3. /\ s \in Sessions /\ e.slot \in Slots /\ OnMarketDataItemEvent(s, e)
      /\ pc = "loop" /\ active /\ UNCHANGED pc
  BY <1>0, <1>1, <1>2, TakenEvent
<1>4. CaptureOutcome = "running" /\ CaptureOutcome' = IF active' THEN "running" ELSE "complete"
  BY <1>3 DEF CaptureOutcome, Finished
<1>5. answered' = [answered EXCEPT ![s] = IF e.closed \/ e.type = "Image" THEN @ \cup {e.slot} ELSE @]
  BY <1>3 DEF OnMarketDataItemEvent
<1>6. CASE e.closed \/ e.type = "Image"
  <2>1. Answers' = Answers \cup {<<s, Instruments[e.slot]>>}
    <3>1. /\ answered'[s] = answered[s] \cup {e.slot}
          /\ \A t \in Sessions \ {s} : answered'[t] = answered[t]
      BY <1>0, <1>3, <1>5, <1>6 DEF TypeOK, ConsumerTypeOK
    <3>2. {<<s, Instruments[k]>> : k \in answered'[s]} =
            {<<s, Instruments[k]>> : k \in answered[s]} \cup {<<s, Instruments[e.slot]>>}
      BY <3>1
    <3>3. \A t \in Sessions \ {s} : {<<t, Instruments[k]>> : k \in answered'[t]} =
                                   {<<t, Instruments[k]>> : k \in answered[t]}
      BY <3>1
    <3> DEFINE Pairs(t, slots) == {<<t, Instruments[k]>> : k \in slots}
    <3> HIDE DEF Pairs
    <3>4. Answers = UNION {Pairs(t, answered[t]) : t \in Sessions}
          /\ Answers' = UNION {Pairs(t, answered'[t]) : t \in Sessions}
      BY DEF Answers, Pairs
    <3>5. /\ Pairs(s, answered'[s]) = Pairs(s, answered[s]) \cup {<<s, Instruments[e.slot]>>}
          /\ \A t \in Sessions \ {s} : Pairs(t, answered'[t]) = Pairs(t, answered[t])
      BY <3>2, <3>3 DEF Pairs
    <3>6. QED
      BY <1>3, <3>4, <3>5
  <2>2. Answers' = Wanted <=> ~active'
    <3>1. (SnapshotState /\ pc = "loop" => (Answers = Wanted <=> ~active))'
      BY CompleteIsOver, PTL
    <3>2. pc' = "loop" /\ Wanted' = Wanted
      BY <1>3 DEF Wanted
    <3>3. QED
      BY <3>1, <3>2
  <2>3. Contract!Answer(s, Instruments[e.slot])
    BY <1>4, <2>1, <2>2 DEF Contract!Answer, Contract!Wanted, Answers, Wanted
  <2>4. QED
    BY <1>3, <2>3 DEF Contract!Next
<1>7. CASE ~(e.closed \/ e.type = "Image")
  <2>1. answered' = answered
    BY <1>0, <1>5, <1>7 DEF TypeOK, ConsumerTypeOK
  <2>2. Gain(s, e) = 0 /\ is_closed'[s] = is_closed[s] /\ directory' = directory
    BY <1>0, <1>3, <1>7
    DEF Gain, ClosesNow, FirstImage, EndsSnapshot, OnMarketDataItemEvent, TypeOK, ConsumerTypeOK
  <2>3. ~ReachesSync(s, e)
    <3>1. SUFFICES ASSUME ReachesSync(s, e) PROVE FALSE
      OBVIOUS
    <3>2. s \notin in_sync /\ Cardinality(is_closed[s]) = Cardinality(directory[s])
      BY <1>0, <1>3, <2>2, <3>1
      DEF ReachesSync, SnapshotInvariant, CountsClosed, TypeOK, ConsumerTypeOK
    <3>3. is_closed[s] \subseteq directory[s]
      BY <1>0, <1>3 DEF SnapshotInvariant, OnlyListed, TypeOK, ConsumerTypeOK
    <3>4. is_closed[s] = directory[s]
      BY <1>0, <1>3, <3>2, <3>3, Finite, FS_Subset
    <3>5. QED
      BY <1>3, <3>2, <3>4 DEF SnapshotState, Closing
  <2>4. active' = active
    BY <1>1, <1>2, <2>3 DEF DispatchMarketData, NoSync
  <2>5. QED
    BY <1>3, <1>4, <2>1, <2>4, ContractKept
<1>8. QED
  BY <1>6, <1>7

\* Every step of a capture is a step of the contract.
LEMMA ContractNext ==
  ASSUME SnapshotMode, SSLEDSessions = Sessions, SnapshotState, SnapshotState', [Next]_vars
  PROVE  [Contract!Next]_(Contract!vars)
<1> USE DEF consumerVars, countVars, CaptureOutcome, Finished
<1>1. CASE InitFails
  BY <1>1, ContractKept DEF InitFails
<1>2. ASSUME NEW s \in Sessions, InitConsumer(s) \/ AddStream(s)
      PROVE  [Contract!Next]_(Contract!vars)
  BY <1>2, ContractKept DEF InitConsumer, AddStream, CreateItemStream
<1>3. ASSUME NEW s \in Sessions, Subscribe(s) PROVE [Contract!Next]_(Contract!vars)
  <2>1. /\ pc = "subscribe" /\ pc' \in {"subscribe", "loop", "failing"}
        /\ active /\ UNCHANGED <<answered, active>>
    BY <1>3 DEF Subscribe, SnapshotState, SnapshotInvariant, Phases
  <2>2. QED
    BY <2>1, ContractKept
<1>4. ASSUME NEW s \in Sessions, PostLogin(s) PROVE [Contract!Next]_(Contract!vars)
  BY <1>4, ContractKept DEF PostLogin, Post, appVars
<1>5. ASSUME NEW s \in Sessions, NEW k \in Slots, PostItem(s, k)
      PROVE  [Contract!Next]_(Contract!vars)
  BY <1>5, ContractKept DEF PostItem, Post, appVars
<1>6. CASE DispatchMarketData
  BY <1>6, ContractMarketData
<1>7. CASE DispatchMarketPrice
  BY <1>7, DispatchType DEF DispatchMarketPrice, SSLEDSessions, SnapshotState, Events
<1>8. CASE DispatchLogin \/ DropStale
  <2>1. UNCHANGED <<answered, in_sync, pc, active>>
    BY <1>8 DEF DispatchLogin, DropStale, Dispatch, NoSync, OnLoginSuccess, OnLoginLost
  <2>2. QED
    BY <2>1, ContractKept
<1>9. CASE LeaveLoop
  BY <1>9, ContractKept DEF LeaveLoop
<1>10. CASE Clear
  <2>1. UNCHANGED <<answered, in_sync>>
    BY <1>10 DEF Clear, Destroyed
  <2>2. CASE pc = "stopping"
    <3>1. pc' = "success" /\ (in_sync = Sessions <=> ~active)
      BY <1>10, <2>2, AnsweredIsOver DEF Clear
    <3>2. QED
      BY <2>1, <2>2, <3>1, ContractKept
  <2>3. CASE pc = "failing"
    BY <1>10, <2>1, <2>3, ContractKept DEF Clear
  <2>4. QED
    BY <1>10, <2>2, <2>3 DEF Clear
<1>11. CASE UNCHANGED vars
  BY <1>11, ContractKept DEF vars, appVars
<1>12. QED
  BY <1>1, <1>2, <1>3, <1>4, <1>5, <1>6, <1>7, <1>8, <1>9, <1>10, <1>11, ConfigAssumption
  DEF Next, Startup, MainLoop, Feed, DispatchTimeout, Exited

\* Snapshot captures of SSLED sessions keep the promise of terminate_on_sync:
\* the answer that makes the collection complete ends the capture, no earlier
\* and no later event does, whatever RFA refuses, closes or delivers late.
THEOREM KeepsContract ==
  ASSUME SnapshotMode, SSLEDSessions = Sessions
  PROVE  Spec => ImplementsContract
<1>1. SnapshotState /\ SnapshotState' /\ [Next]_vars => [Contract!Next]_(Contract!vars)
  BY ContractNext
<1>2. QED
  BY <1>1, ContractInit, SnapshotStates, PTL DEF Spec, ImplementsContract, Contract!Spec
=============================================================================
