------------------------------ MODULE Torikuru ------------------------------
(***************************************************************************)
(* torikuru_t capturing live data: Init creates the consumers and their    *)
(* streams and submits the subscriptions, MainLoop dispatches the RFA      *)
(* event queue into the consumers, on_sync ends the capture when every     *)
(* consumer is in sync and terminate_on_sync is set, Clear releases all.   *)
(*                                                                         *)
(* The program has one thread; RFA's threads run beside it and post events *)
(* to the queue for every stream RFA holds a registration for.  RFA and    *)
(* the feed are external: their actions are modelled from what the program *)
(* asks of them and handles.                                               *)
(***************************************************************************)
EXTENDS Consumer

CONSTANTS
  FeedTypes,       \* market data message types the feed sends
  FinalTypes,      \* those an event that closes its stream may have
  Marketfeed,      \* the data formats the feed uses: a subset of BOOLEAN
  RequestsMayFail, \* RFA may refuse a session, a stream or a request
  HasTimeLimit,    \* a run-time limit is configured
  LateEvents,      \* RFA may deliver queued events of an unregistered stream
  MaxEvents,       \* bound: events posted per stream
  MaxLogins,       \* bound: login responses posted per session
  MaxQueue         \* bound: events waiting in the queue

ASSUME FeedAssumption ==
  /\ FeedTypes \subseteq SsledTypes
  /\ FinalTypes \subseteq FeedTypes
  /\ Marketfeed \subseteq BOOLEAN
  /\ {RequestsMayFail, HasTimeLimit, LateEvents} \subseteq BOOLEAN
  /\ {MaxEvents, MaxLogins, MaxQueue} \subseteq Nat

VARIABLES
  pc,                 \* where Run is
  consumers,          \* consumers_, as the sessions in it
  attempted,          \* symbols offered to CreateItemStream, per session
  subscribed,         \* sessions whose Resubscribe Init has called
  consumers_in_sync,
  active,             \* event_queue_->isActive()
  queue,              \* events waiting in event_queue_
  sent,               \* events the feed has posted, per stream
  logins              \* login responses posted, per session

appVars == <<pc, consumers, attempted, subscribed, consumers_in_sync, active>>
feedVars == <<sent, logins>>
vars == <<consumerVars, appVars, queue, feedVars>>

Locations == {"consumers", "streams", "subscribe", "loop", "stopping", "failing",
              "success", "failure"}

\* Item events have the types of their session's protocol; login responses
\* belong to no stream, and their slot is 0.
ItemTypes(s) == IF Protocol[s] = "SSLED" THEN SsledTypes ELSE RsslTypes

Events ==
  {e \in [session : Sessions, slot : Slots \cup {0},
          type : SsledTypes \cup RsslTypes \cup LoginTypes,
          closed : BOOLEAN, marketfeed : BOOLEAN] :
     e.type \in IF e.slot = 0 THEN LoginTypes ELSE ItemTypes(e.session)}

TypeOK ==
  /\ ConsumerTypeOK
  /\ pc \in Locations
  /\ consumers \subseteq Sessions
  /\ attempted \in [Sessions -> 0 .. Len(Instruments)]
  /\ subscribed \subseteq Sessions
  /\ consumers_in_sync \in Nat
  /\ active \in BOOLEAN
  /\ queue \in Seq(Events)
  /\ sent \in [Sessions -> [Slots -> Nat]]
  /\ logins \in [Sessions -> Nat]

Init ==
  /\ ConsumerInit
  /\ pc = "consumers"
  /\ consumers = {}
  /\ attempted = [s \in Sessions |-> 0]
  /\ subscribed = {}
  /\ consumers_in_sync = 0
  /\ active = TRUE
  /\ queue = <<>>
  /\ sent = [s \in Sessions |-> [k \in Slots |-> 0]]
  /\ logins = [s \in Sessions |-> 0]

-----------------------------------------------------------------------------
\* torikuru_t::Init.  An exception, or a false from one of its parts, makes
\* it return false: Run then clears what there is and returns EXIT_FAILURE.

InitFails ==
  /\ RequestsMayFail
  /\ pc = "consumers"
  /\ pc' = "failing"
  /\ UNCHANGED <<consumerVars, consumers, attempted, subscribed, consumers_in_sync,
                 active, queue, feedVars>>

InitConsumer(s) ==
  /\ pc = "consumers"
  /\ s \notin consumers
  /\ consumers' = consumers \cup {s}
  /\ pc' = IF consumers' = Sessions THEN "streams" ELSE pc
  /\ UNCHANGED <<consumerVars, attempted, subscribed, consumers_in_sync, active,
                 queue, feedVars>>

\* The loop over the instruments, and within it over the consumers.
AddStream(s) ==
  /\ pc = "streams"
  /\ attempted[s] < Len(Instruments)
  /\ \A t \in Sessions : attempted[s] <= attempted[t]
  /\ attempted' = [attempted EXCEPT ![s] = @ + 1]
  /\ CreateItemStream(s, attempted'[s])
  /\ pc' = IF \A t \in Sessions : attempted'[t] = Len(Instruments) THEN "subscribe" ELSE pc
  /\ UNCHANGED <<consumers, subscribed, consumers_in_sync, active, queue, feedVars>>

\* How the requests of one Resubscribe may end: all granted, some refused with
\* a null handle, or an exception from the request after those in granted.
Outcome(s, granted, threw) ==
  \/ granted = Unfulfilled(s) /\ ~threw
  \/ RequestsMayFail /\ (threw => granted # Unfulfilled(s))

Subscribe(s) ==
  /\ pc = "subscribe"
  /\ s \notin subscribed
  /\ subscribed' = subscribed \cup {s}
  /\ \E granted \in SUBSET Unfulfilled(s), threw \in BOOLEAN :
       /\ Outcome(s, granted, threw)
       /\ Resubscribe(s, granted)
       /\ pc' = IF threw THEN "failing"
                ELSE IF subscribed' = Sessions THEN "loop" ELSE pc
  /\ UNCHANGED <<streams, directory, is_muted, archive, answered, countVars, consumers,
                 attempted, consumers_in_sync, active, queue, feedVars>>

-----------------------------------------------------------------------------
\* RFA posts events from its own threads.

Room == Len(queue) < MaxQueue /\ pc \notin {"success", "failure"}

Post(e) ==
  /\ queue' = Append(queue, e)
  /\ UNCHANGED appVars

PostItem(s, k) ==
  /\ Room
  /\ interest[s][k] = "open"
  /\ sent[s][k] < MaxEvents
  /\ \E type \in IF Protocol[s] = "SSLED" THEN FeedTypes ELSE RsslTypes,
        closed \in BOOLEAN, marketfeed \in Marketfeed :
        /\ closed => type \in FinalTypes
        /\ Post([session |-> s, slot |-> k, type |-> type, closed |-> closed,
                 marketfeed |-> marketfeed])
        /\ interest' = [interest EXCEPT ![s][k] = IF closed THEN "final" ELSE @]
  /\ sent' = [sent EXCEPT ![s][k] = @ + 1]
  /\ UNCHANGED <<streams, directory, item_handle, is_muted, archive, answered, countVars,
                 logins>>

PostLogin(s) ==
  /\ Room
  /\ Protocol[s] = "RSSL" /\ s \in consumers
  /\ logins[s] < MaxLogins
  /\ \E type \in LoginTypes :
        Post([session |-> s, slot |-> 0, type |-> type, closed |-> FALSE,
              marketfeed |-> FALSE])
  /\ logins' = [logins EXCEPT ![s] = @ + 1]
  /\ UNCHANGED <<consumerVars, sent>>

-----------------------------------------------------------------------------
\* MainLoop: one event of the queue at a time.

Delivered(e) == LateEvents \/ e.slot \in Live(e.session)

Dispatch ==
  /\ pc = "loop" /\ active /\ queue # <<>>
  /\ queue' = Tail(queue)
  /\ UNCHANGED <<pc, consumers, attempted, subscribed, feedVars>>

\* Bugs: the first consumer in sync ends the capture; the count runs down.
OnSync_First ==
  /\ consumers_in_sync' = consumers_in_sync + 1
  /\ active' = (active /\ ~TerminateOnSync)
OnSync_Down ==
  /\ consumers_in_sync' = consumers_in_sync - 1
  /\ active' = (active /\ ~(TerminateOnSync /\ consumers_in_sync' = 0))

\* The on_sync_ lambda Init gives to every consumer.
OnSync ==
  /\ consumers_in_sync' = consumers_in_sync + 1
  /\ active' = (active /\ ~(TerminateOnSync /\ consumers_in_sync' = Cardinality(consumers)))

NoSync == UNCHANGED <<consumers_in_sync, active>>

DispatchMarketData ==
  /\ Dispatch
  /\ LET e == Head(queue) IN
       /\ e.slot # 0 /\ Protocol[e.session] = "SSLED" /\ Delivered(e)
       /\ OnMarketDataItemEvent(e.session, e)
       /\ IF ReachesSync(e.session, e) THEN OnSync ELSE NoSync

DispatchMarketPrice ==
  /\ Dispatch
  /\ LET e == Head(queue) IN
       /\ e.slot # 0 /\ Protocol[e.session] = "RSSL" /\ Delivered(e)
       /\ OnMarketPrice(e.session, e)
  /\ NoSync

\* RFA may drop the events of a stream that was unregistered meanwhile.
DropStale ==
  /\ Dispatch
  /\ LET e == Head(queue) IN e.slot # 0 /\ e.slot \notin Live(e.session)
  /\ NoSync
  /\ UNCHANGED consumerVars

DispatchLogin ==
  /\ Dispatch
  /\ LET e == Head(queue) IN
       \/ /\ e.type = "LoginOk"
          /\ \E granted \in SUBSET Unfulfilled(e.session), threw \in BOOLEAN :
               /\ Outcome(e.session, granted, threw)
               /\ OnLoginSuccess(e.session, granted, threw)
       \/ /\ e.type \in {"LoginSuspect", "LoginClosed"}
          /\ OnLoginLost(e.session)
       \/ /\ e.type = "LoginOther"
          /\ UNCHANGED consumerVars
  /\ NoSync

\* dispatch(100) times out on an empty queue, and the loop goes round.
DispatchTimeout == pc = "loop" /\ active /\ queue = <<>> /\ UNCHANGED vars

\* The loop ends on a deactivated queue or on the time limit.
LeaveLoop ==
  /\ pc = "loop"
  /\ ~active \/ HasTimeLimit
  /\ pc' = "stopping"
  /\ UNCHANGED <<consumerVars, consumers, attempted, subscribed, consumers_in_sync, active,
                 queue, feedVars>>

Clear ==
  /\ pc \in {"stopping", "failing"}
  /\ pc' = IF pc = "stopping" THEN "success" ELSE "failure"
  /\ active' = FALSE
  /\ streams' = [s \in Sessions |-> {}]
  /\ consumers' = {}
  /\ Destroyed
  /\ UNCHANGED <<attempted, subscribed, consumers_in_sync, queue, feedVars>>

Exited == pc \in {"success", "failure"} /\ UNCHANGED vars

Startup == InitFails \/ \E s \in Sessions : InitConsumer(s) \/ AddStream(s) \/ Subscribe(s)

MainLoop ==
  \/ DispatchMarketData \/ DispatchMarketPrice \/ DispatchLogin \/ DropStale
  \/ DispatchTimeout \/ LeaveLoop

Feed == \E s \in Sessions : PostLogin(s) \/ \E k \in Slots : PostItem(s, k)

Next == Startup \/ MainLoop \/ Clear \/ Feed \/ Exited

Spec == Init /\ [][Next]_vars

\* The program's thread runs on; nothing is assumed of the feed.
FairSpec == Spec /\ WF_vars(Startup \/ MainLoop \/ Clear)

-----------------------------------------------------------------------------
\* Properties.

SSLEDSessions == {s \in Sessions : Protocol[s] = "SSLED"}

\* Every symbol the consumer lists was sent a refresh or a close.
Complete(s) == directory[s] \subseteq answered[s]

\* The main loop is about to end because the sessions synchronised.
Finished == pc \in {"loop", "stopping"} /\ ~active

\* Terminate-on-sync never cuts a capture short: when the queue has been
\* deactivated, every symbol of every session has been answered
\* (the refresh_count_ bookkeeping of OnMarketDataItemEvent and on_sync).
FinishOnlyWhenAnswered == Finished => \A s \in Sessions : Complete(s)

\* ... and never misses the moment: a capture that is to end on sync does not
\* stay in its loop once every symbol has been answered (the test in
\* check_sync is for equality, and is only made when an event arrives).
FinishOnceAnswered ==
  pc = "loop" /\ TerminateOnSync /\ (\A s \in Sessions : Complete(s)) => ~active

\* A capture that ended by sync holds an image of every symbol, except of those
\* the feed closed (disable_refresh aside, which asks for no images).
SnapshotHoldsImages ==
  Finished /\ HasOutput /\ ~DisableRefresh =>
    \A s \in SSLEDSessions : \A k \in directory[s] :
      archive[s][k]["Image"] > 0 \/ interest[s][k] = "final"

\* on_sync_ is called once per synchronised consumer, so consumers_in_sync_
\* is their number whatever events follow (in_sync_ guards the callback).
OnSyncOncePerConsumer == consumers_in_sync = Cardinality(in_sync)

\* The closure RFA holds for a stream is a raw item_stream_t pointer: while
\* events may be dispatched the stream is alive (CreateItemStream requests
\* nothing while muted, so a refused duplicate dies unregistered).
NoDanglingClosure ==
  pc \notin {"success", "failure"} => \A s \in Sessions : Live(s) \subseteq streams[s]

\* Resubscribe, called by Init and again at every login, requests each symbol
\* once: no registration is lost by overwriting its item_handle.
OneRegistration == \A s \in Sessions, k \in Slots : interest[s][k] # "doubled"

\* Once the loop runs, each symbol of the list, given once or more, has exactly
\* one stream in the directory of each session, and no other of its streams is
\* registered with RFA, whatever RFA refused (CreateItemStream, Resubscribe).
OneStreamPerSymbol ==
  pc = "loop" =>
    \A s \in Sessions, k \in Slots :
      \E j \in directory[s] :
        /\ Instruments[j] = Instruments[k]
        /\ \A i \in directory[s] \cup item_handle[s] \cup Live(s) :
              Instruments[i] = Instruments[k] => i = j

\* unregisterClient is never given the handle of a stream it has already
\* released: the handle is kept in item_handle and never set to null.
HandleReleasedOnce == \A s \in Sessions, k \in Slots : interest[s][k] # "misused"

\* With no switch that drops them and only Marketfeed data, every image and
\* every update the consumer counted is in the archive, and none twice.
ArchiveMatchesCounts ==
  HasOutput /\ Marketfeed = {TRUE} =>
    \A s \in SSLEDSessions, k \in Slots :
      /\ ~DisableRefresh => archive[s][k]["Image"] = refresh_received[s][k]
      /\ archive[s][k]["Update"] = IF DisableUpdate THEN 0 ELSE update_received[s][k]

\* A capture all of whose symbols have been answered ends, whatever the feed
\* still sends.
AnsweredCaptureEnds ==
  (pc = "loop" /\ TerminateOnSync /\ \A s \in Sessions : Complete(s)) ~> pc = "success"

\* The inductive invariant behind FinishOnlyWhenAnswered.

SnapshotMode == TerminateOnSync /\ ~DisableRefresh /\ "Image" \notin FinalTypes

\* Nothing is dispatched before the loop, and the loop has every consumer.
Phases ==
  /\ pc \in {"consumers", "streams", "subscribe"} =>
       in_sync = {} /\ is_muted = Sessions /\ active /\ \A s \in Sessions : is_closed[s] = {}
  /\ pc \in {"streams", "subscribe", "loop", "stopping"} => consumers = Sessions

\* Only streams in the directory are registered, queued for or closed.
OnlyListed ==
  /\ \A s \in Sessions, k \in Slots : interest[s][k] # "none" => k \in directory[s]
  /\ \A s \in Sessions : \A k \in is_closed[s] : interest[s][k] # "none"
  /\ \A i \in 1 .. Len(queue) :
       queue[i].slot # 0 => interest[queue[i].session][queue[i].slot] # "none"

SameStream(d, e) == d.session = e.session /\ d.slot = e.slot

\* The closing event of a stream is the last RFA posts for it.
CloseIsLast ==
  \A i \in 1 .. Len(queue) : queue[i].closed =>
    /\ queue[i].slot # 0 /\ queue[i].type \in FinalTypes
    /\ interest[queue[i].session][queue[i].slot] # "open"
    /\ \A j \in i + 1 .. Len(queue) : ~SameStream(queue[i], queue[j])

\* A stream closed before its first image gets no image any more.
ClosedIsQuiet ==
  \A s \in SSLEDSessions : \A k \in is_closed[s] :
    refresh_received[s][k] = 0 =>
      /\ interest[s][k] # "open"
      /\ \A i \in 1 .. Len(queue) : queue[i].session # s \/ queue[i].slot # k

\* refresh_count_ is the number of closed streams, all of them answered.
CountsClosed ==
  /\ \A s \in Sessions : refresh_count[s] = Cardinality(is_closed[s])
  /\ \A s \in Sessions : is_closed[s] \subseteq answered[s]
  /\ \A s \in SSLEDSessions, k \in Slots : refresh_received[s][k] > 0 => k \in is_closed[s]

\* A consumer in sync has closed its whole directory, and the capture is over
\* when all of them have.
SyncIsComplete ==
  /\ \A s \in in_sync : is_closed[s] = directory[s]
  /\ OnSyncOncePerConsumer
  /\ Finished => in_sync = Sessions

SnapshotInvariant ==
  Phases /\ OnlyListed /\ CloseIsLast /\ ClosedIsQuiet /\ CountsClosed /\ SyncIsComplete

\* Snapshot captures keep the promise of terminate_on_sync: Torikuru implements
\* CaptureContract, the slots standing for the symbols they hold.
CaptureOutcome ==
  IF Finished \/ (pc = "success" /\ in_sync = Sessions) THEN "complete"
  ELSE IF pc \in {"stopping", "failing", "success", "failure"} THEN "stopped"
  ELSE "running"

Contract == INSTANCE CaptureContract WITH
  Symbols <- {Instruments[k] : k \in Slots},
  answered <- UNION {{<<s, Instruments[k]>> : k \in answered[s]} : s \in Sessions},
  outcome <- CaptureOutcome

ImplementsContract == Contract!Spec
=============================================================================
