----------------------------- MODULE Lifecycle -----------------------------
(***************************************************************************)
(* What torikuru_t acquires and releases.  Init builds the RFA context,    *)
(* the event queue, the log event provider, the output file and a consumer *)
(* per session, each from what is there already, and returns false at the  *)
(* first part that RFA refuses.  A consumer that fails to initialise is    *)
(* destroyed on the way out of Init; Clear releases the rest, from Run and *)
(* again from ~torikuru_t.                                                 *)
(*                                                                         *)
(* RFA refuses with an exception or with a null result.  Three results are *)
(* put into a shared_ptr with a deleter of its own before they are tested: *)
(* such a pointer, holding null, still calls its deleter when it goes.     *)
(***************************************************************************)
EXTENDS Integers, Sequences, SequencesExt, FiniteSets

CONSTANTS
  Protocol,      \* config_.sessions: the protocol of each, "SSLED" or "RSSL"
  HasOutput,     \* an output path is configured
  Converting,    \* an input path is configured: Convert instead of MainLoop
  NullResults    \* RFA may refuse with a null result

ASSUME LifecycleAssumption ==
  /\ Protocol \in Seq({"SSLED", "RSSL"})
  /\ {HasOutput, Converting, NullResults} \subseteq BOOLEAN

\* A resource belongs to a session or to torikuru_t.
Sessions == DOMAIN Protocol
torikuru == 0

Of(kind, owner) == [kind |-> kind, owner |-> owner]
App(kind) == Of(kind, torikuru)

\* What consumer_t's constructor and Init acquire.
ConsumerParts(s) ==
  <<Of("consumer", s), Of("session", s), Of("subscriber", s), Of("errors", s)>>
    \o IF Protocol[s] = "RSSL" THEN <<Of("login", s)>> ELSE <<>>

ContextParts == <<App("rfa"), App("context"), App("config")>>
LogParts == <<App("log"), App("logger"), App("monitor"), App("logclient")>>
OutputParts == IF HasOutput /\ ~Converting THEN <<App("file")>> ELSE <<>>

\* torikuru_t::Init, in its order: parts in groups, a group for each consumer.
Program ==
  <<ContextParts, <<App("queue")>>, LogParts, OutputParts>>
    \o IF Converting THEN <<>> ELSE [s \in Sessions |-> ConsumerParts(s)]

Resources ==
  [kind : {"rfa", "context", "config", "queue", "log", "logger", "monitor", "logclient", "file"},
   owner : {torikuru}]
    \cup [kind : {"consumer", "session", "subscriber", "errors", "login"}, owner : Sessions]

\* The places of an order of groups, and the first that holds one of scope.
Places(order) == UNION {{<<b, i>> : i \in DOMAIN order[b]} : b \in DOMAIN order}

Before(p, q) == p[1] < q[1] \/ (p[1] = q[1] /\ p[2] < q[2])

First(order, scope) ==
  LET Held == {p \in Places(order) : order[p[1]][p[2]] \in scope}
  IN  {order[p[1]][p[2]] : p \in {q \in Held : \A o \in Held : ~Before(o, q)}}

Parts == {Program[p[1]][p[2]] : p \in Places(Program)}

\* Objects the program constructs itself, which RFA has no say in; the context
\* is initialised without a look at the result.
Certain == {"rfa", "context", "log", "consumer"}

\* Pointers with a deleter that is called for null as well.
DeletesNull == {"queue", "errors", "login"}

\* What a resource uses for as long as it lives.  A consumer also keeps the
\* coded stream, which it leaves alone once the main loop is over.
Needs(r) ==
  CASE r.kind = "rfa" -> {}
    [] r.kind = "context" -> {App("rfa")}
    [] r.kind = "config" -> {App("rfa"), App("context")}
    [] r.kind = "queue" -> {App("context")}
    [] r.kind = "log" -> {App("queue")}
    [] r.kind = "logger" -> {App("log"), App("config")}
    [] r.kind = "monitor" -> {App("logger")}
    [] r.kind = "logclient" -> {App("monitor"), App("queue")}
    [] r.kind = "file" -> {}
    [] r.kind = "consumer" -> {App("rfa"), App("queue")}
    [] r.kind = "session" -> {Of("consumer", r.owner), App("config")}
    [] r.kind = "subscriber" -> {Of("session", r.owner)}
    [] r.kind \in {"errors", "login"} -> {Of("subscriber", r.owner), App("queue")}

\* Bug: ~consumer_t releases in the order of acquisition.
ConsumerRelease_Forward(s) == Tail(ConsumerParts(s)) \o <<Of("consumer", s)>>

\* ~consumer_t: the login, the error handle, the subscriber, the session.
ConsumerRelease(s) == Reverse(ConsumerParts(s))

\* Bugs: the queue goes before the log provider that is registered with it;
\* the output file is forgotten.
ReleaseOrder_QueueFirst ==
  <<<<App("file")>>>> \o [s \in Sessions |-> ConsumerRelease(s)]
    \o <<<<App("queue")>>, Reverse(LogParts), Reverse(ContextParts)>>
ReleaseOrder_NoFile ==
  [s \in Sessions |-> ConsumerRelease(s)]
    \o <<Reverse(LogParts), <<App("queue")>>, Reverse(ContextParts)>>

\* Clear.
ReleaseOrder ==
  <<<<App("file")>>>> \o [s \in Sessions |-> ConsumerRelease(s)]
    \o <<Reverse(LogParts), <<App("queue")>>, Reverse(ContextParts)>>

VARIABLES
  pc,      \* "init", "unwind", "running", "clear", "destroy", "exited", "crashed"
  failed,  \* the owner of the part that was refused
  held,    \* resources alive
  hollow,  \* pointers that hold null and will delete it
  dropped, \* resources Clear has let go of, alive because others share them
  fatal,   \* a CHECK has failed: a message is logged and the program goes on
  status   \* what Run returns: "none", "success" or "failure"

vars == <<pc, failed, held, hollow, dropped, fatal, status>>

TypeOK ==
  /\ pc \in {"init", "unwind", "running", "clear", "destroy", "exited", "crashed"}
  /\ failed \in {torikuru} \cup Sessions
  /\ held \subseteq Resources
  /\ hollow \subseteq Resources
  /\ dropped \subseteq held
  /\ fatal \in BOOLEAN
  /\ status \in {"none", "success", "failure"}

Init ==
  /\ pc = "init"
  /\ failed = torikuru
  /\ held = {} /\ hollow = {} /\ dropped = {}
  /\ fatal = FALSE
  /\ status = "none"

-----------------------------------------------------------------------------
\* The next part Init has not got.
Wanted == First(Program, Parts \ held)

Acquire ==
  /\ pc = "init"
  /\ \E r \in Wanted : held' = held \cup {r}
  /\ UNCHANGED <<pc, failed, hollow, dropped, fatal, status>>

\* A request RFA refuses, or a login whose version cannot be read any more.
Refused ==
  /\ pc = "init"
  /\ \E r \in Wanted :
       /\ r.kind \notin Certain
       /\ \/ UNCHANGED <<held, hollow>>
          \/ /\ NullResults /\ r.kind \in DeletesNull
             /\ hollow' = hollow \cup {r}
             /\ UNCHANGED held
          \/ /\ r.kind = "login"
             /\ held' = held \cup {r}
             /\ UNCHANGED hollow
       /\ failed' = r.owner
  /\ pc' = "unwind"
  /\ UNCHANGED <<dropped, fatal, status>>

\* The consumer that failed: it never came to be in consumers_.
Unfinished == {r \in held \cup hollow : r.owner = failed /\ r.owner # torikuru}

\* A stream or a subscription is refused with an exception.
SubscribeFails ==
  /\ pc = "init" /\ Wanted = {} /\ ~Converting
  /\ pc' = "clear"
  /\ status' = "failure"
  /\ UNCHANGED <<failed, held, hollow, dropped, fatal>>

Ready ==
  /\ pc = "init" /\ Wanted = {}
  /\ pc' = "running"
  /\ UNCHANGED <<failed, held, hollow, dropped, fatal, status>>

\* MainLoop or Convert returns.
Finish ==
  /\ pc = "running"
  /\ pc' = "clear"
  /\ status' = "success"
  /\ UNCHANGED <<failed, held, hollow, dropped, fatal>>

\* Who shares the queue and the context with torikuru_t.
SharedBy(r, alive) ==
  {x \in alive :
     \/ r.kind = "queue" /\ x.kind \in {"log", "consumer"}
     \/ r \in Range(ContextParts) /\ x.kind = "consumer"}

\* The last to share what Clear has let go of takes it along.
Without(r) ==
  LET left == held \ {r} IN left \ {d \in dropped : SharedBy(d, left) = {}}

\* A pointer is reset.  What is shared stays, and its CHECK of use_count fails.
LetGo(r) ==
  LET shared == SharedBy(r, held) # {} IN
    /\ held' = IF shared THEN held ELSE Without(r)
    /\ dropped' = (IF shared THEN dropped \cup {r} ELSE dropped) \cap held'
    /\ fatal' = (fatal \/ shared)
    /\ hollow' = hollow \ {r}
    /\ UNCHANGED <<pc, failed, status>>

\* A deleter called for null is undefined: it may do nothing, as in LetGo, or
\* crash.
DeleteNull(r) ==
  /\ r \in hollow
  /\ pc' = "crashed"
  /\ UNCHANGED <<failed, held, hollow, dropped, fatal, status>>

\* The next of scope in the order of Clear goes.
Release(scope) == \E r \in First(ReleaseOrder, scope) : LetGo(r) \/ DeleteNull(r)

Unwind == pc = "unwind" /\ Release(Unfinished)

InitFalse ==
  /\ pc = "unwind" /\ First(ReleaseOrder, Unfinished) = {}
  /\ pc' = "clear"
  /\ status' = "failure"
  /\ UNCHANGED <<failed, held, hollow, dropped, fatal>>

Remaining == (held \cup hollow) \ dropped

Clear == pc \in {"clear", "destroy"} /\ Release(Remaining)

\* Run returns, and ~torikuru_t clears once more.
Return ==
  /\ pc \in {"clear", "destroy"} /\ First(ReleaseOrder, Remaining) = {}
  /\ pc' = IF pc = "clear" THEN "destroy" ELSE "exited"
  /\ UNCHANGED <<failed, held, hollow, dropped, fatal, status>>

Ended == pc \in {"exited", "crashed"} /\ UNCHANGED vars

Running ==
  \/ Acquire \/ Refused \/ Ready \/ SubscribeFails \/ Finish
  \/ Unwind \/ InitFalse \/ Clear \/ Return

Next == Running \/ Ended

Spec == Init /\ [][Next]_vars

\* One thread, which goes on; the main loop is taken to end.
FairSpec == Spec /\ WF_vars(Running)

-----------------------------------------------------------------------------
\* Properties.

\* Whatever RFA refuses and whenever it does, a resource outlives all that
\* use it: the orders of ~consumer_t, ~LogEventProvider, ~rfa_t and Clear fit
\* the order of Init.
UsersGoFirst == \A r \in held : Needs(r) \subseteq held

\* The leak checks at the end of Clear: nothing acquired is left.
NothingLeaks == pc \in {"destroy", "exited"} => held = {}

\* The use_count CHECKs of Clear hold: no consumer, finished or not, and no
\* log provider still shares the queue or the context when Clear lets them go.
\* (One that fails only logs, and the queue would outlive the context.)
ChecksHold == ~fatal

\* "Returns the error code to be returned by main()": every run comes to its
\* return, and the program to its end.
RunReturns == <>(pc = "exited")
=============================================================================
