------------------------------ MODULE Consumer ------------------------------
(***************************************************************************)
(* consumer_t: one subscriber per configured session.  A consumer keeps a  *)
(* directory of item streams, asks RFA for every one of them, counts the   *)
(* streams that have answered and, once the count equals the size of the   *)
(* directory, calls on_sync_ (the capture application, module Torikuru).   *)
(*                                                                         *)
(* The two protocols share the class: SSLED sessions use the market data   *)
(* API, RSSL sessions the OMM API behind a login.                          *)
(*                                                                         *)
(* An item stream is known by its slot, the position of its symbol in      *)
(* the configured list, so that a symbol listed twice is two stream        *)
(* objects of which only one can be in the directory.  Counters the        *)
(* program only ever writes (cumulative_stats_, msg_count, activity times) *)
(* are left out.                                                           *)
(***************************************************************************)
EXTENDS Integers, Sequences, FiniteSets

CONSTANTS
  Sessions,          \* configured sessions
  Instruments,       \* the symbol list, as read from the symbol file
  Protocol,          \* session -> "SSLED" or "RSSL"
  DisableUpdate, DisableRefresh, TerminateOnSync,   \* command line switches
  HasOutput          \* an output path is configured: coded_stream_ # nullptr

Slots == DOMAIN Instruments

ASSUME ConfigAssumption ==
  /\ IsFiniteSet(Sessions) /\ Sessions # {}
  /\ Instruments \in Seq(STRING) /\ Instruments # <<>>
  /\ Protocol \in [Sessions -> {"SSLED", "RSSL"}]
  /\ {DisableUpdate, DisableRefresh, TerminateOnSync, HasOutput} \subseteq BOOLEAN

\* Bug: the negation is lost.
InterestAfterRefresh_Inverted == TerminateOnSync

\* Init passes !terminate_on_sync: a capture that ends on sync takes snapshots.
InterestAfterRefresh == ~TerminateOnSync

\* Message types of market data item events, and what OnMarketDataItemEvent
\* does with each: the ignored ones never reach the archive.
IgnoredTypes == {"UnsolicitedImage", "Status", "ClosingRun", "PermissionData", "GroupChange"}
SsledTypes == {"Image", "Update", "Correction", "Rename"} \cup IgnoredTypes
RsslTypes == {"Refresh", "Update", "Status"}
LoginTypes == {"LoginOk", "LoginSuspect", "LoginClosed", "LoginOther"}

\* What RFA holds for an item stream: no event stream, an open one, one whose
\* closing event is posted, or one the program unregistered.  "doubled" and
\* "misused" record a second registration, or the release of a dead handle.
InterestStates == {"none", "open", "final", "cancelled", "doubled", "misused"}

VARIABLES
  streams,           \* stream objects alive, owned by the application's list
  directory,         \* directory_, as the slots of its entries
  item_handle,       \* slots whose item_handle is not null
  refresh_received,  \* per stream
  update_received,   \* per stream
  is_closed,         \* slots whose is_closed is set
  refresh_count,     \* per session
  in_sync,           \* sessions whose in_sync_ is set
  is_muted,          \* sessions whose is_muted_ is set
  interest,          \* RFA's side of the stream's handle
  archive,           \* records written, per stream and message type
  answered           \* history: slots that were sent a refresh or a close

countVars == <<refresh_received, update_received, is_closed, refresh_count, in_sync>>
consumerVars == <<streams, directory, item_handle, is_muted, interest, archive,
                  answered, countVars>>

ConsumerTypeOK ==
  /\ streams \in [Sessions -> SUBSET Slots]
  /\ directory \in [Sessions -> SUBSET Slots]
  /\ item_handle \in [Sessions -> SUBSET Slots]
  /\ refresh_received \in [Sessions -> [Slots -> Nat]]
  /\ update_received \in [Sessions -> [Slots -> Nat]]
  /\ is_closed \in [Sessions -> SUBSET Slots]
  /\ refresh_count \in [Sessions -> Nat]
  /\ in_sync \subseteq Sessions
  /\ is_muted \subseteq Sessions
  /\ interest \in [Sessions -> [Slots -> InterestStates]]
  /\ archive \in [Sessions -> [Slots -> [SsledTypes -> Nat]]]
  /\ answered \in [Sessions -> SUBSET Slots]

\* Bug: consumers start out unmuted.
InitiallyMuted_None == {}

\* The constructor mutes: no item is requested when its stream is created.
InitiallyMuted == Sessions

ConsumerInit ==
  /\ streams = [s \in Sessions |-> {}]
  /\ directory = [s \in Sessions |-> {}]
  /\ item_handle = [s \in Sessions |-> {}]
  /\ refresh_received = [s \in Sessions |-> [k \in Slots |-> 0]]
  /\ update_received = [s \in Sessions |-> [k \in Slots |-> 0]]
  /\ is_closed = [s \in Sessions |-> {}]
  /\ refresh_count = [s \in Sessions |-> 0]
  /\ in_sync = {}
  /\ is_muted = InitiallyMuted
  /\ interest = [s \in Sessions |-> [k \in Slots |-> "none"]]
  /\ archive = [s \in Sessions |-> [k \in Slots |-> [t \in SsledTypes |-> 0]]]
  /\ answered = [s \in Sessions |-> {}]

-----------------------------------------------------------------------------
\* Handles.

Registered(state) == IF state = "none" THEN "open" ELSE "doubled"

Unregistered(state) == IF state \in {"open", "final"} THEN "cancelled" ELSE "misused"

\* Streams RFA may still deliver events for.
Live(s) == {k \in Slots : interest[s][k] \in {"open", "final", "doubled"}}

\* Bug: the result of emplace is not looked at.
Listed_Never(s, k) == FALSE

\* The entry a symbol has in the directory, if any: a name is there once.
Listed(s, k) == \E j \in directory[s] : Instruments[j] = Instruments[k]

\* CreateItemStream and the caller's emplace_back: a symbol that is already
\* listed gets no entry, and its new stream object dies with the call.  An
\* unmuted consumer requests the item first.
CreateItemStream(s, k) ==
  /\ interest' = IF s \in is_muted THEN interest
                 ELSE [interest EXCEPT ![s][k] = Registered(@)]
  /\ item_handle' = IF s \in is_muted THEN item_handle
                    ELSE [item_handle EXCEPT ![s] = @ \cup {k}]
  /\ directory' = [directory EXCEPT ![s] = IF Listed(s, k) THEN @ ELSE @ \cup {k}]
  /\ streams' = [streams EXCEPT ![s] = IF Listed(s, k) THEN @ ELSE @ \cup {k}]
  /\ UNCHANGED <<is_muted, archive, answered, countVars>>

\* Bug: every entry is requested again.
Unfulfilled_All(s) == directory[s] \cap streams[s]

\* Directory entries Resubscribe asks for: alive and without a handle.
Unfulfilled(s) == {k \in directory[s] \cap streams[s] : k \notin item_handle[s]}

\* Resubscribe: RFA grants a handle to the streams in granted and gives a null
\* handle to, or throws before, the others; a null handle is no error.
Resubscribe(s, granted) ==
  /\ granted \subseteq Unfulfilled(s)
  /\ interest' = [interest EXCEPT ![s] =
       [k \in Slots |-> IF k \in granted THEN Registered(@[k]) ELSE @[k]]]
  /\ item_handle' = [item_handle EXCEPT ![s] = @ \cup granted]

-----------------------------------------------------------------------------
\* Market data item events (SSLED).

\* Bug: a closing event counts for nothing.
ClosesNow_Uncounted(s, e) == FALSE

\* A closing event the stream has not been marked for yet.
ClosesNow(s, e) == e.closed /\ e.slot \notin is_closed[s]

\* Bug: every image is taken for the first.
FirstImage_Every(s, e) == e.type = "Image"

FirstImage(s, e) == e.type = "Image" /\ refresh_received[s][e.slot] = 0

\* Bug: every image unregisters the stream.
EndsSnapshot_EveryImage(s, e) ==
  e.type = "Image" /\ ~DisableRefresh /\ ~InterestAfterRefresh

\* The image that satisfies a snapshot: the stream is unregistered.
EndsSnapshot(s, e) == FirstImage(s, e) /\ ~DisableRefresh /\ ~InterestAfterRefresh

\* Bug: the first image is passed over whatever disable_refresh says.
Skipped_FirstImage(s, e) ==
  \/ FirstImage(s, e)
  \/ e.type = "Update" /\ DisableUpdate
  \/ e.type \in IgnoredTypes

\* Events that go straight to check_sync.
Skipped(s, e) ==
  \/ FirstImage(s, e) /\ DisableRefresh
  \/ e.type = "Update" /\ DisableUpdate
  \/ e.type \in IgnoredTypes

\* Only Marketfeed is archived: any other format unregisters the stream.
Rejected(s, e) == ~Skipped(s, e) /\ ~e.marketfeed

Recorded(s, e) == ~Skipped(s, e) /\ e.marketfeed /\ HasOutput

Gain(s, e) == (IF ClosesNow(s, e) THEN 1 ELSE 0) + (IF FirstImage(s, e) THEN 1 ELSE 0)

\* Bugs: the count is compared before the event is counted; the callback is
\* not guarded by in_sync_.
ReachesSync_Before(s, e) == s \notin in_sync /\ refresh_count[s] = Cardinality(directory[s])
ReachesSync_Unguarded(s, e) == refresh_count[s] + Gain(s, e) = Cardinality(directory[s])

\* check_sync: the event after which every directory entry is counted.
ReachesSync(s, e) ==
  /\ s \notin in_sync
  /\ refresh_count[s] + Gain(s, e) = Cardinality(directory[s])

Counted(e, type, received) ==
  IF e.type = type THEN [received EXCEPT ![e.session][e.slot] = @ + 1] ELSE received

Released(s, e) ==
  LET state == interest[s][e.slot]
      ended == IF EndsSnapshot(s, e) THEN Unregistered(state) ELSE state
  IN  IF Rejected(s, e) THEN Unregistered(ended) ELSE ended

OnMarketDataItemEvent(s, e) ==
  /\ refresh_count' = [refresh_count EXCEPT ![s] = @ + Gain(s, e)]
  /\ is_closed' = [is_closed EXCEPT ![s] =
       IF e.closed \/ EndsSnapshot(s, e) THEN @ \cup {e.slot} ELSE @]
  /\ refresh_received' = Counted(e, "Image", refresh_received)
  /\ update_received' = Counted(e, "Update", update_received)
  /\ interest' = [interest EXCEPT ![s][e.slot] = Released(s, e)]
  /\ archive' = IF Recorded(s, e) THEN [archive EXCEPT ![s][e.slot][e.type] = @ + 1]
                ELSE archive
  /\ in_sync' = IF ReachesSync(s, e) THEN in_sync \cup {s} ELSE in_sync
  /\ answered' = [answered EXCEPT ![s] =
       IF e.closed \/ e.type = "Image" THEN @ \cup {e.slot} ELSE @]
  /\ UNCHANGED <<streams, directory, item_handle, is_muted>>

-----------------------------------------------------------------------------
\* OMM events (RSSL).

\* OnMarketPrice counts the response and does nothing else with it.
OnMarketPrice(s, e) ==
  /\ refresh_received' = Counted(e, "Refresh", refresh_received)
  /\ update_received' = Counted(e, "Update", update_received)
  /\ answered' = [answered EXCEPT ![s] =
       IF e.closed \/ e.type = "Refresh" THEN @ \cup {e.slot} ELSE @]
  /\ UNCHANGED <<streams, directory, item_handle, is_muted, interest, archive,
                 is_closed, refresh_count, in_sync>>

\* OnLoginSuccess: an exception leaves the streams requested so far requested
\* and the consumer muted.
OnLoginSuccess(s, granted, threw) ==
  /\ Resubscribe(s, granted)
  /\ is_muted' = IF threw THEN is_muted ELSE is_muted \ {s}
  /\ UNCHANGED <<streams, directory, archive, answered, countVars>>

\* OnLoginSuspect and OnLoginClosed.
OnLoginLost(s) ==
  /\ is_muted' = is_muted \cup {s}
  /\ UNCHANGED <<streams, directory, item_handle, interest, archive, answered, countVars>>

\* ~consumer_t: the subscriber or OMM consumer goes, and its handles with it.
Destroyed ==
  /\ interest' = [s \in Sessions |-> [k \in Slots |->
       IF k \in Live(s) THEN "cancelled" ELSE interest[s][k]]]
  /\ UNCHANGED <<directory, item_handle, is_muted, archive, answered, countVars>>
=============================================================================
