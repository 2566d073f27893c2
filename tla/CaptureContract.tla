-------------------------- MODULE CaptureContract --------------------------
(***************************************************************************)
(* What terminate-on-sync promises: "finish capture when all symbols       *)
(* return a refresh or status close".  A capture collects the answers of   *)
(* every session for every symbol; the answer that makes them all ends it, *)
(* and nothing but a failure or the time limit ends it earlier.            *)
(***************************************************************************)
CONSTANTS Sessions, Symbols

VARIABLES
  answered,   \* pairs of a session and a symbol it has answered
  outcome     \* "running", "complete" or "stopped"

vars == <<answered, outcome>>

Wanted == Sessions \X Symbols

Init == answered = {} /\ outcome = "running"

\* A symbol may be answered again, to no effect.
Answer(s, x) ==
  /\ outcome = "running"
  /\ answered' = answered \cup {<<s, x>>}
  /\ outcome' = IF answered' = Wanted THEN "complete" ELSE outcome

Stop ==
  /\ outcome = "running"
  /\ outcome' = "stopped"
  /\ UNCHANGED answered

Next == Stop \/ \E s \in Sessions, x \in Symbols : Answer(s, x)

Spec == Init /\ [][Next]_vars
=============================================================================
