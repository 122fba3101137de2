---------------------------- MODULE AlertPromise ----------------------------
(***************************************************************************)
(* What fleet alerts promise (docs/architecture.md, "Data model"): an      *)
(* alert opens when an estate transitions to critical, and it clears when  *)
(* the estate recovers or a user dismisses it.  A dismissed outage stays   *)
(* silent until the estate has recovered.                                  *)
(***************************************************************************)
CONSTANT Env

VARIABLE view     \* view[e]: what the alert list shows of environment e

Init == view = [e \in Env |-> "quiet"]

Break(e)   == view[e] = "quiet" /\ view' = [view EXCEPT ![e] = "open"]
Dismiss(e) == view[e] = "open" /\ view' = [view EXCEPT ![e] = "dismissed"]
Recover(e) == view[e] # "quiet" /\ view' = [view EXCEPT ![e] = "quiet"]

Next == \E e \in Env : Break(e) \/ Dismiss(e) \/ Recover(e)

Spec == Init /\ [][Next]_view
=============================================================================
