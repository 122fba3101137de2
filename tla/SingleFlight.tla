---------------------------- MODULE SingleFlight ----------------------------
(***************************************************************************)
(* What the hub promises about syncs: at any time an environment has at    *)
(* most one sync between the request that was accepted for it and the end  *)
(* of its job.  enqueue_sync takes the Redis lock of the environment to    *)
(* keep that promise and refuses a second request while it holds           *)
(* (backend/app/services/collector.py).  The promise itself knows no lock, *)
(* no clock, no queue and no failure: a flight starts when none is in the  *)
(* air, and it lands.                                                      *)
(***************************************************************************)
CONSTANTS Env,      \* registered environments
          Job       \* sync jobs

VARIABLE flight     \* flight[e]: the jobs accepted for e that have not ended

Init == flight = [e \in Env |-> {}]

Start(e, j) ==
  /\ flight[e] = {}
  /\ \A other \in Env : j \notin flight[other]
  /\ flight' = [flight EXCEPT ![e] = {j}]

Land(e) ==
  /\ flight[e] # {}
  /\ flight' = [flight EXCEPT ![e] = {}]

Next == \E e \in Env : Land(e) \/ \E j \in Job : Start(e, j)

Spec == Init /\ [][Next]_flight

\* Every flight lands: nothing accepted stays outstanding for ever.
FairSpec == Spec /\ \A e \in Env : WF_flight(Land(e))
=============================================================================
