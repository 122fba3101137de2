-------------------------- MODULE FleetPolicyProofs --------------------------
(***************************************************************************)
(* Proofs about FleetPolicy, for every fleet, every number of requests and *)
(* every set of values.                                                    *)
(***************************************************************************)
EXTENDS FleetPolicy, TLAPS

LEMMA VerdictTyped == \A w, s : Verdict(w, s) \in Verdicts
  BY DEF Verdict, Verdicts

LEMMA SavesOneOf == \A new, loaded, current : Saves(new, loaded, current) \subseteq {new, current}
  BY DEF Saves

LEMMA TypeInit == Init => TypeOK
  BY FleetPolicyAssumption DEF Init, TypeOK, SyncState, RequestState, IdleSync, Setting

LEMMA TypeSync ==
  ASSUME TypeOK, NEW e \in Env,
         \/ SyncLoad(e) \/ SyncCollect(e) \/ SyncJudge(e) \/ SyncCommit(e)
         \/ SyncCollides(e) \/ SyncFails(e)
  PROVE  TypeOK'
  <1> USE FleetPolicyAssumption
  <1>1. CASE SyncLoad(e)
    <2>1. sync' = [sync EXCEPT ![e] = [@ EXCEPT !.at = "collecting", !.loaded = known[e]]]
      BY <1>1 DEF SyncLoad
    <2>2. [sync[e] EXCEPT !.at = "collecting", !.loaded = known[e]] \in SyncState
      <3>1. sync[e] \in SyncState /\ known[e] \in Setting
        BY DEF TypeOK
      <3> QED BY <3>1 DEF SyncState
    <2>3. sync' \in [Env -> SyncState]
      BY <2>1, <2>2 DEF TypeOK
    <2> QED BY <1>1, <2>3 DEF SyncLoad, TypeOK, rows, policy, history
  <1>2. CASE SyncCollect(e)
    <2>1. PICK s \in Setting :
            sync' = [sync EXCEPT ![e] = [@ EXCEPT !.at = "collected", !.setting = s]]
      BY <1>2 DEF SyncCollect, TypeOK, Setting, Blank
    <2>2. [sync[e] EXCEPT !.at = "collected", !.setting = s] \in SyncState
      <3>1. sync[e] \in SyncState
        BY DEF TypeOK
      <3> QED BY <3>1 DEF SyncState
    <2>3. sync' \in [Env -> SyncState]
      BY <2>1, <2>2 DEF TypeOK
    <2> QED BY <1>2, <2>3 DEF SyncCollect, Event, TypeOK, rows, policy, history
  <1>3. CASE SyncJudge(e)
    <2>1. PICK v \in Verdicts \cup {"none"} :
            sync' = [sync EXCEPT ![e] = [@ EXCEPT !.at = "judged", !.found = result[e],
                                           !.verdict = v]]
      BY <1>3, VerdictTyped DEF SyncJudge
    <2>2. [sync[e] EXCEPT !.at = "judged", !.found = result[e], !.verdict = v] \in SyncState
      <3>1. sync[e] \in SyncState /\ result[e] \in Verdicts \cup {"none"}
        BY DEF TypeOK
      <3> QED BY <3>1 DEF SyncState
    <2>3. sync' \in [Env -> SyncState]
      BY <2>1, <2>2 DEF TypeOK
    <2> QED BY <1>3, <2>3 DEF SyncJudge, TypeOK, rows, policy, history
  <1>4. IdleSync \in SyncState
    BY DEF IdleSync, SyncState, Setting
  <1>5. CASE SyncCommit(e)
    <2>1. sync[e] \in SyncState
      BY DEF TypeOK
    <2>2. known' \in [Env -> Setting]
      BY <1>5, <2>1, SavesOneOf DEF SyncCommit, TypeOK, SyncState
    <2>3. result' \in [Env -> Verdicts \cup {"none"}]
      BY <1>5, <2>1, SavesOneOf DEF SyncCommit, TypeOK, SyncState
    <2> QED BY <1>4, <1>5, <2>2, <2>3 DEF SyncCommit, TypeOK, policy, history
  <1>6. CASE SyncCollides(e)
    BY <1>4, <1>6 DEF SyncCollides, TypeOK, rows, policy
  <1>7. CASE SyncFails(e)
    BY <1>4, <1>7 DEF SyncFails, Event, TypeOK, rows, policy, history
  <1> QED BY <1>1, <1>2, <1>3, <1>5, <1>6, <1>7

LEMMA Fields ==
  ASSUME TypeOK, NEW q \in Request
  PROVE  /\ req[q] \in RequestState
         /\ req[q].at \in {"idle", "refreshing", "remediating", "answered", "refused",
                           "judged", "ended"}
         /\ req[q].want \in Wanted
         /\ req[q].todo \in SUBSET Env /\ req[q].dirty \in SUBSET Env
         /\ req[q].silent \in SUBSET Env /\ req[q].on \in SUBSET Env
         /\ req[q].loaded \in [Env -> Setting] /\ req[q].copy \in [Env -> Setting]
         /\ req[q].found \in [Env -> Verdicts \cup {"none", "skipped"}]
  BY DEF TypeOK, RequestState

LEMMA Stored ==
  ASSUME TypeOK, NEW q \in Request, NEW r \in RequestState, req' = [req EXCEPT ![q] = r]
  PROVE  req' \in [Request -> RequestState]
  BY DEF TypeOK

LEMMA BeginTyped ==
  ASSUME TypeOK, NEW q \in Request, NEW w \in {"refreshing", "remediating"}, Begin(q, w)
  PROVE  TypeOK'
  <1> DEFINE r == [req[q] EXCEPT !.at = w, !.want = want, !.todo = {e \in Env : exists[e]},
                                 !.loaded = known, !.copy = known]
  <1>1. req' = [req EXCEPT ![q] = r]
    BY DEF Begin
  <1>2. r \in RequestState
    <2>1. want \in Wanted /\ known \in [Env -> Setting] /\ {e \in Env : exists[e]} \in SUBSET Env
      BY DEF TypeOK
    <2> QED BY ZenonT(40), <2>1, Fields DEF RequestState
  <1>3. req' \in [Request -> RequestState]
    BY <1>1, <1>2, Stored
  <1> QED BY <1>3 DEF Begin, TypeOK, rows, policy, history

LEMMA RefreshTyped ==
  ASSUME TypeOK, NEW q \in Request, NEW e \in Env, Refresh(q, e)
  PROVE  TypeOK'
  <1> DEFINE r(d, c, s) == [req[q] EXCEPT !.todo = @ \ {e}, !.dirty = d,
                                          !.copy = c, !.silent = s]
  <1>1. ASSUME NEW d \in SUBSET Env, NEW s \in SUBSET Env, NEW c \in [Env -> Setting]
        PROVE  r(d, c, s) \in RequestState
    BY ZenonT(40), Fields DEF RequestState
  <1>2. ASSUME NEW v \in Setting PROVE [req[q].copy EXCEPT ![e] = v] \in [Env -> Setting]
    BY Fields
  <1>3. /\ req[q].dirty \in SUBSET Env /\ req[q].dirty \cup {e} \in SUBSET Env
        /\ req[q].silent \in SUBSET Env /\ req[q].silent \cup {e} \in SUBSET Env
        /\ remote[e] \in Setting /\ Blank \in Setting
    BY Fields, FleetPolicyAssumption DEF TypeOK, Setting, Blank
  <1>4. \E x \in RequestState : req' = [req EXCEPT ![q] = x]
    <2>1. CASE req' = [req EXCEPT ![q].todo = @ \ {e}, ![q].dirty = @ \cup {e},
                          ![q].copy[e] = remote[e]]
      <3> DEFINE x == r(req[q].dirty \cup {e}, [req[q].copy EXCEPT ![e] = remote[e]],
                        req[q].silent)
      <3>1. req' = [req EXCEPT ![q] = x]
        BY <2>1, Fields DEF RequestState
      <3>2. x \in RequestState
        BY <1>1, <1>2, <1>3
      <3> QED BY <3>1, <3>2
    <2>2. CASE req' = [req EXCEPT ![q].todo = @ \ {e}, ![q].dirty = @ \cup {e},
                          ![q].copy[e] = Blank, ![q].silent = @ \cup {e}]
      <3> DEFINE x == r(req[q].dirty \cup {e}, [req[q].copy EXCEPT ![e] = Blank],
                        req[q].silent \cup {e})
      <3>1. req' = [req EXCEPT ![q] = x]
        BY <2>2, Fields DEF RequestState
      <3>2. x \in RequestState
        BY <1>1, <1>2, <1>3
      <3> QED BY <3>1, <3>2
    <2>3. CASE req' = [req EXCEPT ![q].todo = @ \ {e}, ![q].silent = @ \cup {e}]
      <3> DEFINE x == r(req[q].dirty, req[q].copy, req[q].silent \cup {e})
      <3>1. req' = [req EXCEPT ![q] = x]
        BY <2>3, Fields DEF RequestState
      <3>2. x \in RequestState
        BY <1>1, <1>3, Fields
      <3> QED BY <3>1, <3>2
    <2> HIDE DEF r
    <2> QED BY <2>1, <2>2, <2>3 DEF Refresh
  <1>5. req' \in [Request -> RequestState]
    BY <1>4, Stored
  <1> QED BY <1>5, FleetPolicyAssumption DEF Refresh, Event, TypeOK, rows, policy, history

\* The steps that only move a request on.
LEMMA MoveTyped ==
  ASSUME TypeOK, NEW q \in Request, NEW at \in {"answered", "refused", "ended"},
         NEW on \in SUBSET Env, req' = [req EXCEPT ![q].at = at, ![q].on = on]
  PROVE  req' \in [Request -> RequestState]
  <1>1. [req[q] EXCEPT !.at = at, !.on = on] \in RequestState
    BY ZenonT(40), Fields DEF RequestState
  <1>2. req' = [req EXCEPT ![q] = [req[q] EXCEPT !.at = at, !.on = on]]
    OBVIOUS
  <1> QED BY <1>1, <1>2, Stored

LEMMA ApplyTyped ==
  ASSUME TypeOK, NEW q \in Request, NEW e \in Env,
         SkipCompliant(q, e) \/ Apply(q, e) \/ ApplyRejected(q, e) \/ ApplyRaises(q, e)
  PROVE  TypeOK'
  <1> USE FleetPolicyAssumption
  <1> {e} \in SUBSET Env
    OBVIOUS
  <1>1. CASE SkipCompliant(q, e)
    <2>1. [req[q] EXCEPT !.todo = @ \ {e}] \in RequestState
      BY Fields DEF RequestState
    <2>2. req' \in [Request -> RequestState]
      BY <1>1, <2>1, Stored DEF SkipCompliant
    <2> QED BY <1>1, <2>2 DEF SkipCompliant, TypeOK, rows, policy, history
  <1>2. CASE Apply(q, e)
    <2>1. req' \in [Request -> RequestState]
      BY <1>2, MoveTyped DEF Apply, Answered
    <2>2. req[q].want \in Value
      BY Fields
    <2> QED BY <1>2, <2>1, <2>2 DEF Apply, TypeOK, rows, policy
  <1>3. CASE ApplyRejected(q, e)
    <2>1. req' \in [Request -> RequestState]
      BY <1>3, MoveTyped DEF ApplyRejected, Answered
    <2> QED BY <1>3, <2>1 DEF ApplyRejected, Event, TypeOK, rows, policy, history
  <1>4. CASE ApplyRaises(q, e)
    <2>1. req' \in [Request -> RequestState]
      BY <1>4, MoveTyped DEF ApplyRaises
    <2>2. PICK v \in {remote[e], req[q].want} :
            remote' = [remote EXCEPT ![e] = v] /\ been' = [been EXCEPT ![e] = @ \cup {v}]
      BY <1>4 DEF ApplyRaises
    <2>3. v \in Value
      BY Fields DEF TypeOK
    <2> QED BY <1>4, <2>1, <2>2, <2>3 DEF ApplyRaises, Event, TypeOK, rows, policy
  <1> QED BY <1>1, <1>2, <1>3, <1>4

LEMMA RecordTyped ==
  ASSUME TypeOK, NEW q \in Request, RecordAction(q)
  PROVE  TypeOK'
  <1> DEFINE done == IF req[q].at = "answered" THEN req[q].on ELSE {}
             copy == [e \in Env |-> IF e \in done THEN req[q].want ELSE req[q].copy[e]]
             r == [req[q] EXCEPT !.at = "remediating", !.todo = @ \ req[q].on, !.on = {},
                     !.dirty = done, !.loaded = req[q].copy, !.copy = copy]
  <1>1. req' = [req EXCEPT ![q] = r]
    BY ZenonT(40), Fields DEF RecordAction, RequestState
  <1>2. copy \in [Env -> Setting] /\ done \in SUBSET Env
    BY Fields, FleetPolicyAssumption DEF Setting
  <1>3. r \in RequestState
    <2> HIDE DEF done, copy
    <2> QED BY ZenonT(40), <1>2, Fields DEF RequestState
  <1>4. req' \in [Request -> RequestState]
    BY <1>1, <1>3, Stored
  <1>5. audit' \subseteq Request \X Env \X {"completed", "failed"}
    BY Fields DEF RecordAction, TypeOK
  <1> QED BY <1>4, <1>5 DEF RecordAction, TypeOK, policy, history

LEMMA EndTyped ==
  ASSUME TypeOK, NEW q \in Request,
         JudgeFleet(q) \/ Publish(q) \/ RequestFails(q) \/ ClientDies(q)
  PROVE  TypeOK'
  <1>1. ASSUME req' = [req EXCEPT ![q].at = "ended"] PROVE req' \in [Request -> RequestState]
    <2>1. [req[q] EXCEPT !.at = "ended"] \in RequestState
      BY Fields DEF RequestState
    <2> QED BY <1>1, <2>1, Stored
  <1>2. CASE JudgeFleet(q)
    <2> DEFINE found == [e \in Env |-> IF exists[e] THEN result[e] ELSE "skipped"]
    <2>1. found \in [Env -> Verdicts \cup {"none", "skipped"}]
      BY DEF TypeOK
    <2>2. [req[q] EXCEPT !.at = "judged", !.found = found] \in RequestState
      <3> HIDE DEF found
      <3> QED BY ZenonT(40), <2>1, Fields DEF RequestState
    <2>3. req' \in [Request -> RequestState]
      <3>1. CASE enabled
        <4>1. req' = [req EXCEPT ![q] = [req[q] EXCEPT !.at = "judged", !.found = found]]
          BY <1>2, <3>1, Fields DEF JudgeFleet
        <4> QED BY <2>2, <4>1, Stored
      <3>2. CASE ~enabled
        BY <1>1, <1>2, <3>2 DEF JudgeFleet
      <3> QED BY <3>1, <3>2
    <2> QED BY <1>2, <2>3 DEF JudgeFleet, TypeOK, rows, policy, history
  <1>3. CASE Publish(q)
    <2>1. req' \in [Request -> RequestState]
      BY <1>1, <1>3 DEF Publish
    <2> QED BY <1>3, <2>1 DEF Publish, TypeOK, policy, history
  <1>4. CASE RequestFails(q)
    <2>1. req' \in [Request -> RequestState]
      BY <1>1, <1>4 DEF RequestFails
    <2> QED BY <1>4, <2>1, FleetPolicyAssumption
        DEF RequestFails, Event, TypeOK, rows, policy, history
  <1>5. CASE ClientDies(q)
    <2>1. req' \in [Request -> RequestState]
      BY <1>1, <1>5 DEF ClientDies
    <2> QED BY <1>5, <2>1, FleetPolicyAssumption
        DEF ClientDies, Event, TypeOK, rows, policy, history
  <1> QED BY <1>2, <1>3, <1>4, <1>5

LEMMA WorldTyped ==
  ASSUME TypeOK, UpdatePolicy \/ \E e \in Env : DeleteEnvironment(e) \/ Drift(e)
  PROVE  TypeOK'
  <1> USE FleetPolicyAssumption
  <1>1. CASE UpdatePolicy
    <2>1. want' \in Wanted /\ enabled' \in BOOLEAN
      <3>1. CASE enabled' = ~enabled /\ UNCHANGED want
        BY <3>1 DEF TypeOK
      <3>2. CASE \E w \in Wanted \ {want} : want' = w /\ UNCHANGED enabled
        BY <3>2 DEF TypeOK
      <3> QED BY <1>1, <3>1, <3>2 DEF UpdatePolicy
    <2> QED BY <1>1, <2>1 DEF UpdatePolicy, Event, TypeOK, rows, history
  <1>2. ASSUME NEW e \in Env, DeleteEnvironment(e) PROVE TypeOK'
    BY <1>2 DEF DeleteEnvironment, Event, TypeOK, policy, history, Setting
  <1>3. ASSUME NEW e \in Env, Drift(e) PROVE TypeOK'
    BY <1>3 DEF Drift, Event, TypeOK, rows, policy
  <1> QED BY <1>1, <1>2, <1>3

LEMMA TypeNext == TypeOK /\ [Next]_vars => TypeOK'
  <1>1. ASSUME TypeOK, UNCHANGED vars PROVE TypeOK'
    BY <1>1 DEF vars, TypeOK
  <1> QED BY <1>1, TypeSync, BeginTyped, RefreshTyped, ApplyTyped, RecordTyped, EndTyped,
             WorldTyped DEF Next, BeginPush, BeginRemediation

\* Every variable keeps its type, whatever overlaps or fails.
THEOREM FleetPolicyTypeCorrect == Spec => []TypeOK
  BY TypeInit, TypeNext, PTL DEF Spec

----------------------------------------------------------------------------
(* The unique key of environment and policy costs one sync at most: after a  *)
(* collision there is a result, and every sync that reads it updates it.     *)

ConflictInv ==
  \A e \in Env :
    \/ conflicts[e] = 0
    \/ /\ conflicts[e] = 1
       /\ exists[e] => /\ result[e] # "none"
                       /\ sync[e].at = "judged" => sync[e].found # "none"

\* What keeps the invariant at e: nothing collides, no result is taken away,
\* and no sync is judged on the absence of one.
LEMMA ConflictFrame ==
  ASSUME ConflictInv, UNCHANGED conflicts,
         NEW e \in Env,
         exists'[e] => exists[e],
         exists[e] /\ result[e] # "none" => result'[e] # "none",
         exists[e] /\ result[e] # "none" /\ sync'[e].at = "judged" /\ sync'[e].found = "none"
           => sync[e].at = "judged" /\ sync[e].found = "none"
  PROVE  \/ conflicts'[e] = 0
         \/ /\ conflicts'[e] = 1
            /\ exists'[e] => /\ result'[e] # "none"
                             /\ sync'[e].at = "judged" => sync'[e].found # "none"
  BY DEF ConflictInv

LEMMA ConflictSync ==
  ASSUME TypeOK, ConflictInv, NEW e \in Env,
         SyncLoad(e) \/ SyncCollect(e) \/ SyncJudge(e) \/ SyncCommit(e) \/ SyncFails(e)
  PROVE  ConflictInv'
  <1> SUFFICES ASSUME NEW f \in Env
               PROVE  \/ conflicts'[f] = 0
                      \/ /\ conflicts'[f] = 1
                         /\ exists'[f] => /\ result'[f] # "none"
                                          /\ sync'[f].at = "judged" => sync'[f].found # "none"
    BY DEF ConflictInv
  <1>1. UNCHANGED <<conflicts, exists>>
    BY DEF SyncLoad, SyncCollect, SyncJudge, SyncCommit, SyncFails, rows, history
  <1>2. result[f] # "none" => result'[f] # "none"
    <2>1. CASE SyncCommit(e)
      <3>1. PICK v \in IF sync[e].verdict = "none" THEN {result[e]}
                       ELSE Saves(sync[e].verdict, sync[e].found, result[e]) :
              result' = [result EXCEPT ![e] = v]
        BY <2>1 DEF SyncCommit
      <3>2. result[e] # "none" => v # "none"
        BY SavesOneOf
      <3> QED BY <3>1, <3>2 DEF TypeOK
    <2>2. CASE UNCHANGED result
      BY <2>2
    <2> QED BY <2>1, <2>2 DEF SyncLoad, SyncCollect, SyncJudge, SyncFails, rows
  <1>3. sync'[f] = sync[f] \/ sync'[f].at # "judged" \/ sync'[f].found = result[f]
    BY DEF TypeOK, SyncState, SyncLoad, SyncCollect, SyncJudge, SyncCommit, SyncFails, IdleSync
  <1> QED BY <1>1, <1>2, <1>3, ConflictFrame

LEMMA ConflictCollides ==
  ASSUME TypeOK, ConflictInv, NEW e \in Env, SyncCollides(e)
  PROVE  ConflictInv'
  <1>1. conflicts[e] = 0
    BY DEF SyncCollides, Collides, ConflictInv
  <1>2. sync' = [sync EXCEPT ![e] = IdleSync] /\ IdleSync.at = "idle"
    BY DEF SyncCollides, IdleSync
  <1>3. result[e] # "none" /\ UNCHANGED <<exists, result>>
    BY DEF SyncCollides, Collides, rows
  <1>4. conflicts' = [conflicts EXCEPT ![e] = 1]
    BY <1>1 DEF SyncCollides, TypeOK
  <1> QED BY <1>2, <1>3, <1>4 DEF ConflictInv, TypeOK

LEMMA ConflictOthers ==
  ASSUME TypeOK, ConflictInv,
         \/ UpdatePolicy \/ UNCHANGED vars
         \/ \E e \in Env : DeleteEnvironment(e) \/ Drift(e)
         \/ \E q \in Request :
              \/ BeginPush(q) \/ BeginRemediation(q) \/ RecordAction(q) \/ JudgeFleet(q)
              \/ Publish(q) \/ RequestFails(q) \/ ClientDies(q)
              \/ \E e \in Env : Refresh(q, e) \/ SkipCompliant(q, e) \/ Apply(q, e)
                                \/ ApplyRejected(q, e) \/ ApplyRaises(q, e)
  PROVE  ConflictInv'
  <1>1. CASE UNCHANGED <<exists, result, sync, conflicts>>
    BY <1>1 DEF ConflictInv
  <1>2. ASSUME NEW e \in Env, DeleteEnvironment(e) PROVE ConflictInv'
    <2>1. UNCHANGED <<sync, conflicts>>
      BY <1>2 DEF DeleteEnvironment, history
    <2>2. \A f \in Env : exists'[f] => exists[f] /\ result'[f] = result[f]
      BY <1>2 DEF DeleteEnvironment, TypeOK
    <2> QED BY <2>1, <2>2 DEF ConflictInv
  <1>3. ASSUME NEW q \in Request, Publish(q) PROVE ConflictInv'
    <2>1. UNCHANGED <<exists, sync, conflicts>>
      BY <1>3 DEF Publish, history
    <2>2. \A e \in Env : result[e] # "none" => result'[e] # "none"
      BY <1>3, SavesOneOf, VerdictTyped DEF Publish, Verdicts
    <2> QED BY <2>1, <2>2 DEF ConflictInv
  <1>4. CASE UpdatePolicy \/ UNCHANGED vars \/ \E e \in Env : Drift(e)
    BY <1>1, <1>4 DEF UpdatePolicy, vars, Drift, rows, history
  <1>5. ASSUME NEW q \in Request,
               \/ BeginPush(q) \/ BeginRemediation(q) \/ RecordAction(q) \/ JudgeFleet(q)
               \/ RequestFails(q) \/ ClientDies(q)
        PROVE  ConflictInv'
    BY <1>1, <1>5 DEF BeginPush, BeginRemediation, Begin, RecordAction, JudgeFleet,
                      RequestFails, ClientDies, rows, history
  <1>6. ASSUME NEW q \in Request, NEW e \in Env,
               \/ Refresh(q, e) \/ SkipCompliant(q, e) \/ Apply(q, e)
               \/ ApplyRejected(q, e) \/ ApplyRaises(q, e)
        PROVE  ConflictInv'
    BY <1>1, <1>6 DEF Refresh, SkipCompliant, Apply, ApplyRejected, ApplyRaises, rows, history
  <1> QED BY <1>2, <1>3, <1>4, <1>5, <1>6

\* A healthy sync is lost to the unique key once at most.
THEOREM ConflictsOnce == Spec => []ConflictOnce
  <1>1. Init => ConflictInv
    BY DEF Init, ConflictInv
  <1>2. TypeOK /\ ConflictInv /\ [Next]_vars => ConflictInv'
    BY ConflictSync, ConflictCollides, ConflictOthers DEF Next
  <1>3. TypeOK /\ ConflictInv => ConflictOnce
    BY DEF TypeOK, ConflictInv, ConflictOnce
  <1> QED BY <1>1, <1>2, <1>3, FleetPolicyTypeCorrect, PTL DEF Spec

----------------------------------------------------------------------------
(* The hub shows what a controller has had: syncs and refreshes take what it *)
(* says, and a remediation is remembered only when it was answered.          *)

Seen(e) == been[e] \cup {Missing}

RealInv ==
  /\ \A e \in Env : /\ remote[e] \in been[e]
                    /\ known[e] \in Seen(e)
                    /\ sync[e].setting \in Seen(e)
  /\ \A q \in Request, e \in Env :
       /\ req[q].copy[e] \in Seen(e)
       /\ req[q].at = "answered" /\ e \in req[q].on => req[q].want \in been[e]

\* A controller that does not answer is taken for one without the named resource,
\* and one that rejects its creation for one that has it; of settings nothing is
\* made up.
Honest == rule = "controller_setting" \/ "upstream" \notin Events

LEMMA RealSync ==
  ASSUME Honest, TypeOK, RealInv, NEW e \in Env,
         \/ SyncLoad(e) \/ SyncCollect(e) \/ SyncJudge(e) \/ SyncCommit(e)
         \/ SyncCollides(e) \/ SyncFails(e)
  PROVE  RealInv'
  <1>1. UNCHANGED <<remote, been, req>>
    BY DEF SyncLoad, SyncCollect, SyncJudge, SyncCommit, SyncCollides, SyncFails, history
  <1>2. \A f \in Env : known'[f] \in Seen(f)
    <2>1. CASE SyncCommit(e)
      <3>1. PICK k \in Saves(sync[e].setting, sync[e].loaded, known[e]) :
              known' = [known EXCEPT ![e] = k]
        BY <2>1 DEF SyncCommit
      <3>2. k \in Seen(e)
        BY SavesOneOf DEF RealInv
      <3> QED BY <3>1, <3>2 DEF TypeOK, RealInv
    <2>2. CASE UNCHANGED known
      BY <2>2 DEF RealInv
    <2> QED BY <2>1, <2>2
        DEF SyncLoad, SyncCollect, SyncJudge, SyncCollides, SyncFails, rows
  <1>3. \A f \in Env : sync'[f].setting \in Seen(f)
    <2>1. CASE SyncLoad(e) \/ SyncJudge(e)
      <3>1. \A f \in Env : sync'[f].setting = sync[f].setting
        <4>1. CASE SyncLoad(e)
          BY <4>1 DEF TypeOK, SyncState, SyncLoad
        <4>2. CASE SyncJudge(e)
          <5>1. \E v : sync' = [sync EXCEPT ![e] = [@ EXCEPT !.at = "judged",
                                             !.found = result[e], !.verdict = v]]
            BY <4>2 DEF SyncJudge
          <5> QED BY <5>1 DEF TypeOK, SyncState
        <4> QED BY <2>1, <4>1, <4>2
      <3> QED BY <3>1 DEF RealInv
    <2>2. CASE SyncCollect(e)
      <3>1. PICK s \in {remote[e], Missing} :
              sync' = [sync EXCEPT ![e].at = "collected", ![e].setting = s]
        BY <2>2 DEF SyncCollect, Honest, Event, Blank
      <3>2. \A f \in Env : sync'[f].setting = IF f = e THEN s ELSE sync[f].setting
        BY <3>1 DEF TypeOK, SyncState
      <3> QED BY <3>1, <3>2 DEF RealInv, Seen
    <2>3. CASE SyncCommit(e) \/ SyncCollides(e) \/ SyncFails(e)
      <3>1. sync' = [sync EXCEPT ![e] = IdleSync]
        BY <2>3 DEF SyncCommit, SyncCollides, SyncFails
      <3> QED BY <3>1 DEF IdleSync, TypeOK, RealInv, Seen
    <2> QED BY <2>1, <2>2, <2>3
  <1> QED BY <1>1, <1>2, <1>3 DEF RealInv, Seen

LEMMA RealBegin ==
  ASSUME TypeOK, RealInv, NEW q \in Request, BeginPush(q) \/ BeginRemediation(q)
  PROVE  RealInv'
  <1>1. UNCHANGED <<remote, been, known, sync>>
    BY DEF BeginPush, BeginRemediation, Begin, rows, history
  <1>2. \A p \in Request : \/ req'[p] = req[p]
                           \/ req'[p].copy = known /\ req'[p].at # "answered"
    <2>1. PICK w \in {"refreshing", "remediating"} : Begin(q, w)
      BY DEF BeginPush, BeginRemediation
    <2>2. req' = [req EXCEPT ![q] = [@ EXCEPT !.at = w, !.want = want,
                    !.todo = {e \in Env : exists[e]}, !.loaded = known, !.copy = known]]
      BY <2>1 DEF Begin
    <2>3. req'[q].copy = known /\ req'[q].at = w
      BY <2>2, Fields DEF TypeOK, RequestState
    <2> QED BY <2>2, <2>3 DEF TypeOK
  <1> QED BY <1>1, <1>2 DEF RealInv, Seen

LEMMA RealRefresh ==
  ASSUME Honest, TypeOK, RealInv, NEW q \in Request, NEW e \in Env, Refresh(q, e)
  PROVE  RealInv'
  <1>1. UNCHANGED <<remote, been, known, sync>>
    BY DEF Refresh, rows, history
  <1>2. \A p \in Request : req'[p].at = req[p].at /\ req'[p].on = req[p].on
                           /\ req'[p].want = req[p].want
    <2>1. CASE req' = [req EXCEPT ![q].todo = @ \ {e}, ![q].silent = @ \cup {e}]
      BY <2>1 DEF TypeOK, RequestState
    <2>2. ASSUME NEW v, req' = [req EXCEPT ![q].todo = @ \ {e}, ![q].dirty = @ \cup {e},
                                  ![q].copy[e] = v]
          PROVE  \A p \in Request : req'[p].at = req[p].at /\ req'[p].on = req[p].on
                                    /\ req'[p].want = req[p].want
      BY <2>2 DEF TypeOK, RequestState
    <2>3. CASE req' = [req EXCEPT ![q].todo = @ \ {e}, ![q].dirty = @ \cup {e},
                          ![q].copy[e] = Blank, ![q].silent = @ \cup {e}]
      BY <2>3 DEF TypeOK, RequestState
    <2> QED BY <2>1, <2>2, <2>3 DEF Refresh
  <1>3. \A p \in Request, f \in Env : req'[p].copy[f] \in {req[p].copy[f], remote[f], Missing}
    <2> \A p \in Request : req[p] \in RequestState /\ req[p].copy \in [Env -> Setting]
      BY Fields
    <2>1. CASE req' = [req EXCEPT ![q].todo = @ \ {e}, ![q].silent = @ \cup {e}]
      BY <2>1 DEF TypeOK, RequestState
    <2>2. CASE req' = [req EXCEPT ![q].todo = @ \ {e}, ![q].dirty = @ \cup {e},
                          ![q].copy[e] = remote[e]]
      BY <2>2 DEF TypeOK, RequestState
    <2>3. CASE req' = [req EXCEPT ![q].todo = @ \ {e}, ![q].dirty = @ \cup {e},
                          ![q].copy[e] = Missing, ![q].silent = @ \cup {e}]
      BY <2>3 DEF TypeOK, RequestState
    <2> QED BY <2>1, <2>2, <2>3 DEF Refresh, Honest, Event, Blank
  <1> QED BY <1>1, <1>2, <1>3 DEF RealInv, Seen

\* The steps that leave the copies alone, and change a controller on record.
LEMMA RealKept ==
  ASSUME RealInv, UNCHANGED <<known, sync>>,
         \A e \in Env : been[e] \subseteq been'[e] /\ remote'[e] \in been'[e],
         \A p \in Request :
           /\ req'[p].copy = req[p].copy
           /\ req'[p].at = "answered" =>
                \/ req[p].at = "answered" /\ req'[p].on = req[p].on /\ req'[p].want = req[p].want
                \/ \A e \in req'[p].on : req'[p].want \in been'[e]
  PROVE  RealInv'
  BY DEF RealInv, Seen

LEMMA RealApply ==
  ASSUME Honest, TypeOK, RealInv, NEW q \in Request, NEW e \in Env,
         SkipCompliant(q, e) \/ Apply(q, e) \/ ApplyRejected(q, e) \/ ApplyRaises(q, e)
  PROVE  RealInv'
  <1>1. CASE SkipCompliant(q, e)
    <2>1. \A p \in Request : req'[p].copy = req[p].copy /\ req'[p].at = req[p].at
                             /\ req'[p].on = req[p].on /\ req'[p].want = req[p].want
      BY <1>1 DEF SkipCompliant, TypeOK, RequestState
    <2>2. UNCHANGED <<known, sync, been, remote>>
      BY <1>1 DEF SkipCompliant, rows, history
    <2> QED BY <2>1, <2>2, RealKept DEF RealInv
  <1>2. CASE Apply(q, e)
    <2>1. \A p \in Request :
            /\ req'[p].copy = req[p].copy /\ req'[p].want = req[p].want
            /\ p # q => req'[p] = req[p]
            /\ p = q => req'[p].on = {e}
      BY <1>2 DEF Apply, Answered, TypeOK, RequestState
    <2>2. UNCHANGED <<known, sync>>
      BY <1>2 DEF Apply, rows
    <2>3. \A f \in Env : been[f] \subseteq been'[f] /\ remote'[f] \in been'[f]
      BY <1>2 DEF Apply, TypeOK, RealInv
    <2>4. req[q].want \in been'[e]
      BY <1>2 DEF Apply, TypeOK
    <2> QED BY <2>1, <2>2, <2>3, <2>4, RealKept
  <1>3. CASE ApplyRaises(q, e)
    <2>1. \A p \in Request :
            /\ req'[p].copy = req[p].copy
            /\ p # q => req'[p] = req[p]
            /\ p = q => req'[p].at # "answered"
      BY <1>3 DEF ApplyRaises, TypeOK, RequestState
    <2>2. UNCHANGED <<known, sync>>
      BY <1>3 DEF ApplyRaises, rows
    <2>3. \A f \in Env : been[f] \subseteq been'[f] /\ remote'[f] \in been'[f]
      BY <1>3 DEF ApplyRaises, TypeOK, RealInv
    <2> QED BY <2>1, <2>2, <2>3, RealKept
  <1> QED BY <1>1, <1>2, <1>3 DEF ApplyRejected, Honest, Event

LEMMA RealRecord ==
  ASSUME TypeOK, RealInv, NEW q \in Request, RecordAction(q)
  PROVE  RealInv'
  <1>1. UNCHANGED <<remote, been, sync>>
    BY DEF RecordAction, history
  <1>2. \A e \in Env : known'[e] \in {req[q].copy[e], known[e]}
    BY SavesOneOf DEF RecordAction, Flushed
  <1>3. \A p \in Request \ {q} : req'[p] = req[p]
    BY DEF RecordAction, TypeOK
  <1>4. req'[q].at = "remediating"
    BY DEF RecordAction, TypeOK, RequestState
  <1>5. \A e \in Env : \/ req'[q].copy[e] = req[q].copy[e]
                       \/ /\ req'[q].copy[e] = req[q].want
                          /\ req[q].at = "answered" /\ e \in req[q].on
    BY Fields DEF RecordAction, TypeOK, RequestState
  <1> QED BY <1>1, <1>2, <1>3, <1>4, <1>5 DEF RealInv, Seen

LEMMA RealEnd ==
  ASSUME TypeOK, RealInv, NEW q \in Request,
         JudgeFleet(q) \/ Publish(q) \/ RequestFails(q) \/ ClientDies(q)
  PROVE  RealInv'
  <1>1. UNCHANGED <<remote, been, sync>>
    BY DEF JudgeFleet, Publish, RequestFails, ClientDies, history
  <1>2. \A p \in Request : req'[p].copy = req[p].copy
                           /\ (req'[p] = req[p] \/ req'[p].at # "answered")
    BY DEF JudgeFleet, Publish, RequestFails, ClientDies, TypeOK, RequestState
  <1>3. \A e \in Env : known'[e] \in {req[q].copy[e], known[e]}
    BY SavesOneOf DEF JudgeFleet, Publish, RequestFails, ClientDies, Flushed, rows
  <1> QED BY <1>1, <1>2, <1>3 DEF RealInv, Seen

LEMMA RealWorld ==
  ASSUME TypeOK, RealInv,
         UpdatePolicy \/ UNCHANGED vars \/ \E e \in Env : DeleteEnvironment(e) \/ Drift(e)
  PROVE  RealInv'
  <1>1. CASE UpdatePolicy \/ UNCHANGED vars
    BY <1>1 DEF UpdatePolicy, vars, rows, history, RealInv, Seen
  <1>2. ASSUME NEW e \in Env, DeleteEnvironment(e) PROVE RealInv'
    BY <1>2 DEF DeleteEnvironment, TypeOK, policy, history, RealInv, Seen
  <1>3. ASSUME NEW e \in Env, Drift(e) PROVE RealInv'
    <2>1. UNCHANGED <<known, sync, req>>
      BY <1>3 DEF Drift, rows
    <2>2. \A f \in Env : been[f] \subseteq been'[f] /\ remote'[f] \in been'[f]
      BY <1>3 DEF Drift, TypeOK, RealInv
    <2> QED BY <2>1, <2>2, RealKept
  <1> QED BY <1>1, <1>2, <1>3

\* No step changes the type of the rule.
LEMMA RuleStays == [Next]_vars => rule' = rule
  <1> SUFFICES ASSUME [Next]_vars PROVE rule' = rule
    OBVIOUS
  <1>1. ASSUME NEW e \in Env,
               \/ SyncLoad(e) \/ SyncCollect(e) \/ SyncJudge(e) \/ SyncCommit(e)
               \/ SyncCollides(e) \/ SyncFails(e) \/ DeleteEnvironment(e) \/ Drift(e)
        PROVE  rule' = rule
    BY <1>1 DEF SyncLoad, SyncCollect, SyncJudge, SyncCommit, SyncCollides, SyncFails,
                DeleteEnvironment, Drift, policy
  <1>2. ASSUME NEW q \in Request,
               \/ BeginPush(q) \/ BeginRemediation(q) \/ RecordAction(q) \/ JudgeFleet(q)
               \/ Publish(q) \/ RequestFails(q) \/ ClientDies(q)
        PROVE  rule' = rule
    BY <1>2 DEF BeginPush, BeginRemediation, Begin, RecordAction, JudgeFleet, Publish,
                RequestFails, ClientDies, policy
  <1>3. ASSUME NEW q \in Request, NEW e \in Env,
               \/ Refresh(q, e) \/ SkipCompliant(q, e) \/ Apply(q, e)
               \/ ApplyRejected(q, e) \/ ApplyRaises(q, e)
        PROVE  rule' = rule
    BY <1>3 DEF Refresh, SkipCompliant, Apply, ApplyRejected, ApplyRaises, policy
  <1>4. CASE UpdatePolicy \/ UNCHANGED vars
    BY <1>4 DEF UpdatePolicy, vars
  <1> QED BY <1>1, <1>2, <1>3, <1>4 DEF Next

LEMMA RealInvariant == Spec => [](Honest => RealInv)
  <1>1. Init => (Honest => RealInv)
    BY DEF Init, RealInv, Seen, IdleSync
  <1>2. ASSUME TypeOK, Honest => RealInv, [Next]_vars
        PROVE  (Honest => RealInv)'
    <2>1. Honest' => Honest
      BY <1>2, RuleStays DEF Honest
    <2>2. CASE Honest
      <3>1. RealInv'
        BY <1>2, <2>2, RealSync, RealBegin, RealRefresh, RealApply, RealRecord, RealEnd,
           RealWorld DEF Next
      <3> QED BY <3>1
    <2> QED BY <2>1, <2>2
  <1> QED BY <1>1, <1>2, FleetPolicyTypeCorrect, PTL DEF Spec

\* The hub shows of the settings of a controller only what they have been.
THEOREM KnownIsReal == Spec => []KnownWasReal
  <1>1. (Honest => RealInv) => KnownWasReal
    BY DEF Honest, RealInv, Seen, KnownWasReal
  <1> QED BY <1>1, RealInvariant, PTL

\* Nor is anything made up of a named resource, as long as the controllers answer:
\* what the hub shows otherwise comes of a silent controller, or of a rejected POST
\* that is taken for existence, and of no overlap of syncs, pushes and remediations.
THEOREM AnsweredIsReal ==
  "upstream" \notin Events => (Spec => [](\A e \in Env : known[e] \in been[e] \cup {Missing}))
  <1> SUFFICES ASSUME "upstream" \notin Events
               PROVE  Spec => [](\A e \in Env : known[e] \in been[e] \cup {Missing})
    OBVIOUS
  <1>1. (Honest => RealInv) => \A e \in Env : known[e] \in been[e] \cup {Missing}
    BY DEF Honest, RealInv, Seen
  <1> QED BY <1>1, RealInvariant, PTL

----------------------------------------------------------------------------
(* A change made on a controller is on record, as long as no environment is  *)
(* deleted under the request, no transaction is refused and no client dies.  *)

Undisturbed == Events \cap {"delete", "database", "client"} = {}

AuditInv == (\A e \in Env : exists[e]) /\ EffectsAudited

LEMMA AuditKept ==
  ASSUME AuditInv, UNCHANGED <<exists, effects, audit>>,
         \A p \in Request :
           \/ req'[p].at = req[p].at /\ req'[p].on = req[p].on
           \/ req[p].at # "answered"
  PROVE  AuditInv'
  BY DEF AuditInv, EffectsAudited

LEMMA AuditApply ==
  ASSUME TypeOK, AuditInv, NEW q \in Request, NEW e \in Env, Apply(q, e)
  PROVE  AuditInv'
  <1>1. UNCHANGED <<exists, audit>> /\ effects' = effects \cup {<<q, e>>}
    BY DEF Apply, rows
  <1>2. req[q].at = "remediating" /\ req'[q].at = "answered" /\ req'[q].on = {e}
    BY DEF Apply, Answered, TypeOK, RequestState
  <1>3. \A p \in Request \ {q} : req'[p] = req[p]
    BY DEF Apply, Answered, TypeOK
  <1> QED BY <1>1, <1>2, <1>3 DEF AuditInv, EffectsAudited

LEMMA AuditRecord ==
  ASSUME TypeOK, AuditInv, NEW q \in Request, RecordAction(q)
  PROVE  AuditInv'
  <1>1. UNCHANGED <<exists, effects>>
    BY DEF RecordAction, history
  <1>2. audit \subseteq audit'
    BY DEF RecordAction
  <1>3. \A e \in Env : req[q].at = "answered" /\ e \in req[q].on => <<q, e, "completed">> \in audit'
    BY DEF RecordAction
  <1>4. \A p \in Request \ {q} : req'[p] = req[p]
    BY DEF RecordAction, TypeOK
  <1> QED BY <1>1, <1>2, <1>3, <1>4 DEF AuditInv, EffectsAudited

LEMMA AuditRequest ==
  ASSUME Undisturbed, TypeOK, AuditInv, NEW q \in Request,
         \/ BeginPush(q) \/ BeginRemediation(q) \/ JudgeFleet(q) \/ Publish(q)
         \/ RequestFails(q) \/ ClientDies(q)
         \/ \E e \in Env : \/ Refresh(q, e) \/ SkipCompliant(q, e)
                           \/ ApplyRejected(q, e) \/ ApplyRaises(q, e)
  PROVE  AuditInv'
  <1>1. req[q].at # "answered"
    <2>1. ~Vanished(q, req[q].on)
      BY Fields DEF Vanished, AuditInv
    <2> QED BY <2>1 DEF Undisturbed, Event, BeginPush, BeginRemediation, Begin, JudgeFleet,
                  Publish, RequestFails, ClientDies, Refresh, SkipCompliant, ApplyRejected,
                  ApplyRaises
  <1>2. UNCHANGED <<exists, effects, audit>>
    BY DEF BeginPush, BeginRemediation, Begin, JudgeFleet, Publish, RequestFails, ClientDies,
           Refresh, SkipCompliant, ApplyRejected, ApplyRaises, rows, history
  <1>3. \A p \in Request \ {q} : req'[p] = req[p]
    BY ZenonT(40) DEF TypeOK, BeginPush, BeginRemediation, Begin, JudgeFleet, Publish, RequestFails,
           ClientDies, Refresh, SkipCompliant, ApplyRejected, ApplyRaises, Answered
  <1> QED BY <1>1, <1>2, <1>3, AuditKept

LEMMA AuditOthers ==
  ASSUME Undisturbed, AuditInv,
         \/ UpdatePolicy \/ UNCHANGED vars
         \/ \E e \in Env :
              \/ SyncLoad(e) \/ SyncCollect(e) \/ SyncJudge(e) \/ SyncCommit(e)
              \/ SyncCollides(e) \/ SyncFails(e) \/ DeleteEnvironment(e) \/ Drift(e)
  PROVE  AuditInv'
  <1>1. \A e \in Env : ~DeleteEnvironment(e)
    BY DEF Undisturbed, DeleteEnvironment, Event
  <1>2. UNCHANGED <<exists, effects, audit, req>>
    BY <1>1 DEF UpdatePolicy, vars, SyncLoad, SyncCollect, SyncJudge, SyncCommit, SyncCollides,
                SyncFails, Drift, rows, history
  <1> QED BY <1>2, AuditKept

\* Undisturbed, no change of a controller goes unrecorded.
THEOREM EffectsOnRecord == Undisturbed => (Spec => []EffectsAudited)
  <1> SUFFICES ASSUME Undisturbed PROVE Spec => []EffectsAudited
    OBVIOUS
  <1>1. Init => AuditInv
    BY DEF Init, AuditInv, EffectsAudited
  <1>2. TypeOK /\ AuditInv /\ [Next]_vars => AuditInv'
    BY AuditApply, AuditRecord, AuditRequest, AuditOthers DEF Next
  <1>3. AuditInv => EffectsAudited
    BY DEF AuditInv
  <1> QED BY <1>1, <1>2, <1>3, FleetPolicyTypeCorrect, PTL DEF Spec

----------------------------------------------------------------------------
(* Syncs alone keep the verdict of an environment that of the configuration  *)
(* on show: both are columns of one transaction, and the session of a sync   *)
(* read both after the last one that wrote them.                             *)

Untouched == Request = {} /\ "policy" \notin Events

Consistent == \A e \in Env : result[e] \in {"none", Verdict(want, known[e])}

\* What a sync holds of e: the row as it is, and the verdict of what it collected.
Holds(e) ==
  /\ sync[e].at # "idle" /\ exists[e] => sync[e].loaded = known[e]
  /\ sync[e].at = "judged" => /\ sync[e].verdict = Verdict(want, sync[e].setting)
                              /\ exists[e] => sync[e].found = result[e]

OwnInv == enabled /\ Consistent /\ \A e \in Env : Holds(e)

\* An environment whose row and sync are left alone, or whose sync is over.
LEMMA OwnKept ==
  ASSUME OwnInv, UNCHANGED want, NEW e \in Env,
         \/ exists'[e] = exists[e] /\ known'[e] = known[e] /\ result'[e] = result[e]
         \/ ~exists'[e] /\ result'[e] = "none",
         sync'[e] = sync[e] \/ sync'[e] = IdleSync
  PROVE  result'[e] \in {"none", Verdict(want, known[e])'} /\ Holds(e)'
  BY DEF OwnInv, Consistent, Holds, IdleSync, Verdict

LEMMA OwnSync ==
  ASSUME TypeOK, OwnInv, NEW e \in Env,
         SyncLoad(e) \/ SyncCollect(e) \/ SyncJudge(e)
  PROVE  OwnInv'
  <1>1. UNCHANGED <<exists, known, result, want, enabled>>
    BY DEF SyncLoad, SyncCollect, SyncJudge, rows, policy
  <1>2. \A f \in Env \ {e} : sync'[f] = sync[f]
    BY DEF SyncLoad, SyncCollect, SyncJudge, TypeOK
  <1>3. Holds(e)'
    <2> sync[e] \in SyncState
      BY DEF TypeOK
    <2>1. CASE SyncLoad(e)
      <3>1. sync'[e].at = "collecting" /\ sync'[e].loaded = known[e]
        BY <2>1 DEF SyncLoad, SyncState, TypeOK
      <3> QED BY <1>1, <3>1 DEF Holds
    <2>2. CASE SyncCollect(e)
      <3>1. PICK s : sync' = [sync EXCEPT ![e] = [@ EXCEPT !.at = "collected", !.setting = s]]
        BY <2>2 DEF SyncCollect
      <3>2. sync'[e].at = "collected" /\ sync'[e].loaded = sync[e].loaded
        BY <3>1 DEF SyncState, TypeOK
      <3>3. sync[e].at = "collecting"
        BY <2>2 DEF SyncCollect
      <3> QED BY <1>1, <3>2, <3>3 DEF Holds, OwnInv
    <2>3. CASE SyncJudge(e)
      <3>1. sync' = [sync EXCEPT ![e] = [@ EXCEPT !.at = "judged", !.found = result[e],
                                           !.verdict = Verdict(want, sync[e].setting)]]
        BY <2>3 DEF SyncJudge, OwnInv
      <3>2. /\ sync'[e].at = "judged" /\ sync'[e].loaded = sync[e].loaded
            /\ sync'[e].found = result[e] /\ sync'[e].setting = sync[e].setting
            /\ sync'[e].verdict = Verdict(want, sync[e].setting)
        BY <3>1 DEF SyncState, TypeOK
      <3>3. sync[e].at = "collected"
        BY <2>3 DEF SyncJudge
      <3> QED BY <1>1, <3>2, <3>3 DEF Holds, OwnInv, Verdict
    <2> QED BY <2>1, <2>2, <2>3
  <1> QED BY <1>1, <1>2, <1>3 DEF OwnInv, Consistent, Holds, Verdict

\* A commit writes both columns: what it saves replaces what it loaded, and
\* what it leaves alone is what it would have saved.
LEMMA OwnCommit ==
  ASSUME TypeOK, OwnInv, NEW e \in Env, SyncCommit(e)
  PROVE  OwnInv'
  <1>1. /\ UNCHANGED <<exists, want, enabled>>
        /\ sync[e].at = "judged" /\ exists[e]
        /\ sync' = [sync EXCEPT ![e] = IdleSync]
    BY DEF SyncCommit, policy
  <1>2. /\ sync[e].loaded = known[e] /\ sync[e].found = result[e]
        /\ sync[e].verdict = Verdict(want, sync[e].setting)
    BY <1>1 DEF OwnInv, Holds
  <1>3. known' = [known EXCEPT ![e] = sync[e].setting]
    BY <1>2 DEF SyncCommit, Saves
  <1>4. sync[e].verdict # "none"
    BY <1>2, VerdictTyped DEF Verdicts
  <1>5. result' = [result EXCEPT ![e] = Verdict(want, sync[e].setting)]
    BY <1>2, <1>4 DEF SyncCommit, Saves
  <1>6. ASSUME NEW f \in Env
        PROVE  result'[f] \in {"none", Verdict(want, known[f])'} /\ Holds(f)'
    <2>1. sync'[f] = sync[f] \/ sync'[f] = IdleSync
      BY <1>1 DEF TypeOK
    <2>2. CASE f = e
      <3>1. result'[e] = Verdict(want, sync[e].setting) /\ known'[e] = sync[e].setting
        BY <1>3, <1>5 DEF TypeOK
      <3>2. sync'[e] = IdleSync
        BY <1>1 DEF TypeOK
      <3> QED BY <1>1, <2>2, <3>1, <3>2 DEF Holds, IdleSync, Verdict
    <2>3. CASE f # e
      <3>1. exists'[f] = exists[f] /\ known'[f] = known[f] /\ result'[f] = result[f]
        BY <1>1, <1>3, <1>5, <2>3 DEF TypeOK
      <3> QED BY <1>1, <2>1, <3>1, OwnKept
    <2> QED BY <2>2, <2>3
  <1> QED BY <1>1, <1>6 DEF OwnInv, Consistent, Verdict

LEMMA OwnOthers ==
  ASSUME "policy" \notin Events, TypeOK, OwnInv,
         \/ UpdatePolicy \/ UNCHANGED vars
         \/ \E e \in Env : SyncCollides(e) \/ SyncFails(e) \/ DeleteEnvironment(e) \/ Drift(e)
  PROVE  OwnInv'
  <1>1. ~UpdatePolicy
    BY DEF UpdatePolicy, Event
  <1>2. UNCHANGED <<want, enabled>>
    BY <1>1 DEF vars, SyncCollides, SyncFails, DeleteEnvironment, Drift, policy
  <1>3. ASSUME NEW f \in Env
        PROVE  \/ exists'[f] = exists[f] /\ known'[f] = known[f] /\ result'[f] = result[f]
               \/ ~exists'[f] /\ result'[f] = "none"
    BY <1>1 DEF TypeOK, vars, SyncCollides, SyncFails, DeleteEnvironment, Drift, rows
  <1>4. ASSUME NEW f \in Env PROVE sync'[f] = sync[f] \/ sync'[f] = IdleSync
    BY <1>1 DEF TypeOK, vars, SyncCollides, SyncFails, DeleteEnvironment, Drift
  <1>5. ASSUME NEW f \in Env
        PROVE  result'[f] \in {"none", Verdict(want, known[f])'} /\ Holds(f)'
    BY <1>2, <1>3, <1>4, OwnKept
  <1> QED BY <1>2, <1>5 DEF OwnInv, Consistent, Verdict

\* Whatever controllers answer, and whatever fails or is deleted: it takes a push,
\* a remediation or a change of the policy for the policy page to give an environment
\* a verdict that its configuration on show does not deserve.
THEOREM SyncsKeepConsistent == Untouched => (Spec => []Consistent)
  <1> SUFFICES ASSUME Untouched PROVE Spec => []Consistent
    OBVIOUS
  <1>1. Init => OwnInv
    BY DEF Init, OwnInv, Consistent, Holds, IdleSync
  <1>2. TypeOK /\ OwnInv /\ [Next]_vars => OwnInv'
    BY OwnSync, OwnCommit, OwnOthers DEF Next, Untouched
  <1>3. OwnInv => Consistent
    BY DEF OwnInv
  <1> QED BY <1>1, <1>2, <1>3, FleetPolicyTypeCorrect, PTL DEF Spec
=============================================================================
