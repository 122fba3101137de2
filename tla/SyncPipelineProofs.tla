------------------------- MODULE SyncPipelineProofs -------------------------
(***************************************************************************)
(* Proofs about SyncPipeline, for every fleet, every number of runs and    *)
(* workers, every set of reported statuses and every failure.              *)
(***************************************************************************)
EXTENDS SyncPipeline, FiniteSetTheorems, TLAPS

LEMMA TypeInit == Init => TypeOK
  BY PipelineAssumption DEF Init, TypeOK, Status, AlertState, Unread, Nothing, Working

LEMMA DecisionFacts ==
  ASSUME NEW e, NEW previous, NEW new \in Status, NEW d \in Decisions(e, previous, new)
  PROVE  /\ d \in [status : Status, raise : BOOLEAN, clear : SUBSET Run]
         /\ d.status = new
         /\ d.raise <=> new = "critical" /\ OpenAlerts(e) = {} /\ previous # "critical"
         /\ new = "critical" => d.clear = {}
         /\ new # "critical" /\ OpenAlerts(e) = {} => d.clear = {}
         /\ new # "critical" /\ OpenAlerts(e) # {} =>
              \E a \in OpenAlerts(e) : d.clear = {a}
  <1> DEFINE Clears == IF new # "critical" /\ OpenAlerts(e) # {}
                       THEN {{a} : a \in OpenAlerts(e)} ELSE {{}}
  <1>1. \A c \in Clears : c \in SUBSET Run
    BY DEF OpenAlerts
  <1>2. PICK c \in Clears :
          d = [status |-> new,
               raise |-> new = "critical" /\ OpenAlerts(e) = {} /\ previous # "critical",
               clear |-> c]
    BY DEF Decisions
  <1> QED BY <1>1, <1>2

LEMMA AlertsTyped ==
  ASSUME TypeOK, NEW r \in Run
  PROVE  Alerts(r) \in [Run -> AlertState]
  BY DEF Alerts, TypeOK, AlertState

LEMMA TypeNext == TypeOK /\ [Next]_vars => TypeOK'
  <1> SUFFICES ASSUME TypeOK, [Next]_vars PROVE TypeOK'
    OBVIOUS
  <1> USE PipelineAssumption
  <1>1. ASSUME NEW e \in Env, NEW r \in Run, RequestSync(e, r) PROVE TypeOK'
    BY <1>1 DEF RequestSync, Goto, rows, TypeOK
  <1>2. ASSUME NEW e \in Env, LockExpires(e) PROVE TypeOK'
    BY <1>2 DEF LockExpires, rows, TypeOK
  <1>3. ASSUME NEW e \in Env, DeleteEnvironment(e) PROVE TypeOK'
    BY <1>3 DEF DeleteEnvironment, TypeOK, Status, AlertState
  <1>4. ASSUME NEW r \in Run,
               \/ Dequeue(r) \/ BeginRaises(r) \/ Raise(r) \/ HandlerEnds(r)
               \/ WorkHorseDies(r)
        PROVE TypeOK'
    <2>1. /\ UNCHANGED <<rows, lock, envOf, seen, plan>>
          /\ pc[r] # "idle"
          /\ \E to \in Working \cup {"done"} : pc' = [pc EXCEPT ![r] = to]
      BY <1>4 DEF Dequeue, BeginRaises, Raise, HandlerEnds, WorkHorseDies, Goto, Working
    <2> QED BY <2>1 DEF rows, TypeOK
  <1>5. ASSUME NEW r \in Run, BeginExecution(r) PROVE TypeOK'
    BY <1>5 DEF BeginExecution, Goto, TypeOK, Working
  <1>6. ASSUME NEW r \in Run, LoadEnvironment(r) PROVE TypeOK'
    BY <1>6 DEF LoadEnvironment, Goto, rows, TypeOK, Working
  <1>7. ASSUME NEW r \in Run, Judge(r) PROVE TypeOK'
    <2>1. PICK s \in Outcome : \E d \in Decisions(envOf[r], seen[r].status, s) :
                                 plan' = [plan EXCEPT ![r] = d]
      BY <1>7 DEF Judge
    <2>2. \A d \in Decisions(envOf[r], seen[r].status, s) :
            d \in [status : Status, raise : BOOLEAN, clear : SUBSET Run]
      BY DecisionFacts
    <2> QED BY <1>7, <2>1, <2>2 DEF Judge, Goto, rows, TypeOK, Working
  <1>8. ASSUME NEW r \in Run, Commit(r) PROVE TypeOK'
    <2>1. alert' \in [Run -> AlertState]
      BY <1>8, AlertsTyped DEF Commit
    <2>2. plan[r].status \in Status /\ pc[r] = "judged"
      BY <1>8 DEF Commit, Goto, TypeOK
    <2>3. status' \in [Env -> Status] /\ error' \in [Env -> BOOLEAN]
      BY <1>8, <2>2 DEF Commit, Written, TypeOK
    <2> QED BY ZenonT(40), <1>8, <2>1, <2>2, <2>3 DEF Commit, Goto, TypeOK, Working
  <1>9. ASSUME NEW r \in Run, JudgeFailure(r) PROVE TypeOK'
    <2>1. PICK d \in Decisions(envOf[r], status[envOf[r]], "critical") :
             plan' = [plan EXCEPT ![r] = d]
      BY <1>9 DEF JudgeFailure
    <2>2. d \in [status : Status, raise : BOOLEAN, clear : SUBSET Run]
      BY DecisionFacts DEF Status
    <2>3. envOf[r] \in Env
      BY <1>9 DEF JudgeFailure, Goto, TypeOK
    <2> QED BY <1>9, <2>1, <2>2, <2>3 DEF JudgeFailure, Goto, rows, TypeOK, Working
  <1>10. ASSUME NEW r \in Run, RecordFailure(r) PROVE TypeOK'
    <2>1. alert' \in [Run -> AlertState]
      BY <1>10, AlertsTyped DEF RecordFailure
    <2>2. envOf[r] \in Env
      BY <1>10 DEF RecordFailure, Goto, TypeOK
    <2>3. status' \in [Env -> Status]
      BY <1>10 DEF RecordFailure, Written, TypeOK, Status
    <2>4. error' \in [Env -> BOOLEAN]
      BY <1>10, <2>2 DEF RecordFailure, TypeOK
    <2> QED BY ZenonT(40), <1>10, <2>1, <2>3, <2>4 DEF RecordFailure, Goto, TypeOK, Working, Status
  <1>11. ASSUME NEW r \in Run, Release(r) PROVE TypeOK'
    BY <1>11 DEF Release, Goto, rows, TypeOK, Working
  <1>12. ASSUME NEW r \in Run, AcknowledgeAlert(r) PROVE TypeOK'
    BY <1>12 DEF AcknowledgeAlert, TypeOK, AlertState
  <1>13. CASE UNCHANGED vars
    BY <1>13 DEF vars, TypeOK
  <1> QED
    BY <1>1, <1>2, <1>3, <1>4, <1>5, <1>6, <1>7, <1>8, <1>9, <1>10, <1>11, <1>12,
       <1>13 DEF Next

\* Every variable keeps its type.
THEOREM PipelineTypeCorrect == Spec => []TypeOK
  BY TypeInit, TypeNext, PTL DEF Spec

-----------------------------------------------------------------------------
(* One run at a time.  With one worker that is the worker's doing; otherwise  *)
(* it is the lock's, and then the lock must be there for every run in the     *)
(* queue or on a worker.                                                      *)

LockHeld ==
  ~MayLapse => /\ \A r \in Pending : lock[envOf[r]]
               /\ \A r, k \in Pending : envOf[r] = envOf[k] => r = k

OneBusy == WorkerCount = 1 => \A r, k \in Busy : r = k

AloneInv == LockHeld /\ OneBusy

Alone == \A r, k \in Busy : envOf[r] = envOf[k] => r = k

LEMMA AloneFromInv ==
  ASSUME Serial, AloneInv PROVE Alone
  BY DEF Serial, AloneInv, LockHeld, OneBusy, Alone, Pending, Busy

LEMMA BusyFinite == IsFiniteSet(Busy)
  BY PipelineAssumption, FS_Subset DEF Busy

\* A run that stays on its worker, or leaves it, keeping its key or not needing it.
LEMMA AloneKept ==
  ASSUME TypeOK, AloneInv, UNCHANGED <<lock, envOf>>,
         \A k \in Run : /\ pc'[k] \in Working => pc[k] \in Working
                        /\ pc'[k] = "queued" => pc[k] = "queued"
  PROVE  AloneInv'
  <1>1. Busy' \subseteq Busy /\ Pending' \subseteq Pending
    BY DEF Busy, Pending
  <1> QED BY <1>1 DEF AloneInv, LockHeld, OneBusy

LEMMA AloneNext == TypeOK /\ AloneInv /\ [Next]_vars => AloneInv'
  <1> SUFFICES ASSUME TypeOK, AloneInv, [Next]_vars PROVE AloneInv'
    OBVIOUS
  <1> USE PipelineAssumption
  <1>1. ASSUME NEW e \in Env, NEW r \in Run, RequestSync(e, r) PROVE AloneInv'
    <2>1. /\ pc[r] = "idle" /\ ~lock[e] /\ envOf'[r] = e /\ lock'[e] = TRUE
          /\ \A k \in Run : pc'[k] = IF k = r THEN "queued" ELSE pc[k]
          /\ \A k \in Run : k # r => envOf'[k] = envOf[k]
          /\ \A d \in Env : d # e => lock'[d] = lock[d]
      BY <1>1 DEF RequestSync, Goto, TypeOK
    <2>2. Busy' = Busy /\ Pending' = Pending \cup {r} /\ r \notin Pending
      BY <2>1 DEF Busy, Pending, Working
    <2>3. \A k \in Pending : envOf[k] \in Env /\ envOf'[k] = envOf[k]
      BY <2>1, <2>2 DEF Pending, Working, TypeOK
    <2>4. LockHeld'
      BY <2>1, <2>2, <2>3 DEF AloneInv, LockHeld
    <2>5. OneBusy'
      BY <2>2 DEF AloneInv, OneBusy
    <2> QED BY <2>4, <2>5 DEF AloneInv
  <1>2. ASSUME NEW e \in Env, LockExpires(e) PROVE AloneInv'
    <2>1. UNCHANGED <<pc, envOf>> /\ \A d \in Env : d # e => lock'[d] = lock[d]
      BY <1>2 DEF LockExpires, TypeOK
    <2>2. Busy' = Busy /\ Pending' = Pending
      BY <2>1 DEF Busy, Pending
    <2>3. \A k \in Pending : envOf[k] \in Env
      BY DEF Pending, Working, TypeOK
    <2> QED BY <1>2, <2>1, <2>2, <2>3 DEF LockExpires, AloneInv, LockHeld, OneBusy
  <1>3. ASSUME NEW r \in Run, Dequeue(r) PROVE AloneInv'
    <2>1. /\ \A k \in Run : pc'[k] = IF k = r THEN "started" ELSE pc[k]
          /\ pc[r] = "queued" /\ Cardinality(Busy) < WorkerCount
          /\ UNCHANGED <<lock, envOf>>
      BY <1>3 DEF Dequeue, Goto, TypeOK
    <2>2. Pending' = Pending /\ Busy' = Busy \cup {r}
      BY <2>1 DEF Pending, Busy, Working
    <2>3. ASSUME WorkerCount = 1 PROVE Busy = {}
      BY <2>1, <2>3, BusyFinite, FS_EmptySet, FS_CardinalityType
    <2> QED BY <2>1, <2>2, <2>3 DEF AloneInv, LockHeld, OneBusy
  <1>4. ASSUME NEW r \in Run, Release(r) PROVE AloneInv'
    <2>1. /\ \A k \in Run : pc'[k] = IF k = r THEN "done" ELSE pc[k]
          /\ pc[r] = "releasing" /\ UNCHANGED envOf
          /\ \A d \in Env : d # envOf[r] => lock'[d] = lock[d]
      BY <1>4 DEF Release, Goto, TypeOK
    <2>2. Pending' = Pending \ {r} /\ Busy' = Busy \ {r} /\ r \in Pending
      BY <2>1 DEF Pending, Busy, Working
    <2>3. \A k \in Pending : envOf[k] \in Env
      BY DEF Pending, Working, TypeOK
    <2> QED BY <2>1, <2>2, <2>3 DEF AloneInv, LockHeld, OneBusy
  <1>5. ASSUME NEW r \in Run,
               \/ BeginExecution(r) \/ BeginRaises(r) \/ LoadEnvironment(r) \/ Judge(r)
               \/ Commit(r) \/ Raise(r) \/ JudgeFailure(r) \/ RecordFailure(r)
               \/ HandlerEnds(r) \/ WorkHorseDies(r)
        PROVE AloneInv'
    <2>1. /\ UNCHANGED <<lock, envOf>> /\ pc[r] \in Working
          /\ \E to \in Working \cup {"done"} : pc' = [pc EXCEPT ![r] = to]
      BY <1>5 DEF BeginExecution, BeginRaises, LoadEnvironment, Judge, Commit, Raise,
                  JudgeFailure, RecordFailure, HandlerEnds, WorkHorseDies, Goto, Working
    <2> QED BY <2>1, AloneKept DEF TypeOK, Working
  <1>6. ASSUME UNCHANGED <<lock, envOf, pc>> PROVE AloneInv'
    BY <1>6, AloneKept
  <1>7. ASSUME NEW e \in Env, DeleteEnvironment(e) PROVE AloneInv'
    BY <1>6, <1>7 DEF DeleteEnvironment
  <1>8. ASSUME NEW r \in Run, AcknowledgeAlert(r) PROVE AloneInv'
    BY <1>6, <1>8 DEF AcknowledgeAlert
  <1>9. CASE UNCHANGED vars
    BY <1>6, <1>9 DEF vars
  <1> QED
    BY <1>1, <1>2, <1>3, <1>4, <1>5, <1>7, <1>8, <1>9 DEF Next

LEMMA AloneInvariant == Spec => [](TypeOK /\ AloneInv)
  <1>1. Init => AloneInv
    BY DEF Init, AloneInv, LockHeld, OneBusy, Pending, Busy, Working
  <1> QED BY <1>1, TypeInit, TypeNext, AloneNext, PTL DEF Spec

-----------------------------------------------------------------------------
(* The alert table follows the status.  A run decides on the row it loaded,   *)
(* so the decision that is still uncommitted must fit the row of now.         *)

SignalInv ==
  /\ AtMostOneOpenAlert
  /\ OpenOnlyWhileCritical
  /\ HistoryAgrees
  /\ ErrorMeansCritical

PlanFits(r) ==
  LET e == envOf[r] IN
  /\ plan[r].raise => /\ plan[r].status = "critical"
                      /\ OpenAlerts(e) = {} /\ status[e] # "critical"
  /\ plan[r].status = "critical" => plan[r].clear = {} /\ (plan[r].raise \/ status[e] = "critical")
  /\ plan[r].status # "critical" => OpenAlerts(e) \subseteq plan[r].clear
  /\ \A k \in plan[r].clear : envOf[k] = e /\ alert[k] # "none"

RunInv ==
  /\ DecidesOnCurrentRow
  /\ \A r \in Run : pc[r] \in {"judged", "lost"} /\ exists[envOf[r]] => PlanFits(r)
  /\ \A r \in Run : pc[r] = "lost" => plan[r].status = "critical"
  /\ \A r \in Run : pc[r] = "idle" => alert[r] = "none"

\* Rows and runs of the environments a step leaves alone.
LEMMA OpenSame ==
  ASSUME UNCHANGED <<alert, envOf>>, NEW e \in Env
  PROVE  OpenAlerts(e)' = OpenAlerts(e)
  BY DEF OpenAlerts

\* A step that writes no row and leaves what every deciding run knows.
LEMMA RowsKept ==
  ASSUME TypeOK, SignalInv, RunInv, UNCHANGED <<rows, envOf, seen, plan>>,
         \A k \in Run : /\ pc'[k] \in {"collecting", "judged", "lost"} => pc'[k] = pc[k]
                        /\ pc'[k] = "idle" => pc[k] = "idle"
  PROVE  SignalInv' /\ RunInv'
  <1>1. SignalInv'
    BY DEF SignalInv, AtMostOneOpenAlert, OpenOnlyWhileCritical, HistoryAgrees,
           ErrorMeansCritical, OpenAlerts, rows
  <1>2. \A r \in Run : PlanFits(r)' = PlanFits(r)
    BY DEF PlanFits, OpenAlerts, rows
  <1>3. RunInv'
    BY <1>2 DEF RunInv, DecidesOnCurrentRow, rows
  <1> QED BY <1>1, <1>3

\* What committing a decision does to the open alerts.
LEMMA CommitAlerts ==
  ASSUME TypeOK, SignalInv, NEW r \in Run, envOf[r] \in Env, PlanFits(r),
         alert' = Alerts(r), UNCHANGED envOf
  PROVE  /\ OpenAlerts(envOf[r])' =
              IF plan[r].status # "critical" THEN {}
              ELSE IF plan[r].raise THEN {r} ELSE OpenAlerts(envOf[r])
         /\ \A d \in Env : d # envOf[r] => OpenAlerts(d)' = OpenAlerts(d)
  <1> DEFINE e == envOf[r]
  <1>1. \A k \in Run : (alert'[k] = "open") <=>
          \/ k = r /\ plan[r].raise
          \/ k \notin plan[r].clear /\ alert[k] = "open"
    BY DEF Alerts
  <1>2. CASE plan[r].status # "critical"
    <2>1. ~plan[r].raise /\ OpenAlerts(e) \subseteq plan[r].clear
      BY <1>2 DEF PlanFits
    <2> QED BY <1>1, <1>2, <2>1 DEF OpenAlerts, PlanFits
  <1>3. CASE plan[r].status = "critical"
    <2>1. plan[r].clear = {} /\ (plan[r].raise => OpenAlerts(e) = {})
      BY <1>3 DEF PlanFits
    <2> QED BY <1>1, <1>3, <2>1 DEF OpenAlerts
  <1> QED BY <1>2, <1>3

\* A commit of run r: the row, the sample and the alerts of its environment
\* end up saying the same, and no other run of that environment is deciding.
LEMMA CommitStep ==
  ASSUME TypeOK, SignalInv, RunInv, Alone, NEW r \in Run,
         pc[r] \in {"judged", "lost"}, exists[envOf[r]],
         pc' = [pc EXCEPT ![r] = "releasing"],
         status' = [status EXCEPT ![envOf[r]] = plan[r].status],
         NEW text \in BOOLEAN, text => plan[r].status = "critical",
         error' = [error EXCEPT ![envOf[r]] = text],
         sample' = [sample EXCEPT ![envOf[r]] = plan[r].status],
         alert' = Alerts(r),
         UNCHANGED <<exists, envOf, seen, plan>>
  PROVE  SignalInv' /\ RunInv'
  <1> DEFINE e == envOf[r]
  <1>0. e \in Env /\ PlanFits(r) /\ r \in Busy
    BY DEF TypeOK, RunInv, Busy, Working
  <1>1. /\ OpenAlerts(e)' = IF plan[r].status # "critical" THEN {}
                            ELSE IF plan[r].raise THEN {r} ELSE OpenAlerts(e)
        /\ \A d \in Env : d # e => OpenAlerts(d)' = OpenAlerts(d)
    BY <1>0, CommitAlerts
  <1>2. /\ status'[e] = plan[r].status /\ sample'[e] = plan[r].status /\ error'[e] = text
        /\ \A d \in Env : d # e => /\ status'[d] = status[d]
                                   /\ sample'[d] = sample[d] /\ error'[d] = error[d]
    BY <1>0 DEF TypeOK
  <1>3. SignalInv'
    <2>1. AtMostOneOpenAlert'
      <3> SUFFICES ASSUME NEW d \in Env, NEW a \in OpenAlerts(d)', NEW b \in OpenAlerts(d)'
                   PROVE  a = b
        BY DEF AtMostOneOpenAlert
      <3>1. \A x, y \in OpenAlerts(d) : x = y
        BY DEF SignalInv, AtMostOneOpenAlert
      <3> QED BY <1>1, <3>1
    <2>2. OpenOnlyWhileCritical'
      <3> SUFFICES ASSUME NEW d \in Env, OpenAlerts(d)' # {} PROVE status'[d] = "critical"
        BY DEF OpenOnlyWhileCritical
      <3> QED BY <1>1, <1>2 DEF SignalInv, OpenOnlyWhileCritical
    <2>3. HistoryAgrees'
      BY <1>2 DEF SignalInv, HistoryAgrees
    <2>4. ErrorMeansCritical'
      BY <1>2 DEF SignalInv, ErrorMeansCritical
    <2> QED BY <2>1, <2>2, <2>3, <2>4 DEF SignalInv
  <1>4. ASSUME NEW k \in Run, pc'[k] \in {"collecting", "judged", "lost"}
        PROVE  pc'[k] = pc[k] /\ envOf[k] \in Env /\ envOf[k] # e
    <2>1. k # r /\ pc'[k] = pc[k] /\ k \in Busy
      BY <1>4 DEF TypeOK, Busy, Working
    <2> QED BY <1>0, <2>1 DEF Alone, TypeOK, Busy, Working
  <1>5. DecidesOnCurrentRow'
    BY <1>2, <1>4 DEF RunInv, DecidesOnCurrentRow
  <1>6. ASSUME NEW k \in Run, pc'[k] \in {"judged", "lost"}, exists'[envOf'[k]]
        PROVE  PlanFits(k)'
    <2>1. pc[k] \in {"judged", "lost"} /\ envOf[k] \in Env /\ envOf[k] # e
      BY <1>4, <1>6
    <2>2. PlanFits(k)
      BY <1>6, <2>1 DEF RunInv
    <2>3. OpenAlerts(envOf[k])' = OpenAlerts(envOf[k]) /\ status'[envOf[k]] = status[envOf[k]]
      BY <1>1, <1>2, <2>1
    <2>4. \A c \in Run : alert[c] # "none" => alert'[c] # "none"
      BY DEF Alerts
    <2> QED BY <2>2, <2>3, <2>4 DEF PlanFits, OpenAlerts, TypeOK
  <1>7. \A k \in Run : pc'[k] = "lost" => plan'[k].status = "critical"
    BY <1>4 DEF RunInv
  <1>8. \A k \in Run : pc'[k] = "idle" => alert'[k] = "none"
    <2> SUFFICES ASSUME NEW k \in Run, pc'[k] = "idle" PROVE alert'[k] = "none"
      OBVIOUS
    <2>1. k # r /\ pc[k] = "idle"
      BY DEF TypeOK
    <2>2. alert[k] = "none" /\ k \notin plan[r].clear
      BY <1>0, <2>1 DEF RunInv, PlanFits
    <2> QED BY <2>1, <2>2 DEF Alerts
  <1> QED BY <1>3, <1>5, <1>6, <1>7, <1>8 DEF RunInv

\* A session that loaded the current value leaves the new one behind.
LEMMA WrittenWhenCurrent ==
  ASSUME NEW new, NEW loaded, NEW current, loaded = current
  PROVE  Written(new, loaded, current) = new
  BY DEF Written

\* A decision of record_fleet_signal fits the row it was taken on.
LEMMA DecisionFits ==
  ASSUME TypeOK, SignalInv, NEW r \in Run, NEW e \in Env, e = envOf[r], NEW new \in Status,
         NEW d \in Decisions(e, status[e], new), plan' = [plan EXCEPT ![r] = d],
         UNCHANGED <<rows, envOf>>
  PROVE  PlanFits(r)' /\ plan'[r].status = new
  <1>1. plan'[r] = d /\ OpenAlerts(e)' = OpenAlerts(e)
    BY DEF TypeOK, OpenAlerts, rows
  <1>2. \A k \in OpenAlerts(e) : envOf[k] = e /\ alert[k] # "none"
    BY DEF OpenAlerts
  <1>3. \A a, b \in OpenAlerts(e) : a = b
    BY DEF SignalInv, AtMostOneOpenAlert
  <1>4. OpenAlerts(e) # {} => status[e] = "critical"
    BY DEF SignalInv, OpenOnlyWhileCritical
  <1>5. OpenAlerts(envOf[r])' = OpenAlerts(e)
    BY <1>1
  <1>6. d.clear \subseteq OpenAlerts(e)
    BY DecisionFacts
  <1>7. new # "critical" => OpenAlerts(e) \subseteq d.clear
    BY <1>3, DecisionFacts
  <1>8. new = "critical" => d.clear = {} /\ (d.raise \/ status[e] = "critical")
    BY <1>4, DecisionFacts
  <1>9. d.status = new /\ (d.raise => /\ new = "critical"
                                      /\ OpenAlerts(e) = {} /\ status[e] # "critical")
    BY DecisionFacts
  <1> QED BY <1>1, <1>2, <1>5, <1>6, <1>7, <1>8, <1>9 DEF PlanFits, rows

\* What the commit of a success writes, when nothing was stale.
LEMMA CommitWrites ==
  ASSUME TypeOK, RunInv, NEW r \in Run, Commit(r)
  PROVE  /\ pc[r] = "judged" /\ exists[envOf[r]]
         /\ envOf[r] \in Env /\ PlanFits(r)
         /\ pc' = [pc EXCEPT ![r] = "releasing"]
         /\ status' = [status EXCEPT ![envOf[r]] = plan[r].status]
         /\ error' = [error EXCEPT ![envOf[r]] = FALSE]
         /\ sample' = [sample EXCEPT ![envOf[r]] = plan[r].status]
         /\ alert' = Alerts(r) /\ UNCHANGED <<exists, envOf, seen, plan>>
  <1>1. /\ pc[r] = "judged" /\ exists[envOf[r]]
        /\ pc' = [pc EXCEPT ![r] = "releasing"]
        /\ alert' = Alerts(r) /\ UNCHANGED <<exists, envOf, seen, plan>>
        /\ sample' = [sample EXCEPT ![envOf[r]] = plan[r].status]
    BY DEF Commit, Goto
  <1>2. seen[r].status = status[envOf[r]] /\ seen[r].error = error[envOf[r]]
    <2>1. seen[r] = [status |-> status[envOf[r]], error |-> error[envOf[r]]]
      BY <1>1 DEF RunInv, DecidesOnCurrentRow
    <2> QED BY <2>1
  <1>3. envOf[r] \in Env /\ PlanFits(r)
    BY <1>1 DEF TypeOK, RunInv
  <1>4. status' = [status EXCEPT ![envOf[r]] = plan[r].status]
    BY ZenonT(40), <1>2, WrittenWhenCurrent DEF Commit
  <1>5. error' = [error EXCEPT ![envOf[r]] = FALSE]
    <2>1. Written(FALSE, seen[r].error, error[envOf[r]]) = FALSE
      BY <1>2, WrittenWhenCurrent
    <2>2. error' = [error EXCEPT ![envOf[r]] =
                      Written(FALSE, seen[r].error, error[envOf[r]])]
      BY DEF Commit
    <2> QED BY <2>1, <2>2
  <1> QED BY <1>1, <1>3, <1>4, <1>5

\* ... and the commit of a failure.
LEMMA FailureWrites ==
  ASSUME TypeOK, RunInv, NEW r \in Run, RecordFailure(r)
  PROVE  /\ pc[r] = "lost" /\ exists[envOf[r]]
         /\ envOf[r] \in Env /\ PlanFits(r) /\ plan[r].status = "critical"
         /\ pc' = [pc EXCEPT ![r] = "releasing"]
         /\ status' = [status EXCEPT ![envOf[r]] = plan[r].status]
         /\ \E text \in BOOLEAN : error' = [error EXCEPT ![envOf[r]] = text]
         /\ sample' = [sample EXCEPT ![envOf[r]] = plan[r].status]
         /\ alert' = Alerts(r) /\ UNCHANGED <<exists, envOf, seen, plan>>
  <1>1. /\ pc[r] = "lost" /\ exists[envOf[r]]
        /\ pc' = [pc EXCEPT ![r] = "releasing"]
        /\ alert' = Alerts(r) /\ UNCHANGED <<exists, envOf, seen, plan>>
        /\ sample' = [sample EXCEPT ![envOf[r]] = "critical"]
    BY DEF RecordFailure, Goto
  <1>2. seen[r].status = status[envOf[r]]
    <2>1. seen[r] = [status |-> status[envOf[r]], error |-> error[envOf[r]]]
      BY <1>1 DEF RunInv, DecidesOnCurrentRow
    <2> QED BY <2>1
  <1>3. envOf[r] \in Env /\ PlanFits(r) /\ plan[r].status = "critical"
    BY <1>1 DEF TypeOK, RunInv
  <1>4. status' = [status EXCEPT ![envOf[r]] = plan[r].status]
    <2>1. status' = [status EXCEPT ![envOf[r]] =
                       Written("critical", seen[r].status, status[envOf[r]])]
      BY DEF RecordFailure
    <2>2. Written("critical", seen[r].status, status[envOf[r]]) = "critical"
      BY <1>2, WrittenWhenCurrent
    <2> QED BY <1>3, <2>1, <2>2
  <1>5. \E text \in BOOLEAN : error' = [error EXCEPT ![envOf[r]] = text]
    BY <1>3 DEF RecordFailure, TypeOK
  <1> QED BY <1>1, <1>3, <1>4, <1>5

\* A step of run r that writes no row: the other runs keep what they know.
LEMMA RunStep ==
  ASSUME TypeOK, SignalInv, RunInv, NEW r \in Run, UNCHANGED <<rows, envOf>>,
         pc[r] # "idle", pc'[r] # "idle",
         \A k \in Run : k # r => UNCHANGED <<pc[k], seen[k], plan[k]>>,
         exists[envOf[r]], pc'[r] \in {"collecting", "judged", "lost"},
         seen'[r] = [status |-> status[envOf[r]], error |-> error[envOf[r]]],
         pc'[r] \in {"judged", "lost"} => PlanFits(r)',
         pc'[r] = "lost" => plan'[r].status = "critical"
  PROVE  SignalInv' /\ RunInv'
  <1>1. SignalInv'
    BY DEF SignalInv, AtMostOneOpenAlert, OpenOnlyWhileCritical, HistoryAgrees,
           ErrorMeansCritical, OpenAlerts, rows
  <1>2. \A k \in Run : k # r => PlanFits(k)' = PlanFits(k)
    BY DEF PlanFits, OpenAlerts, rows
  <1>3. RunInv'
    BY <1>2 DEF RunInv, DecidesOnCurrentRow, rows
  <1> QED BY <1>1, <1>3

LEMMA SignalNext ==
  TypeOK /\ Alone /\ SignalInv /\ RunInv /\ [Next]_vars => SignalInv' /\ RunInv'
  <1> SUFFICES ASSUME TypeOK, Alone, SignalInv, RunInv, [Next]_vars
               PROVE  SignalInv' /\ RunInv'
    OBVIOUS
  <1> USE PipelineAssumption
  <1>1. ASSUME NEW e \in Env, NEW r \in Run, RequestSync(e, r) PROVE SignalInv' /\ RunInv'
    <2>1. /\ UNCHANGED <<rows, seen, plan>> /\ pc[r] = "idle" /\ alert[r] = "none"
          /\ \A k \in Run : pc'[k] = IF k = r THEN "queued" ELSE pc[k]
          /\ \A k \in Run : k # r => envOf'[k] = envOf[k]
      BY <1>1 DEF RequestSync, Goto, TypeOK, RunInv
    <2>2. \A d \in Env : OpenAlerts(d)' = OpenAlerts(d)
      BY <2>1 DEF OpenAlerts, rows
    <2>3. SignalInv'
      BY <2>1, <2>2 DEF SignalInv, AtMostOneOpenAlert, OpenOnlyWhileCritical,
                        HistoryAgrees, ErrorMeansCritical, rows
    <2>4. ASSUME NEW k \in Run, pc'[k] \in {"judged", "lost"}, exists'[envOf'[k]]
          PROVE  PlanFits(k)'
      <3>1. k # r /\ pc[k] \in {"judged", "lost"} /\ envOf'[k] = envOf[k] /\ envOf[k] \in Env
        BY <2>1, <2>4 DEF TypeOK
      <3>2. PlanFits(k) /\ r \notin plan[k].clear
        BY <2>1, <2>4, <3>1 DEF RunInv, PlanFits, rows
      <3>3. OpenAlerts(envOf[k])' = OpenAlerts(envOf[k])
        BY <2>1, <3>1 DEF OpenAlerts, rows
      <3> QED BY <2>1, <3>1, <3>2, <3>3 DEF PlanFits, rows, OpenAlerts, TypeOK
    <2>5. RunInv'
      BY <2>1, <2>4 DEF RunInv, DecidesOnCurrentRow, rows
    <2> QED BY <2>3, <2>5
  <1>2. ASSUME NEW r \in Run,
               \/ Dequeue(r) \/ BeginRaises(r) \/ Raise(r) \/ HandlerEnds(r)
               \/ WorkHorseDies(r) \/ Release(r)
        PROVE SignalInv' /\ RunInv'
    <2>1. /\ UNCHANGED <<rows, envOf, seen, plan>>
          /\ \E to \in {"started", "failing", "releasing", "done"} :
               pc' = [pc EXCEPT ![r] = to]
      BY <1>2 DEF Dequeue, BeginRaises, Raise, HandlerEnds, WorkHorseDies, Release, Goto
    <2>2. \A k \in Run : /\ pc'[k] \in {"collecting", "judged", "lost"} => pc'[k] = pc[k]
                         /\ pc'[k] = "idle" => pc[k] = "idle"
      BY <2>1 DEF TypeOK
    <2> QED BY <2>1, <2>2, RowsKept
  <1>3. ASSUME NEW e \in Env, LockExpires(e) PROVE SignalInv' /\ RunInv'
    BY <1>3, RowsKept DEF LockExpires
  <1>4. ASSUME NEW r \in Run, BeginExecution(r) PROVE SignalInv' /\ RunInv'
    <2>1. /\ UNCHANGED <<exists, status, error, sample, alert, envOf, seen, plan>>
          /\ pc' = [pc EXCEPT ![r] = "running"]
      BY <1>4 DEF BeginExecution, Goto
    <2>2. SignalInv'
      BY <2>1 DEF SignalInv, AtMostOneOpenAlert, OpenOnlyWhileCritical, HistoryAgrees,
                  ErrorMeansCritical, OpenAlerts
    <2>3. \A k \in Run : PlanFits(k)' = PlanFits(k)
      BY <2>1 DEF PlanFits, OpenAlerts
    <2>4. \A k \in Run : k # r => pc'[k] = pc[k]
      BY <2>1 DEF TypeOK
    <2>5. pc'[r] = "running"
      BY <2>1 DEF TypeOK
    <2>6. RunInv'
      BY <2>1, <2>3, <2>4, <2>5 DEF RunInv, DecidesOnCurrentRow
    <2> QED BY <2>2, <2>6
  <1>5. ASSUME NEW r \in Run, LoadEnvironment(r) PROVE SignalInv' /\ RunInv'
    <2>1. /\ UNCHANGED <<rows, envOf, plan>> /\ pc[r] = "running" /\ exists[envOf[r]]
          /\ pc'[r] = "collecting"
          /\ seen'[r] = [status |-> status[envOf[r]], error |-> error[envOf[r]]]
          /\ \A k \in Run : k # r => UNCHANGED <<pc[k], seen[k], plan[k]>>
      BY <1>5 DEF LoadEnvironment, Goto, TypeOK
    <2> QED BY <2>1, RunStep
  <1>6. ASSUME NEW r \in Run, Judge(r), exists[envOf[r]] PROVE SignalInv' /\ RunInv'
    <2>1. PICK s \in Outcome : \E d \in Decisions(envOf[r], seen[r].status, s) :
                                 plan' = [plan EXCEPT ![r] = d]
      BY <1>6 DEF Judge
    <2>2. /\ pc[r] = "collecting" /\ pc'[r] = "judged" /\ envOf[r] \in Env
          /\ UNCHANGED <<rows, envOf, seen>>
          /\ \A k \in Run : k # r => UNCHANGED <<pc[k], seen[k], plan[k]>>
      BY <1>6 DEF Judge, Goto, TypeOK
    <2>3. seen[r] = [status |-> status[envOf[r]], error |-> error[envOf[r]]]
      BY <1>6, <2>2 DEF RunInv, DecidesOnCurrentRow
    <2>4. PICK d \in Decisions(envOf[r], status[envOf[r]], s) : plan' = [plan EXCEPT ![r] = d]
      <3>1. seen[r].status = status[envOf[r]]
        BY <2>3
      <3> QED BY <2>1, <3>1
    <2>5. s \in Status
      OBVIOUS
    <2>6. PlanFits(r)'
      BY <2>2, <2>4, <2>5, DecisionFits
    <2> QED BY <1>6, <2>2, <2>3, <2>6, RunStep
  <1>7. ASSUME NEW r \in Run, Judge(r), ~exists[envOf[r]] PROVE SignalInv' /\ RunInv'
    <2>1. /\ pc[r] = "collecting" /\ pc'[r] = "judged"
          /\ UNCHANGED <<rows, envOf, seen>>
          /\ \A k \in Run : k # r => UNCHANGED <<pc[k], seen[k], plan[k]>>
      BY <1>7 DEF Judge, Goto, TypeOK
    <2>2. SignalInv'
      BY <2>1 DEF SignalInv, AtMostOneOpenAlert, OpenOnlyWhileCritical, HistoryAgrees,
                  ErrorMeansCritical, OpenAlerts, rows
    <2>3. \A k \in Run : k # r => PlanFits(k)' = PlanFits(k)
      BY <2>1 DEF PlanFits, OpenAlerts, rows
    <2>4. RunInv'
      BY <1>7, <2>1, <2>3 DEF RunInv, DecidesOnCurrentRow, rows
    <2> QED BY <2>2, <2>4
  <1>8. ASSUME NEW r \in Run, Commit(r) PROVE SignalInv' /\ RunInv'
    BY <1>8, CommitWrites, CommitStep
  <1>9. ASSUME NEW r \in Run, JudgeFailure(r) PROVE SignalInv' /\ RunInv'
    <2>1. PICK d \in Decisions(envOf[r], status[envOf[r]], "critical") :
             plan' = [plan EXCEPT ![r] = d]
      BY <1>9 DEF JudgeFailure
    <2>2. /\ pc[r] = "failing" /\ pc'[r] = "lost" /\ envOf[r] \in Env /\ exists[envOf[r]]
          /\ UNCHANGED <<rows, envOf>>
          /\ seen'[r] = [status |-> status[envOf[r]], error |-> error[envOf[r]]]
          /\ \A k \in Run : k # r => UNCHANGED <<pc[k], seen[k], plan[k]>>
      BY <1>9 DEF JudgeFailure, Goto, TypeOK
    <2>3. PlanFits(r)' /\ plan'[r].status = "critical"
      BY <2>1, <2>2, DecisionFits DEF Status
    <2> QED BY <2>2, <2>3, RunStep
  <1>10. ASSUME NEW r \in Run, RecordFailure(r) PROVE SignalInv' /\ RunInv'
    <2>1. PICK text \in BOOLEAN : error' = [error EXCEPT ![envOf[r]] = text]
      BY <1>10, FailureWrites
    <2> QED BY <1>10, <2>1, FailureWrites, CommitStep
  <1>11. ASSUME NEW a \in Run, AcknowledgeAlert(a) PROVE SignalInv' /\ RunInv'
    <2>1. /\ UNCHANGED <<exists, status, error, sample, pc, envOf, seen, plan>>
          /\ \A k \in Run : alert'[k] = "open" => alert[k] = "open"
          /\ \A k \in Run : alert'[k] = "none" <=> alert[k] = "none"
      BY <1>11 DEF AcknowledgeAlert, TypeOK, AlertState
    <2>2. \A e \in Env \cup {NoEnv} : OpenAlerts(e)' \subseteq OpenAlerts(e)
      BY <2>1 DEF OpenAlerts
    <2>3. SignalInv'
      BY <2>1, <2>2 DEF SignalInv, AtMostOneOpenAlert, OpenOnlyWhileCritical,
                        HistoryAgrees, ErrorMeansCritical
    <2>4. ASSUME NEW k \in Run, PlanFits(k) PROVE PlanFits(k)'
      <3>1. OpenAlerts(envOf[k])' \subseteq OpenAlerts(envOf[k])
        BY <2>1 DEF OpenAlerts
      <3> QED BY <2>1, <2>4, <3>1 DEF PlanFits, TypeOK
    <2>5. RunInv'
      BY <2>1, <2>4 DEF RunInv, DecidesOnCurrentRow
    <2> QED BY <2>3, <2>5
  <1>12. ASSUME NEW e \in Env, DeleteEnvironment(e) PROVE SignalInv' /\ RunInv'
    <2>1. /\ UNCHANGED <<pc, envOf, seen, plan>>
          /\ ~exists'[e] /\ status'[e] = "unknown" /\ ~error'[e] /\ sample'[e] = "none"
          /\ \A d \in Env : d # e => /\ exists'[d] = exists[d] /\ status'[d] = status[d]
                                     /\ error'[d] = error[d] /\ sample'[d] = sample[d]
          /\ \A k \in Run : alert'[k] = IF envOf[k] = e THEN "none" ELSE alert[k]
      BY <1>12 DEF DeleteEnvironment, TypeOK
    <2>2. OpenAlerts(e)' = {} /\ \A d \in Env : d # e => OpenAlerts(d)' = OpenAlerts(d)
      BY <2>1 DEF OpenAlerts
    <2>3. SignalInv'
      BY <2>1, <2>2 DEF SignalInv, AtMostOneOpenAlert, OpenOnlyWhileCritical,
                        HistoryAgrees, ErrorMeansCritical
    <2>4. ASSUME NEW k \in Run, pc'[k] \in {"judged", "lost"}, exists'[envOf'[k]]
          PROVE  PlanFits(k)'
      <3>1. envOf[k] \in Env /\ envOf[k] # e /\ PlanFits(k)
        BY <2>1, <2>4 DEF TypeOK, RunInv
      <3>2. OpenAlerts(envOf[k])' = OpenAlerts(envOf[k])
        BY <2>1, <3>1 DEF OpenAlerts
      <3> QED BY <2>1, <3>1, <3>2 DEF PlanFits, TypeOK
    <2>5. DecidesOnCurrentRow'
      <3> SUFFICES ASSUME NEW k \in Run, pc'[k] \in {"collecting", "judged", "lost"},
                          exists'[envOf'[k]]
                   PROVE  seen'[k] = [status |-> status'[envOf'[k]],
                                      error |-> error'[envOf'[k]]]
        BY DEF DecidesOnCurrentRow
      <3>1. envOf[k] \in Env /\ envOf[k] # e
        BY <2>1 DEF TypeOK
      <3> QED BY <2>1, <3>1 DEF RunInv, DecidesOnCurrentRow
    <2>6. RunInv'
      BY <2>1, <2>4, <2>5 DEF RunInv
    <2> QED BY <2>3, <2>6
  <1>13. CASE UNCHANGED vars
    BY <1>13, RowsKept DEF vars, rows
  <1> QED
    BY <1>1, <1>2, <1>3, <1>4, <1>5, <1>6, <1>7, <1>8, <1>9, <1>10, <1>11, <1>12,
       <1>13 DEF Next

LEMMA SignalInit == Init => SignalInv /\ RunInv
  BY DEF Init, SignalInv, RunInv, AtMostOneOpenAlert, OpenOnlyWhileCritical, HistoryAgrees,
         ErrorMeansCritical, DecidesOnCurrentRow, OpenAlerts

LEMMA SignalInvariant ==
  Serial => (Spec => [](TypeOK /\ Alone /\ SignalInv /\ RunInv))
  <1> SUFFICES ASSUME Serial PROVE Spec => [](TypeOK /\ Alone /\ SignalInv /\ RunInv)
    OBVIOUS
  <1>1. AloneInv => Alone
    BY AloneFromInv
  <1> QED BY <1>1, AloneInvariant, SignalInit, SignalNext, PTL DEF Spec

\* Syncs of an environment that run one after the other (one worker, or keys
\* that outlive their jobs) leave it at most one open alert.
THEOREM OneOpenAlert == Serial => (Spec => []AtMostOneOpenAlert)
  <1>1. SignalInv => AtMostOneOpenAlert
    BY DEF SignalInv
  <1> QED BY <1>1, SignalInvariant, PTL

\* ... and none that is open once the environment is no longer critical.
THEOREM AlertsFollowStatus == Serial => (Spec => []OpenOnlyWhileCritical)
  <1>1. SignalInv => OpenOnlyWhileCritical
    BY DEF SignalInv
  <1> QED BY <1>1, SignalInvariant, PTL

\* The last health sample and the status never disagree, although the sample
\* is always inserted and the status only when it differs from what was loaded.
THEOREM HistoryFollowsStatus == Serial => (Spec => []HistoryAgrees)
  <1>1. SignalInv => HistoryAgrees
    BY DEF SignalInv
  <1> QED BY <1>1, SignalInvariant, PTL

\* A recorded sync error goes with the critical status it was written with.
THEOREM ErrorsFollowStatus == Serial => (Spec => []ErrorMeansCritical)
  <1>1. SignalInv => ErrorMeansCritical
    BY DEF SignalInv
  <1> QED BY <1>1, SignalInvariant, PTL

\* The row a run loaded before its collection is the row it commits on.
THEOREM NothingStale == Serial => (Spec => []DecidesOnCurrentRow)
  <1>1. RunInv => DecidesOnCurrentRow
    BY DEF RunInv
  <1> QED BY <1>1, SignalInvariant, PTL

-----------------------------------------------------------------------------
(* One outage, one alert.                                                     *)

view == [e \in Env |-> AlertView(e)]

\* A step that changes what the alert list shows of one environment at most.
LEMMA ViewStep ==
  ASSUME NEW e \in Env,
         \A d \in Env : d # e => AlertView(d)' = AlertView(d),
         \/ AlertView(e)' = AlertView(e)
         \/ AlertView(e)' = "quiet"
         \/ AlertView(e) = "quiet" /\ AlertView(e)' = "open"
         \/ AlertView(e) = "open" /\ AlertView(e)' = "dismissed"
  PROVE  [Promise!Next]_view
  <1>1. AlertView(e) \in {"quiet", "open", "dismissed"}
    BY DEF AlertView
  <1>2. view \in [Env -> {"quiet", "open", "dismissed"}]
    BY DEF view, AlertView
  <1>3. view' = [view EXCEPT ![e] = AlertView(e)']
    BY DEF view
  <1>4. view[e] = AlertView(e)
    BY DEF view
  <1>5. CASE AlertView(e)' = AlertView(e)
    BY <1>5 DEF view
  <1>6. CASE AlertView(e)' = "quiet" /\ AlertView(e) # "quiet"
    BY <1>3, <1>4, <1>6 DEF Promise!Next, Promise!Recover, view
  <1>7. CASE AlertView(e) = "quiet" /\ AlertView(e)' = "open"
    BY <1>3, <1>4, <1>7 DEF Promise!Next, Promise!Break, view
  <1>8. CASE AlertView(e) = "open" /\ AlertView(e)' = "dismissed"
    BY <1>3, <1>4, <1>8 DEF Promise!Next, Promise!Dismiss, view
  <1> QED BY <1>5, <1>6, <1>7, <1>8

\* A committed decision opens an alert for a new outage only, and for each.
LEMMA CommitView ==
  ASSUME TypeOK, SignalInv, NEW r \in Run, envOf[r] \in Env, PlanFits(r),
         status' = [status EXCEPT ![envOf[r]] = plan[r].status],
         alert' = Alerts(r), UNCHANGED envOf
  PROVE  [Promise!Next]_view
  <1> DEFINE e == envOf[r]
  <1>1. /\ OpenAlerts(e)' = IF plan[r].status # "critical" THEN {}
                            ELSE IF plan[r].raise THEN {r} ELSE OpenAlerts(e)
        /\ \A d \in Env : d # e => OpenAlerts(d)' = OpenAlerts(d)
    BY CommitAlerts
  <1>2. status'[e] = plan[r].status /\ \A d \in Env : d # e => status'[d] = status[d]
    BY DEF TypeOK
  <1>3. \A d \in Env : d # e => AlertView(d)' = AlertView(d)
    BY <1>1, <1>2 DEF AlertView
  <1>4. CASE plan[r].status # "critical"
    <2>1. AlertView(e)' = "quiet"
      BY <1>1, <1>2, <1>4 DEF AlertView
    <2> QED BY <1>3, <2>1, ViewStep
  <1>5. CASE plan[r].status = "critical" /\ plan[r].raise
    <2>1. AlertView(e) = "quiet" /\ AlertView(e)' = "open"
      BY <1>1, <1>2, <1>5 DEF AlertView, PlanFits
    <2> QED BY <1>3, <2>1, ViewStep
  <1>6. CASE plan[r].status = "critical" /\ ~plan[r].raise
    <2>1. AlertView(e)' = AlertView(e)
      BY <1>1, <1>2, <1>6 DEF AlertView, PlanFits
    <2> QED BY <1>3, <2>1, ViewStep
  <1> QED BY <1>4, <1>5, <1>6

LEMMA ViewNext ==
  TypeOK /\ SignalInv /\ RunInv /\ [Next]_vars => [Promise!Next]_view
  <1> SUFFICES ASSUME TypeOK, SignalInv, RunInv, [Next]_vars PROVE [Promise!Next]_view
    OBVIOUS
  <1>1. ASSUME UNCHANGED <<status, alert>>,
               \A k \in Run : alert[k] = "open" => envOf'[k] = envOf[k],
               \A k \in Run : envOf'[k] # envOf[k] => alert[k] = "none"
        PROVE  [Promise!Next]_view
    <2>1. \A d \in Env : OpenAlerts(d)' = OpenAlerts(d)
      BY <1>1 DEF OpenAlerts
    <2>2. view' = view
      BY <1>1, <2>1 DEF view, AlertView
    <2> QED BY <2>2
  <1>2. ASSUME NEW e \in Env, NEW r \in Run, RequestSync(e, r) PROVE [Promise!Next]_view
    <2>1. alert[r] = "none" /\ \A k \in Run : k # r => envOf'[k] = envOf[k]
      BY <1>2 DEF RequestSync, Goto, TypeOK, RunInv
    <2> QED BY <1>1, <1>2, <2>1 DEF RequestSync, rows
  <1>3. ASSUME NEW e \in Env, LockExpires(e) PROVE [Promise!Next]_view
    BY <1>1, <1>3 DEF LockExpires, rows
  <1>4. ASSUME NEW r \in Run,
               \/ Dequeue(r) \/ BeginExecution(r) \/ BeginRaises(r) \/ LoadEnvironment(r)
               \/ Judge(r) \/ Raise(r) \/ JudgeFailure(r) \/ HandlerEnds(r)
               \/ Release(r) \/ WorkHorseDies(r)
        PROVE [Promise!Next]_view
    <2>1. UNCHANGED <<status, alert, envOf>>
      BY <1>4 DEF Dequeue, BeginExecution, BeginRaises, LoadEnvironment, Judge, Raise,
                  JudgeFailure, HandlerEnds, Release, WorkHorseDies, rows
    <2> QED BY <1>1, <2>1
  <1>5. ASSUME NEW r \in Run, Commit(r) PROVE [Promise!Next]_view
    BY <1>5, CommitWrites, CommitView
  <1>6. ASSUME NEW r \in Run, RecordFailure(r) PROVE [Promise!Next]_view
    BY <1>6, FailureWrites, CommitView
  <1>7. ASSUME NEW a \in Run, AcknowledgeAlert(a) PROVE [Promise!Next]_view
    <2>1. /\ alert[a] # "none" /\ UNCHANGED <<status, envOf>>
          /\ alert'[a] \in {"acknowledged", "both"}
          /\ \A k \in Run : k # a => alert'[k] = alert[k]
      BY <1>7 DEF AcknowledgeAlert, TypeOK, AlertState
    <2>2. PICK e \in Env : e = envOf[a]
      BY <2>1 DEF TypeOK, RunInv
    <2>3. \A d \in Env : OpenAlerts(d)' = OpenAlerts(d) \ {a}
      BY <2>1 DEF OpenAlerts
    <2>4. \A d \in Env : d # e => OpenAlerts(d)' = OpenAlerts(d)
      BY <2>1, <2>2 DEF OpenAlerts
    <2>5. \A d \in Env : d # e => AlertView(d)' = AlertView(d)
      BY <2>1, <2>4 DEF AlertView
    <2>6. CASE a \in OpenAlerts(e)
      <3>1. \A b \in OpenAlerts(e) : b = a
        BY <2>6 DEF SignalInv, AtMostOneOpenAlert
      <3>2. OpenAlerts(e)' = {}
        BY <2>3, <3>1
      <3>3. status[e] = "critical"
        BY <2>6 DEF SignalInv, OpenOnlyWhileCritical
      <3>4. AlertView(e) = "open" /\ AlertView(e)' = "dismissed"
        BY <2>1, <2>6, <3>2, <3>3 DEF AlertView
      <3> QED BY <2>5, <3>4, ViewStep
    <2>7. CASE a \notin OpenAlerts(e)
      <3>1. OpenAlerts(e)' = OpenAlerts(e)
        BY <2>3, <2>7
      <3>2. AlertView(e)' = AlertView(e)
        BY <2>1, <3>1 DEF AlertView
      <3> QED BY <2>5, <3>2, ViewStep
    <2> QED BY <2>6, <2>7
  <1>8. ASSUME NEW e \in Env, DeleteEnvironment(e) PROVE [Promise!Next]_view
    <2>1. /\ status'[e] = "unknown" /\ UNCHANGED envOf
          /\ \A d \in Env : d # e => status'[d] = status[d]
          /\ \A k \in Run : alert'[k] = IF envOf[k] = e THEN "none" ELSE alert[k]
      BY <1>8 DEF DeleteEnvironment, TypeOK
    <2>2. OpenAlerts(e)' = {} /\ \A d \in Env : d # e => OpenAlerts(d)' = OpenAlerts(d)
      BY <2>1 DEF OpenAlerts
    <2>3. AlertView(e)' = "quiet" /\ \A d \in Env : d # e => AlertView(d)' = AlertView(d)
      BY <2>1, <2>2 DEF AlertView
    <2> QED BY <2>3, ViewStep
  <1>9. CASE UNCHANGED vars
    BY <1>1, <1>9 DEF vars
  <1> QED BY <1>2, <1>3, <1>4, <1>5, <1>6, <1>7, <1>8, <1>9 DEF Next

LEMMA ViewInit == Init => Promise!Init
  BY DEF Init, Promise!Init, AlertView, OpenAlerts

\* The alert table implements the promise of the documentation: an alert per
\* outage, silent once dismissed, gone with the recovery.
THEOREM AlertsKeepPromise == Serial => (Spec => KeepsAlertPromise)
  <1> SUFFICES ASSUME Serial PROVE Spec => Promise!Spec
    BY DEF KeepsAlertPromise
  <1>1. TypeOK /\ SignalInv /\ RunInv /\ [Next]_vars =>
          [Promise!Next]_([e \in Env |-> AlertView(e)])
    BY ViewNext DEF view
  <1> QED BY <1>1, ViewInit, SignalInvariant, PTL DEF Spec, Promise!Spec

-----------------------------------------------------------------------------
(* The lock as a flag keeps what the lock protocol of SyncLock promises too:  *)
(* the runs that are requested and not over are the flights of SingleFlight.  *)

flights == [e \in Env |-> {r \in Pending : envOf[r] = e}]

Flight == INSTANCE SingleFlight WITH Job <- Run, flight <- flights

LEMMA FlightsAre == \A e \in Env : flights[e] = {r \in Pending : envOf[r] = e}
  BY DEF flights

\* Whoever is in the air holds the lock, and is alone.
LEMMA OneInTheAir ==
  ASSUME ~ MayLapse, AloneInv, NEW e \in Env
  PROVE  /\ ~ lock[e] => flights[e] = {}
         /\ \A r \in flights[e] : flights[e] = {r}
  <1>1. \A r \in Pending : lock[envOf[r]]
    BY DEF AloneInv, LockHeld
  <1>2. \A r, k \in Pending : envOf[r] = envOf[k] => r = k
    BY DEF AloneInv, LockHeld
  <1> QED BY <1>1, <1>2, FlightsAre

\* The step of a run that stays where it is, in the air or out of it.
LEMMA StaysInTheAir ==
  ASSUME UNCHANGED envOf, \A k \in Run : pc'[k] \in Working \cup {"queued"} <=> pc[k] \in Working \cup {"queued"}
  PROVE  flights' = flights
  <1>1. Pending' = Pending
    BY DEF Pending
  <1> QED BY <1>1 DEF flights

\* The end of a run lands its environment, whatever becomes of the lock.
LEMMA EndLands ==
  ASSUME ~ MayLapse, TypeOK, AloneInv, NEW r \in Run,
         Goto(r, Working, "done"), UNCHANGED envOf
  PROVE  Flight!Next
  <1> DEFINE e == envOf[r]
  <1>1. e \in Env /\ r \in Pending /\ pc[r] \in Working
    BY DEF Goto, TypeOK, Working, Pending
  <1>2. Pending' = Pending \ {r}
    BY DEF Goto, TypeOK, Working, Pending
  <1>3. flights[e] = {r}
    <2>1. r \in flights[e]
      BY <1>1, FlightsAre
    <2> QED BY <1>1, <2>1, OneInTheAir
  <1>4. \A d \in Env : flights'[d] = {k \in Pending' : envOf[k] = d}
    BY DEF flights
  <1>5. \A d \in Env : flights'[d] = IF d = e THEN {} ELSE flights[d]
    <2>1. flights'[e] = {}
      BY <1>1, <1>2, <1>3, <1>4, FlightsAre
    <2>2. \A d \in Env : d # e => flights'[d] = flights[d]
      BY <1>2, <1>4, FlightsAre
    <2> QED BY <2>1, <2>2
  <1>6. flights' = [flights EXCEPT ![e] = {}]
    BY <1>5 DEF flights
  <1> QED BY <1>1, <1>3, <1>6 DEF Flight!Next, Flight!Land

LEMMA FlightNext ==
  ~ MayLapse /\ TypeOK /\ AloneInv /\ [Next]_vars => [Flight!Next]_flights
  <1> SUFFICES ASSUME ~ MayLapse, TypeOK, AloneInv, [Next]_vars PROVE [Flight!Next]_flights
    OBVIOUS
  <1>1. ASSUME NEW e \in Env, NEW r \in Run, RequestSync(e, r) PROVE [Flight!Next]_flights
    <2>1. pc[r] = "idle" /\ ~ lock[e]
          /\ pc' = [pc EXCEPT ![r] = "queued"] /\ envOf' = [envOf EXCEPT ![r] = e]
      BY <1>1 DEF RequestSync, Goto
    <2>2. flights[e] = {} /\ \A d \in Env : r \notin flights[d]
      BY <2>1, OneInTheAir, FlightsAre DEF Pending, Working
    <2>3. Pending' = Pending \cup {r} /\ r \notin Pending
      BY <2>1 DEF Pending, Working, TypeOK
    <2>4. \A d \in Env : flights'[d] = {k \in Pending' : envOf'[k] = d}
      BY DEF flights
    <2>5. \A k \in Pending : envOf'[k] = envOf[k]
      BY <2>1, <2>3 DEF TypeOK, Pending
    <2>6. envOf'[r] = e
      BY <2>1 DEF TypeOK
    <2>7. \A d \in Env : flights'[d] = IF d = e THEN {r} ELSE flights[d]
      <3>1. \A d \in Env : flights'[d] = {k \in Pending : envOf[k] = d} \cup (IF d = e THEN {r} ELSE {})
        BY <2>3, <2>4, <2>5, <2>6
      <3> QED BY <2>2, <3>1, FlightsAre
    <2>8. flights' = [flights EXCEPT ![e] = {r}]
      BY <2>7 DEF flights
    <2> QED BY <2>2, <2>8 DEF Flight!Next, Flight!Start
  <1>2. ASSUME NEW e \in Env, LockExpires(e) \/ DeleteEnvironment(e) PROVE [Flight!Next]_flights
    BY <1>2, StaysInTheAir DEF LockExpires, DeleteEnvironment
  <1>3. ASSUME NEW r \in Run,
               \/ Dequeue(r) \/ BeginExecution(r) \/ LoadEnvironment(r) \/ Judge(r) \/ Commit(r)
               \/ Raise(r) \/ JudgeFailure(r) \/ RecordFailure(r) \/ HandlerEnds(r)
        PROVE  [Flight!Next]_flights
    <2>1. PICK from \in SUBSET (Working \cup {"queued"}), to \in Working : Goto(r, from, to)
      BY <1>3 DEF Dequeue, BeginExecution, LoadEnvironment, Judge, Commit, Raise, JudgeFailure,
                  RecordFailure, HandlerEnds, Working
    <2>2. UNCHANGED envOf
      BY <1>3 DEF Dequeue, BeginExecution, LoadEnvironment, Judge, Commit, Raise, JudgeFailure,
                  RecordFailure, HandlerEnds
    <2>3. \A k \in Run : pc'[k] \in Working \cup {"queued"} <=> pc[k] \in Working \cup {"queued"}
      BY <2>1 DEF Goto, TypeOK
    <2> QED BY <2>2, <2>3, StaysInTheAir
  <1>4. ASSUME NEW r \in Run, BeginRaises(r) \/ Release(r) \/ WorkHorseDies(r)
        PROVE  [Flight!Next]_flights
    <2>1. Goto(r, Working, "done") /\ UNCHANGED envOf
      BY <1>4 DEF BeginRaises, Release, WorkHorseDies, Goto, Working
    <2> QED BY <2>1, EndLands
  <1>5. ASSUME NEW r \in Run, AcknowledgeAlert(r) PROVE [Flight!Next]_flights
    BY <1>5, StaysInTheAir DEF AcknowledgeAlert
  <1>6. CASE UNCHANGED vars
    BY <1>6, StaysInTheAir DEF vars
  <1> QED BY <1>1, <1>2, <1>3, <1>4, <1>5, <1>6 DEF Next

LEMMA FlightInit == Init => Flight!Init
  BY DEF Init, Flight!Init, flights, Pending, Working

\* With keys that outlive their jobs, the syncs of an environment keep the promise
\* of SingleFlight here too, at the grain of their commits: the flag that stands
\* for the lock (enqueue_sync, and the finally clause of run_environment_sync) is
\* as good as the protocol of SyncLock.
THEOREM RunsKeepPromise == ~ MayLapse => (Spec => Flight!Spec)
  <1> SUFFICES ASSUME ~ MayLapse PROVE Spec => Flight!Spec
    OBVIOUS
  <1>1. TypeOK /\ AloneInv /\ [Next]_vars => [Flight!Next]_flights
    BY FlightNext
  <1> QED BY <1>1, FlightInit, AloneInvariant, PTL DEF Spec, Flight!Spec
=============================================================================
