---------------------------- MODULE SyncPipeline ----------------------------
(***************************************************************************)
(* What a sync writes: the environment row, its execution, the health      *)
(* sample and the fleet alert of record_fleet_signal, with the operations  *)
(* of users on the same rows (backend/app/services/collector.py,           *)
(* backend/app/api/routes.py).                                             *)
(*                                                                         *)
(* run_environment_sync reads the row, collects for minutes, decides on    *)
(* what it read, and commits; the steps below are these reads and commits. *)
(* SQLAlchemy writes only the columns that differ from what the session    *)
(* loaded (the session of database.py neither autoflushes nor expires on   *)
(* commit), and PostgreSQL runs at READ COMMITTED.  The lock appears as a  *)
(* flag; when its key may vanish under a live job is the business of       *)
(* module SyncLock.                                                        *)
(***************************************************************************)
EXTENDS Integers, FiniteSets

CONSTANTS
  Env,            \* registered environments
  Run,            \* sync runs; a run stands for its execution and its alert too
  NoEnv,          \* the environment of a run not requested yet
  Outcome,        \* the statuses a collection may report
  WorkerCount,    \* RQ worker processes
  MayLapse,       \* TRUE: a lock may expire while its job is outstanding
  Faults          \* the failures that may happen

Status == {"unknown", "healthy", "warning", "critical"}

ASSUME PipelineAssumption ==
  /\ NoEnv \notin Env
  /\ IsFiniteSet(Run)
  /\ Outcome \subseteq Status
  /\ WorkerCount \in Nat \ {0}
  /\ MayLapse \in BOOLEAN
  /\ Faults \subseteq {"worker", "database", "redis"}

VARIABLES
  exists,   \* exists[e]: the managed_environments row is there
  status,   \* status[e]: its status
  error,    \* error[e]: whether last_sync_error is set
  sample,   \* sample[e]: status of the latest HealthSample, "none" before it
  alert,    \* alert[r]: the FleetAlert run r opened
  exec,     \* exec[r]: the SyncExecution of run r
  lock,     \* lock[e]: the Redis key exists
  pc,       \* pc[r]: where run_environment_sync is
  envOf,    \* envOf[r]: the environment it syncs
  seen,     \* seen[r]: the row as the run's session loaded it
  plan      \* plan[r]: what the run decided to commit

rows == <<exists, status, error, sample, alert, exec>>
vars == <<exists, status, error, sample, alert, exec, lock, pc, envOf, seen, plan>>

\* judged and lost: decided, and about to commit as a success or as a failure.
Working == {"started", "running", "collecting", "judged", "failing", "lost", "releasing"}
Busy    == {r \in Run : pc[r] \in Working}
Pending == {r \in Run : pc[r] = "queued" \/ pc[r] \in Working}

\* acknowledged_at and resolved_at of an alert are independent columns.
AlertState == {"none", "open", "acknowledged", "resolved", "both"}

OpenAlerts(e) == {r \in Run : envOf[r] = e /\ alert[r] = "open"}

Nothing == [status |-> "unknown", raise |-> FALSE, clear |-> {}]
Unread  == [status |-> "unknown", error |-> FALSE]

TypeOK ==
  /\ exists \in [Env -> BOOLEAN]
  /\ status \in [Env -> Status]
  /\ error \in [Env -> BOOLEAN]
  /\ sample \in [Env -> Status \cup {"none"}]
  /\ alert \in [Run -> AlertState]
  /\ exec \in [Run -> {"none", "running", "completed", "failed"}]
  /\ lock \in [Env -> BOOLEAN]
  /\ pc \in [Run -> {"idle", "queued", "done"} \cup Working]
  /\ envOf \in [Run -> Env \cup {NoEnv}]
  /\ \A r \in Run : pc[r] # "idle" => envOf[r] \in Env
  /\ seen \in [Run -> [status : Status, error : BOOLEAN]]
  /\ plan \in [Run -> [status : Status, raise : BOOLEAN, clear : SUBSET Run]]

Init ==
  /\ exists = [e \in Env |-> TRUE]
  /\ status = [e \in Env |-> "unknown"]
  /\ error = [e \in Env |-> FALSE]
  /\ sample = [e \in Env |-> "none"]
  /\ alert = [r \in Run |-> "none"]
  /\ exec = [r \in Run |-> "none"]
  /\ lock = [e \in Env |-> FALSE]
  /\ pc = [r \in Run |-> "idle"]
  /\ envOf = [r \in Run |-> NoEnv]
  /\ seen = [r \in Run |-> Unread]
  /\ plan = [r \in Run |-> Nothing]

Goto(r, from, to) == pc[r] \in from /\ pc' = [pc EXCEPT ![r] = to]

----------------------------------------------------------------------------
(* Requests, and the life of the lock. *)

\* Mutant: SET without NX.
RequestSyncAlways(e, r) ==
  /\ exists[e]
  /\ Goto(r, {"idle"}, "queued")
  /\ lock' = [lock EXCEPT ![e] = TRUE]
  /\ envOf' = [envOf EXCEPT ![r] = e]
  /\ UNCHANGED <<rows, seen, plan>>

RequestSync(e, r) ==
  /\ exists[e]
  /\ ~lock[e]
  /\ Goto(r, {"idle"}, "queued")
  /\ lock' = [lock EXCEPT ![e] = TRUE]
  /\ envOf' = [envOf EXCEPT ![r] = e]
  /\ UNCHANGED <<rows, seen, plan>>

\* Mutant: a time to live that is shorter than a run.
LockExpiresEarly(e) ==
  /\ lock[e]
  /\ lock' = [lock EXCEPT ![e] = FALSE]
  /\ UNCHANGED <<rows, pc, envOf, seen, plan>>

\* The key expires: under a live job only where the deadlines let it.
LockExpires(e) ==
  /\ lock[e]
  /\ MayLapse \/ \A r \in Pending : envOf[r] # e
  /\ lock' = [lock EXCEPT ![e] = FALSE]
  /\ UNCHANGED <<rows, pc, envOf, seen, plan>>

----------------------------------------------------------------------------
(* record_fleet_signal: what the alert table is told of a new status. *)

\* Mutant: every critical sync raises an alert.
DecisionsWithoutLook(e, previous, new) ==
  LET open == OpenAlerts(e)
  IN  {[status |-> new,
        raise  |-> new = "critical",
        clear  |-> c] :
         c \in IF new # "critical" /\ open # {} THEN {{a} : a \in open} ELSE {{}}}

\* Mutant: the previous status is not consulted, a dismissed alert comes back.
DecisionsWithoutPrevious(e, previous, new) ==
  LET open == OpenAlerts(e)
  IN  {[status |-> new,
        raise  |-> new = "critical" /\ open = {},
        clear  |-> c] :
         c \in IF new # "critical" /\ open # {} THEN {{a} : a \in open} ELSE {{}}}

Decisions(e, previous, new) ==
  LET open == OpenAlerts(e)
  IN  {[status |-> new,
        raise  |-> new = "critical" /\ open = {} /\ previous # "critical",
        clear  |-> c] :
         c \in IF new # "critical" /\ open # {} THEN {{a} : a \in open} ELSE {{}}}

\* The alert rows once the decision of run r is committed.
Alerts(r) ==
  [k \in Run |->
     IF k = r /\ plan[r].raise THEN "open"
     ELSE IF k \in plan[r].clear
          THEN IF alert[k] \in {"acknowledged", "both"} THEN "both" ELSE "resolved"
          ELSE alert[k]]

\* An UPDATE carries a column only when its value differs from the loaded one.
Written(new, loaded, current) == IF new # loaded THEN new ELSE current

----------------------------------------------------------------------------
(* run_environment_sync. *)

Dequeue(r) ==
  /\ Cardinality(Busy) < WorkerCount
  /\ Goto(r, {"queued"}, "started")
  /\ UNCHANGED <<rows, lock, envOf, seen, plan>>

\* The first commit, before the try.
BeginExecution(r) ==
  /\ Goto(r, {"started"}, "running")
  /\ exists[envOf[r]]
  /\ exec' = [exec EXCEPT ![r] = "running"]
  /\ UNCHANGED <<exists, status, error, sample, alert, lock, envOf, seen, plan>>

\* It raises: no environment for the foreign key, or no database.  Nothing
\* after it runs, the finally clause included.
BeginRaises(r) ==
  /\ Goto(r, {"started"}, "done")
  /\ exists[envOf[r]] => "database" \in Faults
  /\ UNCHANGED <<rows, lock, envOf, seen, plan>>

\* Mutant: the previous status is taken from the last health sample.
LoadFromSample(r) ==
  /\ Goto(r, {"running"}, "collecting")
  /\ exists[envOf[r]]
  /\ seen' = [seen EXCEPT ![r] = [status |-> sample[envOf[r]], error |-> error[envOf[r]]]]
  /\ UNCHANGED <<rows, lock, envOf, plan>>

LoadEnvironment(r) ==
  /\ Goto(r, {"running"}, "collecting")
  /\ exists[envOf[r]]
  /\ seen' = [seen EXCEPT ![r] = [status |-> status[envOf[r]], error |-> error[envOf[r]]]]
  /\ UNCHANGED <<rows, lock, envOf, plan>>

\* The collection ends and the run decides on the status it loaded before it.
Judge(r) ==
  /\ Goto(r, {"collecting"}, "judged")
  /\ \E s \in Outcome : \E d \in Decisions(envOf[r], seen[r].status, s) :
       plan' = [plan EXCEPT ![r] = d]
  /\ UNCHANGED <<rows, lock, envOf, seen>>

\* Mutant: a success does not reset last_sync_error.
CommitKeepsError(r) ==
  LET e == envOf[r] IN
  /\ Goto(r, {"judged"}, "releasing")
  /\ exists[e]
  /\ status' = [status EXCEPT ![e] = Written(plan[r].status, seen[r].status, @)]
  /\ sample' = [sample EXCEPT ![e] = plan[r].status]
  /\ alert' = Alerts(r)
  /\ exec' = [exec EXCEPT ![r] = "completed"]
  /\ UNCHANGED <<exists, error, lock, envOf, seen, plan>>

Commit(r) ==
  LET e == envOf[r] IN
  /\ Goto(r, {"judged"}, "releasing")
  /\ exists[e]
  /\ status' = [status EXCEPT ![e] = Written(plan[r].status, seen[r].status, @)]
  /\ error' = [error EXCEPT ![e] = Written(FALSE, seen[r].error, @)]
  /\ sample' = [sample EXCEPT ![e] = plan[r].status]
  /\ alert' = Alerts(r)
  /\ exec' = [exec EXCEPT ![r] = "completed"]
  /\ UNCHANGED <<exists, lock, envOf, seen, plan>>

\* Any exception of the try: a failed collection, RQ's alarm, a constraint.
Raise(r) ==
  /\ Goto(r, {"running", "collecting", "judged"}, "failing")
  /\ UNCHANGED <<rows, lock, envOf, seen, plan>>

\* The handler rolls back, loads the row afresh and decides.
JudgeFailure(r) ==
  LET e == envOf[r] IN
  /\ Goto(r, {"failing"}, "lost")
  /\ exists[e]
  /\ seen' = [seen EXCEPT ![r] = [status |-> status[e], error |-> error[e]]]
  /\ \E d \in Decisions(e, status[e], "critical") : plan' = [plan EXCEPT ![r] = d]
  /\ UNCHANGED <<rows, lock, envOf>>

\* Mutant: the handler leaves the execution to the caller.
RecordFailureOpenEnded(r) ==
  LET e == envOf[r] IN
  /\ Goto(r, {"lost"}, "releasing")
  /\ exists[e]
  /\ status' = [status EXCEPT ![e] = Written("critical", seen[r].status, @)]
  /\ error' = [error EXCEPT ![e] = TRUE]
  /\ sample' = [sample EXCEPT ![e] = "critical"]
  /\ alert' = Alerts(r)
  /\ UNCHANGED <<exists, exec, lock, envOf, seen, plan>>

\* The text of the error may be the one that was loaded: then it is not written.
RecordFailure(r) ==
  LET e == envOf[r] IN
  /\ Goto(r, {"lost"}, "releasing")
  /\ exists[e]
  /\ status' = [status EXCEPT ![e] = Written("critical", seen[r].status, @)]
  /\ \E text \in {TRUE} \cup (IF seen[r].error THEN {error[e]} ELSE {}) :
       error' = [error EXCEPT ![e] = text]
  /\ sample' = [sample EXCEPT ![e] = "critical"]
  /\ alert' = Alerts(r)
  /\ exec' = [exec EXCEPT ![r] = "failed"]
  /\ UNCHANGED <<exists, lock, envOf, seen, plan>>

\* No row is left to record the failure on, or the handler raises in its turn.
HandlerEnds(r) ==
  /\ Goto(r, {"failing", "lost"}, "releasing")
  /\ exists[envOf[r]] => "database" \in Faults
  /\ UNCHANGED <<rows, lock, envOf, seen, plan>>

\* The finally clause deletes the key by name; a Redis error is swallowed.
Release(r) ==
  /\ Goto(r, {"releasing"}, "done")
  /\ \/ lock' = [lock EXCEPT ![envOf[r]] = FALSE]
     \/ "redis" \in Faults /\ UNCHANGED lock
  /\ UNCHANGED <<rows, envOf, seen, plan>>

\* The work-horse dies: RQ does not run the job again.
WorkHorseDies(r) ==
  /\ "worker" \in Faults
  /\ Goto(r, Working, "done")
  /\ UNCHANGED <<rows, lock, envOf, seen, plan>>

----------------------------------------------------------------------------
(* Users. *)

AcknowledgeAlert(r) ==
  /\ alert[r] # "none"
  /\ alert' = [alert EXCEPT ![r] = IF @ \in {"resolved", "both"} THEN "both"
                                   ELSE "acknowledged"]
  /\ UNCHANGED <<exists, status, error, sample, exec, lock, pc, envOf, seen, plan>>

\* ON DELETE CASCADE takes the dependent rows; the lock and the job stay.
DeleteEnvironment(e) ==
  /\ exists[e]
  /\ exists' = [exists EXCEPT ![e] = FALSE]
  /\ status' = [status EXCEPT ![e] = "unknown"]
  /\ error' = [error EXCEPT ![e] = FALSE]
  /\ sample' = [sample EXCEPT ![e] = "none"]
  /\ alert' = [r \in Run |-> IF envOf[r] = e THEN "none" ELSE alert[r]]
  /\ exec' = [r \in Run |-> IF envOf[r] = e THEN "none" ELSE exec[r]]
  /\ UNCHANGED <<lock, pc, envOf, seen, plan>>

Next ==
  \/ \E e \in Env : LockExpires(e) \/ DeleteEnvironment(e)
                    \/ \E r \in Run : RequestSync(e, r)
  \/ \E r \in Run :
       \/ Dequeue(r) \/ BeginExecution(r) \/ BeginRaises(r) \/ LoadEnvironment(r)
       \/ Judge(r) \/ Commit(r) \/ Raise(r) \/ JudgeFailure(r) \/ RecordFailure(r)
       \/ HandlerEnds(r) \/ Release(r) \/ WorkHorseDies(r)
       \/ AcknowledgeAlert(r)

Spec == Init /\ [][Next]_vars

----------------------------------------------------------------------------
(* Properties. *)

\* Syncs of one environment run one after the other: a single worker, or keys
\* that outlive their jobs (SyncLock: Timely => []LockOutlivesJob).
Serial == WorkerCount = 1 \/ ~MayLapse

\* "an open alert when an estate transitions to critical": there is one at most.
AtMostOneOpenAlert ==
  \A e \in Env : \A a, b \in OpenAlerts(e) : a = b

\* The alert clears when the estate recovers: none is open on an estate whose
\* status is not critical.
OpenOnlyWhileCritical ==
  \A e \in Env : OpenAlerts(e) # {} => status[e] = "critical"

\* The health history ends with the status the estate shows.
HistoryAgrees ==
  \A e \in Env : sample[e] \in {"none", status[e]}

\* A sync error is shown on critical estates only: success clears it.
ErrorMeansCritical ==
  \A e \in Env : error[e] => status[e] = "critical"

\* A run decides and commits on the row as it is: the status and the error its
\* session loaded minutes ago are still those of the row.
DecidesOnCurrentRow ==
  \A r \in Run :
    pc[r] \in {"collecting", "judged", "lost"} /\ exists[envOf[r]] =>
      seen[r] = [status |-> status[envOf[r]], error |-> error[envOf[r]]]

\* The estate, as the alert table shows it to a user.
AlertView(e) ==
  IF OpenAlerts(e) # {} THEN "open"
  ELSE IF status[e] = "critical" THEN "dismissed" ELSE "quiet"

Promise == INSTANCE AlertPromise WITH view <- [e \in Env |-> AlertView(e)]

\* One outage, one alert, for every environment.
KeepsAlertPromise == Promise!Spec

Fairness == \A r \in Run :
  /\ WF_vars(Dequeue(r))
  /\ WF_vars(BeginExecution(r) \/ BeginRaises(r))
  /\ WF_vars(LoadEnvironment(r) \/ Judge(r) \/ Commit(r) \/ Raise(r))
  /\ WF_vars(JudgeFailure(r) \/ RecordFailure(r) \/ HandlerEnds(r))
  /\ WF_vars(Release(r))

FairSpec == Spec /\ Fairness

\* An execution does not stay "running": as long as no work-horse dies and the
\* database takes the handler's commit, every one ends completed or failed (or
\* goes with its environment).
ExecutionSettles == \A r \in Run : exec[r] = "running" ~> exec[r] # "running"
=============================================================================
