------------------------------ MODULE SyncLock ------------------------------
(***************************************************************************)
(* The life of a sync request, from the API route or the scheduler pass    *)
(* that asks for it to the end of its RQ job: the Redis lock with its      *)
(* expiry, the FIFO queue, the workers, the deadline RQ gives a job, and   *)
(* the failures that can fall between two of these steps                   *)
(* (backend/app/services/collector.py, scheduler.py, worker.py).           *)
(*                                                                         *)
(* Time is a clock that ticks.  The lock's time to live starts with the    *)
(* SET NX of enqueue_sync; the job's deadline starts when a worker takes   *)
(* the job.  What a sync writes to the database is the business of module  *)
(* SyncPipeline; here an attempt only dates the environment.               *)
(***************************************************************************)
EXTENDS Integers, Sequences, FiniteSets

CONSTANTS
  Env,            \* registered environments
  Job,            \* job slots: how many syncs may be outstanding at once
  NoEnv,          \* the environment of an idle slot
  WorkerCount,    \* RQ worker processes; each runs one job at a time
  LockTTL,        \* SYNC_LOCK_TTL_SECONDS, in ticks
  JobTimeout,     \* sync_job_timeout_minutes, in ticks
  MaxWait,        \* longest time from SET NX to a worker taking the job
  CleanupTime,    \* longest time the handler and the finally clause take
  SyncInterval,   \* sync_interval_minutes, in ticks
  Faults,         \* the kinds of failure that may happen
  MaxFaults       \* bound on the number of failures in a behaviour

FaultKind == {"client",     \* an API process or the scheduler dies or is cut off
              "reply",      \* the enqueue reaches Redis, its reply is lost
              "redis",      \* Redis refuses a command
              "database",   \* PostgreSQL refuses a transaction
              "worker"}     \* the work-horse of a job dies

ASSUME ConstantsAssumption ==
  /\ NoEnv \notin Env
  /\ WorkerCount \in Nat \ {0}
  /\ LockTTL \in Nat \ {0}
  /\ JobTimeout \in Nat \ {0}
  /\ MaxWait \in Nat
  /\ CleanupTime \in Nat
  /\ SyncInterval \in Nat \ {0}
  /\ Faults \subseteq FaultKind
  /\ MaxFaults \in Nat

VARIABLES
  row,      \* row[e]: the managed_environments row: is_managed, or no row
  age,      \* age[e]: time since last_synced_at; SyncInterval: due (or NULL)
  lock,     \* lock[e]: time left of the Redis key, 0 when it does not exist
  queue,    \* the RQ queue "aam-sync", oldest job first
  phase,    \* phase[j]: where the request in slot j is
  env,      \* env[j]: the environment it is for
  left,     \* left[j]: time left of the phase's deadline
  pass,     \* due environments the scheduler read and has not handled yet
  faults    \* failures so far

vars == <<row, age, lock, queue, phase, env, left, pass, faults>>

Locking  == {"apiLocked", "schedulerLocked"}     \* between SET NX and enqueue
OnWorker == {"started", "running", "failing", "releasing"}
Phase    == {"idle", "queued"} \cup Locking \cup OnWorker

Outstanding == {j \in Job : phase[j] # "idle"}
Flying(e)   == {j \in Outstanding : env[j] = e}

TypeOK ==
  /\ row \in [Env -> {"managed", "unmanaged", "absent"}]
  /\ age \in [Env -> 0 .. SyncInterval]
  /\ lock \in [Env -> 0 .. LockTTL]
  /\ queue \in Seq(Job)
  /\ phase \in [Job -> Phase]
  /\ env \in [Job -> Env \cup {NoEnv}]
  /\ \A j \in Job : phase[j] # "idle" => env[j] \in Env
  /\ left \in [Job -> Nat]
  /\ pass \in SUBSET Env
  /\ faults \in 0 .. MaxFaults

\* A registration starts without last_synced_at: it is due from the start.
Init ==
  /\ row \in [Env -> {"managed", "unmanaged"}]
  /\ age = [e \in Env |-> SyncInterval]
  /\ lock = [e \in Env |-> 0]
  /\ queue = <<>>
  /\ phase = [j \in Job |-> "idle"]
  /\ env = [j \in Job |-> NoEnv]
  /\ left = [j \in Job |-> 0]
  /\ pass = {}
  /\ faults = 0

Fault(kind) ==
  /\ kind \in Faults
  /\ faults < MaxFaults
  /\ faults' = faults + 1

----------------------------------------------------------------------------
(* enqueue_sync: SET NX EX, then the enqueue. *)

\* Mutant: SET without NX.
LockFreeAlways(e) == TRUE

\* The key of an environment may be set only when it does not exist.
LockFree(e) == lock[e] = 0

\* Mutant: a time to live that forgets the handler and the finally clause.
AcquireBriefly(e, j, where) ==
  /\ LockFree(e)
  /\ phase[j] = "idle"
  /\ lock' = [lock EXCEPT ![e] = MaxWait + JobTimeout]
  /\ phase' = [phase EXCEPT ![j] = where]
  /\ env' = [env EXCEPT ![j] = e]
  /\ left' = [left EXCEPT ![j] = MaxWait]

Acquire(e, j, where) ==
  /\ LockFree(e)
  /\ phase[j] = "idle"
  /\ lock' = [lock EXCEPT ![e] = LockTTL]
  /\ phase' = [phase EXCEPT ![j] = where]
  /\ env' = [env EXCEPT ![j] = e]
  /\ left' = [left EXCEPT ![j] = MaxWait]

\* A slot returns to idle; what became of the lock is the caller's to say.
Retire(j) ==
  /\ phase' = [phase EXCEPT ![j] = "idle"]
  /\ env' = [env EXCEPT ![j] = NoEnv]
  /\ left' = [left EXCEPT ![j] = 0]

\* An exception in the scheduler's enqueue ends its pass over the fleet.
EndPassOf(j) == pass' = IF phase[j] = "schedulerLocked" THEN {} ELSE pass

\* Mutant: the enqueue is retried after its reply was late.
EnqueueTwice(j) ==
  /\ phase[j] \in Locking
  /\ queue' = queue \o <<j, j>>
  /\ phase' = [phase EXCEPT ![j] = "queued"]
  /\ UNCHANGED <<row, age, lock, env, left, pass, faults>>

Enqueue(j) ==
  /\ phase[j] \in Locking
  /\ queue' = Append(queue, j)
  /\ phase' = [phase EXCEPT ![j] = "queued"]
  /\ UNCHANGED <<row, age, lock, env, left, pass, faults>>

\* enqueue raises before the job is stored: the key is deleted, the error
\* goes to the caller.
EnqueueRefused(j) ==
  /\ phase[j] \in Locking
  /\ Fault("redis")
  /\ lock' = [lock EXCEPT ![env[j]] = 0]
  /\ Retire(j)
  /\ EndPassOf(j)
  /\ UNCHANGED <<row, age, queue>>

\* The job is stored but the reply is lost: enqueue raises all the same, and
\* the key is deleted while the job waits in the queue.
EnqueueReplyLost(j) ==
  /\ phase[j] \in Locking
  /\ Fault("reply")
  /\ lock' = [lock EXCEPT ![env[j]] = 0]
  /\ queue' = Append(queue, j)
  /\ phase' = [phase EXCEPT ![j] = "queued"]
  /\ EndPassOf(j)
  /\ UNCHANGED <<row, age, env, left>>

\* The caller dies between the two commands: the key stays until it expires.
EnqueuerDies(j) ==
  /\ phase[j] \in Locking
  /\ Fault("client")
  /\ Retire(j)
  /\ EndPassOf(j)
  /\ UNCHANGED <<row, age, lock, queue>>

----------------------------------------------------------------------------
(* The callers: the API and the scheduler. *)

SyncEnvironment(e, j) ==
  /\ row[e] = "managed"
  /\ Acquire(e, j, "apiLocked")
  /\ UNCHANGED <<row, age, queue, pass, faults>>

Due(e) == age[e] = SyncInterval

\* The scheduler reads the fleet once; the rest of the pass works from that.
ReadFleet ==
  /\ pass = {}
  /\ \A j \in Job : phase[j] # "schedulerLocked"
  /\ pass' = {e \in Env : row[e] = "managed" /\ Due(e)}
  /\ UNCHANGED <<row, age, lock, queue, phase, env, left, faults>>

EnqueueDue(e, j) ==
  /\ e \in pass
  /\ \A k \in Job : phase[k] # "schedulerLocked"
  /\ Acquire(e, j, "schedulerLocked")
  /\ pass' = pass \ {e}
  /\ UNCHANGED <<row, age, queue, faults>>

\* The key exists: the RuntimeError is swallowed and the pass goes on.
SkipDue(e) ==
  /\ e \in pass
  /\ \A k \in Job : phase[k] # "schedulerLocked"
  /\ ~LockFree(e)
  /\ pass' = pass \ {e}
  /\ UNCHANGED <<row, age, lock, queue, phase, env, left, faults>>

\* Any other exception is logged by the scheduler loop, which starts over.
AbortPass ==
  /\ pass # {}
  /\ Fault("redis")
  /\ pass' = {}
  /\ UNCHANGED <<row, age, lock, queue, phase, env, left>>

UpdateEnvironment(e) ==
  /\ row[e] # "absent"
  /\ row' = [row EXCEPT ![e] = IF @ = "managed" THEN "unmanaged" ELSE "managed"]
  /\ UNCHANGED <<age, lock, queue, phase, env, left, pass, faults>>

\* Neither the lock nor the queued job of the environment is touched.
DeleteEnvironment(e) ==
  /\ row[e] # "absent"
  /\ row' = [row EXCEPT ![e] = "absent"]
  /\ UNCHANGED <<age, lock, queue, phase, env, left, pass, faults>>

----------------------------------------------------------------------------
(* The worker: run_environment_sync under RQ's deadline. *)

Busy == {j \in Job : phase[j] \in OnWorker}

Dequeue ==
  /\ queue # <<>>
  /\ Cardinality(Busy) < WorkerCount
  /\ phase' = [phase EXCEPT ![Head(queue)] = "started"]
  /\ left' = [left EXCEPT ![Head(queue)] = JobTimeout]
  /\ queue' = Tail(queue)
  /\ UNCHANGED <<row, age, lock, env, pass, faults>>

\* The "running" execution is committed; only then does the try begin.
BeginExecution(j) ==
  /\ phase[j] = "started"
  /\ row[env[j]] # "absent"
  /\ phase' = [phase EXCEPT ![j] = "running"]
  /\ UNCHANGED <<row, age, lock, queue, env, left, pass, faults>>

\* The insert raises before the try, so the finally clause never runs: the
\* foreign key has no environment, or the database refuses.
BeginRaises(j) ==
  /\ phase[j] = "started"
  /\ \/ row[env[j]] = "absent" /\ UNCHANGED faults
     \/ row[env[j]] # "absent" /\ Fault("database")
  /\ Retire(j)
  /\ UNCHANGED <<row, age, lock, queue, pass>>

\* Mutant: last_synced_at is not written.
Undated(e) == age

\* An attempt that reaches its commit dates the environment, if it still exists.
Dated(e) == IF row[e] = "absent" THEN age ELSE [age EXCEPT ![e] = 0]

Complete(j) ==
  /\ phase[j] = "running"
  /\ row[env[j]] # "absent"
  /\ age' = Dated(env[j])
  /\ phase' = [phase EXCEPT ![j] = "releasing"]
  /\ left' = [left EXCEPT ![j] = CleanupTime]
  /\ UNCHANGED <<row, lock, queue, env, pass, faults>>

\* Collection fails, the environment is gone, or RQ's alarm goes off.
Raise(j) ==
  /\ phase[j] = "running"
  /\ phase' = [phase EXCEPT ![j] = "failing"]
  /\ left' = [left EXCEPT ![j] = CleanupTime]
  /\ UNCHANGED <<row, age, lock, queue, env, pass, faults>>

\* Mutant: the handler deletes the key, and the finally clause once more.
RecordFailureReleases(j) ==
  /\ phase[j] = "failing"
  /\ age' = Dated(env[j])
  /\ lock' = [lock EXCEPT ![env[j]] = 0]
  /\ phase' = [phase EXCEPT ![j] = "releasing"]
  /\ UNCHANGED <<row, queue, env, left, pass, faults>>

RecordFailure(j) ==
  /\ phase[j] = "failing"
  /\ age' = Dated(env[j])
  /\ phase' = [phase EXCEPT ![j] = "releasing"]
  /\ UNCHANGED <<row, lock, queue, env, left, pass, faults>>

\* The handler itself raises; nothing is recorded but the finally clause runs.
HandlerRaises(j) ==
  /\ phase[j] = "failing"
  /\ Fault("database")
  /\ phase' = [phase EXCEPT ![j] = "releasing"]
  /\ UNCHANGED <<row, age, lock, queue, env, left, pass>>

\* The finally clause deletes the key by name: it carries no owner.
Release(j) ==
  /\ phase[j] = "releasing"
  /\ lock' = [lock EXCEPT ![env[j]] = 0]
  /\ Retire(j)
  /\ UNCHANGED <<row, age, queue, pass, faults>>

ReleaseFails(j) ==
  /\ phase[j] = "releasing"
  /\ Fault("redis")
  /\ Retire(j)
  /\ UNCHANGED <<row, age, lock, queue, pass>>

\* RQ does not requeue the job of a dead work-horse.
WorkHorseDies(j) ==
  /\ phase[j] \in OnWorker
  /\ Fault("worker")
  /\ Retire(j)
  /\ UNCHANGED <<row, age, lock, queue, pass>>

----------------------------------------------------------------------------
(* The clock.  It cannot pass a deadline somebody still owes. *)

OnTime == \A j \in Outstanding : left[j] > 0

\* Mutant: SET without EX, the key never expires.
TickWithoutExpiry ==
  /\ OnTime
  /\ left' = [j \in Job |-> IF phase[j] # "idle" THEN left[j] - 1 ELSE left[j]]
  /\ age' = [e \in Env |-> IF age[e] < SyncInterval THEN age[e] + 1 ELSE age[e]]
  /\ UNCHANGED <<row, lock, queue, phase, env, pass, faults>>

\* Mutant: the countdown of a key goes on below zero.
TickPastZero ==
  /\ OnTime
  /\ lock' = [e \in Env |-> lock[e] - 1]
  /\ left' = [j \in Job |-> IF phase[j] # "idle" THEN left[j] - 1 ELSE left[j]]
  /\ age' = [e \in Env |-> IF age[e] < SyncInterval THEN age[e] + 1 ELSE age[e]]
  /\ UNCHANGED <<row, queue, phase, env, pass, faults>>

Tick ==
  /\ OnTime
  /\ lock' = [e \in Env |-> IF lock[e] > 0 THEN lock[e] - 1 ELSE 0]
  /\ left' = [j \in Job |-> IF phase[j] # "idle" THEN left[j] - 1 ELSE left[j]]
  /\ age' = [e \in Env |-> IF age[e] < SyncInterval THEN age[e] + 1 ELSE age[e]]
  /\ UNCHANGED <<row, queue, phase, env, pass, faults>>

Next ==
  \/ \E e \in Env, j \in Job : SyncEnvironment(e, j) \/ EnqueueDue(e, j)
  \/ \E e \in Env : SkipDue(e) \/ UpdateEnvironment(e) \/ DeleteEnvironment(e)
  \/ ReadFleet
  \/ AbortPass
  \/ Dequeue
  \/ \E j \in Job :
       \/ Enqueue(j) \/ EnqueueRefused(j) \/ EnqueueReplyLost(j) \/ EnqueuerDies(j)
       \/ BeginExecution(j) \/ BeginRaises(j) \/ Complete(j) \/ Raise(j)
       \/ RecordFailure(j) \/ HandlerRaises(j)
       \/ Release(j) \/ ReleaseFails(j) \/ WorkHorseDies(j)
  \/ Tick

Spec == Init /\ [][Next]_vars

----------------------------------------------------------------------------
(* Safety. *)

\* The deadlines leave the lock alive for the whole life of a job, and no
\* reply of an enqueue is lost.
Timely ==
  /\ MaxWait + JobTimeout + CleanupTime < LockTTL
  /\ "reply" \notin Faults

\* Two syncs of one environment never overlap, from the SET NX of enqueue_sync
\* to the end of the job's finally clause.
AtMostOneFlight ==
  \A j, k \in Outstanding : env[j] = env[k] => j = k

\* The time a job may still take before it ends.
Budget(j) ==
  left[j] + (CASE phase[j] \in Locking \cup {"queued"} -> JobTimeout + CleanupTime
               [] phase[j] \in {"started", "running"}  -> CleanupTime
               [] OTHER -> 0)

\* The key of a sync in progress outlives it: it expires under nobody, and the
\* unowned DEL of a finally clause never hits the key of another job.
LockOutlivesJob == \A j \in Outstanding : lock[env[j]] > Budget(j)

\* The RQ list holds exactly the queued jobs, each of them once.
QueueHoldsQueued ==
  /\ \A i \in 1 .. Len(queue) : phase[queue[i]] = "queued"
  /\ \A i, k \in 1 .. Len(queue) : queue[i] = queue[k] => i = k
  /\ \A j \in Job : phase[j] = "queued" => \E i \in 1 .. Len(queue) : queue[i] = j

----------------------------------------------------------------------------
(* Progress.  RQ and the scheduler loop keep working, time passes; requests  *)
(* of users and failures are free not to happen.  The RQ list is unbounded,  *)
(* so a slot for the scheduler is never withheld for ever: strong fairness   *)
(* where the other steps need only the weak kind.                            *)

Handle(e) == SkipDue(e) \/ \E j \in Job : EnqueueDue(e, j)
Attempt(j) == BeginExecution(j) \/ Complete(j) \/ Raise(j)

Fairness ==
  /\ WF_vars(Tick)
  /\ WF_vars(ReadFleet)
  /\ \A e \in Env : SF_vars(Handle(e))
  /\ WF_vars(Dequeue)
  /\ \A j \in Job :
       /\ WF_vars(Enqueue(j))
       /\ WF_vars(Attempt(j) \/ BeginRaises(j))
       /\ WF_vars(RecordFailure(j))
       /\ WF_vars(Release(j))

FairSpec == Spec /\ Fairness

\* A key never stays: what no finally clause deletes, expires.
LockEventuallyFree == \A e \in Env : lock[e] > 0 ~> lock[e] = 0

\* A managed environment that is due is synced, whatever a bounded number of
\* failures does to the requests on the way.
DueEventuallyAttempted ==
  \A e \in Env : (row[e] = "managed" /\ Due(e)) ~> (row[e] # "managed" \/ ~Due(e))

Flight == INSTANCE SingleFlight WITH flight <- [e \in Env |-> Flying(e)]

\* The lock keeps the promise of SingleFlight, step for step.
KeepsPromise == Flight!Spec

=============================================================================
