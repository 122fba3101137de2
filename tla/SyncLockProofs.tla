--------------------------- MODULE SyncLockProofs ---------------------------
(***************************************************************************)
(* Proofs about SyncLock, for every fleet, every number of job slots and   *)
(* workers, every value of the deadlines and every bound on failures.      *)
(***************************************************************************)
EXTENDS SyncLock, FiniteSetTheorems, TLAPS

\* Two facts about sequences that the queue needs.
LEMMA AppendFacts ==
  ASSUME NEW S, NEW q \in Seq(S), NEW x \in S
  PROVE  /\ Append(q, x) \in Seq(S)
         /\ Len(Append(q, x)) = Len(q) + 1
         /\ \A i \in 1 .. Len(q) : Append(q, x)[i] = q[i]
         /\ Append(q, x)[Len(q) + 1] = x
  OBVIOUS

LEMMA TailFacts ==
  ASSUME NEW S, NEW q \in Seq(S), q # <<>>
  PROVE  /\ Head(q) \in S
         /\ Head(q) = q[1]
         /\ Len(q) \in Nat \ {0}
         /\ Tail(q) \in Seq(S)
         /\ Len(Tail(q)) = Len(q) - 1
         /\ \A i \in 1 .. Len(q) - 1 : Tail(q)[i] = q[i + 1]
  OBVIOUS

-----------------------------------------------------------------------------
(* Types.  That the head of the queue has an environment needs the queue to  *)
(* hold queued jobs only, so the two are one induction.                      *)

QueueInv == TypeOK /\ QueueHoldsQueued

LEMMA QueueInvInit == Init => QueueInv
  <1> SUFFICES ASSUME Init PROVE QueueInv
    OBVIOUS
  <1>1. TypeOK
    BY ConstantsAssumption DEF Init, TypeOK, Phase
  <1>2. QueueHoldsQueued
    BY DEF Init, QueueHoldsQueued
  <1> QED
    BY <1>1, <1>2 DEF QueueInv

\* Steps that leave the queue alone and neither queue a job nor touch one.
LEMMA QueueKept ==
  ASSUME QueueHoldsQueued, UNCHANGED queue,
         \A k \in Job : (phase[k] = "queued") <=> (phase'[k] = "queued"),
         queue \in Seq(Job)
  PROVE  QueueHoldsQueued'
  BY DEF QueueHoldsQueued

\* A slot that returns to idle keeps the three slot variables typed.
LEMMA RetireTyped ==
  ASSUME TypeOK, NEW j \in Job, Retire(j)
  PROVE  /\ phase' \in [Job -> Phase]
         /\ env' \in [Job -> Env \cup {NoEnv}]
         /\ \A k \in Job : phase'[k] # "idle" => env'[k] \in Env
         /\ left' \in [Job -> Nat]
         /\ \A k \in Job : phase'[k] = IF k = j THEN "idle" ELSE phase[k]
         /\ \A k \in Job : k # j => env'[k] = env[k] /\ left'[k] = left[k]
  BY DEF Retire, TypeOK, Phase

LEMMA QueueInvNext == QueueInv /\ [Next]_vars => QueueInv'
  <1> SUFFICES ASSUME QueueInv, [Next]_vars PROVE QueueInv'
    OBVIOUS
  <1> USE ConstantsAssumption
  <1> USE DEF QueueInv
  <1> USE DEF Phase, Locking, OnWorker
  <1>1. ASSUME NEW e \in Env, NEW j \in Job, SyncEnvironment(e, j) PROVE QueueInv'
    <2>1. TypeOK'
      BY <1>1 DEF SyncEnvironment, Acquire, LockFree, TypeOK
    <2>2. QueueHoldsQueued'
      BY <1>1, QueueKept DEF SyncEnvironment, Acquire, TypeOK
    <2> QED BY <2>1, <2>2
  <1>2. ASSUME NEW e \in Env, NEW j \in Job, EnqueueDue(e, j) PROVE QueueInv'
    <2>1. TypeOK'
      BY <1>2 DEF EnqueueDue, Acquire, LockFree, TypeOK
    <2>2. QueueHoldsQueued'
      BY <1>2, QueueKept DEF EnqueueDue, Acquire, TypeOK
    <2> QED BY <2>1, <2>2
  <1>3. ASSUME NEW e \in Env,
               SkipDue(e) \/ UpdateEnvironment(e) \/ DeleteEnvironment(e)
        PROVE QueueInv'
    <2>1. TypeOK'
      BY <1>3 DEF SkipDue, UpdateEnvironment, DeleteEnvironment, TypeOK
    <2>2. QueueHoldsQueued'
      BY <1>3, QueueKept DEF SkipDue, UpdateEnvironment, DeleteEnvironment, TypeOK
    <2> QED BY <2>1, <2>2
  <1>4. CASE ReadFleet \/ AbortPass
    <2>1. TypeOK'
      BY <1>4 DEF ReadFleet, AbortPass, Fault, TypeOK
    <2>2. QueueHoldsQueued'
      BY <1>4, QueueKept DEF ReadFleet, AbortPass, TypeOK
    <2> QED BY <2>1, <2>2
  <1>5. CASE Dequeue
    <2> DEFINE h == Head(queue)
    <2>1. /\ h \in Job /\ h = queue[1] /\ Len(queue) \in Nat \ {0}
          /\ Tail(queue) \in Seq(Job)
          /\ Len(Tail(queue)) = Len(queue) - 1
          /\ \A i \in 1 .. Len(queue) - 1 : Tail(queue)[i] = queue[i + 1]
      BY <1>5, TailFacts DEF Dequeue, TypeOK
    <2>2. phase[h] = "queued"
      BY <2>1 DEF QueueHoldsQueued
    <2>3. TypeOK'
      BY <1>5, <2>1, <2>2 DEF Dequeue, TypeOK
    <2>4. \A k \in Job : k # h => phase'[k] = phase[k]
      BY <1>5, <2>1 DEF Dequeue, TypeOK
    <2>5. phase'[h] = "started"
      BY <1>5, <2>1 DEF Dequeue, TypeOK
    <2>6. queue' = Tail(queue)
      BY <1>5 DEF Dequeue
    <2>7. \A i \in 1 .. Len(queue) : i # 1 => queue[i] # h
      BY <2>1 DEF QueueHoldsQueued
    <2>8. \A i \in 1 .. Len(queue') : phase'[queue'[i]] = "queued"
      BY <2>1, <2>4, <2>6, <2>7 DEF QueueHoldsQueued, TypeOK
    <2>9. \A i, k \in 1 .. Len(queue') : queue'[i] = queue'[k] => i = k
      BY <2>1, <2>6 DEF QueueHoldsQueued
    <2>10. ASSUME NEW k \in Job, phase'[k] = "queued"
           PROVE  \E i \in 1 .. Len(queue') : queue'[i] = k
      <3>1. k # h /\ phase[k] = "queued"
        BY <2>4, <2>5, <2>10
      <3>2. PICK i \in 1 .. Len(queue) : queue[i] = k
        BY <3>1 DEF QueueHoldsQueued
      <3>3. i # 1
        BY <2>1, <3>1, <3>2
      <3>4. i - 1 \in 1 .. Len(queue') /\ queue'[i - 1] = k
        BY <2>1, <2>6, <3>2, <3>3
      <3> QED BY <3>4
    <2>11. QueueHoldsQueued'
      BY <2>8, <2>9, <2>10 DEF QueueHoldsQueued
    <2> QED BY <2>3, <2>11
  <1>6. ASSUME NEW j \in Job, Enqueue(j) \/ EnqueueReplyLost(j) PROVE QueueInv'
    <2>1. /\ queue' = Append(queue, j)
          /\ phase[j] \in Locking
          /\ phase' = [phase EXCEPT ![j] = "queued"]
      BY <1>6 DEF Enqueue, EnqueueReplyLost
    <2>2. /\ queue' \in Seq(Job)
          /\ Len(queue') = Len(queue) + 1 /\ Len(queue) \in Nat
          /\ \A i \in 1 .. Len(queue) : queue'[i] = queue[i]
          /\ queue'[Len(queue) + 1] = j
      BY <2>1, AppendFacts DEF TypeOK
    <2>3. TypeOK'
      <3>1. CASE Enqueue(j)
        BY <2>1, <2>2, <3>1 DEF Enqueue, TypeOK
      <3>2. CASE EnqueueReplyLost(j)
        BY <2>1, <2>2, <3>2 DEF EnqueueReplyLost, EndPassOf, Fault, TypeOK
      <3> QED BY <1>6, <3>1, <3>2
    <2>4. \A k \in Job : phase'[k] = IF k = j THEN "queued" ELSE phase[k]
      BY <2>1 DEF TypeOK
    <2>5. \A i \in 1 .. Len(queue) : queue[i] # j /\ queue[i] \in Job
      BY <2>1 DEF QueueHoldsQueued, TypeOK
    <2>6. \A i \in 1 .. Len(queue') : phase'[queue'[i]] = "queued"
      BY <2>2, <2>4, <2>5 DEF QueueHoldsQueued
    <2>7. \A i, k \in 1 .. Len(queue') : queue'[i] = queue'[k] => i = k
      BY <2>2, <2>5 DEF QueueHoldsQueued
    <2>8. \A k \in Job : phase'[k] = "queued" => \E i \in 1 .. Len(queue') : queue'[i] = k
      BY <2>2, <2>4 DEF QueueHoldsQueued
    <2> QED BY <2>3, <2>6, <2>7, <2>8 DEF QueueHoldsQueued
  <1>7. ASSUME NEW j \in Job, EnqueueRefused(j) \/ EnqueuerDies(j) PROVE QueueInv'
    <2>1. TypeOK'
      <3>1. Retire(j) /\ EndPassOf(j) /\ faults < MaxFaults /\ faults' = faults + 1
        BY <1>7 DEF EnqueueRefused, EnqueuerDies, Fault
      <3>2. UNCHANGED <<row, age, queue>>
        BY <1>7 DEF EnqueueRefused, EnqueuerDies
      <3>5. lock' \in [Env -> 0 .. LockTTL]
        <4>1. lock' = [lock EXCEPT ![env[j]] = 0] \/ lock' = lock
          BY <1>7 DEF EnqueueRefused, EnqueuerDies
        <4>2. lock \in [Env -> 0 .. LockTTL] /\ 0 \in 0 .. LockTTL
          BY DEF TypeOK
        <4> QED BY <4>1, <4>2
      <3>3. pass' \in SUBSET Env
        BY <3>1 DEF EndPassOf, TypeOK
      <3>4. faults' \in 0 .. MaxFaults
        BY <3>1 DEF TypeOK
      <3> QED BY <3>1, <3>2, <3>3, <3>4, <3>5, RetireTyped DEF TypeOK
    <2>2. QueueHoldsQueued'
      BY <1>7, QueueKept DEF EnqueueRefused, EnqueuerDies, Retire, TypeOK
    <2> QED BY <2>1, <2>2
  <1>8. ASSUME NEW j \in Job,
               \/ BeginExecution(j) \/ Complete(j) \/ Raise(j)
               \/ RecordFailure(j) \/ HandlerRaises(j)
        PROVE QueueInv'
    <2>1. TypeOK'
      <3>1. /\ phase' \in [Job -> Phase]
            /\ \A k \in Job : phase'[k] # "idle" => phase[k] # "idle"
        BY <1>8 DEF BeginExecution, Complete, Raise, RecordFailure,
                    HandlerRaises, TypeOK
      <3>2. left' \in [Job -> Nat]
        BY <1>8 DEF BeginExecution, Complete, Raise, RecordFailure,
                    HandlerRaises, TypeOK
      <3>3. age' \in [Env -> 0 .. SyncInterval]
        <4>1. age' = [age EXCEPT ![env[j]] = 0] \/ age' = age
          BY <1>8 DEF BeginExecution, Complete, Raise, RecordFailure,
                      HandlerRaises, Dated
        <4>2. age \in [Env -> 0 .. SyncInterval] /\ 0 \in 0 .. SyncInterval
          BY DEF TypeOK
        <4> QED BY <4>1, <4>2
      <3>4. faults' \in 0 .. MaxFaults
        BY <1>8 DEF BeginExecution, Complete, Raise, RecordFailure,
                    HandlerRaises, Fault, TypeOK
      <3>5. UNCHANGED <<row, lock, queue, env, pass>>
        BY <1>8 DEF BeginExecution, Complete, Raise, RecordFailure, HandlerRaises
      <3> QED BY <3>1, <3>2, <3>3, <3>4, <3>5 DEF TypeOK
    <2>2. QueueHoldsQueued'
      BY <1>8, QueueKept DEF BeginExecution, Complete, Raise, RecordFailure,
                             HandlerRaises, TypeOK
    <2> QED BY <2>1, <2>2
  <1>9. ASSUME NEW j \in Job,
               BeginRaises(j) \/ Release(j) \/ ReleaseFails(j) \/ WorkHorseDies(j)
        PROVE QueueInv'
    <2>1. TypeOK'
      <3>1. Retire(j) /\ UNCHANGED <<row, age, queue, pass>>
        BY <1>9 DEF BeginRaises, Release, ReleaseFails, WorkHorseDies
      <3>2. lock' \in [Env -> 0 .. LockTTL]
        BY <1>9 DEF BeginRaises, Release, ReleaseFails, WorkHorseDies, TypeOK
      <3>3. faults' \in 0 .. MaxFaults
        BY <1>9 DEF BeginRaises, Release, ReleaseFails, WorkHorseDies, Fault, TypeOK
      <3> QED BY <3>1, <3>2, <3>3, RetireTyped DEF TypeOK
    <2>2. QueueHoldsQueued'
      BY <1>9, QueueKept DEF BeginRaises, Release, ReleaseFails, WorkHorseDies,
                             Retire, TypeOK
    <2> QED BY <2>1, <2>2
  <1>10. CASE Tick
    <2>1. TypeOK'
      BY <1>10 DEF Tick, OnTime, Outstanding, TypeOK
    <2>2. QueueHoldsQueued'
      BY <1>10, QueueKept DEF Tick, TypeOK
    <2> QED BY <2>1, <2>2
  <1>11. CASE UNCHANGED vars
    BY <1>11 DEF vars, TypeOK, QueueHoldsQueued
  <1> QED
    BY <1>1, <1>2, <1>3, <1>4, <1>5, <1>6, <1>7, <1>8, <1>9, <1>10, <1>11 DEF Next

LEMMA QueueInvariant == Spec => []QueueInv
  BY QueueInvInit, QueueInvNext, PTL DEF Spec

\* Every variable keeps its type, with every failure the model knows.
THEOREM TypeCorrect == Spec => []TypeOK
  <1>1. QueueInv => TypeOK
    BY DEF QueueInv
  <1> QED BY <1>1, QueueInvariant, PTL

\* The list of RQ holds exactly the jobs that are queued, each once: no lost
\* reply, crash or deletion loses a job or runs it twice.
THEOREM QueueIntact == Spec => []QueueHoldsQueued
  <1>1. QueueInv => QueueHoldsQueued
    BY DEF QueueInv
  <1> QED BY <1>1, QueueInvariant, PTL

-----------------------------------------------------------------------------
(* Mutual exclusion.  AtMostOneFlight alone is not inductive: a step that     *)
(* finds the key missing must know that no job of the environment is alive,   *)
(* and the step that deletes a key must know whose it is.  LockOutlivesJob    *)
(* says both: the key of every outstanding job is there, with more time left  *)
(* than the job may still take.                                               *)

FlightInv == AtMostOneFlight /\ LockOutlivesJob

\* The slots that a step leaves alone stay covered when their keys do.
LEMMA Covered ==
  ASSUME NEW k \in Job, UNCHANGED <<phase[k], env[k], left[k], lock[env[k]]>>,
         lock[env[k]] > Budget(k)
  PROVE  lock'[env'[k]] > Budget(k)'
  BY DEF Budget

LEMMA BudgetNat ==
  ASSUME TypeOK, NEW j \in Job
  PROVE  Budget(j) \in Nat
  BY ConstantsAssumption DEF Budget, TypeOK

LEMMA FlightInit == Init => FlightInv
  BY DEF Init, FlightInv, AtMostOneFlight, LockOutlivesJob, Outstanding

\* A request that sets the key starts the only flight of its environment, and
\* the key has the time of the whole flight to live.
LEMMA FlightAcquire ==
  ASSUME Timely, TypeOK, FlightInv,
         NEW e \in Env, NEW j \in Job, NEW w \in Locking, Acquire(e, j, w)
  PROVE  FlightInv'
  <1> USE ConstantsAssumption
  <1>1. \A k \in Outstanding : env[k] # e
    <2> SUFFICES ASSUME NEW k \in Outstanding, env[k] = e PROVE FALSE
      OBVIOUS
    <2>1. lock[e] > Budget(k)
      BY DEF FlightInv, LockOutlivesJob
    <2> QED BY <2>1, BudgetNat DEF Acquire, LockFree, Outstanding, TypeOK
  <1>2. /\ phase'[j] = w /\ env'[j] = e /\ left'[j] = MaxWait
        /\ lock'[e] = LockTTL
        /\ \A k \in Job : k # j => UNCHANGED <<phase[k], env[k], left[k]>>
        /\ \A d \in Env : d # e => lock'[d] = lock[d]
    BY DEF Acquire, TypeOK
  <1>3. Outstanding' = Outstanding \cup {j} /\ j \notin Outstanding
    BY <1>2 DEF Outstanding, Acquire, Locking
  <1>4. \A k \in Outstanding : env'[k] # e /\ env'[k] = env[k]
    BY <1>1, <1>2, <1>3 DEF Outstanding
  <1>5. AtMostOneFlight'
    BY <1>2, <1>3, <1>4 DEF FlightInv, AtMostOneFlight
  <1>6. lock'[env'[j]] > Budget(j)'
    <2>1. Budget(j)' = MaxWait + (JobTimeout + CleanupTime)
      BY <1>2 DEF Budget, Locking
    <2> QED BY <1>2, <2>1 DEF Timely
  <1>7. \A k \in Outstanding : lock'[env'[k]] > Budget(k)'
    <2> TAKE k \in Outstanding
    <2>1. k \in Job /\ k # j /\ env[k] \in Env /\ env[k] # e
      BY <1>1, <1>3 DEF Outstanding, TypeOK
    <2> QED BY <1>2, <2>1, Covered DEF FlightInv, LockOutlivesJob
  <1> QED
    BY <1>3, <1>5, <1>6, <1>7 DEF FlightInv, LockOutlivesJob

\* A slot that returns to idle, whatever it does to the key of its environment.
LEMMA FlightRetire ==
  ASSUME TypeOK, FlightInv, NEW j \in Outstanding, Retire(j),
         lock' = lock \/ lock' = [lock EXCEPT ![env[j]] = 0]
  PROVE  FlightInv'
  <1>1. \A k \in Job : /\ phase'[k] = IF k = j THEN "idle" ELSE phase[k]
                       /\ k # j => UNCHANGED <<env[k], left[k]>>
    BY RetireTyped DEF Outstanding
  <1>2. Outstanding' = Outstanding \ {j}
    BY <1>1 DEF Outstanding
  <1>3. AtMostOneFlight'
    BY <1>1, <1>2 DEF FlightInv, AtMostOneFlight, Outstanding
  <1>4. ASSUME NEW k \in Outstanding' PROVE lock'[env'[k]] > Budget(k)'
    <2>1. k \in Outstanding /\ k # j /\ k \in Job
      BY <1>2 DEF Outstanding
    <2>2. env[k] \in Env /\ env[k] # env[j]
      BY <2>1 DEF FlightInv, AtMostOneFlight, Outstanding, TypeOK
    <2>3. lock'[env[k]] = lock[env[k]]
      BY <2>2 DEF TypeOK
    <2>4. UNCHANGED <<phase[k], env[k], left[k], lock[env[k]]>>
      BY <1>1, <2>1, <2>3
    <2>5. lock[env[k]] > Budget(k)
      BY <2>1 DEF FlightInv, LockOutlivesJob
    <2> QED BY <2>1, <2>4, <2>5, Covered
  <1> QED
    BY <1>3, <1>4 DEF FlightInv, LockOutlivesJob

\* A step within one flight that keeps the key and does not raise the budget.
LEMMA FlightContinues ==
  ASSUME TypeOK, FlightInv, NEW j \in Outstanding,
         UNCHANGED <<lock, env>>,
         phase'[j] # "idle", Budget(j)' \in Int, Budget(j)' <= Budget(j),
         \A k \in Job : k # j => UNCHANGED <<phase[k], left[k]>>
  PROVE  FlightInv'
  <1>1. Outstanding' = Outstanding
    BY DEF Outstanding
  <1>2. AtMostOneFlight'
    BY <1>1 DEF FlightInv, AtMostOneFlight
  <1>3. ASSUME NEW k \in Outstanding PROVE lock'[env'[k]] > Budget(k)'
    <2>1. lock[env[k]] > Budget(k) /\ k \in Job
      BY DEF FlightInv, LockOutlivesJob, Outstanding
    <2>2. CASE k = j
      <3>1. lock[env[k]] \in Int
        BY DEF Outstanding, TypeOK
      <3>2. Budget(k) \in Int
        BY <2>1, BudgetNat
      <3> QED BY <2>1, <2>2, <3>1, <3>2
    <2>3. CASE k # j
      BY <2>1, <2>3, Covered
    <2> QED BY <2>2, <2>3
  <1> QED
    BY <1>1, <1>2, <1>3 DEF FlightInv, LockOutlivesJob

\* One tick takes as much from the key as from the budget of its job.
LEMMA FlightTick ==
  ASSUME TypeOK, FlightInv, Tick
  PROVE  FlightInv'
  <1>1. Outstanding' = Outstanding /\ env' = env /\ phase' = phase
    BY DEF Tick, Outstanding
  <1>2. AtMostOneFlight'
    BY <1>1 DEF FlightInv, AtMostOneFlight
  <1>3. ASSUME NEW k \in Outstanding PROVE lock'[env'[k]] > Budget(k)'
    <2>1. k \in Job /\ env[k] \in Env /\ left[k] \in Nat /\ left[k] > 0
      BY DEF Tick, OnTime, Outstanding, TypeOK
    <2>2. lock[env[k]] \in Nat /\ lock[env[k]] > Budget(k) /\ Budget(k) \in Nat
      BY <2>1, BudgetNat DEF FlightInv, LockOutlivesJob, TypeOK
    <2>3. left'[k] = left[k] - 1
      BY <2>1 DEF Tick, Outstanding
    <2>4. lock'[env[k]] = lock[env[k]] - 1
      BY <2>1, <2>2 DEF Tick
    <2>5. Budget(k)' = Budget(k) - 1
      BY <1>1, <2>1, <2>3, ConstantsAssumption DEF Budget
    <2> QED BY <1>1, <2>2, <2>4, <2>5
  <1> QED
    BY <1>1, <1>2, <1>3 DEF FlightInv, LockOutlivesJob

LEMMA FlightNext == Timely /\ QueueInv /\ FlightInv /\ [Next]_vars => FlightInv'
  <1> SUFFICES ASSUME Timely, QueueInv, FlightInv, [Next]_vars PROVE FlightInv'
    OBVIOUS
  <1> TypeOK /\ QueueHoldsQueued
    BY DEF QueueInv
  <1> USE ConstantsAssumption
  <1>1. ASSUME NEW e \in Env, NEW j \in Job, SyncEnvironment(e, j) \/ EnqueueDue(e, j)
        PROVE FlightInv'
    <2>1. Acquire(e, j, "apiLocked") \/ Acquire(e, j, "schedulerLocked")
      BY <1>1 DEF SyncEnvironment, EnqueueDue
    <2> QED BY <2>1, FlightAcquire DEF Locking
  <1>2. ASSUME UNCHANGED <<lock, phase, env, left>> PROVE FlightInv'
    BY <1>2 DEF FlightInv, AtMostOneFlight, LockOutlivesJob, Outstanding, Budget
  <1>3. CASE Dequeue
    <2>0. Head(queue) \in Job /\ phase[Head(queue)] = "queued"
      BY <1>3, TailFacts DEF Dequeue, QueueHoldsQueued, TypeOK
    <2>1. PICK h \in Job : h = Head(queue) /\ phase[h] = "queued"
      BY <2>0
    <2>2. /\ phase'[h] = "started" /\ left'[h] = JobTimeout
          /\ \A k \in Job : k # h => UNCHANGED <<phase[k], left[k]>>
          /\ UNCHANGED <<lock, env>>
      BY <1>3, <2>1 DEF Dequeue, TypeOK
    <2>3. /\ Budget(h) = left[h] + (JobTimeout + CleanupTime)
          /\ Budget(h)' = JobTimeout + CleanupTime
      BY <2>1, <2>2 DEF Budget, Locking
    <2>4. left[h] \in Nat /\ h \in Outstanding
      BY <2>1 DEF TypeOK, Outstanding
    <2> QED BY <2>2, <2>3, <2>4, FlightContinues
  <1>4. ASSUME NEW j \in Job, Enqueue(j) PROVE FlightInv'
    <2>1. /\ phase[j] \in Locking /\ phase'[j] = "queued"
          /\ \A k \in Job : k # j => UNCHANGED phase[k]
          /\ UNCHANGED <<lock, env, left>>
      BY <1>4 DEF Enqueue, TypeOK
    <2>2. Budget(j)' = Budget(j)
      BY <2>1 DEF Budget, Locking
    <2>3. j \in Outstanding
      BY <2>1 DEF Outstanding, Locking
    <2> QED BY <2>1, <2>2, <2>3, BudgetNat, FlightContinues
  <1>5. ASSUME NEW j \in Job, BeginExecution(j) PROVE FlightInv'
    <2>1. /\ phase[j] = "started" /\ phase'[j] = "running"
          /\ \A k \in Job : k # j => UNCHANGED phase[k]
          /\ UNCHANGED <<lock, env, left>>
      BY <1>5 DEF BeginExecution, TypeOK
    <2>2. Budget(j)' = Budget(j)
      BY <2>1 DEF Budget, Locking
    <2>3. j \in Outstanding
      BY <2>1 DEF Outstanding
    <2> QED BY <2>1, <2>2, <2>3, BudgetNat, FlightContinues
  <1>6. ASSUME NEW j \in Job, Complete(j) \/ Raise(j) PROVE FlightInv'
    <2>1. /\ phase[j] = "running" /\ phase'[j] \in {"failing", "releasing"}
          /\ left'[j] = CleanupTime
          /\ \A k \in Job : k # j => UNCHANGED <<phase[k], left[k]>>
          /\ UNCHANGED <<lock, env>>
      BY <1>6 DEF Complete, Raise, TypeOK
    <2>2. Budget(j) = left[j] + CleanupTime /\ Budget(j)' = CleanupTime + 0
      BY <2>1 DEF Budget, Locking
    <2>3. left[j] \in Nat /\ j \in Outstanding
      BY <2>1 DEF TypeOK, Outstanding
    <2> QED BY <2>1, <2>2, <2>3, FlightContinues
  <1>7. ASSUME NEW j \in Job, RecordFailure(j) \/ HandlerRaises(j) PROVE FlightInv'
    <2>1. /\ phase[j] = "failing" /\ phase'[j] = "releasing"
          /\ \A k \in Job : k # j => UNCHANGED phase[k]
          /\ UNCHANGED <<lock, env, left>>
      BY <1>7 DEF RecordFailure, HandlerRaises, TypeOK
    <2>2. Budget(j)' = Budget(j)
      BY <2>1 DEF Budget, Locking
    <2>3. j \in Outstanding
      BY <2>1 DEF Outstanding
    <2> QED BY <2>1, <2>2, <2>3, BudgetNat, FlightContinues
  <1>8. ASSUME NEW j \in Job,
               \/ EnqueueRefused(j) \/ EnqueuerDies(j) \/ BeginRaises(j)
               \/ Release(j) \/ ReleaseFails(j) \/ WorkHorseDies(j)
        PROVE FlightInv'
    <2>1. j \in Outstanding
      BY <1>8 DEF EnqueueRefused, EnqueuerDies, BeginRaises, Release, ReleaseFails,
                  WorkHorseDies, Outstanding, Locking, OnWorker
    <2>2. Retire(j) /\ (lock' = lock \/ lock' = [lock EXCEPT ![env[j]] = 0])
      BY <1>8 DEF EnqueueRefused, EnqueuerDies, BeginRaises, Release, ReleaseFails,
                  WorkHorseDies
    <2> QED BY <2>1, <2>2, FlightRetire
  <1>9. CASE Tick
    BY <1>9, FlightTick
  <1>10. \A j \in Job : ~EnqueueReplyLost(j)
    BY DEF EnqueueReplyLost, Fault, Timely
  <1>11. ASSUME NEW e \in Env,
                SkipDue(e) \/ UpdateEnvironment(e) \/ DeleteEnvironment(e)
         PROVE  UNCHANGED <<lock, phase, env, left>>
    BY <1>11 DEF SkipDue, UpdateEnvironment, DeleteEnvironment
  <1>12. CASE ReadFleet \/ AbortPass \/ UNCHANGED vars
    BY <1>2, <1>12 DEF ReadFleet, AbortPass, vars
  <1> QED
    BY <1>1, <1>2, <1>3, <1>4, <1>5, <1>6, <1>7, <1>8, <1>9, <1>10, <1>11, <1>12
       DEF Next

\* No two syncs of one environment overlap, from the SET NX of enqueue_sync to
\* the end of the finally clause of run_environment_sync, whatever dies and
\* whatever Redis or PostgreSQL refuse, provided the deadlines add up to less
\* than the life of the key and no reply of an enqueue is lost.
THEOREM OneFlight == Timely => (Spec => []AtMostOneFlight)
  <1> SUFFICES ASSUME Timely PROVE Spec => []AtMostOneFlight
    OBVIOUS
  <1>1. FlightInv => AtMostOneFlight
    BY DEF FlightInv
  <1>2. QueueInv /\ FlightInv /\ [Next]_vars => FlightInv'
    BY FlightNext
  <1> QED BY <1>1, <1>2, FlightInit, QueueInvariant, PTL DEF Spec

\* Under the same conditions the key of a sync never expires under it, and no
\* other job's finally clause finds it to delete.
THEOREM KeyOutlivesJob == Timely => (Spec => []LockOutlivesJob)
  <1> SUFFICES ASSUME Timely PROVE Spec => []LockOutlivesJob
    OBVIOUS
  <1>1. FlightInv => LockOutlivesJob
    BY DEF FlightInv
  <1>2. QueueInv /\ FlightInv /\ [Next]_vars => FlightInv'
    BY FlightNext
  <1> QED BY <1>1, <1>2, FlightInit, QueueInvariant, PTL DEF Spec

-----------------------------------------------------------------------------
(* Refinement: a request that sets the key starts a flight, a slot that       *)
(* returns to idle lands one, every other step leaves the flights alone.      *)

Flights == [e \in Env |-> Flying(e)]

LEMMA AcquireStarts ==
  ASSUME TypeOK, FlightInv, NEW e \in Env, NEW j \in Job, NEW w \in Locking,
         Acquire(e, j, w)
  PROVE  Flight!Start(e, j)
  <1>1. \A k \in Outstanding : env[k] # e
    <2> SUFFICES ASSUME NEW k \in Outstanding, env[k] = e PROVE FALSE
      OBVIOUS
    <2>1. lock[e] > Budget(k)
      BY DEF FlightInv, LockOutlivesJob
    <2> QED BY <2>1, BudgetNat DEF Acquire, LockFree, Outstanding, TypeOK
  <1>2. Flying(e) = {}
    BY <1>1 DEF Flying
  <1>3. \A d \in Env : j \notin Flying(d)
    BY DEF Flying, Outstanding, Acquire
  <1>4. Outstanding' = Outstanding \cup {j} /\ j \notin Outstanding
    BY DEF Outstanding, Acquire, Locking, TypeOK
  <1>5. env'[j] = e /\ \A k \in Job : k # j => env'[k] = env[k]
    BY DEF Acquire, TypeOK
  <1>6. ASSUME NEW d \in Env PROVE Flying(d)' = IF d = e THEN {j} ELSE Flying(d)
    <2>1. CASE d = e
      BY <1>1, <1>4, <1>5, <2>1 DEF Flying, Outstanding
    <2>2. CASE d # e
      BY <1>4, <1>5, <2>2 DEF Flying, Outstanding
    <2> QED BY <2>1, <2>2
  <1>7. Flights' = [Flights EXCEPT ![e] = {j}]
    BY <1>6 DEF Flights
  <1> QED
    BY <1>2, <1>3, <1>7 DEF Flight!Start, Flights

LEMMA RetireLands ==
  ASSUME TypeOK, FlightInv, NEW j \in Outstanding, Retire(j)
  PROVE  Flight!Land(env[j])
  <1>1. env[j] \in Env /\ j \in Job
    BY DEF Outstanding, TypeOK
  <1>2. Outstanding' = Outstanding \ {j}
    BY <1>1, RetireTyped DEF Outstanding
  <1>3. \A k \in Job : k # j => env'[k] = env[k]
    BY <1>1, RetireTyped
  <1>4. Flying(env[j]) = {j}
    BY DEF Flying, FlightInv, AtMostOneFlight
  <1>5. ASSUME NEW d \in Env
        PROVE  Flying(d)' = IF d = env[j] THEN {} ELSE Flying(d)
    <2>1. CASE d = env[j]
      BY <1>2, <1>3, <1>4, <2>1 DEF Flying, Outstanding
    <2>2. CASE d # env[j]
      BY <1>2, <1>3, <2>2 DEF Flying, Outstanding
    <2> QED BY <2>1, <2>2
  <1>6. Flights' = [Flights EXCEPT ![env[j]] = {}]
    BY <1>1, <1>5 DEF Flights
  <1> QED
    BY <1>1, <1>4, <1>6 DEF Flight!Land, Flights

LEMMA FlightStep ==
  Timely /\ QueueInv /\ FlightInv /\ [Next]_vars => [Flight!Next]_Flights
  <1> SUFFICES ASSUME Timely, QueueInv, FlightInv, [Next]_vars
               PROVE  [Flight!Next]_Flights
    OBVIOUS
  <1> TypeOK /\ QueueHoldsQueued
    BY DEF QueueInv
  <1>1. ASSUME NEW e \in Env, NEW j \in Job, SyncEnvironment(e, j) \/ EnqueueDue(e, j)
        PROVE Flight!Next
    <2>1. Acquire(e, j, "apiLocked") \/ Acquire(e, j, "schedulerLocked")
      BY <1>1 DEF SyncEnvironment, EnqueueDue
    <2>2. Flight!Start(e, j)
      BY <2>1, AcquireStarts DEF Locking
    <2> QED BY <2>2 DEF Flight!Next
  <1>2. ASSUME NEW j \in Job,
               \/ EnqueueRefused(j) \/ EnqueuerDies(j) \/ BeginRaises(j)
               \/ Release(j) \/ ReleaseFails(j) \/ WorkHorseDies(j)
        PROVE Flight!Next
    <2>1. j \in Outstanding
      BY <1>2 DEF EnqueueRefused, EnqueuerDies, BeginRaises, Release, ReleaseFails,
                  WorkHorseDies, Outstanding, Locking, OnWorker
    <2>2. Retire(j)
      BY <1>2 DEF EnqueueRefused, EnqueuerDies, BeginRaises, Release, ReleaseFails,
                  WorkHorseDies
    <2>3. Flight!Land(env[j]) /\ env[j] \in Env
      BY <2>1, <2>2, RetireLands DEF Outstanding, TypeOK
    <2> QED BY <2>3 DEF Flight!Next
  <1>3. ASSUME Outstanding' = Outstanding, env' = env PROVE Flights' = Flights
    BY <1>3 DEF Flights, Flying
  <1>4. CASE Dequeue
    <2>1. PICK h \in Job : h = Head(queue) /\ phase[h] = "queued"
      BY <1>4, TailFacts DEF Dequeue, QueueHoldsQueued, TypeOK
    <2>2. phase' = [phase EXCEPT ![h] = "started"] /\ env' = env
      BY <1>4, <2>1 DEF Dequeue
    <2> QED BY <1>3, <2>1, <2>2 DEF Outstanding, TypeOK
  <1>5. ASSUME NEW j \in Job,
               \/ Enqueue(j) \/ BeginExecution(j) \/ Complete(j) \/ Raise(j)
               \/ RecordFailure(j) \/ HandlerRaises(j)
        PROVE Flights' = Flights
    <2>1. /\ phase[j] # "idle" /\ env' = env
          /\ \E p \in Phase \ {"idle"} : phase' = [phase EXCEPT ![j] = p]
      BY <1>5 DEF Enqueue, BeginExecution, Complete, Raise, RecordFailure,
                  HandlerRaises, Phase, Locking, OnWorker
    <2> QED BY <1>3, <2>1 DEF Outstanding, TypeOK
  <1>6. ASSUME UNCHANGED <<phase, env>> PROVE Flights' = Flights
    BY <1>3, <1>6 DEF Outstanding
  <1>7. \A j \in Job : ~EnqueueReplyLost(j)
    BY DEF EnqueueReplyLost, Fault, Timely
  <1>8. ASSUME NEW e \in Env,
               SkipDue(e) \/ UpdateEnvironment(e) \/ DeleteEnvironment(e)
        PROVE  Flights' = Flights
    BY <1>6, <1>8 DEF SkipDue, UpdateEnvironment, DeleteEnvironment
  <1>9. CASE ReadFleet \/ AbortPass \/ Tick \/ UNCHANGED vars
    BY <1>6, <1>9 DEF ReadFleet, AbortPass, Tick, vars
  <1> QED
    BY <1>1, <1>2, <1>4, <1>5, <1>7, <1>8, <1>9 DEF Next

\* The lock protocol implements the promise of SingleFlight.
THEOREM LockKeepsPromise == Timely => (Spec => KeepsPromise)
  <1> SUFFICES ASSUME Timely PROVE Spec => KeepsPromise
    OBVIOUS
  <1>1. Init => Flight!Init
    BY DEF Init, Flight!Init, Flying, Outstanding
  <1>2. QueueInv /\ FlightInv /\ [Next]_vars => FlightInv'
    BY FlightNext
  <1>3. QueueInv /\ FlightInv /\ [Next]_vars => [Flight!Next]_Flights
    BY FlightStep
  <1> QED
    BY <1>1, <1>2, <1>3, FlightInit, QueueInvariant, PTL
       DEF Spec, KeepsPromise, Flight!Spec, Flights

-----------------------------------------------------------------------------
(* How much one environment at a time comes to.  The outstanding requests map *)
(* one to one into the environments: the list of RQ is no longer than the     *)
(* fleet, and as many slots as environments never withhold one.               *)

LEMMA OneEach ==
  ASSUME TypeOK, AtMostOneFlight, NEW S \in SUBSET Outstanding, NEW T,
         IsFiniteSet(T), \A j \in S : env[j] \in T
  PROVE  IsFiniteSet(S) /\ Cardinality(S) <= Cardinality(T)
  <1> DEFINE f == [j \in S |-> env[j]]
  <1>1. f \in Injection(S, T)
    BY DEF AtMostOneFlight, Injection, IsInjective
  <1> HIDE DEF f
  <1> QED BY <1>1, FS_Injection

\* An API request or a pass that finds the key of e free finds a slot for e.
\* RQ has no slots: with as many as environments, none of its behaviours is
\* lost to their number.
THEOREM SlotsSuffice ==
  Timely /\ IsFiniteSet(Env) /\ IsFiniteSet(Job) /\ Cardinality(Env) <= Cardinality(Job)
    => (Spec => [](\A e \in Env : LockFree(e) => \E j \in Job : phase[j] = "idle"))
  <1> SUFFICES ASSUME Timely, IsFiniteSet(Env), IsFiniteSet(Job),
                      Cardinality(Env) <= Cardinality(Job)
               PROVE  Spec => [](\A e \in Env : LockFree(e) => \E j \in Job : phase[j] = "idle")
    OBVIOUS
  <1>1. ASSUME TypeOK, FlightInv, NEW e \in Env, LockFree(e),
               \A j \in Job : phase[j] # "idle"
        PROVE  FALSE
    <2>1. Outstanding = Job
      BY <1>1 DEF Outstanding
    <2>2. \A j \in Job : env[j] \in Env \ {e}
      BY <1>1, <2>1, BudgetNat DEF FlightInv, LockOutlivesJob, LockFree, TypeOK
    <2>3. /\ IsFiniteSet(Env \ {e}) /\ Cardinality(Env \ {e}) = Cardinality(Env) - 1
      BY FS_RemoveElement
    <2>4. Cardinality(Job) <= Cardinality(Env) - 1
      BY <1>1, <2>1, <2>2, <2>3, OneEach DEF FlightInv
    <2>5. Cardinality(Job) \in Nat /\ Cardinality(Env) \in Nat
      BY FS_CardinalityType
    <2> QED BY <2>4, <2>5
  <1>2. QueueInv /\ FlightInv => \A e \in Env : LockFree(e) => \E j \in Job : phase[j] = "idle"
    BY <1>1 DEF QueueInv
  <1>3. QueueInv /\ FlightInv /\ [Next]_vars => FlightInv'
    BY FlightNext
  <1> QED BY <1>2, <1>3, FlightInit, QueueInvariant, PTL DEF Spec

\* Nobody limits the list of RQ, but the keys do: it holds one job per environment
\* at most, however often users and passes ask, and however slow the workers are.
THEOREM QueueNoLongerThanFleet ==
  Timely /\ IsFiniteSet(Env) => (Spec => [](Len(queue) <= Cardinality(Env)))
  <1> SUFFICES ASSUME Timely, IsFiniteSet(Env)
               PROVE  Spec => [](Len(queue) <= Cardinality(Env))
    OBVIOUS
  <1>1. ASSUME TypeOK, QueueHoldsQueued, AtMostOneFlight
        PROVE  Len(queue) <= Cardinality(Env)
    <2> DEFINE places == 1 .. Len(queue)
               f == [i \in places |-> env[queue[i]]]
    <2>1. Len(queue) \in Nat /\ \A i \in places : queue[i] \in Job
      BY <1>1 DEF TypeOK
    <2>2. \A i \in places : queue[i] \in Outstanding /\ env[queue[i]] \in Env
      BY <1>1, <2>1 DEF QueueHoldsQueued, Outstanding, TypeOK
    <2>3. \A i, k \in places : env[queue[i]] = env[queue[k]] => i = k
      BY <1>1, <2>2 DEF QueueHoldsQueued, AtMostOneFlight
    <2>4. f \in Injection(places, Env)
      BY <2>2, <2>3 DEF Injection, IsInjective
    <2>5. IsFiniteSet(places) /\ Cardinality(places) = Len(queue)
      <3>1. 1 \in Int /\ Len(queue) \in Int
        BY <2>1
      <3>2. /\ IsFiniteSet(places)
            /\ Cardinality(places) = IF 1 > Len(queue) THEN 0 ELSE Len(queue) - 1 + 1
        BY <3>1, FS_Interval, ZenonT(40)
      <3> QED BY <2>1, <3>2
    <2> HIDE DEF f, places
    <2>6. Cardinality(places) <= Cardinality(Env)
      BY <2>4, <2>5, FS_Injection, ZenonT(40)
    <2> QED BY <2>5, <2>6
  <1>2. QueueInv /\ FlightInv => Len(queue) <= Cardinality(Env)
    BY <1>1 DEF QueueInv, FlightInv
  <1>3. QueueInv /\ FlightInv /\ [Next]_vars => FlightInv'
    BY FlightNext
  <1> QED BY <1>2, <1>3, FlightInit, QueueInvariant, PTL DEF Spec

=============================================================================
