CONSTANTS
  Env = {e1, e2}
  Job = {j1, j2, j3}
  NoEnv = NoEnv
  WorkerCount = 2
  LockTTL = 4
  JobTimeout = 1
  MaxWait = 1
  CleanupTime = 1
  SyncInterval = 1
  Faults <- SomeFaults
  MaxFaults = 1
SYMMETRY Slots
SPECIFICATION Spec
INVARIANTS TypeOK AtMostOneFlight LockOutlivesJob QueueHoldsQueued
PROPERTY KeepsPromise

