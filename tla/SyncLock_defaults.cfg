CONSTANTS
  Env = {e1}
  Job = {j1, j2}
  NoEnv = NoEnv
  WorkerCount = 1
  LockTTL = 3
  JobTimeout = 3
  MaxWait = 1
  CleanupTime = 1
  SyncInterval = 1
  Faults = {}
  MaxFaults = 0
SPECIFICATION Spec
INVARIANT AtMostOneFlight
