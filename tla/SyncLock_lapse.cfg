CONSTANTS
  Env = {e1}
  Job = {j1, j2, j3}
  NoEnv = NoEnv
  WorkerCount = 1
  LockTTL = 2
  JobTimeout = 1
  MaxWait = 1
  CleanupTime = 1
  SyncInterval = 1
  Faults <- EveryFault
  MaxFaults = 2
SPECIFICATION FairSpec
PROPERTIES LockEventuallyFree DueEventuallyAttempted
