CONSTANTS
  Env = {e1}
  Run = {r1, r2, r3}
  NoEnv = NoEnv
  Outcome <- Extremes
  WorkerCount = 2
  MayLapse = TRUE
  Faults <- NoDeath
SPECIFICATION FairSpec
PROPERTY ExecutionSettles
CHECK_DEADLOCK FALSE
