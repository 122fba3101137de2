CONSTANTS
  Env = {e1, e2}
  Run = {r1, r2, r3}
  NoEnv = NoEnv
  Outcome <- Extremes
  WorkerCount = 2
  MayLapse = FALSE
  Faults <- AllFaults
SPECIFICATION Spec
INVARIANTS
  TypeOK
  AtMostOneOpenAlert
  OpenOnlyWhileCritical
  HistoryAgrees
  ErrorMeansCritical
  DecidesOnCurrentRow
PROPERTY KeepsAlertPromise
CHECK_DEADLOCK FALSE
