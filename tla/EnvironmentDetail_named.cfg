CONSTANTS
  Env = {e1, e2}
  NoEnv = NoEnv
  Task = {t1, t2}
  Resource <- Inventory
  NoResource = NoResource
  Unmanaged = {e2}
  Quiet = {e1}
  Orchestrator = {e1}
  MayFollow = TRUE
  MayFail = TRUE
  MaxChanges = 1
SPECIFICATION Spec
INVARIANT RemovesWhatWasNamed
