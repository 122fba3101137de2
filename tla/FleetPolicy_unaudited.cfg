CONSTANTS
  Env = {e1, e2}
  Request = {q1}
  Value = {off, on}
  Wanted = {off, on}
  Missing = Missing
  Absent = off
  Rules = {"controller_setting"}
  Events = {"delete"}
  MaxEvents = 1
SPECIFICATION Spec
CHECK_DEADLOCK FALSE
INVARIANT EffectsAudited
