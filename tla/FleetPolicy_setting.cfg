CONSTANTS
  Env = {e1}
  Request = {q1, q2}
  Value = {off, on}
  Wanted = {on}
  Missing = Missing
  Absent = off
  Rules = {"controller_setting", "named_resource_present"}
  Events <- AnyEvent
  MaxEvents = 1
SPECIFICATION FairSpec
INVARIANTS TypeOK ConflictOnce KnownWasReal
PROPERTY EventuallyAgrees
CHECK_DEADLOCK FALSE
