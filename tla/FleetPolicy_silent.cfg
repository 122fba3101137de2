CONSTANTS
  Env = {e1}
  Request = {q1}
  Value = {off, on}
  Wanted = {off, on}
  Missing = Missing
  Absent = off
  Rules = {"controller_setting"}
  Events = {"upstream"}
  MaxEvents = 1
SPECIFICATION Spec
PROPERTY SilentKeepsSnapshot
