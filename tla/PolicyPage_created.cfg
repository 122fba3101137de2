CONSTANTS
  Call = {c1}
  RuleType = {"require_tls_verification", "controller_setting"}
  Tagged = {"aap"}
  MaxClicks = 1
SPECIFICATION PolicySpec
INVARIANT WaitsForEnable
CHECK_DEADLOCK FALSE
