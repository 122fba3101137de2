CONSTANTS
  Button = {c1}
  Poll = {c1, c2}
  Listing = {c1, c2, c3}
  Alert = {a1}
  Filter = {f1, f2}
  RuleType = {"require_tls_verification", "controller_setting"}
  Tagged = {"aap"}
  Value = {v1, v2}
  Default = v1
  Reader = {r1}
  Browser = {b1}
  Env = {e1, e2}
  User = {root, d1, u1}
  Root = root
  Delegate = d1
  Home = e1
  Failed = {4, 5}
  Credential = {t1, t2}
  None = None
  Bound = 2
SPECIFICATION FairSpec
INVARIANTS
  TypeOK DismissedIsOnRecord KeepsToForm AnswersAreCurrent SavedPreferencesStay
  SessionsFollowAccount DelegationStaysInside AddressOpensShown
  WarningsAreExplained CriticalMeansFailed LatestTokenIsUsed ClosedMeansRegistered
PROPERTIES
  BellSettles JobsPageSettles OnlyLogOutSignsOut
CHECK_DEADLOCK FALSE
