SPECIFICATION Spec
CONSTANTS
  ka = ka
  kb = kb
  sa = sa
  sb = sb
  Keys = {ka}
  Srvs = {sa}
  TaskIds = {1}
  Params = {0, 1, 2, 3}
  MaxRuns = 2
  MaxInt = 9
  Nodes = {n1, n2}
  Slots = {1}
  Clients = {c1}
  MaxTime = 3
  PageSize = 2
  MaxCalls = 2
  MaxFaults = 1
  RouteTimeoutSec = 3
  ResultColumns = TRUE
  SrvModes = {"async"}
  Env = {"crash", "db", "elect", "net", "tool"}
  CronNextAt <- MCCronNextAt
  Requests <- OneTask
INVARIANTS
  TypeOK
  RunClaimedOnce
  CallbackAtMostOnce
  StartedLogFresh
  ClaimInv
  ConfirmedKept
PROPERTIES
  KeepsLedger
SYMMETRY NodeSymmetry
CHECK_DEADLOCK FALSE
