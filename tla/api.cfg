SPECIFICATION Spec
CONSTANTS
  ka = ka
  kb = kb
  sa = sa
  sb = sb
  Keys = {ka}
  Srvs = {sa}
  TaskIds = {1, 2}
  Params = {0, 1, 2, 3}
  MaxRuns = 2
  MaxInt = 9
  Nodes = {n1}
  Slots = {1, 2}
  Clients = {c1, c2}
  MaxTime = 3
  PageSize = 2
  MaxCalls = 3
  MaxFaults = 1
  RouteTimeoutSec = 3
  ResultColumns = TRUE
  SrvModes = {"sync"}
  Env = {"crash", "db", "registry", "tool"}
  CronNextAt <- MCCronNextAt
  Requests <- OneShot
INVARIANTS
  OneShotRunsOnce
PROPERTIES
  StoppedNotClaimed
CHECK_DEADLOCK FALSE
