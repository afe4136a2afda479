SPECIFICATION Spec
CONSTANTS
  ka = ka
  kb = kb
  sa = sa
  sb = sb
  Keys = {ka}
  Srvs = {sa}
  TaskIds = {1}
  Params = {0, 1, 2, 3}
  MaxRuns = 2
  MaxInt = 9
  Nodes = {n1}
  Slots = {1}
  Clients = {c1}
  MaxTime = 2
  PageSize = 2
  MaxCalls = 1
  MaxFaults = 0
  RouteTimeoutSec = 3
  ResultColumns = TRUE
  SrvModes = {"async"}
  Env = {}
  CronNextAt <- MCCronNextAt
  Requests <- OneTask
INVARIANTS
  EndedHasResult
CHECK_DEADLOCK FALSE
