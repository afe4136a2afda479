SPECIFICATION FairSpec
CONSTANTS
  ka = ka
  kb = kb
  sa = sa
  sb = sb
  Keys = {ka, kb}
  Srvs = {sa, sb}
  TaskIds = {1, 2}
  Params = {0, 1, 2, 3}
  MaxRuns = 2
  MaxInt = 9
  Nodes = {n1}
  Slots = {1}
  Clients = {c1}
  MaxTime = 2
  PageSize = 1
  MaxCalls = 2
  MaxFaults = 0
  RouteTimeoutSec = 3
  ResultColumns = TRUE
  SrvModes = {"sync"}
  Env = {"registry"}
  CronNextAt <- MCCronNextAt
  Requests <- TwoServices
PROPERTIES
  ClaimedWithAllWorkers
CHECK_DEADLOCK FALSE
