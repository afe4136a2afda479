SPECIFICATION SystemSpec
CONSTANTS
  ka = ka
  sa = sa
  x = x
  Srvs = {sa}
  Addrs = {x}
  Nodes = {n1}
  PageSize = 1
  Requests <- OneMachine
  Slots = {1}
  Clients = {rc}
  MaxCalls = 2
  MaxFaults = 0
  Env = {}
  Keys = {ka}
  TaskIds = {1}
  Params = {1}
  MaxTime = 2
  MaxRuns = 1
  MaxInt = 9
  CronNextAt <- MCCronNextAt
  RouteTimeoutSec = 3
  ResultColumns = TRUE
  SrvModes = {"sync"}
  TaskSlots = {1}
  TaskClients = {tc}
  TaskRequests <- OneTask
  TaskMaxCalls = 1
  TaskMaxFaults = 0
  TaskEnv = {"registry"}
INVARIANTS
  WorkersStay
CHECK_DEADLOCK FALSE
