SPECIFICATION SystemSpec
CONSTANTS
  ka = ka
  sa = sa
  x = x
  Srvs = {sa}
  Addrs = {x}
  Nodes = {n1}
  PageSize = 1
  Requests <- OneMachine
  Slots = {1}
  Clients = {rc}
  MaxCalls = 2
  MaxFaults = 1
  Env = {"die", "fail", "net"}
  Keys = {ka}
  TaskIds = {1}
  Params = {1}
  MaxTime = 2
  MaxRuns = 1
  MaxInt = 9
  CronNextAt <- MCCronNextAt
  RouteTimeoutSec = 3
  ResultColumns = TRUE
  SrvModes = {"sync"}
  TaskSlots = {1}
  TaskClients = {tc}
  TaskRequests <- OneTask
  TaskMaxCalls = 1
  TaskMaxFaults = 1
  TaskEnv = {"crash", "registry"}
PROPERTIES
  ImplementsTaskRun
  UnroutedInPassing
CHECK_DEADLOCK FALSE
