SPECIFICATION FairSpec
CONSTANTS
  ka = ka
  kb = kb
  sa = sa
  sb = sb
  Keys = {ka, kb}
  Srvs = {sa}
  TaskIds = {1, 2}
  Params = {0, 1, 2, 3}
  MaxRuns = 3
  MaxInt = 9
  Nodes = {n1, n2}
  Slots = {1}
  Clients = {c1}
  MaxTime = 2
  PageSize = 1
  MaxCalls = 2
  MaxFaults = 1
  RouteTimeoutSec = 3
  ResultColumns = FALSE
  SrvModes = {"sync", "async"}
  Env = {"crash", "db", "net"}
  CronNextAt <- MCCronNextAt
  Requests <- MovedTasks
INVARIANTS
  RunsWithinCalls
  LossBounded
PROPERTIES
  ReadyTaskClaimed
  ReadyTaskStarted
  StartedRunGetsResult
CHECK_DEADLOCK FALSE
