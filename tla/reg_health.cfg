SPECIFICATION FairSpec
CONSTANTS
  sa = sa
  sb = sb
  x = x
  y = y
  Srvs = {sa, sb}
  Addrs = {x, y}
  Nodes = {n1}
  Slots = {1}
  Clients = {c1}
  PageSize = 1
  MaxCalls = 3
  MaxFaults = 1
  Env = {"die", "elect", "fail", "net"}
  Requests <- OneMachineEach
INVARIANTS
  NeglectBounded
PROPERTIES
  DeadRouteRemoved
CHECK_DEADLOCK FALSE
