SPECIFICATION Spec
CONSTANTS
  sa = sa
  sb = sb
  x = x
  y = y
  Srvs = {sa}
  Addrs = {x, y}
  Nodes = {n1}
  Slots = {1}
  Clients = {c1}
  PageSize = 1
  MaxCalls = 2
  MaxFaults = 0
  Env = {"die"}
  Requests <- BothChecked
PROPERTIES
  AnsweringRouteKept
CHECK_DEADLOCK FALSE
