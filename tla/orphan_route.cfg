SPECIFICATION Spec
CONSTANTS
  sa = sa
  sb = sb
  x = x
  y = y
  Srvs = {sa}
  Addrs = {x, y}
  Nodes = {}
  Slots = {}
  Clients = {c1, c2}
  PageSize = 1
  MaxCalls = 3
  MaxFaults = 0
  Env = {}
  Requests <- TwoMachines
INVARIANTS
  NoOrphanRoute
CHECK_DEADLOCK FALSE
