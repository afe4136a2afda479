SPECIFICATION Spec
CONSTANTS
  sa = sa
  sb = sb
  x = x
  y = y
  Srvs = {sa}
  Addrs = {x, y}
  Nodes = {}
  Slots = {}
  Clients = {c1}
  PageSize = 1
  MaxCalls = 4
  MaxFaults = 0
  Env = {}
  Requests <- TwoMachines
INVARIANTS
  FlagMeansChecked
CHECK_DEADLOCK FALSE
