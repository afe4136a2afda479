SPECIFICATION Spec
CONSTANTS
  sa = sa
  sb = sb
  x = x
  y = y
  Srvs = {sa}
  Addrs = {x, y}
  Nodes = {n1}
  Slots = {1}
  Clients = {c1, c2}
  PageSize = 1
  MaxCalls = 4
  MaxFaults = 1
  Env = {"die", "net", "restart"}
  Requests <- TwoMachines
INVARIANTS
  TypeOK
  NoEmptySrv
  EmptySrvSettled
PROPERTIES
  HealthyServiceKept
SYMMETRY ClientSymmetry
CHECK_DEADLOCK FALSE
