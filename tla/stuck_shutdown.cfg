SPECIFICATION FairSpec
CONSTANTS
  Checkers = {c1}
  Workers = {w1}
  Requests = {r1}
  MaxPages = 2
  PageSize = 2
  BatchSize = 1
PROPERTIES
  ShutdownEnds
CHECK_DEADLOCK FALSE
