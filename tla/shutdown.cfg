SPECIFICATION FairSpec
CONSTANTS
  Checkers = {c1, c2}
  Workers = {w1, w2}
  Requests = {r1, r2}
  MaxPages = 2
  PageSize = 2
  BatchSize = 2
INVARIANTS
  TypeOK
  NoWorkCut
  AdmittedHandled
PROPERTIES
  ShutdownEndsUnlessObstructed
CHECK_DEADLOCK FALSE
