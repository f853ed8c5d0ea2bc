CONSTANTS
  MaxFiles = 2
  Supported = {1}
  Contents = {c1, c2}
  None = None
  Requests = {r1, r2, r3}
  MaxCrashes = 1
  DbMayFail = TRUE
SPECIFICATION Spec
INVARIANTS
  PendingIsCovered
  SettledConsistent
PROPERTY DeletionIsFinal
SYMMETRY MCSymmetry
CHECK_DEADLOCK FALSE
