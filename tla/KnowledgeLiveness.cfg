CONSTANTS
  MaxFiles = 1
  Supported = {1}
  Contents = {c1}
  None = None
  Requests = {r1, r2, r3}
  MaxCrashes = 1
  DbMayFail = TRUE
SPECIFICATION FairSpec
PROPERTIES
  IngestionSettles
CHECK_DEADLOCK FALSE
