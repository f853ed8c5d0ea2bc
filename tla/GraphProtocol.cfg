CONSTANTS
  Types = {ppt, docx}
  StopNodes <- MCStopNodes
  MaxInputs = 6
SPECIFICATION FairSpec
INVARIANTS
  FanInReportsJobs
  DesignHasMetadata
PROPERTIES
  FollowsProtocol
  KeepsContract
  RunEnds
CHECK_DEADLOCK FALSE
