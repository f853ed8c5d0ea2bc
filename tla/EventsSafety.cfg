CONSTANTS
  Threads = {t1, t2}
  Calls <- MCCalls
  MaxMessages = 1
  MaxRetries = 1
  Types <- MCTypes
  Requests <- MCRequests
  None = None
SPECIFICATION FairSpec
INVARIANTS
  StepsAreSettled
  ShownIsCurrent
  JobStepsTell
  TeacherIsTold
PROPERTIES
  EndIsLast
  StreamEnds
CHECK_DEADLOCK FALSE
