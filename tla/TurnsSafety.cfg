CONSTANTS
  Types = {ppt, docx}
  StopNodes <- MCStopNodes
  Requests = {r1, r2, r3}
  MaxInputs = 3
  None = None
SPECIFICATION TurnsFairSpec
INVARIANTS
  RunHasOwner
  MisplacedLostARace
PROPERTIES
  QuestionsAreAnswered
  WaitersEnd
CHECK_DEADLOCK FALSE
