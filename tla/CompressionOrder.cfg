CONSTANTS
  KeepRecentTurns = 2
  MaxMessages = 10
SPECIFICATION Spec
INVARIANT SummaryFirst
CHECK_DEADLOCK FALSE
