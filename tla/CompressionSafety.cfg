CONSTANTS
  KeepRecentTurns = 2
  MaxMessages = 11
SPECIFICATION Spec
INVARIANTS
  NothingElseForgotten
PROPERTY KeepsMemory
CHECK_DEADLOCK FALSE
