CONSTANTS
  Types = {ppt, docx}
  MaxArtifacts = 3
  Savers = {s1}
  DbMayFail = TRUE
SPECIFICATION Spec
INVARIANTS
  OneReadyCurrent
  LineageSound
  ResultsAreTrue
  RunningIsOwned
PROPERTIES
  ReadyIsNotLost
  KeepsHistory
  KeepsContract
SYMMETRY MCSymmetry
CHECK_DEADLOCK FALSE
