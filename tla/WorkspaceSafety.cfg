CONSTANTS
  Calls = {c1, c2, c3}
  MaxJobs = 2
  MaxAttempts = 2
  Skills = {coding, other}
  CodingSkills = {coding}
  None = None
SPECIFICATION Spec
INVARIANTS
  DeliveryWasMade
  SandboxesAreOwned
  ToolsWereAuthorised
PROPERTY EditsAreKept
SYMMETRY MCSymmetry
CHECK_DEADLOCK FALSE
