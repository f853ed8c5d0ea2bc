CONSTANTS
  Requests = {q1, q2, q3}
  Threads = {t1, t2}
  Rows = {r1, r2}
  Contents = {x, y}
  None = None
SPECIFICATION Spec
INVARIANTS
  RowsHaveContent
  UploadsAreKept
  DuplicatesHaveCause
  TempFilesAreOwned
SYMMETRY MCSymmetry
CHECK_DEADLOCK FALSE
