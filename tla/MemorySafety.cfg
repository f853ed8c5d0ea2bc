CONSTANTS
  Ops = {p1, p2, p3}
  Ids = {m1, m2}
  SearchLimit = 1
  SelectionLimit = 1
  None = None
SPECIFICATION Spec
INVARIANTS
  EditsLast
  RetrievalIsCurrent
PROPERTY ForgottenStaysForgotten
SYMMETRY MCSymmetry
CHECK_DEADLOCK FALSE
