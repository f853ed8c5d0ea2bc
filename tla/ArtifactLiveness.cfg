CONSTANTS
  Types = {ppt, docx}
  MaxArtifacts = 2
  Savers = {s1}
  DbMayFail = TRUE
SPECIFICATION FairSpec
PROPERTY RunningSettles
CHECK_DEADLOCK FALSE
