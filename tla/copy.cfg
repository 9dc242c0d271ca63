CONSTANTS
  KeyCount = 2
  PageSize = 1
  HoldMax = 1
  MaxLog = 2
  Crashes = 2
  ReadErrors = 1
SPECIFICATION FairSpec
CHECK_DEADLOCK FALSE
INVARIANTS
  CopyConverges
  ResumePointSafe
PROPERTIES
  CopySettles
