CONSTANTS
  Keys = {1, 2}
  MaxTime = 3
  Cases <- MCCases
  Lookback = 1
  Late <- LateTimestamps
  PageLimit = 1
  MaxPerPoll = 2
  ScanPages = 3
  MaxConsecutive = 2
  MaxParked = 1
SPECIFICATION FairSpec
CHECK_DEADLOCK FALSE
INVARIANTS
  SkipsNothing
  EmittedOnce
PROPERTIES
  NumbersNotReused
  CatchesUp
