CONSTANTS
  LastPos = 4
  Keys <- MCKeys
  Logs <- FewLogs
  MaxBatch = 2
  Window = 1
  OnError = "continue"
  CanIsolate = TRUE
  SettleAttempts = 2
  MaxConsecutive = 2
  DeadLetterMax = 2
  LongLinger = TRUE
  Budgets <- BudgetContinue
SPECIFICATION Spec
CHECK_DEADLOCK FALSE
INVARIANTS
  NothingLost
  TimelineTruthful
  DestinationFresh
PROPERTIES
  SettledStays
