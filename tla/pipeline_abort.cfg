CONSTANTS
  LastPos = 4
  Keys <- MCKeys
  Logs <- EventLogs
  MaxBatch = 2
  Window = 1
  OnError = "abort"
  CanIsolate = FALSE
  SettleAttempts = 2
  MaxConsecutive = 2
  DeadLetterMax = 2
  LongLinger = TRUE
  Budgets <- BudgetAbort
SPECIFICATION FairSpec
CHECK_DEADLOCK FALSE
PROPERTIES
  CatchesUp
  HaltEnds
