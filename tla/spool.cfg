CONSTANTS
  LastPos = 3
  Keys <- MCKeys
  Logs <- SafetyLogs
  MaxBatch = 2
  SpoolMax = 1
  AppendAttempts = 2
  SettleAttempts = 2
  MaxConsecutive = 3
  DeadLetterMax = 1
  OnError = "continue"
  Budgets <- BudgetSafety
SPECIFICATION Spec
CHECK_DEADLOCK FALSE
INVARIANTS
  NothingSkipped
  LastWordFresh
