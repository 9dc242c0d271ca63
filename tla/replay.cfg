CONSTANTS
  Rows = 3
  Sizes = {2, 3}
  Targets = {t1, t2}
  Workers = {w1, w2}
  Abort = TRUE
  Budgets <- BudgetAll
SPECIFICATION FairSpec
CHECK_DEADLOCK FALSE
INVARIANTS
  CompletedMeansAll
  NotWrittenAgain
  BehindCursor
PROPERTIES
  RunEnds
