CONSTANTS
  Procs = {p1, p2}
  MaxStreams = 3
  Budgets <- BudgetAll
SPECIFICATION FairSpec
CHECK_DEADLOCK FALSE
PROPERTIES
  RunningIsRead
  FollowersFallSilent
  StopsEnd
