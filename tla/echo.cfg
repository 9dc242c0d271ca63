CONSTANTS
  ta = ta
  tb = tb
  tc = tc
  Tables = {ta, tb, tc}
  Graphs <- OneReader
  Values = {v1, v2}
  Ops = {"write", "delete", "truncate"}
  Polls = {}
  Remembers = 3
  Budgets <- BudgetAll
SPECIFICATION FairSpec
CHECK_DEADLOCK FALSE
INVARIANTS
  NoWayBack
  Converged
PROPERTIES
  Settles
