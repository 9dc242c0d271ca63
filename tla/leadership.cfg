CONSTANTS
  Procs = {p1, p2}
  Ttl = 3
  AnswerTime = 1
  ListenTime = 4
  Budgets <- B
SPECIFICATION FairSpec
CHECK_DEADLOCK FALSE
INVARIANTS
  FencesInTime
  NoYoungRivals
PROPERTIES
  LeaseKept
  TakesOver
