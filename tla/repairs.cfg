CONSTANTS
  k1 = k1
  k2 = k2
  Keys = {k1, k2}
  MaxLog = 2
  MaxBatch = 2
  Budgets <- BudgetAll
SPECIFICATION Spec
SYMMETRY KeySymmetry
CHECK_DEADLOCK FALSE
INVARIANTS
  RepairsConverge
  GreenIsDelivered
  VerdictTruthful
