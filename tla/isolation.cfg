CONSTANTS
  MaxRows = 8
  Targets <- MCTargets
  MaxBad = 3
  Blips = 2
  MaxAttempts = 6
  MaxPoisoned = 2
  FailuresBeforeSystemic = 3
SPECIFICATION Spec
CHECK_DEADLOCK FALSE
INVARIANTS
  EachRowOnce
  HeldExactly
  InnocentSpared
  OneBadRowFound
