SPECIFICATION Spec
CONSTANTS
  Cores = {c1, c2}
  Vers = 1
  NAckAlways = TRUE
  EarlyVictim = TRUE
CHECK_DEADLOCK FALSE
SYMMETRY CoreSymmetry
INVARIANT WriteBackAwaited
