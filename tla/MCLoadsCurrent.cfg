SPECIFICATION Spec
CONSTANTS
  Cores = {c1, c2}
  Vers = 2
  NAckAlways = FALSE
  EarlyVictim = FALSE
SYMMETRY CoreSymmetry
INVARIANT LoadsCurrent
