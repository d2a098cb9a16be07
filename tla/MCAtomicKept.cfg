CONSTANTS
  Cpus = {c1, c2}
  Dwords = {d1}
  Parts = {hi, lo}
  MaxWrites = 3
  MaxBuffer = 2
  Devices = FALSE
SPECIFICATION Spec
CHECK_DEADLOCK FALSE
INVARIANT ImageCorrectBeforeAdvance
