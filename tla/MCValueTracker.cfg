CONSTANTS
  Cpus = {c1, c2}
  Dwords = {d1}
  Parts = {hi, lo}
  MaxWrites = 5
  MaxBuffer = 3
  Devices = TRUE
SPECIFICATION Spec
SYMMETRY Symmetry
CHECK_DEADLOCK FALSE
INVARIANTS TypeOK TrackedWhileOutstanding OwnStoresSeen MemorySeen
