SPECIFICATION Spec
CONSTANTS
  Cores = 2
  Blocks = {a, b}
  L1Assoc = 1
  L2Assoc = 1
SYMMETRY BlockSymmetry
INVARIANTS
  TypeOK
  NoAssert
  Coherent
  DirtyKept
PROPERTIES
  HitsAreInL2
