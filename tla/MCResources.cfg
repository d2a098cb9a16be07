SPECIFICATION Spec
CONSTANTS
  Procs = {p1, p2}
  Entries = {e1, e2, e3}
  MafSize = 2
  QueueSize = 4
  EBSize = 2
SYMMETRY Symmetry
INVARIANTS
  TypeOK
  QueueAccounting
  NoReservations
  EBAccounting
  MafAccounting
  FillReserved
  Ownership
CHECK_DEADLOCK FALSE
