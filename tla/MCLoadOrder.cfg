SPECIFICATION Spec
CONSTANTS
  Programs <- MCOrderPrograms
  BlockOf <- MCBlockOf
  SBSize = 2
  MaxPrefetches = 1
  MaxReplies = 2
  MaxSnoops = 1
  MaxDisturb = 2
INVARIANT AlreadyOrdered
CHECK_DEADLOCK FALSE
