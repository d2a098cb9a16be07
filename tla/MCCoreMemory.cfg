SPECIFICATION FairSpec
CONSTANTS
  Programs <- MCPrograms
  BlockOf <- MCBlockOf
  SBSize = 2
  MaxPrefetches = 1
  MaxReplies = 2
  MaxSnoops = 1
  MaxDisturb = 2
INVARIANT TypeOK
INVARIANT WaitersKnown
INVARIANT PermissionKept
INVARIANT ForwardedFromYoungest
INVARIANT UnorderedLoadsCurrent
PROPERTY ProgramFinishes
CHECK_DEADLOCK FALSE
