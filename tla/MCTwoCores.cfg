SPECIFICATION FairSpec
CONSTANTS
  Cores = {c1, c2}
  Vers = 1
  NAckAlways = FALSE
  EarlyVictim = FALSE
INVARIANTS
  TypeOK
  NoAssert
  SingleWriter
  DirectoryCovers
  NoOrphanStall
  NoOrphan
  WriteSnoopFindsBlock
PROPERTIES
  ImplementsBlockRights
  EveryEvictEnds
