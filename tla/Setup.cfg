SPECIFICATION FairSpec
CONSTANTS
  Chunk = 3
  SysStart = 7
  InitStart = 17
  Polls = 3
  Words = 3
  MaxKeys = 2
INVARIANTS
  TypeOK
  SystemMoved
  SetupKept
  A20IsOn
PROPERTIES
  NoByteLost
  ReachesKernel
