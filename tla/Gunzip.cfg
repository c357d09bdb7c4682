SPECIFICATION FairSpec
CONSTANTS
  Files <- MCFiles
  MaxData = 6
  LitBits = {7, 9}
  DistBits = {6}
  SubBits = {6}
  CodeBits = {1, 4, 9}
  LenExtra = {0, 5}
  DistExtra = {0, 13}
  LenCounts = {4}
  StoredLens = {0, 1}
  Tables = {4}
  ArenaSize = 13
INVARIANTS
  TypeOK
  BitBudget
  BootsOnlyIfValid
  AcceptsValid
  NeverOutOfMemory
PROPERTIES
  Ends
