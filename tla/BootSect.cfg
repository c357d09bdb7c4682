SPECIFICATION FairSpec
CONSTANTS
  disksizes <- MCDisksizes
  setup_sects = 2
  syssize = 530
  SegSectors = 8
  LoadSegs = 3
  Tracks = 5
INVARIANTS
  TypeOK
  LoaderIntact
  LoadedInOrder
  ReadsAreLegal
  SystemLoaded
  Position
PROPERTIES
  ReachesSetup
