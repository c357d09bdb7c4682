\* A window of 4 bytes, copies of up to 5 and streams of up to 9: copies longer than the
\* window, copies that wrap, and up to two flushes before the last one.
SPECIFICATION FairSpec
CONSTANTS
  WSIZE = 4
  Byte = {0, 1}
  Zero = 0
  MaxLen = 5
  MaxOut = 9
INVARIANTS
  TypeOK
  WindowIsHistory
  CopyInBounds
PROPERTIES
  ImplementsLz77
  CopyEnds
CHECK_DEADLOCK FALSE
