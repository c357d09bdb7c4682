SPECIFICATION Spec
CONSTANTS
  LengthLists <- MCLists
  Lookups = {1, 2, 4}
  BMAX = 9
  MaxCodes = 5
  MaxBits = 4
INVARIANTS
  DecodesForAnySize
