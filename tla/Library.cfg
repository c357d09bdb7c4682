\* Transfers of up to 11 bytes, within, at and across the limit and the end of the address
\* space.  Images scaled down: sectors of 4 bytes, clicks of 2, bytes of 4 values; a setup of
\* 0 to 3 sectors against a default of 2, with and without a rest; systems around the limits
\* of 6 and 18 clicks, the second beyond the 16 values of the size that is patched.  Page
\* tables of 10 entries: one of them maps 100 words, and the kernel's BSS goes beyond that.
SPECIFICATION MCSpec
CONSTANTS
  UserWord = 32
  UserLimit = 24
  UserBases = {0, 13, 16, 23, 24, 31}
  UserSizes = {0, 1, 2, 3, 4, 5, 6, 7, 11}
  Sector = 4
  BufSize = 8
  Click = 2
  ByteSize = 4
  SETUP_SECTS = 2
  DEF_SYSSIZE = 6
  BigSysSize = 18
  SetupSizes = {0, 3, 8, 9, 12}
  SystemSizes = {0, 7, 12, 13, 36, 37}
  Formats <- MCFormats
  Arguments <- MCArguments
  ShortBits = 3
  IntBits = 4
  LongLongBits = 5
  PointerWidth = 2
  lines = 2
  cols = 5
  RawRow = 1
  RawCols = 5
  ByteBits = 3
  Texts <- MCTexts
  Messages <- MCMessages
  Buffers = {8, 6}
  TableSize = 10
  KernelAt = 20
  RealMode = 8
  _edata = 2
  end = 4
  idt_table = 71
  idt_entries = 3
  __bss_start = 97
  _end = 110
  BOOT_USER_PGD_PTRS = 4
  EnoughMemory = 1
  Words = 3
  Machines <- MCMachines
CHECK_DEADLOCK FALSE
INVARIANTS
  Agrees
  Inside
  Reported
PROPERTIES
  Ends
