\* Pids 1, 9 and 264 share one of 8 buckets, 264 only for its high byte.
\* Addresses 0 and 1 are in a page, 3 in the next one of the same table, 5 in another table.
SPECIFICATION Spec
CONSTANTS
  Heads = {h1, h2}
  Entries = {e1, e2, e3}
  Junk = Junk
  Tasks = {t1, t2, t3}
  init_task = init_task
  NULL = NULL
  Pids = {{0}, {0, 3}, {3, 8}}
  HashBits = 3
  PAGE_SHIFT = 1
  PGDIR_SHIFT = 2
  PTRS = 2
  Addresses = {0, 1, 3, 5}
  FRAME = 12
  Frames = {{12}, {12, 13}}
  SwapTypes = {{}, {0, 5}}
  SwapOffsets = {{0, 4}}
  VmFlags = {{}, {"READ"}, {"READ", "WRITE"}, {"WRITE", "SHARED"}}
SYMMETRY Symmetry
INVARIANTS
  Linked
PROPERTIES
  Refines
