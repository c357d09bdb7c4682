SPECIFICATION Spec
CONSTANTS
  Cpus = {c1, c2}
  Procs = {t1, t2, t3}
  SpinCpus = {c1, c2, c3}
  SpinHalf = 3
  RwBias = 5
  RwHalf = 10
  Count = 1
  Sleepers = {t1, t2}
  MaxItems = 2
  Users = {t1, t2}
  MaxDepth = 1
INVARIANTS
  TypeOK
  CountKept
  NoLostWakeup
PROPERTIES
  Excludes
  Served
