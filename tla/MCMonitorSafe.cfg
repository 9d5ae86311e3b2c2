SPECIFICATION Spec
CONSTANTS
  Threads = {t1, t2, t3}
  Objects = {o1}
  Records = {r1, r2}
  Ops = {"lock", "unlock", "timedWait", "notify"}
  MaxDepth = 1
  SEM_VALUE_MAX = 2
  QuiescentExit = TRUE
  NULL = NULL
SYMMETRY Symmetry
INVARIANTS
  TypeOK
  MutualExclusion
  RecordPlacement
  Counters
  StaleRecordIsOwned
  WaitersKeepRecord
  NoLostWakeup
CHECK_DEADLOCK FALSE
