SPECIFICATION FairSpec
CONSTANTS
  Threads = {main, t1, t2}
  main = main
  Daemons = {t2}
  JavaCode = TRUE
  OutOfMemory = TRUE
  NULL = NULL
INVARIANTS
  WorldIsStopped
  CountsAgree
PROPERTIES
  ExitIsLast
  WaitsEnd
CHECK_DEADLOCK FALSE
