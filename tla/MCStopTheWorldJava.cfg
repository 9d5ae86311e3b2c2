SPECIFICATION FairSpec
CONSTANTS
  Threads = {main, t1}
  main = main
  Daemons = {}
  JavaCode = TRUE
  OutOfMemory = FALSE
  NULL = NULL
PROPERTY EveryCollectionEnds
CHECK_DEADLOCK FALSE
