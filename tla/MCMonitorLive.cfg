SPECIFICATION FairSpec
CONSTANTS
  Threads = {t1, t2}
  Objects = {o1}
  Records = {r1}
  Ops = {"lock", "unlock", "wait", "interrupt", "exit", "notify"}
  MaxDepth = 2
  SEM_VALUE_MAX = 1
  QuiescentExit = TRUE
  NULL = NULL
PROPERTIES
  BlockedIsWoken
  FlushEnds
  InterruptWakesWaiter
  ImplementsJavaMonitor
  NotifyIsNotMissed
CHECK_DEADLOCK FALSE
