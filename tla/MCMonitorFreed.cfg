SPECIFICATION Spec
CONSTANTS
  Threads = {t1, t2}
  Objects = {o1}
  Records = {r1}
  Ops = {"lock", "unlock", "exit"}
  MaxDepth = 1
  SEM_VALUE_MAX = 1
  QuiescentExit = FALSE
  NULL = NULL
INVARIANT NoUseAfterFree
