SPECIFICATION Spec
CONSTANTS
  t1 = t1
  t2 = t2
  apple = apple
  cider = cider
  orange = orange
  kiwi = kiwi
  appleName = appleName
  orangeName = orangeName
  kiwiName = kiwiName
  NULL = NULL
  Threads = {t1}
  Classes = {apple, cider, orange, kiwi}
  Impl <- MCImpl
  ClassOf <- MCClassOf
  VmNative = {}
  JniNative = {kiwiName}
INVARIANTS
  VirtualDispatch
CHECK_DEADLOCK FALSE
