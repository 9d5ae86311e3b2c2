SPECIFICATION FairSpec
CONSTANTS
  Threads = {t1, t2}
  base = base
  sub = sub
  user = user
  Classes = {base, sub, user}
  Super <- AcyclicSuper
  Uses <- AcyclicUses
  NULL = NULL
INVARIANTS
  OneInitialiser
  SuperFirst
PROPERTIES
  UsableOnReturn
  RequestsEnd
