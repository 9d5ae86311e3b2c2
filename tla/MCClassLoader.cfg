SPECIFICATION FairSpec
CONSTANTS
  base = base
  app = app
  array = array
  Threads = {t1, t2}
  Names = {base, app, array}
  JavaNames = {app}
  Before <- BeforeLoading
  During <- WhileLoading
  Entries = {e1, e2, e3}
  NULL = NULL
INVARIANTS
  DefinedOnce
  EntriesInUse
  NotFoundIsTransient
PROPERTY CallsEnd
