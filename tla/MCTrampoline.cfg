SPECIFICATION FairSpec
CONSTANTS
  main = main
  clinit = clinit
  print = print
  override = override
  data = data
  base = base
  derived = derived
  Threads = {t1, t2}
  Methods = {main, clinit, print, override}
  Classes = {data, base, derived}
  Entry = {main, print}
  ClassOf <- MCClassOf
  StaticMethods = {main, clinit}
  Clinit <- MCClinit
  Calls <- MCCalls
  Receivers <- MCReceivers
  Fields <- MCFields
  Slot <- MCSlot
  Sub <- MCSub
  CanFail = {override}
  NULL = NULL
PROPERTY CallsReturn
INVARIANTS CodeIsComplete SitesAreKept VtableDispatch
CHECK_DEADLOCK FALSE
