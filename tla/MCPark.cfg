SPECIFICATION ParkSpec
CONSTANTS
  t1 = t1
  t2 = t2
  NoLimit = NoLimit
  Parkers = {t1, t2}
  MsecPerSec = 2
  NsecPerMsec = 3
  Timeouts = {0, 1, 2, 3}
  MaxTime = 9
INVARIANTS
  SleeperHasNoPermit
CHECK_DEADLOCK FALSE
