SPECIFICATION TreeSpec
CONSTANTS
  BitsPerLevel = 1
  LevelCount = 3
  Keys = {0, 1, 3, 4, 6, 7}
  Values = {"v", "w"}
  NoValue = NoValue
  MaxCount = 3
  FailAfter = {0}
  RemoveAny = FALSE
INVARIANTS
  LookupPrevExact
CHECK_DEADLOCK FALSE
