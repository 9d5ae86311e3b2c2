SPECIFICATION TreeSpec
CONSTANTS
  BitsPerLevel = 1
  LevelCount = 4
  Keys = {0, 8, 12}
  Values = {"v", "w"}
  NoValue = NoValue
  MaxCount = 3
  FailAfter = {0, 1, 2}
  RemoveAny = FALSE
INVARIANTS
  LookupPrevExact
CHECK_DEADLOCK FALSE
