CONSTANTS
  Keys = {1}
  Values = {v1, v2}
  Tombstone = tomb
  PerMemLimit = 5
  TolMemLimit = 10
  LevelRatio = 2
  MaxLevel = 2
  MaxTrancId = 2
  MaxCrashes = 0
  Isolation = {"READ_UNCOMMITTED"}
  MaxOps = 2
SPECIFICATION TranSpec
INVARIANTS CommitsReadBack
