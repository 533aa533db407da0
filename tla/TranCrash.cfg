CONSTANTS
  Keys = {1}
  Values = {}
  Tombstone = tomb
  PerMemLimit = 1
  TolMemLimit = 3
  LevelRatio = 3
  MaxLevel = 1
  MaxTrancId = 2
  MaxCrashes = 1
  Isolation = {"READ_COMMITTED", "READ_UNCOMMITTED"}
  MaxOps = 1
SPECIFICATION TranSpec
INVARIANTS CommittedKept FlushedIdsOnDisk
