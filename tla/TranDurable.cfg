CONSTANTS
  Keys = {1, 2}
  Values = {}
  Tombstone = tomb
  PerMemLimit = 2
  TolMemLimit = 4
  LevelRatio = 5
  MaxLevel = 1
  MaxTrancId = 3
  MaxCrashes = 0
  Isolation = {"REPEATABLE_READ"}
  MaxOps = 2
SPECIFICATION TranSpec
INVARIANTS TranTypeOK FlushedIdsOnDisk FlushedWhole NoDirtyReads
PROPERTIES CleanOpenReplaysNothing ConflictSeenInMemory
