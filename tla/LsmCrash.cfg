CONSTANTS
  Keys = {1, 2}
  Values = {}
  Tombstone = tomb
  PerMemLimit = 0
  TolMemLimit = 1
  LevelRatio = 2
  MaxLevel = 3
  MaxTrancId = 3
  MaxCrashes = 1
SPECIFICATION CrashSpec
INVARIANTS SstIdsUnique
PROPERTIES FlushedStaysOnDisk
