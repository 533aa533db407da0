CONSTANTS
  Keys = {1, 2}
  Values = {v}
  Tombstone = tomb
  PerMemLimit = 1
  TolMemLimit = 3
  LevelRatio = 2
  MaxLevel = 2
  MaxTrancId = 4
SPECIFICATION LiveSpec
INVARIANTS TypeOK ReadsLatest RecencyOrder FrozenBytesExact IInv MemScanExact ScanFindsAll BatchFindsStored
PROPERTIES DrainTerminates ImplementsMvccStore
