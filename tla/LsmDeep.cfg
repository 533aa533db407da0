CONSTANTS
  Keys = {1, 2}
  Values = {}
  Tombstone = tomb
  PerMemLimit = 0
  TolMemLimit = 1
  LevelRatio = 2
  MaxLevel = 3
  MaxTrancId = 5
SPECIFICATION Spec
INVARIANTS ReadsLatest LevelsSorted
PROPERTIES SnapshotReadsStable ImplementsMvccStore
