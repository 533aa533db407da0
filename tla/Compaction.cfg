CONSTANTS
  Keys = {1, 2}
  Values = {}
  Tombstone = tomb
  BlockSizes = {2, 4}
  TargetSize = 3
  Ids = {1, 2}
SPECIFICATION Spec
INVARIANTS SearchExact ScanExact RangeComplete MergeExact
