CONSTANTS
  Writers = {w1, w2}
  Readers = {}
  Committers = {w2}
  PerMemLimit = 1
  TolMemLimit = 3
  QueuedWritersBlock = FALSE
  MaxTrancId = 4
SPECIFICATION CommitSpec
PROPERTIES CallsReturn
CHECK_DEADLOCK FALSE
