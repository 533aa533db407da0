CONSTANTS
  Writers = {w}
  Readers = {r1, r2}
  Committers = {}
  PerMemLimit = 1
  TolMemLimit = 3
  QueuedWritersBlock = TRUE
  MaxTrancId = 7
SPECIFICATION Spec
PROPERTIES NoMissedVersion CallsReturn
