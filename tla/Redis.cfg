CONSTANTS
  Clients = {c1, c2, c3}
  Keys = {k}
  Items = {1, 2}
  Scores <- DisjointScores
  Deletable = {"string", "hash", "list"}
  Seconds = {0, 1}
  MaxTime = 3
  MaxLen = 3
  MaxNumber = 2
SYMMETRY ThreadSymmetry
SPECIFICATION Spec
INVARIANTS HashAgrees SetCountExact ZRangeComplete RangeExact
PROPERTIES CleanWhole
