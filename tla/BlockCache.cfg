CONSTANTS
  Readers = {t1, t2}
  BlockIds = {0, 1}
  Capacity = 3
  K = 3
  MaxBuilds = 2
SPECIFICATION Spec
SYMMETRY ThreadSymmetry
INVARIANTS ReadsOwnFile MapAgrees EvictsOldest
