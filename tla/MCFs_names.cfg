SPECIFICATION Spec
CONSTANTS
  Proc = {p1, p2}
  Inum = {1, 2, 3, 4}
  Root = 1
  Workloads <- Loads
SYMMETRY Symmetry
INVARIANTS CacheInv Counts NoUseAfterFree NoDangling IlockHasType
CHECK_DEADLOCK FALSE
