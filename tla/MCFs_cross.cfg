SPECIFICATION Spec
CONSTANTS
  Proc = {p1, p2}
  Inum = {1, 2, 3}
  Root = 1
  Workloads <- Cross
SYMMETRY Symmetry
INVARIANTS NoWaitCycle
CHECK_DEADLOCK FALSE
