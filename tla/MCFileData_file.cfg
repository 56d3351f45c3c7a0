SPECIFICATION Spec
CONSTANTS
  Writer = {p1, p2}
  File = {1, 2}
  Data = {5, 6, 7, 8, 9}
  Byte = {0, 1, 2}
  NDIRECT = 1
  NINDIRECT = 3
  BSIZE = 2
  MAXOPBLOCKS = 6
  Workloads <- Loads
  Root = 1
  RootBytes = 1
SYMMETRY Symmetry
INVARIANTS BlocksInv ReadsWhatWasWritten InodeWritten FitsTransaction
CHECK_DEADLOCK FALSE
