SPECIFICATION Spec
CONSTANTS
  HSIZE = 2
  NALLOC = 5
  HeapMax = 16
  Requests = {1, 3, 5}
  Char = {1, 2, 3}
  OldChar = 3
  NO_OF_PROC = 2
  RESMAX = 3
  Inputs <- FileLists
  NDIRECT = 1
  NBLOCKS = 6
  NSlots = 4
  Images <- AllImages
INVARIANTS HeapInv ZipExact XCheckExact
CHECK_DEADLOCK FALSE
