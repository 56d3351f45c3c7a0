SPECIFICATION FairSpec
CONSTANTS
  Proc = {p1, p2}
  Block = {b1, b2}
  Data = {d0, d1}
  LOGSIZE = 8
  MAXOPBLOCKS = 4
  NLog = 8
  OpBlocks = 2
  None = None
INVARIANTS SpaceIInv
PROPERTIES ImplementsAtomicDisk SleepersWake
