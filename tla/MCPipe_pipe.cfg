SPECIFICATION FairSpec
CONSTANTS
  Readers = {r1}
  Writers = {w1}
  Byte = {0, 1}
  PIPESIZE = 2
  Wrap = 4
  MaxN = 3
  Killable = {r1, w1}
  None = None
INVARIANTS PipeIInv NoUseAfterFree
PROPERTIES ImplementsChannel CallsReturn
