SPECIFICATION Spec
CONSTANTS
  Readers = {r1}
  Writers = {w1}
  Byte = {0}
  PIPESIZE = 1
  Wrap = 2
  MaxN = 1
  Killable = {r1}
  None = None
INVARIANTS KilledAwake
