SPECIFICATION FairSpec
CONSTANTS
  Proc = {p1, p2}
  CPU = {c1, c2}
  None = None
INVARIANTS SleepIInv
PROPERTIES ImplementsMutex FreeLockTaken
