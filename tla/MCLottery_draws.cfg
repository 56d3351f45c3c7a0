SPECIFICATION Spec
CONSTANTS
  NSLOT = 3
  IntMax = 1023
  Workloads <- Loads
  Slack = 240
  Gap = 48
INVARIANTS FairShare NobodyStarves TicksAreOwn
PROPERTIES SomebodyRuns
CHECK_DEADLOCK FALSE
