SPECIFICATION FairSpec
CONSTANTS
  NPROC = 3
  NCPU = 2
  MaxPid = 4
  KillPids <- AnyPid
  Threads = {TRUE, FALSE}
INVARIANTS TableInv NoExitMissed TablesOwned
PROPERTIES KilledExits OrphansReaped
CHECK_DEADLOCK FALSE
