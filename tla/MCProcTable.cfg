SPECIFICATION FairSpec
CONSTANTS
  NPROC = 4
  MaxPid = 5
  KillPids <- LivePids
INVARIANTS EmbryosOwned ParentAlive WaiterNotMissed
PROPERTY OrphansReaped
CHECK_DEADLOCK FALSE
