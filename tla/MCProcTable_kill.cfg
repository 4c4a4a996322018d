SPECIFICATION Spec
CONSTANTS
  NPROC = 2
  MaxPid = 3
  KillPids <- AnyPids
PROPERTY BornAlive
CHECK_DEADLOCK FALSE
