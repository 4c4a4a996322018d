SPECIFICATION SchedSpec
CONSTANTS
  ECores = {e1}
  PCores = {q1}
  None = None
  NPROC = 3
  MaxPid = 4
PROPERTY OldestFirst
CHECK_DEADLOCK FALSE
