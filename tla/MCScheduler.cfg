SPECIFICATION SchedFairSpec
CONSTANTS
  ECores = {e1}
  PCores = {q1}
  None = None
  NPROC = 4
  MaxPid = 5
INVARIANTS OnOneCpu
PROPERTIES FullQuantum NoStarvation
CHECK_DEADLOCK FALSE
