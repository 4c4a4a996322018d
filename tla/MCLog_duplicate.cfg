SPECIFICATION Spec
CONSTANTS
  Procs = {p1}
  Blocks = {b1, b2, b3, b4, b5, b6}
  Values = {v0}
  Blank = v0
  LOGSIZE = 6
  LogBlocks = 6
  NBUF = 6
  MAXOPBLOCKS = 2
  OpBlocks = 6
  MaxOps = 1
  MaxCrashes = 0
INVARIANT NeverTooBig
CHECK_DEADLOCK FALSE
