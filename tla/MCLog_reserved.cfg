SPECIFICATION Spec
CONSTANTS
  Procs = {p1, p2, p3}
  Blocks = {b1, b2, b3, b4, b5}
  Values = {v0}
  Blank = v0
  LOGSIZE = 5
  LogBlocks = 5
  NBUF = 5
  MAXOPBLOCKS = 2
  OpBlocks = 1
  MaxOps = 2
  MaxCrashes = 0
SYMMETRY Symmetry
INVARIANT ReservationSuffices
CHECK_DEADLOCK FALSE
