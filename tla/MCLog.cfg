SPECIFICATION FairSpec
CONSTANTS
  Procs = {p1, p2}
  Blocks = {b1, b2, b3, b4}
  Values = {v0, v1}
  Blank = v0
  LOGSIZE = 3
  LogBlocks = 3
  NBUF = 3
  MAXOPBLOCKS = 1
  OpBlocks = 4
  MaxOps = 1
  MaxCrashes = 2
INVARIANTS FinishedDurable
PROPERTIES ImplementsAtomicStore EveryCallBegins
CHECK_DEADLOCK FALSE
