SPECIFICATION PSpec
CONSTANTS
  Procs = {p1, p2}
  Killable = {p2}
  NoChan = NoChan
  NumNodes = 2
  Priorities <- SomePriorities
  MaxCalls = 1
INVARIANT MutualExclusion
CHECK_DEADLOCK FALSE
