SPECIFICATION PFairSpec
CONSTANTS
  Procs = {p1, p2, p3, p4}
  Killable = {p3, p4}
  NoChan = NoChan
  NumNodes = 4
  Priorities <- SomePriorities
  MaxCalls = 1
INVARIANTS NodesOwned QueueExact
PROPERTIES HandOverToHighest ExclusiveUntilKill PEveryCallReturns
CHECK_DEADLOCK FALSE
