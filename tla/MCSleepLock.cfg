SPECIFICATION SLFairSpec
CONSTANTS
  Procs = {p1, p2, p3}
  Killable = {p1, p2, p3}
  Misusers = {p1, p2, p3}
  NoChan = NoChan
  NoPid = NoPid
  MaxCalls = 2
INVARIANTS OwnerExact
PROPERTIES ImplementsMutex SLEveryCallReturns
CHECK_DEADLOCK FALSE
