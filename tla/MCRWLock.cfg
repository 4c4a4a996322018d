SPECIFICATION RWFairSpec
CONSTANTS
  Procs = {p1, p2, p3}
  Killable = {p1, p2, p3}
  NoChan = NoChan
  MaxCalls = 2
INVARIANTS CountsAgree RWNoLostWakeup
PROPERTIES ImplementsReadersWriters RWEveryCallReturns
CHECK_DEADLOCK FALSE
