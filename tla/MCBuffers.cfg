SPECIFICATION FairSpec
CONSTANTS
  Procs = {p1, p2}
  Bufs = {b1, b2}
  Values = {0, 1}
  Blocks = {1, 2, 3}
  Flaky = {3}
  MaxHeld = 2
  MaxDirty = 1
  MaxCalls = 3
  NoOne = NoOne
  NoBlock = NoBlock
  NoBuf = NoBuf
  Zero = 0
INVARIANTS CacheExact
PROPERTIES ImplementsBlockStore EveryCallReturns
CHECK_DEADLOCK FALSE
