SPECIFICATION SWSpec
CONSTANTS
  Procs = {p1, p2, p3}
  Killable = {p1, p2, p3}
  CPUs = {c1, c2}
  None = None
  MaxTokens = 2
SYMMETRY Symmetry
INVARIANTS OnOneCpu LocksExact
PROPERTY ImplementsAtomicWait
