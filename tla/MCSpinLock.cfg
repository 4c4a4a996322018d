SPECIFICATION SpinSpec
CONSTANTS
  Processors = {c1, c2}
  Locks = {1, 2}
  NoCpu = NoCpu
SYMMETRY Symmetry
INVARIANTS NeverPanics InterruptsExact
PROPERTY ImplementsMutex
