SPECIFICATION ResSpec
CONSTANTS
  Procs <- MCProcs
  NPages = 14
  KernelTables = 1
  TablePages = 1
  MaxSize = 2
  NFILE = 4
  NOFILE = 3
  PIPESIZE = 2
  CounterSize = 4
  Sizes = {1, 3}
  MaxCalls = 4
INVARIANTS PagesExact FilesExact NobodyForgotten
CHECK_DEADLOCK FALSE
