SPECIFICATION FilesSpec
CONSTANTS
  Callers = {p1, p2}
  Inums = {1, 2, 3, 4, 5}
  Names = {"d", "f"}
  Calls <- AllCalls
  MaxCalls = 2
INVARIANTS LinksExact NothingDangles DeadlocksExplained
SYMMETRY Symmetry
CHECK_DEADLOCK FALSE
