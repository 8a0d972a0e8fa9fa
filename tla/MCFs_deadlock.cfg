SPECIFICATION Spec
CONSTANTS
  Procs = {p1, p2}
  NINODES = 4
  NINODE = 3
  DBlocks = {1, 2, 3}
  MAXFILE = 2
  Names = {"d", "f"}
  Program = "f"
  MaxCalls = 2
  Calls <- OneName
  MayCrash = FALSE
INVARIANT NoDeadlock
SYMMETRY Symmetry
CHECK_DEADLOCK FALSE
