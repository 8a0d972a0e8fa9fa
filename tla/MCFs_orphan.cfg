SPECIFICATION Spec
CONSTANTS
  Procs = {p1}
  NINODES = 5
  NINODE = 4
  DBlocks = {1, 2, 3, 4}
  MAXFILE = 2
  Names = {"d", "f"}
  Program = "f"
  MaxCalls = 6
  Calls <- OrphanCalls
  MayCrash = FALSE
INVARIANT NoPanic
CHECK_DEADLOCK FALSE
