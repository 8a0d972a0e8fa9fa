SPECIFICATION Spec
CONSTANTS
  Procs = {p1, p2}
  NINODES = 5
  NINODE = 3
  DBlocks = {1, 2, 3}
  MAXFILE = 2
  Names = {"d", "f"}
  Program = "f"
  MaxCalls = 4
  Calls <- MCCalls
  MayCrash = TRUE
INVARIANTS TypeOK LookupNeverStuck RefCount NoPanic Consistent
SYMMETRY Symmetry
CHECK_DEADLOCK FALSE
