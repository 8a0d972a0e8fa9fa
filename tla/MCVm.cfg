SPECIFICATION Spec
CONSTANTS
  NPROC = 2
  NFrames = 16
  PGSIZE = 2
  KERNBASE = 10
  AddrMod = 20
  NPTE = 2
  KTables = 1
  ExecSizes = {1, 6}
  SbrkArgs <- MCSbrkArgs
INVARIANTS NoneFreedInUse SizeSound PanicsConfined
PROPERTIES OnlyCopyLeaks
CHECK_DEADLOCK FALSE
