\* The proportions of param.h and mkfs.c: LOGSIZE = 3 * MAXOPBLOCKS, a log of
\* LOGSIZE blocks, and operations that write MAXOPBLOCKS blocks.
SPECIFICATION Spec
CONSTANTS
  Blocks = {b1, b2, b3}
  Vals = {0}
  NoBuf = NoBuf
  Procs = {p1, p2, p3}
  MAXOPBLOCKS = 1
  LOGSIZE = 3
  NLOG = 3
  OpWrites = 1
INVARIANT SpaceSuffices
