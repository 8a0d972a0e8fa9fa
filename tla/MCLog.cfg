\* The log mkfs makes (NLOG = LOGSIZE); room for two of three operations at a
\* time, each writing two blocks less than begin_op() reserves.
SPECIFICATION FairSpec
CONSTANTS
  Blocks = {b1, b2}
  Vals = {0, 1}
  NoBuf = NoBuf
  Procs = {p1, p2, p3}
  MAXOPBLOCKS = 3
  LOGSIZE = 6
  NLOG = 6
  OpWrites = 1
INVARIANTS CommitSound CleanMatchesDisk SleeperHasReason
PROPERTIES AtomicDiskSpec WaitersProgress CommitEnds
