SPECIFICATION Spec
CONSTANTS
  Readers = {r1, r2}
  Writers = {w1, w2}
  Vals = {a, b}
  PIPESIZE = 2
  NMod = 4
  MaxLen = 3
  Killable = {r1, w1}
  Closers = {r1, r2, w1, w2}
INVARIANTS PipeSound SleeperHasReason
PROPERTIES FifoSpec
CHECK_DEADLOCK FALSE
SYMMETRY Symmetry
