SPECIFICATION DrainedSpec
CONSTANTS
  Readers = {r1}
  Writers = {w1, w2}
  Vals = {0}
  PIPESIZE = 2
  NMod = 4
  MaxLen = 3
  Killable = {w1}
  Closers = {w1, w2}
PROPERTIES WriteEnds EofReachesReaders
CHECK_DEADLOCK FALSE
