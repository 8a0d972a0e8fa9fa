SPECIFICATION FairSpec
CONSTANTS
  NBUF = 2
  Blocks = {k1, k2, k3}
  Vals = {a, z}
  Users = {u1, u2}
  Nobody = Nobody
  MaxPinned = 1
  ReadErrors = {FALSE}
INVARIANTS CacheSound RequestsSound
PROPERTIES BlockStoreSpec IoCompletes
