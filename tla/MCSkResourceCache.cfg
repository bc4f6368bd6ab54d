SPECIFICATION Spec
CONSTANTS
  Threads = {t1, t2, t3}
  Bitmaps = {b1, b2}
  Datas = {m1, m2}
  Blocks <- MCBlocks
  Bytes <- MCBytes
  Budgets = {2}
  Images = {i1, i2}
  ByteLimit = 100
  CountLimit = 3
  MaxInbox = 1
  None = None
SYMMETRY Symmetry
INVARIANTS LockedWhileSeen CountsAgree PoolAgrees CacheAgrees
CHECK_DEADLOCK FALSE
