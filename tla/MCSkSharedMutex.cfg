SPECIFICATION Spec
CONSTANTS
  Threads = {t1, t2, t3, t4}
  kCountMask = 4
  BitOr <- MCBitOr
INVARIANTS
  MutualExclusion
  CountsAgree
PROPERTIES
  ImplementsLock
  WritersServed
  ReadersServed
