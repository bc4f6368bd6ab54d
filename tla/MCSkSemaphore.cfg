SPECIFICATION MCSpec
CONSTANTS
  Threads = {t1, t2, t3, t4}
  TokenUsers = {t1, t2, t3}
  InitCount = 1
  MaxSignal = 2
  MaxTokens = 2
  Null = Null
INVARIANTS
  SleepersPaidFor
  CreatedOnce
  OwnerIsHolder
  HolderIsAlone
PROPERTIES
  ImplementsSemaphore
  NoLostWakeUp
  MutexServed
CHECK_DEADLOCK FALSE
