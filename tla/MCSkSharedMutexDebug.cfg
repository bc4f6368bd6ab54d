SPECIFICATION Spec
CONSTANTS
  Threads = {t1, t2, t3, t4}
INVARIANTS
  AssertionsHold
  QueuesApart
PROPERTIES
  ImplementsLock
  WritersServed
  EveryReaderServed
