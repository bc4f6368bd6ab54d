SPECIFICATION Spec
CONSTANTS
  w1 = w1
  w2 = w2
  main = main
  other = other
  a = a
  b = b
  a1 = a1
  b1 = b1
  l = l
  Null = Null
  Workers = {w1, w2}
  Clients = {main, other}
  Owner = main
  Tasks = {a, b, a1, b1, l}
  AddedBy <- MCAddedBy
  Loose = {l}
INVARIANTS TokensHaveWork RunOnce WaitMeansRun FifoRunsAll BorrowGetsWork
PROPERTY WaitsReturn
