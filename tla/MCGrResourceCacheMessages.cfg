SPECIFICATION Spec
CONSTANTS
  Resources = {r1, r2}
  ScratchKeys = {s1}
  UniqueKeys = {u1}
  Null = Null
  Sizes = {1}
  Limits = {1}
  Stamps = 3
  SizeT = 16
  MaxRefs = 2
  MaxOwed = 2
  Requests = {1}
INVARIANTS
  AwaitedHeld
  MessagesMatched
  TornDownClean
SYMMETRY Symmetry
CHECK_DEADLOCK FALSE
