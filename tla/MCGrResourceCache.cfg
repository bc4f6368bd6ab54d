SPECIFICATION Spec
CONSTANTS
  Resources = {r1, r2, r3}
  ScratchKeys = {s1}
  UniqueKeys = {u1, u2}
  Null = Null
  Sizes = {2}
  Limits = {5}
  Stamps = 4
  SizeT = 16
  MaxRefs = 1
  MaxOwed = 0
  Requests = {3}
INVARIANTS
  QueuesAgree
  KeysAgree
  BytesAgree
  StampsFollowUse
PROPERTIES
  NothingInUsePurged
  PurgedToBudget
SYMMETRY Symmetry
CHECK_DEADLOCK FALSE
