SPECIFICATION Spec
CONSTANTS
  Resources = {r1, r2, r3}
  ScratchKeys = {s1}
  UniqueKeys = {}
  Null = Null
  Sizes = {1}
  Limits = {1}
  Stamps = 4
  SizeT = 16
  MaxRefs = 1
  MaxOwed = 3
  Requests = {}
INVARIANT MessageHasEntry
SYMMETRY Symmetry
CHECK_DEADLOCK FALSE
CONSTRAINT Unwrapped
