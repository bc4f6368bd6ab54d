SPECIFICATION Spec
CONSTANTS
  A = A
  B = B
  C = C
  D = D
  E = E
  AB = AB
  CD = CD
  JustE = JustE
  MaxPages = 1
  NumPlots = 1
  Room = 1
  RecentlyUsedCount = 0
  CompactDivisor = 1
  Glyphs = {A, B, C, D, E}
  SubRuns = {AB, CD, JustE}
  GlyphsOf <- MCGlyphsOf
  MaxSubRuns = 2
  MaxFlushes = 2
  MaxBails = 0
  None = None
INVARIANTS DrawsReadTheirGlyphs
CHECK_DEADLOCK FALSE
