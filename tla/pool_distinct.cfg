SPECIFICATION FairSpec
CONSTANTS
  c1 = c1
  c2 = c2
  c3 = c3
  c4 = c4
  a = a
  b = b
  c = c
  d = d
  Callers = {c1, c2, c3, c4}
  SessionIds = {a, b, c, d}
  MaxConcurrent = 2
  AllocatorSlots = 1
  DistinctIds = TRUE
INVARIANTS
  HeldIsTracked
PROPERTIES
  WaitersServed
