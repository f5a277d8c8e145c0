SPECIFICATION Spec
CONSTANTS
  c1 = c1
  c2 = c2
  c3 = c3
  c4 = c4
  a = a
  b = b
  Callers = {c1, c2, c3, c4}
  SessionIds = {a, b}
  MaxConcurrent = 2
  AllocatorSlots = 2
  DistinctIds = FALSE
SYMMETRY PoolSymmetry
INVARIANTS
  TypeOK
  PermitsConserved
  PermitImpliesSlot
  TrackedIsHeld
PROPERTIES
  ImplementsSlotPool
