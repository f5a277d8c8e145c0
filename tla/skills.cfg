SPECIFICATION Spec
CONSTANTS
  t1 = t1
  n1 = n1
  n2 = n2
  x = x
  u = u
  c1 = c1
  c2 = c2
  l1 = l1
  l2 = l2
  NoSwap = NoSwap
  NotMade = NotMade
  Returned = Returned
  NoPrompt = NoPrompt
  Tenants = {t1}
  Names = {n1, n2}
  Tools = {x, u}
  Registered = {x}
  Calls = {c1, c2}
  Loops = {l1, l2}
  TenantOf <- MCTenantOf
  Rows <- MCRows
SYMMETRY SkillSymmetry
INVARIANTS
  TypeOK
  SkillNamesUnique
PROPERTIES
  ChangesVisibleNextTurn
