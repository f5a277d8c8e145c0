SPECIFICATION Spec
CONSTANTS
  s1 = s1
  t1 = t1
  r1 = r1
  r2 = r2
  NoRow = NoRow
  NoRun = NoRun
  Sessions = {s1}
  Tenants = {t1}
  Runs = {r1, r2}
  MaxIterations = 4
  RecentTurns = 1
  MaxConcurrent = 2
  Exclusive = TRUE
SYMMETRY RunSymmetry
INVARIANTS
  CrashDetectable
  RecentTurnsVerbatim
  NoDurableTurnReplayed
PROPERTIES
  NoTurnLost
