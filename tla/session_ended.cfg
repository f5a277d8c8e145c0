SPECIFICATION Spec
CONSTANTS
  s1 = s1
  t1 = t1
  r1 = r1
  r2 = r2
  NoRow = NoRow
  NoRun = NoRun
  Sessions = {s1}
  Tenants = {t1}
  Runs = {r1, r2}
  MaxIterations = 2
  RecentTurns = 0
  MaxConcurrent = 2
  Exclusive = FALSE
SYMMETRY RunSymmetry
PROPERTIES
  EndedNeverRunsAgain
