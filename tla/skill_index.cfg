SPECIFICATION Spec
CONSTANTS
  MaxFileSize = 1
  MaxName = 3
  MaxDescription = 2
  Tenants <- MCTenants
  TenantNamed <- MCTenantNamed
  CanonicalName <- MCCanonicalName
  Dirs <- MCDirs
  Walked <- MCWalked
  Clients = {c1, c2}
  Contents <- MCContents
  Requested <- MCRequested
  Absent = Absent
  Unreadable = Unreadable
  NoRequest = NoRequest
SYMMETRY MCSymmetry
INVARIANTS
  SkillsAreListed
  FromItsDirectory
PROPERTIES
  ListedStays
