SPECIFICATION Spec
CONSTANTS
  Registrations <- MCRegistrations
  NameOf <- MCNameOf
  Root <- MCRoot
  Tree <- MCTree
  Links <- MCLinks
  MaxPathLen = 6
  Sessions = {s1}
  Requests <- MCRequests
  Grants <- MCGrants
  AddressesOf <- MCAddressesOf
  BodyCap = 2
  MaxBody = 3
  Files <- MCFiles
INVARIANTS
  NamesSettle
  FinalErrorsHadNoEffect
  OnlyGrantedEffects
  ResponsesAreWholeOrCut
CHECK_DEADLOCK FALSE
