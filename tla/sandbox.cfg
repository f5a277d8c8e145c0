SPECIFICATION FairSpec
CONSTANTS
  Guests = {g1, g2, g3}
  CallersOfHost = {g1}
  Growers = {g1, g2}
  BudgetMax = 2
  MaxBytes = 1
  MaxGrowth = 1
  Workers = 2
  EpochDelta = 1
  Bits = 3
  HostRequests <- MCHostRequests
  Capabilities <- MCCapabilities
  AddressesOf <- MCAddressesOf
  Root <- MCRoot
  Tree <- MCTree
  Links <- MCLinks
  Files <- MCFiles
  MaxPathLen = 6
INVARIANTS
  BudgetOvershoot
  HostResultsAreTrue
CHECK_DEADLOCK FALSE
PROPERTIES
  GuestsTakeTurns
  TickerStops
