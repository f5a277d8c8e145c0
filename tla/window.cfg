SPECIFICATION HistorySpec
CONSTANTS
  Keep = 2
  Window = 20
  Weights = {1, 5, 25}
  MaxTurns = 4
CHECK_DEADLOCK FALSE
INVARIANTS
  CompressedOnce
PROPERTIES
  LighterOrUntouched
