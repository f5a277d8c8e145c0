SPECIFICATION FairSpec
CONSTANTS
  Units = {"thought", "action", "final", "(", ")", "mark", "wide"}
  MaxUnits = 5
  MaxIterations = 2
  Capacity = 4
INVARIANTS
  SentIsTrace
  DisconnectStops
  EventsFit
PROPERTIES
  CallIsStable
  StreamedRunsReturn
