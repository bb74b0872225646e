SPECIFICATION Spec
CONSTANTS
  None = None
  TicksPerSecond = 2
  LastTick = 6
  WindowStart = 1
  MaxDowntimes = 3
  Inputs <- MCInputs
INVARIANTS
  TypeOK
  TimeIsAccountedFor
  NothingIsCountedTwice
  DurationsAreNested
  WarningsExplainTheResult
CHECK_DEADLOCK FALSE
