SPECIFICATION Spec
CONSTANTS
  None = None
  TicksPerSecond = 2
  LastTick = 5
  WindowStart = 0
  MaxDowntimes = 1
  Inputs <- MCInputs
INVARIANT DurationSumsAreExact
CHECK_DEADLOCK FALSE
