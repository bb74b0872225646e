SPECIFICATION Spec
CONSTANTS
  None = None
  TicksPerSecond = 3
  Day = 18
  ShiftStart <- MCShiftStart
  Sources = {"live", "operator"}
  DemoSource = "live"
  Reasons = {1, 2}
  TopReasons = 1
  IdealCycleTime = 1
  MaxRows = 3
  MaxWindow = 18
  Windows <- MCWindows
  RecordDrafts <- MCRecordDrafts
  EventDrafts <- MCEventDrafts
  Patches <- MCPatches
  MaxCommits = 4
INVARIANTS
  AnswersAreBetween
  WindowIsTheShiftSoFar
  OverviewAddsUp
PROPERTIES
  OverviewGrows
