SPECIFICATION Spec
CONSTANTS
  Lines = {1}
  early = early
  late = late
  EventOrder <- MCEventOrder
  EventStart <- MCEventStart
  EventEnd <- MCEventEnd
  EventDay <- MCEventDay
  Day = 2
  Bucket = 1
  CatchUp = 2
  Attempts = 2
  Patience = 1
  Workers = 2
  Runs = {1, 2}
  LastTick = 4
  MaxTroubles = 1
  CorrectedStarts = {3}
  CorrectedEnds = {3}
  Open = Open
INVARIANTS
  TypeOK
  NothingFromTheFuture
  SuccessIsComplete
  LossIsNoticed
  FailuresHaveAReason
PROPERTIES
  CorrectionsStand
  CatchesUp
CHECK_DEADLOCK FALSE
