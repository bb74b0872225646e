SPECIFICATION Spec
CONSTANTS
  Machines = {1, 2}
  LineOf <- MCLineOf
  Starts = {14, 15, 22}
  Length = 8
  Periods <- MCPeriods
  Day = 12
  ShiftStart <- MCShiftStart
  Bucket = 3
  CycleTimes = {2, 3}
  Slowed <- MCSlowed
  WarmupCycles = 1
  ChangeoverTimes = {1, 2}
  MicroStopTimes = {1}
  FailureTimes = {3, 5}
  StopBoundary = 3
INVARIANTS
  TypeOK
  OneThingAtATime
  CyclesRunInTheirShift
  ShiftsBeginWithAChangeover
  NothingReachesTheNextDay
  StructuralCheckPasses
  CountsFitTheRunTime
CHECK_DEADLOCK FALSE
