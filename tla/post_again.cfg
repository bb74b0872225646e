SPECIFICATION Spec
CONSTANTS
  k1 = k1
  NoKey = NoKey
  Null = Null
  None = None
  Ops = {o1, o2}
  o1 = o1
  o2 = o2
  o3 = o3
  MaxAttempts <- MCRetried
  Keys <- MCKeys
  PostBodies <- MCOpenEvent
  PatchChanges <- MCClosing
  LineIds = {1}
  ReasonIds = {1}
  UniqueStamps = TRUE
INVARIANTS
  SamePayloadReturnsExisting
