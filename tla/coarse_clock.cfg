SPECIFICATION FairSpec
CONSTANTS
  k1 = k1
  NoKey = NoKey
  Null = Null
  None = None
  Ops = {o1, o2, o3}
  o1 = o1
  o2 = o2
  o3 = o3
  MaxAttempts <- MCOnce
  Keys <- MCKeys
  PostBodies <- MCOpenEvent
  PatchChanges <- MCWriteSkew
  LineIds = {1}
  ReasonIds = {1}
  UniqueStamps = FALSE
INVARIANTS
  OneRowPerKey
PROPERTIES
  HandlersFinish
