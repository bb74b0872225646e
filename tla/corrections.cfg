SPECIFICATION Spec
CONSTANTS
  k1 = k1
  NoKey = NoKey
  Null = Null
  None = None
  Ops = {o1, o2, o3}
  o1 = o1
  o2 = o2
  o3 = o3
  MaxAttempts <- MCOnce
  Keys <- MCKeys
  PostBodies <- MCBadPostBodies
  PatchChanges <- MCBadPatchChanges
  LineIds = {1}
  ReasonIds = {1}
  UniqueStamps = TRUE
SYMMETRY Symmetry
INVARIANTS
  TypeOK
  NoServerError
  SuccessIsDurable
  RefusedLeavesNoTrace
PROPERTIES
  LedgerSpec
