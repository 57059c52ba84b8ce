SPECIFICATION Spec
CONSTANTS
  Role = "Primary"
  Msg = {m1, bad}
  Bad = {bad}
  NoTime = {bad}
  MaxAgents = 1
  ChanCap = 1
  BatchSize = 2
  MaxQueue = 3
  MaxChunk = 2
  MaxRows = 1
INVARIANTS TypeOK PostedIsQueued BlockedOnlyByClear FlushIsFull
PROPERTY LockHasOwner
CHECK_DEADLOCK FALSE
