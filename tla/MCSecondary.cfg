SPECIFICATION Spec
CONSTANTS
  Role = "Secondary"
  Msg = {m1}
  Bad = {}
  NoTime = {}
  MaxAgents = 2
  ChanCap = 1
  BatchSize = 1
  MaxQueue = 1
  MaxChunk = 1
  MaxRows = 0
INVARIANT BlockedOnlyByClear
PROPERTY LockHasOwner
CHECK_DEADLOCK FALSE
