SPECIFICATION PairSpec
CONSTANTS
  MaxMsgs = 4
  Collectors = {"P"}
  Crashes = {"S"}
  MaxFaults = 1
  PairAgents = 1
  PairChanCap = 1
  PairFits = 5
  PairBatch = 2
  PairChunk = 3
  PairBad = {2}
INVARIANTS NothingLost DropNeedsCause OneRowEach
PROPERTY ClearAfterFlush
CHECK_DEADLOCK FALSE
