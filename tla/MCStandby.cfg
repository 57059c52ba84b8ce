SPECIFICATION PairSpec
CONSTANTS
  MaxMsgs = 3
  Collectors = {"P"}
  Crashes = {"P", "S"}
  MaxFaults = 1
  PairAgents = 1
  PairChanCap = 1
  PairFits = 4
  PairBatch = 2
  PairChunk = 1
  PairBad = {}
INVARIANTS StandbyComplete RecoveryComplete
CHECK_DEADLOCK FALSE
