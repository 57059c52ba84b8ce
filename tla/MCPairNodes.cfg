SPECIFICATION PairSpec
CONSTANTS
  MaxMsgs = 1
  Collectors = {"P", "S"}
  Crashes = {"P", "S"}
  MaxFaults = 1
  PairAgents = 2
  PairChanCap = 1
  PairFits = 2
  PairBatch = 1
  PairChunk = 1
  PairBad = {}
PROPERTIES PrimaryIsANode SecondaryIsANode
CHECK_DEADLOCK FALSE
