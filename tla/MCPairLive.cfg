SPECIFICATION FairPairSpec
CONSTANTS
  MaxMsgs = 3
  Collectors = {"P"}
  Crashes = {}
  MaxFaults = 0
  PairAgents = 1
  PairChanCap = 1
  PairFits = 1
  PairBatch = 2
  PairChunk = 1
  PairBad = {}
INVARIANT CrossingNeedsEarly
PROPERTIES  PostingEnds FlushEnds BothAnswered
CHECK_DEADLOCK FALSE
