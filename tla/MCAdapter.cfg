SPECIFICATION FairSpec
CONSTANTS
  Ports = {p1, p2}
  NumHosts = 2
  MaxMsgs = 2
  MaxChunk = 2
  WireCap = 1
  MaxFaults = 2
INVARIANTS TypeOK NeverBlocksInTake Accounted LossNeedsFault
PROPERTIES ForwardsAtMostOnce Drains
