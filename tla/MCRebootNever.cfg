SPECIFICATION FairSpec
CONSTANTS
  r1 = r1
  r2 = r2
  i1 = i1
  i2 = i2
  i3 = i3
  i4 = i4
  c1 = c1
  c2 = c2
  c3 = c3
  c4 = c4
  NoIp = NoIp
  NoId = NoId
  Requests = {r1, r2}
  Ids = {c1, c2, c3, c4}
  Ips = {i1, i2, i3, i4}
  Deployed = {c1, c2}
  AddsToList = FALSE
  MaxTroubles = 0
PROPERTY Rebooted
CHECK_DEADLOCK FALSE
