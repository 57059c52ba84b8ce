SPECIFICATION Spec
CONSTANTS
  a = a
  b = b
  Clients = {a, b}
  Uploads = TRUE
  BufCap = 2
  WireCap = 1
  MaxMsgs = 2
  MaxChunk = 2
  MaxFaults = 2
INVARIANTS TypeOK Accounted
PROPERTY UploadsAtMostOnce
CHECK_DEADLOCK FALSE
