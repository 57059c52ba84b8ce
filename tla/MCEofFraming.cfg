SPECIFICATION Spec
CONSTANTS
  Alphabet <- MCAlphabet
  Eof <- MCEof
  MaxLength = 3
  MaxMsgs = 2
INVARIANTS ReceivedAsSent NothingHeldBack
