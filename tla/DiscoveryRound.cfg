SPECIFICATION RoundSpec
CONSTANTS
  Peer = {1, 2}
  Addr = {a, b}
  a = a
  b = b
  Start <- TwoAddresses
  Private = {a, b}
  Hears <- BothWays
  MaxMoves = 0
  MaxNet = 2
  NoAddr = NoAddr
PROPERTIES
  AnswersDieOut
CHECK_DEADLOCK FALSE
