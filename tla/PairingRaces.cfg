SPECIFICATION FairSpec
CONSTANTS
  Peer = {1, 2}
  MaxExchanges = 2
  NoPeer = NoPeer
INVARIANTS
  TypeOK
  OneExchangePerSession
  DialKeepsItsSession
PROPERTIES
  SessionsEnd
CHECK_DEADLOCK FALSE
