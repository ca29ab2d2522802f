SPECIFICATION FairSpec
CONSTANTS
  Message <- MCMessage
  MaxPayload = 3
  RecvCap = 1
  Room = 3
  MaxSends = 2
INVARIANTS
  InOrderAndWhole
  NothingLostAtTheEnd
PROPERTIES
  ImplementsTransport
  SendsEnd
  EverythingArrives
CHECK_DEADLOCK FALSE
