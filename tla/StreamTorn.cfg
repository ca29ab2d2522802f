SPECIFICATION Spec
CONSTANTS
  Message <- MCMessage
  MaxPayload = 3
  RecvCap = 2
  Room = 2
  MaxSends = 2
INVARIANTS
  ReceivesWholeMessages
CHECK_DEADLOCK FALSE
