SPECIFICATION FairPromptSpec
CONSTANTS
  Peer = {1, 2, 3}
  Conn = {c1, c2}
  Dialable <- DialChain
  Paired <- StalePairs
  Answering <- AddressMoved
  MaxCrashes = 1
  NoPeer = NoPeer
  NoConn = NoConn
INVARIANTS
  EachOpenEndHasOneOwner
  RegisteredLinkIsGenuine
PROPERTIES
  DeadLinkIsReaped
  EventuallyLinked
