SPECIFICATION Spec
CONSTANTS
  Peer = {1, 2, 3}
  Conn = {c1, c2}
  Dialable <- DialStale
  Paired <- StalePairs
  Answering <- AddressMoved
  MaxCrashes = 1
  NoPeer = NoPeer
  NoConn = NoConn
SYMMETRY ConnSymmetry
INVARIANTS
  TypeOK
  EachOpenEndHasOneOwner
  RegisteredLinkIsGenuine
