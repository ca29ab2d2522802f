SPECIFICATION PromptSpec
CONSTANTS
  Peer = {1, 2}
  Conn = {c1, c2}
  Dialable <- DialAll
  Paired <- AllPairs
  Answering <- AtHome
  MaxCrashes = 0
  NoPeer = NoPeer
  NoConn = NoConn
INVARIANTS
  DedupKeepsALink
