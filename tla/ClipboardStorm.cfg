SPECIFICATION FairSpec
CONSTANTS
  Peer = {1, 2, 3}
  Text = {a}
  Excluded = {}
  MaxCopies = 2
  NoText = NoText
PROPERTIES
  EchoesEnd
CHECK_DEADLOCK FALSE
