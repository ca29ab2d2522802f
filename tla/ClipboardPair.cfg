SPECIFICATION FairSpec
CONSTANTS
  Peer = {1, 2}
  Text = {a, b, s}
  Excluded = {s}
  MaxCopies = 4
  NoText = NoText
INVARIANTS
  SettledClipboardsAgree
PROPERTIES
  EchoesEnd
CHECK_DEADLOCK FALSE
