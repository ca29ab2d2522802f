SPECIFICATION PacedSpec
CONSTANTS
  Peer = {1, 2, 3}
  Text = {a, b, s}
  Excluded = {s}
  MaxCopies = 3
  NoText = NoText
INVARIANTS
  SettledClipboardsAgree
CHECK_DEADLOCK FALSE
