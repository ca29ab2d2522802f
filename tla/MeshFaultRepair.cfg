SPECIFICATION RepairSpec
CONSTANTS
  Peer = {1, 2}
  ConfigPriority <- PairedPriority
  Switcher = {1, 2}
  MaxSeq = 3
  MaxInFlight = 1
  MaxBeats = 1
INVARIANTS
  LaterSwitchGivesSingleOwner
