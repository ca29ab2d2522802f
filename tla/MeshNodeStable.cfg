SPECIFICATION FairStableSpec
CONSTANTS
  Peer = {1, 2, 3}
  ConfigPriority <- PairedPriority
  Switcher = {1, 2}
  MaxSeq = 2
  MaxInFlight = 1
  MaxBeats = 0
INVARIANTS
  StableAgreement
PROPERTIES
  StableConvergence
