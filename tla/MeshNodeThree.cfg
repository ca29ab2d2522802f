SPECIFICATION DecaySpec
CONSTANTS
  Peer = {1, 2, 3}
  ConfigPriority <- PairedPriority
  Switcher = {1, 2}
  MaxSeq = 1
  MaxInFlight = 1
  MaxBeats = 0
INVARIANTS
  StampIdentifiesClaim
PROPERTIES
  ImplementsRegister
