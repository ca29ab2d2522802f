SPECIFICATION FairSpec
CONSTANTS
  Peer = {1, 2}
  ConfigPriority <- PairedPriority
  Switcher = {1, 2}
  MaxSeq = 1
  MaxInFlight = 1
  MaxBeats = 1
INVARIANTS
  TypeOK
  NoSilentOwner
  ReportedLivenessIsCurrent
  StampIdentifiesClaim
PROPERTIES
  ImplementsRegister
  LostOwnerIsReleased
