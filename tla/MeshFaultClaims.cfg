\* Two machines of which one may restart.  For one that joins instead, and the
\* election: SPECIFICATION JoinSpec, MaxSeq = 1, INVARIANTS SinglePrimary.
SPECIFICATION RestartSpec
CONSTANTS
  Peer = {1, 2}
  ConfigPriority <- PairedPriority
  Switcher = {1, 2}
  MaxSeq = 2
  MaxInFlight = 1
  MaxBeats = 1
INVARIANTS
  ClaimsAreTotallyOrdered
