SPECIFICATION FairSpec
CONSTANTS
  Dest = {d, e}
  Chunks <- MCChunks
  Lists <- MCShort
  MaxChanges = 2
  MaxWire = 1
  NoDest = NoDest
INVARIANTS
  PastesWhatWasPromised
CHECK_DEADLOCK FALSE
PROPERTIES
  PastesEnd
  ServerIsFreed
