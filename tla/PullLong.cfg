SPECIFICATION FairSpec
CONSTANTS
  Dest = {d}
  Chunks <- MCChunks
  Lists <- MCSelection
  MaxChanges = 3
  MaxWire = 2
  NoDest = NoDest
INVARIANTS
  TypeOK
  PastesWhatWasPromised
PROPERTIES
  PastesEnd
  ServerIsFreed
CHECK_DEADLOCK FALSE
