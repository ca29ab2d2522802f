\* What the code's comments claim and its steps violate; each is found violated
\* when it is checked alone.
SPECIFICATION StableSpec
CONSTANTS
  Peer = {1,2,3}
  Key = {k1}
  Driver = {1, 2}
  Typist = {1, 2}
  Woken = {2}
  Nobody = Nobody
  MaxSeq = 2
  MaxInFlight = 2
INVARIANTS
  OwnKeysMatch
  SwitchOutReleases
PROPERTIES
  InjectsOnlyFromOwner
  WokenIsDriven
