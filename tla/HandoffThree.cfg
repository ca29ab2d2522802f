SPECIFICATION FairSpec
CONSTANTS
  Peer = {1, 2, 3}
  Key = {k1}
  Driver = {1, 2}
  Typist = {1}
  Woken = {2}
  Nobody = Nobody
  MaxSeq = 1
  MaxInFlight = 1
INVARIANTS
  SwallowsOnlyAsOwner
  HeldOnlyWhileCapturing
  OneCapturesWhenQuiet
  ListenersKeysReleased
PROPERTIES
  LockoutEnds
