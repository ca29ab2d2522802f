\* What the code's comments claim and its steps violate; each is found violated
\* when it is checked alone.
SPECIFICATION Spec
CONSTANTS
  Peer = {1, 2}
  MaxExchanges = 1
  NoPeer = NoPeer
INVARIANTS
  StoredOnMutualConfirm
PROPERTIES
  TheOtherAccepts
CHECK_DEADLOCK FALSE
