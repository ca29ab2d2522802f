SPECIFICATION FairSpec
CONSTANTS
  Peer = {1, 2}
  Addr = {a, b, c}
  a = a
  b = b
  Start <- TwoAddresses
  Private = {a, b, c}
  Hears <- OneWay
  MaxMoves = 1
  MaxNet = 1
  NoAddr = NoAddr
INVARIANTS
PROPERTIES
  OneDirectionSuffices
  AddressIsFollowed
