SPECIFICATION ChannelSpec
CONSTANTS
  Low = 1
  High = 2
  Plaintext = {a, b, long}
  Fits = {a, b}
  MaxCtr = 3
INVARIANTS
  ChannelTypeOK
  NonceIsNeverReused
  TakesWhatWasSent
