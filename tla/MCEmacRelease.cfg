SPECIFICATION FairSpec
CONSTANTS
  NTx = 2
  NRx = 1
  EvLen = 1
  MaxNotify = 1
  Kinds = {}
  Buffers = {b1, b2}
  NoBuf = NoBuf
PROPERTIES
  SentIsReleased
