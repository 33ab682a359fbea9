SPECIFICATION Spec
CONSTANTS
  NTx = 2
  NRx = 1
  EvLen = 1
  MaxNotify = 1
  Kinds = {"good"}
  Buffers = {b1, b2, b3, b4}
  NoBuf = NoBuf
SYMMETRY BufferSymmetry
INVARIANTS
  EmacTypeOK
  NoLostWakeUp
  AtMostOneStranded
PROPERTIES
  ImplementsTx
  ImplementsRx
  RxLostOnlyByStore
