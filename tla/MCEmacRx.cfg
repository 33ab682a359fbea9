SPECIFICATION RxSpec
CONSTANTS
  NRx = 3
  EvLen = 2
  Kinds = {"good", "refused", "error", "empty"}
  Buffers = {b1, b2, b3, b4, b5}
  NoBuf = NoBuf
SYMMETRY BufferSymmetry
INVARIANTS
  RxTypeOK
  RxDmaSafe
  RxLedger
  RxInv
  RxInStep
PROPERTIES
  RxImplementsFifo
