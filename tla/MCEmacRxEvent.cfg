SPECIFICATION Spec
CONSTANTS
  NTx = 2
  NRx = 1
  EvLen = 1
  MaxNotify = 1
  Kinds = {"good"}
  Buffers = {b1, b2}
  NoBuf = NoBuf
INVARIANTS
  RxEventOutstanding
