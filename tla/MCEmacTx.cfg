SPECIFICATION TxSpec
CONSTANTS
  NTx = 3
  Buffers = {b1, b2, b3, b4}
  NoBuf = NoBuf
SYMMETRY BufferSymmetry
INVARIANTS
  TxTypeOK
  TxTokens
  TxNoOverwrite
  TxDmaSafe
  TxLedger
  TxSnapshot
  TxDmaInStep
  TxInv
PROPERTIES
  TxImplementsFifo
