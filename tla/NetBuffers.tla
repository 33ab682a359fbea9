----------------------------- MODULE NetBuffers -----------------------------
(***************************************************************************)
(* The pool of network buffers (FreeRTOS-Plus-TCP BufferAllocation_1) that *)
(* the Ethernet driver and the IP stack share.  The driver is "zero copy": *)
(* a frame is never copied, its buffer changes hands.  The variable owner  *)
(* is the ledger of who may touch each buffer:                             *)
(*   "pool"   the buffer is in xFreeBuffersList                            *)
(*   "stack"  the IP stack (IP task, sockets) holds a pointer to it        *)
(*   "tx"     it was handed to a TX DMA descriptor (txdes3)                *)
(*   "rx"     it is under an RX DMA descriptor (rxdes3) or in the hands of *)
(*            prvNetworkInterfaceInput                                     *)
(*   "queue"  it is in an eNetworkRxEvent of xNetworkEventQueue            *)
(* Only "pool" is state the code keeps (the free list); the others record  *)
(* which pointer the buffer was last stored in, so that the modules can    *)
(* state that the pointers of the descriptor rings agree with the ledger.  *)
(***************************************************************************)

CONSTANTS
  Buffers,  \* the ipconfigNUM_NETWORK_BUFFER_DESCRIPTORS network buffers
  NoBuf     \* the NULL pointer

ASSUME NoBufAssumption == NoBuf \notin Buffers

VARIABLE owner

Holders == {"pool", "stack", "tx", "rx", "queue"}

OwnerTypeOK == owner \in [Buffers -> Holders]

(* xNetworkBuffersInitialise puts every buffer in xFreeBuffersList.        *)
Pool == {b \in Buffers : owner[b] = "pool"}

(* b changes hands: h is the new holder.                                   *)
HandOver(b, h) == owner' = [owner EXCEPT ![b] = h]

(* vReleaseNetworkBufferAndDescriptor(b): the buffer goes on the free list *)
(* whoever holds it; a buffer that is there already stays there.           *)
Release(b) == HandOver(b, "pool")

(* pxGetNetworkBufferWithDescriptor: a buffer of the free list goes to h.  *)
(* The list order is abstracted: any free buffer may be the head.          *)
GetBuffer(b, h) == b \in Pool /\ HandOver(b, h)
=============================================================================
