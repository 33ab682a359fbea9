-------------------------- MODULE EmacRxRefinement --------------------------
(***************************************************************************)
(* The RX descriptor ring and the event queue implement the lossy queue of *)
(* RxFifo.  A frame arrives when the DMA engine sets RXPKT_RDY; its fate   *)
(* is decided when its event is sent, or when prvNetworkInterfaceInput     *)
(* turns to giving its descriptor back.  A frame of no bytes breaks the    *)
(* ring: after it driver and DMA engine are out of step.                   *)
(***************************************************************************)
EXTENDS EmacRx

(* The fate of the frame being worked on is decided.                       *)
Decided == inPc \in {"give", "ready"}

(* The oldest frame whose fate is not decided, where there is one.         *)
Undecided == IF inPc \in {"get", "send"} THEN cur ELSE rxDesc

(* How many there are: those from there up to the DMA engine's position.   *)
InRing == IF ~Decided /\ rdy[rxPos] /\ rxPos = Undecided THEN NRx ELSE RxDist(Undecided, rxPos)

RxForward(i, k) == IF i + k < NRx THEN i + k ELSE i + k - NRx

(* n frames from descriptor i on.                                          *)
FramesOf(bufs, kinds, i, n) ==
  [k \in 1 .. n |-> [buf |-> bufs[RxForward(i, k - 1)], kind |-> kinds[RxForward(i, k - 1)]]]

fifoArrived == FramesOf(rxBuf, kind, Undecided, InRing)

RxQueue == INSTANCE RxFifo
  WITH Capacity <- NRx, Other <- NoBuf, arrived <- fifoArrived, delivered <- evQueue,
       intact <- NoEmptyFrame

(* Whatever the interleaving of the DMA engine, the EMAC task and the IP   *)
(* task, the stack sees each accepted frame at most once, in the order of  *)
(* arrival, and in the buffer the DMA engine received it into.             *)
RxImplementsFifo == RxQueue!Spec
=============================================================================
