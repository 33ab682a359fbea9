-------------------------- MODULE EmacTxRefinement --------------------------
(***************************************************************************)
(* The descriptor ring implements the queue of TxFifo.  A frame is         *)
(* accepted when its descriptor gets the OWN bit, sent when the DMA engine *)
(* clears the bit, and returned when vClearTXBuffers releases its buffer.  *)
(***************************************************************************)
EXTENDS EmacTx

Accepted == Submitted + IF outPc = "owned" THEN 1 ELSE 0

TxForward(i, k) == IF i + k < NTx THEN i + k ELSE i + k - NTx

fifoQueue == [k \in 1 .. Accepted |-> txBuf[TxForward(toClear, k - 1)]]

fifoSent == IF own[dmaPos] THEN TxDist(toClear, dmaPos) ELSE Accepted

TxQueue == INSTANCE TxFifo WITH Capacity <- NTx, queue <- fifoQueue, sent <- fifoSent

(* Whatever the interleaving of the IP task, the EMAC task and the DMA     *)
(* engine, frames are sent once and in order, and every buffer comes back  *)
(* once, in order, and never before its frame was sent.                    *)
TxImplementsFifo == TxQueue!Spec
=============================================================================
