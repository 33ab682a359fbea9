------------------------------- MODULE EmacTx -------------------------------
(***************************************************************************)
(* The transmit side of the FTGMAC030 driver: the ring of TX descriptors,  *)
(* xNetworkInterfaceOutput run by the IP task, vClearTXBuffers run by the  *)
(* EMAC task, and the TX DMA engine of the MAC.                            *)
(*                                                                         *)
(* Scheduling.  The EMAC task has priority configMAX_PRIORITIES-1, the IP  *)
(* task configMAX_PRIORITIES-2, on one core: vClearTXBuffers may start     *)
(* between any two steps of xNetworkInterfaceOutput, and no step of        *)
(* xNetworkInterfaceOutput happens inside vClearTXBuffers, which never     *)
(* blocks.  The DMA engine runs in parallel with both.                     *)
(*                                                                         *)
(* In this module vClearTXBuffers may start at any moment; module Emac     *)
(* adds the interrupt and the event word that decide when it does.         *)
(***************************************************************************)
EXTENDS Integers, NetBuffers

CONSTANT NTx   \* ETH_TXBUFNB, the number of TX descriptors

(* With one descriptor the test "uxCount != ETH_TXBUFNB" of                *)
(* vClearTXBuffers cannot tell an unsubmitted descriptor from a full ring. *)
ASSUME NTxAssumption == NTx \in Nat /\ NTx >= 2

VARIABLES
  own,       \* txdes0 & TXDMA_OWN of each descriptor
  txBuf,     \* txdes3 of each descriptor: the buffer it points to
  txDesc,    \* xETH.TxDesc: the next descriptor to submit
  toClear,   \* DMATxDescToClear: the next descriptor to reclaim
  sem,       \* count of xTXDescriptorSemaphore
  outPc,     \* where the IP task is in xNetworkInterfaceOutput
  outBuf,    \* pxDescriptor, the buffer being sent
  clrPc,     \* where the EMAC task is in vClearTXBuffers
  clrLast,   \* txLastDescriptor
  clrCount,  \* uxCount
  dmaPos,    \* the descriptor the DMA engine looks at next
  dmaPoll,   \* TRUE while the DMA engine fetches descriptors
  macEn,     \* MACCR: the MAC and its DMA engines are enabled
  linkUp     \* xPhyObject.ulLinkStatusMask # 0

ringVars == <<own, txBuf, txDesc, toClear, sem>>
outVars  == <<outPc, outBuf>>
clrVars  == <<clrPc, clrLast, clrCount>>
dmaVars  == <<dmaPos, dmaPoll>>
linkVars == <<macEn, linkUp>>
txVars   == <<owner, ringVars, outVars, clrVars, dmaVars, linkVars>>

TxIndex == 0 .. NTx - 1

(* Mutant: the last descriptor is not chained to the first.                *)
TxSuccUnchained(i) == i + 1

(* txdes2: the ring is a chain, the last descriptor points to the first.   *)
TxSucc(i) == IF i = NTx - 1 THEN 0 ELSE i + 1

OutPcs == {"idle", "take", "took", "filled", "owned", "kick"}

(* After xNetworkInterfaceInitialise: the descriptors zeroed, the          *)
(* semaphore full, the link as the PHY reported it.                        *)
TxInit ==
  /\ own = [i \in TxIndex |-> FALSE]
  /\ txBuf = [i \in TxIndex |-> NoBuf]
  /\ txDesc = 0 /\ toClear = 0 /\ sem = NTx
  /\ outPc = "idle" /\ outBuf = NoBuf
  /\ clrPc = "idle" /\ clrLast = 0 /\ clrCount = 0
  /\ dmaPos = 0 /\ dmaPoll = FALSE
  /\ linkUp \in BOOLEAN /\ macEn = TRUE

-----------------------------------------------------------------------------
(* xNetworkInterfaceOutput.  It moves only while the EMAC task does not.   *)

(* Mutant: the IP task is not held off by the EMAC task.                   *)
IpStepAnytime(from, to) == outPc = from /\ outPc' = to

IpStep(from, to) == clrPc = "idle" /\ outPc = from /\ outPc' = to

(* Entry with a buffer of the stack; bReleaseAfterSend is pdTRUE in every  *)
(* call of a zero-copy build.  Without link the packet is dropped.         *)
OutputCall(b) ==
  /\ owner[b] = "stack" /\ linkUp
  /\ IpStep("idle", "take")
  /\ outBuf' = b
  /\ UNCHANGED <<owner, ringVars, clrVars, dmaVars, linkVars>>

OutputNoLink(b) ==
  /\ owner[b] = "stack" /\ ~linkUp
  /\ IpStep("idle", "idle")
  /\ Release(b)
  /\ UNCHANGED <<ringVars, outBuf, clrVars, dmaVars, linkVars>>

(* Mutant: the result of xSemaphoreTake is not tested.                     *)
OutputTakeUntested ==
  /\ IpStep("take", "took")
  /\ sem' = IF sem > 0 THEN sem - 1 ELSE 0
  /\ UNCHANGED <<owner, own, txBuf, txDesc, toClear, outBuf, clrVars, dmaVars, linkVars>>

(* xSemaphoreTake succeeds.                                                *)
OutputTake ==
  /\ sem > 0
  /\ IpStep("take", "took")
  /\ sem' = sem - 1
  /\ UNCHANGED <<owner, own, txBuf, txDesc, toClear, outBuf, clrVars, dmaVars, linkVars>>

(* 50 ms without a token: the packet is dropped and its buffer released.   *)
OutputTimeout ==
  /\ sem = 0
  /\ IpStep("take", "idle")
  /\ Release(outBuf)
  /\ outBuf' = NoBuf
  /\ UNCHANGED <<ringVars, clrVars, dmaVars, linkVars>>

(* txdes3 = pucEthernetBuffer: the buffer belongs to the descriptor.       *)
OutputFill ==
  /\ IpStep("took", "filled")
  /\ txBuf' = [txBuf EXCEPT ![txDesc] = outBuf]
  /\ HandOver(outBuf, "tx")
  /\ outBuf' = NoBuf
  /\ UNCHANGED <<own, txDesc, toClear, sem, clrVars, dmaVars, linkVars>>

(* txdes0 |= TXDMA_OWN: from here the DMA engine may send the frame.       *)
OutputSetOwn ==
  /\ IpStep("filled", "owned")
  /\ own' = [own EXCEPT ![txDesc] = TRUE]
  /\ UNCHANGED <<owner, txBuf, txDesc, toClear, sem, outBuf, clrVars, dmaVars, linkVars>>

(* Mutant: xETH.TxDesc stays.                                              *)
OutputAdvanceNot ==
  /\ IpStep("owned", "kick")
  /\ UNCHANGED <<owner, ringVars, outBuf, clrVars, dmaVars, linkVars>>

(* xETH.TxDesc = xETH.TxDesc->txdes2.                                      *)
OutputAdvance ==
  /\ IpStep("owned", "kick")
  /\ txDesc' = TxSucc(txDesc)
  /\ UNCHANGED <<owner, own, txBuf, toClear, sem, outBuf, clrVars, dmaVars, linkVars>>

(* Mutant: no transmit poll demand.                                        *)
OutputKickNot ==
  /\ IpStep("kick", "idle")
  /\ UNCHANGED <<owner, ringVars, outBuf, clrVars, dmaVars, linkVars>>

(* NPTXPD = 1: transmit poll demand.                                       *)
OutputKick ==
  /\ IpStep("kick", "idle")
  /\ dmaPoll' = TRUE
  /\ UNCHANGED <<owner, ringVars, outBuf, clrVars, dmaPos, linkVars>>

-----------------------------------------------------------------------------
(* vClearTXBuffers.                                                        *)

(* The locals are read from xETH.TxDesc and from the semaphore.            *)
ClearStart ==
  /\ clrPc = "idle"
  /\ clrPc' = "loop"
  /\ clrLast' = txDesc
  /\ clrCount' = NTx - sem
  /\ UNCHANGED <<owner, ringVars, outVars, dmaVars, linkVars>>

(* Mutant: the OWN bit is not looked at.                                   *)
ReclaimableOwned ==
  /\ clrCount > 0
  /\ ~(toClear = clrLast /\ clrCount # NTx)

(* Mutant: without the test against txLastDescriptor.                      *)
ReclaimableUnsubmitted == clrCount > 0 /\ ~own[toClear]

(* The condition under which the loop frees one more descriptor.           *)
Reclaimable ==
  /\ clrCount > 0
  /\ ~own[toClear]
  /\ ~(toClear = clrLast /\ clrCount # NTx)

(* Mutant: xSemaphoreGive is missing.                                      *)
ClearOneKeepToken ==
  /\ clrPc = "loop" /\ Reclaimable
  /\ IF txBuf[toClear] # NoBuf
     THEN Release(txBuf[toClear]) /\ txBuf' = [txBuf EXCEPT ![toClear] = NoBuf]
     ELSE UNCHANGED <<owner, txBuf>>
  /\ toClear' = TxSucc(toClear)
  /\ clrCount' = clrCount - 1
  /\ UNCHANGED <<own, txDesc, sem, outVars, clrPc, clrLast, dmaVars, linkVars>>

(* Mutant: txdes3 is not cleared.                                          *)
ClearOneKeepBuffer ==
  /\ clrPc = "loop" /\ Reclaimable
  /\ IF txBuf[toClear] # NoBuf THEN Release(txBuf[toClear]) ELSE UNCHANGED owner
  /\ toClear' = TxSucc(toClear)
  /\ clrCount' = clrCount - 1
  /\ sem' = IF sem < NTx THEN sem + 1 ELSE sem
  /\ UNCHANGED <<own, txBuf, txDesc, outVars, clrPc, clrLast, dmaVars, linkVars>>

(* One iteration: the IP task cannot run and the DMA engine does not look  *)
(* at txdes3 of a descriptor it does not own, so it is one step.  The give *)
(* fails when the semaphore is at its maximum count ETH_TXBUFNB.           *)
ClearOne ==
  /\ clrPc = "loop" /\ Reclaimable
  /\ IF txBuf[toClear] # NoBuf
     THEN /\ Release(txBuf[toClear])
          /\ txBuf' = [txBuf EXCEPT ![toClear] = NoBuf]
     ELSE UNCHANGED <<owner, txBuf>>
  /\ toClear' = TxSucc(toClear)
  /\ clrCount' = clrCount - 1
  /\ sem' = IF sem < NTx THEN sem + 1 ELSE sem
  /\ UNCHANGED <<own, txDesc, outVars, clrPc, clrLast, dmaVars, linkVars>>

ClearEnd ==
  /\ clrPc = "loop" /\ ~Reclaimable
  /\ clrPc' = "idle"
  /\ UNCHANGED <<owner, ringVars, outVars, clrLast, clrCount, dmaVars, linkVars>>

-----------------------------------------------------------------------------
(* The TX DMA engine (hardware).                                           *)

(* The frame of an OWN descriptor is sent; the engine clears OWN.          *)
DmaSend ==
  /\ dmaPoll /\ macEn /\ own[dmaPos]
  /\ own' = [own EXCEPT ![dmaPos] = FALSE]
  /\ dmaPos' = TxSucc(dmaPos)
  /\ UNCHANGED <<owner, txBuf, txDesc, toClear, sem, outVars, clrVars, dmaPoll, linkVars>>

(* It suspends at a descriptor it does not own until a poll demand.        *)
DmaSuspend ==
  /\ dmaPoll /\ macEn /\ ~own[dmaPos]
  /\ dmaPoll' = FALSE
  /\ UNCHANGED <<owner, ringVars, outVars, clrVars, dmaPos, linkVars>>

-----------------------------------------------------------------------------
(* The EMAC task outside vClearTXBuffers, and the rest of the system.      *)

(* xPhyCheckLinkStatus sees a port come or go; with several PHYs there may *)
(* be a link before and after.  Module Link has all that the link can do.  *)
LinkChange ==
  /\ clrPc = "idle"
  /\ linkUp' \in BOOLEAN /\ (linkUp \/ linkUp')
  /\ UNCHANGED <<owner, ringVars, outVars, clrVars, dmaVars, macEn>>

(* prvEthernetUpdateConfig( pdFALSE ): with link, auto-negotiation is     *)
(* restarted, which decides anew whether there is a link, and the MAC is   *)
(* started whatever the outcome; without link the MAC is stopped.  The     *)
(* enabled DMA engine fetches its current descriptor again.               *)
UpdateConfig ==
  /\ clrPc = "idle"
  /\ macEn' = linkUp
  /\ IF linkUp THEN linkUp' \in BOOLEAN ELSE UNCHANGED linkUp
  /\ dmaPoll' = (dmaPoll \/ linkUp)
  /\ UNCHANGED <<owner, ringVars, outVars, clrVars, dmaPos>>

(* The RX side and the IP stack hand around the buffers that are not on    *)
(* the TX ring, other than the one being sent.                             *)
OthersMove(b) ==
  /\ owner[b] # "tx" /\ b # outBuf
  /\ \E h \in Holders \ {"tx", owner[b]} : HandOver(b, h)
  /\ UNCHANGED <<ringVars, outVars, clrVars, dmaVars, linkVars>>

Output ==
  \/ \E b \in Buffers : OutputCall(b) \/ OutputNoLink(b)
  \/ OutputTake \/ OutputTimeout \/ OutputFill
  \/ OutputSetOwn \/ OutputAdvance \/ OutputKick

Clear == ClearStart \/ ClearOne \/ ClearEnd

Dma == DmaSend \/ DmaSuspend

TxNext ==
  \/ Output
  \/ Clear
  \/ Dma
  \/ LinkChange
  \/ UpdateConfig
  \/ \E b \in Buffers : OthersMove(b)

(* The RX ring has taken some of the buffers from the pool before.         *)
TxInitial == owner \in [Buffers -> {"pool", "rx"}] /\ TxInit

TxSpec == TxInitial /\ [][TxNext]_txVars

-----------------------------------------------------------------------------
(* Properties.                                                             *)

TxTypeOK ==
  /\ OwnerTypeOK
  /\ own \in [TxIndex -> BOOLEAN]
  /\ txBuf \in [TxIndex -> Buffers \cup {NoBuf}]
  /\ txDesc \in TxIndex /\ toClear \in TxIndex /\ dmaPos \in TxIndex
  /\ sem \in 0 .. NTx
  /\ outPc \in OutPcs /\ outBuf \in Buffers \cup {NoBuf}
  /\ clrPc \in {"idle", "loop"} /\ clrLast \in TxIndex /\ clrCount \in 0 .. NTx
  /\ dmaPoll \in BOOLEAN /\ macEn \in BOOLEAN /\ linkUp \in BOOLEAN

(* How many descriptors lie from a up to, not including, b.                *)
TxDist(a, b) == IF a <= b THEN b - a ELSE b - a + NTx

(* Tokens taken, without the one of a frame not yet behind xETH.TxDesc.    *)
Held == IF outPc \in {"took", "filled", "owned"} THEN 1 ELSE 0
Submitted == NTx - sem - Held

(* i is submitted and not yet reclaimed.                                   *)
InFlight(i) == TxDist(toClear, i) < Submitted

(* Where the next OWN bit will be set.                                     *)
OwnEnd == IF outPc = "owned" THEN TxSucc(txDesc) ELSE txDesc

(* The counting semaphore and the two ring pointers never disagree: the    *)
(* tokens taken are the descriptors from DMATxDescToClear to xETH.TxDesc,  *)
(* plus one while xNetworkInterfaceOutput has a token but has not advanced.*)
TxTokens ==
  /\ Submitted \in 0 .. NTx - Held
  /\ TxDist(toClear, txDesc) = IF Submitted = NTx THEN 0 ELSE Submitted

(* The configASSERT of xNetworkInterfaceOutput, and more: the descriptor   *)
(* that a token entitles to is neither the DMA engine's nor does it hold a *)
(* buffer that was not released.                                           *)
TxNoOverwrite ==
  outPc = "took" => ~own[txDesc] /\ txBuf[txDesc] = NoBuf

(* While the DMA engine owns a descriptor its buffer is there and has not  *)
(* been released or handed to anybody else.                                *)
TxDmaSafe ==
  \A i \in TxIndex : own[i] => txBuf[i] \in Buffers /\ owner[txBuf[i]] = "tx"

(* No buffer handed to the ring is lost or entered twice: it is under      *)
(* exactly one descriptor until vClearTXBuffers releases it, and every     *)
(* buffer under a descriptor is the ring's.                                *)
TxLedger ==
  /\ \A b \in Buffers : owner[b] = "tx" <=> \E i \in TxIndex : txBuf[i] = b
  /\ \A i, j \in TxIndex : txBuf[i] = txBuf[j] /\ txBuf[i] # NoBuf => i = j

(* The snapshots uxCount and txLastDescriptor, read without a lock, stay   *)
(* exact for as long as the loop of vClearTXBuffers uses them.             *)
TxSnapshot ==
  clrPc = "loop" => clrCount = NTx - sem /\ clrLast = txDesc

(* The DMA engine and the driver walk the ring in step: the descriptors it *)
(* owns are exactly those from its position to the last submitted one, so  *)
(* it never stops in front of a gap with frames behind it.                 *)
TxDmaInStep ==
  \A i \in TxIndex :
    own[i] <=> TxDist(dmaPos, i) < IF own[dmaPos] /\ dmaPos = OwnEnd
                                   THEN NTx ELSE TxDist(dmaPos, OwnEnd)

-----------------------------------------------------------------------------
(* The inductive invariant that EmacTxProofs uses.  It adds to the         *)
(* properties exactly which descriptors hold a buffer and which may be the *)
(* DMA engine's, and who holds the buffer being sent.                      *)

Filling(i) == i = txDesc /\ outPc \in {"filled", "owned"}

TxSlots ==
  \A i \in TxIndex :
    /\ txBuf[i] # NoBuf <=> InFlight(i) \/ Filling(i)
    /\ own[i] => InFlight(i) \/ (i = txDesc /\ outPc = "owned")

TxOut ==
  IF outPc \in {"take", "took"}
  THEN outBuf \in Buffers /\ owner[outBuf] = "stack"
  ELSE outBuf = NoBuf

(* Every part of the argument at once: the ring, the tokens, the ledger    *)
(* and the snapshots stay consistent with each other over every step.      *)
TxInv ==
  TxTypeOK /\ TxTokens /\ TxSlots /\ TxOut /\ TxLedger /\ TxSnapshot /\ TxDmaInStep
=============================================================================
