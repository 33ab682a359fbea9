------------------------------- MODULE EmacRx -------------------------------
(***************************************************************************)
(* The receive side of the FTGMAC030 driver: the ring of RX descriptors,   *)
(* prvNetworkInterfaceInput run by the EMAC task until the ring is empty,  *)
(* the RX DMA engine, and the event queue of the IP task.                  *)
(*                                                                         *)
(* Scheduling.  The EMAC task has the higher priority: the IP task, which  *)
(* empties the event queue and releases buffers, runs only while the EMAC  *)
(* task is outside prvNetworkInterfaceInput or blocked in it, waiting for  *)
(* a buffer or for room in the event queue.  The DMA engine runs always.   *)
(***************************************************************************)
EXTENDS Integers, FiniteSets, Sequences, SequencesExt, NetBuffers

CONSTANTS
  NRx,      \* ETH_RXBUFNB, the number of RX descriptors
  EvLen,    \* ipconfigEVENT_QUEUE_LENGTH
  Kinds     \* the kinds of frames that arrive, a subset of FrameKinds

(* "good"     accepted by xMayAcceptPacket                                 *)
(* "refused"  refused by xMayAcceptPacket                                  *)
(* "error"    RX_ERR or CRC_ERR is set in rxdes0                           *)
(* "empty"    its byte count is that of the CRC alone: xReceivedLength = 0 *)
FrameKinds == {"good", "refused", "error", "empty"}

ASSUME NRxAssumption == NRx \in Nat \ {0} /\ NRx <= Cardinality(Buffers)
ASSUME EvLenAssumption == EvLen \in Nat \ {0}
ASSUME KindsAssumption == Kinds \subseteq FrameKinds

VARIABLES
  rdy,      \* rxdes0 & RXPKT_RDY: the descriptor holds a frame
  kind,     \* the kind of that frame
  rxBuf,    \* rxdes3 of each descriptor
  rxDesc,   \* xETH.RxDesc
  rxPos,    \* the descriptor the DMA engine fills next
  inPc,     \* where the EMAC task is in prvNetworkInterfaceInput
  cur,      \* pxDMARxDescriptor
  newBuf,   \* pxNewDescriptor
  evQueue   \* xNetworkEventQueue: buffers of RX events, NoBuf: other events

rxRing  == <<rdy, kind, rxBuf, rxDesc, rxPos>>
inVars  == <<inPc, cur, newBuf>>
rxVars  == <<owner, rxRing, inVars, evQueue>>

RxIndex == 0 .. NRx - 1

(* rxdes2: the ring is a chain.                                            *)
RxSucc(i) == IF i = NRx - 1 THEN 0 ELSE i + 1

InPcs == {"idle", "look", "get", "send", "give", "ready"}

(* prvDMARxDescListInit: one buffer of the pool under each descriptor.     *)
RxInit ==
  /\ rdy = [i \in RxIndex |-> FALSE]
  /\ kind = [i \in RxIndex |-> "good"]
  /\ rxBuf \in [RxIndex -> Buffers] /\ IsInjective(rxBuf)
  /\ owner = [b \in Buffers |-> IF b \in {rxBuf[i] : i \in RxIndex} THEN "rx" ELSE "pool"]
  /\ rxDesc = 0 /\ rxPos = 0
  /\ inPc = "idle" /\ cur = 0 /\ newBuf = NoBuf
  /\ evQueue = <<>>

-----------------------------------------------------------------------------
(* The RX DMA engine: a frame of kind k arrives at a descriptor it owns.   *)
(* When the descriptor still holds a frame the new frame is lost, which    *)
(* changes nothing here.                                                   *)
DmaReceive(k) ==
  /\ ~rdy[rxPos]
  /\ rdy' = [rdy EXCEPT ![rxPos] = TRUE]
  /\ kind' = [kind EXCEPT ![rxPos] = k]
  /\ rxPos' = RxSucc(rxPos)
  /\ UNCHANGED <<owner, rxBuf, rxDesc, inVars, evQueue>>

-----------------------------------------------------------------------------
(* prvNetworkInterfaceInput, called until it returns 0.                    *)

DrainStart ==
  /\ inPc = "idle"
  /\ inPc' = "look"
  /\ UNCHANGED <<owner, rxRing, cur, newBuf, evQueue>>

(* No frame: return 0.                                                     *)
LookNone ==
  /\ inPc = "look" /\ ~rdy[rxDesc]
  /\ inPc' = "idle"
  /\ UNCHANGED <<owner, rxRing, cur, newBuf, evQueue>>

(* xETH.RxDesc moves on before the length is tested, and a length of 0     *)
(* skips the rest of the function, which returns 0.                        *)
LookEmpty ==
  /\ inPc = "look" /\ rdy[rxDesc] /\ kind[rxDesc] = "empty"
  /\ rxDesc' = RxSucc(rxDesc)
  /\ inPc' = "idle"
  /\ UNCHANGED <<owner, rdy, kind, rxBuf, rxPos, cur, newBuf, evQueue>>

(* Mutant: a refused frame's descriptor is not given back.                 *)
LookFrameKeep ==
  /\ inPc = "look" /\ rdy[rxDesc] /\ kind[rxDesc] # "empty"
  /\ cur' = rxDesc
  /\ rxDesc' = RxSucc(rxDesc)
  /\ newBuf' = NoBuf
  /\ inPc' = IF kind[rxDesc] = "good" THEN "get" ELSE "look"
  /\ UNCHANGED <<owner, rdy, kind, rxBuf, rxPos, evQueue>>

(* Mutant: the error bits of rxdes0 are not looked at.                     *)
LookFrameAnyError ==
  /\ inPc = "look" /\ rdy[rxDesc] /\ kind[rxDesc] # "empty"
  /\ cur' = rxDesc
  /\ rxDesc' = RxSucc(rxDesc)
  /\ newBuf' = NoBuf
  /\ inPc' = IF kind[rxDesc] \in {"good", "error"} THEN "get" ELSE "give"
  /\ UNCHANGED <<owner, rdy, kind, rxBuf, rxPos, evQueue>>

(* A frame: it is accepted, or its descriptor is recycled as it is.        *)
LookFrame ==
  /\ inPc = "look" /\ rdy[rxDesc] /\ kind[rxDesc] # "empty"
  /\ cur' = rxDesc
  /\ rxDesc' = RxSucc(rxDesc)
  /\ newBuf' = NoBuf
  /\ inPc' = IF kind[rxDesc] = "good" THEN "get" ELSE "give"
  /\ UNCHANGED <<owner, rdy, kind, rxBuf, rxPos, evQueue>>

(* pxGetNetworkBufferWithDescriptor: the buffer that will take the place   *)
(* of the received one.                                                    *)
GetNew ==
  /\ inPc = "get"
  /\ \E b \in Buffers : GetBuffer(b, "rx") /\ newBuf' = b
  /\ inPc' = "send"
  /\ UNCHANGED <<rxRing, cur, evQueue>>

(* Mutant: xAccepted is not reset.                                         *)
GetTimeoutAccept ==
  /\ inPc = "get" /\ Pool = {}
  /\ inPc' = "send"
  /\ UNCHANGED <<owner, rxRing, cur, newBuf, evQueue>>

(* 250 ms without a free buffer: the frame is dropped.                     *)
GetTimeout ==
  /\ inPc = "get" /\ Pool = {}
  /\ inPc' = "give"
  /\ UNCHANGED <<owner, rxRing, cur, newBuf, evQueue>>

(* Mutant: the queue takes one event more than its length.                 *)
SendEventOverfull ==
  /\ inPc = "send" /\ Len(evQueue) <= EvLen
  /\ evQueue' = Append(evQueue, rxBuf[cur])
  /\ HandOver(rxBuf[cur], "queue")
  /\ inPc' = "give"
  /\ UNCHANGED <<rxRing, cur, newBuf>>

(* xSendEventStructToIPTask succeeds.                                      *)
SendEvent ==
  /\ inPc = "send" /\ Len(evQueue) < EvLen
  /\ evQueue' = Append(evQueue, rxBuf[cur])
  /\ HandOver(rxBuf[cur], "queue")
  /\ inPc' = "give"
  /\ UNCHANGED <<rxRing, cur, newBuf>>

(* Mutant: the received buffer is not released.                            *)
SendTimeoutLeak ==
  /\ inPc = "send" /\ Len(evQueue) = EvLen
  /\ inPc' = "give"
  /\ UNCHANGED <<owner, rxRing, cur, newBuf, evQueue>>

(* 250 ms without room in the queue: the received buffer is released.      *)
SendTimeout ==
  /\ inPc = "send" /\ Len(evQueue) = EvLen
  /\ Release(rxBuf[cur])
  /\ inPc' = "give"
  /\ UNCHANGED <<rxRing, cur, newBuf, evQueue>>

(* Mutant: the delivered buffer stays under the descriptor.                *)
GiveBufferNot ==
  /\ inPc = "give"
  /\ newBuf' = NoBuf
  /\ inPc' = "ready"
  /\ UNCHANGED <<owner, rdy, kind, rxBuf, rxDesc, rxPos, cur, evQueue>>

(* rxdes3 = the new buffer, if there is one ...                            *)
GiveBuffer ==
  /\ inPc = "give"
  /\ rxBuf' = IF newBuf # NoBuf THEN [rxBuf EXCEPT ![cur] = newBuf] ELSE rxBuf
  /\ newBuf' = NoBuf
  /\ inPc' = "ready"
  /\ UNCHANGED <<owner, rdy, kind, rxDesc, rxPos, cur, evQueue>>

(* ... and then rxdes0 &= EDORR: the descriptor is the DMA engine's again. *)
GiveDescriptor ==
  /\ inPc = "ready"
  /\ rdy' = [rdy EXCEPT ![cur] = FALSE]
  /\ inPc' = "look"
  /\ UNCHANGED <<owner, kind, rxBuf, rxDesc, rxPos, cur, newBuf, evQueue>>

Input ==
  \/ LookNone \/ LookEmpty \/ LookFrame
  \/ GetNew \/ GetTimeout \/ SendEvent \/ SendTimeout
  \/ GiveBuffer \/ GiveDescriptor

-----------------------------------------------------------------------------
(* The IP task and the tasks below it.                                     *)

(* The EMAC task is not in the way: it waits in ulTaskNotifyTake, or in    *)
(* one of the two bounded waits of prvNetworkInterfaceInput.               *)
InputBlocked ==
  \/ inPc = "idle"
  \/ inPc = "get" /\ Pool = {}
  \/ inPc = "send" /\ Len(evQueue) = EvLen

(* prvIPTask takes the next event; a received frame is the stack's.        *)
IpTake ==
  /\ InputBlocked /\ evQueue # <<>>
  /\ evQueue' = Tail(evQueue)
  /\ IF Head(evQueue) # NoBuf THEN HandOver(Head(evQueue), "stack") ELSE UNCHANGED owner
  /\ UNCHANGED <<rxRing, inVars>>

(* Timers and application tasks post events of other types.                *)
OtherEvent ==
  /\ InputBlocked /\ Len(evQueue) < EvLen
  /\ evQueue' = Append(evQueue, NoBuf)
  /\ UNCHANGED <<owner, rxRing, inVars>>

(* The stack and the TX side hand around the buffers that are not the RX   *)
(* side's.                                                                 *)
RxOthersMove(b) ==
  /\ InputBlocked /\ owner[b] \notin {"rx", "queue"}
  /\ \E h \in {"pool", "stack", "tx"} \ {owner[b]} : HandOver(b, h)
  /\ UNCHANGED <<rxRing, inVars, evQueue>>

RxNext ==
  \/ \E k \in Kinds : DmaReceive(k)
  \/ DrainStart
  \/ Input
  \/ IpTake
  \/ OtherEvent
  \/ \E b \in Buffers : RxOthersMove(b)

RxSpec == RxInit /\ [][RxNext]_rxVars

-----------------------------------------------------------------------------
(* Properties.                                                             *)

RxTypeOK ==
  /\ OwnerTypeOK
  /\ rdy \in [RxIndex -> BOOLEAN] /\ kind \in [RxIndex -> FrameKinds]
  /\ rxBuf \in [RxIndex -> Buffers]
  /\ rxDesc \in RxIndex /\ rxPos \in RxIndex /\ cur \in RxIndex
  /\ inPc \in InPcs /\ newBuf \in Buffers \cup {NoBuf}
  /\ evQueue \in Seq(Buffers \cup {NoBuf}) /\ Len(evQueue) <= EvLen

(* The descriptor that prvNetworkInterfaceInput is working on.             *)
Busy == IF inPc \in {"get", "send", "give", "ready"} THEN {cur} ELSE {}

(* The received buffer is gone, the new one not yet under the descriptor.  *)
Replaced(i) == i \in Busy /\ inPc = "give" /\ newBuf # NoBuf

(* A buffer that the DMA engine may write is the RX side's: no frame is    *)
(* received into a buffer that the stack, the pool or the TX ring holds.   *)
RxDmaSafe == \A i \in RxIndex : ~rdy[i] => owner[rxBuf[i]] = "rx"

(* Every buffer of the RX side is in exactly one place, and every place    *)
(* holds a buffer of the RX side: none leaks when a frame is dropped, none *)
(* is both delivered and received into.                                    *)
RxLedger ==
  /\ \A b \in Buffers :
       owner[b] = "rx" <=> (b = newBuf \/ \E i \in RxIndex : rxBuf[i] = b /\ ~Replaced(i))
  /\ \A b \in Buffers :
       owner[b] = "queue" <=> \E k \in DOMAIN evQueue : evQueue[k] = b
  /\ \A k, l \in DOMAIN evQueue : evQueue[k] = evQueue[l] /\ evQueue[k] # NoBuf => k = l
  /\ IsInjective(rxBuf) /\ \A i \in RxIndex : rxBuf[i] # newBuf

RxDist(a, b) == IF a <= b THEN b - a ELSE b - a + NRx

(* The oldest descriptor that has not been given back.                     *)
RxFirst == IF Busy = {} THEN rxDesc ELSE cur

(* No frame of no bytes was received.  One that was stays where it is:     *)
(* LookEmpty never gives its descriptor back.                              *)
NoEmptyFrame == \A i \in RxIndex : rdy[i] => kind[i] # "empty"

(* The driver and the DMA engine walk the ring in step: until a frame of   *)
(* no bytes arrives, the descriptors with a frame are exactly those from   *)
(* the driver's position up to the engine's.  Out of step, either waits at *)
(* a descriptor the other has left behind, and reception stops.            *)
RxInStep ==
  NoEmptyFrame =>
    \A i \in RxIndex :
      rdy[i] <=> RxDist(RxFirst, i) < IF rdy[rxPos] /\ rxPos = RxFirst
                                      THEN NRx ELSE RxDist(RxFirst, rxPos)

-----------------------------------------------------------------------------
(* The inductive invariant that EmacRxProofs uses.  It adds to the ledger  *)
(* what prvNetworkInterfaceInput holds at each of its steps.               *)

RxWork ==
  /\ Busy # {} => rdy[cur]
  /\ newBuf # NoBuf => inPc \in {"send", "give"}
  /\ inPc = "send" => newBuf # NoBuf

(* Every buffer of the receive side is accounted for, and the descriptor   *)
(* being worked on is out of the DMA engine's reach.                       *)
RxInv == RxTypeOK /\ RxWork /\ RxLedger
=============================================================================
