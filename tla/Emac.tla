-------------------------------- MODULE Emac --------------------------------
(***************************************************************************)
(* The whole Ethernet driver: the transmit and the receive side composed   *)
(* with the loop of prvEMACHandlerTask that calls them, the interrupt      *)
(* handler that wakes it, and the event word ulISREvents between the two.  *)
(*                                                                         *)
(* Scheduling.  One core.  The interrupt handler runs between any two      *)
(* steps of any task while the MAC's interrupt is pending and enabled.     *)
(* The EMAC task runs whenever it is not blocked; the IP task and the      *)
(* tasks below it only while it is blocked.  The DMA engines always run.   *)
(*                                                                         *)
(* The module starts after an xNetworkInterfaceInitialise that found the   *)
(* link and enabled the interrupt in the interrupt controller.             *)
(***************************************************************************)
EXTENDS EmacTx, EmacRx

CONSTANT MaxNotify   \* bound of the notification count

ASSUME MaxNotifyAssumption == MaxNotify \in Nat \ {0}

VARIABLES
  isr,      \* the status bits of the MAC: "rx" RPKT_BUF, NO_RXBUF; "tx" XPKT_ETH
  ier,      \* IER & INT_MASK_ALL_ENABLED # 0
  events,   \* ulISREvents
  notify,   \* the notification count of the EMAC task
  emacPc,   \* where the EMAC task is in prvEMACHandlerTask
  loaded,   \* ulISREvents as "ulISREvents &= ~EMAC_IF_TX_EVENT" read it
  hadRx     \* xResult > 0

txSide   == <<ringVars, outVars, clrVars, dmaVars, linkVars>>
rxSide   == <<rxRing, inVars, evQueue>>
loopVars == <<emacPc, loaded, hadRx>>
irqVars  == <<isr, ier, events, notify>>
vars     == <<owner, txSide, rxSide, loopVars, irqVars>>

EventBits == {"rx", "tx"}
EmacPcs   == {"check", "wait", "rx", "drain", "tx", "store", "clear", "phy", "config"}

Init ==
  /\ TxInit /\ linkUp /\ RxInit
  /\ isr = {} /\ ier = TRUE /\ events = {} /\ notify = 0
  /\ emacPc = "check" /\ loaded = {} /\ hadRx = FALSE

-----------------------------------------------------------------------------
(* The hardware.  A DMA engine sets its status bit with the descriptor.    *)

Raise(bit) == isr' = isr \cup {bit} /\ UNCHANGED <<ier, events, notify>>

Receive(k) ==
  /\ macEn /\ DmaReceive(k) /\ Raise("rx")
  /\ UNCHANGED <<txSide, loopVars>>

(* No descriptor is left for the frame: NO_RXBUF.                          *)
Overrun ==
  /\ macEn /\ rdy[rxPos] /\ Raise("rx")
  /\ UNCHANGED <<owner, txSide, rxSide, loopVars>>

Transmit == DmaSend /\ Raise("tx") /\ UNCHANGED <<rxSide, loopVars>>

Suspend == DmaSuspend /\ UNCHANGED <<rxSide, loopVars, irqVars>>

-----------------------------------------------------------------------------
(* Mutant: the callback for TX does not wake the task.                     *)
InterruptSilent ==
  /\ ier /\ isr # {}
  /\ isr' = {}
  /\ events' = events \cup isr
  /\ notify' = IF "rx" \in isr THEN 1 ELSE notify
  /\ UNCHANGED <<owner, txSide, rxSide, loopVars, ier>>

(* Mutant: the callback for TX does not set its bit.                       *)
InterruptNoTx ==
  /\ ier /\ isr # {}
  /\ isr' = {}
  /\ events' = events \cup (isr \ {"tx"})
  /\ LET n == notify + Cardinality(isr) IN notify' = IF n < MaxNotify THEN n ELSE MaxNotify
  /\ UNCHANGED <<owner, txSide, rxSide, loopVars, ier>>

(* HAL_ETH_IRQHandler: acknowledges what is pending and runs the           *)
(* callbacks, each of which sets its bit in ulISREvents and notifies the   *)
(* task.  A count beyond MaxNotify is not kept: all it could do is wake    *)
(* the task once more without an event, as the timeout does anyway.        *)
Interrupt ==
  /\ ier /\ isr # {}
  /\ isr' = {}
  /\ events' = events \cup isr
  /\ LET n == notify + Cardinality(isr) IN notify' = IF n < MaxNotify THEN n ELSE MaxNotify
  /\ UNCHANGED <<owner, txSide, rxSide, loopVars, ier>>

-----------------------------------------------------------------------------
(* prvEMACHandlerTask.                                                     *)

Goto(from, to) == emacPc = from /\ emacPc' = to

(* Mutant: the task polls and never sleeps.                                *)
CheckNoSleep ==
  /\ emacPc = "check"
  /\ emacPc' = "rx"
  /\ hadRx' = FALSE
  /\ UNCHANGED <<owner, txSide, rxSide, loaded, irqVars>>

(* The top of the loop: sleep unless there are events.                     *)
Check ==
  /\ emacPc = "check"
  /\ emacPc' = IF events = {} THEN "wait" ELSE "rx"
  /\ hadRx' = FALSE
  /\ UNCHANGED <<owner, txSide, rxSide, loaded, irqVars>>

(* Mutant: the count is taken from whether or not there is one.            *)
WakeUnderflow ==
  /\ Goto("wait", "rx")
  /\ notify' = notify - 1
  /\ UNCHANGED <<owner, txSide, rxSide, loaded, hadRx, isr, ier, events>>

(* ulTaskNotifyTake( pdFALSE ) takes one notification ...                  *)
Wake ==
  /\ Goto("wait", "rx") /\ notify > 0
  /\ notify' = notify - 1
  /\ UNCHANGED <<owner, txSide, rxSide, loaded, hadRx, isr, ier, events>>

(* ... or gives up after 100 ms.                                           *)
WakeTimeout ==
  /\ Goto("wait", "rx") /\ notify = 0
  /\ UNCHANGED <<owner, txSide, rxSide, loaded, hadRx, irqVars>>

(* Mutant: ulISREvents = 0.                                                *)
RxBeginAll ==
  /\ Goto("rx", "drain") /\ "rx" \in events
  /\ ier' = FALSE
  /\ events' = {}
  /\ DrainStart
  /\ UNCHANGED <<txSide, loaded, hadRx, isr, notify>>

(* With the MAC's interrupts masked the RX bit is cleared and the ring     *)
(* drained.                                                                *)
RxBegin ==
  /\ Goto("rx", "drain") /\ "rx" \in events
  /\ ier' = FALSE
  /\ events' = events \ {"rx"}
  /\ DrainStart
  /\ UNCHANGED <<txSide, loaded, hadRx, isr, notify>>

RxSkip ==
  /\ Goto("rx", "tx") /\ "rx" \notin events
  /\ UNCHANGED <<owner, txSide, rxSide, loaded, hadRx, irqVars>>

(* Mutant: the interrupts stay masked.                                     *)
RxDrainMasked ==
  /\ emacPc = "drain" /\ Input
  /\ IF inPc' = "idle" THEN emacPc' = "tx" ELSE UNCHANGED emacPc
  /\ hadRx' = (hadRx \/ inPc' \in {"get", "give"})
  /\ UNCHANGED <<txSide, loaded, isr, ier, events, notify>>

(* prvNetworkInterfaceInput; once it returns 0 the interrupts are          *)
(* unmasked.                                                               *)
RxDrain ==
  /\ emacPc = "drain" /\ Input
  /\ IF inPc' = "idle"
     THEN emacPc' = "tx" /\ ier' = TRUE
     ELSE UNCHANGED <<emacPc, ier>>
  /\ hadRx' = (hadRx \/ inPc' \in {"get", "give"})
  /\ UNCHANGED <<txSide, loaded, isr, events, notify>>

(* ulISREvents &= ~EMAC_IF_TX_EVENT with interrupts enabled: a load ...    *)
TxTest ==
  /\ emacPc = "tx"
  /\ IF "tx" \in events
     THEN emacPc' = "store" /\ loaded' = events
     ELSE emacPc' = "phy" /\ UNCHANGED loaded
  /\ UNCHANGED <<owner, txSide, rxSide, hadRx, irqVars>>

(* Mutant: ulISREvents = 0.                                                *)
TxBeginAll ==
  /\ Goto("store", "clear")
  /\ events' = {}
  /\ loaded' = {}
  /\ ClearStart
  /\ UNCHANGED <<rxSide, hadRx, isr, ier, notify>>

(* ... and a store.  Then vClearTXBuffers.                                 *)
TxBegin ==
  /\ Goto("store", "clear")
  /\ events' = loaded \ {"tx"}
  /\ loaded' = {}
  /\ ClearStart
  /\ UNCHANGED <<rxSide, hadRx, isr, ier, notify>>

TxClear ==
  /\ emacPc = "clear"
  /\ \/ ClearOne /\ UNCHANGED emacPc
     \/ ClearEnd /\ emacPc' = "phy"
  /\ UNCHANGED <<rxSide, loaded, hadRx, irqVars>>

(* xPhyCheckLinkStatus: nothing received lately, and the PHY's link bit    *)
(* differs from the mask; or nothing has changed.                          *)
PhyChange ==
  /\ Goto("phy", "config") /\ ~hadRx
  /\ LinkChange
  /\ UNCHANGED <<rxSide, loaded, hadRx, irqVars>>

PhySame ==
  /\ Goto("phy", "check")
  /\ UNCHANGED <<owner, txSide, rxSide, loaded, hadRx, irqVars>>

PhyConfig ==
  /\ Goto("config", "check")
  /\ UpdateConfig
  /\ UNCHANGED <<rxSide, loaded, hadRx, irqVars>>

EmacTask ==
  \/ Check \/ Wake \/ WakeTimeout
  \/ RxBegin \/ RxSkip \/ RxDrain
  \/ TxTest \/ TxBegin \/ TxClear
  \/ PhyChange \/ PhySame \/ PhyConfig

-----------------------------------------------------------------------------
(* The IP task and the tasks below it.                                     *)

(* Mutant: the IP task also runs while the ring is drained.                *)
EmacBlockedDraining == (emacPc = "wait" /\ notify = 0) \/ emacPc = "drain"

EmacBlocked ==
  \/ emacPc = "wait" /\ notify = 0
  \/ emacPc = "drain" /\ InputBlocked

IpOutput == EmacBlocked /\ Output /\ UNCHANGED <<rxSide, loopVars, irqVars>>

IpEvent ==
  /\ EmacBlocked /\ outPc = "idle" /\ IpTake
  /\ UNCHANGED <<txSide, loopVars, irqVars>>

PostEvent == EmacBlocked /\ OtherEvent /\ UNCHANGED <<txSide, loopVars, irqVars>>

(* Mutant: the stack releases a buffer that it is sending.                 *)
StackMoveSending(b) ==
  /\ EmacBlocked
  /\ \/ GetBuffer(b, "stack")
     \/ owner[b] = "stack" /\ Release(b)
  /\ UNCHANGED <<txSide, rxSide, loopVars, irqVars>>

(* The stack takes a free buffer, or releases one that it is not sending.  *)
StackMove(b) ==
  /\ EmacBlocked
  /\ \/ GetBuffer(b, "stack")
     \/ owner[b] = "stack" /\ b # outBuf /\ Release(b)
  /\ UNCHANGED <<txSide, rxSide, loopVars, irqVars>>

Hardware == (\E k \in Kinds : Receive(k)) \/ Overrun \/ Transmit \/ Suspend

Next ==
  \/ Hardware
  \/ Interrupt
  \/ EmacTask
  \/ IpOutput \/ IpEvent \/ PostEvent
  \/ \E b \in Buffers : StackMove(b)

Spec == Init /\ [][Next]_vars

(* Fairness.  The DMA engines, the interrupt and the EMAC task, which has  *)
(* the highest priority, do not wait for anybody; what the EMAC task waits *)
(* for itself has a timeout.  The IP task is only delayed by the EMAC task *)
(* and that one, when it has nothing to do, sleeps for 100 ms at a time:   *)
(* a step of the IP task that is possible again and again is taken.  A new *)
(* packet to send, a frame and a change of the link need never come.       *)
OutputGoesOn == outPc # "idle" /\ IpOutput

Fairness ==
  /\ WF_vars(Transmit \/ Suspend)
  /\ WF_vars(Interrupt)
  /\ WF_vars(EmacTask)
  /\ SF_vars(OutputGoesOn)
  /\ SF_vars(IpEvent)

FairSpec == Spec /\ Fairness

-----------------------------------------------------------------------------
(* Properties.                                                             *)

LoopTypeOK ==
  /\ isr \subseteq EventBits /\ events \subseteq EventBits /\ loaded \subseteq EventBits
  /\ ier \in BOOLEAN /\ hadRx \in BOOLEAN
  /\ notify \in 0 .. MaxNotify /\ emacPc \in EmacPcs

EmacTypeOK == TxTypeOK /\ RxTypeOK /\ LoopTypeOK

(* The driver obeys both component specifications: its interrupt handler,  *)
(* event loop and scheduling let the two sides do nothing that EmacTx and  *)
(* EmacRx do not allow, and what one side does is to the other no more     *)
(* than a buffer changing hands.                                           *)
ImplementsTx == TxSpec
ImplementsRx == RxSpec

(* No lost wake-up: the EMAC task never sleeps on an event word that is    *)
(* not zero without a notification to wake it at once.                     *)
NoLostWakeUp == emacPc = "wait" /\ events # {} => notify > 0

(* The inductive invariant that EmacProofs uses: both sides are consistent *)
(* with their rings and with the one ledger of buffers, and the EMAC task  *)
(* is in vClearTXBuffers or in prvNetworkInterfaceInput just when its loop *)
(* is at the call.                                                         *)
LoopCalls ==
  /\ clrPc = IF emacPc = "clear" THEN "loop" ELSE "idle"
  /\ emacPc # "drain" <=> inPc = "idle"

EmacInv == TxInv /\ RxInv /\ LoopCalls

TxHandling == "tx" \in isr \cup events \/ emacPc \in {"store", "clear"}

(* A frame that is sent while xNetworkInterfaceOutput has set its OWN bit  *)
(* but not yet moved xETH.TxDesc is not reclaimed by the vClearTXBuffers   *)
(* that its interrupt starts.  This never costs more than one descriptor:  *)
(* when no TX event is left to handle, at most one is sent and unreclaimed.*)
AtMostOneStranded ==
  ~TxHandling => Cardinality({i \in TxIndex : InFlight(i) /\ ~own[i]}) <= 1

Quiet == <>[][\A k \in Kinds : ~Receive(k)]_vars

(* A call of xNetworkInterfaceOutput returns, even if the DMA engine has   *)
(* stopped and no descriptor is ever reclaimed; the EMAC task with its     *)
(* higher priority does not starve it, once frames stop arriving.          *)
OutputNotStarved == Quiet => (outPc # "idle" ~> outPc = "idle")

(* A frame given to the DMA engine is sent if the MAC stays enabled.       *)
FramesAreSent ==
  Quiet /\ <>[]macEn => \A i \in TxIndex : own[i] ~> ~own[i]

(* The end of a transmission never goes unnoticed: the buffer of a sent    *)
(* frame can be stranded (AtMostOneStranded), but each XPKT_ETH interrupt  *)
(* is followed by a run of vClearTXBuffers, whatever the IP task and the   *)
(* receive side are doing, once frames stop arriving.                      *)
TxEventHandled == Quiet => ("tx" \in isr \cup events ~> emacPc = "clear")

(* While nothing is transmitted every received frame is looked at, and its *)
(* descriptor given back.  (With transmission this is not so: see          *)
(* RxEventOutstanding.)                                                    *)
ReceptionAlone ==
  Quiet /\ [](sem = NTx) => \A i \in RxIndex : rdy[i] ~> ~rdy[i]

(* "Bit map of outstanding ETH interrupt events for processing" (comment   *)
(* on ulISREvents): while a received frame waits, and prvEMACHandlerTask   *)
(* is not draining the ring, its interrupt is pending or its bit is set.   *)
RxEventOutstanding ==
  rdy[RxFirst] /\ emacPc # "drain" => "rx" \in isr \cup events

(* The store of "ulISREvents &= ~EMAC_IF_TX_EVENT" is the only step that   *)
(* loses an outstanding RX event, and only one that was recorded after the *)
(* load: no other interleaving does, neither the interrupts that come      *)
(* while the ring is drained, nor the end of the draining.                 *)
LostByStore == emacPc = "store" /\ emacPc' = "clear" /\ "rx" \in events \ loaded

RxLostOnlyByStore ==
  [][RxEventOutstanding /\ ~RxEventOutstanding' => LostByStore \/ ~NoEmptyFrame']_vars

(* "Once they're sent, the buffers will be released by the function        *)
(* vClearTXBuffers()" (comment in HAL_ETH_TxCpltCallback).                 *)
SentIsReleased ==
  \A i \in TxIndex : InFlight(i) /\ ~own[i] ~> ~InFlight(i)
=============================================================================
