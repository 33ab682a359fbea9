-------------------------- MODULE EmacEventProofs ---------------------------
(***************************************************************************)
(* Theorems about the events of the composed driver: the EMAC task loses   *)
(* no wake-up, and at most one sent descriptor waits without a TX event.   *)
(*                                                                         *)
(* Both are proved on top of EmacInv.  NoLostWakeUp is inductive with the  *)
(* types of the event word and the notification count.  AtMostOneStranded  *)
(* is not: OutputAdvance turns the sent descriptor at xETH.TxDesc into an  *)
(* in-flight one.  OneSent counts it from the moment its OWN bit is set.   *)
(***************************************************************************)
EXTENDS EmacProofs, FiniteSetTheorems

(* Sent and not reclaimed, the descriptor at xETH.TxDesc included.         *)
Sent(i) == (InFlight(i) \/ (i = txDesc /\ outPc = "owned")) /\ ~own[i]

OneSent == ~TxHandling => \A i, j \in TxIndex : Sent(i) /\ Sent(j) => i = j

EventInv == EmacInv /\ LoopTypeOK /\ NoLostWakeUp /\ OneSent

-----------------------------------------------------------------------------
LEMMA EventInvInitial == Init => EventInv
<1> SUFFICES ASSUME Init PROVE EventInv
  OBVIOUS
<1>1. EmacInv
  BY EmacInvInitial
<1>2. LoopTypeOK
  <2>1. notify \in 0 .. MaxNotify
    BY MaxNotifyAssumption DEF Init
  <2> QED
    BY <2>1, Zenon DEF Init, LoopTypeOK, EventBits, EmacPcs
<1>3. NoLostWakeUp
  BY DEF Init, NoLostWakeUp
<1>4. \A i \in TxIndex : ~Sent(i)
  BY NTxAssumption DEF Init, TxInit, Sent, InFlight, Submitted, Held, TxDist, TxIndex
<1>5. QED
  BY <1>1, <1>2, <1>3, <1>4 DEF EventInv, OneSent

(* Some bit is pending: at least one callback runs.                        *)
LEMMA CallbackRuns ==
  ASSUME isr \subseteq EventBits, isr # {}
  PROVE  Cardinality(isr) \in Nat \ {0}
<1>1. IsFiniteSet(EventBits)
  <2>1. IsFiniteSet({"rx"} \cup {"tx"})
    BY FS_Singleton, FS_AddElement
  <2>2. EventBits = {"rx"} \cup {"tx"}
    BY DEF EventBits
  <2> QED
    BY <2>1, <2>2
<1>2. IsFiniteSet(isr)
  BY <1>1, FS_Subset
<1>3. QED
  BY <1>2, FS_CardinalityType, FS_EmptySet

LEMMA InterruptNotifies ==
  ASSUME LoopTypeOK, Interrupt
  PROVE  notify' \in 1 .. MaxNotify
<1>1. Cardinality(isr) \in Nat \ {0}
  BY CallbackRuns DEF LoopTypeOK, Interrupt
<1>2. QED
  BY <1>1, MaxNotifyAssumption DEF LoopTypeOK, Interrupt

(* The type of the loop's variables and the wake-up go together: only the  *)
(* interrupt adds to the event word, and it notifies.                      *)
LEMMA LoopStep ==
  ASSUME LoopTypeOK, NoLostWakeUp, [Next]_vars
  PROVE  LoopTypeOK' /\ NoLostWakeUp'
<1> USE DEF LoopTypeOK, NoLostWakeUp, EventBits, EmacPcs, Goto, loopVars, irqVars
<1>1. CASE Hardware
  BY <1>1 DEF Hardware, Receive, Overrun, Transmit, Suspend, Raise
<1>2. CASE Interrupt
  BY <1>2, InterruptNotifies DEF Interrupt
<1>3. CASE Check \/ Wake \/ WakeTimeout
  <2>1. CASE Check
    BY <2>1 DEF Check
  <2>2. CASE Wake
    <3>1. notify' \in 0 .. MaxNotify
      BY <2>2, MaxNotifyAssumption DEF Wake
    <3> QED
      BY <2>2, <3>1 DEF Wake
  <2>3. CASE WakeTimeout
    BY <2>3 DEF WakeTimeout
  <2> QED
    BY <1>3, <2>1, <2>2, <2>3
<1>4. CASE RxBegin \/ RxSkip \/ RxDrain
  BY <1>4 DEF RxBegin, RxSkip, RxDrain
<1>5. CASE TxTest \/ TxBegin \/ TxClear
  BY <1>5 DEF TxTest, TxBegin, TxClear
<1>6. CASE PhyChange \/ PhySame \/ PhyConfig
  BY <1>6 DEF PhyChange, PhySame, PhyConfig
<1>7. CASE IpOutput \/ IpEvent \/ PostEvent \/ \E b \in Buffers : StackMove(b)
  BY <1>7 DEF IpOutput, IpEvent, PostEvent, StackMove
<1>8. CASE UNCHANGED vars
  BY <1>8 DEF vars
<1>9. QED
  BY <1>1, <1>2, <1>3, <1>4, <1>5, <1>6, <1>7, <1>8 DEF Next, EmacTask

-----------------------------------------------------------------------------
(* The loop of vClearTXBuffers leaves no sent descriptor in flight: it     *)
(* stops when nothing is, or at a descriptor of the DMA engine, and then   *)
(* the engine owns all that follow.                                        *)
LEMMA ClearEndLeavesNone ==
  ASSUME TxInv, ClearEnd, NEW i \in TxIndex, InFlight(i)
  PROVE  own[i]
<1> USE NTxAssumption, DistType DEF TxInv, TxTypeOK
<1>1. clrCount = NTx - sem /\ clrLast = txDesc
  BY DEF TxSnapshot, ClearEnd
<1>2. Submitted > 0 /\ Submitted \in 0 .. NTx - Held
  <2>1. Submitted \in 0 .. NTx - Held /\ NTx - Held \in Int
    BY DEF TxTokens, Held
  <2>2. TxDist(toClear, i) \in 0 .. NTx - 1 /\ TxDist(toClear, i) < Submitted
    BY DEF InFlight
  <2> QED
    BY <2>1, <2>2
<1>3. clrCount > 0
  BY <1>1, <1>2 DEF Submitted, Held
<1>4. toClear = txDesc => clrCount = NTx
  <2> SUFFICES ASSUME toClear = txDesc PROVE clrCount = NTx
    OBVIOUS
  <2>1. Submitted = NTx
    BY <1>2 DEF TxTokens
  <2> QED
    BY <1>1, <2>1 DEF Submitted, Held
<1>5. own[toClear]
  BY <1>1, <1>3, <1>4 DEF ClearEnd, Reclaimable
<1>6. QED
  BY <1>2, <1>5 DEF TxDmaInStep, InFlight, OwnEnd, TxTokens, TxDist, TxSucc, TxIndex, Held

(* xNetworkInterfaceOutput sends nothing: OutputSetOwn and OutputAdvance   *)
(* only move a descriptor from one part of Sent to the other.              *)
LEMMA OutputKeepsSent ==
  ASSUME TxInv, Output, NEW i \in TxIndex, Sent(i)'
  PROVE  Sent(i)
<1> USE NTxAssumption, DistType DEF TxInv, TxTypeOK, Sent, InFlight, Submitted, Held, TxTokens,
        IpStep, ringVars
<1>1. CASE \E b \in Buffers : OutputCall(b) \/ OutputNoLink(b)
  BY <1>1 DEF OutputCall, OutputNoLink
<1>2. CASE OutputTake
  BY <1>2 DEF OutputTake
<1>3. CASE OutputTimeout \/ OutputFill \/ OutputKick
  BY <1>3 DEF OutputTimeout, OutputFill, OutputKick
<1>4. CASE OutputSetOwn
  BY <1>4 DEF OutputSetOwn
<1>5. CASE OutputAdvance
  <2>1. CASE i = txDesc
    BY <1>5, <2>1 DEF OutputAdvance
  <2>2. CASE i # txDesc
    <3>1. TxDist(toClear, i) # TxDist(toClear, txDesc)
      BY <2>2, DistInjective
    <3>2. TxDist(toClear, i) \in 0 .. NTx - 1 /\ TxDist(toClear, txDesc) \in 0 .. NTx - 1
      OBVIOUS
    <3>3. Submitted = TxDist(toClear, txDesc) /\ Submitted' = Submitted + 1
      BY <1>5 DEF OutputAdvance
    <3>4. TxDist(toClear, i) < Submitted' /\ ~own[i]
      BY <1>5, <2>2 DEF OutputAdvance
    <3> QED
      BY <3>1, <3>2, <3>3, <3>4
  <2> QED
    BY <2>1, <2>2
<1>6. QED
  BY <1>1, <1>2, <1>3, <1>4, <1>5 DEF Output

(* At the end of vClearTXBuffers only the descriptor at xETH.TxDesc can be *)
(* a sent one; afterwards a descriptor is sent only with a new TX event.   *)
LEMMA OneSentStep ==
  ASSUME EventInv, [Next]_vars
  PROVE  OneSent'
<1> USE DEF EventInv, EmacInv, OneSent, TxHandling, LoopTypeOK, EventBits, Goto,
            loopVars, irqVars, txSide
<1>1. ASSUME UNCHANGED <<own, txDesc, toClear, sem, outPc>>, TxHandling => TxHandling'
      PROVE  OneSent'
  BY <1>1 DEF Sent, InFlight, Submitted, Held
<1>2. CASE Hardware
  <2>1. CASE Transmit
    BY <2>1 DEF Transmit, Raise
  <2>2. CASE ~Transmit
    BY <1>1, <1>2, <2>2 DEF Hardware, Receive, Overrun, Suspend, Raise, DmaReceive, DmaSuspend,
       ringVars, outVars
  <2> QED
    BY <2>1, <2>2
<1>3. CASE Interrupt
  BY <1>1, <1>3 DEF Interrupt, ringVars, outVars
<1>4. CASE Check \/ Wake \/ WakeTimeout \/ RxSkip \/ TxTest \/ PhySame
  BY <1>1, <1>4 DEF Check, Wake, WakeTimeout, RxSkip, TxTest, PhySame, ringVars, outVars
<1>5. CASE RxBegin \/ RxDrain
  BY <1>1, <1>5 DEF RxBegin, RxDrain, ringVars, outVars
<1>6. CASE TxBegin
  BY <1>6 DEF TxBegin
<1>7. CASE TxClear
  <2>1. CASE emacPc' = "clear"
    BY <2>1
  <2>2. CASE ClearEnd
    <3>1. ASSUME NEW i \in TxIndex, Sent(i)' PROVE i = txDesc
      BY <2>2, <3>1, ClearEndLeavesNone DEF ClearEnd, Sent, InFlight, Submitted, Held,
         ringVars, outVars
    <3>2. UNCHANGED txDesc
      BY <2>2 DEF ClearEnd, ringVars
    <3> QED
      BY <3>1
  <2> QED
    BY <1>7, <2>1, <2>2 DEF TxClear
<1>8. CASE PhyChange \/ PhyConfig
  BY <1>1, <1>8 DEF PhyChange, PhyConfig, LinkChange, UpdateConfig, ringVars, outVars
<1>9. CASE IpOutput
  <2>1. UNCHANGED <<isr, events, emacPc>> /\ Output
    BY <1>9 DEF IpOutput
  <2> QED
    BY <2>1, OutputKeepsSent
<1>10. CASE IpEvent \/ PostEvent \/ \E b \in Buffers : StackMove(b)
  BY <1>1, <1>10 DEF IpEvent, PostEvent, StackMove, ringVars, outVars
<1>11. CASE UNCHANGED vars
  BY <1>1, <1>11 DEF vars, ringVars, outVars
<1>12. QED
  BY <1>2, <1>3, <1>4, <1>5, <1>6, <1>7, <1>8, <1>9, <1>10, <1>11 DEF Next, EmacTask

-----------------------------------------------------------------------------
(* The rings, the ledger, the event word, the notification and the sent    *)
(* descriptors stay consistent with each other over every step.            *)
THEOREM EventInvariance == Spec => []EventInv
<1>1. EventInv /\ [Next]_vars => LoopTypeOK' /\ NoLostWakeUp' /\ OneSent'
  BY LoopStep, OneSentStep DEF EventInv
<1>2. EmacInv /\ EmacInv' /\ LoopTypeOK' /\ NoLostWakeUp' /\ OneSent' => EventInv'
  BY DEF EventInv
<1>3. EventInv => EmacInv
  BY DEF EventInv
<1>4. QED
  BY <1>1, <1>2, EmacInvariance, EventInvInitial, PTL DEF Spec

(* Type correctness of the composed driver.                                *)
THEOREM EmacTypeCorrect == Spec => []EmacTypeOK
<1>1. EventInv => EmacTypeOK
  BY DEF EventInv, EmacInv, TxInv, RxInv, LoopTypeOK, EmacTypeOK
<1>2. QED
  BY <1>1, EventInvariance, PTL

(* The EMAC task never sleeps on an event without a notification: neither  *)
(* an interrupt between the test of ulISREvents and ulTaskNotifyTake nor   *)
(* several interrupts for one wake-up are lost.                            *)
THEOREM WakeUpsAreNotLost == Spec => []NoLostWakeUp
<1>1. EventInv => NoLostWakeUp
  BY DEF EventInv
<1>2. QED
  BY <1>1, EventInvariance, PTL

(* With no TX event left to handle, one buffer at most is stranded on the  *)
(* ring, for every ring size and however many frames were sent.            *)
THEOREM StrandedIsOne == Spec => []AtMostOneStranded
<1>1. ASSUME OneSent, ~TxHandling
      PROVE  Cardinality({i \in TxIndex : InFlight(i) /\ ~own[i]}) <= 1
  <2> DEFINE S == {i \in TxIndex : InFlight(i) /\ ~own[i]}
  <2>1. \A i, j \in S : i = j
    BY <1>1 DEF OneSent, Sent
  <2>2. CASE S = {}
    BY <2>2, FS_EmptySet
  <2>3. CASE S # {}
    <3>1. PICK i : S = {i}
      BY <2>1, <2>3
    <3> QED
      BY <3>1, FS_Singleton
  <2> QED
    BY <2>2, <2>3
<1>2. EventInv => AtMostOneStranded
  BY <1>1 DEF EventInv, AtMostOneStranded
<1>3. QED
  BY <1>2, EventInvariance, PTL

-----------------------------------------------------------------------------
(* An RX event stays recorded or pending until the ring is drained.        *)

(* prvNetworkInterfaceInput returns 0 at a descriptor without a frame, or  *)
(* behind a frame of no bytes.                                             *)
LEMMA DrainEndsEmpty ==
  ASSUME RxInv, Input, inPc' = "idle"
  PROVE  ~rdy'[RxFirst'] \/ ~NoEmptyFrame'
<1>1. LookNone \/ LookEmpty
  BY DEF Input, LookNone, LookEmpty, LookFrame, GetNew, GetTimeout, SendEvent, SendTimeout,
         GiveBuffer, GiveDescriptor
<1>2. CASE LookNone
  BY <1>2 DEF LookNone, RxFirst, Busy, rxRing
<1>3. CASE LookEmpty
  BY <1>3 DEF LookEmpty, NoEmptyFrame, RxInv, RxTypeOK
<1>4. QED
  BY <1>1, <1>2, <1>3

LEMMA RxEventStep ==
  ASSUME EmacInv, LoopTypeOK, [Next]_vars, RxEventOutstanding, ~RxEventOutstanding'
  PROVE  LostByStore \/ ~NoEmptyFrame'
<1> USE DEF RxEventOutstanding, EmacInv, LoopCalls, LoopTypeOK, EventBits, Goto, loopVars, irqVars,
            rxSide
<1>1. rdy'[RxFirst'] /\ emacPc' # "drain" /\ "rx" \notin isr' \cup events'
  OBVIOUS
<1>2. ASSUME UNCHANGED <<rdy, rxDesc, inPc, cur>> PROVE UNCHANGED <<rdy, RxFirst>>
  BY <1>2 DEF RxFirst, Busy
<1>3. ~(UNCHANGED <<rdy, rxDesc, inPc, cur>> /\ emacPc # "drain"
        /\ ("rx" \in isr \cup events => "rx" \in isr' \cup events'))
  BY <1>1, <1>2
<1>4. ~Hardware
  BY <1>1, <1>3 DEF Hardware, Receive, Overrun, Transmit, Suspend, Raise, DmaReceive, DmaSend,
                    DmaSuspend, rxRing, inVars
<1>5. ~Interrupt
  BY <1>1, <1>2 DEF Interrupt, rxRing, inVars
<1>6. ~(Check \/ Wake \/ WakeTimeout \/ RxBegin \/ RxSkip \/ TxTest)
  BY <1>1, <1>2 DEF Check, Wake, WakeTimeout, RxBegin, RxSkip, TxTest, rxRing, inVars
<1>7. CASE RxDrain
  <2>1. Input /\ inPc' = "idle"
    BY <1>1, <1>7 DEF RxDrain
  <2>2. QED
    BY <1>1, <2>1, DrainEndsEmpty
<1>8. CASE TxBegin
  <2>1. "rx" \in isr \cup events /\ "rx" \notin isr
    BY <1>1, <1>2, <1>8 DEF TxBegin, rxRing, inVars
  <2>2. "rx" \notin loaded
    BY <1>1, <1>8 DEF TxBegin
  <2>3. QED
    BY <1>8, <2>1, <2>2 DEF TxBegin, LostByStore
<1>9. ~(TxClear \/ PhySame \/ PhyChange \/ PhyConfig)
  BY <1>1, <1>2 DEF TxClear, PhySame, PhyChange, PhyConfig, rxRing, inVars
<1>10. ~(IpOutput \/ IpEvent \/ PostEvent \/ \E b \in Buffers : StackMove(b))
  BY <1>1, <1>2 DEF IpOutput, IpEvent, PostEvent, StackMove, IpTake, OtherEvent, rxRing, inVars
<1>11. ~UNCHANGED vars
  BY <1>1, <1>2 DEF vars, rxRing, inVars
<1>12. QED
  BY <1>4, <1>5, <1>6, <1>7, <1>8, <1>9, <1>10, <1>11 DEF Next, EmacTask

(* Of all interleavings of the interrupt with the EMAC task, the DMA       *)
(* engines and the IP task only one loses an RX event: the interrupt       *)
(* between the load and the store of "ulISREvents &= ~EMAC_IF_TX_EVENT".   *)
THEOREM OnlyTheStoreLoses == Spec => RxLostOnlyByStore
<1>1. EventInv /\ [Next]_vars =>
        [RxEventOutstanding /\ ~RxEventOutstanding' => LostByStore \/ ~NoEmptyFrame']_vars
  BY RxEventStep DEF EventInv
<1>2. QED
  BY <1>1, EventInvariance, PTL DEF Spec, RxLostOnlyByStore
=============================================================================
