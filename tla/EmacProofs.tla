----------------------------- MODULE EmacProofs -----------------------------
(***************************************************************************)
(* The composed driver implements the specifications of its two sides, for *)
(* all ring sizes and buffers.  Hence what EmacTxProofs and EmacRxProofs   *)
(* prove of EmacTx and EmacRx, where the other side may do anything with   *)
(* the buffers it holds, is true of the driver with its interrupt handler, *)
(* event word and task loop.                                               *)
(*                                                                         *)
(* Each side relies on an invariant of the other: a buffer that the RX     *)
(* side takes from the pool is not the one being sent because TxInv says   *)
(* who holds that one.  The induction is therefore on both at once.        *)
(***************************************************************************)
EXTENDS Emac, EmacTxProofs, EmacRxProofs

LEMMA EmacInvInitial == Init => EmacInv
<1> SUFFICES ASSUME Init PROVE EmacInv
  OBVIOUS
<1>1. owner \in [Buffers -> {"pool", "rx"}]
  BY DEF Init, RxInit
<1>2. TxInv /\ RxInv
  BY <1>1, TxInvInitial, RxInvInitial DEF Init, TxInitial
<1>3. LoopCalls
  BY DEF Init, TxInit, RxInit, LoopCalls
<1>4. QED
  BY <1>2, <1>3 DEF EmacInv

(* What the TX side sees of a step of the receive side: at most one buffer *)
(* that it neither holds nor is sending changes hands.                     *)
LEMMA RxMovesForTx ==
  ASSUME EmacInv, Input \/ IpTake, UNCHANGED txSide
  PROVE  (\E b \in Buffers : OthersMove(b)) \/ UNCHANGED txVars
<1> USE DEF txSide, txVars, EmacInv, Holders
<1>1. ASSUME NEW b \in Buffers, NEW h \in {"pool", "stack", "rx", "queue"},
             HandOver(b, h), owner[b] \notin {"tx", "stack", h}
      PROVE  OthersMove(b)
  <2>1. b # outBuf
    BY <1>1, NoBufAssumption DEF TxInv, TxOut
  <2>2. QED
    BY <1>1, <2>1 DEF OthersMove
<1>2. CASE GetNew
  BY <1>1, <1>2 DEF GetNew, GetBuffer, Pool
<1>3. CASE SendEvent \/ SendTimeout
  <2>1. rxBuf[cur] \in Buffers /\ owner[rxBuf[cur]] = "rx"
    BY <1>3 DEF SendEvent, SendTimeout, RxInv, RxTypeOK, RxLedger, Replaced
  <2>2. HandOver(rxBuf[cur], "queue") \/ HandOver(rxBuf[cur], "pool")
    BY <1>3 DEF SendEvent, SendTimeout, Release
  <2>3. QED
    BY <1>1, <2>1, <2>2
<1>4. CASE IpTake
  <2>1. CASE Head(evQueue) = NoBuf
    BY <1>4, <2>1 DEF IpTake
  <2>2. CASE Head(evQueue) # NoBuf
    <3>1. Head(evQueue) \in Buffers /\ owner[Head(evQueue)] = "queue"
      BY <1>4, <2>2, TailOfQueue, LedgerIs DEF IpTake, RxInv, RxTypeOK, Entries
    <3>2. HandOver(Head(evQueue), "stack")
      BY <1>4, <2>2 DEF IpTake
    <3>3. QED
      BY <1>1, <3>1, <3>2
  <2>3. QED
    BY <2>1, <2>2
<1>5. CASE LookNone \/ LookEmpty \/ LookFrame \/ GetTimeout \/ GiveBuffer \/ GiveDescriptor
  BY <1>5 DEF LookNone, LookEmpty, LookFrame, GetTimeout, GiveBuffer, GiveDescriptor
<1>6. QED
  BY <1>2, <1>3, <1>4, <1>5 DEF Input

(* What the RX side sees of a step of the transmit side.                   *)
LEMMA TxMovesForRx ==
  ASSUME EmacInv, Output \/ Clear, InputBlocked, UNCHANGED rxSide
  PROVE  (\E b \in Buffers : RxOthersMove(b)) \/ UNCHANGED rxVars
<1> USE DEF rxSide, rxVars, EmacInv
<1>1. ASSUME NEW b \in Buffers, NEW h \in {"pool", "stack", "tx"},
             HandOver(b, h), owner[b] \notin {"rx", "queue", h}
      PROVE  RxOthersMove(b)
  BY <1>1 DEF RxOthersMove
<1>2. ASSUME NEW b \in Buffers, OutputNoLink(b) PROVE RxOthersMove(b)
  BY <1>1, <1>2 DEF OutputNoLink, Release
<1>3. CASE OutputTimeout \/ OutputFill
  <2>1. outBuf \in Buffers /\ owner[outBuf] = "stack"
    BY <1>3 DEF OutputTimeout, OutputFill, IpStep, TxInv, TxOut
  <2>2. HandOver(outBuf, "pool") \/ HandOver(outBuf, "tx")
    BY <1>3 DEF OutputTimeout, OutputFill, Release
  <2>3. QED
    BY <1>1, <2>1, <2>2
<1>4. CASE ClearOne
  <2>1. txBuf[toClear] \in Buffers /\ owner[txBuf[toClear]] = "tx"
    BY <1>4, ReclaimableIsInFlight DEF ClearOne, TxInv, TxTypeOK, TxLedger
  <2>2. HandOver(txBuf[toClear], "pool")
    BY <1>4, <2>1, NoBufAssumption DEF ClearOne, Release
  <2>3. QED
    BY <1>1, <2>1, <2>2
<1>5. ASSUME NEW b \in Buffers, OutputCall(b) PROVE UNCHANGED owner
  BY <1>5 DEF OutputCall
<1>6. CASE OutputTake \/ OutputSetOwn \/ OutputAdvance \/ OutputKick \/ ClearStart \/ ClearEnd
  BY <1>6 DEF OutputTake, OutputSetOwn, OutputAdvance, OutputKick, ClearStart, ClearEnd
<1>7. QED
  BY <1>2, <1>3, <1>4, <1>5, <1>6 DEF Output, Clear

-----------------------------------------------------------------------------
LEMMA StepForTx == EmacInv /\ [Next]_vars => [TxNext]_txVars
<1> SUFFICES ASSUME EmacInv, [Next]_vars PROVE [TxNext]_txVars
  OBVIOUS
<1> USE DEF irqVars
<1>1. ASSUME NEW k \in Kinds, Receive(k) PROVE UNCHANGED txVars
  BY <1>1 DEF Receive, DmaReceive, txSide, txVars
<1>2. CASE Overrun \/ Interrupt \/ PostEvent
  BY <1>2 DEF Overrun, Interrupt, PostEvent, OtherEvent, txSide, txVars
<1>3. CASE Transmit \/ Suspend
  BY <1>3 DEF Transmit, Suspend, TxNext, Dma
<1>4. CASE Check \/ Wake \/ WakeTimeout \/ RxSkip \/ TxTest \/ PhySame
  BY <1>4 DEF Check, Wake, WakeTimeout, RxSkip, TxTest, PhySame, txSide, txVars
<1>5. CASE RxBegin
  BY <1>5 DEF RxBegin, DrainStart, txSide, txVars
<1>6. CASE RxDrain
  BY <1>6, RxMovesForTx DEF RxDrain, TxNext
<1>7. CASE TxBegin \/ TxClear
  BY <1>7 DEF TxBegin, TxClear, TxNext, Clear
<1>8. CASE PhyChange \/ PhyConfig
  BY <1>8 DEF PhyChange, PhyConfig, TxNext
<1>9. CASE IpOutput
  BY <1>9 DEF IpOutput, TxNext
<1>10. CASE IpEvent
  BY <1>10, RxMovesForTx DEF IpEvent, TxNext
<1>11. ASSUME NEW b \in Buffers, StackMove(b) PROVE OthersMove(b)
  <2>1. b # outBuf
    BY <1>11, NoBufAssumption DEF StackMove, GetBuffer, Pool, EmacInv, TxInv, TxOut
  <2>2. QED
    BY <1>11, <2>1 DEF StackMove, GetBuffer, Pool, Release, OthersMove, Holders, txSide
<1>12. CASE UNCHANGED vars
  BY <1>12 DEF vars, txSide, txVars
<1>13. QED
  BY <1>1, <1>2, <1>3, <1>4, <1>5, <1>6, <1>7, <1>8, <1>9, <1>10, <1>11, <1>12
     DEF Next, Hardware, EmacTask, TxNext

LEMMA StepForRx == EmacInv /\ [Next]_vars => [RxNext]_rxVars
<1> SUFFICES ASSUME EmacInv, [Next]_vars PROVE [RxNext]_rxVars
  OBVIOUS
<1>1. ASSUME NEW k \in Kinds, Receive(k) PROVE RxNext
  BY <1>1 DEF Receive, RxNext
<1>2. CASE Overrun \/ Interrupt
  BY <1>2 DEF Overrun, Interrupt, rxSide, rxVars
<1>3. CASE Transmit \/ Suspend
  BY <1>3 DEF Transmit, Suspend, DmaSend, DmaSuspend, rxSide, rxVars
<1>4. CASE Check \/ Wake \/ WakeTimeout \/ RxSkip \/ TxTest \/ PhySame
  BY <1>4 DEF Check, Wake, WakeTimeout, RxSkip, TxTest, PhySame, rxSide, rxVars
<1>5. CASE RxBegin \/ RxDrain
  BY <1>5 DEF RxBegin, RxDrain, RxNext
<1>6. CASE TxBegin \/ TxClear
  <2>1. InputBlocked
    BY <1>6 DEF TxBegin, TxClear, Goto, EmacInv, LoopCalls, InputBlocked
  <2>2. Clear /\ UNCHANGED rxSide
    BY <1>6 DEF TxBegin, TxClear, Clear
  <2>3. QED
    BY <2>1, <2>2, TxMovesForRx DEF RxNext
<1>7. CASE PhyChange \/ PhyConfig
  BY <1>7 DEF PhyChange, PhyConfig, LinkChange, UpdateConfig, rxSide, rxVars
<1>8. EmacBlocked => InputBlocked
  BY DEF EmacBlocked, EmacInv, LoopCalls, InputBlocked
<1>9. CASE IpOutput
  BY <1>8, <1>9, TxMovesForRx DEF IpOutput, RxNext
<1>10. CASE IpEvent \/ PostEvent
  BY <1>10 DEF IpEvent, PostEvent, RxNext
<1>11. ASSUME NEW b \in Buffers, StackMove(b) PROVE RxOthersMove(b)
  BY <1>8, <1>11 DEF StackMove, GetBuffer, Pool, Release, RxOthersMove, rxSide
<1>12. CASE UNCHANGED vars
  BY <1>12 DEF vars, rxSide, rxVars
<1>13. QED
  BY <1>1, <1>2, <1>3, <1>4, <1>5, <1>6, <1>7, <1>9, <1>10, <1>11, <1>12
     DEF Next, Hardware, EmacTask, RxNext

LEMMA StepForLoop == EmacInv /\ [Next]_vars => LoopCalls'
<1> SUFFICES ASSUME EmacInv, [Next]_vars PROVE LoopCalls'
  OBVIOUS
<1> USE DEF EmacInv, LoopCalls, txSide, rxSide, loopVars, clrVars, inVars, Goto
<1>1. CASE Hardware
  BY <1>1 DEF Hardware, Receive, Overrun, Transmit, Suspend, DmaReceive, DmaSend, DmaSuspend
<1>2. CASE Interrupt
  BY <1>2 DEF Interrupt
<1>3. CASE Check \/ Wake \/ WakeTimeout \/ RxBegin \/ RxSkip \/ TxTest \/ PhySame
  BY <1>3 DEF Check, Wake, WakeTimeout, RxBegin, RxSkip, TxTest, PhySame, DrainStart
<1>4. CASE RxDrain
  BY <1>4 DEF RxDrain
<1>5. CASE TxBegin \/ TxClear
  BY <1>5 DEF TxBegin, TxClear, ClearStart, ClearOne, ClearEnd
<1>6. CASE PhyChange \/ PhyConfig
  BY <1>6 DEF PhyChange, PhyConfig, LinkChange, UpdateConfig
<1>7. CASE IpOutput
  <2>1. UNCHANGED clrPc
    BY <1>7 DEF IpOutput, Output, OutputCall, OutputNoLink, OutputTake, OutputTimeout,
                OutputFill, OutputSetOwn, OutputAdvance, OutputKick
  <2>2. QED
    BY <1>7, <2>1 DEF IpOutput
<1>8. CASE IpEvent \/ PostEvent
  BY <1>8 DEF IpEvent, PostEvent, IpTake, OtherEvent
<1>9. ASSUME NEW b \in Buffers, StackMove(b) PROVE LoopCalls'
  BY <1>9 DEF StackMove
<1>10. CASE UNCHANGED vars
  BY <1>10 DEF vars
<1>11. QED
  BY <1>1, <1>2, <1>3, <1>4, <1>5, <1>6, <1>7, <1>8, <1>9, <1>10 DEF Next, EmacTask

(* Both sides of the driver stay consistent with their rings and with the  *)
(* one ledger of buffers, under every interleaving of the interrupt, the   *)
(* EMAC task, the IP task and the two DMA engines.                         *)
THEOREM EmacInvariance == Spec => []EmacInv
<1>1. EmacInv /\ [Next]_vars => EmacInv'
  BY StepForTx, StepForRx, StepForLoop, TxInvStep, RxInvStep DEF EmacInv
<1>2. QED
  BY <1>1, EmacInvInitial, PTL DEF Spec

(* Every behaviour of the driver is one that EmacTx allows.                *)
THEOREM EmacImplementsTx == Spec => ImplementsTx
<1>1. Init => TxInitial
  BY DEF Init, RxInit, TxInitial
<1>2. EmacInv /\ [Next]_vars => [TxNext]_txVars
  BY StepForTx
<1>3. QED
  BY <1>1, <1>2, EmacInvariance, PTL DEF Spec, ImplementsTx, TxSpec, TxInitial

(* Every behaviour of the driver is one that EmacRx allows.                *)
THEOREM EmacImplementsRx == Spec => ImplementsRx
<1>1. Init => RxInit
  BY DEF Init
<1>2. EmacInv /\ [Next]_vars => [RxNext]_rxVars
  BY StepForRx
<1>3. QED
  BY <1>1, <1>2, EmacInvariance, PTL DEF Spec, ImplementsRx, RxSpec

(* Hence the driver as a whole is a bounded queue to whoever sends ...     *)
THEOREM DriverSendsInOrder == Spec => TxImplementsFifo
BY EmacImplementsTx, TxImplements, PTL DEF ImplementsTx

(* ... and, until a frame of no bytes arrives, a queue that loses frames   *)
(* but never repeats or reorders them to the stack.                        *)
THEOREM DriverDeliversInOrder == Spec => RxImplementsFifo
BY EmacImplementsRx, RxImplements, PTL DEF ImplementsRx
=============================================================================
