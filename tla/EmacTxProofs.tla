---------------------------- MODULE EmacTxProofs ----------------------------
(***************************************************************************)
(* Machine-checked theorems about the transmit ring, for every ring size   *)
(* NTx >= 2 and every set of buffers.                                      *)
(*                                                                         *)
(* TxInv (in EmacTx) is the inductive invariant.  It strengthens the other *)
(* properties by saying exactly which descriptors hold a buffer and which  *)
(* may be the DMA engine's (TxSlots), and who holds the buffer being sent  *)
(* (TxOut): without them a reclaimed descriptor could be one that was      *)
(* never filled.                                                           *)
(***************************************************************************)
EXTENDS EmacTxRefinement, SequenceTheorems, TLAPS

-----------------------------------------------------------------------------
(* Arithmetic of the ring.                                                 *)

LEMMA DistType ==
  ASSUME NEW a \in TxIndex, NEW b \in TxIndex
  PROVE  /\ TxDist(a, b) \in 0 .. NTx - 1
         /\ TxSucc(a) \in TxIndex
         /\ TxDist(a, b) = 0 <=> a = b
BY NTxAssumption DEF TxIndex, TxDist, TxSucc

(* Stepping the far end of a range forward makes it one longer, until it   *)
(* closes the ring.                                                        *)
LEMMA DistSuccRight ==
  ASSUME NEW a \in TxIndex, NEW b \in TxIndex
  PROVE  TxDist(a, TxSucc(b)) = IF TxDist(a, b) = NTx - 1 THEN 0 ELSE TxDist(a, b) + 1
BY NTxAssumption DEF TxIndex, TxDist, TxSucc

(* Stepping the near end forward makes it one shorter.                     *)
LEMMA DistSuccLeft ==
  ASSUME NEW a \in TxIndex, NEW b \in TxIndex
  PROVE  TxDist(TxSucc(a), b) = IF a = b THEN NTx - 1 ELSE TxDist(a, b) - 1
BY NTxAssumption DEF TxIndex, TxDist, TxSucc

LEMMA DistInjective ==
  ASSUME NEW a \in TxIndex, NEW b \in TxIndex, NEW c \in TxIndex,
         TxDist(a, b) = TxDist(a, c)
  PROVE  b = c
BY NTxAssumption DEF TxIndex, TxDist

-----------------------------------------------------------------------------
(* The initial states, and one lemma per actor for the steps.              *)

LEMMA TxInvInitial == TxInitial => TxInv
<1> SUFFICES ASSUME TxInitial PROVE TxInv
  OBVIOUS
<1> USE NTxAssumption, NoBufAssumption DEF TxInitial, TxInit, TxIndex
<1>1. TxTypeOK
  <2>1. 0 \in 0 .. NTx - 1 /\ 0 \in 0 .. NTx /\ NTx \in 0 .. NTx
    OBVIOUS
  <2>2. QED
    BY <2>1, Zenon DEF TxTypeOK, OwnerTypeOK, Holders, OutPcs
<1>2. TxSnapshot /\ TxOut
  BY DEF TxSnapshot, TxOut
<1>3. Held = 0 /\ OwnEnd = 0
  BY DEF Held, OwnEnd
<1>4. Submitted = 0
  BY <1>3 DEF Submitted
<1>5. TxTokens /\ TxSlots
  BY <1>3, <1>4 DEF TxTokens, TxSlots, TxDist, InFlight, Filling
<1>6. TxLedger
  BY DEF TxLedger
<1>7. TxDmaInStep
  BY <1>3 DEF TxDmaInStep, TxDist
<1>8. QED
  BY <1>1, <1>2, <1>5, <1>6, <1>7 DEF TxInv

(* xNetworkInterfaceOutput.  OutputTake turns a free token into the held   *)
(* one, OutputAdvance turns the held one into a submitted descriptor; the  *)
(* steps between them touch only the descriptor at xETH.TxDesc, which      *)
(* TxTokens places outside the submitted ones.                             *)
LEMMA OutputPreserves == TxInv /\ Output => TxInv'
<1> SUFFICES ASSUME TxInv, Output PROVE TxInv'
  OBVIOUS
<1> USE NTxAssumption, NoBufAssumption, DistType
    DEF TxInv, TxTypeOK, TxTokens, TxSlots, TxOut, TxLedger, TxSnapshot, TxDmaInStep,
        OwnerTypeOK, Holders, OutPcs, Held, Submitted, InFlight, Filling, OwnEnd,
        IpStep, ringVars, outVars, clrVars, dmaVars, linkVars
<1>1. ASSUME NEW b \in Buffers, OutputCall(b) PROVE TxInv'
  BY <1>1 DEF OutputCall
<1>2. ASSUME NEW b \in Buffers, OutputNoLink(b) PROVE TxInv'
  BY <1>2 DEF OutputNoLink, Release, HandOver
<1>3. CASE OutputTake
  BY <1>3 DEF OutputTake
<1>4. CASE OutputTimeout
  BY <1>4 DEF OutputTimeout, Release, HandOver
<1>5. CASE OutputFill
  BY <1>5 DEF OutputFill, HandOver
<1>6. CASE OutputSetOwn
  <2>1. TxTypeOK' /\ TxSnapshot'
    BY <1>6 DEF OutputSetOwn
  <2>2. TxTokens' /\ TxSlots' /\ TxOut' /\ TxLedger'
    BY <1>6 DEF OutputSetOwn
  <2>3. TxDmaInStep'
    BY <1>6, DistSuccRight, DistInjective DEF OutputSetOwn
  <2>4. QED
    BY <2>1, <2>2, <2>3
<1>7. CASE OutputAdvance
  <2>1. TxTypeOK' /\ TxSnapshot'
    BY <1>7 DEF OutputAdvance
  <2>2. TxTokens' /\ TxSlots' /\ TxOut' /\ TxLedger'
    BY <1>7, DistSuccRight, DistInjective DEF OutputAdvance
  <2>3. TxDmaInStep'
    BY <1>7, DistSuccRight, DistInjective DEF OutputAdvance
  <2>4. QED
    BY <2>1, <2>2, <2>3
<1>8. CASE OutputKick
  BY <1>8 DEF OutputKick
<1>9. QED
  BY <1>1, <1>2, <1>3, <1>4, <1>5, <1>6, <1>7, <1>8 DEF Output

(* The heart of vClearTXBuffers: when its loop condition holds, the        *)
(* descriptor it reclaims is a submitted one.  Were none submitted, the    *)
(* only token taken would be the held one, DMATxDescToClear would be       *)
(* xETH.TxDesc, and uxCount would be 1, which is not ETH_TXBUFNB.          *)
LEMMA ReclaimableIsInFlight ==
  ASSUME TxInv, clrPc = "loop", Reclaimable
  PROVE  InFlight(toClear) /\ txBuf[toClear] \in Buffers /\ sem < NTx
<1>1. clrCount = NTx - sem /\ clrLast = txDesc /\ sem < NTx
  BY NTxAssumption DEF TxInv, TxSnapshot, Reclaimable, TxTypeOK
<1>2. Submitted > 0
  <2>1. SUFFICES ASSUME Submitted = 0 PROVE FALSE
    BY NTxAssumption DEF TxInv, TxTokens, Held
  <2>2. Held = 1 /\ clrCount = 1
    BY <1>1, <2>1, NTxAssumption DEF Submitted, Held, TxInv, TxTypeOK
  <2>3. toClear = txDesc
    BY <2>1, NTxAssumption, DistType DEF TxInv, TxTokens, TxTypeOK
  <2>4. QED
    BY <1>1, <2>2, <2>3, NTxAssumption DEF Reclaimable
<1>3. InFlight(toClear)
  BY <1>2, DistType DEF InFlight, TxInv, TxTypeOK
<1>4. QED
  BY <1>1, <1>3 DEF TxInv, TxSlots, TxTypeOK

LEMMA ClearPreserves == TxInv /\ Clear => TxInv'
<1> SUFFICES ASSUME TxInv, Clear PROVE TxInv'
  OBVIOUS
<1> USE NTxAssumption, NoBufAssumption, DistType
    DEF TxInv, TxTypeOK, TxTokens, TxSlots, TxOut, TxLedger, TxSnapshot, TxDmaInStep,
        OwnerTypeOK, Holders, OutPcs, Held, Submitted, InFlight, Filling, OwnEnd,
        ringVars, outVars, clrVars, dmaVars, linkVars
<1>1. CASE ClearStart
  BY <1>1 DEF ClearStart
<1>2. CASE ClearOne
  <2>1. InFlight(toClear) /\ txBuf[toClear] \in Buffers /\ sem < NTx
    BY <1>2, ReclaimableIsInFlight DEF ClearOne
  <2>2. /\ owner' = [owner EXCEPT ![txBuf[toClear]] = "pool"]
        /\ txBuf' = [txBuf EXCEPT ![toClear] = NoBuf]
        /\ sem' = sem + 1 /\ toClear' = TxSucc(toClear) /\ clrCount' = clrCount - 1
        /\ UNCHANGED <<own, txDesc, outPc, outBuf, clrPc, clrLast, dmaPos, dmaPoll, macEn, linkUp>>
        /\ ~own[toClear] /\ clrPc = "loop" /\ clrCount > 0
    BY <1>2, <2>1 DEF ClearOne, Release, HandOver, Reclaimable
  <2>3. TxTypeOK'
    BY <2>1, <2>2
  <2>4. TxTokens'
    BY <2>1, <2>2, DistSuccLeft
  <2>5. TxSlots'
    BY <2>1, <2>2, <2>4, DistSuccLeft, DistInjective
  <2>6. TxOut' /\ TxSnapshot'
    BY <2>1, <2>2
  <2>7. TxLedger'
    BY <2>1, <2>2
  <2>8. TxDmaInStep'
    BY <2>2
  <2>9. QED
    BY <2>3, <2>4, <2>5, <2>6, <2>7, <2>8
<1>3. CASE ClearEnd
  BY <1>3 DEF ClearEnd
<1>4. QED
  BY <1>1, <1>2, <1>3 DEF Clear

(* The DMA engine only clears OWN bits, in the order it finds them.        *)
LEMMA DmaPreserves == TxInv /\ Dma => TxInv'
<1> SUFFICES ASSUME TxInv, Dma PROVE TxInv'
  OBVIOUS
<1> USE DEF ringVars, outVars, clrVars, dmaVars, linkVars
<1>1. CASE DmaSend
  <2> USE NTxAssumption, DistType
      DEF TxInv, TxTypeOK, OwnerTypeOK, Held, Submitted, InFlight, Filling, OwnEnd
  <2>1. /\ own' = [own EXCEPT ![dmaPos] = FALSE] /\ own[dmaPos]
        /\ dmaPos' = TxSucc(dmaPos)
        /\ UNCHANGED <<owner, txBuf, txDesc, toClear, sem, outPc, outBuf, clrPc,
                       clrLast, clrCount, dmaPoll, macEn, linkUp>>
    BY <1>1 DEF DmaSend
  <2>2. TxTypeOK'
    BY <2>1
  <2>3. TxTokens' /\ TxOut' /\ TxLedger' /\ TxSnapshot'
    BY <2>1 DEF TxTokens, TxOut, TxLedger, TxSnapshot
  <2>4. TxSlots'
    BY <2>1 DEF TxSlots
  <2>5. TxDmaInStep'
    BY <2>1, DistSuccLeft, DistInjective DEF TxDmaInStep
  <2>6. QED
    BY <2>2, <2>3, <2>4, <2>5
<1>2. CASE DmaSuspend
  <2>1. TxTypeOK'
    BY <1>2, Zenon DEF DmaSuspend, TxInv, TxTypeOK, OwnerTypeOK
  <2>2. QED
    BY <1>2, <2>1 DEF DmaSuspend, TxInv, TxTokens, TxSlots, TxOut, TxLedger, TxSnapshot,
         TxDmaInStep, Held, Submitted, InFlight, Filling, OwnEnd
<1>3. QED
  BY <1>1, <1>2 DEF Dma

(* The rest of the system: link supervision, and the other holders of      *)
(* buffers, who cannot touch the ring's.                                   *)
LEMMA OthersPreserve ==
  TxInv /\ (LinkChange \/ UpdateConfig \/ \E b \in Buffers : OthersMove(b)) => TxInv'
<1> SUFFICES ASSUME TxInv,
                    LinkChange \/ UpdateConfig \/ \E b \in Buffers : OthersMove(b)
             PROVE  TxInv'
  OBVIOUS
<1> USE DEF TxInv, TxTypeOK, TxTokens, TxSlots, TxOut, TxLedger, TxSnapshot, TxDmaInStep,
            OwnerTypeOK, Held, Submitted, InFlight, Filling, OwnEnd,
            ringVars, outVars, clrVars, dmaVars, linkVars
<1>1. CASE LinkChange
  BY <1>1 DEF LinkChange
<1>2. CASE UpdateConfig
  BY <1>2 DEF UpdateConfig
<1>3. ASSUME NEW b \in Buffers, OthersMove(b) PROVE TxInv'
  BY <1>3, NoBufAssumption DEF OthersMove, HandOver, Holders
<1>4. QED
  BY <1>1, <1>2, <1>3

-----------------------------------------------------------------------------
LEMMA TxInvStep == TxInv /\ [TxNext]_txVars => TxInv'
<1>1. TxInv /\ TxNext => TxInv'
  BY OutputPreserves, ClearPreserves, DmaPreserves, OthersPreserve DEF TxNext
<1>2. TxInv /\ UNCHANGED txVars => TxInv'
  BY DEF txVars, ringVars, outVars, clrVars, dmaVars, linkVars, TxInv, TxTypeOK,
         OwnerTypeOK, TxTokens, TxSlots, TxOut, TxLedger, TxSnapshot, TxDmaInStep,
         Held, Submitted, InFlight, Filling, OwnEnd
<1>3. QED
  BY <1>1, <1>2

(* The inductive invariant holds in every reachable state: the driver's    *)
(* ring pointers, semaphore, descriptors, snapshots and the buffer ledger  *)
(* never disagree, whenever vClearTXBuffers interrupts                     *)
(* xNetworkInterfaceOutput and however fast the DMA engine is.             *)
THEOREM TxInvariance == TxSpec => []TxInv
BY TxInvInitial, TxInvStep, PTL DEF TxSpec, TxInitial

(* Every variable of the transmit side keeps its type.                     *)
THEOREM TxTypeCorrect == TxSpec => []TxTypeOK
<1>1. TxInv => TxTypeOK
  BY DEF TxInv
<1>2. QED
  BY <1>1, TxInvariance, PTL

(* The configASSERT of xNetworkInterfaceOutput cannot fail: a token of the *)
(* semaphore always stands for a descriptor that is free and empty.        *)
THEOREM TxNeverOverwrites == TxSpec => []TxNoOverwrite
<1>1. TxInv => TxNoOverwrite
  <2> SUFFICES ASSUME TxInv, outPc = "took" PROVE ~own[txDesc] /\ txBuf[txDesc] = NoBuf
    BY DEF TxNoOverwrite
  <2>1. ~InFlight(txDesc)
    BY NTxAssumption, DistType
       DEF TxInv, TxTokens, TxTypeOK, InFlight, Submitted, Held
  <2>2. QED
    BY <2>1 DEF TxInv, TxSlots, TxTypeOK, Filling
<1>2. QED
  BY <1>1, TxInvariance, PTL

(* No buffer is released or handed on while the DMA engine may read it.    *)
THEOREM TxDmaIsSafe == TxSpec => []TxDmaSafe
<1>1. TxInv => TxDmaSafe
  BY DEF TxInv, TxDmaSafe, TxSlots, TxTypeOK, TxLedger, Filling
<1>2. QED
  BY <1>1, TxInvariance, PTL

(* Every buffer handed to the ring is under exactly one descriptor until   *)
(* it is released: none is leaked, none is released twice.                 *)
THEOREM TxKeepsLedger == TxSpec => []TxLedger
<1>1. TxInv => TxLedger
  BY DEF TxInv
<1>2. QED
  BY <1>1, TxInvariance, PTL

(* The DMA engine never halts in front of a gap with frames behind it.     *)
THEOREM TxDmaStaysInStep == TxSpec => []TxDmaInStep
<1>1. TxInv => TxDmaInStep
  BY DEF TxInv
<1>2. QED
  BY <1>1, TxInvariance, PTL

(* The count of tokens always agrees with the two pointers of the ring.    *)
THEOREM TxTokensAgree == TxSpec => []TxTokens
<1>1. TxInv => TxTokens
  BY DEF TxInv
<1>2. QED
  BY <1>1, TxInvariance, PTL

(* What vClearTXBuffers decided from its two snapshots stays true while it *)
(* runs, whatever the DMA engine does and wherever the IP task was         *)
(* interrupted.                                                            *)
THEOREM TxSnapshotHolds == TxSpec => []TxSnapshot
<1>1. TxInv => TxSnapshot
  BY DEF TxInv
<1>2. QED
  BY <1>1, TxInvariance, PTL

-----------------------------------------------------------------------------
(* The ring implements TxFifo.  The descriptors from DMATxDescToClear on   *)
(* are the queue, and the DMA engine's position in them says how many of   *)
(* its frames have been sent.                                              *)

LEMMA ForwardDist ==
  ASSUME NEW i \in TxIndex
  PROVE  /\ \A k \in 0 .. NTx - 1 : TxForward(i, k) \in TxIndex /\ TxDist(i, TxForward(i, k)) = k
         /\ \A j \in TxIndex : TxForward(i, TxDist(i, j)) = j
         /\ \A k \in 0 .. NTx - 2 : TxForward(TxSucc(i), k) = TxForward(i, k + 1)
BY NTxAssumption DEF TxIndex, TxForward, TxDist, TxSucc

(* Where the two ends of the queue are, and who may own what is in it.     *)
LEMMA QueueEnds ==
  ASSUME TxInv
  PROVE  /\ Accepted \in 0 .. NTx
         /\ TxDist(toClear, OwnEnd) = IF Accepted = NTx THEN 0 ELSE Accepted
         /\ OwnEnd \in TxIndex
         /\ \A i \in TxIndex : own[i] => TxDist(toClear, i) < Accepted
<1> USE NTxAssumption
<1>1. Accepted \in 0 .. NTx
  BY DEF TxInv, TxTokens, Accepted, Held
<1>2. TxDist(toClear, OwnEnd) = IF Accepted = NTx THEN 0 ELSE Accepted
  BY DistSuccRight DEF TxInv, TxTokens, TxTypeOK, Accepted, Held, OwnEnd
<1>3. OwnEnd \in TxIndex
  BY DistType DEF TxInv, TxTypeOK, OwnEnd
<1>4. ASSUME NEW i \in TxIndex, own[i] PROVE TxDist(toClear, i) < Accepted
  <2>1. /\ InFlight(i) \/ (i = txDesc /\ outPc = "owned")
        /\ Submitted \in 0 .. NTx - Held
        /\ TxDist(toClear, txDesc) = IF Submitted = NTx THEN 0 ELSE Submitted
        /\ TxDist(toClear, i) \in 0 .. NTx - 1
    BY <1>4, DistType DEF TxInv, TxSlots, TxTokens, TxTypeOK
  <2>2. QED
    BY <2>1 DEF InFlight, Accepted, Held
<1>5. QED
  BY <1>1, <1>2, <1>3, <1>4

(* The queue as a function of what it is made of: the n descriptors from i *)
(* on.                                                                     *)
QueueOf(f, i, n) == [k \in 1 .. n |-> f[TxForward(i, k - 1)]]

Slots == [TxIndex -> Buffers \cup {NoBuf}]

LEMMA QueueIs == fifoQueue = QueueOf(txBuf, toClear, Accepted)
BY DEF fifoQueue, QueueOf

LEMMA QueueType ==
  ASSUME NEW f \in Slots, NEW i \in TxIndex, NEW n \in 0 .. NTx
  PROVE  /\ QueueOf(f, i, n) \in Seq(Buffers \cup {NoBuf}) /\ Len(QueueOf(f, i, n)) = n
         /\ \A k \in 1 .. n : QueueOf(f, i, n)[k] = f[TxForward(i, k - 1)]
<1>1. n \in Nat /\ \A k \in 1 .. n : k - 1 \in 0 .. NTx - 1
  BY NTxAssumption
<1>2. QueueOf(f, i, n) \in [1 .. n -> Buffers \cup {NoBuf}]
  BY <1>1, ForwardDist DEF QueueOf, Slots
<1>3. QED
  BY <1>1, <1>2 DEF QueueOf

LEMMA QueueSame ==
  ASSUME NEW f \in Slots, NEW g \in Slots, NEW i \in TxIndex, NEW n \in 0 .. NTx,
         \A j \in TxIndex : TxDist(i, j) < n => g[j] = f[j]
  PROVE  QueueOf(g, i, n) = QueueOf(f, i, n)
<1>1. ASSUME NEW k \in 1 .. n PROVE g[TxForward(i, k - 1)] = f[TxForward(i, k - 1)]
  <2>1. k - 1 \in 0 .. NTx - 1 /\ k - 1 < n
    BY NTxAssumption
  <2>2. QED
    BY <2>1, ForwardDist
<1>2. QED
  BY <1>1 DEF QueueOf

LEMMA QueueLonger ==
  ASSUME NEW f \in Slots, NEW i \in TxIndex, NEW n \in 0 .. NTx - 1
  PROVE  QueueOf(f, i, n + 1) = Append(QueueOf(f, i, n), f[TxForward(i, n)])
<1> DEFINE S == Buffers \cup {NoBuf}
           q == QueueOf(f, i, n)
           r == QueueOf(f, i, n + 1)
           e == f[TxForward(i, n)]
<1>1. n \in 0 .. NTx /\ n + 1 \in 0 .. NTx /\ n \in Nat /\ (n + 1) - 1 = n
  BY NTxAssumption
<1>2. /\ q \in Seq(S) /\ Len(q) = n /\ \A k \in 1 .. n : q[k] = f[TxForward(i, k - 1)]
      /\ r \in Seq(S) /\ Len(r) = n + 1 /\ \A k \in 1 .. n + 1 : r[k] = f[TxForward(i, k - 1)]
  BY <1>1, QueueType
<1>3. e \in S
  BY ForwardDist DEF Slots
<1> HIDE DEF q, r, e, S
<1>4. /\ Append(q, e) \in Seq(S) /\ Len(Append(q, e)) = n + 1
      /\ \A k \in 1 .. n : Append(q, e)[k] = q[k]
      /\ Append(q, e)[n + 1] = e
  BY <1>2, <1>3, AppendProperties
<1>5. ASSUME NEW k \in 1 .. n + 1 PROVE r[k] = Append(q, e)[k]
  <2>1. CASE k \in 1 .. n
    BY <1>2, <1>4, <2>1
  <2>2. CASE k = n + 1
    BY <1>1, <1>2, <1>4, <2>2 DEF e
  <2>3. k \in 1 .. n \/ k = n + 1
    BY <1>1
  <2>4. QED
    BY <2>1, <2>2, <2>3
<1>6. r = Append(q, e)
  BY <1>2, <1>4, <1>5, SeqEqual
<1>7. QED
  BY <1>6 DEF q, r, e

LEMMA QueueShorter ==
  ASSUME NEW f \in Slots, NEW g \in Slots, NEW i \in TxIndex, NEW n \in 1 .. NTx,
         \A j \in TxIndex : j # i => g[j] = f[j]
  PROVE  QueueOf(g, TxSucc(i), n - 1) = Tail(QueueOf(f, i, n))
<1> DEFINE S == Buffers \cup {NoBuf}
           q == QueueOf(f, i, n)
           r == QueueOf(g, TxSucc(i), n - 1)
<1>1. n \in 0 .. NTx /\ n - 1 \in 0 .. NTx /\ TxSucc(i) \in TxIndex
  BY NTxAssumption, DistType
<1>2. /\ q \in Seq(S) /\ Len(q) = n /\ \A k \in 1 .. n : q[k] = f[TxForward(i, k - 1)]
      /\ r \in Seq(S) /\ Len(r) = n - 1 /\ \A k \in 1 .. n - 1 : r[k] = g[TxForward(TxSucc(i), k - 1)]
  BY <1>1, QueueType
<1> HIDE DEF q, r, S
<1>3. q # <<>>
  BY <1>2
<1>4. Tail(q) \in Seq(S) /\ Len(Tail(q)) = n - 1 /\ \A k \in 1 .. n - 1 : Tail(q)[k] = q[k + 1]
  BY <1>2, <1>3, HeadTailProperties
<1>5. ASSUME NEW k \in 1 .. n - 1 PROVE r[k] = Tail(q)[k]
  <2>1. k - 1 \in 0 .. NTx - 2 /\ k \in 1 .. NTx - 1 /\ k + 1 \in 1 .. n /\ (k + 1) - 1 = k /\ (k - 1) + 1 = k
    BY NTxAssumption
  <2>2. TxForward(TxSucc(i), k - 1) = TxForward(i, k)
    BY <2>1, ForwardDist
  <2>3. TxForward(i, k) \in TxIndex /\ TxForward(i, k) # i
    <3>1. TxForward(i, k) \in TxIndex /\ TxDist(i, TxForward(i, k)) = k
      BY <2>1, ForwardDist
    <3>2. TxDist(i, i) = 0
      BY DistType
    <3>3. QED
      BY <2>1, <3>1, <3>2
  <2>4. QED
    BY <1>2, <1>4, <2>1, <2>2, <2>3
<1>6. r = Tail(q)
  BY <1>2, <1>4, <1>5, SeqEqual
<1>7. QED
  BY <1>6 DEF q, r

(* The abstract queue stays while what it is made of stays.                *)
LEMMA QueueStays ==
  ASSUME UNCHANGED <<own, txBuf, toClear, dmaPos, Accepted>>
  PROVE  UNCHANGED <<fifoQueue, fifoSent>>
BY DEF fifoQueue, fifoSent, TxForward, TxDist

LEMMA QueueInitial == TxInitial => TxQueue!Init
<1> SUFFICES ASSUME TxInitial PROVE TxQueue!Init
  OBVIOUS
<1>1. Accepted = 0
  <2>1. Held = 0 /\ sem = NTx /\ outPc = "idle"
    BY DEF TxInitial, TxInit, Held
  <2>2. QED
    BY <2>1, NTxAssumption DEF Accepted, Submitted
<1>2. fifoQueue = <<>>
  <2>1. txBuf \in Slots /\ toClear \in TxIndex /\ 0 \in 0 .. NTx
    BY TxInvInitial, NTxAssumption DEF TxInv, TxTypeOK, Slots
  <2>2. fifoQueue \in Seq(Buffers \cup {NoBuf}) /\ Len(fifoQueue) = 0
    BY <1>1, <2>1, QueueIs, QueueType
  <2>3. QED
    BY <2>2, EmptySeq
<1>3. fifoSent = 0
  BY <1>1, NTxAssumption DEF fifoSent, TxInitial, TxInit, TxIndex
<1>4. QED
  BY <1>2, <1>3 DEF TxQueue!Init

(* OWN is set: the buffer, which is nowhere else in the ring, goes to the  *)
(* end of the queue, unsent.                                               *)
LEMMA SetOwnAccepts ==
  ASSUME TxInv, OutputSetOwn
  PROVE  \E b \in Buffers : TxQueue!Accept(b)
<1> DEFINE b == txBuf[txDesc]
<1>1. /\ own' = [own EXCEPT ![txDesc] = TRUE] /\ outPc = "filled" /\ outPc' = "owned"
      /\ UNCHANGED <<txBuf, toClear, dmaPos, sem, txDesc>>
  BY DEF OutputSetOwn, IpStep, dmaVars
<1>2. /\ toClear \in TxIndex /\ txDesc \in TxIndex /\ dmaPos \in TxIndex
      /\ own \in [TxIndex -> BOOLEAN] /\ txBuf \in Slots
  BY DEF TxInv, TxTypeOK, Slots
<1>3. Held = 1 /\ Held' = 1
  BY <1>1 DEF Held
<1>4. Accepted = Submitted /\ Accepted' = Accepted + 1 /\ Accepted \in 0 .. NTx - 1
  BY <1>1, <1>3, NTxAssumption DEF Accepted, Submitted, TxInv, TxTokens
<1>5. TxDist(toClear, txDesc) = Accepted /\ TxForward(toClear, Accepted) = txDesc
  <2>1. TxDist(toClear, txDesc) = Accepted
    BY <1>4, NTxAssumption DEF TxInv, TxTokens
  <2>2. QED
    BY <1>2, <2>1, ForwardDist
<1>6. b \in Buffers /\ ~own[txDesc]
  <2>1. txBuf[txDesc] # NoBuf
    BY <1>1, <1>2 DEF TxInv, TxSlots, Filling
  <2>2. ~InFlight(txDesc)
    BY <1>4, <1>5 DEF InFlight
  <2>3. QED
    BY <1>1, <1>2, <2>1, <2>2 DEF TxInv, TxSlots, Slots
<1>7. fifoQueue' = Append(fifoQueue, b)
  <2>1. fifoQueue' = QueueOf(txBuf, toClear, Accepted + 1)
    BY <1>1, <1>4 DEF fifoQueue, QueueOf, TxForward
  <2>2. QED
    BY <1>2, <1>4, <1>5, <2>1, QueueIs, QueueLonger
<1>8. Accepted \in 0 .. NTx
  BY <1>4, NTxAssumption
<1>9. /\ fifoQueue \in Seq(Buffers \cup {NoBuf}) /\ Len(fifoQueue) = Accepted
      /\ \A k \in 1 .. Accepted : fifoQueue[k] = txBuf[TxForward(toClear, k - 1)]
  BY <1>2, <1>8, QueueIs, QueueType
<1>10. b \notin TxQueue!ToSet(fifoQueue)
  <2>1. SUFFICES ASSUME NEW k \in 1 .. Accepted, fifoQueue[k] = b PROVE FALSE
    BY <1>9 DEF TxQueue!ToSet
  <2>2. k - 1 \in 0 .. NTx - 1 /\ k - 1 # Accepted
    BY <1>4, NTxAssumption
  <2>3. TxForward(toClear, k - 1) \in TxIndex /\ TxDist(toClear, TxForward(toClear, k - 1)) = k - 1
    BY <1>2, <2>2, ForwardDist
  <2>4. TxForward(toClear, k - 1) = txDesc
    BY <1>2, <1>6, <1>9, <2>1, <2>3, NoBufAssumption DEF TxInv, TxLedger
  <2>5. QED
    BY <1>5, <2>2, <2>3, <2>4
<1>11. UNCHANGED fifoSent
  <2>1. CASE dmaPos = txDesc
    <3>1. fifoSent = Accepted
      BY <1>6, <2>1 DEF fifoSent
    <3>2. fifoSent' = TxDist(toClear, txDesc)
      BY <1>1, <1>2, <2>1 DEF fifoSent, TxDist
    <3>3. QED
      BY <1>5, <3>1, <3>2
  <2>2. CASE dmaPos # txDesc
    <3>1. own[dmaPos]
      <4>1. OwnEnd = txDesc /\ TxDist(dmaPos, dmaPos) = 0 /\ TxDist(dmaPos, txDesc) \in 0 .. NTx - 1
        BY <1>1, <1>2, DistType DEF OwnEnd
      <4>2. TxDist(dmaPos, txDesc) # 0
        BY <1>2, <2>2, DistType
      <4>3. QED
        BY <1>2, <2>2, <4>1, <4>2, NTxAssumption DEF TxInv, TxDmaInStep
    <3>2. own'[dmaPos]
      BY <1>1, <1>2, <2>2, <3>1
    <3>3. QED
      BY <1>1, <3>1, <3>2 DEF fifoSent, TxDist
  <2>3. QED
    BY <2>1, <2>2
<1>12. QED
  BY <1>4, <1>6, <1>7, <1>9, <1>10, <1>11, NTxAssumption DEF TxQueue!Accept

(* The DMA engine clears OWN: one more frame from the front has been sent. *)
LEMMA DmaSendSends ==
  ASSUME TxInv, DmaSend
  PROVE  TxQueue!Send
<1> DEFINE d == TxDist(toClear, dmaPos)
           next == TxSucc(dmaPos)
<1>1. /\ own[dmaPos] /\ own' = [own EXCEPT ![dmaPos] = FALSE] /\ dmaPos' = next
      /\ UNCHANGED <<txBuf, toClear, sem, txDesc, outPc>>
  BY DEF DmaSend, outVars
<1>2. /\ toClear \in TxIndex /\ dmaPos \in TxIndex /\ next \in TxIndex
      /\ own \in [TxIndex -> BOOLEAN] /\ txBuf \in Slots
  BY DistType DEF TxInv, TxTypeOK, Slots
<1>3. UNCHANGED Accepted /\ UNCHANGED fifoQueue
  <2>1. UNCHANGED Accepted
    BY <1>1 DEF Accepted, Submitted, Held
  <2>2. QED
    BY <1>1, <2>1 DEF fifoQueue, TxForward
<1>4. Accepted \in 0 .. NTx /\ OwnEnd \in TxIndex
      /\ TxDist(toClear, OwnEnd) = IF Accepted = NTx THEN 0 ELSE Accepted
  BY QueueEnds
<1>5. d \in 0 .. NTx - 1 /\ d < Accepted /\ fifoSent = d
  BY <1>1, <1>2, DistType, QueueEnds DEF fifoSent
<1>6. next # dmaPos /\ own'[next] = own[next]
  <2>1. next # dmaPos
    BY <1>2, NTxAssumption DEF TxIndex, TxSucc
  <2>2. QED
    BY <1>1, <1>2, <2>1
<1>7. TxDist(dmaPos, next) = 1
  BY <1>2, NTxAssumption DEF TxIndex, TxSucc, TxDist
<1>8. own[next] <=> ~(OwnEnd = next)
  <2>1. own[next] <=> 1 < IF dmaPos = OwnEnd THEN NTx ELSE TxDist(dmaPos, OwnEnd)
    BY <1>1, <1>2, <1>7 DEF TxInv, TxDmaInStep
  <2>2. CASE dmaPos = OwnEnd
    BY <1>6, <2>1, <2>2, NTxAssumption
  <2>3. CASE dmaPos # OwnEnd
    <3>1. TxDist(dmaPos, OwnEnd) \in 1 .. NTx - 1
      BY <1>2, <1>4, <2>3, DistType, NTxAssumption
    <3>2. TxDist(dmaPos, OwnEnd) = 1 <=> OwnEnd = next
      BY <1>2, <1>4, <1>7, DistInjective
    <3>3. QED
      BY <2>1, <2>3, <3>1, <3>2, NTxAssumption
  <2>4. QED
    BY <2>2, <2>3
<1>9. TxDist(toClear, next) = IF d = NTx - 1 THEN 0 ELSE d + 1
  BY <1>2, DistSuccRight
<1>10. fifoSent' = d + 1
  <2>1. CASE own[next]
    <3>1. fifoSent' = TxDist(toClear, next)
      BY <1>1, <1>6, <2>1 DEF fifoSent, TxDist
    <3>2. d # NTx - 1
      <4>1. SUFFICES ASSUME d = NTx - 1 PROVE FALSE
        OBVIOUS
      <4>2. Accepted = NTx /\ TxDist(toClear, OwnEnd) = 0 /\ TxDist(toClear, next) = 0
        BY <1>4, <1>5, <1>9, <4>1, NTxAssumption
      <4>3. OwnEnd = next
        BY <1>2, <1>4, <4>2, DistInjective
      <4>4. QED
        BY <1>8, <2>1, <4>3
    <3>3. QED
      BY <1>9, <3>1, <3>2
  <2>2. CASE ~own[next]
    <3>1. fifoSent' = Accepted
      BY <1>1, <1>3, <1>6, <2>2 DEF fifoSent
    <3>2. TxDist(toClear, next) = IF Accepted = NTx THEN 0 ELSE Accepted
      BY <1>4, <1>8, <2>2
    <3>3. Accepted = d + 1
      BY <1>4, <1>5, <1>9, <3>2, NTxAssumption
    <3>4. QED
      BY <3>1, <3>3
  <2>3. QED
    BY <2>1, <2>2
<1>11. Len(fifoQueue) = Accepted
  BY <1>2, <1>4, QueueIs, QueueType
<1>12. QED
  BY <1>3, <1>5, <1>10, <1>11 DEF TxQueue!Send

(* vClearTXBuffers reclaims the descriptor at the front, which was sent.   *)
LEMMA ClearOneReturns ==
  ASSUME TxInv, ClearOne
  PROVE  TxQueue!Return
<1>1. InFlight(toClear) /\ txBuf[toClear] \in Buffers /\ sem < NTx
  BY ReclaimableIsInFlight DEF ClearOne
<1>2. /\ txBuf' = [txBuf EXCEPT ![toClear] = NoBuf] /\ sem' = sem + 1 /\ toClear' = TxSucc(toClear)
      /\ UNCHANGED <<own, txDesc, outPc, dmaPos>> /\ ~own[toClear]
  BY <1>1, NoBufAssumption DEF ClearOne, Reclaimable, outVars, dmaVars
<1>3. /\ toClear \in TxIndex /\ dmaPos \in TxIndex /\ txBuf \in Slots /\ txBuf' \in Slots
      /\ \A j \in TxIndex : j # toClear => txBuf'[j] = txBuf[j]
  BY <1>2 DEF TxInv, TxTypeOK, Slots
<1>4. Accepted \in 1 .. NTx /\ Accepted' = Accepted - 1
  <2>1. TxDist(toClear, toClear) = 0
    BY <1>3, DistType
  <2>2. Submitted > 0 /\ Submitted \in Int /\ sem \in Int
    BY <1>1, <2>1, NTxAssumption DEF InFlight, TxInv, TxTokens, TxTypeOK
  <2>3. Submitted' = Submitted - 1
    BY <1>2, <2>2, NTxAssumption DEF Submitted, Held
  <2>4. QED
    BY <1>2, <2>2, <2>3, QueueEnds, NTxAssumption DEF Accepted
<1>5. fifoQueue' = Tail(fifoQueue)
  <2>1. fifoQueue' = QueueOf(txBuf', TxSucc(toClear), Accepted - 1)
    BY <1>2, <1>4 DEF fifoQueue, QueueOf, TxForward
  <2>2. QED
    BY <1>3, <1>4, <2>1, QueueIs, QueueShorter
<1>6. fifoSent > 0 /\ fifoSent' = fifoSent - 1
  <2>1. CASE own[dmaPos]
    <3>1. dmaPos # toClear
      BY <1>2, <2>1
    <3>2. fifoSent = TxDist(toClear, dmaPos) /\ fifoSent' = TxDist(TxSucc(toClear), dmaPos)
      BY <1>2, <2>1 DEF fifoSent, TxDist
    <3>3. QED
      BY <1>3, <3>1, <3>2, DistType, DistSuccLeft, NTxAssumption
  <2>2. CASE ~own[dmaPos]
    BY <1>2, <1>4, <2>2 DEF fifoSent
  <2>3. QED
    BY <2>1, <2>2
<1>7. QED
  BY <1>5, <1>6 DEF TxQueue!Return

(* A buffer is put under the descriptor behind the queue.                  *)
LEMMA FillStays ==
  ASSUME TxInv, OutputFill
  PROVE  UNCHANGED <<fifoQueue, fifoSent>>
<1>1. /\ txBuf' = [txBuf EXCEPT ![txDesc] = outBuf] /\ outPc = "took" /\ outPc' = "filled"
      /\ UNCHANGED <<own, toClear, dmaPos, sem, txDesc>>
  BY DEF OutputFill, IpStep, dmaVars
<1>2. /\ toClear \in TxIndex /\ txDesc \in TxIndex /\ txBuf \in Slots /\ outBuf \in Buffers \cup {NoBuf}
  BY DEF TxInv, TxTypeOK, Slots
<1>3. txBuf' \in Slots /\ \A j \in TxIndex : j # txDesc => txBuf'[j] = txBuf[j]
  BY <1>1, <1>2 DEF Slots
<1>4. UNCHANGED Accepted /\ Accepted \in 0 .. NTx /\ TxDist(toClear, txDesc) = Accepted
  <2>1. UNCHANGED Accepted
    BY <1>1 DEF Accepted, Submitted, Held
  <2>2. Accepted = Submitted /\ Submitted \in 0 .. NTx - 1
    BY <1>1, NTxAssumption DEF Accepted, TxInv, TxTokens, Held
  <2>3. QED
    BY <2>1, <2>2, NTxAssumption DEF TxInv, TxTokens
<1>5. fifoQueue' = QueueOf(txBuf', toClear, Accepted)
  BY <1>1, <1>4 DEF fifoQueue, QueueOf, TxForward
<1>6. \A j \in TxIndex : TxDist(toClear, j) < Accepted => txBuf'[j] = txBuf[j]
  BY <1>3, <1>4
<1>7. UNCHANGED fifoQueue
  BY <1>2, <1>3, <1>4, <1>5, <1>6, QueueIs, QueueSame
<1>8. UNCHANGED fifoSent
  BY <1>1, <1>4 DEF fifoSent, TxDist
<1>9. QED
  BY <1>7, <1>8

(* Every step of the ring is one step of the queue or leaves it alone.     *)
LEMMA StepIsQueueStep ==
  ASSUME TxInv, [TxNext]_txVars
  PROVE  [TxQueue!Next]_<<fifoQueue, fifoSent>>
<1>1. ASSUME NEW b \in Buffers, OutputCall(b) PROVE UNCHANGED <<fifoQueue, fifoSent>>
  <2>1. /\ UNCHANGED <<own, txBuf, toClear, dmaPos, sem>>
        /\ outPc = "idle" /\ outPc' = "take"
    BY <1>1 DEF OutputCall, IpStep, ringVars, dmaVars
  <2>2. UNCHANGED Accepted
    BY <2>1 DEF Accepted, Submitted, Held
  <2>3. QED
    BY <2>1, <2>2, QueueStays
<1>2. ASSUME NEW b \in Buffers, OutputNoLink(b) PROVE UNCHANGED <<fifoQueue, fifoSent>>
  <2>1. /\ UNCHANGED <<own, txBuf, toClear, dmaPos, sem>>
        /\ outPc = "idle" /\ outPc' = "idle"
    BY <1>2 DEF OutputNoLink, IpStep, ringVars, dmaVars
  <2>2. UNCHANGED Accepted
    BY <2>1 DEF Accepted, Submitted, Held
  <2>3. QED
    BY <2>1, <2>2, QueueStays
<1>3. CASE OutputTake
  <2>1. /\ UNCHANGED <<own, txBuf, toClear, dmaPos>> /\ sem' = sem - 1 /\ sem \in Int
        /\ outPc = "take" /\ outPc' = "took"
    BY <1>3, NTxAssumption DEF OutputTake, IpStep, dmaVars, TxInv, TxTypeOK
  <2>2. UNCHANGED Accepted
    <3>1. Held = 0 /\ Held' = 1
      BY <2>1 DEF Held
    <3>2. QED
      BY <2>1, <3>1, NTxAssumption DEF Accepted, Submitted
  <2>3. QED
    BY <2>1, <2>2, QueueStays
<1>4. CASE OutputTimeout
  <2>1. /\ UNCHANGED <<own, txBuf, toClear, dmaPos, sem>>
        /\ outPc = "take" /\ outPc' = "idle"
    BY <1>4 DEF OutputTimeout, IpStep, ringVars, dmaVars
  <2>2. UNCHANGED Accepted
    BY <2>1 DEF Accepted, Submitted, Held
  <2>3. QED
    BY <2>1, <2>2, QueueStays
<1>5. CASE OutputAdvance
  <2>1. /\ UNCHANGED <<own, txBuf, toClear, dmaPos, sem>> /\ sem \in Int
        /\ outPc = "owned" /\ outPc' = "kick"
    BY <1>5, NTxAssumption DEF OutputAdvance, IpStep, dmaVars, TxInv, TxTypeOK
  <2>2. UNCHANGED Accepted
    <3>1. Held = 1 /\ Held' = 0
      BY <2>1 DEF Held
    <3>2. QED
      BY <2>1, <3>1, NTxAssumption DEF Accepted, Submitted
  <2>3. QED
    BY <2>1, <2>2, QueueStays
<1>6. CASE OutputKick
  <2>1. /\ UNCHANGED <<own, txBuf, toClear, dmaPos, sem>>
        /\ outPc = "kick" /\ outPc' = "idle"
    BY <1>6 DEF OutputKick, IpStep, ringVars
  <2>2. UNCHANGED Accepted
    BY <2>1 DEF Accepted, Submitted, Held
  <2>3. QED
    BY <2>1, <2>2, QueueStays
<1>7. ASSUME \/ ClearStart \/ ClearEnd \/ DmaSuspend \/ LinkChange \/ UpdateConfig
             \/ \E b \in Buffers : OthersMove(b)
             \/ UNCHANGED txVars
      PROVE  UNCHANGED <<fifoQueue, fifoSent>>
  <2>1. UNCHANGED <<own, txBuf, toClear, dmaPos, sem, outPc>>
    BY <1>7 DEF ClearStart, ClearEnd, DmaSuspend, LinkChange, UpdateConfig, OthersMove,
                txVars, ringVars, outVars, dmaVars
  <2>2. UNCHANGED Accepted
    BY <2>1 DEF Accepted, Submitted, Held
  <2>3. QED
    BY <2>1, <2>2, QueueStays
<1>8. CASE OutputFill
  BY <1>8, FillStays
<1>9. CASE OutputSetOwn
  BY <1>9, SetOwnAccepts DEF TxQueue!Next
<1>10. CASE DmaSend
  BY <1>10, DmaSendSends DEF TxQueue!Next
<1>11. CASE ClearOne
  BY <1>11, ClearOneReturns DEF TxQueue!Next
<1>12. QED
  BY <1>1, <1>2, <1>3, <1>4, <1>5, <1>6, <1>7, <1>8, <1>9, <1>10, <1>11
  DEF TxNext, Output, Clear, Dma

(* The descriptor ring, whatever its size and however the IP task, the     *)
(* EMAC task and the DMA engine interleave, is a bounded queue: a frame    *)
(* given to it is sent once, in the order of the calls, and its buffer is  *)
(* returned once, in that order, and only after the frame was sent.        *)
THEOREM TxImplements == TxSpec => TxImplementsFifo
<1>1. TxInitial => TxQueue!Init
  BY QueueInitial
<1>2. TxInv /\ [TxNext]_txVars => [TxQueue!Next]_<<fifoQueue, fifoSent>>
  BY StepIsQueueStep
<1>3. QED
  BY <1>1, <1>2, TxInvariance, PTL DEF TxSpec, TxImplementsFifo, TxQueue!Spec
=============================================================================
