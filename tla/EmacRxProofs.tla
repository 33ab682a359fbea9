---------------------------- MODULE EmacRxProofs ----------------------------
(***************************************************************************)
(* Machine-checked theorems about the receive ring, for every ring size,   *)
(* every length of the event queue, every kind of frame and every set of   *)
(* buffers.                                                                *)
(*                                                                         *)
(* RxInv (in EmacRx) is the inductive invariant.  RxLedger alone is not:   *)
(* that a buffer under a descriptor of the DMA engine is the RX side's     *)
(* needs that prvNetworkInterfaceInput works only on a descriptor that     *)
(* holds a frame, and that it holds a new buffer exactly while it says so  *)
(* (RxWork).                                                               *)
(***************************************************************************)
EXTENDS EmacRxRefinement, SequenceTheorems, TLAPS

-----------------------------------------------------------------------------
(* The event queue: which buffers are in it, and that none is in it twice. *)

Has(q, b) == \E k \in DOMAIN q : q[k] = b

Distinct(q) == \A k, l \in DOMAIN q : q[k] = q[l] /\ q[k] # NoBuf => k = l

Entries == Buffers \cup {NoBuf}

LEMMA AppendToQueue ==
  ASSUME NEW q \in Seq(Entries), NEW x \in Entries, Distinct(q), x = NoBuf \/ ~Has(q, x)
  PROVE  /\ Append(q, x) \in Seq(Entries) /\ Len(Append(q, x)) = Len(q) + 1
         /\ Distinct(Append(q, x))
         /\ \A b : Has(Append(q, x), b) <=> b = x \/ Has(q, b)
<1> DEFINE r == Append(q, x)
<1>1. /\ Len(q) \in Nat /\ DOMAIN q = 1 .. Len(q) /\ DOMAIN r = 1 .. Len(q) + 1
      /\ r \in Seq(Entries) /\ Len(r) = Len(q) + 1
      /\ r[Len(q) + 1] = x /\ \A k \in 1 .. Len(q) : r[k] = q[k]
  OBVIOUS
<1> HIDE DEF r
<1>2. Distinct(r)
  BY <1>1 DEF Distinct, Has
<1>3. ASSUME NEW b, Has(q, b) PROVE Has(r, b)
  <2>1. PICK k \in DOMAIN q : q[k] = b
    BY <1>3 DEF Has
  <2>2. k \in DOMAIN r /\ r[k] = b
    BY <1>1, <2>1
  <2>3. QED
    BY <2>2 DEF Has
<1>4. ASSUME NEW b, Has(r, b), b # x PROVE Has(q, b)
  BY <1>1, <1>4 DEF Has
<1>5. Has(r, x)
  BY <1>1 DEF Has
<1>6. QED
  BY <1>1, <1>2, <1>3, <1>4, <1>5 DEF r

LEMMA TailOfQueue ==
  ASSUME NEW q \in Seq(Entries), q # <<>>, Distinct(q)
  PROVE  /\ Tail(q) \in Seq(Entries) /\ Len(Tail(q)) = Len(q) - 1
         /\ Distinct(Tail(q)) /\ Has(q, Head(q)) /\ Head(q) \in Entries
         /\ Head(q) # NoBuf => ~Has(Tail(q), Head(q))
         /\ \A b : Has(q, b) <=> b = Head(q) \/ Has(Tail(q), b)
<1> DEFINE r == Tail(q)
<1>1. /\ Len(q) \in Nat \ {0} /\ DOMAIN q = 1 .. Len(q) /\ DOMAIN r = 1 .. Len(q) - 1
      /\ r \in Seq(Entries) /\ Len(r) = Len(q) - 1
      /\ Head(q) = q[1] /\ q[1] \in Entries /\ \A k \in 1 .. Len(q) - 1 : r[k] = q[k + 1]
  OBVIOUS
<1> HIDE DEF r
<1>2. ASSUME NEW k \in DOMAIN r, NEW l \in DOMAIN r, r[k] = r[l], r[k] # NoBuf PROVE k = l
  <2>1. /\ k + 1 \in DOMAIN q /\ l + 1 \in DOMAIN q
        /\ q[k + 1] = q[l + 1] /\ q[k + 1] # NoBuf
    BY <1>1, <1>2
  <2>2. k + 1 = l + 1
    BY <2>1 DEF Distinct
  <2>3. QED
    BY <1>1, <2>2
<1>3. ASSUME NEW b, Has(q, b), b # q[1] PROVE Has(r, b)
  <2>1. PICK k \in DOMAIN q : q[k] = b
    BY <1>3 DEF Has
  <2>2. k - 1 \in DOMAIN r /\ r[k - 1] = b
    BY <1>1, <1>3, <2>1
  <2>3. QED
    BY <2>2 DEF Has
<1>4. ASSUME NEW b, Has(r, b) PROVE Has(q, b)
  <2>1. PICK k \in DOMAIN r : r[k] = b
    BY <1>4 DEF Has
  <2>2. k + 1 \in DOMAIN q /\ q[k + 1] = b
    BY <1>1, <2>1
  <2>3. QED
    BY <2>2 DEF Has
<1>5. Has(q, q[1]) /\ (q[1] # NoBuf => ~Has(r, q[1]))
  BY <1>1 DEF Has, Distinct
<1>6. QED
  BY <1>1, <1>2, <1>3, <1>4, <1>5 DEF r, Distinct

(* RxLedger in these terms.                                                *)
LEMMA LedgerIs ==
  RxLedger <=>
    /\ \A b \in Buffers :
         owner[b] = "rx" <=> (b = newBuf \/ \E i \in RxIndex : rxBuf[i] = b /\ ~Replaced(i))
    /\ \A b \in Buffers : owner[b] = "queue" <=> Has(evQueue, b)
    /\ Distinct(evQueue)
    /\ IsInjective(rxBuf) /\ \A i \in RxIndex : rxBuf[i] # newBuf
BY Zenon DEF RxLedger, Has, Distinct

-----------------------------------------------------------------------------
(* The initial states, and one lemma per actor for the steps.              *)

LEMMA RxInvInitial == RxInit => RxInv
<1> SUFFICES ASSUME RxInit PROVE RxInv
  OBVIOUS
<1> USE NRxAssumption, EvLenAssumption, NoBufAssumption DEF RxInit, RxIndex
<1>1. RxTypeOK
  <2>1. 0 \in RxIndex /\ Len(evQueue) = 0 /\ evQueue \in Seq(Buffers \cup {NoBuf})
    OBVIOUS
  <2>2. QED
    BY <2>1 DEF RxTypeOK, OwnerTypeOK, Holders, FrameKinds, InPcs
<1>2. RxWork
  BY DEF RxWork, Busy
<1>3. RxLedger
  BY DEF RxLedger, Replaced, Busy, IsInjective
<1>4. QED
  BY <1>1, <1>2, <1>3 DEF RxInv

LEMMA ReceivePreserves ==
  ASSUME RxInv, NEW k \in Kinds, DmaReceive(k) PROVE RxInv'
BY NRxAssumption, KindsAssumption
   DEF RxInv, RxTypeOK, RxWork, RxLedger, OwnerTypeOK, Busy, Replaced, DmaReceive, RxSucc,
       RxIndex, IsInjective, inVars

(* SendEvent: the received buffer leaves the receive side for the queue.   *)
LEMMA SendPreserves == RxInv /\ SendEvent => RxInv'
<1> SUFFICES ASSUME RxInv, SendEvent PROVE RxInv'
  OBVIOUS
<1> DEFINE x == rxBuf[cur]
<1>1. /\ evQueue' = Append(evQueue, x) /\ Len(evQueue) < EvLen
      /\ inPc = "send" /\ inPc' = "give"
      /\ owner' = [owner EXCEPT ![x] = "queue"]
      /\ UNCHANGED <<rdy, kind, rxBuf, rxDesc, rxPos, cur, newBuf>>
  BY DEF SendEvent, HandOver, rxRing
<1>2. x \in Buffers /\ x # newBuf /\ owner[x] = "rx" /\ newBuf # NoBuf
  BY <1>1 DEF RxInv, RxTypeOK, RxWork, RxLedger, Replaced
<1>3. /\ evQueue' \in Seq(Entries) /\ Len(evQueue') = Len(evQueue) + 1
      /\ Distinct(evQueue') /\ \A b : Has(evQueue', b) <=> b = x \/ Has(evQueue, b)
  <2>1. evQueue \in Seq(Entries) /\ Distinct(evQueue) /\ ~Has(evQueue, x)
    BY <1>2, LedgerIs DEF RxInv, RxTypeOK, Entries
  <2>2. QED
    BY <1>1, <1>2, <2>1, AppendToQueue DEF Entries
<1>4. RxTypeOK' /\ RxWork'
  <2>1. owner' \in [Buffers -> Holders]
    BY <1>1 DEF RxInv, RxTypeOK, OwnerTypeOK, Holders
  <2>2. Len(evQueue') <= EvLen
    BY <1>1, <1>3, EvLenAssumption DEF RxInv, RxTypeOK, Entries
  <2>3. QED
    BY <1>1, <1>3, <2>1, <2>2 DEF RxInv, RxTypeOK, OwnerTypeOK, RxWork, Busy, InPcs, Entries
<1>5. \A b \in Buffers : owner'[b] = "queue" <=> Has(evQueue', b)
  BY <1>1, <1>3, LedgerIs DEF RxInv, RxTypeOK, OwnerTypeOK
<1>6. \A b \in Buffers :
        owner'[b] = "rx" <=> (b = newBuf \/ \E i \in RxIndex : rxBuf[i] = b /\ ~Replaced(i)')
  BY <1>1, <1>2 DEF RxInv, RxTypeOK, OwnerTypeOK, RxLedger, Replaced, Busy, IsInjective
<1>7. RxLedger'
  BY <1>1, <1>3, <1>5, <1>6 DEF RxInv, RxLedger, Has, Distinct
<1>8. QED
  BY <1>4, <1>7 DEF RxInv

LEMMA InputPreserves == RxInv /\ (DrainStart \/ Input) => RxInv'
<1> SUFFICES ASSUME RxInv, DrainStart \/ Input PROVE RxInv'
  OBVIOUS
<1> USE NRxAssumption, NoBufAssumption
    DEF RxInv, RxTypeOK, RxWork, RxLedger, OwnerTypeOK, Busy, Replaced, InPcs, Holders,
        IsInjective, inVars, rxRing
<1>1. CASE DrainStart
  BY <1>1 DEF DrainStart
<1>2. CASE LookNone
  BY <1>2 DEF LookNone
<1>3. CASE LookEmpty
  BY <1>3 DEF LookEmpty, RxSucc, RxIndex
<1>4. CASE LookFrame
  BY <1>4 DEF LookFrame, RxSucc, RxIndex
<1>5. CASE GetNew
  BY <1>5 DEF GetNew, GetBuffer, HandOver, Pool
<1>6. CASE GetTimeout
  BY <1>6 DEF GetTimeout
<1>7. CASE SendEvent
  BY <1>7, SendPreserves
<1>8. CASE SendTimeout
  BY <1>8 DEF SendTimeout, Release, HandOver
<1>9. CASE GiveBuffer
  BY <1>9 DEF GiveBuffer
<1>10. CASE GiveDescriptor
  BY <1>10 DEF GiveDescriptor
<1>11. QED
  BY <1>1, <1>2, <1>3, <1>4, <1>5, <1>6, <1>7, <1>8, <1>9, <1>10 DEF Input

(* IpTake and OtherEvent: the other end of the event queue.                *)
LEMMA QueuePreserves == RxInv /\ (IpTake \/ OtherEvent) => RxInv'
<1> SUFFICES ASSUME RxInv, IpTake \/ OtherEvent PROVE RxInv'
  OBVIOUS
<1> USE NoBufAssumption DEF Entries
<1>1. evQueue \in Seq(Entries) /\ Distinct(evQueue) /\ Len(evQueue) <= EvLen
  BY LedgerIs DEF RxInv, RxTypeOK
<1>2. CASE IpTake
  <2>1. /\ evQueue # <<>> /\ evQueue' = Tail(evQueue)
        /\ UNCHANGED <<rdy, kind, rxBuf, rxDesc, rxPos, inPc, cur, newBuf>>
        /\ owner' = IF Head(evQueue) # NoBuf THEN [owner EXCEPT ![Head(evQueue)] = "stack"]
                                             ELSE owner
    BY <1>2 DEF IpTake, HandOver, rxRing, inVars
  <2>2. /\ evQueue' \in Seq(Entries) /\ Len(evQueue') = Len(evQueue) - 1
        /\ Distinct(evQueue')
        /\ Has(evQueue, Head(evQueue)) /\ Head(evQueue) \in Entries
        /\ Head(evQueue) # NoBuf => ~Has(evQueue', Head(evQueue))
        /\ \A b : Has(evQueue, b) <=> b = Head(evQueue) \/ Has(evQueue', b)
    BY <1>1, <2>1, TailOfQueue
  <2>3. RxTypeOK' /\ RxWork'
    <3>1. owner' \in [Buffers -> Holders]
      BY <2>1 DEF RxInv, RxTypeOK, OwnerTypeOK, Holders
    <3>2. Len(evQueue') <= EvLen
      BY <1>1, <2>2, EvLenAssumption
    <3>3. QED
      BY <2>1, <2>2, <3>1, <3>2 DEF RxInv, RxTypeOK, OwnerTypeOK, RxWork, Busy
  <2>4. \A b \in Buffers : owner'[b] = "queue" <=> Has(evQueue', b)
    BY <2>1, <2>2, LedgerIs DEF RxInv, RxTypeOK, OwnerTypeOK
  <2>5. \A b \in Buffers : owner'[b] = "rx" <=> owner[b] = "rx"
    BY <2>1, <2>2, LedgerIs DEF RxInv, RxTypeOK, OwnerTypeOK
  <2>6. RxLedger'
    BY <2>1, <2>2, <2>4, <2>5, LedgerIs DEF RxInv, RxLedger, Has, Distinct, Replaced, Busy
  <2>7. QED
    BY <2>3, <2>6 DEF RxInv
<1>3. CASE OtherEvent
  <2>1. /\ evQueue' = Append(evQueue, NoBuf) /\ Len(evQueue) < EvLen
        /\ UNCHANGED <<owner, rdy, kind, rxBuf, rxDesc, rxPos, inPc, cur, newBuf>>
    BY <1>3 DEF OtherEvent, rxRing, inVars
  <2>2. /\ evQueue' \in Seq(Entries) /\ Len(evQueue') = Len(evQueue) + 1
        /\ Distinct(evQueue')
        /\ \A b : Has(evQueue', b) <=> b = NoBuf \/ Has(evQueue, b)
    BY <1>1, <2>1, AppendToQueue
  <2>3. Len(evQueue') <= EvLen
    BY <1>1, <2>1, <2>2, EvLenAssumption
  <2>4. QED
    BY <2>1, <2>2, <2>3, LedgerIs
       DEF RxInv, RxTypeOK, OwnerTypeOK, RxWork, RxLedger, Has, Distinct, Replaced, Busy
<1>4. QED
  BY <1>2, <1>3

LEMMA RxOthersPreserve ==
  ASSUME RxInv, NEW b \in Buffers, RxOthersMove(b) PROVE RxInv'
BY NoBufAssumption
   DEF RxInv, RxTypeOK, RxWork, RxLedger, OwnerTypeOK, Busy, Replaced, Holders,
       IsInjective, inVars, rxRing, RxOthersMove, HandOver

LEMMA RxInvStep == RxInv /\ [RxNext]_rxVars => RxInv'
<1>1. RxInv /\ RxNext => RxInv'
  BY ReceivePreserves, InputPreserves, QueuePreserves, RxOthersPreserve DEF RxNext
<1>2. RxInv /\ UNCHANGED rxVars => RxInv'
  BY DEF rxVars, rxRing, inVars, RxInv, RxTypeOK, RxWork, RxLedger, OwnerTypeOK, Busy,
         Replaced, IsInjective
<1>3. QED
  BY <1>1, <1>2

(* The inductive invariant holds in every reachable state of the receive   *)
(* side, whenever frames arrive and however the IP task delays the events. *)
THEOREM RxInvariance == RxSpec => []RxInv
BY RxInvInitial, RxInvStep, PTL DEF RxSpec

(* No frame is received into a buffer that anybody else holds.             *)
THEOREM RxDmaIsSafe == RxSpec => []RxDmaSafe
<1>1. RxInv => RxDmaSafe
  BY DEF RxInv, RxTypeOK, RxWork, RxLedger, RxDmaSafe, Replaced, Busy
<1>2. QED
  BY <1>1, RxInvariance, PTL

(* No buffer of the receive side is leaked or is in two places at once,    *)
(* whichever way prvNetworkInterfaceInput gives up on a frame.             *)
THEOREM RxKeepsLedger == RxSpec => []RxLedger
<1>1. RxInv => RxLedger
  BY DEF RxInv
<1>2. QED
  BY <1>1, RxInvariance, PTL

-----------------------------------------------------------------------------
(* The driver and the DMA engine in step.  InStepInv adds that the driver  *)
(* is one descriptor ahead while it works on one, and that the one it      *)
(* works on is never an empty frame, so that an empty one stays.           *)

InStep ==
  \A i \in RxIndex :
    rdy[i] <=> RxDist(RxFirst, i) < IF rdy[rxPos] /\ rxPos = RxFirst
                                    THEN NRx ELSE RxDist(RxFirst, rxPos)

InStepInv ==
  /\ NoEmptyFrame => InStep
  /\ Busy # {} => rxDesc = RxSucc(cur) /\ kind[cur] # "empty"

LEMMA RxDistType ==
  ASSUME NEW a \in RxIndex, NEW b \in RxIndex
  PROVE  /\ RxDist(a, b) \in 0 .. NRx - 1
         /\ RxSucc(a) \in RxIndex
         /\ RxDist(a, b) = 0 <=> a = b
BY NRxAssumption DEF RxIndex, RxDist, RxSucc

LEMMA RxDistSuccRight ==
  ASSUME NEW a \in RxIndex, NEW b \in RxIndex
  PROVE  RxDist(a, RxSucc(b)) = IF RxDist(a, b) = NRx - 1 THEN 0 ELSE RxDist(a, b) + 1
BY NRxAssumption DEF RxIndex, RxDist, RxSucc

LEMMA RxDistSuccLeft ==
  ASSUME NEW a \in RxIndex, NEW b \in RxIndex
  PROVE  RxDist(RxSucc(a), b) = IF a = b THEN NRx - 1 ELSE RxDist(a, b) - 1
BY NRxAssumption DEF RxIndex, RxDist, RxSucc

LEMMA RxDistInjective ==
  ASSUME NEW a \in RxIndex, NEW b \in RxIndex, NEW c \in RxIndex,
         RxDist(a, b) = RxDist(a, c)
  PROVE  b = c
BY NRxAssumption DEF RxIndex, RxDist

LEMMA InStepInitial == RxInit => InStepInv
<1> SUFFICES ASSUME RxInit PROVE InStepInv
  OBVIOUS
<1>1. Busy = {} /\ RxFirst = 0 /\ rxPos = 0 /\ 0 \in RxIndex
      /\ \A i \in RxIndex : ~rdy[i]
  BY NRxAssumption DEF RxInit, RxIndex, Busy, RxFirst
<1>2. InStep
  BY <1>1, RxDistType DEF InStep
<1>3. QED
  BY <1>1, <1>2 DEF InStepInv

(* A frame that arrives makes the range of full descriptors one longer.    *)
LEMMA ReceiveInStep ==
  ASSUME RxInv, InStepInv, NEW k \in Kinds, DmaReceive(k) PROVE InStepInv'
<1> USE NRxAssumption, RxDistType
<1>0. rdy \in [RxIndex -> BOOLEAN] /\ kind \in [RxIndex -> FrameKinds]
      /\ rxPos \in RxIndex /\ rxDesc \in RxIndex /\ cur \in RxIndex
  BY DEF RxInv, RxTypeOK
<1>1. /\ rdy' = [rdy EXCEPT ![rxPos] = TRUE] /\ ~rdy[rxPos]
      /\ kind' = [kind EXCEPT ![rxPos] = k] /\ rxPos' = RxSucc(rxPos)
      /\ UNCHANGED <<rxDesc, inPc, cur>>
  BY DEF DmaReceive, inVars
<1>2. RxFirst' = RxFirst /\ Busy' = Busy /\ RxFirst \in RxIndex
  BY <1>0, <1>1 DEF RxFirst, Busy
<1>3. NoEmptyFrame' => NoEmptyFrame
  BY <1>0, <1>1 DEF NoEmptyFrame
<1>4. ASSUME NoEmptyFrame PROVE InStep'
  <2>1. \A i \in RxIndex : rdy[i] <=> RxDist(RxFirst, i) < RxDist(RxFirst, rxPos)
    BY <1>0, <1>1, <1>4 DEF InStepInv, InStep
  <2>2. \A i \in RxIndex : rdy'[i] <=> rdy[i] \/ i = rxPos
    BY <1>0, <1>1
  <2>3. RxDist(RxFirst, rxPos') = IF RxDist(RxFirst, rxPos) = NRx - 1
                                  THEN 0 ELSE RxDist(RxFirst, rxPos) + 1
    BY <1>0, <1>1, <1>2, RxDistSuccRight
  <2>4. \A i \in RxIndex : rdy'[i] <=> RxDist(RxFirst, i) < RxDist(RxFirst, rxPos) + 1
    BY <1>0, <1>2, <2>1, <2>2, RxDistInjective
  <2>5. rdy'[rxPos'] /\ rxPos' = RxFirst <=> RxDist(RxFirst, rxPos) = NRx - 1
    <3>1. /\ rxPos' \in RxIndex /\ RxDist(RxFirst, rxPos) \in 0 .. NRx - 1
          /\ RxDist(RxFirst, rxPos') = 0 <=> rxPos' = RxFirst
      BY <1>0, <1>1, <1>2
    <3>2. rxPos' = RxFirst <=> RxDist(RxFirst, rxPos) = NRx - 1
      BY <2>3, <3>1
    <3>3. rxPos' = RxFirst => rdy'[rxPos']
      BY <2>4, <3>1
    <3>4. QED
      BY <3>2, <3>3
  <2>6. QED
    BY <1>0, <1>1, <1>2, <2>3, <2>4, <2>5 DEF InStep
<1>5. Busy' # {} => rxDesc' = RxSucc(cur') /\ kind'[cur'] # "empty"
  <2>1. Busy # {} => cur # rxPos
    BY <1>1 DEF RxInv, RxWork
  <2>2. QED
    BY <1>0, <1>1, <1>2, <2>1 DEF InStepInv
<1>6. QED
  BY <1>3, <1>4, <1>5 DEF InStepInv

(* Giving a descriptor back makes it one shorter.                          *)
LEMMA GiveInStep ==
  ASSUME RxInv, InStepInv, GiveDescriptor PROVE InStepInv'
<1> USE NRxAssumption, RxDistType
<1>0. rdy \in [RxIndex -> BOOLEAN] /\ rxPos \in RxIndex /\ rxDesc \in RxIndex /\ cur \in RxIndex
  BY DEF RxInv, RxTypeOK
<1>1. /\ rdy' = [rdy EXCEPT ![cur] = FALSE] /\ rdy[cur] /\ rxDesc = RxSucc(cur)
      /\ kind[cur] # "empty" /\ Busy = {cur}
      /\ RxFirst = cur /\ RxFirst' = RxSucc(cur) /\ Busy' = {}
      /\ UNCHANGED <<rxDesc, cur, kind, rxPos>>
  BY DEF GiveDescriptor, RxFirst, Busy, RxInv, RxWork, InStepInv
<1>2. NoEmptyFrame' => NoEmptyFrame
  BY <1>0, <1>1 DEF NoEmptyFrame, InStepInv
<1>3. ASSUME NoEmptyFrame PROVE InStep'
  <2> DEFINE full == IF rxPos = cur THEN NRx ELSE RxDist(cur, rxPos)
  <2>1. full \in 1 .. NRx /\ \A i \in RxIndex : rdy[i] <=> RxDist(cur, i) < full
    BY <1>0, <1>1, <1>3 DEF InStepInv, InStep
  <2>2. \A i \in RxIndex : rdy'[i] <=> rdy[i] /\ i # cur
    BY <1>0, <1>1
  <2>3. \A i \in RxIndex : RxDist(RxSucc(cur), i) = IF i = cur THEN NRx - 1 ELSE RxDist(cur, i) - 1
    BY <1>0, RxDistSuccLeft
  <2>4. \A i \in RxIndex : rdy'[i] <=> RxDist(RxSucc(cur), i) < full - 1
    BY <1>0, <2>1, <2>2, <2>3
  <2>5. RxDist(RxSucc(cur), rxPos) = full - 1
    BY <1>0, <2>3
  <2>6. ~(rdy'[rxPos] /\ rxPos = RxSucc(cur))
    BY <1>0, <2>4, <2>5
  <2>7. QED
    BY <1>1, <2>4, <2>5, <2>6 DEF InStep
<1>4. QED
  BY <1>1, <1>2, <1>3 DEF InStepInv

LEMMA InStepStep == RxInv /\ InStepInv /\ [RxNext]_rxVars => InStepInv'
<1> SUFFICES ASSUME RxInv, InStepInv, [RxNext]_rxVars PROVE InStepInv'
  OBVIOUS
<1> USE DEF rxRing, inVars, rxVars
<1>1. ASSUME NEW k \in Kinds, DmaReceive(k) PROVE InStepInv'
  BY <1>1, ReceiveInStep
<1>2. CASE GiveDescriptor
  BY <1>2, GiveInStep
<1>3. CASE LookEmpty
  <2>1. ~NoEmptyFrame'
    BY <1>3 DEF LookEmpty, NoEmptyFrame, RxInv, RxTypeOK
  <2>2. Busy' = {}
    BY <1>3 DEF LookEmpty, Busy
  <2>3. QED
    BY <2>1, <2>2 DEF InStepInv
<1>4. CASE LookFrame
  <2>1. Busy = {} /\ RxFirst = rxDesc /\ RxFirst' = rxDesc /\ Busy' = {cur'} /\ cur' = rxDesc
        /\ rxDesc' = RxSucc(rxDesc) /\ kind[rxDesc] # "empty" /\ UNCHANGED <<rdy, kind, rxPos>>
    BY <1>4 DEF LookFrame, RxFirst, Busy
  <2>2. QED
    BY <2>1 DEF InStepInv, InStep, NoEmptyFrame
<1>5. CASE DrainStart \/ LookNone \/ GetNew \/ GetTimeout \/ SendEvent \/ SendTimeout \/ GiveBuffer
  <2>1. UNCHANGED <<rdy, kind, rxDesc, rxPos, cur>> /\ Busy' = Busy
    BY <1>5 DEF DrainStart, LookNone, GetNew, GetTimeout, SendEvent, SendTimeout, GiveBuffer, Busy
  <2>2. QED
    BY <2>1 DEF InStepInv, InStep, NoEmptyFrame, RxFirst
<1>6. ASSUME NEW b \in Buffers, IpTake \/ OtherEvent \/ RxOthersMove(b) \/ UNCHANGED rxVars
      PROVE  InStepInv'
  BY <1>6 DEF IpTake, OtherEvent, RxOthersMove, InStepInv, InStep, NoEmptyFrame, RxFirst, Busy
<1>7. Buffers # {}
  BY DEF RxInv, RxTypeOK
<1>8. QED
  BY <1>1, <1>2, <1>3, <1>4, <1>5, <1>6, <1>7 DEF RxNext, Input

(* Until a frame of no bytes is received, reception never stops because    *)
(* the driver and the DMA engine wait at different descriptors.            *)
THEOREM RxStaysInStep == RxSpec => []RxInStep
<1>1. InStepInv => RxInStep
  BY DEF InStepInv, InStep, RxInStep
<1>2. QED
  BY <1>1, InStepInitial, InStepStep, RxInvariance, PTL DEF RxSpec

(* The types of the receive side.                                          *)
THEOREM RxTypeCorrect == RxSpec => []RxTypeOK
<1>1. RxInv => RxTypeOK
  BY DEF RxInv
<1>2. QED
  BY <1>1, RxInvariance, PTL

-----------------------------------------------------------------------------
(* The ring and the event queue implement RxFifo.  First what the queue of *)
(* the undecided frames does when one end of it moves.                     *)

RxBufs == [RxIndex -> Buffers]
RxKinds == [RxIndex -> FrameKinds]
RxFrames == [buf : Buffers, kind : FrameKinds]

FrameAt(f, g, i) == [buf |-> f[i], kind |-> g[i]]

LEMMA RxForwardDist ==
  ASSUME NEW i \in RxIndex
  PROVE  /\ \A k \in 0 .. NRx - 1 : RxForward(i, k) \in RxIndex /\ RxDist(i, RxForward(i, k)) = k
         /\ \A j \in RxIndex : RxForward(i, RxDist(i, j)) = j
         /\ \A k \in 0 .. NRx - 2 : RxForward(RxSucc(i), k) = RxForward(i, k + 1)
BY NRxAssumption DEF RxIndex, RxForward, RxDist, RxSucc

LEMMA FramesType ==
  ASSUME NEW f \in RxBufs, NEW g \in RxKinds, NEW i \in RxIndex, NEW n \in 0 .. NRx
  PROVE  /\ FramesOf(f, g, i, n) \in Seq(RxFrames) /\ Len(FramesOf(f, g, i, n)) = n
         /\ \A k \in 1 .. n : FramesOf(f, g, i, n)[k] = FrameAt(f, g, RxForward(i, k - 1))
<1>1. n \in Nat /\ \A k \in 1 .. n : k - 1 \in 0 .. NRx - 1
  BY NRxAssumption
<1>2. \A k \in 1 .. n : FrameAt(f, g, RxForward(i, k - 1)) \in RxFrames
  BY <1>1, RxForwardDist DEF FrameAt, RxFrames, RxBufs, RxKinds
<1>3. FramesOf(f, g, i, n) = [k \in 1 .. n |-> FrameAt(f, g, RxForward(i, k - 1))]
  BY DEF FramesOf, FrameAt
<1>4. FramesOf(f, g, i, n) \in [1 .. n -> RxFrames]
  BY <1>2, <1>3
<1>5. QED
  BY <1>1, <1>3, <1>4

LEMMA FramesSame ==
  ASSUME NEW f \in RxBufs, NEW g \in RxKinds, NEW h \in RxBufs, NEW l \in RxKinds,
         NEW i \in RxIndex, NEW n \in 0 .. NRx,
         \A j \in RxIndex : RxDist(i, j) < n => h[j] = f[j] /\ l[j] = g[j]
  PROVE  FramesOf(h, l, i, n) = FramesOf(f, g, i, n)
<1>1. ASSUME NEW k \in 1 .. n
      PROVE  h[RxForward(i, k - 1)] = f[RxForward(i, k - 1)] /\ l[RxForward(i, k - 1)] = g[RxForward(i, k - 1)]
  <2>1. k - 1 \in 0 .. NRx - 1 /\ k - 1 < n
    BY NRxAssumption
  <2>2. QED
    BY <2>1, RxForwardDist
<1>2. QED
  BY <1>1 DEF FramesOf

LEMMA FramesLonger ==
  ASSUME NEW f \in RxBufs, NEW g \in RxKinds, NEW i \in RxIndex, NEW n \in 0 .. NRx - 1
  PROVE  FramesOf(f, g, i, n + 1) = Append(FramesOf(f, g, i, n), FrameAt(f, g, RxForward(i, n)))
<1> DEFINE q == FramesOf(f, g, i, n)
           r == FramesOf(f, g, i, n + 1)
           e == FrameAt(f, g, RxForward(i, n))
<1>1. n \in 0 .. NRx /\ n + 1 \in 0 .. NRx /\ n \in Nat /\ (n + 1) - 1 = n
  BY NRxAssumption
<1>2. /\ q \in Seq(RxFrames) /\ Len(q) = n
      /\ \A k \in 1 .. n : q[k] = FrameAt(f, g, RxForward(i, k - 1))
      /\ r \in Seq(RxFrames) /\ Len(r) = n + 1
      /\ \A k \in 1 .. n + 1 : r[k] = FrameAt(f, g, RxForward(i, k - 1))
  BY <1>1, FramesType
<1>3. e \in RxFrames
  BY RxForwardDist DEF RxBufs, RxKinds, RxFrames, FrameAt
<1> HIDE DEF q, r, e
<1>4. /\ Append(q, e) \in Seq(RxFrames) /\ Len(Append(q, e)) = n + 1
      /\ \A k \in 1 .. n : Append(q, e)[k] = q[k]
      /\ Append(q, e)[n + 1] = e
  BY <1>2, <1>3, AppendProperties
<1>5. ASSUME NEW k \in 1 .. n + 1 PROVE r[k] = Append(q, e)[k]
  <2>1. CASE k \in 1 .. n
    BY <1>2, <1>4, <2>1
  <2>2. CASE k = n + 1
    BY <1>1, <1>2, <1>4, <2>2 DEF e
  <2>3. k \in 1 .. n \/ k = n + 1
    BY <1>1
  <2>4. QED
    BY <2>1, <2>2, <2>3
<1>6. r = Append(q, e)
  BY <1>2, <1>4, <1>5, SeqEqual
<1>7. QED
  BY <1>6 DEF q, r, e

LEMMA FramesShorter ==
  ASSUME NEW f \in RxBufs, NEW g \in RxKinds, NEW i \in RxIndex, NEW n \in 1 .. NRx
  PROVE  /\ FramesOf(f, g, i, n) # <<>>
         /\ Head(FramesOf(f, g, i, n)) = FrameAt(f, g, i)
         /\ FramesOf(f, g, RxSucc(i), n - 1) = Tail(FramesOf(f, g, i, n))
<1> DEFINE q == FramesOf(f, g, i, n)
           r == FramesOf(f, g, RxSucc(i), n - 1)
<1>1. n \in 0 .. NRx /\ n - 1 \in 0 .. NRx /\ RxSucc(i) \in RxIndex /\ 1 \in 1 .. n
  BY NRxAssumption, RxDistType
<1>2. /\ q \in Seq(RxFrames) /\ Len(q) = n
      /\ \A k \in 1 .. n : q[k] = FrameAt(f, g, RxForward(i, k - 1))
      /\ r \in Seq(RxFrames) /\ Len(r) = n - 1
      /\ \A k \in 1 .. n - 1 : r[k] = FrameAt(f, g, RxForward(RxSucc(i), k - 1))
  BY <1>1, FramesType
<1>3. RxForward(i, 0) = i
  BY NRxAssumption DEF RxForward, RxIndex
<1>4. q[1] = FrameAt(f, g, i)
  BY <1>1, <1>2, <1>3
<1> HIDE DEF q, r
<1>5. q # <<>>
  BY <1>2
<1>6. /\ Head(q) = q[1]
      /\ Tail(q) \in Seq(RxFrames) /\ Len(Tail(q)) = n - 1 /\ \A k \in 1 .. n - 1 : Tail(q)[k] = q[k + 1]
  BY <1>2, <1>5, HeadTailProperties
<1>7. ASSUME NEW k \in 1 .. n - 1 PROVE r[k] = Tail(q)[k]
  <2>1. k - 1 \in 0 .. NRx - 2 /\ k + 1 \in 1 .. n /\ (k + 1) - 1 = k /\ (k - 1) + 1 = k
    BY NRxAssumption
  <2>2. RxForward(RxSucc(i), k - 1) = RxForward(i, k)
    BY <2>1, RxForwardDist
  <2>3. QED
    BY <1>2, <1>6, <2>1, <2>2
<1>8. r = Tail(q)
  BY <1>2, <1>6, <1>7, SeqEqual
<1>9. QED
  BY <1>4, <1>5, <1>6, <1>8 DEF q, r

(* A frame is asked a buffer for, and sent, only if it was acceptable.     *)
GoodFrame == inPc \in {"get", "send"} => kind[cur] = "good"

LEMMA GoodFrameStep == RxInv /\ GoodFrame /\ [RxNext]_rxVars => GoodFrame'
<1> SUFFICES ASSUME RxInv, GoodFrame, [RxNext]_rxVars PROVE GoodFrame'
  OBVIOUS
<1> USE DEF rxRing, inVars, rxVars, GoodFrame
<1>1. ASSUME NEW k \in Kinds, DmaReceive(k) PROVE GoodFrame'
  BY <1>1 DEF DmaReceive, RxInv, RxTypeOK, RxWork, Busy
<1>2. CASE DrainStart \/ Input
  BY <1>2 DEF DrainStart, Input, LookNone, LookEmpty, LookFrame, GetNew, GetTimeout, SendEvent,
              SendTimeout, GiveBuffer, GiveDescriptor
<1>3. CASE IpTake \/ OtherEvent \/ (\E b \in Buffers : RxOthersMove(b)) \/ UNCHANGED rxVars
  BY <1>3 DEF IpTake, OtherEvent, RxOthersMove
<1>4. QED
  BY <1>1, <1>2, <1>3 DEF RxNext

(* A frame of no bytes stays in the ring.                                  *)
LEMMA EmptyStays ==
  ASSUME RxInv, InStepInv, [RxNext]_rxVars, NoEmptyFrame'
  PROVE  NoEmptyFrame
<1> USE DEF rxRing, inVars, rxVars, NoEmptyFrame
<1>1. ASSUME NEW k \in Kinds, DmaReceive(k) PROVE NoEmptyFrame
  BY <1>1 DEF DmaReceive, RxInv, RxTypeOK
<1>2. CASE GiveDescriptor
  BY <1>2 DEF GiveDescriptor, RxInv, RxTypeOK, InStepInv, Busy
<1>3. CASE UNCHANGED <<rdy, kind>>
  BY <1>3
<1>4. QED
  BY <1>1, <1>2, <1>3
  DEF RxNext, Input, DrainStart, LookNone, LookEmpty, LookFrame, GetNew, GetTimeout, SendEvent,
      SendTimeout, GiveBuffer, IpTake, OtherEvent, RxOthersMove

(* The undecided frames end at the DMA engine's position.                  *)
LEMMA RingIs ==
  ASSUME RxInv, InStepInv, NoEmptyFrame
  PROVE  /\ Undecided \in RxIndex /\ InRing \in 0 .. NRx
         /\ InRing # NRx => RxForward(Undecided, InRing) = rxPos
         /\ Decided => InRing = RxDist(RxSucc(cur), rxPos) /\ InRing \in 0 .. NRx - 1
         /\ ~Decided => \A i \in RxIndex : rdy[i] <=> RxDist(Undecided, i) < InRing
         /\ rxPos \in RxIndex /\ cur \in RxIndex /\ rdy \in [RxIndex -> BOOLEAN]
         /\ rxBuf \in RxBufs /\ kind \in RxKinds
<1> USE NRxAssumption
<1>1. /\ rxPos \in RxIndex /\ cur \in RxIndex /\ rxDesc \in RxIndex /\ inPc \in InPcs
      /\ rdy \in [RxIndex -> BOOLEAN] /\ rxBuf \in RxBufs /\ kind \in RxKinds
  BY DEF RxInv, RxTypeOK, RxBufs, RxKinds
<1>2. Undecided \in RxIndex
  BY <1>1 DEF Undecided
<1>3. RxDist(Undecided, rxPos) \in 0 .. NRx - 1 /\ RxForward(Undecided, RxDist(Undecided, rxPos)) = rxPos
  BY <1>1, <1>2, RxDistType, RxForwardDist
<1>4. CASE Decided
  <2>1. Undecided = RxSucc(cur) /\ InRing = RxDist(Undecided, rxPos)
    BY <1>4 DEF Decided, Undecided, InRing, InStepInv, Busy
  <2>2. QED
    BY <1>1, <1>2, <1>3, <1>4, <2>1
<1>5. CASE ~Decided
  <2>1. Undecided = RxFirst
    BY <1>1, <1>5 DEF Decided, Undecided, RxFirst, Busy, InPcs
  <2>2. InRing = IF rdy[rxPos] /\ rxPos = Undecided THEN NRx ELSE RxDist(Undecided, rxPos)
    BY <1>5 DEF InRing
  <2>3. \A i \in RxIndex : rdy[i] <=> RxDist(Undecided, i) < InRing
    BY <2>1, <2>2 DEF InStepInv, InStep
  <2>4. QED
    BY <1>1, <1>2, <1>3, <1>5, <2>2, <2>3
<1>6. QED
  BY <1>4, <1>5

(* DmaReceive: the frame goes to the end of the queue, into a buffer that  *)
(* is neither under another frame nor on its way to the stack.             *)
LEMMA ReceiveArrives ==
  ASSUME RxInv, InStepInv, NoEmptyFrame, NEW k \in Kinds, DmaReceive(k)
  PROVE  \E b \in Buffers : RxQueue!Arrive(b, k)
<1> DEFINE b == rxBuf[rxPos]
           n == InRing
<1>1. /\ rdy' = [rdy EXCEPT ![rxPos] = TRUE] /\ ~rdy[rxPos]
      /\ kind' = [kind EXCEPT ![rxPos] = k] /\ rxPos' = RxSucc(rxPos)
      /\ UNCHANGED <<owner, rxBuf, rxDesc, inPc, cur, evQueue>>
  BY DEF DmaReceive, inVars
<1>2. /\ Undecided \in RxIndex /\ n \in 0 .. NRx
      /\ n # NRx => RxForward(Undecided, n) = rxPos
      /\ Decided => n = RxDist(RxSucc(cur), rxPos) /\ n \in 0 .. NRx - 1
      /\ ~Decided => \A i \in RxIndex : rdy[i] <=> RxDist(Undecided, i) < n
      /\ rxPos \in RxIndex /\ cur \in RxIndex /\ rdy \in [RxIndex -> BOOLEAN]
      /\ rxBuf \in RxBufs /\ kind \in RxKinds
  BY RingIs
<1>3. Undecided' = Undecided /\ Decided' = Decided
  BY <1>1 DEF Undecided, Decided
<1>4. n = RxDist(Undecided, rxPos) /\ n \in 0 .. NRx - 1
  BY <1>1, <1>2, RxDistType DEF InRing
<1>5. RxDist(Undecided, rxPos') = IF n = NRx - 1 THEN 0 ELSE n + 1
  BY <1>1, <1>2, <1>4, RxDistSuccRight
<1>6. InRing' = n + 1
  <2>1. CASE Decided
    <3>1. InRing' = RxDist(Undecided, rxPos')
      BY <1>1, <1>3, <2>1 DEF InRing, RxDist
    <3>2. rdy[cur] /\ cur # rxPos
      BY <1>1, <2>1 DEF RxInv, RxWork, Busy, Decided
    <3>3. RxDist(RxSucc(cur), rxPos) = RxDist(cur, rxPos) - 1 /\ RxDist(cur, rxPos) \in 0 .. NRx - 1
      BY <1>2, <3>2, RxDistSuccLeft, RxDistType
    <3>4. n # NRx - 1
      BY <1>2, <2>1, <3>3, NRxAssumption
    <3>5. QED
      BY <1>5, <3>1, <3>4
  <2>2. CASE ~Decided
    <3>1. InRing' = IF rdy'[rxPos'] /\ rxPos' = Undecided THEN NRx ELSE RxDist(Undecided, rxPos')
      BY <1>1, <1>3, <2>2 DEF InRing, RxDist
    <3>2. rxPos' \in RxIndex
      BY <1>1, <1>2, RxDistType
    <3>3. RxDist(Undecided, rxPos') = 0 <=> rxPos' = Undecided
      BY <1>2, <3>2, RxDistType
    <3>4. CASE n = NRx - 1
      <4>1. rxPos' = Undecided
        BY <1>5, <3>3, <3>4
      <4>2. RxDist(Undecided, Undecided) = 0
        BY <1>2, RxDistType
      <4>3. rdy'[Undecided]
        <5>1. CASE Undecided = rxPos
          BY <1>1, <1>2, <5>1
        <5>2. CASE Undecided # rxPos
          <6>1. n # 0
            BY <1>2, <1>4, <5>2, RxDistType
          <6>2. rdy[Undecided]
            BY <1>2, <1>4, <2>2, <4>2, <6>1
          <6>3. QED
            BY <1>1, <1>2, <5>2, <6>2
        <5>3. QED
          BY <5>1, <5>2
      <4>4. QED
        BY <3>1, <3>4, <4>1, <4>3, NRxAssumption
    <3>5. CASE n # NRx - 1
      BY <1>4, <1>5, <3>1, <3>3, <3>5
    <3>6. QED
      BY <3>4, <3>5
  <2>3. QED
    BY <2>1, <2>2
<1>7. /\ kind' \in RxKinds /\ kind'[rxPos] = k /\ RxForward(Undecided, n) = rxPos
      /\ n + 1 \in 0 .. NRx /\ b \in Buffers
  BY <1>1, <1>2, <1>4, KindsAssumption, NRxAssumption DEF RxKinds, RxBufs
<1>8. FramesOf(rxBuf, kind', Undecided, n) = FramesOf(rxBuf, kind, Undecided, n)
  <2>1. \A j \in RxIndex : RxDist(Undecided, j) < n => kind'[j] = kind[j]
    BY <1>1, <1>2, <1>4
  <2>2. QED
    BY <1>2, <1>7, <2>1, FramesSame
<1>9. fifoArrived' = Append(fifoArrived, [buf |-> b, kind |-> k])
  <2>1. fifoArrived' = FramesOf(rxBuf, kind', Undecided, n + 1)
    BY <1>1, <1>3, <1>6 DEF fifoArrived, FramesOf, RxForward
  <2>2. FrameAt(rxBuf, kind', RxForward(Undecided, n)) = [buf |-> b, kind |-> k]
    BY <1>7 DEF FrameAt
  <2>3. QED
    BY <1>2, <1>4, <1>7, <1>8, <2>1, <2>2, FramesLonger DEF fifoArrived
<1>10. /\ fifoArrived \in Seq(RxFrames) /\ Len(fifoArrived) = n
       /\ \A m \in 1 .. n : fifoArrived[m] = FrameAt(rxBuf, kind, RxForward(Undecided, m - 1))
  BY <1>2, FramesType DEF fifoArrived
<1>11. \A f \in RxQueue!ToSet(fifoArrived) : f.buf # b
  <2>1. SUFFICES ASSUME NEW m \in 1 .. n, fifoArrived[m].buf = b PROVE FALSE
    BY <1>10 DEF RxQueue!ToSet
  <2>2. m - 1 \in 0 .. NRx - 1 /\ m - 1 # n
    BY <1>4, NRxAssumption
  <2>3. /\ RxForward(Undecided, m - 1) \in RxIndex
        /\ RxDist(Undecided, RxForward(Undecided, m - 1)) = m - 1
    BY <1>2, <2>2, RxForwardDist
  <2>4. rxBuf[RxForward(Undecided, m - 1)] = b
    BY <1>10, <2>1 DEF FrameAt
  <2>5. RxForward(Undecided, m - 1) = rxPos
    BY <1>2, <2>3, <2>4 DEF RxInv, RxLedger, IsInjective, RxBufs
  <2>6. QED
    BY <1>4, <2>2, <2>3, <2>5
<1>12. b \notin RxQueue!ToSet(evQueue)
  <2>1. owner[b] = "rx"
    BY <1>1, <1>2 DEF RxInv, RxTypeOK, RxWork, RxLedger, Replaced, Busy
  <2>2. QED
    BY <1>7, <2>1 DEF RxInv, RxTypeOK, RxLedger, RxQueue!ToSet
<1>13. Len(fifoArrived) < NRx
  BY <1>4, <1>10, NRxAssumption
<1>14. RxQueue!Arrive(b, k)
  BY <1>1, <1>9, <1>11, <1>12, <1>13 DEF RxQueue!Arrive
<1>15. QED
  BY <1>7, <1>14

(* The fate of the frame at the front is decided: the driver turns to the  *)
(* next one, and the queue is one shorter.                                 *)
LEMMA DecideShortens ==
  ASSUME RxInv, InStepInv, NoEmptyFrame, ~Decided, rdy[Undecided], Decided',
         rxDesc' = RxSucc(Undecided), UNCHANGED <<rdy, kind, rxBuf, rxPos>>
  PROVE  /\ fifoArrived # <<>> /\ fifoArrived' = Tail(fifoArrived)
         /\ Head(fifoArrived) = FrameAt(rxBuf, kind, Undecided)
<1> DEFINE n == InRing
<1>1. /\ Undecided \in RxIndex /\ n \in 0 .. NRx
      /\ \A i \in RxIndex : rdy[i] <=> RxDist(Undecided, i) < n
      /\ rxPos \in RxIndex /\ rxBuf \in RxBufs /\ kind \in RxKinds
  BY RingIs
<1>2. n \in 1 .. NRx
  <2>1. RxDist(Undecided, Undecided) = 0
    BY <1>1, RxDistType
  <2>2. QED
    BY <1>1, <2>1, NRxAssumption
<1>3. Undecided' = RxSucc(Undecided)
  BY DEF Decided, Undecided
<1>4. InRing' = n - 1
  <2>1. InRing' = RxDist(RxSucc(Undecided), rxPos)
    BY <1>3 DEF InRing, RxDist
  <2>2. RxDist(RxSucc(Undecided), rxPos) = IF rxPos = Undecided THEN NRx - 1 ELSE RxDist(Undecided, rxPos) - 1
    BY <1>1, RxDistSuccLeft
  <2>3. n = IF rxPos = Undecided THEN NRx ELSE RxDist(Undecided, rxPos)
    BY DEF InRing
  <2>4. QED
    BY <2>1, <2>2, <2>3
<1>5. fifoArrived' = FramesOf(rxBuf, kind, RxSucc(Undecided), n - 1)
  BY <1>3, <1>4 DEF fifoArrived, FramesOf, RxForward
<1>6. QED
  BY <1>1, <1>2, <1>5, FramesShorter DEF fifoArrived

(* The abstract queue stays while what it is made of stays.                *)
LEMMA FramesStay ==
  ASSUME UNCHANGED <<rxBuf, kind, Undecided, InRing>>
  PROVE  UNCHANGED fifoArrived
BY DEF fifoArrived, FramesOf, RxForward

(* GiveBuffer: the descriptor being given back is behind the queue.        *)
LEMMA GiveBufferStays ==
  ASSUME RxInv, InStepInv, NoEmptyFrame, GiveBuffer
  PROVE  UNCHANGED fifoArrived
<1>1. /\ rxBuf' = IF newBuf # NoBuf THEN [rxBuf EXCEPT ![cur] = newBuf] ELSE rxBuf
      /\ inPc = "give" /\ inPc' = "ready"
      /\ UNCHANGED <<rdy, kind, rxDesc, rxPos, cur, evQueue>>
  BY DEF GiveBuffer
<1>2. /\ Undecided \in RxIndex /\ InRing \in 0 .. NRx - 1
      /\ InRing = RxDist(RxSucc(cur), rxPos)
      /\ cur \in RxIndex /\ rxBuf \in RxBufs /\ kind \in RxKinds
  BY <1>1, RingIs DEF Decided
<1>3. Undecided = RxSucc(cur) /\ UNCHANGED Undecided
  BY <1>1 DEF Undecided, InStepInv, Busy
<1>4. UNCHANGED InRing
  BY <1>1, <1>3 DEF InRing, RxDist, Decided
<1>5. rxBuf' \in RxBufs /\ \A j \in RxIndex : j # cur => rxBuf'[j] = rxBuf[j]
  BY <1>1, <1>2 DEF RxBufs, RxInv, RxTypeOK
<1>6. RxDist(RxSucc(cur), cur) = NRx - 1
  BY <1>2, RxDistSuccLeft
<1>7. \A j \in RxIndex : RxDist(Undecided, j) < InRing => rxBuf'[j] = rxBuf[j]
  BY <1>2, <1>3, <1>5, <1>6, NRxAssumption
<1>8. InRing \in 0 .. NRx
  BY <1>2, NRxAssumption
<1>9. FramesOf(rxBuf', kind, Undecided, InRing) = FramesOf(rxBuf, kind, Undecided, InRing)
  BY <1>2, <1>5, <1>7, <1>8, FramesSame
<1>10. fifoArrived' = FramesOf(rxBuf', kind, Undecided, InRing)
  BY <1>1, <1>3, <1>4 DEF fifoArrived, FramesOf, RxForward
<1>11. QED
  BY <1>9, <1>10 DEF fifoArrived

(* GiveDescriptor: the DMA engine may fill it again, behind the queue.     *)
LEMMA GiveDescriptorStays ==
  ASSUME RxInv, InStepInv, NoEmptyFrame, GiveDescriptor
  PROVE  UNCHANGED fifoArrived
<1>1. /\ rdy' = [rdy EXCEPT ![cur] = FALSE] /\ inPc = "ready" /\ inPc' = "look"
      /\ UNCHANGED <<rxBuf, kind, rxDesc, rxPos, cur>>
  BY DEF GiveDescriptor
<1>2. rxPos \in RxIndex /\ cur \in RxIndex /\ rdy \in [RxIndex -> BOOLEAN]
  BY RingIs
<1>3. Undecided = rxDesc /\ UNCHANGED Undecided /\ RxFirst = cur /\ rxDesc = RxSucc(cur)
  BY <1>1 DEF Undecided, RxFirst, InStepInv, Busy
<1>4. ~(rdy'[rxPos] /\ rxPos = rxDesc)
  <2>1. CASE rxPos = cur
    BY <1>1, <1>2, <2>1
  <2>2. CASE rxPos # cur
    <3>1. ~rdy[rxPos]
      BY <1>2, <1>3, <2>2, RxDistType DEF InStepInv, InStep
    <3>2. QED
      BY <1>1, <1>2, <2>2, <3>1
  <2>3. QED
    BY <2>1, <2>2
<1>5. UNCHANGED InRing
  BY <1>1, <1>3, <1>4 DEF InRing, RxDist, Decided
<1>6. QED
  BY <1>1, <1>3, <1>5, FramesStay

(* Every step of the receive side is one step of the lossy queue or leaves *)
(* it alone, until a frame of no bytes arrives.                            *)
LEMMA StepIsLossyStep ==
  ASSUME RxInv, InStepInv, GoodFrame, [RxNext]_rxVars
  PROVE  [RxQueue!Next]_<<fifoArrived, evQueue, NoEmptyFrame>>
<1>1. CASE ~NoEmptyFrame'
  BY <1>1 DEF RxQueue!Next
<1>2. CASE NoEmptyFrame'
  <2> DEFINE Move == (\E b \in Buffers, k \in Kinds : RxQueue!Arrive(b, k))
                     \/ RxQueue!Deliver \/ RxQueue!Drop \/ RxQueue!Post \/ RxQueue!Take
             Stay == UNCHANGED <<fifoArrived, evQueue>>
  <2>1. NoEmptyFrame
    BY <1>2, EmptyStays
  <2>2. SUFFICES Move \/ Stay
    <3>1. NoEmptyFrame' = NoEmptyFrame
      BY <1>2, <2>1, Zenon DEF NoEmptyFrame
    <3>2. ASSUME Move PROVE RxQueue!Next
      BY <1>2, <2>1, <3>2, Zenon DEF RxQueue!Next
    <3>3. ASSUME Stay PROVE UNCHANGED <<fifoArrived, evQueue, NoEmptyFrame>>
      BY <3>1, <3>3
    <3>4. QED
      BY <3>2, <3>3
  <2>3. ASSUME NEW k \in Kinds, DmaReceive(k) PROVE Move
    BY <2>1, <2>3, ReceiveArrives
  <2>4. CASE DrainStart \/ LookNone \/ GetNew
    <3>1. UNCHANGED <<rxBuf, kind, rdy, rxDesc, rxPos, cur, evQueue, Undecided, Decided>>
      BY <2>4 DEF DrainStart, LookNone, GetNew, rxRing, Undecided, Decided
    <3>2. UNCHANGED InRing
      BY <3>1 DEF InRing, RxDist
    <3>3. QED
      BY <3>1, <3>2, FramesStay
  <2>5. CASE LookEmpty
    BY <2>1, <2>5 DEF LookEmpty, NoEmptyFrame, RxInv, RxTypeOK
  <2>6. CASE LookFrame
    <3>1. /\ inPc = "look" /\ rdy[rxDesc] /\ cur' = rxDesc /\ rxDesc' = RxSucc(rxDesc)
          /\ inPc' = IF kind[rxDesc] = "good" THEN "get" ELSE "give"
          /\ UNCHANGED <<rdy, kind, rxBuf, rxPos, evQueue>>
      BY <2>6 DEF LookFrame
    <3>2. Undecided = rxDesc /\ ~Decided
      BY <3>1 DEF Undecided, Decided
    <3>3. CASE kind[rxDesc] = "good"
      <4>1. UNCHANGED Undecided /\ ~Decided'
        BY <3>1, <3>2, <3>3 DEF Undecided, Decided
      <4>2. UNCHANGED InRing
        BY <3>1, <3>2, <4>1 DEF InRing, RxDist
      <4>3. QED
        BY <3>1, <4>1, <4>2, FramesStay
    <3>4. CASE kind[rxDesc] # "good"
      <4>1. Decided'
        BY <3>1, <3>4 DEF Decided
      <4>2. fifoArrived # <<>> /\ fifoArrived' = Tail(fifoArrived)
        BY <2>1, <3>1, <3>2, <4>1, DecideShortens
      <4>3. QED
        BY <3>1, <4>2 DEF RxQueue!Drop
    <3>5. QED
      BY <3>3, <3>4
  <2>7. CASE GetTimeout \/ SendEvent \/ SendTimeout
    <3>1. /\ inPc \in {"get", "send"} /\ inPc' = "give" /\ rdy[cur] /\ rxDesc = RxSucc(cur)
          /\ kind[cur] = "good"
          /\ UNCHANGED <<rdy, kind, rxBuf, rxDesc, rxPos, cur>>
      BY <2>7 DEF GetTimeout, SendEvent, SendTimeout, rxRing, RxInv, RxWork, InStepInv, Busy, GoodFrame
    <3>2. Undecided = cur /\ ~Decided /\ Decided'
      BY <3>1 DEF Undecided, Decided
    <3>3. /\ fifoArrived # <<>> /\ fifoArrived' = Tail(fifoArrived)
          /\ Head(fifoArrived) = FrameAt(rxBuf, kind, cur)
      BY <2>1, <3>1, <3>2, DecideShortens
    <3>4. CASE SendEvent
      <4>1. Head(fifoArrived).kind = "good" /\ Head(fifoArrived).buf = rxBuf[cur]
        BY <3>1, <3>3 DEF FrameAt
      <4>2. evQueue' = Append(evQueue, rxBuf[cur])
        BY <3>4 DEF SendEvent
      <4>3. QED
        BY <3>3, <4>1, <4>2 DEF RxQueue!Deliver
    <3>5. CASE GetTimeout \/ SendTimeout
      BY <3>3, <3>5 DEF RxQueue!Drop, GetTimeout, SendTimeout
    <3>6. QED
      BY <2>7, <3>4, <3>5
  <2>8. CASE GiveBuffer
    BY <2>1, <2>8, GiveBufferStays DEF GiveBuffer
  <2>9. CASE GiveDescriptor
    BY <2>1, <2>9, GiveDescriptorStays DEF GiveDescriptor
  <2>10. CASE IpTake \/ OtherEvent \/ (\E b \in Buffers : RxOthersMove(b)) \/ UNCHANGED rxVars
    <3>1. UNCHANGED <<rxBuf, kind, rdy, rxDesc, rxPos, cur, Undecided, Decided>>
      BY <2>10 DEF IpTake, OtherEvent, RxOthersMove, rxVars, rxRing, inVars, Undecided, Decided
    <3>2. UNCHANGED InRing
      BY <3>1 DEF InRing, RxDist
    <3>3. UNCHANGED fifoArrived
      BY <3>1, <3>2, FramesStay
    <3>4. QED
      BY <2>10, <3>3 DEF IpTake, OtherEvent, RxOthersMove, rxVars, RxQueue!Take, RxQueue!Post
  <2>11. QED
    BY <2>3, <2>4, <2>5, <2>6, <2>7, <2>8, <2>9, <2>10 DEF RxNext, Input
<1>3. QED
  BY <1>1, <1>2

LEMMA LossyInitial ==
  RxInit => GoodFrame /\ fifoArrived = <<>> /\ evQueue = <<>> /\ NoEmptyFrame = TRUE
<1> SUFFICES ASSUME RxInit
             PROVE  GoodFrame /\ fifoArrived = <<>> /\ evQueue = <<>> /\ NoEmptyFrame = TRUE
  OBVIOUS
<1>1. /\ Undecided = 0 /\ rxPos = 0 /\ 0 \in RxIndex /\ \A i \in RxIndex : ~rdy[i]
      /\ rxBuf \in RxBufs /\ kind \in RxKinds
  BY NRxAssumption DEF RxInit, RxIndex, Undecided, RxBufs, RxKinds, FrameKinds
<1>2. InRing = 0 /\ 0 \in 0 .. NRx
  BY <1>1, NRxAssumption, RxDistType DEF InRing
<1>3. fifoArrived \in Seq(RxFrames) /\ Len(fifoArrived) = 0
  BY <1>1, <1>2, FramesType DEF fifoArrived
<1>4. fifoArrived = <<>>
  BY <1>3, EmptySeq
<1>5. NoEmptyFrame = TRUE
  BY <1>1 DEF NoEmptyFrame
<1>6. QED
  BY <1>4, <1>5 DEF GoodFrame, RxInit

(* The receive side, whatever the sizes of the ring and of the event queue *)
(* and however the DMA engine, the EMAC task and the IP task interleave,   *)
(* is a queue that may lose frames: until a frame of no bytes arrives, the *)
(* stack gets each accepted frame at most once, in the order of arrival,   *)
(* in the buffer it was received into, and never one that was refused.     *)
THEOREM RxImplements == RxSpec => RxImplementsFifo
<1> DEFINE Inv == RxInv /\ InStepInv /\ GoodFrame
<1>1. RxInit => Inv
  BY RxInvInitial, InStepInitial, LossyInitial
<1>2. Inv /\ [RxNext]_rxVars => Inv'
  BY RxInvStep, InStepStep, GoodFrameStep
<1>3. Inv /\ [RxNext]_rxVars => [RxQueue!Next]_<<fifoArrived, evQueue, NoEmptyFrame>>
  BY StepIsLossyStep
<1>4. QED
  BY <1>1, <1>2, <1>3, LossyInitial, PTL DEF RxSpec, RxImplementsFifo, RxQueue!Spec
=============================================================================
