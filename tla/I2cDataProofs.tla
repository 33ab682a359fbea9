----------------------------- MODULE I2cDataProofs -----------------------------
(***************************************************************************)
(* Machine-checked theorems about the I2C master that relate the bytes of  *)
(* a call to the bus and to the caller's buffer.                           *)
(*                                                                         *)
(* I2cInv (in I2cMaster) says where the byte that is waited for is.  Here  *)
(* it is strengthened by what the byte finds and leaves: the direction and *)
(* the hold of the bus (BusAfter), its answer in SR or in dev->status      *)
(* (AnswerHeld), the cells read so far (Collected), and for a burst how    *)
(* the bytes are split among FIFO, gData_buf and the caller's buffer       *)
(* (BurstInv).  All of it rests on the shape of the byte sequences that    *)
(* the functions of I2C.c produce (ScriptShape).                           *)
(***************************************************************************)
EXTENDS I2cMasterProofs, SequenceTheorems

-----------------------------------------------------------------------------
(* The bytes of a call.                                                    *)

ReadSide  == ReadKinds \cup {"raddr"}
WriteSide == WriteKinds \cup {"waddr"}

(* A byte of kind k may come after one of kind j: it keeps the direction,  *)
(* and, if framed, does not follow a STOP unless it is an address.         *)
Follows(j, k, framed) ==
  /\ k # "hs"
  /\ k \in ReadKinds => j \in ReadSide
  /\ k \in WriteKinds => j \in WriteSide
  /\ framed /\ j \in StopKinds => k \in AddressKinds

(* The bytes s follow each other so, from one of the kinds F to one of L.  *)
Chain(s, F, L, framed) ==
  /\ s \in Seq(ByteSet) /\ s # <<>>
  /\ s[1].kind \in F /\ s[Len(s)].kind \in L
  /\ \A p \in 2 .. Len(s) : Follows(s[p - 1].kind, s[p].kind, framed)
  /\ \A p \in 1 .. Len(s) :
       s[p].kind \notin BurstKinds /\ (s[p].kind \in ReadKinds => s[p].n \in Cells)

(* There is a byte to be read for each of num cells.                       *)
Covers(s, num) ==
  \A i \in 1 .. num : \E p \in 1 .. Len(s) : s[p].kind \in ReadKinds /\ s[p].n = i

(* I2C_MasterReceive with a 16-bit index is not framed.                    *)
IsFramed(c) == ~(c.fn = "receive" /\ mode = 2)

Shape(s, c) ==
  /\ Chain(s, {"hs", "waddr"}, ByteKinds, IsFramed(c))
  /\ c.fn # "transfer" => Covers(s, c.num)

LEMMA ByteInSet ==
  ASSUME NEW k \in ByteKinds, NEW n \in 0 .. MaxNum + 2
  PROVE  Byte(k, n) \in ByteSet /\ Byte(k, n).kind = k /\ Byte(k, n).n = n
BY DEF Byte, ByteSet

LEMMA ChainJoined ==
  ASSUME NEW s, NEW t, NEW F, NEW L, NEW M, NEW N, NEW framed \in BOOLEAN,
         Chain(s, F, L, framed), Chain(t, M, N, framed),
         \A j \in L, k \in M : Follows(j, k, framed)
  PROVE  Chain(s \o t, F, N, framed)
<1>1. s \in Seq(ByteSet) /\ t \in Seq(ByteSet) /\ Len(s) \in Nat \ {0} /\ Len(t) \in Nat \ {0}
  BY EmptySeq DEF Chain
<1>2. /\ s \o t \in Seq(ByteSet) /\ Len(s \o t) = Len(s) + Len(t)
      /\ \A p \in 1 .. Len(s) + Len(t) :
           (s \o t)[p] = IF p <= Len(s) THEN s[p] ELSE t[p - Len(s)]
  BY <1>1, ConcatProperties
<1>3. s \o t # <<>> /\ (s \o t)[1] = s[1] /\ (s \o t)[Len(s \o t)] = t[Len(t)]
  BY <1>1, <1>2, EmptySeq
<1>4. ASSUME NEW p \in 2 .. Len(s) + Len(t)
      PROVE  Follows((s \o t)[p - 1].kind, (s \o t)[p].kind, framed)
  <2>1. CASE p <= Len(s)
    BY <1>1, <1>2, <2>1 DEF Chain
  <2>2. CASE p = Len(s) + 1
    <3>1. (s \o t)[p - 1] = s[Len(s)] /\ (s \o t)[p] = t[1]
      BY <1>1, <1>2, <2>2
    <3>2. QED
      BY <3>1 DEF Chain
  <2>3. CASE p > Len(s) + 1
    <3>1. (s \o t)[p - 1] = t[p - Len(s) - 1] /\ (s \o t)[p] = t[p - Len(s)]
      BY <1>1, <1>2, <2>3
    <3>2. p - Len(s) \in 2 .. Len(t)
      BY <1>1, <2>3
    <3>3. QED
      BY <3>1, <3>2 DEF Chain
  <2>4. QED
    BY <1>1, <2>1, <2>2, <2>3
<1>5. \A p \in 1 .. Len(s) + Len(t) :
        \/ \E q \in 1 .. Len(s) : (s \o t)[p] = s[q]
        \/ \E q \in 1 .. Len(t) : (s \o t)[p] = t[q]
  BY <1>1, <1>2
<1>6. QED
  BY <1>2, <1>3, <1>4, <1>5 DEF Chain

LEMMA CoversJoined ==
  ASSUME NEW s \in Seq(ByteSet), NEW t \in Seq(ByteSet), NEW num,
         Covers(s, num) \/ Covers(t, num)
  PROVE  Covers(s \o t, num)
<1>1. Len(s) \in Nat /\ Len(t) \in Nat
  BY LenProperties
<1>2. /\ Len(s \o t) = Len(s) + Len(t)
      /\ \A q \in 1 .. Len(s) : (s \o t)[q] = s[q]
      /\ \A q \in 1 .. Len(t) : (s \o t)[Len(s) + q] = t[q]
  BY <1>1, ConcatProperties
<1>3. ASSUME NEW i \in 1 .. num
      PROVE  \E p \in 1 .. Len(s) + Len(t) : (s \o t)[p].kind \in ReadKinds /\ (s \o t)[p].n = i
  <2>1. CASE Covers(s, num)
    <3>1. PICK q \in 1 .. Len(s) : s[q].kind \in ReadKinds /\ s[q].n = i
      BY <2>1 DEF Covers
    <3>2. QED
      BY <1>1, <1>2, <3>1
  <2>2. CASE Covers(t, num)
    <3>1. PICK q \in 1 .. Len(t) : t[q].kind \in ReadKinds /\ t[q].n = i
      BY <2>2 DEF Covers
    <3>2. Len(s) + q \in 1 .. Len(s) + Len(t)
      BY <1>1
    <3>3. QED
      BY <1>2, <3>1, <3>2
  <2>3. QED
    BY <2>1, <2>2
<1>4. QED
  BY <1>2, <1>3 DEF Covers

(* The pieces that the functions put together.                             *)
LEMMA OneByteChain ==
  ASSUME NEW k \in ByteKinds \ (ReadKinds \cup BurstKinds), NEW framed \in BOOLEAN
  PROVE  Chain(<<Byte(k, 0)>>, {k}, {k}, framed)
<1>1. Byte(k, 0) \in ByteSet /\ Byte(k, 0).kind = k
  BY ByteInSet, I2cAssumption
<1>2. QED
  BY <1>1 DEF Chain

LEMMA AddressChain ==
  ASSUME NEW framed \in BOOLEAN
  PROVE  Chain(HsCode \o <<Byte("waddr", 0)>>, {"hs", "waddr"}, {"waddr"}, framed)
<1> DEFINE a == <<Byte("waddr", 0)>>
<1>1. Chain(a, {"waddr"}, {"waddr"}, framed)
  BY OneByteChain DEF ByteKinds, AddressKinds, ReadKinds, BurstKinds
<1>2. CASE hs
  <2>1. Chain(HsCode, {"hs"}, {"hs"}, framed)
    BY <1>2, OneByteChain DEF HsCode, ByteKinds, AddressKinds, ReadKinds, BurstKinds
  <2>2. Follows("hs", "waddr", framed)
    BY DEF Follows, ReadKinds, WriteKinds, StopKinds
  <2> HIDE DEF a
  <2>3. Chain(HsCode \o a, {"hs"}, {"waddr"}, framed)
    BY <1>1, <2>1, <2>2, ChainJoined
  <2>4. QED
    BY <2>3 DEF Chain, a
<1>3. CASE ~hs
  <2>1. HsCode \o a = a
    BY <1>1, <1>3, ConcatEmptySeq DEF HsCode, Chain
  <2>2. QED
    BY <1>1, <2>1 DEF Chain
<1>4. QED
  BY <1>2, <1>3

(* The index bytes, of the kind first and then all of the kind "index".    *)
IndexFrom(first) == [i \in 1 .. mode |-> Byte(IF i = 1 THEN first ELSE "index", i)]

LEMMA IndexChain ==
  ASSUME mode \in 1 .. 2, NEW first \in {"index", "indexStop"}, NEW framed \in BOOLEAN,
         framed => first = "index" \/ mode = 1
  PROVE  Chain(IndexFrom(first), {first}, {first, "index"}, framed)
<1> DEFINE s == IndexFrom(first)
<1>1. \A p \in 1 .. mode : s[p] \in ByteSet /\ s[p].kind = IF p = 1 THEN first ELSE "index"
  BY ByteInSet, I2cAssumption DEF ByteKinds, WriteKinds, IndexFrom
<1>2. s \in Seq(ByteSet) /\ Len(s) = mode
  <2>1. s \in [1 .. mode -> ByteSet]
    BY <1>1 DEF IndexFrom
  <2>2. QED
    BY <2>1
<1> HIDE DEF s
<1>3. \A p \in 2 .. mode : Follows(s[p - 1].kind, s[p].kind, framed)
  BY <1>1 DEF Follows, ReadKinds, WriteKinds, WriteSide, StopKinds
<1>4. Chain(s, {first}, {first, "index"}, framed)
  BY <1>1, <1>2, <1>3, EmptySeq DEF Chain, ReadKinds, BurstKinds
<1>5. QED
  BY <1>4 DEF s

LEMMA IndexIsFrom == Index = IndexFrom("index")
BY DEF Index, IndexFrom

LEMMA ReadsChain ==
  ASSUME NEW num \in 1 .. MaxNum, NEW last \in {"readStop", "readNack"}, NEW framed \in BOOLEAN
  PROVE  Chain(Reads(num, last), {"read", last}, {last}, framed) /\ Covers(Reads(num, last), num)
<1> DEFINE s == Reads(num, last)
<1>1. \A p \in 1 .. num :
        s[p] \in ByteSet /\ s[p].kind = (IF p = num THEN last ELSE "read") /\ s[p].n = p
  BY ByteInSet, I2cAssumption DEF Reads, ByteKinds, ReadKinds
<1>2. s \in Seq(ByteSet) /\ Len(s) = num
  <2>1. s \in [1 .. num -> ByteSet]
    BY <1>1 DEF Reads
  <2>2. QED
    BY <2>1, I2cAssumption
<1> HIDE DEF s
<1>3. \A p \in 2 .. num : Follows(s[p - 1].kind, s[p].kind, framed)
  <2>1. \A p \in 2 .. num : s[p - 1].kind = "read" /\ s[p].kind \in ReadKinds
    BY <1>1, I2cAssumption DEF ReadKinds
  <2>2. QED
    BY <2>1 DEF Follows, ReadKinds, WriteKinds, ReadSide, StopKinds
<1>4. Chain(s, {"read", last}, {last}, framed)
  BY <1>1, <1>2, <1>3, EmptySeq, I2cAssumption DEF Chain, ReadKinds, BurstKinds, Cells
<1>5. Covers(s, num)
  BY <1>1, <1>2 DEF Covers, ReadKinds
<1>6. QED
  BY <1>4, <1>5 DEF s

LEMMA WritesChain ==
  ASSUME NEW num \in 1 .. MaxNum, NEW framed \in BOOLEAN
  PROVE  Chain(Writes(num), {"data", "dataStop"}, {"dataStop"}, framed)
<1> DEFINE s == Writes(num)
<1>1. \A p \in 1 .. num :
        s[p] \in ByteSet /\ s[p].kind = IF p = num THEN "dataStop" ELSE "data"
  BY ByteInSet, I2cAssumption DEF Writes, ByteKinds, WriteKinds
<1>2. s \in Seq(ByteSet) /\ Len(s) = num
  <2>1. s \in [1 .. num -> ByteSet]
    BY <1>1 DEF Writes
  <2>2. QED
    BY <2>1, I2cAssumption
<1> HIDE DEF s
<1>3. \A p \in 2 .. num : Follows(s[p - 1].kind, s[p].kind, framed)
  <2>1. \A p \in 2 .. num : s[p - 1].kind = "data" /\ s[p].kind \in {"data", "dataStop"}
    BY <1>1, I2cAssumption
  <2>2. QED
    BY <2>1 DEF Follows, ReadKinds, WriteKinds, WriteSide, StopKinds
<1>4. Chain(s, {"data", "dataStop"}, {"dataStop"}, framed)
  BY <1>1, <1>2, <1>3, EmptySeq, I2cAssumption DEF Chain, ReadKinds, BurstKinds
<1>5. QED
  BY <1>4 DEF s

(* An address and the index, which may have no byte.                       *)
LEMMA IndexedChain ==
  ASSUME mode \in 0 .. 2, NEW s, NEW F, NEW first \in {"index", "indexStop"},
         NEW framed \in BOOLEAN, framed => first = "index" \/ mode \in 0 .. 1,
         Chain(s, F, {"waddr"}, framed)
  PROVE  /\ Chain(s \o IndexFrom(first), F, {"waddr", first, "index"}, framed)
         /\ IndexFrom(first) \in Seq(ByteSet)
<1>1. CASE mode = 0
  <2>1. IndexFrom(first) = <<>>
    BY <1>1 DEF IndexFrom
  <2>2. s \o IndexFrom(first) = s
    BY <2>1, ConcatEmptySeq DEF Chain
  <2>3. Chain(s, F, {"waddr", first, "index"}, framed)
    BY DEF Chain
  <2>4. QED
    BY <2>1, <2>2, <2>3
<1>2. CASE mode # 0
  <2>1. Chain(IndexFrom(first), {first}, {first, "index"}, framed)
    BY <1>2, IndexChain
  <2>2. \A j \in {"waddr"}, k \in {first} : Follows(j, k, framed)
    BY DEF Follows, ReadKinds, WriteKinds, WriteSide, StopKinds
  <2>3. Chain(s \o IndexFrom(first), F, {first, "index"}, framed)
    BY <2>1, <2>2, ChainJoined
  <2>4. QED
    BY <2>1, <2>3 DEF Chain
<1>3. QED
  BY <1>1, <1>2

LEMMA IndexAfterAddress ==
  ASSUME mode \in 0 .. 2, NEW s, NEW F, NEW framed \in BOOLEAN, Chain(s, F, {"waddr"}, framed)
  PROVE  Chain(s \o Index, F, {"waddr", "index"}, framed) /\ Index \in Seq(ByteSet)
<1>1. /\ Chain(s \o Index, F, {"waddr", "index", "index"}, framed)
      /\ Index \in Seq(ByteSet)
  BY IndexedChain, IndexIsFrom
<1>2. {"waddr", "index", "index"} = {"waddr", "index"}
  OBVIOUS
<1>3. QED
  BY <1>1, <1>2

(* What may come after an address or an index.                             *)
LEMMA AfterAddress ==
  ASSUME NEW framed \in BOOLEAN
  PROVE  /\ \A j \in {"waddr"}, k \in {"probe"} : Follows(j, k, framed)
         /\ \A j \in {"waddr", "index"}, k \in {"data", "dataStop"} : Follows(j, k, framed)
         /\ \A j \in {"waddr", "index"}, k \in {"raddr"} : Follows(j, k, framed)
         /\ \A j \in {"raddr"}, k \in {"read", "readStop"} : Follows(j, k, framed)
         /\ \A j \in {"raddr"}, k \in {"read", "readNack"} : Follows(j, k, framed)
         /\ \A j \in {"readNack"}, k \in {"waddr"} : Follows(j, k, framed)
BY DEF Follows, ReadKinds, WriteKinds, ReadSide, WriteSide, StopKinds, AddressKinds

LEMMA TransferShape ==
  ASSUME mode \in 0 .. 2, NEW num \in 1 .. MaxNum, NEW framed \in BOOLEAN
  PROVE  Chain(Transfer(num), {"hs", "waddr"}, {"dataStop"}, framed)
<1> DEFINE a == HsCode \o <<Byte("waddr", 0)>>
           b == a \o Index
<1>1. Chain(a, {"hs", "waddr"}, {"waddr"}, framed)
  BY AddressChain
<1>2. Chain(b, {"hs", "waddr"}, {"waddr", "index"}, framed)
  <2> HIDE DEF a
  <2>1. QED
    BY <1>1, IndexAfterAddress
<1>3. Transfer(num) = b \o Writes(num)
  BY DEF Transfer
<1> HIDE DEF b
<1>4. QED
  BY <1>2, <1>3, WritesChain, AfterAddress, ChainJoined

(* The read of a random address, which two functions begin with: address,  *)
(* index, the address again to read, and the bytes.                        *)
LEMMA RandomReadShape ==
  ASSUME mode \in 0 .. 2, NEW num \in 1 .. MaxNum, NEW last \in {"readStop", "readNack"},
         NEW framed \in BOOLEAN
  PROVE  LET s == ((<<Byte("waddr", 0)>> \o Index) \o <<Byte("raddr", 0)>>) \o Reads(num, last)
         IN  Chain(s, {"waddr"}, {last}, framed) /\ Covers(s, num)
<1> DEFINE a == <<Byte("waddr", 0)>>
           r == <<Byte("raddr", 0)>>
           b == a \o Index
           c == b \o r
<1>1. Chain(a, {"waddr"}, {"waddr"}, framed) /\ Chain(r, {"raddr"}, {"raddr"}, framed)
  BY OneByteChain DEF ByteKinds, AddressKinds, ReadKinds, BurstKinds
<1>2. Chain(b, {"waddr"}, {"waddr", "index"}, framed)
  <2> HIDE DEF a
  <2>1. QED
    BY <1>1, IndexAfterAddress
<1>3. Chain(c, {"waddr"}, {"raddr"}, framed)
  <2> HIDE DEF b, r
  <2>1. QED
    BY <1>1, <1>2, AfterAddress, ChainJoined
<1> HIDE DEF c
<1>4. Chain(Reads(num, last), {"read", last}, {last}, framed) /\ Covers(Reads(num, last), num)
  BY ReadsChain
<1>5. \A j \in {"raddr"}, k \in {"read", last} : Follows(j, k, framed)
  BY AfterAddress
<1>6. Chain(c \o Reads(num, last), {"waddr"}, {last}, framed)
  BY <1>3, <1>4, <1>5, ChainJoined
<1>7. Covers(c \o Reads(num, last), num)
  <2>1. c \in Seq(ByteSet) /\ Reads(num, last) \in Seq(ByteSet)
    BY <1>3, <1>4 DEF Chain
  <2>2. QED
    BY <1>4, <2>1, CoversJoined
<1>8. QED
  BY <1>6, <1>7 DEF c

LEMMA EepromShape ==
  ASSUME mode \in 0 .. 2, NEW num \in 1 .. MaxNum, NEW framed \in BOOLEAN
  PROVE  /\ Chain(CombinedEeprom(num), {"waddr"}, {"readStop"}, framed)
         /\ Covers(CombinedEeprom(num), num)
BY RandomReadShape DEF CombinedEeprom

LEMMA CombinedShape ==
  ASSUME mode \in 0 .. 2, NEW num \in 1 .. MaxNum, NEW framed \in BOOLEAN
  PROVE  /\ Chain(Combined(num), {"waddr"}, {"dataStop"}, framed)
         /\ Covers(Combined(num), num)
<1> DEFINE a == <<Byte("waddr", 0)>>
           d == ((a \o Index) \o <<Byte("raddr", 0)>>) \o Reads(num, "readNack")
           e == d \o a
           f == e \o Index
<1>1. Chain(a, {"waddr"}, {"waddr"}, framed)
  BY OneByteChain DEF ByteKinds, AddressKinds, ReadKinds, BurstKinds
<1>2. Chain(d, {"waddr"}, {"readNack"}, framed) /\ Covers(d, num)
  BY RandomReadShape
<1>3. Combined(num) = f \o Writes(num)
  BY DEF Combined
<1>4. Chain(e, {"waddr"}, {"waddr"}, framed)
  <2> HIDE DEF d, a
  <2>1. QED
    BY <1>1, <1>2, AfterAddress, ChainJoined
<1>5. Chain(f, {"waddr"}, {"waddr", "index"}, framed) /\ Index \in Seq(ByteSet)
  <2> HIDE DEF e
  <2>1. QED
    BY <1>4, IndexAfterAddress
<1>6. Covers(f, num)
  <2> HIDE DEF d, a
  <2>1. d \in Seq(ByteSet) /\ a \in Seq(ByteSet) /\ e \in Seq(ByteSet)
    BY <1>1, <1>2, <1>4 DEF Chain
  <2>2. Covers(e, num)
    BY <1>2, <2>1, CoversJoined
  <2> HIDE DEF e
  <2>3. QED
    BY <1>5, <2>1, <2>2, CoversJoined
<1> HIDE DEF f
<1>7. Chain(Writes(num), {"data", "dataStop"}, {"dataStop"}, framed)
  BY WritesChain
<1>8. Chain(f \o Writes(num), {"waddr"}, {"dataStop"}, framed)
  BY <1>5, <1>7, AfterAddress, ChainJoined
<1>9. Covers(f \o Writes(num), num)
  BY <1>5, <1>6, <1>7, CoversJoined DEF Chain
<1>10. QED
  BY <1>3, <1>8, <1>9

(* The index of I2C_MasterReceive, and the address to read that follows.   *)
LEMMA IndexThenAddress ==
  ASSUME mode \in 0 .. 2, NEW framed \in BOOLEAN, framed => mode # 2
  PROVE  Chain(IndexFrom("indexStop") \o <<Byte("raddr", 0)>>, {"indexStop", "raddr"}, {"raddr"}, framed)
<1> DEFINE i == IndexFrom("indexStop")
           r == <<Byte("raddr", 0)>>
<1>1. Chain(r, {"raddr"}, {"raddr"}, framed)
  BY OneByteChain DEF ByteKinds, AddressKinds, ReadKinds, BurstKinds
<1>2. CASE mode = 0
  <2>1. i = <<>>
    BY <1>2 DEF IndexFrom
  <2>2. i \o r = r
    BY <1>1, <2>1, ConcatEmptySeq DEF Chain
  <2>3. Chain(r, {"indexStop", "raddr"}, {"raddr"}, framed)
    BY <1>1 DEF Chain
  <2>4. QED
    BY <2>2, <2>3
<1>3. CASE mode # 0
  <2>1. Chain(i, {"indexStop"}, {"indexStop", "index"}, framed)
    BY <1>3, IndexChain
  <2>2. \A j \in {"indexStop", "index"}, k \in {"raddr"} : Follows(j, k, framed)
    BY DEF Follows, ReadKinds, WriteKinds, AddressKinds
  <2> HIDE DEF i, r
  <2>3. Chain(i \o r, {"indexStop"}, {"raddr"}, framed)
    BY <1>1, <2>1, <2>2, ChainJoined
  <2>4. Chain(i \o r, {"indexStop", "raddr"}, {"raddr"}, framed)
    BY <2>3 DEF Chain
  <2>5. QED
    BY <2>4 DEF i, r
<1>4. QED
  BY <1>2, <1>3

LEMMA ReceiveShape ==
  ASSUME mode \in 0 .. 2, NEW num \in 0 .. MaxNum, NEW framed \in BOOLEAN, framed => mode # 2
  PROVE  /\ Chain(Receive(num), {"hs", "waddr"}, {"probe", "readStop"}, framed)
         /\ Covers(Receive(num), num)
<1> DEFINE a == HsCode \o <<Byte("waddr", 0)>>
<1>1. Chain(a, {"hs", "waddr"}, {"waddr"}, framed)
  BY AddressChain
<1>2. CASE num = 0
  <2> DEFINE z == <<Byte("probe", 0)>>
  <2>1. Chain(z, {"probe"}, {"probe"}, framed)
    BY OneByteChain DEF ByteKinds, WriteKinds, ReadKinds, BurstKinds
  <2>2. Receive(num) = a \o z
    BY <1>2 DEF Receive
  <2> HIDE DEF a, z
  <2>3. Chain(a \o z, {"hs", "waddr"}, {"probe"}, framed)
    BY <1>1, <2>1, AfterAddress, ChainJoined
  <2>4. Chain(a \o z, {"hs", "waddr"}, {"probe", "readStop"}, framed)
    BY <2>3 DEF Chain
  <2>5. Covers(a \o z, num)
    BY <1>2 DEF Covers
  <2>6. QED
    BY <2>2, <2>4, <2>5
<1>3. CASE num # 0
  <2> DEFINE i == IndexFrom("indexStop") \o <<Byte("raddr", 0)>>
             r == Reads(num, "readStop")
             z == i \o r
  <2>1. Receive(num) = a \o z
    BY <1>3 DEF Receive, IndexFrom
  <2>2. Chain(i, {"indexStop", "raddr"}, {"raddr"}, framed)
    BY IndexThenAddress
  <2>3. Chain(r, {"read", "readStop"}, {"readStop"}, framed) /\ Covers(r, num)
    BY <1>3, ReadsChain, I2cAssumption
  <2> HIDE DEF i, r
  <2>4. Chain(z, {"indexStop", "raddr"}, {"readStop"}, framed)
    BY <2>2, <2>3, AfterAddress, ChainJoined
  <2>5. Covers(z, num)
    BY <2>2, <2>3, CoversJoined DEF Chain
  <2> HIDE DEF a, z
  <2>6. \A j \in {"waddr"}, k \in {"indexStop", "raddr"} : Follows(j, k, framed)
    BY DEF Follows, ReadKinds, WriteKinds, WriteSide, StopKinds
  <2>7. Chain(a \o z, {"hs", "waddr"}, {"readStop"}, framed)
    BY <1>1, <2>4, <2>6, ChainJoined
  <2>8. Chain(a \o z, {"hs", "waddr"}, {"probe", "readStop"}, framed)
    BY <2>7 DEF Chain
  <2>9. Covers(a \o z, num)
    BY <1>1, <2>4, <2>5, CoversJoined DEF Chain
  <2>10. QED
    BY <2>1, <2>8, <2>9
<1>4. QED
  BY <1>2, <1>3

(* Every call but the bursts, whatever the length, the address mode and    *)
(* the speed, has bytes of this shape.                                     *)
LEMMA ScriptShape ==
  ASSUME mode \in 0 .. 2, NEW c \in Calls, c.fn \notin BurstKinds
  PROVE  Shape(Script(c), c)
<1> DEFINE framed == IsFramed(c)
<1>1. /\ c.num \in 0 .. MaxNum /\ framed \in BOOLEAN
      /\ c.fn \in {"receive", "transfer", "eeprom", "combined"}
      /\ c.fn # "receive" => c.num \in 1 .. MaxNum
      /\ Script(c) = BytesOf(c)
  BY I2cAssumption DEF Calls, BurstKinds, IsFramed, Script
<1>2. CASE c.fn = "receive"
  <2>1. framed => mode # 2
    BY <1>2 DEF IsFramed
  <2>2. Script(c) = Receive(c.num)
    BY <1>1, <1>2 DEF BytesOf
  <2> HIDE DEF framed
  <2>3. Chain(Script(c), {"hs", "waddr"}, {"probe", "readStop"}, framed) /\ Covers(Script(c), c.num)
    BY <1>1, <2>1, <2>2, ReceiveShape
  <2>4. QED
    BY <2>3 DEF Chain, Shape, ByteKinds, WriteKinds, ReadKinds, framed
<1>3. CASE c.fn = "transfer"
  <2>1. Script(c) = Transfer(c.num)
    BY <1>1, <1>3 DEF BytesOf
  <2> HIDE DEF framed
  <2>2. Chain(Script(c), {"hs", "waddr"}, {"dataStop"}, framed)
    BY <1>1, <1>3, <2>1, TransferShape
  <2>3. QED
    BY <1>3, <2>2 DEF Chain, Shape, ByteKinds, WriteKinds, framed
<1>4. CASE c.fn = "eeprom"
  <2>1. Script(c) = CombinedEeprom(c.num)
    BY <1>1, <1>4 DEF BytesOf
  <2> HIDE DEF framed
  <2>2. Chain(Script(c), {"waddr"}, {"readStop"}, framed) /\ Covers(Script(c), c.num)
    BY <1>1, <1>4, <2>1, EepromShape
  <2>3. QED
    BY <2>2 DEF Chain, Shape, ByteKinds, ReadKinds, framed
<1>5. CASE c.fn = "combined"
  <2>1. Script(c) = Combined(c.num)
    BY <1>1, <1>5 DEF BytesOf
  <2> HIDE DEF framed
  <2>2. Chain(Script(c), {"waddr"}, {"dataStop"}, framed) /\ Covers(Script(c), c.num)
    BY <1>1, <1>5, <2>1, CombinedShape
  <2>3. QED
    BY <2>2 DEF Chain, Shape, ByteKinds, WriteKinds, framed
<1>6. QED
  BY <1>1, <1>2, <1>3, <1>4, <1>5

-----------------------------------------------------------------------------
(* Types.  Between calls nothing is left of the last one, so that a call   *)
(* and the settings in force, which both change there, agree on its bytes. *)

(* The types of what only the caller changes.                              *)
CallerTypes ==
  /\ irq \in BOOLEAN /\ mode \in 0 .. 2 /\ hs \in BOOLEAN
  /\ pc \in {"idle", "busy", "setup", "clear", "write", "wait", "td", "stop", "return"}
  /\ call \in Calls /\ ret \in {"none", "count", "error"}
  /\ script = Script(call) /\ pos \in 1 .. Len(script)
  /\ buf \in [Cells -> Nat] /\ ie \subseteq Bits
  /\ bstmr \in [thr : 0 .. MaxNum, total : 0 .. MaxNum]

(* And of what the hardware and the handler change too.                    *)
HardwareTypes ==
  /\ status \subseteq SrBits /\ sr \subseteq Bits
  /\ gdata \in [Cells -> Nat] /\ fifo \in Seq(Nat) /\ dr \in Nat
  /\ cmd = NoCmd \/ cmd \in [at : Nat, byte : ByteSet, moved : 0 .. MaxNum]
  /\ owned \in BOOLEAN /\ other \in BOOLEAN /\ rw \in BOOLEAN
  /\ acked \subseteq 1 .. Len(script) /\ clean \in BOOLEAN
  /\ cmd.at \in 0 .. Len(script)

BetweenCalls == pc = "idle" => call = NoCall /\ cmd.at = 0 /\ acked = {}

TypeInv == CallerTypes /\ HardwareTypes /\ BetweenCalls

LEMMA TypeImplied == TypeInv => I2cTypeOK
BY Zenon DEF TypeInv, I2cTypeOK, CallerTypes, HardwareTypes

LEMMA ScriptType ==
  ASSUME mode \in 0 .. 2, NEW c \in Calls
  PROVE  Script(c) \in Seq(ByteSet) /\ Len(Script(c)) \in Nat \ {0}
<1>1. CASE c.fn \in BurstKinds
  <2>1. Byte(c.fn, 0) \in ByteSet
    BY <1>1, ByteInSet, I2cAssumption DEF ByteKinds
  <2>2. Script(c) = <<Byte(c.fn, 0)>>
    BY <1>1 DEF Script
  <2>3. QED
    BY <2>1, <2>2
<1>2. CASE c.fn \notin BurstKinds
  BY <1>2, ScriptShape, EmptySeq DEF Shape, Chain
<1>3. QED
  BY <1>1, <1>2

(* Between calls the script does not depend on the settings.               *)
LEMMA NoCallScript == NoCall \in Calls /\ Script(NoCall) = <<Byte("burstTx", 0)>>
BY I2cAssumption DEF NoCall, Calls, Script, BurstKinds

LEMMA NoCmdType == NoCmd.at = 0 /\ NoCmd.moved = 0
BY DEF NoCmd

LEMMA TypeInitial == Init => TypeInv
<1> SUFFICES ASSUME Init PROVE TypeInv
  OBVIOUS
<1>1. mode \in 0 .. 2 /\ hs \in BOOLEAN
  BY I2cAssumption DEF Init
<1>2. script = <<Byte("burstTx", 0)>> /\ call \in Calls
  BY NoCallScript DEF Init
<1>3. buf \in [Cells -> Nat] /\ gdata \in [Cells -> Nat] /\ fifo \in Seq(Nat)
  BY DEF Init, Unread
<1>4. bstmr \in [thr : 0 .. MaxNum, total : 0 .. MaxNum]
  BY I2cAssumption DEF Init, NoBurst
<1>5. pos \in 1 .. Len(script) /\ acked \subseteq 1 .. Len(script) /\ dr \in Nat
  BY <1>2 DEF Init
<1>6. CallerTypes
  BY <1>1, <1>2, <1>3, <1>4, <1>5, Zenon DEF Init, CallerTypes
<1>7. HardwareTypes
  <2>1. cmd.at \in 0 .. Len(script)
    BY <1>2, NoCmdType DEF Init
  <2>2. QED
    BY <1>3, <1>5, <2>1, Zenon DEF Init, HardwareTypes
<1>8. QED
  BY <1>6, <1>7, NoCmdType DEF Init, TypeInv, BetweenCalls

(* What a read of the FIFO stores and leaves.                              *)
LEMMA DrainType ==
  ASSUME NEW a \in [Cells -> Nat], fifo \in Seq(Nat), NEW from \in Nat, NEW to \in Nat
  PROVE  Drained(a, from, to) \in [Cells -> Nat] /\ FifoAfter(from, to) \in Seq(Nat)
<1>1. \A i \in Cells : i \in from .. to /\ i - from < Len(fifo) => fifo[i - from + 1] \in Nat
  BY I2cAssumption DEF Cells
<1>2. Drained(a, from, to) \in [Cells -> Nat]
  BY <1>1 DEF Drained
<1>3. ASSUME ~(to < from), ~(to - from + 1 >= Len(fifo))
      PROVE  SubSeq(fifo, to - from + 2, Len(fifo)) \in Seq(Nat)
  BY <1>3, SubSeqProperties
<1>4. QED
  BY <1>2, <1>3 DEF FifoAfter

LEMMA IsrCellsType ==
  ASSUME I2cTypeOK
  PROVE  IsrCells[1] \in Nat /\ IsrCells[2] \in Nat
BY I2cAssumption DEF IsrCells, I2cTypeOK

(* The bytes of a call are the same in the same settings.                  *)
LEMMA SameScript ==
  ASSUME UNCHANGED <<config, call>>
  PROVE  Script(call)' = Script(call)
BY DEF config, Script, BytesOf, Receive, Transfer, CombinedEeprom, Combined, HsCode,
       Index, Reads, Writes

LEMMA HardwareKeepsTypes ==
  ASSUME TypeInv, UNCHANGED <<config, caller, ie, bstmr>>, HardwareTypes',
         pc = "idle" => cmd'.at = 0 /\ acked' = {}
  PROVE  TypeInv'
<1>1. CallerTypes'
  BY SameScript DEF TypeInv, CallerTypes, config, caller
<1>2. QED
  BY <1>1 DEF TypeInv, BetweenCalls, caller

LEMMA ScriptBytes ==
  ASSUME TypeInv
  PROVE  script \in Seq(ByteSet) /\ Len(script) \in Nat \ {0} /\ Now \in ByteSet
<1>1. script \in Seq(ByteSet) /\ Len(script) \in Nat \ {0} /\ pos \in 1 .. Len(script)
  BY ScriptType DEF TypeInv, CallerTypes
<1>2. QED
  BY <1>1 DEF Now

LEMMA DoneTypes ==
  ASSUME TypeInv, Done
  PROVE  acked' \subseteq 1 .. Len(script) /\ (pc = "idle" => acked' = {})
<1>1. CASE cmd.at = 0 \/ ~clean
  BY <1>1 DEF Done, TypeInv, HardwareTypes, BetweenCalls
<1>2. CASE cmd.at # 0 /\ clean
  <2>1. acked \subseteq 1 .. Len(script) /\ cmd.at \in 1 .. Len(script) /\ pc # "idle"
    BY <1>2, ScriptBytes DEF TypeInv, HardwareTypes, BetweenCalls
  <2>2. acked' = acked \cup {cmd.at}
    BY <1>2 DEF Done
  <2>3. QED
    BY <2>1, <2>2
<1>3. QED
  BY <1>1, <1>2

(* The steps of the hardware that end what the controller works on.        *)
LEMMA CommandEndTypes ==
  ASSUME TypeInv, UNCHANGED <<config, caller, ie, bstmr, status, gdata, clean>>, cmd' = NoCmd,
         UNCHANGED acked \/ Done,
         sr' \subseteq Bits, fifo' \in Seq(Nat), dr' \in Nat,
         owned' \in BOOLEAN, other' \in BOOLEAN, rw' \in BOOLEAN
  PROVE  TypeInv'
<1>1. acked' \subseteq 1 .. Len(script) /\ (pc = "idle" => acked' = {})
  BY DoneTypes DEF TypeInv, HardwareTypes, BetweenCalls
<1>2. UNCHANGED script /\ cmd'.at = 0 /\ 0 \in 0 .. Len(script)
  BY NoCmdType, ScriptBytes DEF caller
<1>3. HardwareTypes'
  BY <1>1, <1>2 DEF HardwareTypes, TypeInv
<1>4. QED
  BY <1>1, <1>2, <1>3, HardwareKeepsTypes

LEMMA AnsweredTypes ==
  TypeInv /\ (ByteMoved \/ ByteRefused \/ ArbitrationLost \/ BurstSent \/ BurstRefused) => TypeInv'
<1> SUFFICES ASSUME TypeInv PROVE
      ByteMoved \/ ByteRefused \/ ArbitrationLost \/ BurstSent \/ BurstRefused => TypeInv'
  OBVIOUS
<1> USE DEF TypeInv, HardwareTypes, ghosts
<1>1. CASE ByteMoved
  <2>1. dr' \in Nat
    BY <1>1, I2cAssumption DEF ByteMoved, Single, ByteSet
  <2>2. sr' \subseteq Bits
    BY <1>1 DEF ByteMoved, Bits
  <2>3. owned' \in BOOLEAN /\ rw' \in BOOLEAN
    BY <1>1 DEF ByteMoved
  <2>4. QED
    BY <1>1, <2>1, <2>2, <2>3, CommandEndTypes DEF ByteMoved
<1>2. CASE ByteRefused
  <2>1. sr' \subseteq Bits
    BY <1>2 DEF ByteRefused, Bits
  <2>2. owned' \in BOOLEAN /\ rw' \in BOOLEAN
    BY <1>2 DEF ByteRefused
  <2>3. QED
    BY <1>2, <2>1, <2>2, CommandEndTypes DEF ByteRefused
<1>3. CASE ArbitrationLost
  <2>1. sr' \subseteq Bits
    BY <1>3 DEF ArbitrationLost, Bits
  <2>2. QED
    BY <1>3, <2>1, CommandEndTypes DEF ArbitrationLost
<1>4. CASE BurstSent
  <2>1. sr' \subseteq Bits
    BY <1>4 DEF BurstSent, Bits
  <2>2. QED
    BY <1>4, <2>1, CommandEndTypes DEF BurstSent
<1>5. CASE BurstRefused
  <2>1. sr' \subseteq Bits
    BY <1>5 DEF BurstRefused, Bits
  <2>2. QED
    BY <1>5, <2>1, CommandEndTypes DEF BurstRefused
<1>6. QED
  BY <1>1, <1>2, <1>3, <1>4, <1>5

LEMMA BurstByteTypes == TypeInv /\ BurstByte => TypeInv'
<1> SUFFICES ASSUME TypeInv, BurstByte PROVE TypeInv'
  OBVIOUS
<1> DEFINE k == cmd.moved + 1
<1>1. /\ cmd \in [at : Nat, byte : ByteSet, moved : 0 .. MaxNum]
      /\ bstmr.total \in 0 .. MaxNum /\ fifo \in Seq(Nat) /\ sr \subseteq Bits
      /\ cmd.at \in 0 .. Len(script) /\ acked \subseteq 1 .. Len(script)
  BY DEF BurstByte, TypeInv, HardwareTypes, CallerTypes
<1>2. fifo' \in Seq(Nat)
  BY <1>1, AppendProperties DEF BurstByte
<1>3. sr' \subseteq Bits /\ rw' \in BOOLEAN
  BY <1>1 DEF BurstByte, Bits
<1>4. UNCHANGED <<config, caller, ie, bstmr, status, gdata, dr, other, clean>>
  BY DEF BurstByte
<1>5. CASE k >= bstmr.total
  <2>1. cmd' = NoCmd /\ owned' = FALSE /\ Done
    BY <1>5 DEF BurstByte
  <2>2. QED
    BY <1>2, <1>3, <1>4, <2>1, CommandEndTypes DEF TypeInv, HardwareTypes
<1>6. CASE ~(k >= bstmr.total)
  <2>1. cmd' = [cmd EXCEPT !.moved = k] /\ owned' = TRUE /\ UNCHANGED acked
    BY <1>6 DEF BurstByte
  <2>2. k \in 0 .. MaxNum
    BY <1>1, <1>6, I2cAssumption
  <2>3. cmd' \in [at : Nat, byte : ByteSet, moved : 0 .. MaxNum] /\ cmd'.at = cmd.at
    BY <1>1, <2>1, <2>2
  <2>4. HardwareTypes'
    BY <1>1, <1>2, <1>3, <1>4, <2>1, <2>3 DEF HardwareTypes, TypeInv, caller
  <2>5. QED
    BY <1>4, <2>1, <2>3, <2>4, HardwareKeepsTypes DEF TypeInv, BetweenCalls
<1>7. QED
  BY <1>5, <1>6

LEMMA IsrTypes == TypeInv /\ Isr => TypeInv'
<1> SUFFICES ASSUME TypeInv, Isr PROVE TypeInv'
  OBVIOUS
<1>1. IsrCells[1] \in Nat /\ IsrCells[2] \in Nat
  BY TypeImplied, IsrCellsType
<1>2. gdata' \in [Cells -> Nat] /\ fifo' \in Seq(Nat)
  BY <1>1, DrainType DEF Isr, TypeInv, HardwareTypes
<1>3. status' \subseteq SrBits /\ sr' \subseteq Bits
  BY DEF Isr, SrValue, SrBits, TypeInv, HardwareTypes
<1>4. UNCHANGED <<config, caller, ie, bstmr, cmd, dr, owned, other, rw, acked, clean>>
  BY DEF Isr, bus, ghosts
<1>5. HardwareTypes'
  BY <1>2, <1>3, <1>4 DEF HardwareTypes, TypeInv, caller
<1>6. QED
  BY <1>4, <1>5, HardwareKeepsTypes DEF TypeInv, BetweenCalls

LEMMA HardwareTyped == TypeInv /\ (Hardware \/ Isr) => TypeInv'
<1>1. ASSUME TypeInv, OtherMaster PROVE TypeInv'
  <2>1. UNCHANGED <<config, caller, ie, bstmr, status, gdata, sr, cmd, fifo, dr, owned, rw, acked, clean>>
    BY <1>1 DEF OtherMaster, chip, ghosts
  <2>2. other' \in BOOLEAN
    BY <1>1 DEF OtherMaster
  <2>3. HardwareTypes'
    BY <1>1, <2>1, <2>2 DEF HardwareTypes, TypeInv, caller
  <2>4. QED
    BY <1>1, <2>1, <2>3, HardwareKeepsTypes DEF TypeInv, BetweenCalls
<1>2. QED
  BY <1>1, AnsweredTypes, BurstByteTypes, IsrTypes DEF Hardware

(* The steps of the caller within a call.                                  *)
LEMMA CallKeepsTypes ==
  ASSUME TypeInv,
         pc' \in {"busy", "setup", "clear", "write", "wait", "td", "stop", "return"},
         UNCHANGED <<config, call, script, dr, other, rw, acked>>,
         pos' \in 1 .. Len(script), ret' \in {"none", "count", "error"},
         buf' \in [Cells -> Nat], ie' \subseteq Bits,
         bstmr' \in [thr : 0 .. MaxNum, total : 0 .. MaxNum],
         status' \subseteq SrBits, sr' \subseteq Bits,
         gdata' \in [Cells -> Nat], fifo' \in Seq(Nat),
         cmd' \in [at : 0 .. Len(script), byte : ByteSet, moved : 0 .. MaxNum] \cup {NoCmd, cmd},
         owned' \in BOOLEAN, clean' \in BOOLEAN
  PROVE  TypeInv'
<1>1. CallerTypes'
  <2>1. UNCHANGED <<irq, mode, hs, call, script>> /\ script' = Script(call)'
    BY SameScript DEF TypeInv, CallerTypes, config
  <2>2. QED
    BY <2>1 DEF TypeInv, CallerTypes
<1>2. /\ cmd' = NoCmd \/ cmd' \in [at : Nat, byte : ByteSet, moved : 0 .. MaxNum]
      /\ cmd'.at \in 0 .. Len(script)
  BY NoCmdType, ScriptBytes DEF TypeInv, HardwareTypes
<1>3. HardwareTypes'
  BY <1>2 DEF TypeInv, HardwareTypes
<1>4. BetweenCalls'
  BY DEF BetweenCalls
<1>5. QED
  BY <1>1, <1>3, <1>4 DEF TypeInv

LEMMA LookTypes ==
  ASSUME TypeInv, Look
  PROVE  status' \subseteq SrBits /\ sr' \subseteq Bits
BY DEF Look, Seen, SrValue, SrBits, TypeInv, HardwareTypes

LEMMA LoopTypes ==
  TypeInv /\ (BusFree \/ BusBusy \/ WaitAgain \/ GiveUp) => TypeInv'
<1> SUFFICES ASSUME TypeInv, BusFree \/ BusBusy \/ WaitAgain \/ GiveUp PROVE TypeInv'
  OBVIOUS
<1>1. /\ UNCHANGED <<config, gdata, call, script, pos, buf, ie, cmd, bstmr, fifo, dr, owned, other, rw, acked, clean>>
      /\ Look
      /\ pc' \in {"clear", "return", "busy", "wait", "td", "stop"}
      /\ ret' \in {"none", "count", "error"}
  BY DEF BusFree, BusBusy, WaitAgain, GiveUp, Return, bus, ghosts, caller, TypeInv, CallerTypes
<1>2. status' \subseteq SrBits /\ sr' \subseteq Bits
  BY <1>1, LookTypes
<1>3. QED
  BY <1>1, <1>2, CallKeepsTypes DEF TypeInv, CallerTypes, HardwareTypes

LEMMA BurstSetupTypes == TypeInv /\ BurstSetup => TypeInv'
<1> SUFFICES ASSUME TypeInv, BurstSetup PROVE TypeInv'
  OBVIOUS
<1>1. bstmr' \in [thr : 0 .. MaxNum, total : 0 .. MaxNum]
  <2>1. call.num \in 0 .. MaxNum /\ call.thr \in 0 .. MaxNum
    BY I2cAssumption DEF TypeInv, CallerTypes, Calls
  <2>2. QED
    BY <2>1 DEF BurstSetup
<1>2. gdata' \in [Cells -> Nat] /\ pc' = "clear"
  BY DEF BurstSetup, Unread
<1>3. UNCHANGED <<config, status, call, script, pos, buf, ret, sr, ie, cmd, fifo, dr, owned, other, rw, acked, clean>>
  BY DEF BurstSetup, bus, ghosts
<1>4. QED
  BY <1>1, <1>2, <1>3, CallKeepsTypes DEF TypeInv, CallerTypes, HardwareTypes

LEMMA ByteGivenTypes == TypeInv /\ (ClearStatus \/ WriteCr \/ SendStop) => TypeInv'
<1> SUFFICES ASSUME TypeInv PROVE ClearStatus \/ WriteCr \/ SendStop => TypeInv'
  OBVIOUS
<1> USE DEF chip, bus, ghosts
<1>1. CASE ClearStatus
  <2>1. clean' \in BOOLEAN /\ pc' = "write" /\ status' \subseteq SrBits
    BY <1>1 DEF ClearStatus, TypeInv, HardwareTypes
  <2>2. UNCHANGED <<config, gdata, call, script, pos, buf, ret, sr, ie, cmd, bstmr, fifo, dr, owned, other, rw, acked>>
    BY <1>1 DEF ClearStatus
  <2>3. QED
    BY <2>1, <2>2, CallKeepsTypes DEF TypeInv, CallerTypes, HardwareTypes
<1>2. CASE WriteCr
  <2>1. cmd' \in [at : 0 .. Len(script), byte : ByteSet, moved : 0 .. MaxNum]
    BY <1>2, ScriptBytes, I2cAssumption DEF WriteCr, TypeInv, CallerTypes
  <2>2. ie' \subseteq Bits
    BY <1>2 DEF WriteCr, CrEnable, Bits
  <2>3. UNCHANGED <<config, status, gdata, call, script, pos, buf, ret, sr, bstmr, fifo, dr, owned, other, rw, acked, clean>> /\ pc' = "wait"
    BY <1>2 DEF WriteCr
  <2>4. QED
    BY <2>1, <2>2, <2>3, CallKeepsTypes DEF TypeInv, CallerTypes, HardwareTypes
<1>3. CASE SendStop
  <2>1. UNCHANGED <<config, status, gdata, call, script, pos, buf, sr, bstmr, fifo, dr, other, rw, acked, clean>> /\ pc' = "return"
    BY <1>3 DEF SendStop
  <2>2. cmd' = NoCmd /\ ie' = {} /\ owned' = FALSE /\ ret' = "error"
    BY <1>3 DEF SendStop
  <2>3. QED
    BY <2>1, <2>2, CallKeepsTypes DEF TypeInv, CallerTypes, HardwareTypes
<1>4. QED
  BY <1>1, <1>2, <1>3

LEMMA ByteTakenTypes == TypeInv /\ (ByteDone \/ LastDone) => TypeInv'
<1> SUFFICES ASSUME TypeInv, ByteDone \/ LastDone PROVE TypeInv'
  OBVIOUS
<1>1. /\ UNCHANGED <<config, gdata, call, script, cmd, bstmr, fifo, dr, owned, other, rw, acked, clean>>
      /\ Look /\ pc' \in {"clear", "return"} /\ ret' \in {"none", "count", "error"}
      /\ ie' = ie \/ ie' = {}
      /\ buf' = IF Now.kind \in ReadKinds THEN [buf EXCEPT ![Now.n] = dr] ELSE buf
  BY DEF ByteDone, LastDone, Return, bus, ghosts, TypeInv, CallerTypes
<1>2. status' \subseteq SrBits /\ sr' \subseteq Bits
  BY <1>1, LookTypes
<1>3. pos' \in 1 .. Len(script)
  BY ScriptBytes DEF ByteDone, LastDone, Return, TypeInv, CallerTypes
<1>4. buf' \in [Cells -> Nat] /\ ie' \subseteq Bits
  BY <1>1 DEF TypeInv, CallerTypes, HardwareTypes
<1>5. QED
  BY <1>1, <1>2, <1>3, <1>4, CallKeepsTypes DEF TypeInv, CallerTypes, HardwareTypes

LEMMA BurstTakenTypes == TypeInv /\ (BurstThreshold \/ BurstRest \/ BurstDone) => TypeInv'
<1> SUFFICES ASSUME TypeInv, BurstThreshold \/ BurstRest \/ BurstDone PROVE TypeInv'
  OBVIOUS
<1>1. bstmr.thr \in Nat /\ bstmr.total \in Nat /\ bstmr.thr + 1 \in Nat /\ 1 \in Nat
  BY I2cAssumption DEF TypeInv, CallerTypes
<1>2. /\ UNCHANGED <<config, gdata, call, script, pos, cmd, ie, bstmr, dr, owned, other, rw, acked, clean>>
      /\ Look /\ pc' \in {"td", "return"} /\ ret' \in {"none", "count", "error"}
  BY DEF BurstThreshold, BurstRest, BurstDone, Return, bus, ghosts, TypeInv, CallerTypes
<1>3. status' \subseteq SrBits /\ sr' \subseteq Bits
  BY <1>2, LookTypes
<1>4. buf' \in [Cells -> Nat] /\ fifo' \in Seq(Nat)
  <2> USE DEF TypeInv, CallerTypes, HardwareTypes
  <2>1. CASE BurstThreshold
    BY <1>1, <2>1, DrainType DEF BurstThreshold
  <2>2. CASE BurstRest
    BY <1>1, <2>2, DrainType DEF BurstRest
  <2>3. CASE BurstDone
    BY <2>3 DEF BurstDone
  <2>4. QED
    BY <2>1, <2>2, <2>3
<1>5. QED
  BY <1>2, <1>3, <1>4, CallKeepsTypes DEF TypeInv, CallerTypes, HardwareTypes

(* The steps from and to the state between calls.                          *)
LEMMA CallTypes == TypeInv /\ (\E c \in Calls : Call(c)) => TypeInv'
<1> SUFFICES ASSUME TypeInv, NEW c \in Calls, Call(c) PROVE TypeInv'
  OBVIOUS
<1>1. /\ UNCHANGED <<config, status, gdata, buf, ret, sr, ie, cmd, bstmr, fifo, dr, owned, other, rw, acked, clean>>
      /\ pc = "idle" /\ call' = c /\ script' = Script(c) /\ pos' = 1 /\ pc' \in {"setup", "busy"}
  BY DEF Call, chip, bus, ghosts
<1>2. Len(script') \in Nat \ {0}
  BY <1>1, ScriptType DEF TypeInv, CallerTypes
<1>3. script' = Script(call)'
  BY <1>1 DEF config, Script, BytesOf, Receive, Transfer, CombinedEeprom, Combined,
             HsCode, Index, Reads, Writes
<1>4. CallerTypes'
  BY <1>1, <1>2, <1>3 DEF TypeInv, CallerTypes, config
<1>5. HardwareTypes'
  BY <1>1, <1>2 DEF TypeInv, HardwareTypes, BetweenCalls
<1>6. QED
  BY <1>1, <1>4, <1>5 DEF TypeInv, BetweenCalls

LEMMA IdleTypes ==
  ASSUME TypeInv, pc' = "idle", call' = NoCall, pos' = 1, ret' \in {"none", "count", "error"},
         script' = <<Byte("burstTx", 0)>>,
         irq' \in BOOLEAN, mode' \in 0 .. 2, hs' \in BOOLEAN,
         buf' \in [Cells -> Nat], gdata' \in [Cells -> Nat], fifo' \in Seq(Nat), dr' \in Nat,
         UNCHANGED <<status, other>>, sr' \subseteq Bits, ie' \subseteq Bits,
         cmd' = NoCmd \/ cmd' \in [at : {0}, byte : ByteSet, moved : 0 .. MaxNum],
         bstmr' \in [thr : 0 .. MaxNum, total : 0 .. MaxNum],
         owned' \in BOOLEAN, rw' \in BOOLEAN, acked' = {}, clean' \in BOOLEAN
  PROVE  TypeInv'
<1>1. call' \in Calls /\ script' = Script(call)' /\ Len(script') = 1
  BY NoCallScript DEF NoCall, Script, BurstKinds
<1>2. CallerTypes'
  BY <1>1 DEF CallerTypes
<1>3. HardwareTypes' /\ cmd'.at = 0
  BY <1>1, NoCmdType DEF HardwareTypes, TypeInv
<1>4. QED
  BY <1>2, <1>3 DEF TypeInv, BetweenCalls

LEMMA IdleAt ==
  ASSUME TypeInv, pc = "idle"
  PROVE  script = <<Byte("burstTx", 0)>> /\ pos = 1
<1>1. script = <<Byte("burstTx", 0)>> /\ pos \in 1 .. Len(script)
  BY NoCallScript DEF TypeInv, CallerTypes, BetweenCalls
<1>2. Len(script) = 1
  BY <1>1
<1>3. QED
  BY <1>1, <1>2

LEMMA LeaveTypes == TypeInv /\ (Returned \/ Configure \/ I2cInit) => TypeInv'
<1> SUFFICES ASSUME TypeInv PROVE Returned \/ Configure \/ I2cInit => TypeInv'
  OBVIOUS
<1> USE DEF TypeInv, CallerTypes, HardwareTypes, BetweenCalls
<1>1. CASE Returned
  <2>1. cmd' = NoCmd \/ cmd' \in [at : {0}, byte : ByteSet, moved : 0 .. MaxNum]
    <3>1. CASE cmd # NoCmd
      <4>1. cmd.byte.kind \in ByteKinds /\ 0 \in 0 .. MaxNum + 2
        BY <3>1, I2cAssumption DEF ByteSet
      <4>2. Byte(cmd.byte.kind, 0) \in ByteSet
        BY <4>1, ByteInSet
      <4>3. QED
        BY <1>1, <3>1, <4>2 DEF Returned
    <3>2. QED
      BY <1>1, <3>1 DEF Returned
  <2>2. fifo' \in Seq(Nat) /\ dr' \in Nat
    <3>1. fifo' \in [1 .. Len(fifo) -> Nat] /\ Len(fifo) \in Nat
      BY <1>1, LenProperties DEF Returned
    <3>2. QED
      BY <1>1, <3>1 DEF Returned
  <2>3. bstmr' \in [thr : 0 .. MaxNum, total : 0 .. MaxNum]
    BY <1>1, I2cAssumption DEF Returned, NoBurst
  <2>4. buf' \in [Cells -> Nat] /\ gdata' \in [Cells -> Nat]
    BY <1>1 DEF Returned, Unread
  <2>5. /\ pc' = "idle" /\ call' = NoCall /\ pos' = 1 /\ ret' = "none" /\ acked' = {} /\ clean' = FALSE
        /\ script' = <<Byte("burstTx", 0)>>
    BY <1>1, NoCallScript DEF Returned
  <2>6. UNCHANGED <<irq, mode, hs, status, sr, ie, owned, other, rw>>
    BY <1>1 DEF Returned, config, bus
  <2>7. QED
    BY <2>1, <2>2, <2>3, <2>4, <2>5, <2>6, IdleTypes
<1>2. CASE Configure
  <2>1. irq' \in BOOLEAN /\ mode' \in 0 .. 2 /\ hs' \in BOOLEAN
    BY <1>2, I2cAssumption DEF Configure
  <2>2. UNCHANGED <<status, gdata, pc, call, script, pos, buf, ret, sr, ie, cmd, bstmr, fifo, dr, owned, other, rw, acked, clean>>
    BY <1>2 DEF Configure, caller, chip, bus, ghosts
  <2>3. pc = "idle" /\ script = <<Byte("burstTx", 0)>> /\ pos = 1
    BY <1>2, IdleAt DEF Configure
  <2>4. cmd' = NoCmd \/ cmd' \in [at : {0}, byte : ByteSet, moved : 0 .. MaxNum]
    BY <2>2, <2>3
  <2>5. QED
    BY <2>1, <2>2, <2>3, <2>4, IdleTypes
<1>3. CASE I2cInit
  <2>1. irq' = FALSE /\ mode' = 1 /\ hs' = hs
    BY <1>3 DEF I2cInit
  <2>2. UNCHANGED <<status, gdata, pc, call, script, pos, buf, ret, other, acked, clean>>
    BY <1>3 DEF I2cInit, caller, ghosts
  <2>3. pc = "idle" /\ script = <<Byte("burstTx", 0)>> /\ pos = 1
    BY <1>3, IdleAt DEF I2cInit
  <2>4. bstmr' \in [thr : 0 .. MaxNum, total : 0 .. MaxNum]
    BY <1>3, I2cAssumption DEF I2cInit, NoBurst
  <2>5. fifo' \in Seq(Nat) /\ dr' \in Nat /\ sr' = {} /\ ie' = {} /\ cmd' = NoCmd /\ owned' = FALSE /\ rw' = FALSE
    BY <1>3 DEF I2cInit
  <2>6. irq' \in BOOLEAN /\ hs' \in BOOLEAN
    BY <2>1, Zenon
  <2>7. mode' \in 0 .. 2
    BY <2>1
  <2>8. QED
    BY <2>2, <2>3, <2>4, <2>5, <2>6, <2>7, IdleTypes
<1>4. QED
  BY <1>1, <1>2, <1>3

LEMMA StutterTypes == TypeInv /\ UNCHANGED vars => TypeInv'
<1> SUFFICES ASSUME TypeInv, UNCHANGED vars PROVE TypeInv'
  OBVIOUS
<1>1. UNCHANGED <<config, caller, ie, bstmr, status, gdata, sr, cmd, fifo, dr, owned, other, rw, acked, clean>>
  BY DEF vars, chip, bus, ghosts
<1>2. HardwareTypes'
  BY <1>1 DEF HardwareTypes, TypeInv, caller
<1>3. QED
  BY <1>1, <1>2, HardwareKeepsTypes DEF TypeInv, BetweenCalls

LEMMA TypeInvariance == Spec => []TypeInv
<1>1. TypeInv /\ [Next]_vars => TypeInv'
  BY CallTypes, LeaveTypes, LoopTypes, BurstSetupTypes, ByteGivenTypes, ByteTakenTypes,
     BurstTakenTypes, HardwareTyped, StutterTypes DEF Next, Caller
<1>2. QED
  BY <1>1, TypeInitial, PTL DEF Spec

(* The registers, the settings and the variables of I2C.c keep their       *)
(* ranges, and the caller is always at one of the bytes of its call, in    *)
(* the settings that are in force.                                         *)
THEOREM I2cTypeCorrect == Spec => []I2cTypeOK
BY TypeInvariance, TypeImplied, PTL

-----------------------------------------------------------------------------
(* One byte after the other.  While a byte has not been moved SR is clear, *)
(* the bus is as the byte before it left it, and all earlier bytes that    *)
(* were read are in the caller's buffer; once it has been moved its answer *)
(* waits in SR or in dev->status, and in DR what was read.                 *)

BusAfter(p) ==
  /\ rw = (script[p].kind \in ReadSide)
  /\ owned \/ script[p].kind \in StopKinds

Collected(p) ==
  \A q \in 1 .. p : script[q].kind \in ReadKinds => buf[script[q].n] = script[q].n

AnswerHeld ==
  \/ sr = Answer(Now.kind)
  \/ irq /\ sr = {} /\ status \cap CrEnable = Answer(Now.kind) /\ ("RW" \in status <=> rw)

ByteAhead ==
  pc \in {"clear", "write"} \/ (pc = "wait" /\ OnItsWay) =>
    sr = {} /\ (pos > 1 => BusAfter(pos - 1)) /\ Collected(pos - 1)

ByteAnswered ==
  pc = "wait" /\ Moved =>
    /\ BusAfter(pos) /\ Collected(pos - 1) /\ AnswerHeld
    /\ Now.kind \in ReadKinds => dr = Now.n

BytesCounted == pc = "return" /\ ret = "count" => Collected(Len(script))

ByteInv == ~Burst /\ clean => ByteAhead /\ ByteAnswered /\ BytesCounted

(* What is known of the bytes of a call that is no burst.                  *)
LEMMA ByteShape ==
  ASSUME TypeInv, ~Burst
  PROVE  /\ Now.kind \in ByteKinds \ BurstKinds
         /\ Now.kind \in ReadKinds => Now.n \in Cells
         /\ pos = 1 => Now.kind \in {"hs", "waddr"}
         /\ pos > 1 => Follows(script[pos - 1].kind, Now.kind, IsFramed(call))
<1>1. Shape(script, call)
  BY ScriptShape DEF TypeInv, CallerTypes, Burst
<1>2. pos \in 1 .. Len(script) /\ Len(script) \in Nat \ {0}
  BY ScriptBytes DEF TypeInv, CallerTypes
<1>3. Now.kind \in ByteKinds
  BY ScriptBytes DEF ByteSet
<1>4. Now.kind \notin BurstKinds /\ (Now.kind \in ReadKinds => Now.n \in Cells)
  BY <1>1, <1>2 DEF Shape, Chain, Now
<1>5. pos = 1 => Now.kind \in {"hs", "waddr"}
  BY <1>1 DEF Shape, Chain, Now
<1>6. pos > 1 => Follows(script[pos - 1].kind, Now.kind, IsFramed(call))
  <2>1. pos > 1 => pos \in 2 .. Len(script)
    BY <1>2
  <2>2. QED
    BY <1>1, <2>1 DEF Shape, Chain, Now
<1>7. QED
  BY <1>3, <1>4, <1>5, <1>6

(* A byte that is waited for is on its way exactly while the controller    *)
(* works on one, and was moved exactly if it was acknowledged.             *)
LEMMA WhereByteIs ==
  ASSUME I2cInv, pc \in Waits, clean
  PROVE  /\ OnItsWay <=> cmd # NoCmd
         /\ Moved <=> cmd = NoCmd /\ acked = 1 .. pos
         /\ acked = 1 .. pos - 1 \/ acked = 1 .. pos
         /\ 1 .. pos # 1 .. pos - 1
<1>1. pos \in 1 .. pos /\ pos \notin 1 .. pos - 1
  BY DEF I2cInv
<1>2. QED
  BY <1>1 DEF I2cInv, OnItsWay, Moved, NotMoved

(* The bits of a byte that was moved end the loop's wait for it.           *)
LEMMA AnswerMatches ==
  ASSUME TypeInv, pc = "wait", ~Burst, ~irq, sr = Answer(Now.kind),
         rw = (Now.kind \in ReadSide)
  PROVE  Matches
<1>1. Now.kind \in ByteKinds \ BurstKinds /\ ~ThresholdWait
  BY ByteShape DEF ThresholdWait, Burst, BurstKinds
<1>2. Seen = Answer(Now.kind) \cup (IF Busy THEN {"BB"} ELSE {})
                \cup (IF Now.kind \in ReadSide THEN {"RW"} ELSE {})
  BY DEF Seen, SrValue
<1>3. CASE Now.kind \in AddressKinds
  <2>1. Mask = {"TD", "NACK", "AL"} /\ Now.kind \notin ReadKinds
    BY <1>1, <1>3 DEF Mask, AddressKinds, ReadKinds
  <2>2. Want = Answer(Now.kind)
    BY <1>1, <1>3, <2>1 DEF Want, Answer
  <2>3. Answer(Now.kind) \subseteq Mask
    BY <2>1 DEF Answer
  <2>4. QED
    BY <1>2, <2>1, <2>2, <2>3 DEF Matches
<1>4. CASE Now.kind \notin AddressKinds
  <2>1. Mask = {"TD", "RW", "NACK", "AL"}
    BY <1>1, <1>4 DEF Mask
  <2>2. Want = Answer(Now.kind) \cup (IF Now.kind \in ReadSide THEN {"RW"} ELSE {})
    BY <1>1, <1>4 DEF Want, Answer, ReadSide, AddressKinds
  <2>3. Answer(Now.kind) \subseteq Mask
    BY <2>1 DEF Answer
  <2>4. QED
    BY <1>2, <2>1, <2>2, <2>3 DEF Matches
<1>5. QED
  BY <1>3, <1>4

LEMMA ByteInitial == Init => ByteInv
BY DEF Init, ByteInv

(* Where no call goes on there is nothing to show.                         *)
LEMMA ByteIdle ==
  ASSUME pc' \in {"idle", "busy", "setup", "td", "stop"} \/ (pc' = "return" /\ ret' = "error") \/ ~clean'
  PROVE  ByteInv'
BY DEF ByteInv, ByteAhead, ByteAnswered, BytesCounted

(* The controller moves the byte: it finds the bus as the byte before it   *)
(* left it.                                                                *)
LEMMA ByteMovedBus ==
  ASSUME TypeInv, ~Burst, pos > 1 => BusAfter(pos - 1), ByteMoved, cmd.byte = Now
  PROVE  rw' = (Now.kind \in ReadSide) /\ (owned' \/ Now.kind \in StopKinds)
<1> DEFINE k == Now.kind
<1>1. k \in ByteKinds \ BurstKinds /\ pos \in Nat \ {0}
  BY ByteShape, ScriptBytes DEF TypeInv, CallerTypes
<1>2. rw' = (k = "raddr" \/ (rw /\ k \notin {"hs", "waddr"})) /\ owned' = (k \notin StopKinds)
  BY DEF ByteMoved
<1>3. ASSUME k \in ReadKinds PROVE rw
  <2>1. pos > 1
    BY <1>1, <1>3, ByteShape DEF ReadKinds
  <2>2. script[pos - 1].kind \in ReadSide
    BY <1>3, <2>1, ByteShape DEF Follows
  <2>3. QED
    BY <2>1, <2>2 DEF BusAfter
<1>4. ASSUME k \in WriteKinds PROVE ~rw
  <2>1. pos > 1
    BY <1>1, <1>4, ByteShape DEF WriteKinds
  <2>2. script[pos - 1].kind \notin ReadSide
    BY <1>4, <2>1, ByteShape DEF Follows, WriteSide, WriteKinds, ReadSide, ReadKinds
  <2>3. QED
    BY <2>1, <2>2 DEF BusAfter
<1>5. rw' <=> k \in ReadSide
  <2>1. CASE k \in ReadKinds
    BY <1>2, <1>3, <2>1 DEF ReadKinds, ReadSide
  <2>2. CASE k \in WriteKinds
    BY <1>2, <1>4, <2>2 DEF WriteKinds, ReadKinds, ReadSide
  <2>3. CASE k \in AddressKinds
    BY <1>2, <2>3 DEF AddressKinds, ReadKinds, ReadSide
  <2>4. QED
    BY <1>1, <2>1, <2>2, <2>3 DEF ByteKinds
<1>6. rw' \in BOOLEAN
  BY <1>2
<1>7. rw' = (k \in ReadSide)
  BY <1>5, <1>6, Zenon
<1>8. QED
  BY <1>2, <1>7, Zenon

LEMMA ByteMovedData == I2cInv /\ TypeInv /\ ByteInv /\ ByteMoved => ByteInv'
<1> SUFFICES ASSUME I2cInv, TypeInv, ByteInv, ByteMoved, ~Burst', clean' PROVE ByteInv'
  BY DEF ByteInv
<1>1. UNCHANGED <<config, status, pc, call, script, pos, buf, ret, clean>> /\ cmd # NoCmd /\ cmd' = NoCmd
  BY DEF ByteMoved, Single, caller
<1>2. UNCHANGED <<Burst, Now>> /\ ~Burst /\ clean
  BY <1>1 DEF Burst, Now
<1>3. pc \notin {"clear", "write"}
  BY <1>1, <1>2 DEF I2cInv
<1>4. BytesCounted'
  BY <1>1, <1>2 DEF ByteInv, BytesCounted, Collected
<1>5. ByteAhead'
  BY <1>1, <1>3 DEF ByteAhead, OnItsWay
<1>6. ASSUME pc = "wait"
      PROVE  BusAfter(pos)' /\ Collected(pos - 1)' /\ AnswerHeld' /\ (Now.kind \in ReadKinds => dr' = Now.n)
  <2>1. OnItsWay /\ cmd.byte = Now
    BY <1>1, <1>2, <1>6, WhereByteIs DEF Waits, OnItsWay
  <2>2. sr = {} /\ (pos > 1 => BusAfter(pos - 1)) /\ Collected(pos - 1)
    BY <1>2, <1>6, <2>1 DEF ByteInv, ByteAhead
  <2>3. rw' = (Now.kind \in ReadSide) /\ (owned' \/ Now.kind \in StopKinds)
    BY <1>2, <2>1, <2>2, ByteMovedBus
  <2>4. BusAfter(pos)'
    BY <1>1, <2>3 DEF BusAfter, Now
  <2>5. Collected(pos - 1)'
    BY <1>1, <2>2 DEF Collected
  <2>6. sr' = Answer(Now.kind)
    BY <2>1, <2>2 DEF ByteMoved, Answer
  <2>7. Now.kind \in ReadKinds => dr' = Now.n
    BY <2>1 DEF ByteMoved
  <2>8. AnswerHeld'
    BY <1>2, <2>6 DEF AnswerHeld, Answer
  <2>9. QED
    BY <2>4, <2>5, <2>7, <2>8
<1>7. ByteAnswered'
  BY <1>1, <1>2, <1>6 DEF ByteAnswered
<1>8. QED
  BY <1>4, <1>5, <1>7 DEF ByteInv

(* What ends the controller's work without an acknowledgment, or works on  *)
(* a byte of an earlier call's burst, answers no byte of this call.        *)
LEMMA ByteEndedData ==
  ASSUME I2cInv, TypeInv, ByteInv, cmd # NoCmd,
         UNCHANGED <<config, status, pc, call, script, pos, buf, ret, clean>>,
         (cmd' = NoCmd /\ UNCHANGED acked) \/ cmd.byte.kind \in BurstKinds
  PROVE  ByteInv'
<1> SUFFICES ASSUME ~Burst', clean' PROVE ByteInv'
  BY DEF ByteInv
<1>1. UNCHANGED <<Burst, Now>> /\ ~Burst /\ clean
  BY DEF Burst, Now
<1>2. pc \notin {"clear", "write"}
  BY <1>1 DEF I2cInv
<1>3. BytesCounted'
  BY <1>1 DEF ByteInv, BytesCounted, Collected
<1>4. pc = "wait" => ~OnItsWay' /\ ~Moved'
  <2>1. ASSUME pc = "wait" PROVE OnItsWay /\ 1 .. pos # 1 .. pos - 1
    BY <1>1, <2>1, WhereByteIs DEF Waits
  <2>2. ASSUME pc = "wait" PROVE cmd.byte.kind \notin BurstKinds
    BY <1>1, <2>1, <2>2, ByteShape DEF OnItsWay
  <2>3. QED
    BY <2>1, <2>2 DEF OnItsWay, Moved
<1>5. ByteAhead' /\ ByteAnswered'
  BY <1>2, <1>4 DEF ByteAhead, ByteAnswered
<1>6. QED
  BY <1>3, <1>5 DEF ByteInv

(* What leaves the caller, the byte and the bus alone.                     *)
LEMMA ByteAsideData ==
  ASSUME ByteInv,
         UNCHANGED <<config, status, pc, call, script, pos, buf, ret, sr, cmd, dr, owned, rw, acked, clean>>
  PROVE  ByteInv'
<1>1. UNCHANGED <<Burst, Now, irq>>
  BY DEF Burst, Now, config
<1>2. OnItsWay' = OnItsWay /\ Moved' = Moved /\ AnswerHeld' = AnswerHeld
  BY <1>1 DEF OnItsWay, Moved, AnswerHeld
<1>3. UNCHANGED <<ByteAhead, ByteAnswered, BytesCounted>>
  BY <1>1, <1>2 DEF ByteAhead, ByteAnswered, BytesCounted, BusAfter, Collected
<1>4. QED
  BY <1>1, <1>3 DEF ByteInv

(* The handler takes the answer, and the direction of the bus with it,     *)
(* from SR to dev->status.                                                 *)
LEMMA IsrData == I2cInv /\ TypeInv /\ ByteInv /\ Isr => ByteInv'
<1> SUFFICES ASSUME I2cInv, TypeInv, ByteInv, Isr, ~Burst', clean' PROVE ByteInv'
  BY DEF ByteInv
<1>1. /\ UNCHANGED <<irq, pc, call, script, pos, buf, ret, cmd, dr, owned, rw, acked, clean>>
      /\ irq /\ sr # {} /\ sr' = {} /\ status' = SrValue
  BY DEF Isr, config, caller, bus, ghosts
<1>2. UNCHANGED <<Burst, Now>> /\ ~Burst /\ clean
  BY <1>1 DEF Burst, Now
<1>3. ~(pc \in {"clear", "write"} \/ (pc = "wait" /\ OnItsWay))
  BY <1>1, <1>2 DEF ByteInv, ByteAhead
<1>4. ByteAhead'
  <2>1. pc = "wait" => ~OnItsWay'
    BY <1>1, <1>2, <1>3, WhereByteIs DEF OnItsWay, Waits
  <2>2. QED
    BY <1>1, <1>3, <2>1 DEF ByteAhead
<1>5. BytesCounted'
  BY <1>1, <1>2 DEF ByteInv, BytesCounted, Collected
<1>6. ASSUME pc = "wait", Moved' PROVE (ByteAnswered)'
  <2>1. Moved
    BY <1>1, <1>2, <1>6, WhereByteIs DEF Moved, Waits
  <2>2. BusAfter(pos) /\ Collected(pos - 1) /\ sr = Answer(Now.kind) /\ (Now.kind \in ReadKinds => dr = Now.n)
    BY <1>1, <1>2, <1>6, <2>1 DEF ByteInv, ByteAnswered, AnswerHeld
  <2>3. status' \cap CrEnable = Answer(Now.kind)
    BY <1>1, <2>2 DEF SrValue, CrEnable, Answer
  <2>4. "RW" \in status' <=> rw
    BY <1>1, <2>2 DEF SrValue, Answer
  <2>5. AnswerHeld'
    BY <1>1, <1>2, <2>3, <2>4 DEF AnswerHeld
  <2>6. BusAfter(pos)' /\ Collected(pos - 1)'
    BY <1>1, <2>2 DEF BusAfter, Collected
  <2>7. QED
    BY <1>1, <1>2, <2>2, <2>5, <2>6 DEF ByteAnswered
<1>7. ByteAnswered'
  BY <1>1, <1>6 DEF ByteAnswered
<1>8. QED
  BY <1>4, <1>5, <1>7 DEF ByteInv

LEMMA HardwareData == I2cInv /\ TypeInv /\ ByteInv /\ (Hardware \/ Isr \/ UNCHANGED vars) => ByteInv'
<1> SUFFICES ASSUME I2cInv, TypeInv, ByteInv PROVE Hardware \/ Isr \/ UNCHANGED vars => ByteInv'
  OBVIOUS
<1> USE DEF caller, chip, ghosts, bus
<1>1. CASE ByteMoved
  BY <1>1, ByteMovedData
<1>2. CASE ByteRefused
  BY <1>2, ByteEndedData DEF ByteRefused, Single
<1>3. CASE ArbitrationLost
  BY <1>3, ByteEndedData DEF ArbitrationLost, Single
<1>4. CASE BurstByte
  BY <1>4, ByteEndedData DEF BurstByte, BurstKinds
<1>5. CASE BurstSent
  BY <1>5, ByteEndedData DEF BurstSent, BurstKinds
<1>6. CASE BurstRefused
  BY <1>6, ByteEndedData DEF BurstRefused
<1>7. CASE OtherMaster
  BY <1>7, ByteAsideData DEF OtherMaster
<1>8. CASE UNCHANGED vars
  BY <1>8, ByteAsideData DEF vars
<1>9. QED
  BY <1>1, <1>2, <1>3, <1>4, <1>5, <1>6, <1>7, <1>8, IsrData DEF Hardware

(* The caller clears dev->status and hands the byte over.                  *)
LEMMA ClearStatusData == I2cInv /\ TypeInv /\ ByteInv /\ ClearStatus => ByteInv'
<1> SUFFICES ASSUME I2cInv, TypeInv, ByteInv, ClearStatus, ~Burst', clean' PROVE ByteInv'
  BY DEF ByteInv
<1>1. /\ UNCHANGED <<irq, call, script, pos, buf, ret, cmd, sr, dr, owned, rw, acked>>
      /\ pc = "clear" /\ pc' = "write"
  BY DEF ClearStatus, config, chip, bus
<1>2. ~Burst /\ pos \in Nat \ {0}
  BY <1>1 DEF Burst, I2cInv
<1>3. sr = {} /\ (pos > 1 => BusAfter(pos - 1)) /\ Collected(pos - 1)
  <2>1. CASE pos = 1
    <3>1. sr = {}
      BY <2>1 DEF ClearStatus
    <3>2. QED
      BY <2>1, <3>1 DEF Collected
  <2>2. CASE pos # 1
    <3>1. clean
      BY <2>2 DEF ClearStatus
    <3>2. QED
      BY <1>1, <1>2, <2>2, <3>1 DEF ByteInv, ByteAhead
  <2>3. QED
    BY <2>1, <2>2
<1>4. ByteAhead'
  BY <1>1, <1>3 DEF ByteAhead, BusAfter, Collected
<1>5. QED
  BY <1>1, <1>4 DEF ByteInv, ByteAnswered, BytesCounted

LEMMA WriteCrData == I2cInv /\ TypeInv /\ ByteInv /\ WriteCr => ByteInv'
<1> SUFFICES ASSUME I2cInv, TypeInv, ByteInv, WriteCr, ~Burst', clean' PROVE ByteInv'
  BY DEF ByteInv
<1>1. /\ UNCHANGED <<call, script, pos, buf, sr, owned, rw, clean>>
      /\ pc = "write" /\ pc' = "wait" /\ cmd' = [at |-> pos, byte |-> Now, moved |-> 0]
  BY DEF WriteCr, bus, ghosts
<1>2. ~Burst /\ pos # 0
  BY <1>1 DEF Burst, I2cInv
<1>3. cmd' # NoCmd
  BY <1>1, <1>2 DEF NoCmd
<1>4. ByteAhead'
  BY <1>1, <1>2 DEF ByteInv, ByteAhead, BusAfter, Collected
<1>5. ~Moved'
  BY <1>3 DEF Moved
<1>6. QED
  BY <1>1, <1>4, <1>5 DEF ByteInv, ByteAnswered, BytesCounted

(* The loop goes on only while there is no answer, or, in interrupt mode,  *)
(* before the handler has brought it.                                      *)
LEMMA WaitAgainData == I2cInv /\ TypeInv /\ ByteInv /\ WaitAgain => ByteInv'
<1> SUFFICES ASSUME I2cInv, TypeInv, ByteInv, WaitAgain, ~Burst', clean' PROVE ByteInv'
  BY DEF ByteInv
<1>1. /\ UNCHANGED <<irq, pc, call, script, pos, buf, ret, cmd, dr, owned, rw, acked, clean>>
      /\ pc \in {"busy", "wait", "td"} /\ Look /\ ~Matches
  BY DEF WaitAgain, config, caller, bus, ghosts
<1>2. UNCHANGED <<Burst, Now>> /\ ~Burst /\ clean
  BY <1>1 DEF Burst, Now
<1>3. CASE pc # "wait"
  BY <1>1, <1>3 DEF ByteInv, ByteAhead, ByteAnswered, BytesCounted
<1>4. CASE pc = "wait" /\ cmd # NoCmd
  <2>1. OnItsWay /\ ~Moved'
    BY <1>1, <1>2, <1>4, WhereByteIs DEF Waits, Moved
  <2>2. sr = {} /\ (pos > 1 => BusAfter(pos - 1)) /\ Collected(pos - 1)
    BY <1>2, <1>4, <2>1 DEF ByteInv, ByteAhead
  <2>3. sr' = {}
    BY <1>1, <2>2 DEF Look
  <2>4. (pos > 1 => BusAfter(pos - 1)') /\ Collected(pos - 1)'
    BY <1>1, <2>2 DEF BusAfter, Collected
  <2>5. QED
    BY <1>1, <1>4, <2>1, <2>3, <2>4 DEF ByteInv, ByteAhead, ByteAnswered, BytesCounted
<1>5. CASE pc = "wait" /\ cmd = NoCmd
  <2>1. ASSUME Moved'
        PROVE  BusAfter(pos) /\ Collected(pos - 1) /\ AnswerHeld /\ (Now.kind \in ReadKinds => dr = Now.n)
    <3>1. Moved
      BY <1>1, <1>2, <1>5, <2>1, WhereByteIs DEF Moved, Waits
    <3>2. QED
      BY <1>2, <1>5, <3>1 DEF ByteInv, ByteAnswered
  <2>2. ASSUME Moved' PROVE irq
    BY <1>1, <1>2, <1>5, <2>1, <2>2, AnswerMatches DEF AnswerHeld, BusAfter, Now
  <2>3. ASSUME Moved' PROVE UNCHANGED AnswerHeld
    BY <1>1, <1>2, <2>2, <2>3 DEF Look, Seen, AnswerHeld
  <2>4. ByteAnswered'
    BY <1>1, <1>2, <2>1, <2>3 DEF ByteAnswered, BusAfter, Collected
  <2>5. ~OnItsWay'
    BY <1>1, <1>5 DEF OnItsWay
  <2>6. QED
    BY <1>1, <1>5, <2>4, <2>5 DEF ByteInv, ByteAhead, BytesCounted
<1>6. QED
  BY <1>3, <1>4, <1>5

(* The wait ends: SR is clear again, and the byte read is in its cell.     *)
LEMMA ByteTaken ==
  ASSUME NEW p, p = pos, I2cInv, TypeInv, ByteInv, ~Burst, clean, pc = "wait", Matches, Look,
         UNCHANGED <<script, rw, owned>>,
         buf' = IF Now.kind \in ReadKinds THEN [buf EXCEPT ![Now.n] = dr] ELSE buf
  PROVE  sr' = {} /\ BusAfter(p)' /\ Collected(p)' /\ pos \in Nat \ {0}
<1>1. Moved
  BY MatchClears
<1>2. BusAfter(pos) /\ Collected(pos - 1) /\ AnswerHeld /\ (Now.kind \in ReadKinds => dr = Now.n)
  BY <1>1 DEF ByteInv, ByteAnswered
<1>3. BusAfter(p)'
  BY <1>2 DEF BusAfter
<1>4. pos \in Nat \ {0} /\ buf \in [Cells -> Nat] /\ (Now.kind \in ReadKinds => Now.n \in Cells)
  BY ByteShape DEF I2cInv, TypeInv, CallerTypes
<1>5. Collected(p)'
  <2>1. SUFFICES ASSUME NEW q \in 1 .. pos, script[q].kind \in ReadKinds
                 PROVE  buf'[script[q].n] = script[q].n
    BY DEF Collected
  <2>2. CASE q = pos
    BY <1>2, <1>4, <2>1, <2>2 DEF Now
  <2>3. CASE q # pos
    <3>1. buf[script[q].n] = script[q].n
      BY <1>2, <1>4, <2>1, <2>3 DEF Collected
    <3>2. QED
      BY <1>2, <1>4, <3>1
  <2>4. QED
    BY <2>2, <2>3
<1>6. sr' = {}
  <2>1. CASE ~irq
    BY <2>1 DEF Look
  <2>2. CASE irq
    <3>1. "TD" \in status
      BY <2>2, WaitWantsTd DEF Waits, ThresholdWait, Seen
    <3>2. sr # Answer(Now.kind)
      BY <1>1, <2>2, <3>1 DEF Moved, Answer, CrEnable
    <3>3. QED
      BY <1>2, <2>2, <3>2 DEF AnswerHeld, Look
  <2>3. QED
    BY <2>1, <2>2
<1>7. QED
  BY <1>3, <1>4, <1>5, <1>6

LEMMA ByteDoneData == I2cInv /\ TypeInv /\ ByteInv /\ (ByteDone \/ LastDone) => ByteInv'
<1> SUFFICES ASSUME I2cInv, TypeInv, ByteInv, ~Burst', clean'
             PROVE  ByteDone \/ LastDone => ByteInv'
  BY DEF ByteInv
<1>1. CASE ByteDone
  <2>1. /\ UNCHANGED <<call, script, rw, owned, clean>> /\ pos' = pos + 1 /\ pc = "wait" /\ pc' = "clear"
        /\ ~Burst /\ Matches /\ Look
        /\ buf' = IF Now.kind \in ReadKinds THEN [buf EXCEPT ![Now.n] = dr] ELSE buf
    BY <1>1 DEF ByteDone, bus, ghosts
  <2>2. PICK p : p = pos
    OBVIOUS
  <2>3. sr' = {} /\ BusAfter(p)' /\ Collected(p)' /\ pos' - 1 = p
    BY <2>1, <2>2, ByteTaken
  <2>4. ByteAhead'
    BY <2>3 DEF ByteAhead, BusAfter, Collected
  <2>5. QED
    BY <2>1, <2>4 DEF ByteInv, ByteAnswered, BytesCounted
<1>2. CASE LastDone
  <2>1. /\ UNCHANGED <<call, script, rw, owned, clean>> /\ pc = "wait" /\ pc' = "return" /\ pos = Len(script)
        /\ ~Burst /\ Matches /\ Look
        /\ buf' = IF Now.kind \in ReadKinds THEN [buf EXCEPT ![Now.n] = dr] ELSE buf
    BY <1>2 DEF LastDone, Return, bus, ghosts
  <2>2. PICK p : p = pos
    OBVIOUS
  <2>3. Collected(p)' /\ Len(script') = p
    BY <2>1, <2>2, ByteTaken
  <2>4. BytesCounted'
    BY <2>3 DEF BytesCounted, Collected
  <2>5. QED
    BY <2>1, <2>4 DEF ByteInv, ByteAhead, ByteAnswered
<1>3. QED
  BY <1>1, <1>2

LEMMA ByteInvariance == Spec => []ByteInv
<1>1. ASSUME I2cInv, TypeInv, ByteInv, [Next]_vars PROVE ByteInv'
  <2>1. ASSUME NEW c \in Calls, Call(c) PROVE ByteInv'
    BY <2>1, ByteIdle DEF Call
  <2>2. CASE BusFree \/ BurstSetup
    <3>1. ~clean'
      BY <1>1, <2>2 DEF BusFree, BurstSetup, ghosts, I2cInv
    <3>2. QED
      BY <3>1, ByteIdle
  <2>3. CASE BusBusy \/ GiveUp \/ SendStop \/ Returned
    BY <2>3, ByteIdle DEF BusBusy, GiveUp, SendStop, Returned, Return
  <2>4. CASE Configure \/ I2cInit
    BY <2>4, ByteIdle DEF Configure, I2cInit, caller
  <2>5. CASE BurstThreshold \/ BurstRest \/ BurstDone
    <3>1. Burst'
      BY <1>1, <2>5 DEF BurstThreshold, BurstRest, BurstDone, Return, Burst, BurstKinds, I2cInv
    <3>2. QED
      BY <3>1 DEF ByteInv
  <2>6. QED
    BY <1>1, <2>1, <2>2, <2>3, <2>4, <2>5, HardwareData, ClearStatusData, WriteCrData,
       WaitAgainData, ByteDoneData DEF Next, Caller
<1>2. QED
  BY <1>1, ByteInitial, I2cInvariance, TypeInvariance, PTL DEF Spec

-----------------------------------------------------------------------------
(* Bursts.  The bytes that have come in are, in their order, in the FIFO,  *)
(* or those up to the threshold have been read out of it: by the loop into *)
(* the caller's buffer, or by the handler into gData_buf.                  *)

InOrder(f, t, m) == Len(f) = m - t /\ \A i \in 1 .. Len(f) : f[i] = t + i
Holds(a, n) == \A i \in 1 .. n : a[i] = i

(* How many bytes of a burst that was not refused have come in.            *)
Came == IF cmd = NoCmd THEN call.num ELSE cmd.moved

Reading == call.fn = "burstRx" /\ call.thr <= call.num /\ clean

PolledBurst ==
  IF pc = "td"
  THEN Came >= call.thr /\ InOrder(fifo, call.thr, Came) /\ Holds(buf, call.thr)
  ELSE InOrder(fifo, 0, Came) /\ ("BSTTHOD" \in sr => Came >= call.thr)

(* Nothing was taken yet, the threshold was, or the rest too.              *)
IrqBurst ==
  \/ /\ InOrder(fifo, 0, Came) /\ ("BSTTHOD" \in sr <=> Came >= call.thr)
     /\ Moved => "TD" \in sr
  \/ /\ InOrder(fifo, call.thr, Came) /\ Came >= call.thr /\ Holds(gdata, call.thr)
     /\ "BSTTHOD" \notin sr /\ (Moved => "TD" \in sr)
  \/ Moved /\ "TD" \notin sr /\ Holds(gdata, call.num)

BurstSettings ==
  /\ pc = "busy" => ~Burst
  /\ pc = "td" => ~irq
  /\ Burst /\ pc \in {"clear", "write"} \cup Waits =>
       bstmr.total = call.num /\ (call.fn = "burstRx" => bstmr.thr = call.thr)

BurstClear == Burst /\ clean /\ pc = "write" => sr = {} /\ fifo = <<>>

BurstAnswered ==
  Burst /\ irq /\ clean /\ pc = "wait" /\ Moved => "TD" \in sr \/ (sr = {} /\ "TD" \in status)

BurstRead ==
  Reading /\ pc \in Waits /\ (OnItsWay \/ Moved) =>
    /\ Came >= 1 => rw
    /\ cmd # NoCmd => cmd.moved < call.num
    /\ IF irq THEN IrqBurst ELSE PolledBurst

BurstCounted == Reading /\ pc = "return" /\ ret = "count" => Holds(buf, call.num)

BurstInv == BurstSettings /\ BurstClear /\ BurstAnswered /\ BurstRead /\ BurstCounted

(* Reading the FIFO up to cell n, cells 1 .. t being filled already.       *)
LEMMA DrainHolds ==
  ASSUME NEW t \in Nat, NEW n \in t .. MaxNum, NEW m \in Nat, n <= m, NEW a,
         fifo \in Seq(Nat), InOrder(fifo, t, m), Holds(a, t)
  PROVE  Holds(Drained(a, t + 1, n), n) /\ InOrder(FifoAfter(t + 1, n), n, m)
<1>1. n \in Nat /\ t <= n /\ n <= MaxNum /\ MaxNum \in Nat
  BY I2cAssumption
<1>2. ASSUME NEW i \in 1 .. n PROVE Drained(a, t + 1, n)[i] = i
  <2>1. i \in Cells /\ i \in Nat
    BY <1>1 DEF Cells
  <2>2. CASE i <= t
    BY <1>1, <2>1, <2>2 DEF Drained, Holds
  <2>3. CASE i > t
    <3>1. i \in t + 1 .. n /\ i - (t + 1) < Len(fifo) /\ i - (t + 1) + 1 \in 1 .. Len(fifo)
      BY <1>1, <2>1, <2>3 DEF InOrder
    <3>2. fifo[i - (t + 1) + 1] = i
      BY <1>1, <2>1, <3>1 DEF InOrder
    <3>3. QED
      BY <2>1, <3>1, <3>2 DEF Drained
  <2>4. QED
    BY <1>1, <2>1, <2>2, <2>3
<1>3. InOrder(FifoAfter(t + 1, n), n, m)
  <2>1. CASE n = t
    BY <2>1 DEF FifoAfter
  <2>2. CASE n > t /\ n = m
    <3>1. FifoAfter(t + 1, n) = <<>>
      BY <1>1, <2>2 DEF FifoAfter, InOrder
    <3>2. QED
      BY <2>2, <3>1 DEF InOrder
  <2>3. CASE n > t /\ n < m
    <3> DEFINE k == n - t + 1
               f == SubSeq(fifo, k, Len(fifo))
    <3>1. FifoAfter(t + 1, n) = f /\ k \in 1 .. Len(fifo) /\ Len(fifo) = m - t /\ Len(fifo) \in Nat
      BY <1>1, <2>3 DEF FifoAfter, InOrder
    <3>2. Len(f) = m - n /\ \A i \in 1 .. m - n : f[i] = fifo[k + i - 1]
      BY <1>1, <2>3, <3>1, SubSeqProperties
    <3>3. \A i \in 1 .. m - n : k + i - 1 \in 1 .. Len(fifo) /\ t + (k + i - 1) = n + i
      BY <1>1, <2>3, <3>1
    <3> HIDE DEF f, k
    <3>4. InOrder(f, n, m)
      BY <3>2, <3>3 DEF InOrder
    <3>5. QED
      BY <3>1, <3>4
  <2>4. QED
    BY <1>1, <2>1, <2>2, <2>3
<1>4. QED
  BY <1>2, <1>3 DEF Holds

(* What a burst read knows of its settings.                                *)
LEMMA ReadingTypes ==
  ASSUME TypeInv, Reading
  PROVE  /\ call.num \in 1 .. MaxNum /\ call.thr \in 1 .. call.num /\ MaxNum \in Nat
         /\ Burst /\ fifo \in Seq(Nat) /\ sr \subseteq Bits
         /\ cmd.moved \in Nat /\ Came \in Nat
<1>1. call.num \in 1 .. MaxNum /\ call.thr \in 1 .. MaxNum /\ MaxNum \in Nat
  BY I2cAssumption DEF TypeInv, CallerTypes, Calls, Reading
<1>2. cmd.moved \in Nat
  BY NoCmdType DEF TypeInv, HardwareTypes
<1>3. QED
  BY <1>1, <1>2 DEF Reading, Came, Burst, BurstKinds, TypeInv, HardwareTypes

LEMMA BurstInitial == Init => BurstInv
BY DEF Init, BurstInv, BurstSettings, BurstClear, BurstAnswered, BurstRead, BurstCounted,
       Reading, Waits

(* Where no burst goes on there is nothing to show.                        *)
LEMMA BurstIdle ==
  ASSUME pc' \in {"idle", "busy", "setup", "stop"} \/ (pc' = "return" /\ ret' = "error") \/ ~Burst',
         pc' = "busy" => ~Burst', pc' # "td"
  PROVE  BurstInv'
<1>1. Reading' => Burst'
  BY DEF Reading, Burst, BurstKinds
<1>2. QED
  BY <1>1 DEF BurstInv, BurstSettings, BurstClear, BurstAnswered, BurstRead, BurstCounted, Waits

(* What leaves all that a burst is made of alone.                          *)
LEMMA BurstAside ==
  ASSUME BurstInv,
         UNCHANGED <<irq, status, pc, call, script, pos, ret, buf, gdata, sr, cmd, bstmr, fifo, rw, acked, clean>>
  PROVE  BurstInv'
<1>1. UNCHANGED <<Burst, Now, Reading, Came>>
  BY DEF Burst, Now, Reading, Came
<1>2. OnItsWay' = OnItsWay /\ Moved' = Moved
  BY <1>1 DEF OnItsWay, Moved
<1>3. PolledBurst' = PolledBurst /\ IrqBurst' = IrqBurst
  BY <1>1, <1>2 DEF PolledBurst, IrqBurst
<1>4. QED
  BY <1>1, <1>2, <1>3 DEF BurstInv, BurstSettings, BurstClear, BurstAnswered, BurstRead, BurstCounted

(* The byte that a burst waits for is the burst.                           *)
LEMMA BurstNow ==
  ASSUME I2cInv, pc \in Waits, Burst
  PROVE  Now.kind = call.fn /\ pos = 1 /\ (OnItsWay => cmd.byte.kind = call.fn /\ cmd.at = 1)
<1>1. script = <<Byte(call.fn, 0)>> /\ pos = 1
  BY DEF I2cInv, Waits
<1>2. Now.kind = call.fn
  BY <1>1 DEF Now, Byte
<1>3. QED
  BY <1>1, <1>2 DEF OnItsWay

(* The end of a single byte, or of a burst that was refused.               *)
LEMMA BurstEnded ==
  ASSUME I2cInv, BurstInv, cmd # NoCmd, cmd' = NoCmd,
         UNCHANGED <<irq, pc, call, script, pos, ret, buf, bstmr, clean>>,
         cmd.byte.kind \notin BurstKinds \/ UNCHANGED acked
  PROVE  BurstInv'
<1>1. UNCHANGED <<Burst, Reading>>
  BY DEF Burst, Reading
<1>2. ASSUME pc \in Waits, clean, Burst PROVE ~OnItsWay' /\ ~Moved'
  <2>1. OnItsWay /\ 1 .. pos # 1 .. pos - 1
    BY <1>2, WhereByteIs
  <2>2. cmd.byte.kind \in BurstKinds
    BY <1>2, <2>1, BurstNow DEF Burst
  <2>3. QED
    BY <2>1, <2>2 DEF OnItsWay, Moved
<1>3. BurstSettings' /\ BurstCounted'
  BY <1>1 DEF BurstInv, BurstSettings, BurstCounted
<1>4. BurstClear'
  BY <1>1 DEF BurstClear, I2cInv
<1>5. BurstAnswered' /\ BurstRead'
  <2>1. Reading => Burst /\ clean
    BY DEF Reading, Burst, BurstKinds
  <2>2. QED
    BY <1>1, <1>2, <2>1 DEF BurstAnswered, BurstRead, Waits
<1>6. QED
  BY <1>3, <1>4, <1>5 DEF BurstInv

LEMMA BurstSentData == I2cInv /\ BurstInv /\ BurstSent => BurstInv'
<1> SUFFICES ASSUME I2cInv, BurstInv, BurstSent PROVE BurstInv'
  OBVIOUS
<1>1. /\ UNCHANGED <<irq, pc, call, script, pos, ret, buf, bstmr, clean>> /\ "TD" \in sr'
      /\ cmd # NoCmd /\ cmd.byte.kind = "burstTx"
  BY DEF BurstSent, config, caller
<1>2. UNCHANGED <<Burst, Reading>>
  BY <1>1 DEF Burst, Reading
<1>3. BurstSettings' /\ BurstCounted' /\ BurstClear' /\ BurstAnswered'
  BY <1>1, <1>2 DEF BurstInv, BurstSettings, BurstCounted, BurstClear, BurstAnswered, I2cInv
<1>4. ~(Reading /\ pc \in Waits)
  <2>1. Reading => Burst /\ clean /\ call.fn = "burstRx"
    BY DEF Reading, Burst, BurstKinds
  <2>2. QED
    BY <1>1, <2>1, WhereByteIs, BurstNow
<1>5. BurstRead'
  BY <1>1, <1>2, <1>4 DEF BurstRead
<1>6. QED
  BY <1>3, <1>5 DEF BurstInv

(* The next byte of a burst goes to the end of the FIFO.                   *)
LEMMA BurstByteData == I2cInv /\ TypeInv /\ BurstInv /\ BurstByte => BurstInv'
<1> SUFFICES ASSUME I2cInv, TypeInv, BurstInv, BurstByte PROVE BurstInv'
  OBVIOUS
<1> DEFINE k == cmd.moved + 1
<1>1. /\ UNCHANGED <<irq, status, pc, call, script, pos, ret, buf, gdata, bstmr, clean>>
      /\ cmd # NoCmd /\ rw' = TRUE
      /\ fifo' = Append(fifo, IF cmd.at = 0 THEN 0 ELSE k)
      /\ sr' = sr \cup (IF k = bstmr.thr THEN {"BSTTHOD"} ELSE {})
                  \cup (IF k >= bstmr.total THEN {"TD"} ELSE {})
      /\ cmd' = IF k >= bstmr.total THEN NoCmd ELSE [cmd EXCEPT !.moved = k]
  BY DEF BurstByte, config, caller
<1>2. UNCHANGED <<Burst, Reading>>
  BY <1>1 DEF Burst, Reading
<1>3. BurstSettings' /\ BurstCounted' /\ BurstClear'
  BY <1>1, <1>2 DEF BurstInv, BurstSettings, BurstCounted, BurstClear, I2cInv
<1>4. k < bstmr.total => cmd' # NoCmd /\ cmd'.moved = k
  <2>1. ASSUME k < bstmr.total PROVE cmd' = [cmd EXCEPT !.moved = k]
    BY <1>1, <2>1 DEF TypeInv, HardwareTypes, CallerTypes
  <2>2. cmd \in [at : Nat, byte : ByteSet, moved : 0 .. MaxNum]
    BY <1>1 DEF TypeInv, HardwareTypes
  <2>3. k < bstmr.total => cmd'.byte.kind = "burstRx" /\ cmd'.moved = k
    BY <2>1, <2>2 DEF BurstByte
  <2>4. QED
    BY <2>3 DEF NoCmd, Byte
<1>5. BurstAnswered'
  <2>1. ASSUME Moved' PROVE "TD" \in sr'
    <3>1. ~(k < bstmr.total)
      BY <1>4, <2>1 DEF Moved
    <3>2. k >= bstmr.total
      BY <3>1, I2cAssumption DEF TypeInv, CallerTypes, HardwareTypes, NoCmd
    <3>3. QED
      BY <1>1, <3>2
  <2>2. QED
    BY <2>1 DEF BurstAnswered
<1>6. ASSUME Reading, pc \in Waits PROVE (BurstRead)'
  <2>1. /\ call.num \in 1 .. MaxNum /\ call.thr \in 1 .. call.num /\ MaxNum \in Nat
        /\ Burst /\ fifo \in Seq(Nat) /\ cmd.moved \in Nat /\ sr \subseteq Bits
    BY <1>6, ReadingTypes
  <2>2. OnItsWay /\ cmd.at = 1 /\ "TD" \notin sr
    BY <1>1, <1>6, <2>1, WhereByteIs, BurstNow DEF Reading, OnItsWay, CrEnable
  <2>3. bstmr.total = call.num /\ bstmr.thr = call.thr
    BY <1>6, <2>1 DEF BurstInv, BurstSettings, Reading
  <2>4. cmd.moved < call.num /\ (IF irq THEN IrqBurst ELSE PolledBurst)
    BY <1>1, <1>6, <2>2 DEF BurstInv, BurstRead
  <2>5. Came = cmd.moved /\ Came' = k /\ k \in Nat
    BY <1>1, <1>4, <2>1, <2>3, <2>4 DEF Came
  <2>6. fifo' = Append(fifo, k)
    BY <1>1, <2>2
  <2>7. ASSUME NEW t \in Nat, InOrder(fifo, t, Came), t <= Came PROVE InOrder(fifo', t, k)
    <3>1. Len(fifo) = cmd.moved - t /\ Len(fifo) \in Nat
      BY <2>1, <2>5, <2>7 DEF InOrder
    <3>2. /\ Len(fifo') = Len(fifo) + 1 /\ fifo'[Len(fifo) + 1] = k
          /\ \A i \in 1 .. Len(fifo) : fifo'[i] = fifo[i]
      BY <2>1, <2>6, AppendProperties
    <3>3. ASSUME NEW i \in 1 .. Len(fifo') PROVE fifo'[i] = t + i
      <4>1. CASE i \in 1 .. Len(fifo)
        BY <2>7, <3>2, <4>1 DEF InOrder
      <4>2. CASE i = Len(fifo) + 1
        BY <2>1, <3>1, <3>2, <4>2
      <4>3. QED
        BY <3>1, <3>2, <4>1, <4>2
    <3>4. Len(fifo') = k - t
      BY <2>1, <3>1, <3>2
    <3>5. QED
      BY <3>3, <3>4 DEF InOrder
  <2>8. "BSTTHOD" \in sr' <=> "BSTTHOD" \in sr \/ k = call.thr
    BY <1>1, <2>3
  <2>9. Moved' => "TD" \in sr'
    <3>1. Moved' => k >= call.num
      BY <1>4, <2>1, <2>3, <2>5 DEF Moved
    <3>2. QED
      BY <1>1, <2>3, <3>1
  <2>10. cmd' # NoCmd => cmd'.moved < call'.num
    BY <1>1, <1>4, <2>1, <2>3, <2>5
  <2>11. ASSUME irq PROVE (IrqBurst)'
    <3>1. CASE InOrder(fifo, 0, Came) /\ ("BSTTHOD" \in sr <=> Came >= call.thr)
      <4>1. InOrder(fifo', 0, k) /\ ("BSTTHOD" \in sr' <=> k >= call.thr)
        BY <2>1, <2>5, <2>7, <2>8, <3>1
      <4>2. QED
        BY <1>1, <2>5, <2>9, <4>1 DEF IrqBurst
    <3>2. CASE InOrder(fifo, call.thr, Came) /\ Came >= call.thr /\ Holds(gdata, call.thr) /\ "BSTTHOD" \notin sr
      <4>1. InOrder(fifo', call.thr, k) /\ k >= call.thr /\ "BSTTHOD" \notin sr'
        BY <2>1, <2>5, <2>7, <2>8, <3>2
      <4>2. QED
        BY <1>1, <2>5, <2>9, <3>2, <4>1 DEF IrqBurst
    <3>3. QED
      BY <1>1, <2>4, <2>11, <3>1, <3>2 DEF IrqBurst, Moved
  <2>12. ASSUME ~irq PROVE (PolledBurst)'
    <3>1. CASE pc = "td"
      <4>1. Came >= call.thr /\ InOrder(fifo, call.thr, Came) /\ Holds(buf, call.thr)
        BY <2>4, <2>12, <3>1 DEF PolledBurst
      <4>2. InOrder(fifo', call.thr, k) /\ k >= call.thr
        BY <2>1, <2>5, <2>7, <4>1
      <4>3. QED
        BY <1>1, <2>5, <3>1, <4>1, <4>2 DEF PolledBurst
    <3>2. CASE pc # "td"
      <4>1. InOrder(fifo, 0, Came) /\ ("BSTTHOD" \in sr => Came >= call.thr)
        BY <2>4, <2>12, <3>2 DEF PolledBurst
      <4>2. InOrder(fifo', 0, k) /\ ("BSTTHOD" \in sr' => k >= call.thr)
        BY <2>1, <2>5, <2>7, <2>8, <4>1
      <4>3. QED
        BY <1>1, <2>5, <3>2, <4>2 DEF PolledBurst
    <3>3. QED
      BY <3>1, <3>2
  <2>13. QED
    BY <1>1, <2>10, <2>11, <2>12 DEF BurstRead
<1>7. BurstRead'
  BY <1>1, <1>2, <1>6 DEF BurstRead
<1>8. QED
  BY <1>3, <1>5, <1>7 DEF BurstInv

(* The handler takes what has come in: up to the threshold, the rest, or   *)
(* all of it when the threshold's interrupt and the last came together.    *)
LEMMA IsrReads ==
  ASSUME I2cInv, TypeInv, BurstInv, Isr, Reading, pc = "wait", OnItsWay \/ Moved
  PROVE  (IrqBurst)'
<1>1. /\ UNCHANGED <<irq, pc, call, script, pos, ret, buf, cmd, bstmr, rw, acked, clean>>
      /\ irq /\ sr # {} /\ sr' = {}
      /\ gdata' = Drained(gdata, IsrCells[1], IsrCells[2])
      /\ fifo' = FifoAfter(IsrCells[1], IsrCells[2])
  BY DEF Isr, config, caller, bus, ghosts, Reading
<1>2. /\ call.num \in 1 .. MaxNum /\ call.thr \in 1 .. call.num /\ MaxNum \in Nat
      /\ Burst /\ fifo \in Seq(Nat) /\ cmd.moved \in Nat /\ sr \subseteq Bits
      /\ Came \in Nat
  BY ReadingTypes
<1>3. /\ bstmr.total = call.num /\ bstmr.thr = call.thr
      /\ Came >= 1 => rw
      /\ cmd # NoCmd => cmd.moved < call.num
      /\ IrqBurst
  BY <1>1, <1>2 DEF BurstInv, BurstSettings, BurstRead, Reading, Waits
<1>4. UNCHANGED Came /\ (Moved => Moved') /\ (Moved' => Moved)
  BY <1>1, WhereByteIs DEF Came, Moved, Reading, Waits
<1>5. Came <= call.num /\ (Moved => Came = call.num)
  BY <1>2, <1>3 DEF Came, Moved
<1>6. OnItsWay => sr \subseteq {"BSTTHOD"}
  BY <1>2 DEF OnItsWay, CrEnable, Bits
<1>7. ~OnItsWay \/ ~Moved
  BY DEF OnItsWay, Moved
<1>8. CASE OnItsWay
  <2>1. "BSTTHOD" \in sr /\ "TD" \notin sr
    BY <1>1, <1>6, <1>8
  <2>2. InOrder(fifo, 0, Came) /\ Came >= call.thr
    BY <1>3, <1>7, <1>8, <2>1 DEF IrqBurst
  <2>3. IsrCells[1] = 1 /\ IsrCells[2] = call.thr
    <3>1. rw
      BY <1>2, <1>3, <2>2
    <3>2. IsrCells = <<1, call.thr>>
      BY <1>3, <2>1, <3>1 DEF IsrCells
    <3>3. QED
      BY <3>2
  <2>4. Holds(gdata', call.thr) /\ InOrder(fifo', call.thr, Came)
    <3>1. Holds(gdata, 0) /\ 0 + 1 = 1 /\ call.thr \in 0 .. MaxNum /\ call.thr <= Came
      BY <1>2, <2>2 DEF Holds
    <3>2. /\ Holds(Drained(gdata, 0 + 1, call.thr), call.thr)
          /\ InOrder(FifoAfter(0 + 1, call.thr), call.thr, Came)
      BY <1>2, <2>2, <3>1, DrainHolds
    <3>3. QED
      BY <1>1, <2>3, <3>1, <3>2
  <2>5. QED
    BY <1>1, <1>4, <1>7, <1>8, <2>2, <2>4 DEF IrqBurst
<1>9. CASE Moved
  <2>1. Came = call.num /\ Came >= call.thr /\ rw
    BY <1>2, <1>3, <1>5, <1>9
  <2>2. "TD" \in sr
    <3>1. "TD" \in sr \/ sr = {}
      BY <1>1, <1>2, <1>9 DEF BurstInv, BurstAnswered, Reading
    <3>2. QED
      BY <1>1, <3>1
  <2>3. Holds(gdata', call.num)
    <3>1. CASE InOrder(fifo, 0, Came) /\ ("BSTTHOD" \in sr <=> Came >= call.thr)
      <4>1. IsrCells = <<1, call.num>>
        BY <1>3, <2>1, <2>2, <3>1 DEF IsrCells
      <4>2. Holds(gdata, 0) /\ 0 + 1 = 1 /\ call.num \in 0 .. MaxNum /\ call.num <= Came
        BY <1>2, <2>1 DEF Holds
      <4>3. Holds(Drained(gdata, 0 + 1, call.num), call.num)
        BY <1>2, <3>1, <4>2, DrainHolds
      <4>4. QED
        BY <1>1, <4>1, <4>2, <4>3
    <3>2. CASE InOrder(fifo, call.thr, Came) /\ Holds(gdata, call.thr) /\ "BSTTHOD" \notin sr
      <4>1. IsrCells = <<call.thr + 1, call.num>>
        BY <1>3, <2>1, <2>2, <3>2 DEF IsrCells
      <4>2. call.num \in call.thr .. MaxNum /\ call.num <= Came /\ call.thr \in Nat
        BY <1>2, <2>1
      <4>3. Holds(Drained(gdata, call.thr + 1, call.num), call.num)
        BY <1>2, <3>2, <4>2, DrainHolds
      <4>4. QED
        BY <1>1, <4>1, <4>3
    <3>3. QED
      BY <1>3, <2>2, <3>1, <3>2 DEF IrqBurst
  <2>4. QED
    BY <1>1, <1>4, <1>9, <2>3 DEF IrqBurst
<1>10. QED
  BY <1>8, <1>9

LEMMA IsrBurst == I2cInv /\ TypeInv /\ BurstInv /\ Isr => BurstInv'
<1> SUFFICES ASSUME I2cInv, TypeInv, BurstInv, Isr PROVE BurstInv'
  OBVIOUS
<1>1. /\ UNCHANGED <<irq, pc, call, script, pos, ret, buf, cmd, bstmr, rw, acked, clean>>
      /\ irq /\ sr # {} /\ sr' = {} /\ status' = SrValue
  BY DEF Isr, config, caller, bus, ghosts
<1>2. UNCHANGED <<Burst, Reading, Came>>
  BY <1>1 DEF Burst, Reading, Came
<1>3. BurstSettings' /\ BurstCounted'
  BY <1>1, <1>2 DEF BurstInv, BurstSettings, BurstCounted
<1>4. BurstClear'
  BY <1>1, <1>2 DEF BurstInv, BurstClear
<1>5. ASSUME pc \in Waits, clean PROVE (OnItsWay' => OnItsWay) /\ (Moved' => Moved)
  BY <1>1, <1>5, WhereByteIs DEF OnItsWay, Moved
<1>6. BurstAnswered'
  <2>1. ASSUME Burst, clean, pc = "wait", Moved' PROVE "TD" \in status'
    <3>1. "TD" \in sr
      BY <1>1, <1>5, <2>1 DEF BurstInv, BurstAnswered, Waits
    <3>2. QED
      BY <1>1, <3>1 DEF SrValue
  <2>2. QED
    BY <1>1, <1>2, <2>1 DEF BurstAnswered
<1>7. BurstRead'
  <2>1. ASSUME Reading, pc \in Waits, (OnItsWay \/ Moved)' PROVE pc = "wait" /\ (OnItsWay \/ Moved) /\ (IrqBurst)'
    <3>1. pc = "wait" /\ (OnItsWay \/ Moved)
      BY <1>1, <1>5, <2>1 DEF Reading, BurstInv, BurstSettings, Waits
    <3>2. QED
      BY <2>1, <3>1, IsrReads
  <2>2. QED
    BY <1>1, <1>2, <2>1 DEF BurstInv, BurstRead
<1>8. QED
  BY <1>3, <1>4, <1>6, <1>7 DEF BurstInv

LEMMA HardwareBurst == I2cInv /\ TypeInv /\ BurstInv /\ (Hardware \/ UNCHANGED vars) => BurstInv'
<1> SUFFICES ASSUME I2cInv, TypeInv, BurstInv PROVE Hardware \/ UNCHANGED vars => BurstInv'
  OBVIOUS
<1> USE DEF config, caller, chip, ghosts, bus
<1>1. CASE ByteMoved
  BY <1>1, BurstEnded DEF ByteMoved, Single
<1>2. CASE ByteRefused
  BY <1>2, BurstEnded DEF ByteRefused, Single
<1>3. CASE ArbitrationLost
  BY <1>3, BurstEnded DEF ArbitrationLost, Single
<1>4. CASE BurstRefused
  BY <1>4, BurstEnded DEF BurstRefused
<1>5. CASE OtherMaster
  BY <1>5, BurstAside DEF OtherMaster
<1>6. CASE UNCHANGED vars
  BY <1>6, BurstAside DEF vars
<1>7. QED
  BY <1>1, <1>2, <1>3, <1>4, <1>5, <1>6, BurstByteData, BurstSentData DEF Hardware

(* The caller sets the burst up and starts it.                             *)
LEMMA BurstStartData == I2cInv /\ TypeInv /\ BurstInv /\ (BurstSetup \/ ClearStatus \/ WriteCr) => BurstInv'
<1> SUFFICES ASSUME I2cInv, TypeInv, BurstInv PROVE BurstSetup \/ ClearStatus \/ WriteCr => BurstInv'
  OBVIOUS
<1> USE DEF BurstInv, BurstSettings, BurstClear, BurstAnswered, BurstRead, BurstCounted, Waits
<1>1. CASE BurstSetup
  <2>1. UNCHANGED call /\ pc' = "clear" /\ bstmr'.total = call.num /\ (call.fn = "burstRx" => bstmr'.thr = call.thr)
    BY <1>1 DEF BurstSetup
  <2>2. QED
    BY <2>1
<1>2. CASE ClearStatus
  <2>1. UNCHANGED <<call, bstmr, sr, fifo, irq>> /\ pc = "clear" /\ pc' = "write"
    BY <1>2 DEF ClearStatus, chip, config
  <2>2. UNCHANGED Burst
    BY <2>1 DEF Burst
  <2>3. Burst /\ clean' => sr = {} /\ fifo = <<>>
    <3>1. Burst => pos = 1
      BY <2>1 DEF I2cInv
    <3>2. QED
      BY <1>2, <3>1 DEF ClearStatus
  <2>4. QED
    BY <2>1, <2>2, <2>3
<1>3. CASE WriteCr
  <2>1. /\ UNCHANGED <<irq, call, script, pos, bstmr, sr, fifo, clean>> /\ pc = "write" /\ pc' = "wait"
        /\ cmd' = [at |-> pos, byte |-> Now, moved |-> 0]
    BY <1>3 DEF WriteCr, config, ghosts
  <2>2. UNCHANGED <<Burst, Reading>> /\ cmd' # NoCmd /\ cmd'.moved = 0 /\ Came' = 0
    BY <2>1 DEF Burst, Reading, NoCmd, I2cInv, Came
  <2>3. ~Moved'
    BY <2>2 DEF Moved
  <2>4. BurstSettings'
    BY <2>1, <2>2
  <2>5. ASSUME Reading PROVE 0 < call.num /\ 0 < call.thr /\ sr = {} /\ InOrder(fifo, 0, 0)
    <3>1. Burst /\ call.num \in 1 .. MaxNum /\ call.thr \in 1 .. call.num /\ MaxNum \in Nat
      BY <2>5, ReadingTypes
    <3>2. sr = {} /\ fifo = <<>>
      BY <2>1, <2>5, <3>1 DEF Reading
    <3>3. QED
      BY <3>1, <3>2 DEF InOrder
  <2>6. ASSUME Reading PROVE IrqBurst' /\ PolledBurst'
    <3>1. sr' = {} /\ InOrder(fifo', 0, Came') /\ ~(Came' >= call'.thr)
      BY <2>1, <2>2, <2>5, <2>6, ReadingTypes
    <3>2. QED
      BY <2>1, <2>3, <3>1 DEF IrqBurst, PolledBurst
  <2>7. BurstRead'
    BY <2>1, <2>2, <2>5, <2>6
  <2>8. QED
    BY <2>1, <2>3, <2>4, <2>7
<1>4. QED
  BY <1>1, <1>2, <1>3

(* A turn of the loop: whatever it clears, the FIFO stays as it is.        *)
LEMMA BurstTurn ==
  ASSUME I2cInv, BurstInv, pc \in Waits, clean, Look, UNCHANGED <<irq, call, script, pos, cmd, acked>>
  PROVE  (OnItsWay' => OnItsWay) /\ (Moved' => Moved) /\ (irq => UNCHANGED <<sr, status>>) /\ (~irq => sr' = {})
BY WhereByteIs DEF OnItsWay, Moved, Look, Seen

LEMMA WaitAgainBurst == I2cInv /\ TypeInv /\ BurstInv /\ WaitAgain => BurstInv'
<1> SUFFICES ASSUME I2cInv, TypeInv, BurstInv, WaitAgain PROVE BurstInv'
  OBVIOUS
<1>1. /\ UNCHANGED <<irq, pc, call, script, pos, buf, ret, gdata, bstmr, fifo, cmd, rw, acked, clean>>
      /\ pc \in {"busy", "wait", "td"} /\ Look
  BY DEF WaitAgain, config, caller, bus, ghosts
<1>2. UNCHANGED <<Burst, Reading, Came>>
  BY <1>1 DEF Burst, Reading, Came
<1>3. BurstSettings' /\ BurstCounted' /\ BurstClear'
  BY <1>1, <1>2 DEF BurstInv, BurstSettings, BurstCounted, BurstClear
<1>4. ASSUME pc \in Waits, clean
      PROVE  (OnItsWay' => OnItsWay) /\ (Moved' => Moved) /\ (irq => UNCHANGED <<sr, status>>) /\ (~irq => sr' = {})
  BY <1>1, <1>4, BurstTurn
<1>5. BurstAnswered'
  BY <1>1, <1>2, <1>4 DEF BurstInv, BurstAnswered, Waits
<1>6. ASSUME Reading, pc \in Waits, (OnItsWay \/ Moved)' PROVE (BurstRead)'
  <2>1. clean /\ (OnItsWay \/ Moved)
    BY <1>4, <1>6 DEF Reading
  <2>2. (Came >= 1 => rw) /\ (cmd # NoCmd => cmd.moved < call.num) /\ (IF irq THEN IrqBurst ELSE PolledBurst)
    BY <1>6, <2>1 DEF BurstInv, BurstRead
  <2>3. ASSUME irq PROVE Moved' <=> Moved
    BY <1>1, <1>4, <1>6, <2>1, <2>3 DEF Moved
  <2>4. ASSUME irq PROVE (IrqBurst)'
    BY <1>1, <1>2, <1>4, <1>6, <2>1, <2>2, <2>3, <2>4 DEF IrqBurst
  <2>5. ASSUME ~irq PROVE (PolledBurst)'
    BY <1>1, <1>2, <1>4, <1>6, <2>1, <2>2, <2>5 DEF PolledBurst
  <2>6. QED
    BY <1>1, <1>2, <2>2, <2>4, <2>5 DEF BurstRead
<1>7. BurstRead'
  BY <1>1, <1>2, <1>6 DEF BurstRead
<1>8. QED
  BY <1>3, <1>5, <1>7 DEF BurstInv

(* A burst that returns its count: what the wait saw means that all has    *)
(* come.                                                                   *)
LEMMA BurstReturns ==
  ASSUME pc' = "return", Reading' => Holds(buf, call.num)'
  PROVE  BurstInv'
BY DEF BurstInv, BurstSettings, BurstClear, BurstAnswered, BurstRead, BurstCounted, Waits

LEMMA BurstThresholdData == I2cInv /\ TypeInv /\ BurstInv /\ BurstThreshold => BurstInv'
<1> SUFFICES ASSUME I2cInv, TypeInv, BurstInv, BurstThreshold PROVE BurstInv'
  OBVIOUS
<1> DEFINE to == IF "TD" \in Seen THEN bstmr.total ELSE bstmr.thr
<1>1. /\ UNCHANGED <<irq, call, script, gdata, bstmr, cmd, rw, acked, clean>>
      /\ pc = "wait" /\ call.fn = "burstRx" /\ ~irq /\ Matches /\ Look
      /\ buf' = Drained(buf, 1, to) /\ fifo' = FifoAfter(1, to)
  <2>1. UNCHANGED <<call, script>>
    BY DEF BurstThreshold, Return
  <2>2. QED
    BY <2>1 DEF BurstThreshold, config, bus, ghosts
<1>2. UNCHANGED <<Burst, Reading, Came>> /\ Burst
  BY <1>1 DEF Burst, Reading, Came, BurstKinds
<1>3. "BSTTHOD" \in sr
  <2>1. ThresholdWait
    BY <1>1 DEF ThresholdWait
  <2>2. "BSTTHOD" \in Seen
    BY <1>1, <2>1 DEF Matches, Want, Mask
  <2>3. QED
    BY <1>1, <2>2 DEF Seen, SrValue
<1>4. ASSUME Reading, OnItsWay \/ Moved, NEW n \in call.thr .. call.num, n <= Came, to = n
      PROVE  Holds(buf', n) /\ InOrder(fifo', n, Came)
  <2>1. /\ call.num \in 1 .. MaxNum /\ call.thr \in 1 .. call.num /\ MaxNum \in Nat
        /\ fifo \in Seq(Nat) /\ Came \in Nat
    BY <1>4, ReadingTypes
  <2>2. InOrder(fifo, 0, Came) /\ Holds(buf, 0) /\ n \in 0 .. MaxNum /\ 0 + 1 = 1
    BY <1>1, <1>4, <2>1 DEF BurstInv, BurstRead, PolledBurst, Waits, Holds
  <2>3. Holds(Drained(buf, 0 + 1, n), n) /\ InOrder(FifoAfter(0 + 1, n), n, Came)
    BY <1>4, <2>1, <2>2, DrainHolds
  <2>4. QED
    BY <1>1, <1>4, <2>2, <2>3
<1>5. Burst => bstmr.total = call.num /\ bstmr.thr = call.thr
  BY <1>1 DEF BurstInv, BurstSettings, Waits
<1>6. CASE "TD" \in Seen
  <2>1. pc' = "return"
    BY <1>6 DEF BurstThreshold, Return
  <2>2. ASSUME Reading PROVE Holds(buf', call.num)
    <3>1. Moved
      BY <1>1, <1>6, <2>2, MatchMeansMoved DEF Reading, Waits
    <3>2. to = call.num /\ Came = call.num /\ call.num \in call.thr .. call.num
      BY <1>2, <1>5, <1>6, <2>2, <3>1, ReadingTypes DEF Moved, Came
    <3> HIDE DEF to
    <3>3. QED
      BY <1>4, <2>2, <3>1, <3>2, ReadingTypes
  <2>3. QED
    BY <1>1, <1>2, <2>1, <2>2, BurstReturns
<1>7. CASE "TD" \notin Seen
  <2>1. pc' = "td" /\ UNCHANGED pos
    BY <1>7 DEF BurstThreshold
  <2>2. BurstSettings'
    BY <1>1, <1>2, <1>5, <2>1 DEF BurstSettings, Waits
  <2>3. ASSUME Reading, (OnItsWay \/ Moved)' PROVE (BurstRead)'
    <3>1. OnItsWay \/ Moved
      BY <1>1, <2>1, <2>3, BurstTurn DEF Reading, Waits
    <3>2. (Came >= 1 => rw) /\ (cmd # NoCmd => cmd.moved < call.num) /\ Came >= call.thr
      BY <1>1, <1>3, <2>3, <3>1 DEF BurstInv, BurstRead, PolledBurst, Waits
    <3>3. to = call.thr /\ call.thr \in call.thr .. call.num /\ call.thr <= Came
      BY <1>2, <1>5, <1>7, <2>3, <3>2, ReadingTypes
    <3> HIDE DEF to
    <3>4. Holds(buf', call.thr) /\ InOrder(fifo', call.thr, Came)
      BY <1>4, <2>3, <3>1, <3>3
    <3>5. QED
      BY <1>1, <1>2, <2>1, <3>2, <3>4 DEF BurstRead, PolledBurst
  <2>4. BurstRead'
    BY <1>2, <2>3 DEF BurstRead
  <2>5. QED
    BY <2>1, <2>2, <2>4 DEF BurstInv, BurstClear, BurstAnswered, BurstCounted
<1>8. QED
  BY <1>6, <1>7

LEMMA BurstRestData == I2cInv /\ TypeInv /\ BurstInv /\ (BurstRest \/ BurstDone) => BurstInv'
<1> SUFFICES ASSUME I2cInv, TypeInv, BurstInv PROVE BurstRest \/ BurstDone => BurstInv'
  OBVIOUS
<1>1. CASE BurstRest
  <2>1. /\ UNCHANGED <<call, clean>> /\ pc = "td" /\ pc' = "return" /\ Matches
        /\ buf' = Drained(buf, bstmr.thr + 1, bstmr.total)
    BY <1>1 DEF BurstRest, Return, ghosts
  <2>2. ASSUME Reading PROVE Holds(buf', call.num)
    <3>1. /\ call.num \in 1 .. MaxNum /\ call.thr \in 1 .. call.num /\ MaxNum \in Nat
          /\ fifo \in Seq(Nat) /\ Came \in Nat /\ Burst
      BY <2>2, ReadingTypes
    <3>2. Moved
      BY <2>1, <2>2, MatchMeansMoved DEF Reading, Waits, ThresholdWait
    <3>3. Came = call.num /\ bstmr.total = call.num /\ bstmr.thr = call.thr
      BY <2>1, <2>2, <3>1, <3>2 DEF Moved, Came, BurstInv, BurstSettings, Waits, Reading
    <3>4. InOrder(fifo, call.thr, Came) /\ Holds(buf, call.thr)
      BY <2>1, <2>2, <3>2 DEF BurstInv, BurstSettings, BurstRead, PolledBurst, Waits
    <3>5. call.num \in call.thr .. MaxNum /\ call.thr \in Nat /\ call.num <= Came
      BY <3>1, <3>3
    <3>6. Holds(Drained(buf, call.thr + 1, call.num), call.num)
      BY <3>1, <3>4, <3>5, DrainHolds
    <3>7. QED
      BY <2>1, <3>3, <3>6
  <2>3. Reading' => Reading
    BY <2>1 DEF Reading
  <2>4. QED
    BY <2>1, <2>2, <2>3, BurstReturns
<1>2. CASE BurstDone
  <2>1. UNCHANGED <<call, clean>> /\ pc = "wait" /\ pc' = "return" /\ Burst /\ Matches
    BY <1>2 DEF BurstDone, Return, ghosts
  <2>2. ASSUME Reading PROVE Holds(buf', call.num)
    <3>1. /\ call.num \in 1 .. MaxNum /\ call.thr \in 1 .. call.num /\ MaxNum \in Nat
          /\ call.fn = "burstRx" /\ clean
      BY <2>2, ReadingTypes DEF Reading
    <3>2. irq /\ ~ThresholdWait /\ buf' = [i \in Cells |-> IF i <= bstmr.total THEN gdata[i] ELSE buf[i]]
      BY <1>2, <3>1 DEF BurstDone, ThresholdWait
    <3>3. Moved /\ "TD" \in status
      BY <2>1, <3>1, <3>2, MatchMeansMoved, WaitWantsTd DEF Waits, Seen
    <3>4. "TD" \notin sr
      BY <3>2, <3>3 DEF Moved, CrEnable
    <3>5. IrqBurst /\ bstmr.total = call.num
      BY <2>1, <2>2, <3>2, <3>3 DEF BurstInv, BurstSettings, BurstRead, Waits
    <3>6. Holds(gdata, call.num)
      BY <3>3, <3>4, <3>5 DEF IrqBurst
    <3>7. QED
      BY <3>1, <3>2, <3>5, <3>6 DEF Holds, Cells
  <2>3. Reading' => Reading
    BY <2>1 DEF Reading
  <2>4. QED
    BY <2>1, <2>2, <2>3, BurstReturns
<1>3. QED
  BY <1>1, <1>2

LEMMA BurstInvariance == Spec => []BurstInv
<1>1. ASSUME I2cInv, TypeInv, BurstInv, [Next]_vars PROVE BurstInv'
  <2>1. ASSUME NEW c \in Calls, Call(c) PROVE BurstInv'
    BY <2>1, BurstIdle DEF Call, Burst
  <2>2. CASE BusFree
    BY <1>1, <2>2, BurstIdle DEF BusFree, BurstInv, BurstSettings, Burst
  <2>3. CASE BusBusy \/ GiveUp \/ SendStop \/ Returned
    BY <2>3, BurstIdle DEF BusBusy, GiveUp, SendStop, Returned, Return
  <2>4. CASE Configure \/ I2cInit
    BY <2>4, BurstIdle DEF Configure, I2cInit, caller
  <2>5. CASE ByteDone \/ LastDone
    BY <2>5, BurstIdle DEF ByteDone, LastDone, Return, Burst
  <2>6. QED
    BY <1>1, <2>1, <2>2, <2>3, <2>4, <2>5, HardwareBurst, IsrBurst, BurstStartData,
       WaitAgainBurst, BurstThresholdData, BurstRestData DEF Next, Caller
<1>2. QED
  BY <1>1, BurstInitial, I2cInvariance, TypeInvariance, PTL DEF Spec

-----------------------------------------------------------------------------
(* The bits that a wait outside bursts asks for.                           *)
LEMMA WantOfByte ==
  ASSUME TypeInv, pc = "wait", ~Burst
  PROVE  Want = Answer(Now.kind) \cup (IF Now.kind \in ReadKinds THEN {"RW"} ELSE {})
<1>1. ~ThresholdWait
  BY DEF ThresholdWait, Burst, BurstKinds
<1>2. QED
  BY <1>1 DEF Want, Answer

(* Whoever reads SR, the loop or the handler, and in whatever order the    *)
(* two and the controller come: from the moment a byte has been moved      *)
(* until its wait ends, its answer is in SR or in dev->status.             *)
THEOREM NoAnswerLostEver == Spec => []NoAnswerLost
<1>1. ASSUME I2cInv, TypeInv, ByteInv, BurstInv PROVE NoAnswerLost
  <2> SUFFICES ASSUME pc = "wait", clean, pos \in acked, ~(Burst /\ ~irq)
               PROVE  Want \ {"RW"} \subseteq sr \/ Want \subseteq status
    BY DEF NoAnswerLost
  <2>1. Moved
    <3>1. acked # 1 .. pos - 1
      BY <1>1 DEF I2cInv
    <3>2. acked = 1 .. pos
      BY <1>1, <3>1, WhereByteIs DEF Waits
    <3>3. ~OnItsWay /\ ~NotMoved
      BY <3>1 DEF OnItsWay, NotMoved
    <3>4. QED
      BY <1>1, <3>3 DEF I2cInv, Waits
  <2>2. CASE Burst
    <3>1. Want = {"TD"}
      BY <2>2 DEF Want, ThresholdWait
    <3>2. "TD" \in sr \/ "TD" \in status
      BY <1>1, <2>1, <2>2 DEF BurstInv, BurstAnswered
    <3>3. QED
      BY <3>1, <3>2
  <2>3. CASE ~Burst
    <3>1. Want = Answer(Now.kind) \cup (IF Now.kind \in ReadKinds THEN {"RW"} ELSE {})
      BY <1>1, <2>3, WantOfByte
    <3>2. BusAfter(pos) /\ AnswerHeld
      BY <1>1, <2>1, <2>3 DEF ByteInv, ByteAnswered
    <3>3. CASE sr = Answer(Now.kind)
      BY <3>1, <3>3
    <3>4. CASE status \cap CrEnable = Answer(Now.kind) /\ ("RW" \in status <=> rw)
      <4>1. Now.kind \in ReadKinds => rw
        BY <3>2 DEF BusAfter, Now, ReadSide
      <4>2. QED
        BY <3>1, <3>4, <4>1
    <3>5. QED
      BY <3>2, <3>3, <3>4 DEF AnswerHeld
  <2>4. QED
    BY <2>2, <2>3
<1>2. QED
  BY <1>1, I2cInvariance, TypeInvariance, ByteInvariance, BurstInvariance, PTL

(* No call but a read with a 16-bit index puts a byte other than an        *)
(* address on a bus that it has left.                                      *)
THEOREM FramedEver == Spec => []Framed
<1>1. ASSUME I2cInv, TypeInv, ByteInv PROVE Framed
  <2> SUFFICES ASSUME pc = "write", clean, IsFramed(call)
               PROVE  owned \/ Now.kind \in AddressKinds \cup BurstKinds
    BY DEF Framed, IsFramed
  <2>1. CASE Burst
    <3>1. Now = Byte(call.fn, 0)
      BY <1>1, <2>1 DEF I2cInv, Now
    <3>2. QED
      BY <2>1, <3>1 DEF Byte, Burst
  <2>2. CASE ~Burst /\ pos = 1
    BY <1>1, <2>2, ByteShape DEF AddressKinds
  <2>3. CASE ~Burst /\ pos # 1
    <3>1. pos > 1
      BY <1>1, <2>3 DEF I2cInv
    <3>2. owned \/ script[pos - 1].kind \in StopKinds
      BY <1>1, <2>3, <3>1 DEF ByteInv, ByteAhead, BusAfter
    <3>3. Follows(script[pos - 1].kind, Now.kind, IsFramed(call))
      BY <1>1, <2>3, <3>1, ByteShape
    <3>4. QED
      BY <3>2, <3>3 DEF Follows
  <2>4. QED
    BY <2>1, <2>2, <2>3
<1>2. QED
  BY <1>1, I2cInvariance, TypeInvariance, ByteInvariance, PTL

(* A read that began with nothing outstanding and returns its count has    *)
(* filled the caller's buffer with what the slave sent, in order: byte by  *)
(* byte, from the FIFO in two parts or at once, or through gData_buf.      *)
THEOREM DataIsTrueEver == Spec => []DataIsTrue
<1>1. ASSUME TypeInv, ByteInv, BurstInv PROVE DataIsTrue
  <2> SUFFICES ASSUME pc = "return", ret = "count", clean,
                      ~(call.fn \in {"transfer", "burstTx"}),
                      ~(call.fn = "burstRx" /\ call.thr > call.num)
               PROVE  \A i \in 1 .. call.num : buf[i] = i
    BY DEF DataIsTrue
  <2>1. CASE Burst
    <3>1. call.fn = "burstRx" /\ call.thr <= call.num
      BY <1>1, <2>1, I2cAssumption DEF Burst, BurstKinds, TypeInv, CallerTypes, Calls
    <3>2. QED
      BY <1>1, <3>1 DEF BurstInv, BurstCounted, Reading, Holds
  <2>2. CASE ~Burst
    <3>1. Collected(Len(script))
      BY <1>1, <2>2 DEF ByteInv, BytesCounted
    <3>2. Covers(script, call.num)
      BY <1>1, <2>2, ScriptShape DEF TypeInv, CallerTypes, Burst, Shape
    <3>3. QED
      BY <3>1, <3>2 DEF Covers, Collected
  <2>3. QED
    BY <2>1, <2>2
<1>2. QED
  BY <1>1, TypeInvariance, ByteInvariance, BurstInvariance, PTL
=============================================================================
