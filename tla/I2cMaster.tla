----------------------------- MODULE I2cMaster -----------------------------
(***************************************************************************)
(* The I2C master: the transfers of I2C.c, the interrupt handler           *)
(* I2C_Master_ISR that shares dev->status with them, and the FTIIC010      *)
(* controller with a bus on which there may be another master.             *)
(*                                                                         *)
(* A transfer is a sequence of bytes.  Each is handed to the controller by *)
(* a write to CR after dev->status was cleared, and waited for in          *)
(* I2C_CheckStatus, a loop without delay of 1000 tests (100000 for bursts) *)
(* that a slow byte outlasts.  In polling mode the loop itself reads SR    *)
(* and clears what it read; in interrupt mode it only looks at dev->status.*)
(***************************************************************************)
EXTENDS Integers, Sequences, FiniteSets

CONSTANTS
  MaxNum,    \* bound of the bytes of one call
  MaxLeft,   \* bound of the bytes of bursts left unread when a call begins
  FifoLen,   \* how many bytes of a burst the controller holds
  Modes,     \* the values of dev->address_mode in use
  Speeds     \* the values of gHS in use

ASSUME I2cAssumption ==
  /\ MaxNum \in Nat \ {0} /\ MaxLeft \in Nat /\ FifoLen \in Nat
  /\ Modes \subseteq 0 .. 2 /\ 1 \in Modes /\ Speeds \subseteq BOOLEAN

VARIABLES
  irq,      \* dev->irq # -1: interrupt mode
  mode,     \* dev->address_mode: the number of index bytes
  hs,       \* gHS # 0: high-speed mode
  status,   \* dev->status
  pc,       \* where the caller is
  call,     \* the call of the interface
  script,   \* the bytes of that call, in order
  pos,      \* the byte of script being moved
  buf,      \* the caller's buffer: which byte read by this call each cell
            \* holds, 0 for any other content
  gdata,    \* gData_buf, likewise
  ret,      \* what the call returns
  sr,       \* the latched bits of SR, cleared by writing 1
  ie,       \* the interrupts enabled in CR
  cmd,      \* what the controller works on
  bstmr,    \* BSTMR: threshold and number of bytes of a burst
  fifo,     \* bytes of a burst not yet read from DR, 0 for an old one
  dr,       \* DR outside bursts: the last byte received, 0 for an old one
  owned,    \* the controller has sent START and not STOP
  other,    \* another master has the bus
  rw,       \* SR: the direction of the last address byte is read
  acked,    \* the positions of script the bus has acknowledged, if clean
  clean     \* nothing was outstanding when this call gave its first byte

config  == <<irq, mode, hs>>
caller  == <<pc, call, script, pos, buf, ret>>
chip    == <<sr, ie, cmd, bstmr, fifo, dr>>
bus     == <<owned, other, rw>>
ghosts  == <<acked, clean>>
vars    == <<config, status, gdata, caller, chip, bus, ghosts>>

-----------------------------------------------------------------------------
(* The bytes of a call.                                                    *)

Byte(k, n) == [kind |-> k, n |-> n]

AddressKinds == {"hs", "waddr", "raddr"}
WriteKinds   == {"index", "indexStop", "data", "dataStop", "probe"}
ReadKinds    == {"read", "readStop", "readNack"}
BurstKinds   == {"burstRx", "burstTx"}
ByteKinds    == AddressKinds \cup WriteKinds \cup ReadKinds \cup BurstKinds
StopKinds    == {"indexStop", "dataStop", "probe", "readStop"}

HsCode == IF hs THEN <<Byte("hs", 0)>> ELSE <<>>
Index  == [i \in 1 .. mode |-> Byte("index", i)]
Reads(num, last) == [i \in 1 .. num |-> Byte(IF i = num THEN last ELSE "read", i)]
Writes(num) == [i \in 1 .. num |-> Byte(IF i = num THEN "dataStop" ELSE "data", i)]

(* Mutant: I2C_MasterTransfer sends STOP with the index as Receive does.   *)
TransferIndexStop(num) ==
  HsCode \o <<Byte("waddr", 0)>>
    \o [i \in 1 .. mode |-> Byte("indexStop", i)] \o Writes(num)

Transfer(num) == HsCode \o <<Byte("waddr", 0)>> \o Index \o Writes(num)

(* I2C_MasterReceive ends the first index byte with STOP; with no byte to  *)
(* read it is a probe.                                                     *)
Receive(num) ==
  HsCode \o <<Byte("waddr", 0)>> \o
    IF num = 0 THEN <<Byte("probe", 0)>>
    ELSE [i \in 1 .. mode |-> Byte(IF i = 1 THEN "indexStop" ELSE "index", i)]
           \o <<Byte("raddr", 0)>> \o Reads(num, "readStop")

CombinedEeprom(num) ==
  <<Byte("waddr", 0)>> \o Index \o <<Byte("raddr", 0)>> \o Reads(num, "readStop")

Combined(num) ==
  <<Byte("waddr", 0)>> \o Index \o <<Byte("raddr", 0)>> \o Reads(num, "readNack")
    \o <<Byte("waddr", 0)>> \o Index \o Writes(num)

BytesOf(c) ==
  CASE c.fn = "receive"  -> Receive(c.num)
    [] c.fn = "transfer" -> Transfer(c.num)
    [] c.fn = "eeprom"   -> CombinedEeprom(c.num)
    [] c.fn = "combined" -> Combined(c.num)

Script(c) == IF c.fn \in BurstKinds THEN <<Byte(c.fn, 0)>> ELSE BytesOf(c)

(* thr is the threshold of a burst.  Every function but I2C_MasterReceive  *)
(* needs a byte: "num - 1" of an unsigned 0 is the largest number.  The    *)
(* counts of BSTMR have 6 bits: MaxNum stands for at most 63.              *)
Calls ==
  [fn : {"receive"}, num : 0 .. MaxNum, thr : {0}]
    \cup [fn : {"transfer", "eeprom", "combined", "burstTx"}, num : 1 .. MaxNum, thr : {0}]
    \cup [fn : {"burstRx"}, num : 1 .. MaxNum, thr : 1 .. MaxNum]

Burst == call.fn \in BurstKinds
Now   == script[pos]

Bits     == {"TD", "NACK", "AL", "BSTTHOD"}
CrEnable == {"TD", "NACK", "AL"}
NoCmd    == [at |-> 0, byte |-> Byte("none", 0), moved |-> 0]
Cells    == 1 .. MaxNum
Unread   == [i \in Cells |-> 0]
NoBurst  == [thr |-> 0, total |-> 0]
NoCall   == [fn |-> "burstTx", num |-> 1, thr |-> 0]

(* After I2C_Init and whatever I2C_RequestIRQ and I2C_SetAddressMode did.  *)
Init ==
  /\ irq \in BOOLEAN /\ mode \in Modes /\ hs \in Speeds
  /\ status = {}
  /\ pc = "idle" /\ call = NoCall /\ script = Script(NoCall) /\ pos = 1 /\ ret = "none"
  /\ buf = Unread /\ gdata = Unread
  /\ sr = {} /\ ie = {} /\ cmd = NoCmd /\ bstmr = NoBurst
  /\ fifo = <<>> /\ dr = 0
  /\ owned = FALSE /\ other = FALSE /\ rw = FALSE
  /\ acked = {} /\ clean = FALSE

-----------------------------------------------------------------------------
(* The registers.                                                          *)

(* BB is up from START to STOP, our own or another master's, and while the *)
(* controller has something to send.                                       *)
Busy == owned \/ other \/ cmd # NoCmd

(* What a read of SR returns.                                              *)
SrValue ==
  sr \cup (IF Busy THEN {"BB"} ELSE {}) \cup (IF rw THEN {"RW"} ELSE {})

(* Reading cells from .. to of a burst out of DR into array a.             *)
Drained(a, from, to) ==
  [i \in Cells |->
     IF i \notin from .. to THEN a[i]
     ELSE IF i - from < Len(fifo) THEN fifo[i - from + 1] ELSE 0]

FifoAfter(from, to) ==
  IF to < from THEN fifo
  ELSE IF to - from + 1 >= Len(fifo) THEN <<>>
  ELSE SubSeq(fifo, to - from + 2, Len(fifo))

(* Mutant: TD is tested alone, as if the threshold's interrupt had always  *)
(* been taken before it.                                                   *)
IsrCellsTdFirst ==
  CASE rw /\ "TD" \in sr -> <<bstmr.thr + 1, bstmr.total>>
    [] rw /\ "TD" \notin sr /\ "BSTTHOD" \in sr -> <<1, bstmr.thr>>
    [] OTHER -> <<1, 0>>

(* Which cells of gData_buf the interrupt handler fills.                   *)
IsrCells ==
  CASE ~rw -> <<1, 0>>
    [] rw /\ "BSTTHOD" \in sr /\ "TD" \notin sr -> <<1, bstmr.thr>>
    [] rw /\ "TD" \in sr /\ "BSTTHOD" \notin sr -> <<bstmr.thr + 1, bstmr.total>>
    [] rw /\ "BSTTHOD" \in sr /\ "TD" \in sr -> <<1, bstmr.total>>
    [] OTHER -> <<1, 0>>

(* I2C_Master_ISR: what SR holds overwrites dev->status.  What is stored   *)
(* in gData_buf while no burst read waits is of no use to anybody.         *)
Isr ==
  /\ irq /\ sr \cap ie # {}
  /\ status' = SrValue
  /\ sr' = {}
  /\ gdata' = IF pc = "wait" /\ call.fn = "burstRx"
              THEN Drained(gdata, IsrCells[1], IsrCells[2]) ELSE gdata
  /\ fifo' = FifoAfter(IsrCells[1], IsrCells[2])
  /\ UNCHANGED <<config, caller, ie, cmd, bstmr, dr, bus, ghosts>>

-----------------------------------------------------------------------------
(* The caller.                                                             *)

(* What I2C_CheckStatus waits for, and the bits it compares.  (Where CR    *)
(* had arbitration off, Do_Write_RWAddr leaves AL out of them: since AL    *)
(* comes without TD, the result is the same.)                              *)
ThresholdWait == pc = "wait" /\ call.fn = "burstRx" /\ ~irq

Want ==
  IF pc = "busy" THEN {}
  ELSE IF ThresholdWait THEN {"BSTTHOD"}
  ELSE IF pc = "td" \/ Burst THEN {"TD"}
  ELSE {"TD"} \cup (IF Now.kind \in ReadKinds THEN {"RW"} ELSE {})
              \cup (IF Now.kind \in {"hs", "readStop", "readNack"} THEN {"NACK"} ELSE {})

Mask ==
  IF pc = "busy" THEN {"BB"}
  ELSE IF ThresholdWait THEN {"BSTTHOD"}
  ELSE IF pc = "td" \/ Burst THEN {"TD"}
  ELSE IF Now.kind \in AddressKinds THEN {"TD", "NACK", "AL"}
  ELSE {"TD", "RW", "NACK", "AL"}

(* What one turn of the loop of I2C_CheckStatus compares.                  *)
Seen == IF irq THEN status ELSE SrValue

(* Mutant: the loop also clears dev->status, and the interrupt comes       *)
(* between its reading and its clearing.                                   *)
LookClearing ==
  /\ status' = IF irq THEN {} ELSE SrValue
  /\ sr' = {}

(* One turn of the loop: in polling mode SR is read and cleared.           *)
Look ==
  /\ status' = Seen
  /\ sr' = IF irq THEN sr ELSE {}

Matches == Seen \cap Mask = Want

Call(c) ==
  /\ pc = "idle" /\ Len(fifo) <= MaxLeft
  /\ call' = c
  /\ script' = Script(c)
  /\ pos' = 1
  /\ pc' = IF c.fn \in BurstKinds THEN "setup" ELSE "busy"
  /\ UNCHANGED <<config, status, gdata, buf, ret, chip, bus, ghosts>>

(* Mutant: the busy test is left out.                                      *)
BusFreeUntested ==
  /\ pc = "busy"
  /\ pc' = "clear"
  /\ UNCHANGED <<config, status, gdata, call, script, pos, buf, ret, chip, bus, ghosts>>

(* "I2C_CheckStatus(dev, 0, I2C_SR_BB, ...)" finds the bus free.           *)
BusFree ==
  /\ pc = "busy" /\ Matches /\ Look
  /\ pc' = "clear"
  /\ UNCHANGED <<config, gdata, call, script, pos, buf, ret, ie, cmd, bstmr, fifo, dr, bus, ghosts>>

(* The burst calls test nothing; SAR and BSTMR are written, and gData_buf  *)
(* is zeroed for the burst read in interrupt mode, which alone uses it.    *)
BurstSetup ==
  /\ pc = "setup"
  /\ pc' = "clear"
  /\ bstmr' = [thr |-> IF call.fn = "burstRx" THEN call.thr ELSE call.num,
               total |-> call.num]
  /\ gdata' = Unread
  /\ UNCHANGED <<config, status, call, script, pos, buf, ret, sr, ie, cmd, fifo, dr, bus, ghosts>>

(* Mutant: dev->status is not cleared.                                     *)
ClearStatusNot ==
  /\ pc = "clear"
  /\ pc' = "write"
  /\ clean' = IF pos = 1 THEN cmd = NoCmd /\ sr = {} /\ (Burst => fifo = <<>>) ELSE clean
  /\ UNCHANGED <<config, status, gdata, call, script, pos, buf, ret, chip, bus, acked>>

(* dev->status = 0.                                                        *)
ClearStatus ==
  /\ pc = "clear"
  /\ pc' = "write"
  /\ status' = {}
  /\ clean' = IF pos = 1 THEN cmd = NoCmd /\ sr = {} /\ (Burst => fifo = <<>>) ELSE clean
  /\ UNCHANGED <<config, gdata, call, script, pos, buf, ret, chip, bus, acked>>

(* DR and CR are written: the controller has a byte to move.               *)
WriteCr ==
  /\ pc = "write"
  /\ pc' = "wait"
  /\ cmd' = [at |-> pos, byte |-> Now, moved |-> 0]
  /\ ie' = IF ~Burst THEN CrEnable
           ELSE IF ~irq THEN {}
           ELSE IF call.fn = "burstRx" THEN {"TD", "BSTTHOD"} ELSE {"TD"}
  /\ UNCHANGED <<config, status, gdata, call, script, pos, buf, ret, sr, bstmr, fifo, dr, bus, ghosts>>

Return(r) ==
  /\ pc' = "return" /\ ret' = r
  /\ UNCHANGED <<call, script, pos>>

(* The call is over.  A byte that is still on its way, and bytes that were *)
(* not read, are none of the next call's.  Once nothing is left of a burst *)
(* the value of BSTMR is of no effect: none is kept.                       *)
Returned ==
  /\ pc = "return"
  /\ pc' = "idle" /\ ret' = "none"
  /\ call' = NoCall /\ script' = Script(NoCall) /\ pos' = 1
  /\ buf' = Unread /\ gdata' = Unread
  /\ cmd' = IF cmd = NoCmd THEN NoCmd
            ELSE [cmd EXCEPT !.at = 0, !.byte = Byte(cmd.byte.kind, 0)]
  /\ fifo' = [i \in DOMAIN fifo |-> 0] /\ dr' = 0
  /\ acked' = {} /\ clean' = FALSE
  /\ bstmr' = IF fifo = <<>> /\ cmd.byte.kind # "burstRx" THEN NoBurst ELSE bstmr
  /\ UNCHANGED <<config, status, sr, ie, bus>>

(* Refused; the caller prints "I2C bus busy".                              *)
BusBusy ==
  /\ pc = "busy" /\ ~Matches /\ Look
  /\ Return("error") /\ UNCHANGED cmd
  /\ UNCHANGED <<config, gdata, buf, ie, bstmr, fifo, dr, bus, ghosts>>

(* The loop goes on.                                                       *)
WaitAgain ==
  /\ pc \in {"busy", "wait", "td"} /\ ~Matches /\ Look
  /\ UNCHANGED <<config, gdata, caller, ie, cmd, bstmr, fifo, dr, bus, ghosts>>

(* Mutant: the loops run to num instead of num - 1.                        *)
ByteDoneEndless ==
  /\ pc = "wait" /\ ~Burst /\ Matches /\ Look
  /\ pos' = pos + 1
  /\ pc' = "clear"
  /\ buf' = IF Now.kind \in ReadKinds THEN [buf EXCEPT ![Now.n] = dr] ELSE buf
  /\ UNCHANGED <<config, gdata, call, script, ret, ie, cmd, bstmr, fifo, dr, bus, ghosts>>

(* The byte is done, its data read from DR, and another one follows.       *)
ByteDone ==
  /\ pc = "wait" /\ ~Burst /\ Matches /\ Look
  /\ pos < Len(script)
  /\ pos' = pos + 1
  /\ pc' = "clear"
  /\ buf' = IF Now.kind \in ReadKinds THEN [buf EXCEPT ![Now.n] = dr] ELSE buf
  /\ UNCHANGED <<config, gdata, call, script, ret, ie, cmd, bstmr, fifo, dr, bus, ghosts>>

(* The last byte is done: CR = I2C_CR_DISABLE, but not after a probe.      *)
LastDone ==
  /\ pc = "wait" /\ ~Burst /\ Matches /\ Look
  /\ pos = Len(script)
  /\ Return("count") /\ UNCHANGED cmd
  /\ buf' = IF Now.kind \in ReadKinds THEN [buf EXCEPT ![Now.n] = dr] ELSE buf
  /\ ie' = IF Now.kind = "probe" THEN ie ELSE {}
  /\ UNCHANGED <<config, gdata, bstmr, fifo, dr, bus, ghosts>>

(* Polled burst read: the threshold is reached, the first bytes are read;  *)
(* or TD has come with it, and all are.                                    *)
BurstThreshold ==
  /\ pc = "wait" /\ call.fn = "burstRx" /\ ~irq /\ Matches /\ Look
  /\ LET all == "TD" \in Seen
         to  == IF all THEN bstmr.total ELSE bstmr.thr
     IN  /\ buf' = Drained(buf, 1, to)
         /\ fifo' = FifoAfter(1, to)
         /\ IF all THEN Return("count")
            ELSE pc' = "td" /\ UNCHANGED <<call, script, pos, ret>>
  /\ UNCHANGED <<config, gdata, ie, cmd, bstmr, dr, bus, ghosts>>

BurstRest ==
  /\ pc = "td" /\ Matches /\ Look
  /\ buf' = Drained(buf, bstmr.thr + 1, bstmr.total)
  /\ fifo' = FifoAfter(bstmr.thr + 1, bstmr.total)
  /\ Return("count") /\ UNCHANGED cmd
  /\ UNCHANGED <<config, gdata, ie, bstmr, dr, bus, ghosts>>

(* TD of a burst write, or of a burst read that the interrupt handler has  *)
(* taken in.                                                               *)
BurstDone ==
  /\ pc = "wait" /\ Burst /\ (call.fn = "burstTx" \/ irq) /\ Matches /\ Look
  /\ buf' = IF call.fn = "burstTx" THEN buf
            ELSE [i \in Cells |-> IF i <= bstmr.total THEN gdata[i] ELSE buf[i]]
  /\ Return("count") /\ UNCHANGED cmd
  /\ UNCHANGED <<config, gdata, ie, bstmr, fifo, dr, bus, ghosts>>

(* The tests are used up.  I2C_MasterReceive sends STOP when it was the    *)
(* address of the slave; every other failure just returns.                 *)
GiveUp ==
  /\ pc \in {"wait", "td"} /\ ~Matches /\ Look
  /\ IF call.fn = "receive" /\ Now.kind = "waddr"
     THEN pc' = "stop" /\ UNCHANGED <<call, script, pos, ret>>
     ELSE Return("error")
  /\ UNCHANGED <<config, gdata, buf, ie, cmd, bstmr, fifo, dr, bus, ghosts>>

(* CR = TB_EN | STOP: the byte, if it is still there, is cut short.        *)
SendStop ==
  /\ pc = "stop"
  /\ pc' = "return" /\ ret' = "error"
  /\ cmd' = NoCmd /\ ie' = {} /\ owned' = FALSE
  /\ UNCHANGED <<config, status, gdata, call, script, pos, buf, sr, bstmr, fifo, dr, other, rw, ghosts>>

(* Between calls: I2C_SetAddressMode, I2C_RequestIRQ or polling again, and *)
(* the test menu's choice of the speed.                                    *)
Configure ==
  /\ pc = "idle"
  /\ irq' \in BOOLEAN /\ mode' \in Modes /\ hs' \in Speeds
  /\ UNCHANGED <<status, gdata, caller, chip, bus, ghosts>>

(* I2C_Init: the controller is reset and polled; dev->status stays.        *)
I2cInit ==
  /\ pc = "idle"
  /\ irq' = FALSE /\ mode' = 1
  /\ sr' = {} /\ ie' = {} /\ cmd' = NoCmd /\ fifo' = <<>> /\ dr' = 0
  /\ bstmr' = NoBurst
  /\ owned' = FALSE /\ rw' = FALSE
  /\ UNCHANGED <<hs, status, gdata, caller, other, ghosts>>

-----------------------------------------------------------------------------
(* The controller, the slaves and another master (hardware).               *)

(* A byte can only be moved on a bus that is ours, or taken with START.    *)
CanRun == owned \/ (~other /\ cmd.byte.kind \in AddressKinds \cup BurstKinds)

Single == cmd # NoCmd /\ cmd.byte.kind \notin BurstKinds

Done == acked' = IF cmd.at = 0 \/ ~clean THEN acked ELSE acked \cup {cmd.at}

(* The byte is moved.  Nobody acknowledges the code for high speed, nor    *)
(* the master the last byte it reads.  STOP is on the bus before TD shows. *)
ByteMoved ==
  /\ Single /\ CanRun /\ Done
  /\ LET k == cmd.byte.kind
     IN  /\ sr' = sr \cup (IF k \in {"hs", "readStop", "readNack"} THEN {"TD", "NACK"} ELSE {"TD"})
         /\ owned' = (k \notin StopKinds)
         /\ rw' = (k = "raddr" \/ (rw /\ k \notin {"hs", "waddr"}))
         /\ dr' = IF k \in ReadKinds THEN cmd.byte.n ELSE dr
  /\ cmd' = NoCmd
  /\ UNCHANGED <<config, status, gdata, caller, ie, bstmr, fifo, other, clean>>

(* The byte is not acknowledged; the controller may or may not send STOP.  *)
ByteRefused ==
  /\ Single /\ cmd.byte.kind \notin ReadKinds \cup {"hs"}
  /\ ~other
  /\ sr' = sr \cup {"TD", "NACK"}
  /\ owned' \in IF cmd.byte.kind \in StopKinds THEN {FALSE} ELSE BOOLEAN
  /\ rw' = (cmd.byte.kind = "raddr" \/ (rw /\ cmd.byte.kind # "waddr"))
  /\ cmd' = NoCmd
  /\ UNCHANGED <<config, status, gdata, caller, ie, bstmr, fifo, dr, other, ghosts>>

(* Another master wins the arbitration.                                    *)
ArbitrationLost ==
  /\ Single /\ CanRun /\ cmd.byte.kind \notin ReadKinds
  /\ sr' = sr \cup {"AL"}
  /\ owned' = FALSE /\ other' = TRUE
  /\ cmd' = NoCmd
  /\ UNCHANGED <<config, status, gdata, caller, ie, bstmr, fifo, dr, rw, ghosts>>

(* A burst is run by the controller: the address, the bytes and STOP.  The *)
(* threshold is reported once, when that many bytes have come in.          *)
BurstByte ==
  /\ cmd # NoCmd /\ cmd.byte.kind = "burstRx" /\ CanRun /\ Len(fifo) < FifoLen
  /\ LET k == cmd.moved + 1
     IN  /\ fifo' = Append(fifo, IF cmd.at = 0 THEN 0 ELSE k)
         /\ sr' = sr \cup (IF k = bstmr.thr THEN {"BSTTHOD"} ELSE {})
                     \cup (IF k >= bstmr.total THEN {"TD"} ELSE {})
         /\ IF k >= bstmr.total
            THEN cmd' = NoCmd /\ owned' = FALSE /\ Done
            ELSE cmd' = [cmd EXCEPT !.moved = k] /\ owned' = TRUE /\ UNCHANGED acked
  /\ rw' = TRUE
  /\ UNCHANGED <<config, status, gdata, caller, ie, bstmr, dr, other, clean>>

BurstSent ==
  /\ cmd # NoCmd /\ cmd.byte.kind = "burstTx" /\ CanRun /\ Done
  /\ sr' = sr \cup {"TD"}
  /\ owned' = FALSE /\ rw' = FALSE
  /\ cmd' = NoCmd
  /\ UNCHANGED <<config, status, gdata, caller, ie, bstmr, fifo, dr, other, clean>>

BurstRefused ==
  /\ cmd # NoCmd /\ cmd.byte.kind \in BurstKinds /\ CanRun
  /\ sr' = sr \cup {"NACK"}
  /\ owned' = FALSE
  /\ cmd' = NoCmd
  /\ UNCHANGED <<config, status, gdata, caller, ie, bstmr, fifo, dr, other, rw, ghosts>>

OtherMaster ==
  /\ ~owned
  /\ other' = ~other
  /\ UNCHANGED <<config, status, gdata, caller, chip, owned, rw, ghosts>>

Hardware ==
  \/ ByteMoved \/ ByteRefused \/ ArbitrationLost
  \/ BurstByte \/ BurstSent \/ BurstRefused
  \/ OtherMaster

Caller ==
  \/ \E c \in Calls : Call(c)
  \/ BusFree \/ BusBusy \/ BurstSetup \/ ClearStatus \/ WriteCr
  \/ WaitAgain \/ ByteDone \/ LastDone
  \/ BurstThreshold \/ BurstRest \/ BurstDone
  \/ GiveUp \/ SendStop \/ Returned
  \/ Configure \/ I2cInit

Next == Isr \/ Caller \/ Hardware

Spec == Init /\ [][Next]_vars

-----------------------------------------------------------------------------
(* Properties.                                                             *)

SrBits == Bits \cup {"BB", "RW"}

ByteSet == [kind : ByteKinds, n : 0 .. MaxNum + 2]

I2cTypeOK ==
  /\ irq \in BOOLEAN /\ mode \in 0 .. 2 /\ hs \in BOOLEAN
  /\ status \subseteq SrBits /\ sr \subseteq Bits /\ ie \subseteq Bits
  /\ pc \in {"idle", "busy", "setup", "clear", "write", "wait", "td", "stop", "return"}
  /\ call \in Calls /\ ret \in {"none", "count", "error"}
  /\ script = Script(call) /\ pos \in 1 .. Len(script)
  /\ buf \in [Cells -> Nat] /\ gdata \in [Cells -> Nat] /\ fifo \in Seq(Nat) /\ dr \in Nat
  /\ bstmr \in [thr : 0 .. MaxNum, total : 0 .. MaxNum]
  /\ cmd = NoCmd \/ cmd \in [at : Nat, byte : ByteSet, moved : 0 .. MaxNum]
  /\ owned \in BOOLEAN /\ other \in BOOLEAN /\ rw \in BOOLEAN
  /\ acked \subseteq 1 .. Len(script) /\ clean \in BOOLEAN

(* A call that began with nothing outstanding and returns its count has    *)
(* moved each of its bytes over the bus, in order and acknowledged: no     *)
(* late or early answer was taken for that of another byte.                *)
CountIsTrue ==
  pc = "return" /\ ret = "count" /\ clean => acked = 1 .. Len(script)

(* Then the caller's buffer also holds what the slave sent, in order,      *)
(* whether the caller or the interrupt handler took it from the FIFO.  (A  *)
(* burst read with a threshold above its count returns zeros in interrupt  *)
(* mode.)                                                                  *)
DataIsTrue ==
  pc = "return" /\ ret = "count" /\ clean =>
    \/ call.fn \in {"transfer", "burstTx"}
    \/ call.fn = "burstRx" /\ call.thr > call.num
    \/ \A i \in 1 .. call.num : buf[i] = i

(* In polling mode the test for a busy bus, which reads SR, makes sure     *)
(* that no byte of an earlier call is on its way and no old bit of SR can  *)
(* be taken for the answer to the first byte.  (In interrupt mode the test *)
(* looks at dev->status only, and does not.)                               *)
PolledStartsClean ==
  pc \in {"write", "wait"} /\ ~irq /\ ~Burst => clean

(* The answer to a byte is never lost: from the moment the byte has been   *)
(* moved until the wait for it ends, the bits waited for are in SR or in   *)
(* dev->status, so no transfer fails whose bytes were all acknowledged     *)
(* in time.                                                                *)
NoAnswerLost ==
  pc = "wait" /\ clean /\ pos \in acked /\ ~(Burst /\ ~irq) =>
    Want \ {"RW"} \subseteq sr \/ Want \subseteq status

(* A byte is given to the controller with START, or while the bus is still *)
(* held from the byte before: no call puts a byte on a bus it has left.    *)
(* (I2C_MasterReceive with a 16-bit index does: it sends STOP after the    *)
(* first of the two.)                                                      *)
Framed ==
  pc = "write" /\ clean /\ ~(call.fn = "receive" /\ mode = 2) =>
    owned \/ Now.kind \in AddressKinds \cup BurstKinds

-----------------------------------------------------------------------------
(* The inductive invariant that I2cMasterProofs uses: how far the bytes of *)
(* a call that began clean have come.                                      *)

Waits == {"wait", "td"}

IsCommand == cmd = [at |-> cmd.at, byte |-> cmd.byte, moved |-> cmd.moved]

(* The bits that a byte which was moved leaves in SR.                      *)
Answer(k) == IF k \in {"hs", "readStop", "readNack"} THEN {"TD", "NACK"} ELSE {"TD"}

OnItsWay ==
  /\ cmd # NoCmd /\ cmd.at = pos /\ cmd.byte = Now
  /\ sr \cap CrEnable = {} /\ (irq => status \cap CrEnable = {})
  /\ acked = 1 .. pos - 1

Moved ==
  /\ cmd = NoCmd /\ acked = 1 .. pos
  /\ irq => sr \cap CrEnable = {} \/ status \cap CrEnable = {}

NotMoved ==
  /\ cmd = NoCmd /\ acked = 1 .. pos - 1
  /\ sr \cap CrEnable # Answer(Now.kind)
  /\ irq => status \cap CrEnable # Answer(Now.kind)
  /\ Burst => "TD" \notin sr /\ (irq => "TD" \notin status)

I2cInv ==
  /\ pos \in Nat \ {0} /\ IsCommand
  /\ pc \in {"idle", "busy", "setup"} => pos = 1 /\ acked = {} /\ ~clean
  /\ pc # "idle" /\ Burst => script = <<Byte(call.fn, 0)>> /\ pos = 1
  /\ pc = "clear" /\ pos = 1 =>
       acked = {} /\ ~clean /\ (~irq /\ ~Burst => cmd = NoCmd /\ sr = {})
  /\ pc = "clear" /\ pos > 1 /\ ~irq /\ ~Burst => clean
  /\ pc \in {"clear", "write"} /\ (pos > 1 \/ pc = "write") /\ clean =>
       cmd = NoCmd /\ acked = 1 .. pos - 1 /\ sr \cap CrEnable = {}
  /\ pc = "write" /\ clean => status \cap CrEnable = {}
  /\ pc \in Waits /\ clean => OnItsWay \/ Moved \/ NotMoved
  /\ pc \in {"setup", "td"} => Burst
  /\ pc = "return" /\ ret = "count" /\ clean => cmd = NoCmd
  /\ PolledStartsClean
  /\ CountIsTrue
=============================================================================
