-------------------------- MODULE I2cMasterProofs --------------------------
(***************************************************************************)
(* For transfers of any length, in every address mode, with and without    *)
(* high speed: a polled transfer never begins with anything outstanding,   *)
(* and a call that began so and returns its count has moved exactly its    *)
(* bytes.  The argument follows one byte from the write of CR to the end   *)
(* of its wait: it is on its way (OnItsWay), moved with its answer in SR   *)
(* or in dev->status (Moved), or refused with bits that the wait does not  *)
(* accept (NotMoved).                                                      *)
(***************************************************************************)
EXTENDS I2cMaster, TLAPS

(* What the waits accept: for a byte outside bursts, of the bits that      *)
(* CrEnable lists, exactly those that a byte which was moved leaves.       *)
LEMMA WaitWantsTd ==
  ASSUME pc \in Waits, ~ThresholdWait, Matches
  PROVE  "TD" \in Seen
<1>1. "TD" \in Want
  BY DEF Want, Waits
<1>2. QED
  BY <1>1 DEF Matches

LEMMA WaitWantsAnswer ==
  ASSUME pc = "wait", ~Burst, Matches
  PROVE  Seen \cap CrEnable = Answer(Now.kind)
<1>1. ~ThresholdWait
  BY DEF ThresholdWait, Burst, BurstKinds
<1>2. Mask \cap CrEnable = CrEnable
  BY <1>1 DEF Mask, CrEnable
<1>3. Want \cap CrEnable = Answer(Now.kind)
  <2>1. CASE Now.kind \in {"hs", "readStop", "readNack"}
    BY <1>1, <2>1 DEF Want, CrEnable, Answer, ReadKinds
  <2>2. CASE Now.kind \notin {"hs", "readStop", "readNack"}
    BY <1>1, <2>2 DEF Want, CrEnable, Answer, ReadKinds
  <2>3. QED
    BY <2>1, <2>2
<1>4. QED
  BY <1>2, <1>3 DEF Matches

(* The bits that CrEnable lists, as the loop sees them.                    *)
LEMMA SeenBits ==
  /\ Seen \cap CrEnable = IF irq THEN status \cap CrEnable ELSE sr \cap CrEnable
  /\ "TD" \in Seen <=> "TD" \in (IF irq THEN status ELSE sr)
BY DEF Seen, SrValue, CrEnable

(* The wait for a byte cannot end unless the byte was moved.               *)
LEMMA MatchMeansMoved ==
  ASSUME I2cInv, pc \in Waits, clean, Matches, ThresholdWait => "TD" \in Seen
  PROVE  Moved
<1>1. "TD" \in Seen
  BY WaitWantsTd
<1>2. ~OnItsWay
  BY <1>1, SeenBits DEF OnItsWay, CrEnable
<1>3. ASSUME NotMoved, ~Burst PROVE FALSE
  <2>1. pc = "wait"
    BY <1>3 DEF I2cInv, Waits
  <2>2. Seen \cap CrEnable = Answer(Now.kind)
    BY <1>3, <2>1, WaitWantsAnswer
  <2>3. QED
    BY <1>3, <2>2, SeenBits DEF NotMoved
<1>4. ASSUME NotMoved, Burst PROVE FALSE
  BY <1>1, <1>4, SeenBits DEF NotMoved
<1>5. QED
  BY <1>2, <1>3, <1>4 DEF I2cInv

(* Then SR holds nothing of the answer any more: the loop, or in interrupt *)
(* mode the handler, has cleared it.                                       *)
LEMMA MatchClears ==
  ASSUME I2cInv, pc = "wait", clean, Matches, Look, ~Burst
  PROVE  Moved /\ sr' \cap CrEnable = {}
<1>1. "TD" \in Seen
  BY WaitWantsTd DEF Waits, ThresholdWait, Burst, BurstKinds
<1>2. Moved
  BY <1>1, MatchMeansMoved DEF Waits
<1>3. QED
  BY <1>1, <1>2, SeenBits DEF Moved, Look, CrEnable

LEMMA I2cInvInitial == Init => I2cInv
BY DEF Init, I2cInv, PolledStartsClean, CountIsTrue, Waits, IsCommand, NoCmd

-----------------------------------------------------------------------------
(* Steps of the hardware and of the interrupt handler: a byte that is on   *)
(* its way is moved or not.                                                *)

Quietly == UNCHANGED <<config, caller, clean>>

LEMMA HardwareKeeps ==
  ASSUME I2cInv, Quietly, UNCHANGED status,
         cmd = NoCmd => UNCHANGED <<cmd, sr, acked>>,
         cmd' = NoCmd \/ UNCHANGED cmd \/ IsCommand',
         ~clean => UNCHANGED acked,
         pc \in Waits /\ clean /\ OnItsWay => (OnItsWay \/ Moved \/ NotMoved)',
         cmd # NoCmd /\ cmd.at = 0 => UNCHANGED acked
  PROVE  I2cInv'
<1> USE DEF Quietly, config, caller
<1>1. UNCHANGED <<Burst, Now>>
  BY DEF Burst, Now
<1>2. ASSUME pc \in Waits, clean PROVE (OnItsWay \/ Moved \/ NotMoved)'
  <2>1. CASE OnItsWay
    BY <1>2, <2>1
  <2>2. CASE Moved
    BY <2>2 DEF Moved
  <2>3. CASE NotMoved
    BY <1>1, <2>3 DEF NotMoved
  <2>4. QED
    BY <1>2, <2>1, <2>2, <2>3 DEF I2cInv
<1>3. QED
  BY <1>1, <1>2 DEF I2cInv, PolledStartsClean, CountIsTrue, Waits, IsCommand, NoCmd

LEMMA ByteMovedKeeps == I2cInv /\ ByteMoved => I2cInv'
<1> SUFFICES ASSUME I2cInv, ByteMoved PROVE I2cInv'
  OBVIOUS
<1>1. Quietly /\ UNCHANGED status /\ cmd # NoCmd /\ cmd' = NoCmd
  BY DEF ByteMoved, Quietly, Single
<1>2. ASSUME OnItsWay, clean PROVE Moved'
  <2>1. acked' = 1 .. pos
    BY <1>2 DEF ByteMoved, Done, OnItsWay, I2cInv
  <2>2. QED
    BY <1>1, <1>2, <2>1 DEF ByteMoved, OnItsWay, Moved, Quietly, config, caller
<1>3. (~clean \/ cmd.at = 0) => UNCHANGED acked
  BY DEF ByteMoved, Done
<1>4. QED
  BY <1>1, <1>2, <1>3, HardwareKeeps

LEMMA ByteRefusedKeeps == I2cInv /\ ByteRefused => I2cInv'
<1> SUFFICES ASSUME I2cInv, ByteRefused PROVE I2cInv'
  OBVIOUS
<1>1. Quietly /\ UNCHANGED <<status, acked>> /\ cmd # NoCmd /\ cmd' = NoCmd
  BY DEF ByteRefused, Quietly, Single, ghosts
<1>2. ASSUME OnItsWay, pc \in Waits PROVE NotMoved'
  <2>1. UNCHANGED <<Burst, Now, irq, status, pos>> /\ ~Burst
    <3>1. Now.kind \notin BurstKinds
      BY <1>2 DEF ByteRefused, Single, OnItsWay
    <3>2. ~Burst
      <4>1. Burst => Now = Byte(call.fn, 0) /\ call.fn \in BurstKinds
        BY <1>2 DEF I2cInv, Now, Waits, Burst
      <4>2. QED
        BY <3>1, <4>1 DEF Byte
    <3>3. QED
      BY <1>1, <3>2 DEF Burst, Now, Quietly, config, caller
  <2>2. sr' \cap CrEnable = {"TD", "NACK"}
    BY <1>2 DEF ByteRefused, OnItsWay, CrEnable
  <2>3. Answer(Now.kind) = {"TD"}
    BY <1>2 DEF ByteRefused, OnItsWay, Answer, ReadKinds
  <2>4. QED
    BY <1>1, <1>2, <2>1, <2>2, <2>3 DEF ByteRefused, OnItsWay, NotMoved
<1>3. QED
  BY <1>1, <1>2, HardwareKeeps

LEMMA ArbitrationLostKeeps == I2cInv /\ ArbitrationLost => I2cInv'
<1> SUFFICES ASSUME I2cInv, ArbitrationLost PROVE I2cInv'
  OBVIOUS
<1>1. Quietly /\ UNCHANGED <<status, acked>> /\ cmd # NoCmd /\ cmd' = NoCmd
  BY DEF ArbitrationLost, Quietly, Single, ghosts
<1>2. ASSUME OnItsWay PROVE NotMoved'
  <2>1. UNCHANGED <<Burst, Now, irq, status, pos>>
    BY <1>1 DEF Burst, Now, Quietly, config, caller
  <2>2. sr' \cap CrEnable = {"AL"} /\ "TD" \notin sr'
    BY <1>2 DEF ArbitrationLost, OnItsWay, CrEnable
  <2>3. "TD" \in Answer(Now.kind) /\ (irq => "TD" \notin status)
    BY <1>2 DEF OnItsWay, Answer, CrEnable
  <2>4. QED
    BY <1>1, <1>2, <2>1, <2>2, <2>3 DEF ArbitrationLost, OnItsWay, NotMoved
<1>3. QED
  BY <1>1, <1>2, HardwareKeeps

LEMMA BurstByteKeeps == I2cInv /\ BurstByte => I2cInv'
<1> SUFFICES ASSUME I2cInv, BurstByte PROVE I2cInv'
  OBVIOUS
<1>1. Quietly /\ UNCHANGED status /\ cmd # NoCmd
  BY DEF BurstByte, Quietly
<1>2. CASE cmd.moved + 1 >= bstmr.total
  <2>1. cmd' = NoCmd /\ Done
    BY <1>2 DEF BurstByte
  <2>2. ASSUME OnItsWay, clean PROVE Moved'
    <3>1. acked' = 1 .. pos
      BY <2>1, <2>2 DEF Done, OnItsWay, I2cInv
    <3>2. (irq => status \cap CrEnable = {}) /\ UNCHANGED <<irq, pos>>
      BY <1>1, <2>2 DEF OnItsWay, Quietly, config, caller
    <3>3. QED
      BY <1>1, <2>1, <3>1, <3>2 DEF Moved
  <2>3. (~clean \/ cmd.at = 0) => UNCHANGED acked
    BY <2>1 DEF Done
  <2>4. QED
    BY <1>1, <2>1, <2>2, <2>3, HardwareKeeps
<1>3. CASE ~(cmd.moved + 1 >= bstmr.total)
  <2>1. cmd' = [cmd EXCEPT !.moved = cmd.moved + 1] /\ UNCHANGED acked
    BY <1>3 DEF BurstByte
  <2>2. cmd'.at = cmd.at /\ cmd'.byte = cmd.byte
    BY <2>1 DEF I2cInv, IsCommand
  <2>3. cmd' # NoCmd
    BY <2>2 DEF BurstByte, NoCmd, Byte
  <2>4. IsCommand'
    BY <2>1 DEF I2cInv, IsCommand
  <2>5. sr' \cap CrEnable = sr \cap CrEnable
    BY <1>3 DEF BurstByte, CrEnable
  <2>6. ASSUME OnItsWay PROVE OnItsWay'
    BY <1>1, <2>1, <2>2, <2>3, <2>5, <2>6 DEF OnItsWay, Quietly, config, caller, Now
  <2>7. QED
    BY <1>1, <2>1, <2>4, <2>6, HardwareKeeps
<1>4. QED
  BY <1>2, <1>3

LEMMA BurstSentKeeps == I2cInv /\ BurstSent => I2cInv'
<1> SUFFICES ASSUME I2cInv, BurstSent PROVE I2cInv'
  OBVIOUS
<1>1. Quietly /\ UNCHANGED status /\ cmd # NoCmd /\ cmd' = NoCmd
  BY DEF BurstSent, Quietly
<1>2. ASSUME OnItsWay, clean PROVE Moved'
  <2>1. acked' = 1 .. pos
    BY <1>2 DEF BurstSent, Done, OnItsWay, I2cInv
  <2>2. QED
    BY <1>1, <1>2, <2>1 DEF BurstSent, OnItsWay, Moved, Quietly, config, caller
<1>3. (~clean \/ cmd.at = 0) => UNCHANGED acked
  BY DEF BurstSent, Done
<1>4. QED
  BY <1>1, <1>2, <1>3, HardwareKeeps

LEMMA BurstRefusedKeeps == I2cInv /\ BurstRefused => I2cInv'
<1> SUFFICES ASSUME I2cInv, BurstRefused PROVE I2cInv'
  OBVIOUS
<1>1. Quietly /\ UNCHANGED <<status, acked>> /\ cmd # NoCmd /\ cmd' = NoCmd
  BY DEF BurstRefused, Quietly, ghosts
<1>2. ASSUME OnItsWay PROVE NotMoved'
  <2>1. UNCHANGED <<Burst, Now, irq, status, pos>>
    BY <1>1 DEF Burst, Now, Quietly, config, caller
  <2>2. sr' \cap CrEnable = {"NACK"} /\ "TD" \notin sr'
    BY <1>2 DEF BurstRefused, OnItsWay, CrEnable
  <2>3. "TD" \in Answer(Now.kind) /\ (irq => "TD" \notin status)
    BY <1>2 DEF OnItsWay, Answer, CrEnable
  <2>4. QED
    BY <1>1, <1>2, <2>1, <2>2, <2>3 DEF BurstRefused, OnItsWay, NotMoved
<1>3. QED
  BY <1>1, <1>2, HardwareKeeps

LEMMA OtherMasterKeeps == I2cInv /\ OtherMaster => I2cInv'
<1> SUFFICES ASSUME I2cInv, OtherMaster PROVE I2cInv'
  OBVIOUS
<1>1. Quietly /\ UNCHANGED <<status, acked, cmd, sr>>
  BY DEF OtherMaster, Quietly, ghosts, chip
<1>2. ASSUME OnItsWay PROVE OnItsWay'
  BY <1>1, <1>2 DEF OnItsWay, Now, Quietly, config, caller
<1>3. QED
  BY <1>1, <1>2, HardwareKeeps

(* The handler takes the answer from SR to dev->status.                    *)
LEMMA IsrKeeps == I2cInv /\ Isr => I2cInv'
<1> SUFFICES ASSUME I2cInv, Isr PROVE I2cInv'
  OBVIOUS
<1>1. irq /\ sr' = {} /\ UNCHANGED <<config, caller, cmd, ghosts>>
  BY DEF Isr
<1>2. status' \cap CrEnable = sr \cap CrEnable /\ ("TD" \in status' <=> "TD" \in sr)
  BY DEF Isr, SrValue, CrEnable
<1>3. UNCHANGED <<irq, pc, call, script, pos, ret, acked, clean>> /\ UNCHANGED <<Burst, Now>>
  BY <1>1 DEF config, caller, ghosts, Burst, Now
<1>4. ASSUME pc \in Waits, clean PROVE (OnItsWay \/ Moved \/ NotMoved)'
  <2>1. CASE OnItsWay
    BY <1>1, <1>2, <1>3, <2>1 DEF OnItsWay, CrEnable
  <2>2. CASE Moved
    BY <1>1, <1>2, <1>3, <2>2 DEF Moved, CrEnable
  <2>3. CASE NotMoved
    <3>1. "TD" \in Answer(Now.kind)
      BY DEF Answer
    <3>2. QED
      BY <1>1, <1>2, <1>3, <2>3, <3>1 DEF NotMoved, CrEnable
  <2>4. QED
    BY <1>4, <2>1, <2>2, <2>3 DEF I2cInv
<1>5. IsCommand'
  BY <1>1 DEF I2cInv, IsCommand
<1>6. QED
  BY <1>1, <1>2, <1>3, <1>4, <1>5 DEF I2cInv, PolledStartsClean, CountIsTrue, Waits, CrEnable

-----------------------------------------------------------------------------
(* Steps of the caller.                                                    *)

LEMMA StartKeeps == I2cInv /\ (\E c \in Calls : Call(c)) => I2cInv'
<1> SUFFICES ASSUME I2cInv, NEW c \in Calls, Call(c) PROVE I2cInv'
  OBVIOUS
<1>1. Burst' => script' = <<Byte(call'.fn, 0)>>
  BY DEF Call, Burst, Script
<1>2. pc' = "setup" => Burst'
  BY DEF Call, Burst
<1>3. IsCommand'
  BY DEF Call, chip, I2cInv, IsCommand
<1>4. pc' \in {"busy", "setup"} /\ pos' = 1 /\ acked' = {} /\ ~clean'
  BY DEF Call, ghosts, I2cInv
<1>5. QED
  BY <1>1, <1>2, <1>3, <1>4 DEF I2cInv, PolledStartsClean, CountIsTrue, Waits

LEMMA BusFreeKeeps == I2cInv /\ BusFree => I2cInv'
<1> SUFFICES ASSUME I2cInv, BusFree PROVE I2cInv'
  OBVIOUS
<1>1. UNCHANGED <<Burst, irq, call, script, pos, cmd, acked, clean>> /\ pc = "busy" /\ pc' = "clear"
  BY DEF BusFree, Burst, config, ghosts
<1>2. ~irq => cmd = NoCmd /\ sr' = {}
  <2>1. Seen \cap {"BB"} = {}
    BY DEF BusFree, Matches, Want, Mask
  <2>2. QED
    BY <2>1 DEF BusFree, Look, Seen, SrValue, Busy
<1>3. IsCommand'
  BY <1>1 DEF I2cInv, IsCommand
<1>4. QED
  BY <1>1, <1>2, <1>3 DEF I2cInv, PolledStartsClean, CountIsTrue, Waits

LEMMA BurstSetupKeeps == I2cInv /\ BurstSetup => I2cInv'
<1> SUFFICES ASSUME I2cInv, BurstSetup PROVE I2cInv'
  OBVIOUS
<1>1. UNCHANGED <<Burst, irq, call, script, pos, cmd, acked, clean>> /\ pc = "setup" /\ pc' = "clear"
  BY DEF BurstSetup, Burst, config, ghosts
<1>2. IsCommand'
  BY <1>1 DEF I2cInv, IsCommand
<1>3. QED
  BY <1>1, <1>2 DEF I2cInv, PolledStartsClean, CountIsTrue, Waits

LEMMA ClearStatusKeeps == I2cInv /\ ClearStatus => I2cInv'
<1> SUFFICES ASSUME I2cInv, ClearStatus PROVE I2cInv'
  OBVIOUS
<1>1. /\ UNCHANGED <<Burst, irq, call, script, pos, cmd, sr, acked>>
      /\ pc = "clear" /\ pc' = "write" /\ status' = {}
  BY DEF ClearStatus, Burst, config, chip
<1>2. IsCommand'
  BY <1>1 DEF I2cInv, IsCommand
<1>3. CASE pos = 1
  <2>1. clean' = (cmd = NoCmd /\ sr = {} /\ (Burst => fifo = <<>>))
    BY <1>3 DEF ClearStatus
  <2>2. ~irq /\ ~Burst => clean'
    BY <1>1, <1>3, <2>1 DEF I2cInv
  <2>3. clean' => cmd' = NoCmd /\ acked' = 1 .. pos' - 1 /\ sr' \cap CrEnable = {}
    <3>1. acked = {} /\ 1 .. pos - 1 = {}
      BY <1>1, <1>3 DEF I2cInv
    <3>2. clean' => cmd = NoCmd /\ sr = {}
      BY <2>1
    <3>3. QED
      BY <1>1, <3>1, <3>2
  <2>4. QED
    BY <1>1, <1>2, <2>2, <2>3 DEF I2cInv, PolledStartsClean, CountIsTrue, Waits
<1>4. CASE pos # 1
  <2>1. pos > 1 /\ UNCHANGED clean
    BY <1>4 DEF ClearStatus, I2cInv
  <2>2. QED
    BY <1>1, <1>2, <2>1 DEF I2cInv, PolledStartsClean, CountIsTrue, Waits
<1>5. QED
  BY <1>3, <1>4

LEMMA WriteCrKeeps == I2cInv /\ WriteCr => I2cInv'
<1> SUFFICES ASSUME I2cInv, WriteCr PROVE I2cInv'
  OBVIOUS
<1>1. /\ UNCHANGED <<Burst, Now, irq, call, script, pos, status, sr, acked, clean>>
      /\ pc = "write" /\ pc' = "wait" /\ cmd' = [at |-> pos, byte |-> Now, moved |-> 0]
  BY DEF WriteCr, Burst, Now, config, ghosts
<1>2. IsCommand' /\ cmd' # NoCmd
  BY <1>1 DEF IsCommand, NoCmd, I2cInv
<1>3. clean => OnItsWay'
  BY <1>1, <1>2 DEF OnItsWay, I2cInv
<1>4. QED
  BY <1>1, <1>2, <1>3 DEF I2cInv, PolledStartsClean, CountIsTrue, Waits

(* A turn of the loop leaves the byte where it is.                         *)
LEMMA LookKeeps ==
  ASSUME I2cInv, pc \in Waits, clean, Look,
         UNCHANGED <<irq, call, script, pos, cmd, acked>>
  PROVE  (OnItsWay \/ Moved \/ NotMoved)'
<1>1. irq => UNCHANGED <<status, sr>>
  BY DEF Look, Seen
<1>2. ~irq => sr' = {}
  BY DEF Look
<1>3. UNCHANGED <<Burst, Now>>
  BY DEF Burst, Now
<1>4. CASE OnItsWay
  BY <1>1, <1>2, <1>3, <1>4 DEF OnItsWay, CrEnable
<1>5. CASE Moved
  BY <1>1, <1>2, <1>5 DEF Moved
<1>6. CASE NotMoved
  <2>1. "TD" \in Answer(Now.kind)
    BY DEF Answer
  <2>2. QED
    BY <1>1, <1>2, <1>3, <1>6, <2>1 DEF NotMoved, CrEnable
<1>7. QED
  BY <1>4, <1>5, <1>6 DEF I2cInv

LEMMA WaitAgainKeeps == I2cInv /\ WaitAgain => I2cInv'
<1> SUFFICES ASSUME I2cInv, WaitAgain PROVE I2cInv'
  OBVIOUS
<1>1. /\ UNCHANGED <<Burst, irq, pc, call, script, pos, ret, cmd, acked, clean>>
      /\ pc \in {"busy", "wait", "td"} /\ Look
  BY DEF WaitAgain, Burst, config, caller, ghosts
<1>2. IsCommand'
  BY <1>1 DEF I2cInv, IsCommand
<1>3. pc \in Waits /\ clean => (OnItsWay \/ Moved \/ NotMoved)'
  BY <1>1, LookKeeps
<1>4. QED
  BY <1>1, <1>2, <1>3 DEF I2cInv, PolledStartsClean, CountIsTrue, Waits

LEMMA ByteDoneKeeps == I2cInv /\ ByteDone => I2cInv'
<1> SUFFICES ASSUME I2cInv, ByteDone PROVE I2cInv'
  OBVIOUS
<1>1. /\ UNCHANGED <<Burst, irq, call, script, cmd, acked, clean>>
      /\ pc = "wait" /\ pc' = "clear" /\ pos' = pos + 1 /\ ~Burst
  BY DEF ByteDone, Burst, config, ghosts
<1>2. clean => Moved /\ sr' \cap CrEnable = {}
  BY MatchClears DEF ByteDone
<1>3. IsCommand'
  BY <1>1 DEF I2cInv, IsCommand
<1>4. pos' \in Nat \ {0} /\ pos' > 1 /\ pos' - 1 = pos
  BY <1>1 DEF I2cInv
<1>5. QED
  BY <1>1, <1>2, <1>3, <1>4 DEF I2cInv, PolledStartsClean, CountIsTrue, Waits, Moved

(* The steps that return a count: the last byte of the script was moved.   *)
LEMMA CountKeeps ==
  ASSUME I2cInv, UNCHANGED <<irq, call, script, pos, cmd, acked, clean>>,
         pc' = "return", clean => Moved /\ pos = Len(script), pc # "idle"
  PROVE  I2cInv'
<1>1. UNCHANGED Burst
  BY DEF Burst
<1>2. IsCommand'
  BY DEF I2cInv, IsCommand
<1>3. QED
  BY <1>1, <1>2 DEF I2cInv, PolledStartsClean, CountIsTrue, Waits, Moved

LEMMA LastDoneKeeps == I2cInv /\ LastDone => I2cInv'
<1> SUFFICES ASSUME I2cInv, LastDone PROVE I2cInv'
  OBVIOUS
<1>1. /\ UNCHANGED <<irq, call, script, pos, cmd, acked, clean>>
      /\ pc = "wait" /\ pc' = "return" /\ pos = Len(script)
  BY DEF LastDone, Return, config, ghosts
<1>2. clean => Moved
  BY MatchClears DEF LastDone
<1>3. QED
  BY <1>1, <1>2, CountKeeps

LEMMA BurstThresholdKeeps == I2cInv /\ BurstThreshold => I2cInv'
<1> SUFFICES ASSUME I2cInv, BurstThreshold PROVE I2cInv'
  OBVIOUS
<1>1. /\ UNCHANGED <<irq, call, script, cmd, acked, clean>>
      /\ pc = "wait" /\ Burst /\ Matches /\ Look
  <2>1. Burst
    BY DEF BurstThreshold, Burst, BurstKinds
  <2>2. UNCHANGED <<call, script>>
    BY DEF BurstThreshold, Return
  <2>3. QED
    BY <2>1, <2>2 DEF BurstThreshold, config, ghosts
<1>2. CASE "TD" \in Seen
  <2>1. pc' = "return" /\ UNCHANGED pos
    BY <1>2 DEF BurstThreshold, Return
  <2>2. clean => Moved
    BY <1>1, <1>2, MatchMeansMoved DEF Waits
  <2>3. pos = Len(script)
    BY <1>1 DEF I2cInv
  <2>4. QED
    BY <1>1, <2>1, <2>2, <2>3, CountKeeps
<1>3. CASE "TD" \notin Seen
  <2>1. pc' = "td" /\ UNCHANGED <<pos, ret>>
    BY <1>3 DEF BurstThreshold
  <2>2. clean => (OnItsWay \/ Moved \/ NotMoved)'
    BY <1>1, <2>1, LookKeeps DEF Waits
  <2>3. UNCHANGED Burst /\ IsCommand'
    BY <1>1 DEF Burst, I2cInv, IsCommand
  <2>4. QED
    BY <1>1, <2>1, <2>2, <2>3 DEF I2cInv, PolledStartsClean, CountIsTrue, Waits
<1>4. QED
  BY <1>2, <1>3

LEMMA BurstRestKeeps == I2cInv /\ BurstRest => I2cInv'
<1> SUFFICES ASSUME I2cInv, BurstRest PROVE I2cInv'
  OBVIOUS
<1>1. /\ UNCHANGED <<irq, call, script, pos, cmd, acked, clean>>
      /\ pc = "td" /\ pc' = "return"
  BY DEF BurstRest, Return, config, ghosts
<1>2. clean => Moved
  BY MatchMeansMoved DEF BurstRest, Waits, ThresholdWait
<1>3. pos = Len(script)
  BY <1>1 DEF I2cInv
<1>4. QED
  BY <1>1, <1>2, <1>3, CountKeeps

LEMMA BurstDoneKeeps == I2cInv /\ BurstDone => I2cInv'
<1> SUFFICES ASSUME I2cInv, BurstDone PROVE I2cInv'
  OBVIOUS
<1>1. /\ UNCHANGED <<irq, call, script, pos, cmd, acked, clean>>
      /\ pc = "wait" /\ pc' = "return" /\ Burst
  BY DEF BurstDone, Return, config, ghosts
<1>2. clean => Moved
  BY MatchMeansMoved DEF BurstDone, Waits, ThresholdWait
<1>3. pos = Len(script)
  BY <1>1 DEF I2cInv
<1>4. QED
  BY <1>1, <1>2, <1>3, CountKeeps

(* The steps that end a call without a count.                              *)
LEMMA ErrorKeeps ==
  ASSUME I2cInv, UNCHANGED <<irq, call, script, pos, acked, clean>>,
         cmd' = NoCmd \/ UNCHANGED cmd, pc # "idle",
         pc' = "stop" \/ (pc' = "return" /\ ret' = "error")
  PROVE  I2cInv'
<1>1. UNCHANGED Burst
  BY DEF Burst
<1>2. IsCommand'
  BY DEF I2cInv, IsCommand, NoCmd
<1>3. QED
  BY <1>1, <1>2 DEF I2cInv, PolledStartsClean, CountIsTrue, Waits

LEMMA FailureKeeps == I2cInv /\ (BusBusy \/ GiveUp \/ SendStop) => I2cInv'
<1>1. ASSUME I2cInv, BusBusy PROVE I2cInv'
  BY <1>1, ErrorKeeps DEF BusBusy, Return, config, ghosts
<1>2. ASSUME I2cInv, GiveUp PROVE I2cInv'
  BY <1>2, ErrorKeeps DEF GiveUp, Return, config, ghosts
<1>3. ASSUME I2cInv, SendStop PROVE I2cInv'
  BY <1>3, ErrorKeeps DEF SendStop, config, ghosts
<1>4. QED
  BY <1>1, <1>2, <1>3

LEMMA IdleKeeps == I2cInv /\ (Returned \/ Configure \/ I2cInit) => I2cInv'
<1> SUFFICES ASSUME I2cInv, Returned \/ Configure \/ I2cInit PROVE I2cInv'
  OBVIOUS
<1>1. pc' = "idle" /\ pos' = 1 /\ acked' = {} /\ ~clean'
  BY DEF Returned, Configure, I2cInit, I2cInv, caller, ghosts
<1>2. IsCommand'
  <2>1. CASE Returned
    BY <2>1 DEF Returned, I2cInv, IsCommand, NoCmd
  <2>2. CASE Configure
    BY <2>2 DEF Configure, I2cInv, IsCommand, chip
  <2>3. CASE I2cInit
    BY <2>3 DEF I2cInit, IsCommand, NoCmd
  <2>4. QED
    BY <2>1, <2>2, <2>3
<1>3. QED
  BY <1>1, <1>2 DEF I2cInv, PolledStartsClean, CountIsTrue, Waits

LEMMA StutterKeeps == I2cInv /\ UNCHANGED vars => I2cInv'
<1> SUFFICES ASSUME I2cInv, UNCHANGED vars PROVE I2cInv'
  OBVIOUS
<1>1. Quietly /\ UNCHANGED <<status, acked, cmd, sr>>
  BY DEF vars, Quietly, ghosts, chip
<1>2. ASSUME OnItsWay PROVE OnItsWay'
  BY <1>1, <1>2 DEF OnItsWay, Now, Quietly, config, caller
<1>3. QED
  BY <1>1, <1>2, HardwareKeeps

-----------------------------------------------------------------------------
LEMMA I2cInvariance == Spec => []I2cInv
<1>1. I2cInv /\ [Next]_vars => I2cInv'
  BY StartKeeps, BusFreeKeeps, BurstSetupKeeps, ClearStatusKeeps, WriteCrKeeps,
     WaitAgainKeeps, ByteDoneKeeps, LastDoneKeeps, BurstThresholdKeeps, BurstRestKeeps,
     BurstDoneKeeps, FailureKeeps, IdleKeeps, StutterKeeps, IsrKeeps, ByteMovedKeeps,
     ByteRefusedKeeps, ArbitrationLostKeeps, BurstByteKeeps, BurstSentKeeps,
     BurstRefusedKeeps, OtherMasterKeeps
     DEF Next, Caller, Hardware
<1>2. QED
  BY <1>1, I2cInvInitial, PTL DEF Spec

(* A call of I2C.c that began with nothing outstanding and returns its     *)
(* count has moved each of its bytes over the bus, acknowledged, however   *)
(* many bytes it has and whoever reads SR, the loop or the handler.        *)
THEOREM CountIsTrueEver == Spec => []CountIsTrue
<1>1. I2cInv => CountIsTrue
  BY DEF I2cInv
<1>2. QED
  BY <1>1, I2cInvariance, PTL

(* In polling mode the busy test makes every transfer begin so.            *)
THEOREM PolledStartsCleanEver == Spec => []PolledStartsClean
<1>1. I2cInv => PolledStartsClean
  BY DEF I2cInv
<1>2. QED
  BY <1>1, I2cInvariance, PTL
=============================================================================
