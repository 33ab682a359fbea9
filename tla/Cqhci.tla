------------------------------- MODULE Cqhci -------------------------------
(***************************************************************************)
(* The eMMC command queue of the SD/eMMC driver (ftsdc021_cqhci.c).        *)
(*                                                                         *)
(* A command that is sent takes a tag, its bit in queue_tag, and writes    *)
(* the descriptor of that tag; tags are collected in queue_wait and rung   *)
(* together through the doorbell register TDBR.  The command queue engine  *)
(* (CQE) executes rung tasks in any order that the barriers (QBR) allow    *)
(* and notes each in TCN; the interrupt handler clears their tags.  The    *)
(* bits of queue_tag are the only thing that says which descriptors the    *)
(* engine may still read.                                                  *)
(*                                                                         *)
(* One thread sends; the interrupt handler runs between any two of its     *)
(* steps.  Errors that the controller reports are not modelled.            *)
(***************************************************************************)
EXTENDS Integers, FiniteSets

CONSTANTS
  Depth,        \* queue_depth
  Blocks,       \* what data commands address: block ranges
  Overlapping,  \* the pairs of ranges that have a block in common
  NoBlock,      \* the address of a direct command
  Barriers,     \* values of MMC_DATA_QBR that commands are sent with
  Waits,        \* values of cqe_wait_task_done that they are sent with
  NoTask,       \* a descriptor that nobody will read any more
  MaxHalts      \* bound: how often the engine is halted

ASSUME DepthAssumption == Depth \in 2 .. 31
ASSUME MaxHaltsAssumption == MaxHalts \in Nat
ASSUME FlagsAssumption == Barriers \subseteq BOOLEAN /\ Waits \subseteq BOOLEAN
(* A range stands for one address, or for any address that no other        *)
(* command uses if it does not overlap itself.                             *)
ASSUME BlocksAssumption ==
  /\ NoBlock \notin Blocks
  /\ Overlapping \subseteq Blocks \X Blocks
  /\ \A b, c \in Blocks : <<b, c>> \in Overlapping => <<c, b>> \in Overlapping

VARIABLES
  queueTag,   \* queue_tag
  queueWait,  \* queue_wait
  waitCount,  \* wait_count
  slot,       \* CQSlots
  pc,         \* where the sending thread is
  req,        \* the command being sent: block, QBR flag, cqe_wait_task_done
  tag,        \* cmd->tag
  nextTag,    \* next_tag
  loaded,     \* queue_tag as "queue_tag |= 1 << cmd->tag" has read it
  on,         \* cqe_on; the engine is not halted
  halts,      \* how often it was halted
  iste,       \* ISTE # 0
  tdbr,       \* TDBR: the tasks that were rung
  after,      \* the tasks each rung task has to wait for
  tcn         \* TCN: completed tasks of which software has not been told

queueVars  == <<queueTag, queueWait, waitCount, slot>>
sendVars   == <<pc, req, tag, nextTag, loaded>>
switchVars == <<on, halts, iste>>
engineVars == <<tdbr, after, tcn>>
vars       == <<queueVars, sendVars, switchVars, engineVars>>

Dcmd == 31
DataTags == 0 .. Depth - 1
Tags == DataTags \cup {Dcmd}
Pcs == {"idle", "discard", "discarding", "tag", "dcmd", "load", "store",
        "queue", "wait", "drain", "halt", "off"}
NoReq == [blk |-> NoBlock, qbr |-> FALSE, wait |-> FALSE]

(* After cqhci_enable.                                                     *)
Init ==
  /\ queueTag = {} /\ queueWait = {} /\ waitCount = 0
  /\ slot = [t \in Tags |-> NoTask]
  /\ pc = "idle" /\ req = NoReq /\ tag = 0 /\ nextTag = 0 /\ loaded = {}
  /\ on = TRUE /\ halts = 0 /\ iste = TRUE
  /\ tdbr = {} /\ tcn = {} /\ after = [t \in Tags |-> {}]

Goto(from, to) == pc = from /\ pc' = to

(* Only the descriptors of these tags can still be read.                   *)
KeepSlots(live) == slot' = [t \in Tags |-> IF t \in live THEN slot[t] ELSE NoTask]

(* TDBR = S.  A barrier waits for every task rung before it, and the tasks *)
(* rung after it wait for the barrier.  A bit that is set stays as it is.  *)
Ring(S) ==
  /\ tdbr' = tdbr \cup S
  /\ after' = [t \in Tags |->
       IF t \in S \ tdbr THEN {u \in tdbr : slot[t].qbr \/ slot[u].qbr} ELSE after[t]]

RingWaiting ==
  /\ Ring(queueWait)
  /\ queueWait' = {} /\ waitCount' = 0

(* CTL |= 0x100: the engine drops every task.  So does the driver.         *)
ClearAll ==
  /\ tdbr' = {} /\ after' = [t \in Tags |-> {}]
  /\ queueTag' = {} /\ queueWait' = {} /\ waitCount' = 0
  /\ KeepSlots({})

-----------------------------------------------------------------------------
(* cqhci_send_command.                                                     *)

(* What comes first: a tag for a data command, tag 31 for a direct one.    *)
Path(r) == IF r.blk = NoBlock THEN "dcmd" ELSE "tag"

(* cqe_wait_task_done is set for data commands, but stays set until some   *)
(* command has waited: a direct command sent first waits in its place.     *)
Requests == [blk : Blocks \cup {NoBlock}, qbr : Barriers, wait : Waits]

SendCommand(r) ==
  /\ Goto("idle", Path(r)) /\ on
  /\ req' = r /\ nextTag' = 0
  /\ UNCHANGED <<queueVars, tag, loaded, switchVars, engineVars>>

SwitchOff == on' = FALSE /\ iste' = FALSE /\ halts' = halts + 1
SwitchOn  == on' = TRUE /\ iste' = TRUE /\ UNCHANGED halts

(* DISCARD_TASK_TEST: now and then what is waiting is rung, the engine     *)
(* halted and some tasks discarded before the command is sent.             *)
SendAfterDiscard(r) ==
  /\ Goto("idle", "discard") /\ on /\ halts < MaxHalts
  /\ queueTag # {} /\ ~r.wait
  /\ req' = r /\ nextTag' = 0
  /\ RingWaiting
  /\ UNCHANGED <<queueTag, slot, tag, loaded, switchVars, tcn>>

(* cqhci_off( 0 ): the engine halts and its interrupts are disabled.       *)
DiscardHalt ==
  /\ Goto("discard", "discarding")
  /\ SwitchOff
  /\ UNCHANGED <<queueVars, req, tag, nextTag, loaded, engineVars>>

(* What DPT, the tasks that the device has queued, is chosen from.         *)
Startable == {t \in tdbr \ {Dcmd} : after[t] = {}}

DiscardNone ==
  /\ Goto("discarding", Path(req))
  /\ SwitchOn
  /\ UNCHANGED <<queueVars, req, tag, nextTag, loaded, engineVars>>

(* cqhci_discard_all_task.                                                 *)
DiscardAll ==
  /\ Goto("discarding", Path(req))
  /\ Startable # {}
  /\ ClearAll /\ SwitchOn
  /\ UNCHANGED <<req, tag, nextTag, loaded, tcn>>

(* cqhci_discard_task of some: the loop ends after |DPT| - 1 tags.         *)
DiscardSome ==
  /\ Goto("discarding", Path(req))
  /\ \E dpt \in SUBSET Startable :
     \E D \in SUBSET {t \in dpt : t < Cardinality(dpt) - 1} :
       /\ D # {}
       /\ tdbr' = tdbr \ D
       /\ after' = [t \in Tags |-> IF t \in D THEN {} ELSE after[t] \ D]
       /\ queueTag' = queueTag \ D
       /\ KeepSlots((queueTag \cup tdbr) \ D)
  /\ SwitchOn
  /\ UNCHANGED <<queueWait, waitCount, req, tag, nextTag, loaded, tcn>>

(* Mutant: next_tag is not wrapped at queue_depth.                         *)
PollBusyNoWrap ==
  /\ pc = "tag" /\ nextTag \in queueTag
  /\ nextTag' = nextTag + 1
  /\ UNCHANGED <<queueVars, pc, req, tag, loaded, switchVars, engineVars>>

(* get_next_tag: the tags are polled one by one, from 0 and around.        *)
PollBusy ==
  /\ pc = "tag" /\ nextTag \in queueTag
  /\ nextTag' = IF nextTag + 1 = Depth THEN 0 ELSE nextTag + 1
  /\ UNCHANGED <<queueVars, pc, req, tag, loaded, switchVars, engineVars>>

(* Mutant: the loop ends one tag too early.                                *)
OverlapsShort(b) == \E t \in queueTag \ {Dcmd, Depth - 1} : <<slot[t].blk, b>> \in Overlapping

(* cqhci_check_blk_addr: a command not completed uses some of the blocks.  *)
Overlaps(b) == \E t \in queueTag \ {Dcmd} : <<slot[t].blk, b>> \in Overlapping

Descriptor == [blk |-> req.blk, qbr |-> req.qbr \/ Overlaps(req.blk)]

(* A tag is free: its descriptor is written.  (Of an interrupt between the *)
(* poll and the check of the addresses one that comes before both stands;  *)
(* next_tag is not read again before it is set to 0.)                      *)
PollFree ==
  /\ Goto("tag", "load") /\ nextTag \notin queueTag
  /\ tag' = nextTag
  /\ slot' = [slot EXCEPT ![nextTag] = Descriptor]
  /\ nextTag' = 0
  /\ UNCHANGED <<queueTag, queueWait, waitCount, req, loaded, switchVars, engineVars>>

(* So it is if the data is too long for the transfer descriptors; then the *)
(* call fails, and the tag is not used.                                    *)
TooLong ==
  /\ Goto("tag", "idle") /\ nextTag \notin queueTag
  /\ slot' = [slot EXCEPT ![nextTag] =
       IF nextTag \in queueWait \cup tdbr THEN Descriptor ELSE NoTask]
  /\ req' = NoReq /\ nextTag' = 0
  /\ UNCHANGED <<queueTag, queueWait, waitCount, tag, loaded, switchVars, engineVars>>

(* No tag was free for too long: error_recovery resets controller, card    *)
(* and engine, and tag 0, which is free now, is taken.                     *)
PollTimeout ==
  /\ pc = "tag" /\ nextTag \in queueTag
  /\ ClearAll /\ tcn' = {}
  /\ nextTag' = 0
  /\ UNCHANGED <<pc, req, tag, loaded, switchVars>>

(* Tag 31, once the previous direct command is done.                       *)
DcmdFree ==
  /\ Goto("dcmd", "load") /\ Dcmd \notin queueTag
  /\ tag' = Dcmd
  /\ slot' = [slot EXCEPT ![Dcmd] = [blk |-> NoBlock, qbr |-> req.qbr]]
  /\ UNCHANGED <<queueTag, queueWait, waitCount, req, nextTag, loaded, switchVars, engineVars>>

(* Mutant: ISTE is not cleared.                                            *)
SetTagLoadUnmasked ==
  /\ Goto("load", "store")
  /\ loaded' = queueTag
  /\ UNCHANGED <<queueVars, req, tag, nextTag, switchVars, engineVars>>

(* queue_tag |= 1 << cmd->tag, with the engine's interrupts disabled:      *)
(* a load ...                                                              *)
SetTagLoad ==
  /\ Goto("load", "store")
  /\ iste' = FALSE
  /\ loaded' = queueTag
  /\ UNCHANGED <<queueVars, req, tag, nextTag, on, halts, engineVars>>

(* Mutant: queue_tag = 1 << cmd->tag.                                      *)
SetTagStoreOnly ==
  /\ Goto("store", "queue")
  /\ iste' = TRUE
  /\ queueTag' = {tag}
  /\ loaded' = {}
  /\ IF slot[tag].qbr
     THEN RingWaiting
     ELSE UNCHANGED <<queueWait, waitCount, tdbr, after>>
  /\ UNCHANGED <<slot, req, tag, nextTag, on, halts, tcn>>

(* ... and a store.  Before a barrier what is waiting is rung.             *)
SetTagStore ==
  /\ Goto("store", "queue")
  /\ iste' = TRUE
  /\ queueTag' = loaded \cup {tag}
  /\ loaded' = {}
  /\ IF slot[tag].qbr
     THEN RingWaiting
     ELSE UNCHANGED <<queueWait, waitCount, tdbr, after>>
  /\ UNCHANGED <<slot, req, tag, nextTag, on, halts, tcn>>

(* Mutant: the doorbell is compared with ran itself.                       *)
ThresholdsRaw == 0 .. Depth + 1

(* ran % (queue_depth - 1).                                                *)
Thresholds == 0 .. Depth - 2

(* Mutant: a command that is waited for is not rung at once.               *)
QueueBatched ==
  /\ Goto("queue", IF req.wait THEN "wait" ELSE "idle")
  /\ IF req.wait THEN UNCHANGED <<req, tag>> ELSE req' = NoReq /\ tag' = 0
  /\ \E threshold \in Thresholds :
       IF req.blk = NoBlock \/ waitCount + 1 >= threshold
       THEN /\ Ring(queueWait \cup {tag})
            /\ queueWait' = {} /\ waitCount' = 0
       ELSE /\ queueWait' = queueWait \cup {tag} /\ waitCount' = waitCount + 1
            /\ UNCHANGED <<tdbr, after>>
  /\ UNCHANGED <<queueTag, slot, nextTag, loaded, switchVars, tcn>>

(* When wait_count reaches its random threshold, and at once for a direct  *)
(* command and for one that is waited for, the doorbell is rung.           *)
Queue ==
  /\ Goto("queue", IF req.wait THEN "wait" ELSE "idle")
  /\ IF req.wait THEN UNCHANGED <<req, tag>> ELSE req' = NoReq /\ tag' = 0
  /\ \E threshold \in Thresholds :
       IF req.blk = NoBlock \/ req.wait \/ waitCount + 1 >= threshold
       THEN /\ Ring(queueWait \cup {tag})
            /\ queueWait' = {} /\ waitCount' = 0
       ELSE /\ queueWait' = queueWait \cup {tag} /\ waitCount' = waitCount + 1
            /\ UNCHANGED <<tdbr, after>>
  /\ UNCHANGED <<queueTag, slot, nextTag, loaded, switchVars, tcn>>

(* cqe_wait_task_done: until the bit of the task is clear.                 *)
WaitDone ==
  /\ Goto("wait", "idle") /\ tag \notin queueTag
  /\ req' = NoReq /\ tag' = 0
  /\ UNCHANGED <<queueVars, nextTag, loaded, switchVars, engineVars>>

(* Both loops read queue_tag again.                                        *)
Spin ==
  /\ (pc = "dcmd" /\ Dcmd \in queueTag) \/ (pc = "wait" /\ tag \in queueTag)
  /\ UNCHANGED vars

-----------------------------------------------------------------------------
(* cqhci_off( 1 ) and cqhci_on, around commands sent without the queue.    *)

OffStart ==
  /\ Goto("idle", "drain") /\ on /\ halts < MaxHalts
  /\ RingWaiting
  /\ UNCHANGED <<queueTag, slot, req, tag, nextTag, loaded, switchVars, tcn>>

DrainEmpty ==
  /\ Goto("drain", "halt") /\ queueTag = {}
  /\ UNCHANGED <<queueVars, req, tag, nextTag, loaded, switchVars, engineVars>>

(* The engine has nothing left to do: no tag is in use.                    *)
DrainIdle ==
  /\ Goto("drain", "halt") /\ queueTag # {}
  /\ tdbr = {}
  /\ queueTag' = {}
  /\ KeepSlots({})
  /\ UNCHANGED <<queueWait, waitCount, req, tag, nextTag, loaded, switchVars, engineVars>>

(* 10 s have passed.                                                       *)
DrainTimeout ==
  /\ Goto("drain", "halt") /\ queueTag # {}
  /\ UNCHANGED <<queueVars, req, tag, nextTag, loaded, switchVars, engineVars>>

OffHalt ==
  /\ Goto("halt", "off")
  /\ SwitchOff
  /\ UNCHANGED <<queueVars, req, tag, nextTag, loaded, engineVars>>

On ==
  /\ Goto("off", "idle")
  /\ SwitchOn
  /\ UNCHANGED <<queueVars, req, tag, nextTag, loaded, engineVars>>

-----------------------------------------------------------------------------
(* The interrupt handler and the command queue engine.                     *)

(* cqhci_irq: the tags of the completed tasks are free again.  Interrupt   *)
(* coalescing delays it, for a bounded time.                               *)
Irq ==
  /\ iste /\ on /\ tcn # {}
  /\ tcn' = {}
  /\ queueTag' = queueTag \ tcn
  /\ KeepSlots((queueTag \ tcn) \cup tdbr \cup queueWait \cup
               (IF pc \in {"load", "store", "queue"} THEN {tag} ELSE {}))
  /\ UNCHANGED <<queueWait, waitCount, sendVars, switchVars, tdbr, after>>

(* A task that has nothing to wait for is executed.                        *)
EngineComplete(t) ==
  /\ on /\ t \in tdbr /\ after[t] = {}
  /\ tdbr' = tdbr \ {t}
  /\ after' = [u \in Tags |-> after[u] \ {t}]
  /\ tcn' = tcn \cup {t}
  /\ UNCHANGED <<queueVars, sendVars, switchVars>>

Engine == \E t \in Tags : EngineComplete(t)

-----------------------------------------------------------------------------
Send ==
  \/ DiscardHalt \/ DiscardNone \/ DiscardAll \/ DiscardSome
  \/ PollBusy \/ PollFree \/ TooLong \/ PollTimeout \/ DcmdFree
  \/ SetTagLoad \/ SetTagStore \/ Queue \/ WaitDone \/ Spin

Off == DrainEmpty \/ DrainIdle \/ DrainTimeout \/ OffHalt \/ On

Next ==
  \/ \E r \in Requests : SendCommand(r) \/ SendAfterDiscard(r)
  \/ Send
  \/ OffStart \/ Off
  \/ Irq
  \/ Engine

Spec == Init /\ [][Next]_vars

(* Fairness.  The processor, the engine and the interrupt go on: tasks do  *)
(* not fail, and coalescing has a time limit, which the driver never sets  *)
(* to zero.  Nobody has to send a command or to switch the engine off.     *)
FairSpec ==
  /\ Spec
  /\ WF_vars(Send) /\ WF_vars(Off)
  /\ WF_vars(Irq) /\ WF_vars(Engine)

-----------------------------------------------------------------------------
(* Properties.                                                             *)

Tasks == [blk : Blocks \cup {NoBlock}, qbr : BOOLEAN]

CqTypeOK ==
  /\ queueTag \subseteq Tags /\ queueWait \subseteq Tags /\ waitCount \in 0 .. Depth
  /\ slot \in [Tags -> Tasks \cup {NoTask}]
  /\ pc \in Pcs /\ req \in Requests \cup {NoReq}
  /\ tag \in Tags /\ nextTag \in DataTags /\ loaded \subseteq Tags
  /\ on \in BOOLEAN /\ halts \in 0 .. MaxHalts /\ iste \in BOOLEAN
  /\ tdbr \subseteq Tags /\ tcn \subseteq Tags
  /\ after \in [Tags -> SUBSET Tags]

(* The tag being entered into queue_wait or rung.                          *)
Entering == IF pc = "queue" THEN {tag} ELSE {}

(* No bit of queue_tag is left behind: whoever waits for it to clear waits *)
(* for a task that is to be rung, is in the engine, or is completed and    *)
(* about to be reported.  An interrupt between the load and the store of   *)
(* queue_tag would bring back the bits it had cleared.                     *)
NoGhostTag == queueTag \subseteq queueWait \cup tdbr \cup tcn \cup Entering

(* get_next_tag never polls for tags that are all only waiting to be rung: *)
(* nobody but the command behind get_next_tag would ever ring them.        *)
TagsComeBack ==
  pc = "tag" /\ DataTags \subseteq queueTag => DataTags \cap (tdbr \cup tcn) # {}

(* cqhci_send_command returns, whether it waits for a tag, for the direct  *)
(* command before it or for its own task.                                  *)
SendReturns == req # NoReq ~> req = NoReq

(* As long as the engine was never halted, what was rung or waits to be    *)
(* rung holds its tag: no later command overwrites its descriptor.         *)
Claimed == halts = 0 => queueWait \cup tdbr \subseteq queueTag

Meet(t, u) == <<slot[t].blk, slot[u].blk>> \in Overlapping

(* As long as the engine was never halted, the batching of doorbells, the  *)
(* reuse of tags and the barriers never leave two tasks on the same blocks *)
(* open to the engine at the same time: one waits for the other.           *)
Serialised ==
  halts = 0 =>
    \A t, u \in tdbr \ {Dcmd} : t # u /\ Meet(t, u) => u \in after[t] \/ t \in after[u]

(* "wait previous DCMD done" and "wait task complete" (comments in         *)
(* cqhci_send_command): the engine is done with a task whose tag was seen  *)
(* clear.                                                                  *)
ClearTagIsDone ==
  /\ pc = "wait" /\ tag \notin queueTag => tag \notin tdbr
  /\ pc = "dcmd" /\ Dcmd \notin queueTag => Dcmd \notin tdbr

(* "while (cqhci_get_queued_tasks());" (performance test): once no command *)
(* is sent, the queue empties.                                             *)
QueueDrains == <>[](pc = "idle") => <>[](queueTag = {})

-----------------------------------------------------------------------------
(* The inductive invariant that CqhciProofs uses.                          *)

(* What the sending thread has read or decided still holds.                *)
SenderInv ==
  /\ pc = "store" => loaded = queueTag /\ ~iste
  /\ pc \in {"discard", "drain", "halt"} => halts < MaxHalts
  /\ pc \in {"discarding", "off"} => halts > 0
  /\ pc \in {"drain", "halt"} => queueWait = {}

(* As long as the engine was never halted, every tag is waiting, rung or   *)
(* completed, never two of them, and each of these holds the tag; the tag  *)
(* of the command being sent is none of them.  (DrainIdle forgets the      *)
(* completed ones just before it halts.)                                   *)
TagInv ==
  halts = 0 =>
    /\ queueWait \cup tdbr \subseteq queueTag
    /\ pc # "halt" => tcn \subseteq queueTag
    /\ queueWait \cap tdbr = {} /\ (queueWait \cup tdbr) \cap tcn = {}
    /\ pc \in {"load", "store"} => tag \notin queueTag
    /\ pc = "queue" => tag \in queueTag \ (queueWait \cup tdbr \cup tcn)

(* The descriptor of the tag being sent is written.                        *)
Prepared == pc \in {"load", "store", "queue"}

(* As long as the engine was never halted: of two tasks on the same blocks *)
(* at most one waits to be rung, and it is a barrier if the other is rung; *)
(* so is the task being sent, and then nothing waits when it is queued.    *)
SerialInv ==
  halts = 0 =>
    /\ \A t, u \in queueWait \ {Dcmd} : Meet(t, u) => t = u
    /\ \A t \in queueWait \ {Dcmd}, u \in tdbr \ {Dcmd} : Meet(t, u) => slot[t].qbr
    /\ Prepared /\ tag # Dcmd =>
         \A u \in (queueWait \cup tdbr) \ {Dcmd} : Meet(tag, u) => slot[tag].qbr
    /\ pc = "queue" /\ slot[tag].qbr => queueWait = {}

(* Every tag in use stands for one unfinished task, and only for one; and  *)
(* tasks on the same blocks are in order wherever they are.                *)
CqInv == CqTypeOK /\ SenderInv /\ NoGhostTag /\ TagInv /\ SerialInv /\ Serialised
=============================================================================
