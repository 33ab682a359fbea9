---------------------------- MODULE CqhciProofs ----------------------------
(***************************************************************************)
(* Machine-checked theorems about the tags of the eMMC command queue, for  *)
(* every queue depth and every set of blocks.                              *)
(*                                                                         *)
(* CqInv (in Cqhci) is the inductive invariant.  NoGhostTag needs to know  *)
(* that no interrupt comes between the load and the store of queue_tag     *)
(* (SenderInv); Claimed needs to know that a completed task is no longer   *)
(* rung or waiting, or its interrupt would free a tag still in use, and    *)
(* that the tag being sent is none of the tags in use (TagInv); Serialised *)
(* needs to know which of the waiting tasks, and of the one being sent,    *)
(* are barriers (SerialInv).  TagsComeBack has an invariant of its own:    *)
(* what waits is counted by wait_count (WaitInv).  So has Awaited: what a  *)
(* caller waits for was rung at once (RungInv).                            *)
(***************************************************************************)
EXTENDS Cqhci, TLAPS, FiniteSetTheorems

-----------------------------------------------------------------------------
(* Types.                                                                  *)

LEMMA TagTypes == DataTags \subseteq Tags /\ Dcmd \in Tags /\ 0 \in DataTags
BY DepthAssumption DEF DataTags, Tags

LEMMA ReqTypes ==
  ASSUME NEW r \in Requests \cup {NoReq}
  PROVE  r.blk \in Blocks \cup {NoBlock} /\ r.qbr \in BOOLEAN
<1>1. CASE r \in Requests
  <2>1. r.blk \in Blocks \cup {NoBlock} /\ r.qbr \in Barriers
    BY <1>1 DEF Requests
  <2>2. QED
    BY <2>1, FlagsAssumption
<1>2. CASE r = NoReq
  BY <1>2 DEF NoReq
<1>3. QED
  BY <1>1, <1>2

LEMMA TaskTypes ==
  ASSUME NEW b \in Blocks \cup {NoBlock}, NEW q \in BOOLEAN
  PROVE  [blk |-> b, qbr |-> q] \in Tasks
BY DEF Tasks

LEMMA DescriptorTypes == CqTypeOK => Descriptor \in Tasks
<1> SUFFICES ASSUME CqTypeOK PROVE Descriptor \in Tasks
  OBVIOUS
<1> DEFINE barrier == req.qbr \/ Overlaps(req.blk)
<1>1. req.blk \in Blocks \cup {NoBlock} /\ barrier \in BOOLEAN
  BY ReqTypes DEF CqTypeOK
<1>2. [blk |-> req.blk, qbr |-> barrier] \in Tasks
  BY <1>1, TaskTypes
<1>3. QED
  BY <1>2 DEF Descriptor

LEMMA SlotTypes ==
  ASSUME slot \in [Tags -> Tasks \cup {NoTask}], NEW live
  PROVE  KeepSlots(live) => slot' \in [Tags -> Tasks \cup {NoTask}]
BY DEF KeepSlots

LEMMA RingTypes ==
  ASSUME NEW S \in SUBSET Tags, tdbr \subseteq Tags, after \in [Tags -> SUBSET Tags],
         Ring(S)
  PROVE  tdbr' \subseteq Tags /\ after' \in [Tags -> SUBSET Tags]
<1>1. tdbr' \subseteq Tags
  BY DEF Ring
<1>2. \A t \in Tags : {u \in tdbr : slot[t].qbr \/ slot[u].qbr} \in SUBSET Tags
  OBVIOUS
<1>3. QED
  BY <1>1, <1>2 DEF Ring

LEMMA TypesInitial == Init => CqTypeOK
<1> SUFFICES ASSUME Init PROVE CqTypeOK
  OBVIOUS
<1>1. 0 \in 0 .. Depth /\ 0 \in 0 .. MaxHalts
  BY DepthAssumption, MaxHaltsAssumption
<1>2. QED
  BY <1>1, TagTypes DEF Init, CqTypeOK, Pcs

(* What a step of the sending thread does to the types.                    *)
LEMMA TypesOfSend == CqInv /\ Send => CqTypeOK'
<1> SUFFICES ASSUME CqInv, Send PROVE CqTypeOK'
  OBVIOUS
<1> USE TagTypes, DepthAssumption, MaxHaltsAssumption, FlagsAssumption
<1> CqTypeOK
  BY DEF CqInv
<1>1. CASE DiscardHalt
  <2>1. halts' \in 0 .. MaxHalts
    BY <1>1 DEF DiscardHalt, Goto, SwitchOff, CqInv, SenderInv, CqTypeOK
  <2>2. QED
    BY <1>1, <2>1 DEF DiscardHalt, Goto, SwitchOff, CqTypeOK, queueVars, engineVars, Pcs
<1>2. CASE DiscardNone
  BY <1>2 DEF DiscardNone, Goto, Path, SwitchOn, CqTypeOK, queueVars, engineVars, Pcs
<1>3. CASE DiscardAll
  <2>1. slot' \in [Tags -> Tasks \cup {NoTask}]
    BY <1>3, SlotTypes DEF DiscardAll, ClearAll, CqTypeOK
  <2>2. QED
    BY <1>3, <2>1 DEF DiscardAll, ClearAll, Goto, Path, SwitchOn, CqTypeOK, Pcs
<1>4. CASE DiscardSome
  <2>1. slot' \in [Tags -> Tasks \cup {NoTask}]
    BY <1>4, SlotTypes DEF DiscardSome, CqTypeOK
  <2>2. QED
    BY <1>4, <2>1 DEF DiscardSome, Goto, Path, SwitchOn, CqTypeOK, Pcs
<1>5. CASE PollBusy
  BY <1>5 DEF PollBusy, CqTypeOK, DataTags, queueVars, switchVars, engineVars
<1>6. CASE PollFree
  <2>1. slot' \in [Tags -> Tasks \cup {NoTask}]
    BY <1>6, DescriptorTypes DEF PollFree, CqTypeOK
  <2>2. pc' \in Pcs /\ tag' \in Tags /\ nextTag' \in DataTags
    BY <1>6 DEF PollFree, Goto, CqTypeOK, Pcs
  <2>3. QED
    BY <1>6, <2>1, <2>2 DEF PollFree, CqTypeOK, switchVars, engineVars
<1>7. CASE PollTimeout
  <2>1. slot' \in [Tags -> Tasks \cup {NoTask}]
    BY <1>7, SlotTypes DEF PollTimeout, ClearAll, CqTypeOK
  <2>2. QED
    BY <1>7, <2>1 DEF PollTimeout, ClearAll, CqTypeOK, switchVars
<1>8. CASE DcmdFree
  <2>1. [blk |-> NoBlock, qbr |-> req.qbr] \in Tasks
    BY ReqTypes, TaskTypes DEF CqTypeOK
  <2>2. slot' \in [Tags -> Tasks \cup {NoTask}]
    BY <1>8, <2>1 DEF DcmdFree, CqTypeOK
  <2>3. pc' \in Pcs /\ tag' \in Tags
    BY <1>8 DEF DcmdFree, Goto, Pcs
  <2>4. QED
    BY <1>8, <2>2, <2>3 DEF DcmdFree, CqTypeOK, switchVars, engineVars
<1>9. CASE SetTagLoad
  BY <1>9 DEF SetTagLoad, Goto, CqTypeOK, queueVars, engineVars, Pcs
<1>10. CASE SetTagStore
  <2>1. tdbr' \subseteq Tags /\ after' \in [Tags -> SUBSET Tags]
    BY <1>10, RingTypes DEF SetTagStore, RingWaiting, CqTypeOK
  <2>2. queueWait' \subseteq Tags /\ waitCount' \in 0 .. Depth
    BY <1>10 DEF SetTagStore, RingWaiting, CqTypeOK
  <2>3. QED
    BY <1>10, <2>1, <2>2 DEF SetTagStore, Goto, CqTypeOK, Pcs
<1>11. CASE Queue
  <2>1. queueWait \cup {tag} \in SUBSET Tags
    BY DEF CqTypeOK
  <2>2. tdbr' \subseteq Tags /\ after' \in [Tags -> SUBSET Tags]
    BY <1>11, <2>1, RingTypes DEF Queue, CqTypeOK
  <2>3. queueWait' \subseteq Tags /\ waitCount' \in 0 .. Depth
    BY <1>11, <2>1 DEF Queue, Thresholds, CqTypeOK
  <2>4. req' \in Requests \cup {NoReq} /\ tag' \in Tags /\ pc' \in Pcs
    BY <1>11 DEF Queue, Goto, CqTypeOK, Pcs
  <2>5. QED
    BY <1>11, <2>2, <2>3, <2>4 DEF Queue, CqTypeOK, switchVars
<1>12. CASE WaitDone
  BY <1>12 DEF WaitDone, Goto, CqTypeOK, queueVars, switchVars, engineVars, Pcs
<1>13. CASE Spin
  BY <1>13 DEF Spin, vars, sendVars, CqTypeOK, queueVars, switchVars, engineVars
<1>14. CASE TooLong
  <2>1. slot' \in [Tags -> Tasks \cup {NoTask}]
    BY <1>14, DescriptorTypes DEF TooLong, CqTypeOK
  <2>2. QED
    BY <1>14, <2>1 DEF TooLong, Goto, CqTypeOK, switchVars, engineVars, Pcs
<1>15. QED
  BY <1>1, <1>2, <1>3, <1>4, <1>5, <1>6, <1>7, <1>8, <1>9, <1>10, <1>11, <1>12, <1>13,
     <1>14 DEF Send

(* What every other step does to the types.                                *)
LEMMA TypesOfRest ==
  CqInv /\ ((\E r \in Requests : SendCommand(r) \/ SendAfterDiscard(r))
            \/ OffStart \/ Off \/ Irq \/ Engine) => CqTypeOK'
<1> SUFFICES ASSUME CqInv,
                    (\E r \in Requests : SendCommand(r) \/ SendAfterDiscard(r))
                      \/ OffStart \/ Off \/ Irq \/ Engine
             PROVE  CqTypeOK'
  OBVIOUS
<1> USE TagTypes, DepthAssumption, MaxHaltsAssumption
<1> CqTypeOK
  BY DEF CqInv
<1>1. ASSUME NEW r \in Requests, SendCommand(r) PROVE CqTypeOK'
  BY <1>1 DEF SendCommand, Goto, Path, CqTypeOK, queueVars, switchVars, engineVars, Pcs
<1>2. ASSUME NEW r \in Requests, SendAfterDiscard(r) PROVE CqTypeOK'
  <2>1. tdbr' \subseteq Tags /\ after' \in [Tags -> SUBSET Tags]
    BY <1>2, RingTypes DEF SendAfterDiscard, RingWaiting, CqTypeOK
  <2>2. QED
    BY <1>2, <2>1 DEF SendAfterDiscard, RingWaiting, Goto, CqTypeOK, switchVars, Pcs
<1>3. CASE OffStart
  <2>1. tdbr' \subseteq Tags /\ after' \in [Tags -> SUBSET Tags]
    BY <1>3, RingTypes DEF OffStart, RingWaiting, CqTypeOK
  <2>2. QED
    BY <1>3, <2>1 DEF OffStart, RingWaiting, Goto, CqTypeOK, switchVars, Pcs
<1>4. CASE DrainEmpty \/ DrainTimeout
  BY <1>4 DEF DrainEmpty, DrainTimeout, Goto, CqTypeOK, queueVars, switchVars, engineVars, Pcs
<1>5. CASE DrainIdle
  <2>1. slot' \in [Tags -> Tasks \cup {NoTask}]
    BY <1>5, SlotTypes DEF DrainIdle, CqTypeOK
  <2>2. QED
    BY <1>5, <2>1 DEF DrainIdle, Goto, CqTypeOK, switchVars, engineVars, Pcs
<1>6. CASE OffHalt
  <2>1. halts' \in 0 .. MaxHalts
    BY <1>6 DEF OffHalt, Goto, SwitchOff, CqInv, SenderInv, CqTypeOK
  <2>2. QED
    BY <1>6, <2>1 DEF OffHalt, Goto, SwitchOff, CqTypeOK, queueVars, engineVars, Pcs
<1>7. CASE On
  BY <1>7 DEF On, Goto, SwitchOn, CqTypeOK, queueVars, engineVars, Pcs
<1>8. CASE Irq
  <2>1. slot' \in [Tags -> Tasks \cup {NoTask}]
    BY <1>8, SlotTypes DEF Irq, CqTypeOK
  <2>2. QED
    BY <1>8, <2>1 DEF Irq, CqTypeOK, sendVars, switchVars
<1>9. ASSUME NEW t \in Tags, EngineComplete(t) PROVE CqTypeOK'
  BY <1>9 DEF EngineComplete, CqTypeOK, queueVars, sendVars, switchVars
<1>10. QED
  BY <1>1, <1>2, <1>3, <1>4, <1>5, <1>6, <1>7, <1>8, <1>9 DEF Off, Engine

-----------------------------------------------------------------------------
(* The tags.                                                               *)
LEMMA TagsInitial == Init => SenderInv /\ NoGhostTag /\ TagInv
BY DEF Init, SenderInv, NoGhostTag, TagInv, Entering

(* The sending thread.  Its tag becomes used at the store (SetTagStore),   *)
(* which writes what the load has read plus the new tag; until the next    *)
(* step the tag is held by nothing but the thread itself.                  *)
LEMMA TagsOfSend == CqInv /\ Send => SenderInv' /\ NoGhostTag' /\ TagInv'
<1> SUFFICES ASSUME CqInv, Send PROVE SenderInv' /\ NoGhostTag' /\ TagInv'
  OBVIOUS
<1> halts \in Nat /\ SenderInv /\ NoGhostTag /\ TagInv
  BY MaxHaltsAssumption DEF CqInv, CqTypeOK
<1> USE DEF SenderInv, NoGhostTag, TagInv, Entering, Goto
<1>1. CASE DiscardHalt
  BY <1>1 DEF DiscardHalt, SwitchOff, queueVars, engineVars
<1>2. CASE DiscardNone
  BY <1>2 DEF DiscardNone, Path, SwitchOn, queueVars, engineVars
<1>3. CASE DiscardAll
  BY <1>3 DEF DiscardAll, Path, ClearAll, SwitchOn
<1>4. CASE DiscardSome
  BY <1>4 DEF DiscardSome, Path, SwitchOn
<1>5. CASE PollBusy
  BY <1>5 DEF PollBusy, queueVars, switchVars, engineVars
<1>6. CASE PollFree
  BY <1>6 DEF PollFree, switchVars, engineVars
<1>7. CASE PollTimeout
  BY <1>7 DEF PollTimeout, ClearAll, switchVars
<1>8. CASE DcmdFree
  BY <1>8 DEF DcmdFree, switchVars, engineVars
<1>9. CASE SetTagLoad
  BY <1>9 DEF SetTagLoad, queueVars, engineVars
<1>10. CASE SetTagStore
  <2>1. queueTag' = queueTag \cup {tag} /\ tcn' = tcn /\ tag' = tag
    BY <1>10 DEF SetTagStore
  <2>2. queueWait' \cup tdbr' = queueWait \cup tdbr
    BY <1>10 DEF SetTagStore, RingWaiting, Ring
  <2>3. \/ queueWait' = {}
        \/ queueWait' = queueWait /\ tdbr' = tdbr
    BY <1>10 DEF SetTagStore, RingWaiting
  <2>4. pc = "store" /\ pc' = "queue" /\ halts' = halts
    BY <1>10 DEF SetTagStore
  <2>5. QED
    BY <2>1, <2>2, <2>3, <2>4
<1>11. CASE Queue
  <2>1. UNCHANGED <<queueTag, tcn, halts>>
    BY <1>11 DEF Queue, switchVars
  <2>2. queueWait' \cup tdbr' = queueWait \cup tdbr \cup {tag}
    BY <1>11 DEF Queue, Ring
  <2>3. \/ queueWait' = {}
        \/ queueWait' = queueWait \cup {tag} /\ tdbr' = tdbr
    BY <1>11 DEF Queue
  <2>4. pc = "queue" /\ pc' \in {"wait", "idle"}
    BY <1>11 DEF Queue
  <2>5. QED
    BY <2>1, <2>2, <2>3, <2>4
<1>12. CASE WaitDone
  BY <1>12 DEF WaitDone, queueVars, switchVars, engineVars
<1>13. CASE Spin
  BY <1>13 DEF Spin, vars, sendVars, queueVars, switchVars, engineVars
<1>14. CASE TooLong
  BY <1>14 DEF TooLong, switchVars, engineVars
<1>15. QED
  BY <1>1, <1>2, <1>3, <1>4, <1>5, <1>6, <1>7, <1>8, <1>9, <1>10, <1>11, <1>12, <1>13,
     <1>14 DEF Send

(* The interrupt frees only tags of tasks that are neither waiting nor     *)
(* rung; the engine moves a task from the rung to the completed ones.      *)
LEMMA TagsOfRest ==
  CqInv /\ ((\E r \in Requests : SendCommand(r) \/ SendAfterDiscard(r))
            \/ OffStart \/ Off \/ Irq \/ Engine)
    => SenderInv' /\ NoGhostTag' /\ TagInv'
<1> SUFFICES ASSUME CqInv,
                    (\E r \in Requests : SendCommand(r) \/ SendAfterDiscard(r))
                      \/ OffStart \/ Off \/ Irq \/ Engine
             PROVE  SenderInv' /\ NoGhostTag' /\ TagInv'
  OBVIOUS
<1> halts \in Nat /\ SenderInv /\ NoGhostTag /\ TagInv
  BY MaxHaltsAssumption DEF CqInv, CqTypeOK
<1> USE DEF SenderInv, NoGhostTag, TagInv, Entering, Goto
<1>1. ASSUME NEW r \in Requests, SendCommand(r) PROVE SenderInv' /\ NoGhostTag' /\ TagInv'
  BY <1>1 DEF SendCommand, Path, queueVars, switchVars, engineVars
<1>2. ASSUME NEW r \in Requests, SendAfterDiscard(r)
      PROVE  SenderInv' /\ NoGhostTag' /\ TagInv'
  BY <1>2 DEF SendAfterDiscard, RingWaiting, Ring, switchVars
<1>3. CASE OffStart
  BY <1>3 DEF OffStart, RingWaiting, Ring, switchVars
<1>4. CASE DrainEmpty
  BY <1>4 DEF DrainEmpty, queueVars, switchVars, engineVars
<1>5. CASE DrainIdle
  BY <1>5 DEF DrainIdle, switchVars, engineVars
<1>6. CASE DrainTimeout
  BY <1>6 DEF DrainTimeout, queueVars, switchVars, engineVars
<1>7. CASE OffHalt
  BY <1>7 DEF OffHalt, SwitchOff, queueVars, engineVars
<1>8. CASE On
  BY <1>8 DEF On, SwitchOn, queueVars, engineVars
<1>9. CASE Irq
  BY <1>9 DEF Irq, sendVars, switchVars
<1>10. ASSUME NEW t \in Tags, EngineComplete(t)
       PROVE  SenderInv' /\ NoGhostTag' /\ TagInv'
  BY <1>10 DEF EngineComplete, queueVars, sendVars, switchVars
<1>11. QED
  BY <1>1, <1>2, <1>3, <1>4, <1>5, <1>6, <1>7, <1>8, <1>9, <1>10 DEF Off, Engine

-----------------------------------------------------------------------------
(* The order of tasks on the same blocks.                                  *)

LEMMA MeetSymmetric == ASSUME NEW t, NEW u, Meet(t, u) PROVE Meet(u, t)
BY BlocksAssumption DEF Meet

(* Ringing keeps it if the tasks that are rung are on different blocks and *)
(* barriers towards the ones rung before.                                  *)
LEMMA RingOrders ==
  ASSUME NEW S \in SUBSET Tags, Ring(S), slot' = slot,
         tdbr \subseteq Tags, after \in [Tags -> SUBSET Tags], S \cap tdbr = {},
         \A t, u \in tdbr \ {Dcmd} :
           t # u /\ Meet(t, u) => u \in after[t] \/ t \in after[u],
         \A t, u \in S \ {Dcmd} : Meet(t, u) => t = u,
         \A t \in S \ {Dcmd}, u \in tdbr \ {Dcmd} : Meet(t, u) => slot[t].qbr
  PROVE  Serialised'
<1> SUFFICES ASSUME NEW t \in tdbr' \ {Dcmd}, NEW u \in tdbr' \ {Dcmd},
                    t # u, Meet(t, u)
             PROVE  u \in after'[t] \/ t \in after'[u]
  BY DEF Serialised, Meet
<1>1. t \in tdbr \cup S /\ u \in tdbr \cup S /\ t \in Tags /\ u \in Tags
  BY DEF Ring
<1>2. \A v \in Tags : after'[v] = IF v \in S \ tdbr
                                  THEN {w \in tdbr : slot[v].qbr \/ slot[w].qbr}
                                  ELSE after[v]
  BY DEF Ring
<1>3. CASE t \in tdbr /\ u \in tdbr
  BY <1>1, <1>2, <1>3
<1>4. CASE t \in S /\ u \in tdbr
  <2>1. slot[t].qbr /\ t \in S \ tdbr
    BY <1>4
  <2>2. u \in after'[t]
    BY <1>1, <1>2, <1>4, <2>1
  <2>3. QED
    BY <2>2
<1>5. CASE t \in tdbr /\ u \in S
  <2>1. slot[u].qbr /\ u \in S \ tdbr
    BY <1>5, MeetSymmetric
  <2>2. t \in after'[u]
    BY <1>1, <1>2, <1>5, <2>1
  <2>3. QED
    BY <2>2
<1>6. CASE t \in S /\ u \in S
  BY <1>6
<1>7. QED
  BY <1>1, <1>3, <1>4, <1>5, <1>6

(* A step that rings nothing, sends nothing and keeps the descriptors of   *)
(* the tasks that remain cannot disturb it.                                *)
LEMMA RestKeepsOrder ==
  ASSUME SerialInv, Serialised, halts' = halts,
         queueWait' = queueWait, tdbr' \subseteq tdbr,
         \A t, u \in tdbr' : u \in after[t] => u \in after'[t],
         \A t \in queueWait \cup tdbr' : slot'[t] = slot[t],
         Prepared' => Prepared /\ tag' = tag /\ slot'[tag] = slot[tag],
         pc' = "queue" => pc = "queue"
  PROVE  SerialInv' /\ Serialised'
<1>1. Serialised'
  BY DEF Serialised, Meet
<1>2. SerialInv'
  BY DEF SerialInv, Prepared, Meet
<1>3. QED
  BY <1>1, <1>2

LEMMA OrderInitial == Init => SerialInv /\ Serialised
BY DEF Init, SerialInv, Serialised, Prepared

(* Of the steps of the sending thread, PollFree makes a barrier of a task  *)
(* that overlaps one whose tag is used, SetTagStore rings what waits       *)
(* before a barrier, and Queue rings the task or lets it wait.             *)
LEMMA OrderOfSend == CqInv /\ Send => SerialInv' /\ Serialised'
<1> SUFFICES ASSUME CqInv, Send, halts' = 0 PROVE SerialInv' /\ Serialised'
  BY DEF SerialInv, Serialised
<1> CqTypeOK /\ SenderInv /\ TagInv /\ SerialInv /\ Serialised /\ halts \in Nat
  BY MaxHaltsAssumption DEF CqInv, CqTypeOK
<1> tag \in Tags /\ nextTag \in Tags /\ slot \in [Tags -> Tasks \cup {NoTask}]
      /\ tdbr \subseteq Tags /\ queueWait \subseteq Tags /\ after \in [Tags -> SUBSET Tags]
  BY TagTypes DEF CqTypeOK
<1> USE DEF Goto, Prepared
<1>1. ~DiscardHalt
  BY DEF DiscardHalt, SwitchOff
<1>2. ~DiscardNone /\ ~DiscardAll /\ ~DiscardSome
  BY DEF DiscardNone, DiscardAll, DiscardSome, SwitchOn, SenderInv
<1>3. CASE PollBusy
  BY <1>3, RestKeepsOrder DEF PollBusy, queueVars, switchVars, engineVars
<1>4. CASE PollFree
  <2>1. halts = 0 /\ tag' = nextTag /\ pc' = "load"
          /\ UNCHANGED <<queueTag, queueWait, tdbr, after>>
    BY <1>4 DEF PollFree, switchVars, engineVars
  <2>2. nextTag \notin queueTag /\ queueWait \cup tdbr \subseteq queueTag
    BY <1>4, <2>1 DEF PollFree, TagInv
  <2>3. \A u \in queueWait \cup tdbr : slot'[u] = slot[u]
    BY <1>4, <2>2 DEF PollFree
  <2>4. slot'[nextTag] = [blk |-> req.blk, qbr |-> req.qbr \/ Overlaps(req.blk)]
    BY <1>4 DEF PollFree, Descriptor
  <2>5. ASSUME NEW u \in (queueWait \cup tdbr) \ {Dcmd},
               <<slot'[nextTag].blk, slot'[u].blk>> \in Overlapping
        PROVE  slot'[nextTag].qbr
    <3>1. <<slot[u].blk, req.blk>> \in Overlapping /\ u \in queueTag \ {Dcmd}
      BY <2>2, <2>3, <2>4, <2>5, BlocksAssumption
    <3>2. Overlaps(req.blk)
      BY <3>1 DEF Overlaps
    <3>3. slot'[nextTag].qbr = (req.qbr \/ Overlaps(req.blk))
      BY <2>4
    <3>4. QED
      BY <3>2, <3>3
  <2>6. SerialInv'
    BY <2>1, <2>3, <2>5 DEF SerialInv, Meet
  <2>7. Serialised'
    BY <2>1, <2>3 DEF Serialised, Meet
  <2>8. QED
    BY <2>6, <2>7
<1>5. CASE PollTimeout
  BY <1>5 DEF PollTimeout, ClearAll, SerialInv, Serialised
<1>6. CASE DcmdFree
  <2>1. halts = 0 /\ tag' = Dcmd /\ pc' = "load"
          /\ UNCHANGED <<queueWait, tdbr, after>>
    BY <1>6 DEF DcmdFree, switchVars, engineVars
  <2>2. \A u \in (queueWait \cup tdbr) \ {Dcmd} : slot'[u] = slot[u]
    BY <1>6 DEF DcmdFree
  <2>3. QED
    BY <2>1, <2>2 DEF SerialInv, Serialised, Meet
<1>7. CASE SetTagLoad
  BY <1>7, RestKeepsOrder DEF SetTagLoad, queueVars, engineVars
<1>8. CASE SetTagStore
  <2>1. halts = 0 /\ pc = "store" /\ pc' = "queue"
          /\ UNCHANGED <<slot, tag>>
    BY <1>8 DEF SetTagStore
  <2>2. CASE slot[tag].qbr
    <3>1. Ring(queueWait) /\ queueWait' = {}
      BY <1>8, <2>2 DEF SetTagStore, RingWaiting
    <3>2. Serialised'
      BY <2>1, <3>1, RingOrders DEF SerialInv, Serialised, TagInv
    <3>3. SerialInv'
      <4>1. tdbr' = tdbr \cup queueWait
        BY <3>1 DEF Ring
      <4>2. QED
        BY <2>1, <2>2, <3>1, <4>1 DEF SerialInv
    <3>4. QED
      BY <3>2, <3>3
  <2>3. CASE ~slot[tag].qbr
    <3>1. UNCHANGED <<queueWait, tdbr, after>>
      BY <1>8, <2>3 DEF SetTagStore
    <3>2. QED
      BY <2>1, <2>3, <3>1 DEF SerialInv, Serialised, Meet
  <2>4. QED
    BY <2>2, <2>3
<1>9. CASE Queue
  <2>1. halts = 0 /\ pc = "queue" /\ pc' \in {"wait", "idle"} /\ slot' = slot
    BY <1>9 DEF Queue, switchVars
  <2>2. tag \notin queueWait \cup tdbr /\ queueWait \cap tdbr = {}
    BY <2>1 DEF TagInv
  <2>3. \A t, u \in (queueWait \cup {tag}) \ {Dcmd} : Meet(t, u) => t = u
    <3>1. tag # Dcmd => \A u \in queueWait \ {Dcmd} : ~Meet(tag, u)
      BY <2>1 DEF SerialInv
    <3>2. tag # Dcmd => \A u \in queueWait \ {Dcmd} : ~Meet(u, tag)
      BY <3>1, MeetSymmetric
    <3>3. QED
      BY <2>1, <3>1, <3>2 DEF SerialInv
  <2>4. \A t \in (queueWait \cup {tag}) \ {Dcmd}, u \in tdbr \ {Dcmd} :
          Meet(t, u) => slot[t].qbr
    BY <2>1 DEF SerialInv
  <2>5. CASE Ring(queueWait \cup {tag}) /\ queueWait' = {}
    <3>1. Serialised'
      BY <2>1, <2>2, <2>3, <2>4, <2>5, RingOrders DEF Serialised
    <3>2. SerialInv'
      BY <2>1, <2>5 DEF SerialInv
    <3>3. QED
      BY <3>1, <3>2
  <2>6. CASE queueWait' = queueWait \cup {tag} /\ UNCHANGED <<tdbr, after>>
    BY <2>1, <2>3, <2>4, <2>6 DEF SerialInv, Serialised, Meet
  <2>7. QED
    BY <1>9, <2>5, <2>6 DEF Queue
<1>10. CASE WaitDone
  BY <1>10, RestKeepsOrder DEF WaitDone, queueVars, switchVars, engineVars
<1>11. CASE Spin
  BY <1>11, RestKeepsOrder DEF Spin, vars, sendVars, queueVars, switchVars, engineVars
<1>12. CASE TooLong
  <2>1. halts = 0 /\ nextTag \notin queueWait \cup tdbr
    BY <1>12 DEF TooLong, TagInv, switchVars
  <2>2. \A t \in queueWait \cup tdbr : slot'[t] = slot[t]
    BY <1>12, <2>1 DEF TooLong
  <2>3. QED
    BY <1>12, <2>2, RestKeepsOrder DEF TooLong, switchVars, engineVars
<1>13. QED
  BY <1>1, <1>2, <1>3, <1>4, <1>5, <1>6, <1>7, <1>8, <1>9, <1>10, <1>11, <1>12 DEF Send

(* Switching off rings what waits; the interrupt keeps the descriptors of  *)
(* all tags that are rung, waiting or being sent.                          *)
LEMMA OrderOfRest ==
  CqInv /\ ((\E r \in Requests : SendCommand(r) \/ SendAfterDiscard(r))
            \/ OffStart \/ Off \/ Irq \/ Engine)
    => SerialInv' /\ Serialised'
<1> SUFFICES ASSUME CqInv, halts' = 0,
                    (\E r \in Requests : SendCommand(r) \/ SendAfterDiscard(r))
                      \/ OffStart \/ Off \/ Irq \/ Engine
             PROVE  SerialInv' /\ Serialised'
  BY DEF SerialInv, Serialised
<1> CqTypeOK /\ SenderInv /\ TagInv /\ SerialInv /\ Serialised /\ halts \in Nat
  BY MaxHaltsAssumption DEF CqInv, CqTypeOK
<1> tag \in Tags /\ slot \in [Tags -> Tasks \cup {NoTask}]
      /\ tdbr \subseteq Tags /\ queueWait \subseteq Tags /\ after \in [Tags -> SUBSET Tags]
  BY DEF CqTypeOK
<1> USE DEF Goto, Prepared
<1>1. ASSUME NEW r \in Requests, SendCommand(r) PROVE SerialInv' /\ Serialised'
  BY <1>1, RestKeepsOrder DEF SendCommand, Path, queueVars, switchVars, engineVars
<1>2. ASSUME Ring(queueWait), queueWait' = {}, slot' = slot, halts' = halts, ~Prepared'
      PROVE  SerialInv' /\ Serialised'
  <2>1. Serialised'
    BY <1>2, RingOrders DEF SerialInv, Serialised, TagInv
  <2>2. SerialInv'
    BY <1>2 DEF SerialInv
  <2>3. QED
    BY <2>1, <2>2
<1>3. ASSUME NEW r \in Requests, SendAfterDiscard(r) PROVE SerialInv' /\ Serialised'
  BY <1>2, <1>3 DEF SendAfterDiscard, RingWaiting, switchVars
<1>4. CASE OffStart
  BY <1>2, <1>4 DEF OffStart, RingWaiting, switchVars
<1>5. CASE DrainEmpty \/ DrainTimeout
  BY <1>5, RestKeepsOrder
     DEF DrainEmpty, DrainTimeout, queueVars, switchVars, engineVars
<1>6. CASE DrainIdle
  BY <1>6, RestKeepsOrder DEF DrainIdle, SenderInv, switchVars, engineVars
<1>7. ~OffHalt
  BY DEF OffHalt, SwitchOff
<1>8. ~On
  BY DEF On, SwitchOn, SenderInv
<1>9. CASE Irq
  <2>1. \A t \in queueWait \cup tdbr : slot'[t] = slot[t]
    BY <1>9 DEF Irq, KeepSlots
  <2>2. Prepared => slot'[tag] = slot[tag]
    BY <1>9 DEF Irq, KeepSlots
  <2>3. QED
    BY <1>9, <2>1, <2>2, RestKeepsOrder DEF Irq, sendVars, switchVars
<1>10. ASSUME NEW t \in Tags, EngineComplete(t) PROVE SerialInv' /\ Serialised'
  BY <1>10, RestKeepsOrder DEF EngineComplete, queueVars, sendVars, switchVars
<1>11. QED
  BY <1>1, <1>3, <1>4, <1>5, <1>6, <1>7, <1>8, <1>9, <1>10 DEF Off, Engine

-----------------------------------------------------------------------------
(* The theorems.                                                           *)

LEMMA CqInvStep == CqInv /\ [Next]_vars => CqInv'
<1>1. CqInv /\ Next => CqInv'
  BY TypesOfSend, TypesOfRest, TagsOfSend, TagsOfRest, OrderOfSend, OrderOfRest
     DEF Next, CqInv
<1>2. CqInv /\ UNCHANGED vars => CqInv'
  BY DEF CqInv, vars, queueVars, sendVars, switchVars, engineVars, CqTypeOK, SenderInv,
         NoGhostTag, TagInv, Entering, SerialInv, Serialised, Meet, Prepared
<1>3. QED
  BY <1>1, <1>2

(* The inductive invariant holds in every reachable state: every bit of    *)
(* queue_tag stands for one unfinished task, whatever the interrupt, the   *)
(* engine and the batching of doorbells do between the sender's steps.     *)
THEOREM CqInvariance == Spec => []CqInv
<1>1. Init => CqInv
  BY TypesInitial, TagsInitial, OrderInitial DEF CqInv
<1>2. QED
  BY <1>1, CqInvStep, PTL DEF Spec

(* Every variable keeps its type; next_tag never reaches tag 31, which is  *)
(* reserved for direct commands.                                           *)
THEOREM CqTypeCorrect == Spec => []CqTypeOK
<1>1. CqInv => CqTypeOK
  BY DEF CqInv
<1>2. QED
  BY <1>1, CqInvariance, PTL

(* No bit of queue_tag is left behind, also when tasks are discarded, the  *)
(* engine is halted or get_next_tag resets it: whoever waits for a bit     *)
(* waits for a task that somebody still has to finish or to report.        *)
THEOREM NoGhostTagEver == Spec => []NoGhostTag
<1>1. CqInv => NoGhostTag
  BY DEF CqInv
<1>2. QED
  BY <1>1, CqInvariance, PTL

(* Before the first halt no descriptor is overwritten while its task waits *)
(* to be rung or is in the engine.                                         *)
THEOREM TagsAreClaimed == Spec => []Claimed
<1>1. CqInv => Claimed
  BY DEF CqInv, TagInv, Claimed
<1>2. QED
  BY <1>1, CqInvariance, PTL

(* Before the first halt, who waits for a tag to clear, or for the direct  *)
(* command before, finds it clear only when the engine is done with the    *)
(* task: that ClearTagIsDone fails takes a halt.                           *)
THEOREM ClearTagIsDoneUnhalted == Spec => [](halts = 0 => ClearTagIsDone)
<1>1. CqInv => (halts = 0 => ClearTagIsDone)
  BY DEF CqInv, TagInv, ClearTagIsDone
<1>2. QED
  BY <1>1, CqInvariance, PTL

(* Before the first halt two tasks on the same blocks are never open to    *)
(* the engine at once, however doorbells are batched and tags reused.      *)
THEOREM SameBlocksAreSerialised == Spec => []Serialised
<1>1. CqInv => Serialised
  BY DEF CqInv
<1>2. QED
  BY <1>1, CqInvariance, PTL

-----------------------------------------------------------------------------
(* get_next_tag and the batching of doorbells.                             *)

(* wait_count counts what waits to be rung, and the doorbell is rung       *)
(* before every tag waits.                                                 *)
WaitInv ==
  /\ IsFiniteSet(queueWait) /\ waitCount \in Nat
  /\ Cardinality(queueWait) <= waitCount /\ waitCount < Depth

LEMMA NoneWaits == queueWait = {} /\ waitCount = 0 => WaitInv
BY FS_EmptySet, DepthAssumption DEF WaitInv

LEMMA NoneWaitsNext == queueWait' = {} /\ waitCount' = 0 => WaitInv'
BY FS_EmptySet, DepthAssumption DEF WaitInv

LEMMA QueueKeepsWait == WaitInv /\ Queue => WaitInv'
<1> SUFFICES ASSUME WaitInv, Queue PROVE WaitInv'
  OBVIOUS
<1>1. CASE queueWait' = {} /\ waitCount' = 0
  BY <1>1, NoneWaitsNext
<1>2. CASE ~(queueWait' = {} /\ waitCount' = 0)
  <2>1. /\ queueWait' = queueWait \cup {tag} /\ waitCount' = waitCount + 1
        /\ \E threshold \in Thresholds : ~(waitCount + 1 >= threshold)
    BY <1>2 DEF Queue
  <2>2. waitCount' \in Nat /\ waitCount' < Depth
    BY <2>1, DepthAssumption DEF WaitInv, Thresholds
  <2>3. /\ IsFiniteSet(queueWait \cup {tag})
        /\ Cardinality(queueWait \cup {tag}) =
             IF tag \in queueWait THEN Cardinality(queueWait) ELSE Cardinality(queueWait) + 1
    BY FS_AddElement DEF WaitInv
  <2>4. Cardinality(queueWait) \in Nat
    BY FS_CardinalityType DEF WaitInv
  <2> QED
    BY <2>1, <2>2, <2>3, <2>4 DEF WaitInv
<1> QED
  BY <1>1, <1>2

(* All other steps keep what waits or ring it.                             *)
LEMMA WaitInvStep == WaitInv /\ [Next]_vars => WaitInv'
<1> SUFFICES ASSUME WaitInv, [Next]_vars PROVE WaitInv'
  OBVIOUS
<1>1. ASSUME UNCHANGED <<queueWait, waitCount>> PROVE WaitInv'
  BY <1>1 DEF WaitInv
<1>2. CASE Queue
  BY <1>2, QueueKeepsWait
<1>3. CASE Send /\ ~Queue
  BY <1>1, <1>3, NoneWaitsNext
     DEF Send, DiscardHalt, DiscardNone, DiscardAll, DiscardSome, PollBusy, PollFree,
         TooLong, PollTimeout, DcmdFree, SetTagLoad, SetTagStore, WaitDone, Spin, ClearAll,
         RingWaiting, queueVars, vars
<1>4. CASE (\E r \in Requests : SendCommand(r) \/ SendAfterDiscard(r)) \/ OffStart
  BY <1>1, <1>4, NoneWaitsNext DEF SendCommand, SendAfterDiscard, OffStart, RingWaiting, queueVars
<1>5. CASE Off \/ Irq \/ Engine \/ UNCHANGED vars
  BY <1>1, <1>5 DEF Off, DrainEmpty, DrainIdle, DrainTimeout, OffHalt, On, Irq, Engine,
     EngineComplete, queueVars, vars
<1> QED
  BY <1>2, <1>3, <1>4, <1>5 DEF Next

(* get_next_tag never polls for tags that nobody has rung: fewer than      *)
(* queue_depth wait, and the tags that do not wait are the engine's or     *)
(* completed (NoGhostTag).                                                 *)
THEOREM TagsComeBackEver == Spec => []TagsComeBack
<1>1. Init => WaitInv
  BY NoneWaits DEF Init
<1>2. ASSUME NoGhostTag, WaitInv, pc = "tag", DataTags \subseteq queueTag,
             DataTags \cap (tdbr \cup tcn) = {}
      PROVE  FALSE
  <2>1. DataTags \subseteq queueWait
    BY <1>2 DEF NoGhostTag, Entering
  <2>2. Cardinality(DataTags) = Depth
    BY FS_Interval, DepthAssumption DEF DataTags
  <2>3. Cardinality(DataTags) <= Cardinality(queueWait)
    BY <1>2, <2>1, FS_Subset DEF WaitInv
  <2>4. Cardinality(queueWait) \in Nat
    BY <1>2, FS_CardinalityType DEF WaitInv
  <2> QED
    BY <1>2, <2>2, <2>3, <2>4, DepthAssumption DEF WaitInv
<1>3. NoGhostTag /\ WaitInv => TagsComeBack
  BY <1>2 DEF TagsComeBack
<1>4. QED
  BY <1>1, <1>3, WaitInvStep, NoGhostTagEver, PTL DEF Spec

-----------------------------------------------------------------------------
(* What a caller waits for.                                                *)

(* Nobody waits for a task that is itself waiting to be rung, whatever the *)
(* thresholds let wait beside it.                                          *)
Awaited ==
  /\ pc = "wait" /\ tag \in queueTag => tag \in tdbr \cup tcn
  /\ pc = "dcmd" /\ Dcmd \in queueTag => Dcmd \in tdbr \cup tcn

(* The doorbell is rung with a command that is waited for, and with a      *)
(* direct command, which is the only one that has tag 31.                  *)
RungInv ==
  /\ pc = "wait" => queueWait = {}
  /\ Dcmd \notin queueWait
  /\ pc = "dcmd" => req.blk = NoBlock
  /\ Prepared /\ tag = Dcmd => req.blk = NoBlock

LEMMA RungInvStep == CqTypeOK /\ RungInv /\ [Next]_vars => RungInv'
<1> SUFFICES ASSUME CqTypeOK, RungInv, [Next]_vars PROVE RungInv'
  OBVIOUS
<1> USE DEF RungInv, Prepared, Goto
<1>1. CASE Queue
  <2>1. CASE queueWait' = {}
    BY <1>1, <2>1 DEF Queue
  <2>2. CASE queueWait' # {}
    BY <1>1, <2>2 DEF Queue
  <2>3. QED
    BY <2>1, <2>2
<1>2. CASE PollFree
  <2>1. nextTag # Dcmd
    BY DepthAssumption DEF CqTypeOK, DataTags, Dcmd
  <2>2. QED
    BY <1>2, <2>1 DEF PollFree
<1>3. CASE DcmdFree \/ DiscardHalt \/ DiscardNone \/ DiscardAll \/ DiscardSome
  BY <1>3 DEF DcmdFree, DiscardHalt, DiscardNone, DiscardAll, DiscardSome, Path, ClearAll,
     queueVars
<1>4. CASE PollBusy \/ TooLong \/ PollTimeout
  BY <1>4 DEF PollBusy, TooLong, PollTimeout, ClearAll, queueVars
<1>5. CASE SetTagLoad \/ SetTagStore \/ WaitDone \/ Spin
  BY <1>5 DEF SetTagLoad, SetTagStore, RingWaiting, WaitDone, Spin, queueVars, sendVars, vars
<1>6. ASSUME NEW r \in Requests, SendCommand(r) \/ SendAfterDiscard(r) PROVE RungInv'
  BY <1>6 DEF SendCommand, SendAfterDiscard, RingWaiting, Path, queueVars
<1>7. CASE OffStart \/ Off
  BY <1>7 DEF OffStart, RingWaiting, Off, DrainEmpty, DrainIdle, DrainTimeout, OffHalt, On,
     queueVars
<1>8. CASE Irq \/ Engine \/ UNCHANGED vars
  BY <1>8 DEF Irq, Engine, EngineComplete, queueVars, sendVars, vars
<1>9. QED
  BY <1>1, <1>2, <1>3, <1>4, <1>5, <1>6, <1>7, <1>8 DEF Next, Send

(* A caller that waits for its own task, or for the direct command before  *)
(* it, waits for a task that the engine has or has completed: no command   *)
(* need come to ring it.                                                   *)
THEOREM RungBeforeAwaited == Spec => []Awaited
<1>1. Init => RungInv
  BY DEF Init, RungInv, Prepared
<1>2. NoGhostTag /\ RungInv => Awaited
  BY DEF NoGhostTag, RungInv, Awaited, Entering
<1>3. QED
  BY <1>1, <1>2, RungInvStep, CqTypeCorrect, NoGhostTagEver, PTL DEF Spec
=============================================================================
