----------------------------- MODULE PhyProofs ------------------------------
(***************************************************************************)
(* Module Phy implements module Link, for every number of PHYs.  No        *)
(* invariant is needed: each step of the detailed specification is, in any *)
(* state, one of the abstract one or a stutter.  Only the step of          *)
(* xPhyCheckLinkStatus depends on the data: it goes on to the              *)
(* configuration only if the mask has changed, and then it cannot have     *)
(* been empty before and after.                                            *)
(***************************************************************************)
EXTENDS Phy, TLAPS

LEMMA InitialLink == Init => L!Init
  BY DEF Init, L!Init, LinkPhase

(* Until the negotiation ends the driver still sees the boot or the change *)
(* that has started it.                                                    *)
LEMMA RestartIsSilent == Restart => UNCHANGED L!vars
  BY DEF Restart, L!vars, LinkPhase

LEMMA SweepNegotiates ==
  ASSUME NEW F, NEW G, NEW late, Sweep(F, G, late)
  PROVE  L!Negotiate \/ UNCHANGED L!vars
<1>1. pc = "poll" /\ pc' \in {"poll", "status", "start"} /\ UNCHANGED <<mask, running>>
  BY DEF Sweep
<1>2. CASE pc' = "start"
  BY <1>1, <1>2 DEF L!Negotiate, LinkPhase
<1>3. CASE pc' # "start"
  BY <1>1, <1>3 DEF L!vars, LinkPhase
<1> QED
  BY <1>2, <1>3

LEMMA ReadStatusNegotiates ==
  ASSUME NEW F, NEW G, ReadStatus(F, G)
  PROVE  L!Negotiate
<1>1. pc = "status" /\ pc' = "start" /\ UNCHANGED running
  BY DEF ReadStatus
<1>2. (mask' # {}) \in BOOLEAN
  OBVIOUS
<1> QED
  BY <1>1, <1>2 DEF L!Negotiate, LinkPhase

(* A mask that has changed is not empty both before and after.             *)
LEMMA CheckLinkChanges ==
  ASSUME NEW F, CheckLink(F)
  PROVE  L!Change \/ UNCHANGED L!vars
<1>1. pc = "loop" /\ UNCHANGED running
  BY DEF CheckLink
<1>2. CASE mask' = mask
  <2>1. pc' = "loop"
    BY <1>2 DEF CheckLink
  <2> QED
    BY <1>1, <1>2, <2>1 DEF L!vars, LinkPhase
<1>3. CASE mask' # mask
  <2>1. pc' = "config"
    BY <1>3 DEF CheckLink
  <2>2. (mask # {}) \/ (mask' # {})
    BY <1>3
  <2>3. (mask' # {}) \in BOOLEAN
    OBVIOUS
  <2> QED
    BY <1>1, <2>1, <2>2, <2>3 DEF L!Change, LinkPhase
<1> QED
  BY <1>2, <1>3

LEMMA LinkStep ==
  ASSUME [Next]_vars
  PROVE  [L!Next]_(L!vars)
<1>1. CASE Restart
  BY <1>1, RestartIsSilent
<1>2. CASE \E F \in SUBSET Ports : \E G \in SUBSET F, late \in BOOLEAN : Sweep(F, G, late)
  BY <1>2, SweepNegotiates DEF L!Next
<1>3. CASE \E F \in SUBSET Ports : \E G \in SUBSET F : ReadStatus(F, G)
  BY <1>3, ReadStatusNegotiates DEF L!Next
<1>4. CASE Start
  BY <1>4 DEF Start, L!Next, L!Start, LinkPhase
<1>5. CASE Stop
  BY <1>5 DEF Stop, L!Next, L!Stop, LinkPhase
<1>6. CASE Check
  BY <1>6, CheckLinkChanges DEF Check, L!Next
<1>7. CASE Reception \/ Expire \/ InitRetry \/ Phys
  <2>1. UNCHANGED <<pc, mask, running>>
    BY <1>7 DEF Reception, Expire, InitRetry, Phys, Complete, Plug, LinkLost, driver
  <2> QED
    BY <2>1 DEF L!vars, LinkPhase
<1>8. CASE UNCHANGED vars
  BY <1>8 DEF vars, driver, L!vars, LinkPhase
<1> QED
  BY <1>1, <1>2, <1>3, <1>4, <1>5, <1>6, <1>7, <1>8 DEF Next, UpdateConfig

(* The driver sees the link change only as module Link allows: no change   *)
(* of ulLinkStatusMask escapes prvEthernetUpdateConfig, whichever PHYs     *)
(* there are, whatever they do and whichever reads fail.                   *)
THEOREM LinkImplemented == Spec => PhyImplementsLink
<1>1. Init => L!Init
  BY InitialLink
<1>2. [Next]_vars => [L!Next]_(L!vars)
  BY LinkStep
<1> QED
  BY <1>1, <1>2, PTL DEF Spec, PhyImplementsLink, L!Spec

-----------------------------------------------------------------------------
(* A link that the handler task has seen is served by a started MAC.       *)
THEOREM ServedEver == Spec => []Served
<1>1. Init => Served
  BY DEF Init, Served
<1>2. ASSUME Served, [Next]_vars
      PROVE  Served'
  <2>1. CASE Restart
    BY <2>1 DEF Restart, Served
  <2>2. CASE \E F \in SUBSET Ports : \E G \in SUBSET F, late \in BOOLEAN : Sweep(F, G, late)
    BY <2>2 DEF Sweep, Served
  <2>3. CASE \E F \in SUBSET Ports : \E G \in SUBSET F : ReadStatus(F, G)
    BY <2>3 DEF ReadStatus, Served
  <2>4. CASE Start \/ Stop
    BY <2>4 DEF Start, Stop, Served
  <2>5. CASE Check
    BY <1>2, <2>5 DEF Check, CheckLink, Served
  <2>6. CASE Reception \/ Expire \/ InitRetry \/ Phys \/ UNCHANGED vars
    <3>1. UNCHANGED <<pc, mask, running>>
      BY <2>6 DEF Reception, Expire, InitRetry, Phys, Complete, Plug, LinkLost, driver, vars
    <3> QED
      BY <1>2, <3>1 DEF Served
  <2> QED
    BY <1>2, <2>1, <2>2, <2>3, <2>4, <2>5, <2>6 DEF Next, UpdateConfig
<1> QED
  BY <1>1, <1>2, PTL DEF Spec
=============================================================================
