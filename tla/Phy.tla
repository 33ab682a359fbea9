-------------------------------- MODULE Phy ---------------------------------
(***************************************************************************)
(* The link as phyHandling.c keeps it: the negotiation that                *)
(* prvEthernetUpdateConfig starts, the periodic xPhyCheckLinkStatus of the *)
(* handler task, and the IP task that asks for the interface until there   *)
(* is a link.  The PHYs are reached over MDIO one register at a time, and  *)
(* change between any two reads.                                           *)
(*                                                                         *)
(* The reads of one loop over the ports are taken in one step: what a port *)
(* does between the reads of two others is seen by neither.  The speed and *)
(* the duplex mode that a negotiation yields are left out.                 *)
(***************************************************************************)
EXTENDS Naturals

CONSTANT PortCount    \* xPortCount: the PHYs that xPhyDiscover found

ASSUME PhyAssumption == PortCount \in Nat

VARIABLES
  pc,        \* where the task is that configures the link
  mask,      \* ulLinkStatusMask
  done,      \* ulDoneMask
  running,   \* the MAC is started
  irqOn,     \* the IP task has the interface, its interrupt is enabled
  timer,     \* xLinkStatusTimer: running for a "high" or a "low" interval,
             \* or "expired"
  cable,     \* the ports that have a partner
  linked,    \* the ports whose negotiation is complete and whose link is up
  latched    \* the ports whose BMSR still holds a loss of the link

driver == <<pc, mask, done, running, irqOn, timer>>
phy    == <<cable, linked, latched>>
vars   == <<driver, phy>>

Ports == 0 .. PortCount - 1

(* After HAL_ETH_Init, which has reset the PHYs and zeroed the timer.      *)
Init ==
  /\ pc = "boot" /\ mask = {} /\ done = {}
  /\ running = FALSE /\ irqOn = FALSE /\ timer = "expired"
  /\ cable \in SUBSET Ports /\ linked \in SUBSET cable /\ latched \in SUBSET Ports

-----------------------------------------------------------------------------
(* Reading BMSR.  A read that times out leaves the variable it should set  *)
(* as it was: of the ports F that do not answer, some, G, are taken to     *)
(* have the bit set.  Only xPhyCheckLinkStatus looks at the result.        *)

(* The link bit is down once after a loss of the link, even if it is back. *)
UpBits == linked \ latched

-----------------------------------------------------------------------------
(* prvEthernetUpdateConfig.                                                *)

(* Mutant: ulDoneMask is left from the negotiation before.                 *)
RestartStaleDone ==
  /\ pc = "boot" \/ (pc = "config" /\ mask # {})
  /\ pc' = "poll"
  /\ linked' = {} /\ latched' = latched \cup linked
  /\ UNCHANGED <<mask, done, running, irqOn, timer, cable>>

(* Auto-negotiation is restarted on all ports: their links go down.        *)
Restart ==
  /\ pc = "boot" \/ (pc = "config" /\ mask # {})
  /\ pc' = "poll" /\ done' = {}
  /\ linked' = {} /\ latched' = latched \cup linked
  /\ UNCHANGED <<mask, running, irqOn, timer, cable>>

(* One turn of the loop that waits for the negotiations; late: its three   *)
(* seconds are over.                                                       *)
Sweep(F, G, late) ==
  /\ pc = "poll"
  /\ done' = done \cup (linked \ F) \cup G
  /\ pc' = IF done' = Ports \/ late
           THEN IF done' = {} THEN "start" ELSE "status"
           ELSE "poll"
  /\ latched' = latched \cap (done \cup F)
  /\ UNCHANGED <<mask, running, irqOn, timer, cable, linked>>

(* The links of the ports that are done are read anew; the others keep     *)
(* their bits.                                                             *)
ReadStatus(F, G) ==
  /\ pc = "status"
  /\ pc' = "start"
  /\ mask' = (mask \ done) \cup ((done \cap UpBits) \ F) \cup (done \cap G)
  /\ latched' = latched \ (done \ F)
  /\ UNCHANGED <<done, running, irqOn, timer, cable, linked>>

(* HAL_ETH_ConfigMAC and HAL_ETH_Start, whatever the negotiation yielded.  *)
Start ==
  /\ pc = "start"
  /\ pc' = "loop" /\ running' = TRUE
  /\ UNCHANGED <<mask, done, irqOn, timer, phy>>

(* No link: HAL_ETH_Stop.                                                  *)
Stop ==
  /\ pc = "config" /\ mask = {}
  /\ pc' = "loop" /\ running' = FALSE
  /\ UNCHANGED <<mask, done, irqOn, timer, phy>>

-----------------------------------------------------------------------------
(* The handler task, which alone runs unless it waits in its loop.         *)

(* xPhyCheckLinkStatus after frames were received: the timer starts anew.  *)
Reception ==
  /\ pc = "loop" /\ running /\ irqOn /\ linked # {}
  /\ timer' = "high"
  /\ UNCHANGED <<pc, mask, done, running, irqOn, phy>>

Expire ==
  /\ pc = "loop" /\ timer # "expired"
  /\ timer' = "expired"
  /\ UNCHANGED <<pc, mask, done, running, irqOn, phy>>

(* Mutant: only a lost link is reported to the caller.                     *)
CheckLinkLossOnly(F) ==
  /\ pc = "loop" /\ timer = "expired"
  /\ mask' = (mask \cap F) \cup (UpBits \ F)
  /\ latched' = latched \cap F
  /\ timer' = IF 2 \in mask' THEN "high" ELSE "low"
  /\ pc' = IF mask \subseteq mask' THEN "loop" ELSE "config"
  /\ UNCHANGED <<done, running, irqOn, cable, linked>>

(* xPhyCheckLinkStatus when the timer has expired: the ports that answer   *)
(* are compared with the mask.  Which interval follows depends on the bit  *)
(* of port 2: the link bit of BMSR is tested in the mask.                  *)
CheckLink(F) ==
  /\ pc = "loop" /\ timer = "expired"
  /\ mask' = (mask \cap F) \cup (UpBits \ F)
  /\ latched' = latched \cap F
  /\ timer' = IF 2 \in mask' THEN "high" ELSE "low"
  /\ pc' = IF mask' = mask THEN "loop" ELSE "config"
  /\ UNCHANGED <<done, running, irqOn, cable, linked>>

(* xNetworkInterfaceInitialise once the handler exists: it is called again *)
(* every three seconds as long as there is no link.                        *)
InitRetry ==
  /\ pc = "loop" /\ ~irqOn /\ mask # {}
  /\ irqOn' = TRUE
  /\ UNCHANGED <<pc, mask, done, running, timer, phy>>

-----------------------------------------------------------------------------
(* The PHYs and their partners (hardware).                                 *)

Complete(p) ==
  /\ p \in cable \ linked
  /\ linked' = linked \cup {p}
  /\ UNCHANGED <<driver, cable, latched>>

Plug(p) ==
  /\ p \notin cable
  /\ cable' = cable \cup {p}
  /\ UNCHANGED <<driver, linked, latched>>

(* The partner goes, or the link fails and the partner stays.              *)
LinkLost(p) ==
  /\ p \in cable
  /\ cable' = cable \ {p} \/ (UNCHANGED cable /\ p \in linked)
  /\ linked' = linked \ {p}
  /\ latched' = latched \cup ({p} \cap linked)
  /\ UNCHANGED driver

UpdateConfig ==
  \/ Restart \/ Start \/ Stop
  \/ \E F \in SUBSET Ports : \E G \in SUBSET F :
       ReadStatus(F, G) \/ \E late \in BOOLEAN : Sweep(F, G, late)

Check == \E F \in SUBSET Ports : CheckLink(F)

Phys == \E p \in Ports : Complete(p) \/ Plug(p) \/ LinkLost(p)

Next == UpdateConfig \/ Reception \/ Expire \/ Check \/ InitRetry \/ Phys

(* The handler task has the highest priority, time passes, the IP task     *)
(* asks again, and a port with a partner completes its negotiation.        *)
Fairness ==
  /\ WF_vars(UpdateConfig) /\ WF_vars(Check) /\ WF_vars(Expire) /\ WF_vars(InitRetry)
  /\ \A p \in Ports : WF_vars(Complete(p))

Spec == Init /\ [][Next]_vars /\ Fairness

-----------------------------------------------------------------------------
(* Properties.                                                             *)

(* What the rest of the driver sees.  No link precedes the negotiation     *)
(* that is forced at boot, and a link every other one.                     *)
LinkPhase ==
  IF pc = "loop" THEN "watch"
  ELSE IF pc = "start" THEN "start"
  ELSE IF pc = "config" \/ mask # {} THEN "config"
  ELSE "boot"

L == INSTANCE Link WITH linkUp <- mask # {}, macEn <- running, phase <- LinkPhase

(* However the PHYs behave, and whichever reads fail, the driver sees the  *)
(* link change only as module Link allows: every change of the mask that   *)
(* xPhyCheckLinkStatus makes is followed by prvEthernetUpdateConfig, and   *)
(* while there is a link the MAC runs.                                     *)
PhyImplementsLink == L!Spec

(* Between two looks at the PHYs a link means that the MAC is started,     *)
(* also when it is stopped and started while another port comes or goes.   *)
Served == pc = "loop" /\ mask # {} => running

(* Nothing disturbs the ports: no cable or link comes or goes, MDIO        *)
(* answers, and no negotiation that has a partner outlasts its 3 seconds.  *)
CalmSweep ==
  Sweep({}, {}, FALSE) \/ (Sweep({}, {}, TRUE) /\ cable \subseteq done')

Calm ==
  \/ Restart \/ CalmSweep \/ ReadStatus({}, {}) \/ Start \/ Stop
  \/ Reception \/ Expire \/ CheckLink({}) \/ InitRetry
  \/ \E p \in Ports : Complete(p)

(* Once nothing disturbs the ports, and if frames come with pauses in      *)
(* which xPhyCheckLinkStatus gets to look, the mask comes to name exactly  *)
(* the ports with a partner, the MAC runs if there is one, and the IP task *)
(* has got the interface.  The restart of the negotiation that follows     *)
(* every change takes all links down, and must not make the next change of *)
(* its own.                                                                *)
LinkSettles ==
  <>[][Calm]_vars /\ SF_vars(CheckLink({})) =>
    <>[](pc = "loop" => mask = cable /\ (mask # {} => running /\ irqOn))
=============================================================================
