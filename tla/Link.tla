-------------------------------- MODULE Link --------------------------------
(***************************************************************************)
(* What the EMAC driver relies on about the link, whatever the PHYs do:    *)
(* whether there is a link changes only where the handler task looks, each *)
(* change is followed by a re-configuration of the MAC before anything     *)
(* else is handled, and the MAC is left stopped only without link.         *)
(***************************************************************************)
VARIABLES
  linkUp,   \* packets are accepted for sending
  macEn,    \* the MAC is started
  phase     \* "boot", "watch", "config" or "start"

vars == <<linkUp, macEn, phase>>

Init == ~linkUp /\ ~macEn /\ phase = "boot"

(* Another port may have come or gone while there is a link.               *)
Change ==
  /\ phase = "watch" /\ phase' = "config"
  /\ linkUp' \in BOOLEAN /\ (linkUp \/ linkUp')
  /\ UNCHANGED macEn

(* The negotiation decides anew; at boot it is forced.                     *)
Negotiate ==
  /\ phase = "boot" \/ (phase = "config" /\ linkUp)
  /\ phase' = "start"
  /\ linkUp' \in BOOLEAN
  /\ UNCHANGED macEn

Start == phase = "start" /\ phase' = "watch" /\ macEn' = TRUE /\ UNCHANGED linkUp

Stop ==
  /\ phase = "config" /\ ~linkUp
  /\ phase' = "watch" /\ macEn' = FALSE
  /\ UNCHANGED linkUp

Next == Change \/ Negotiate \/ Start \/ Stop

Spec == Init /\ [][Next]_vars
=============================================================================
