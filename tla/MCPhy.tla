------------------------------- MODULE MCPhy --------------------------------
(***************************************************************************)
(* Three PHYs: the bit of port 2 decides the interval between two looks.   *)
(***************************************************************************)
EXTENDS Phy

=============================================================================
