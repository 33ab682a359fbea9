------------------------------- MODULE MCEmac -------------------------------
(***************************************************************************)
(* The whole driver on the smallest rings that show its behaviours.        *)
(***************************************************************************)
EXTENDS Emac, TLC

BufferSymmetry == Permutations(Buffers)
=============================================================================
