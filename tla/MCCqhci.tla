------------------------------ MODULE MCCqhci -------------------------------
(***************************************************************************)
(* The command queue with few tags.  Ranges are the same or disjoint, and  *)
(* interchangeable.                                                        *)
(***************************************************************************)
EXTENDS Cqhci, TLC

SameRange == {<<b, b>> : b \in Blocks}

BlockSymmetry == Permutations(Blocks)
=============================================================================
