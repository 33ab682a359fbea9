------------------------------ MODULE MCEmacRx ------------------------------
(***************************************************************************)
(* EmacRx on a small ring.  The buffers are interchangeable.               *)
(***************************************************************************)
EXTENDS EmacRxRefinement, TLC

BufferSymmetry == Permutations(Buffers)
=============================================================================
