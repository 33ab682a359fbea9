------------------------------ MODULE MCEmacTx ------------------------------
(***************************************************************************)
(* EmacTx on a small ring.  The buffers are interchangeable.               *)
(***************************************************************************)
EXTENDS EmacTxRefinement, TLC

BufferSymmetry == Permutations(Buffers)
=============================================================================
