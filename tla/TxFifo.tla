------------------------------- MODULE TxFifo -------------------------------
(***************************************************************************)
(* What the transmit side of the driver promises to the IP stack: a queue  *)
(* of bounded capacity.  Frames go on the wire in the order in which they  *)
(* were accepted, each once, and a buffer comes back only after its frame  *)
(* was sent, again in order.                                               *)
(***************************************************************************)
EXTENDS Naturals, Sequences, SequencesExt

CONSTANTS Buffers, Capacity

VARIABLES
  queue,  \* the accepted buffers that have not come back, oldest first
  sent    \* how many of them, from the front, have been sent

Init == queue = <<>> /\ sent = 0

Accept(b) ==
  /\ Len(queue) < Capacity
  /\ b \notin ToSet(queue)
  /\ queue' = Append(queue, b)
  /\ UNCHANGED sent

Send ==
  /\ sent < Len(queue)
  /\ sent' = sent + 1
  /\ UNCHANGED queue

Return ==
  /\ sent > 0
  /\ queue' = Tail(queue)
  /\ sent' = sent - 1

Next == (\E b \in Buffers : Accept(b)) \/ Send \/ Return

Spec == Init /\ [][Next]_<<queue, sent>>
=============================================================================
