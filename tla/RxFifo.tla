------------------------------- MODULE RxFifo -------------------------------
(***************************************************************************)
(* What the receive side of the driver promises to the IP stack: a queue   *)
(* that may lose frames but never reorders them, repeats them or hands on  *)
(* one that was not acceptable.  The promise ends with the first frame     *)
(* that breaks the ring.                                                   *)
(***************************************************************************)
EXTENDS Naturals, Sequences, SequencesExt

CONSTANTS
  Buffers, Kinds, Capacity,
  Other      \* an event that is not a received frame

VARIABLES
  arrived,   \* frames received and not decided on, records [buf, kind]
  delivered, \* what was handed on and not yet taken: buffers of frames, Other
  intact     \* nothing has broken the ring

Arrive(b, k) ==
  /\ Len(arrived) < Capacity
  /\ \A f \in ToSet(arrived) : f.buf # b
  /\ b \notin ToSet(delivered)
  /\ arrived' = Append(arrived, [buf |-> b, kind |-> k])
  /\ UNCHANGED delivered

Deliver ==
  /\ arrived # <<>> /\ Head(arrived).kind = "good"
  /\ delivered' = Append(delivered, Head(arrived).buf)
  /\ arrived' = Tail(arrived)

Drop ==
  /\ arrived # <<>>
  /\ arrived' = Tail(arrived)
  /\ UNCHANGED delivered

(* Somebody else sends an event.                                           *)
Post ==
  /\ delivered' = Append(delivered, Other)
  /\ UNCHANGED arrived

Take ==
  /\ delivered # <<>>
  /\ delivered' = Tail(delivered)
  /\ UNCHANGED arrived

Next ==
  \/ /\ intact /\ intact'
     /\ \/ \E b \in Buffers, k \in Kinds : Arrive(b, k)
        \/ Deliver \/ Drop \/ Post \/ Take
  \/ ~intact'

Spec ==
  /\ arrived = <<>> /\ delivered = <<>> /\ intact = TRUE
  /\ [][Next]_<<arrived, delivered, intact>>
=============================================================================
