-------------------------------- MODULE Fifo --------------------------------
(***************************************************************************)
(* What a pipe promises: a bounded queue of bytes.                         *)
(***************************************************************************)
EXTENDS Naturals, Sequences

CONSTANTS Vals, SIZE

VARIABLES q,  \* the bytes written and not yet read
          out \* the byte read last

Put(v) == Len(q) < SIZE /\ q' = Append(q, v) /\ UNCHANGED out

Get == q # <<>> /\ out' = Head(q) /\ q' = Tail(q)

Init == q = <<>> /\ out \in Vals

Next == Get \/ \E v \in Vals : Put(v)

Spec == Init /\ [][Next]_<<q, out>>
=============================================================================
