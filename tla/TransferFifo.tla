---------------------------- MODULE TransferFifo ----------------------------
(* What the users of the transfer queue are promised: a bounded first-in    *)
(* first-out buffer.  Packets enter at the back while there is room, leave  *)
(* from the front only, and a lost connection empties the buffer.           *)
EXTENDS Naturals, Sequences

CONSTANTS Packet,    \* what can be queued
          Capacity   \* how many packets fit

VARIABLE fifo

Init == fifo = <<>>

Enter == \E p \in Packet : /\ Len(fifo) < Capacity
                           /\ fifo' = Append(fifo, p)

\* One call may find that several packets in a row are finished with.
Leave == \E n \in 1 .. Len(fifo) : fifo' = SubSeq(fifo, n + 1, Len(fifo))

Empty == fifo' = <<>>

Next == Enter \/ Leave \/ Empty

Spec == Init /\ [][Next]_fifo

=============================================================================
