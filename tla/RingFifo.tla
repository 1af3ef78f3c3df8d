------------------------------ MODULE RingFifo ------------------------------
(***************************************************************************)
(* What a ring buffer of io.c promises its users: a bounded FIFO queue of  *)
(* bytes.  A producer appends fresh bytes while they fit; a consumer takes *)
(* bytes from the head.  Bytes are numbered in the order they were put,    *)
(* so a byte that is lost, duplicated or reordered shows in q.             *)
(***************************************************************************)
EXTENDS Naturals, Sequences

CONSTANTS Capacity,    \* the ring's sz
          MaxBytes     \* bound on the bytes ever put

VARIABLES q,           \* the queued bytes, oldest first
          in           \* how many bytes were ever put

Init == q = <<>> /\ in = 0

(* k fresh bytes are put (they must fit), then the m oldest are taken: a   *)
(* fill_ring pass stores bytes and its pusher forwards some in one step.   *)
PutTake(k, m) ==
    /\ k + m > 0
    /\ Len(q) + k <= Capacity
    /\ in + k <= MaxBytes
    /\ m <= Len(q) + k
    /\ LET grown == q \o [i \in 1 .. k |-> in + i]
       IN  q' = SubSeq(grown, m + 1, Len(grown))
    /\ in' = in + k

Next == \E k, m \in 0 .. Capacity : PutTake(k, m)

Spec == Init /\ [][Next]_<<q, in>>
=============================================================================
