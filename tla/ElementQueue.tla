----------------------------- MODULE ElementQueue -----------------------------
(***************************************************************************)
(* What a sub-queue of the concurrent queue promises: the elements, which  *)
(* are numbered in the order in which they are enqueued, are in one FIFO   *)
(* queue.  A call enqueues all its elements at once or none; a call        *)
(* dequeues the oldest ones.                                               *)
(***************************************************************************)
EXTENDS Naturals, Sequences

CONSTANTS Counts, Maxes

VARIABLES queue, enqueued

Init == queue = <<>> /\ enqueued = 0

Enqueue(n) ==
  /\ queue' = queue \o [i \in 1 .. n |-> enqueued + i - 1]
  /\ enqueued' = enqueued + n

Dequeue(max) ==
  \E n \in 1 .. max :
    /\ n <= Len(queue)
    /\ queue' = SubSeq(queue, n + 1, Len(queue))
    /\ UNCHANGED enqueued

Next == (\E n \in Counts : Enqueue(n)) \/ (\E n \in Maxes : Dequeue(n))

Spec == Init /\ [][Next]_<<queue, enqueued>>
=============================================================================
