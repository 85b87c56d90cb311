------------------------------ MODULE Semaphore -------------------------------
(***************************************************************************)
(* What the semaphore of the blocking queue promises: a counter that a     *)
(* signal increases by what it announces and that a wait decreases by what *)
(* it gets, never below zero.                                              *)
(***************************************************************************)
EXTENDS Naturals

CONSTANT Bulk  \* the most that one call announces or gets

VARIABLE count

Init == count = 0

Signal(n) == count' = count + n

Wait(n) == /\ count >= n
           /\ count' = count - n

Next == \E n \in 1..Bulk : Signal(n) \/ Wait(n)

Spec == Init /\ [][Next]_count
=============================================================================
