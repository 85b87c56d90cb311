-------------------------- MODULE MCConcurrentQueue ---------------------------
EXTENDS ConcurrentQueue

CONSTANTS t1, t2, k1, k2, c1, c2

(* Threads race for the hash table; tokens and a thread for the list and   *)
(* an inactive producer; consumers for the elements of three producers;    *)
(* and a consumer scans the list while a thread adds a producer to it.     *)
MCCasts ==
  {[actors |-> {t1, t2}, made |-> 0], [actors |-> {t1, k1, k2}, made |-> 1],
   [actors |-> {c1, c2}, made |-> 3], [actors |-> {t1, c1}, made |-> 2]}
=============================================================================
