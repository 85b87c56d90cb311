----------------------------- MODULE FileTransfer -----------------------------
(***************************************************************************)
(* What a file download promises, whichever client performs it: the output *)
(* grows by whole segments, in order and without gaps, and the transfer is *)
(* declared complete only when the output is the whole file.  A transfer   *)
(* may also be given up, at any moment, with whatever was written so far.  *)
(***************************************************************************)
EXTENDS Naturals, Sequences

CONSTANT LastSegment     \* number of the file's last segment

VARIABLES output,        \* the segments written so far
          outcome        \* "pending", "complete" or "abandoned"

vars == <<output, outcome>>

FirstSegments(n) == [k \in 1..n |-> k - 1]

Init == /\ output = << >>
        /\ outcome = "pending"

(* Zero or more segments are written; the last one may end the transfer.   *)
Write == /\ outcome = "pending"
         /\ \E n \in Len(output)..(LastSegment + 1) :
              /\ output' = FirstSegments(n)
              /\ \/ outcome' = "pending"
                 \/ n = LastSegment + 1 /\ outcome' = "complete"

Abandon == /\ outcome = "pending"
           /\ outcome' = "abandoned"
           /\ UNCHANGED output

Next == Write \/ Abandon

Spec == Init /\ [][Next]_vars
=============================================================================
