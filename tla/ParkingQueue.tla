----------------------------- MODULE ParkingQueue -----------------------------
(***************************************************************************)
(* What LFBQ gives the Java server, as far as its threads can tell: an     *)
(* element is offered in one step, which also wakes up every consumer that *)
(* is parked by then.  It is less than a blocking queue: a consumer that   *)
(* found the queue empty parks later, perhaps with an element in it.       *)
(***************************************************************************)
EXTENDS Naturals, Sequences

CONSTANTS Consumers,  \* the threads that call take
          Elements    \* what can be offered

VARIABLES queue,      \* the elements offered and not taken
          state       \* consumer -> "poll", "busy", "register" or "parked"

vars == <<queue, state>>

Init == /\ queue = << >>
        /\ state = [c \in Consumers |-> "poll"]

offer(e) ==
  /\ queue' = Append(queue, e)
  /\ state' = [c \in Consumers |-> IF state[c] = "parked" THEN "poll" ELSE state[c]]

(* take returns the first element, or goes on to park.                     *)
poll(c) ==
  /\ state[c] = "poll"
  /\ \/ /\ queue # << >>
        /\ queue' = Tail(queue)
        /\ state' = [state EXCEPT ![c] = "busy"]
     \/ /\ queue = << >>
        /\ state' = [state EXCEPT ![c] = "register"]
        /\ UNCHANGED queue

process(c) ==
  /\ state[c] = "busy"
  /\ state' = [state EXCEPT ![c] = "poll"]
  /\ UNCHANGED queue

(* It parks, or it is seen by an offer or finds no place to park.          *)
register(c) ==
  /\ state[c] = "register"
  /\ \E s \in {"parked", "poll"} : state' = [state EXCEPT ![c] = s]
  /\ UNCHANGED queue

(* park may return for no reason.                                          *)
return(c) ==
  /\ state[c] = "parked"
  /\ state' = [state EXCEPT ![c] = "poll"]
  /\ UNCHANGED queue

Next == \/ \E e \in Elements : offer(e)
        \/ \E c \in Consumers : poll(c) \/ process(c) \/ register(c) \/ return(c)

(* Only a parked consumer stays where it is.                               *)
Fairness == \A c \in Consumers : WF_vars(poll(c) \/ process(c) \/ register(c))

Spec == Init /\ [][Next]_vars /\ Fairness
=============================================================================
