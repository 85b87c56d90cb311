-------------------------------- MODULE LFBQ ----------------------------------
(***************************************************************************)
(* The queue of the Java server (java/server/src/LFBQ.java): a lock-free   *)
(* deque whose consumers park when it is empty and leave their thread in   *)
(* one of the slots of consumerWorker, where offer finds them.             *)
(*                                                                         *)
(* The server has one producer, the Face thread, and as many consumers as  *)
(* slots.  Each access to the deque or to a slot is one step.  LockSupport *)
(* is external: unpark gives its thread a permit, park takes the permit or *)
(* blocks until there is one, and may return without a reason.             *)
(* ConcurrentLinkedDeque is external too: its operations are atomic.       *)
(***************************************************************************)
EXTENDS Naturals, Sequences, FiniteSets

CONSTANTS Consumers,  \* the DataProcess threads
          NoThread,   \* null in a slot
          Offers,     \* bound on the number of elements offered
          Spurious    \* bound on the returns of park without a permit

ASSUME ConsumersAssumption == IsFiniteSet(Consumers) /\ NoThread \notin Consumers
ASSUME BoundsAssumption == Offers \in Nat /\ Spurious \in Nat

consumer == Cardinality(Consumers)
Slots == 0..(consumer - 1)

VARIABLES
  deque,           \* the elements, numbered in the order of their offers
  consumerWorker,  \* slot -> thread or NoThread
  offered,         \* number of elements offered so far
  producer,        \* where offer is: "idle", "scan", "clear" or "unpark"
  pindex,          \* index in offer's loop
  threadToNotify,
  place,           \* where each consumer is in take
  cindex,          \* index in take's loop, for each consumer
  permit,          \* the park permit of each consumer
  spurious,        \* returns of park without a permit so far
  covered          \* auxiliary: elements offered while some slot was taken

producerVars == <<offered, producer, pindex, threadToNotify, covered>>
consumerVars == <<place, cindex, spurious>>
queueVars == <<deque, consumerWorker, producerVars, consumerVars, permit>>

QueueInit ==
  /\ deque = << >>
  /\ consumerWorker = [k \in Slots |-> NoThread]
  /\ offered = 0
  /\ producer = "idle"
  /\ pindex = 0
  /\ threadToNotify = NoThread
  /\ place = [c \in Consumers |-> "poll"]
  /\ cindex = [c \in Consumers |-> 0]
  /\ permit = [c \in Consumers |-> FALSE]
  /\ spurious = 0
  /\ covered = {}
-----------------------------------------------------------------------------
(* offer: offerLast, then the loop over the slots.                         *)
offerLast ==
  /\ producer = "idle" /\ offered < Offers
  /\ offered' = offered + 1
  /\ deque' = Append(deque, offered + 1)
  /\ covered' = IF \E k \in Slots : consumerWorker[k] # NoThread
                  THEN covered \cup {offered + 1} ELSE covered
  /\ producer' = "scan"
  /\ pindex' = 0
  /\ UNCHANGED <<consumerWorker, threadToNotify, consumerVars, permit>>

(* Fault: the loop stops before the last slot.                             *)
offerGetStopsEarly ==
  /\ producer = "scan"
  /\ IF pindex + 1 < consumer
       THEN /\ threadToNotify' = consumerWorker[pindex]
            /\ IF consumerWorker[pindex] # NoThread
                 THEN producer' = "clear" /\ UNCHANGED pindex
                 ELSE pindex' = pindex + 1 /\ UNCHANGED producer
       ELSE producer' = "idle" /\ UNCHANGED <<pindex, threadToNotify>>
  /\ UNCHANGED <<deque, consumerWorker, offered, covered, consumerVars, permit>>

offerGet ==
  /\ producer = "scan"
  /\ IF pindex < consumer
       THEN /\ threadToNotify' = consumerWorker[pindex]
            /\ IF consumerWorker[pindex] # NoThread
                 THEN producer' = "clear" /\ UNCHANGED pindex
                 ELSE pindex' = pindex + 1 /\ UNCHANGED producer
       ELSE producer' = "idle" /\ UNCHANGED <<pindex, threadToNotify>>
  /\ UNCHANGED <<deque, consumerWorker, offered, covered, consumerVars, permit>>

offerClear ==
  /\ producer = "clear"
  /\ consumerWorker' = [consumerWorker EXCEPT ![pindex] = NoThread]
  /\ producer' = "unpark"
  /\ UNCHANGED <<deque, offered, pindex, threadToNotify, covered, consumerVars, permit>>

(* Fault: unpark reads the slot again, after it was cleared, and wakes up  *)
(* the thread it finds there.                                              *)
offerUnparkRereads ==
  /\ producer = "unpark"
  /\ permit' = [c \in Consumers |-> permit[c] \/ c = consumerWorker[pindex]]
  /\ producer' = "scan"
  /\ pindex' = pindex + 1
  /\ UNCHANGED <<deque, consumerWorker, offered, threadToNotify, covered, consumerVars>>

(* Fault: the loop ends with the first thread it wakes up.                 *)
offerUnparkStops ==
  /\ producer = "unpark"
  /\ permit' = [permit EXCEPT ![threadToNotify] = TRUE]
  /\ producer' = "idle"
  /\ UNCHANGED <<deque, consumerWorker, offered, pindex, threadToNotify, covered, consumerVars>>

offerUnpark ==
  /\ producer = "unpark"
  /\ permit' = [permit EXCEPT ![threadToNotify] = TRUE]
  /\ producer' = "scan"
  /\ pindex' = pindex + 1
  /\ UNCHANGED <<deque, consumerWorker, offered, threadToNotify, covered, consumerVars>>
-----------------------------------------------------------------------------
(* take: pollFirst.  With a value it returns, and the consumer calls take  *)
(* again when it has processed it.                                         *)
pollFirst(c) ==
  /\ place[c] = "poll"
  /\ IF deque # << >>
       THEN /\ deque' = Tail(deque)
            /\ place' = [place EXCEPT ![c] = "busy"]
            /\ UNCHANGED cindex
       ELSE /\ place' = [place EXCEPT ![c] = "register"]
            /\ cindex' = [cindex EXCEPT ![c] = 0]
            /\ UNCHANGED deque
  /\ UNCHANGED <<consumerWorker, producerVars, permit, spurious>>

process(c) ==
  /\ place[c] = "busy"
  /\ place' = [place EXCEPT ![c] = "poll"]
  /\ UNCHANGED <<deque, consumerWorker, producerVars, cindex, permit, spurious>>

(* The compareAndSet loop: the first empty slot, or none.                  *)
register(c) ==
  /\ place[c] = "register"
  /\ IF cindex[c] = consumer
       THEN /\ place' = [place EXCEPT ![c] = "parkNanos"]
            /\ UNCHANGED <<consumerWorker, cindex>>
       ELSE IF consumerWorker[cindex[c]] = NoThread
         THEN /\ consumerWorker' = [consumerWorker EXCEPT ![cindex[c]] = c]
              /\ place' = [place EXCEPT ![c] = "park"]
              /\ UNCHANGED cindex
         ELSE /\ cindex' = [cindex EXCEPT ![c] = @ + 1]
              /\ UNCHANGED <<consumerWorker, place>>
  /\ UNCHANGED <<deque, producerVars, permit, spurious>>

(* LockSupport.park returns with the permit.                               *)
park(c) ==
  /\ place[c] = "park" /\ permit[c]
  /\ permit' = [permit EXCEPT ![c] = FALSE]
  /\ place' = [place EXCEPT ![c] = "poll"]
  /\ UNCHANGED <<deque, consumerWorker, producerVars, cindex, spurious>>

(* LockSupport.park returns for no reason: the slot stays taken.           *)
parkSpurious(c) ==
  /\ place[c] = "park" /\ spurious < Spurious
  /\ spurious' = spurious + 1
  /\ place' = [place EXCEPT ![c] = "poll"]
  /\ UNCHANGED <<deque, consumerWorker, producerVars, cindex, permit>>

(* LockSupport.parkNanos returns after 10 ms, or earlier with the permit.  *)
parkNanos(c) ==
  /\ place[c] = "parkNanos"
  /\ permit' = [permit EXCEPT ![c] = FALSE]
  /\ place' = [place EXCEPT ![c] = "poll"]
  /\ UNCHANGED <<deque, consumerWorker, producerVars, cindex, spurious>>
-----------------------------------------------------------------------------
offer == offerLast \/ offerGet \/ offerClear \/ offerUnpark
takeStep(c) == pollFirst(c) \/ process(c) \/ register(c) \/ park(c) \/ parkNanos(c)

QueueNext ==
  \/ offerLast \/ offerGet \/ offerClear \/ offerUnpark
  \/ \E c \in Consumers : takeStep(c)
  \/ \E c \in Consumers : parkSpurious(c)

(* An offer that began ends, and every consumer runs; nothing says that    *)
(* another element is ever offered, nor that park returns for no reason.   *)
QueueFairness ==
  /\ WF_queueVars(offerGet \/ offerClear \/ offerUnpark)
  /\ \A c \in Consumers : WF_queueVars(takeStep(c))

QueueSpec == QueueInit /\ [][QueueNext]_queueVars
FairQueueSpec == QueueSpec /\ QueueFairness
-----------------------------------------------------------------------------
(* The indexes of the two loops stay in the array or one past its end, and *)
(* offer never unparks null.                                               *)
QueueTypeOK ==
  /\ deque \in Seq(Nat)
  /\ consumerWorker \in [Slots -> Consumers \cup {NoThread}]
  /\ offered \in 0..Offers
  /\ producer \in {"idle", "scan", "clear", "unpark"}
  /\ pindex \in 0..consumer
  /\ threadToNotify \in Consumers \cup {NoThread}
  /\ producer \in {"clear", "unpark"} => threadToNotify # NoThread /\ pindex \in Slots
  /\ place \in [Consumers -> {"poll", "busy", "register", "park", "parkNanos"}]
  /\ cindex \in [Consumers -> 0..consumer]
  /\ permit \in [Consumers -> BOOLEAN]
  /\ spurious \in 0..Spurious
  /\ covered \subseteq 1..offered

(* A consumer blocked in park can be found: its thread is in a slot, or    *)
(* offer has already read it there and will unpark it.                     *)
ParkedIsFindable ==
  \A c \in Consumers :
    place[c] = "park" /\ ~permit[c] =>
      \/ \E k \in Slots : consumerWorker[k] = c
      \/ producer \in {"clear", "unpark"} /\ threadToNotify = c

InDeque(e) == \E k \in DOMAIN deque : deque[k] = e

(* An element offered while a consumer is in a slot is taken, with every   *)
(* element before it, even if nothing is ever offered again.               *)
CoveredIsTaken == \A e \in 1..Offers : e \in covered ~> ~InDeque(e)

(* The current offer will unpark the consumer, or already has.             *)
WillReturn(c) ==
  \/ permit[c]
  \/ producer \in {"clear", "unpark"} /\ threadToNotify = c
  \/ producer = "scan" /\ \E k \in Slots : k >= pindex /\ consumerWorker[k] = c
  \/ producer # "idle" /\ \E k \in Slots : k > pindex /\ consumerWorker[k] = c

(* The queue implements ParkingQueue: every thread that is parked when an  *)
(* element is offered will look at the queue again, whatever is registered *)
(* or left behind in the slots while offer goes through them.              *)
AbstractState(c) ==
  CASE place[c] \in {"poll", "busy", "register"} -> place[c]
    [] place[c] = "parkNanos"                    -> "poll"
    [] place[c] = "park"                         -> IF WillReturn(c) THEN "poll" ELSE "parked"
Parking == INSTANCE ParkingQueue WITH Elements <- 1..Offers, queue <- deque,
                                      state <- [c \in Consumers |-> AbstractState(c)]
ImplementsParking == Parking!Spec

(* What BlockingQueue.take promises: an element that was offered does not  *)
(* stay in the queue while the consumers wait for one.                     *)
OfferedIsTaken == \A e \in 1..Offers : InDeque(e) ~> ~InDeque(e)
=============================================================================
