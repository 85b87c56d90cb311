------------------------------- MODULE RabbitMQ -------------------------------
(***************************************************************************)
(* The message-broker server (java/rabbitmq_server/src): RabbitMQServer    *)
(* publishes the name of each Interest on SignQueue, the RabbitMQWorker    *)
(* processes sign and publish the result on ReturnQueue, and the loop of   *)
(* RabbitMQServer.run turns what comes back into Data.                     *)
(*                                                                         *)
(* The broker is external, modelled from the calls: basicQos(2) lets it    *)
(* push two deliveries to a consumer before they are acknowledged;         *)
(* queueDeclare counts the messages that are not pushed yet; both queues   *)
(* are auto-delete, so SignQueue disappears with its last consumer, and a  *)
(* message published to no queue is dropped; what a dead consumer did not  *)
(* acknowledge goes back to the front of its queue.  A delivery that is    *)
(* taken and not acknowledged, because an exception came in between, is    *)
(* not pushed again, and counts against the prefetch for good.             *)
(***************************************************************************)
EXTENDS Integers, Sequences, FiniteSets

CONSTANTS Workers,    \* the RabbitMQWorker processes
          Interests,  \* the Interests the server receives
          None,
          Prefetch,   \* basicQos; 2 in the code
          Failures    \* bound on the crashes of workers and the exceptions

ASSUME WorkersAssumption == IsFiniteSet(Workers)
ASSUME NamesAssumption == None \notin Interests
ASSUME BoundsAssumption == Prefetch \in Nat \ {0} /\ Failures \in Nat

VARIABLES
  server,       \* where RabbitMQServer.run is
  count,        \* its local variable
  arrived,      \* Interests received so far
  sign_exists,  \* SignQueue exists
  signQueue,    \* messages not pushed to a worker
  worker,       \* where each worker is; "down" before it starts
  unacked,      \* worker -> deliveries pushed to it, not taken or in its hands
  kept,         \* worker -> deliveries it has taken, whose basicAck failed
  data,         \* worker -> the name it is about to sign
  returnQueue,  \* messages not pushed to the server
  delivered,    \* deliveries pushed to the server, not taken
  withheld,     \* number of deliveries it has taken and never acknowledges
  answered,     \* names put on the Face, in order
  lost,         \* auxiliary: Interests that will never be answered
  failures

serverVars == <<server, count, arrived, answered>>
returnVars == <<returnQueue, delivered, withheld>>
signVars == <<sign_exists, signQueue>>
workerVars == <<worker, unacked, kept, data>>
vars == <<serverVars, returnVars, signVars, workerVars, lost, failures>>

Elements(s) == {s[k] : k \in DOMAIN s}

(* The constructor of RabbitMQServer has declared both queues.             *)
Init ==
  /\ server = "declare" /\ count = 0 /\ arrived = {} /\ answered = << >>
  /\ returnQueue = << >> /\ delivered = << >> /\ withheld = 0
  /\ sign_exists = TRUE /\ signQueue = << >>
  /\ worker = [w \in Workers |-> "down"]
  /\ unacked = [w \in Workers |-> << >>]
  /\ kept = [w \in Workers |-> << >>]
  /\ data = [w \in Workers |-> None]
  /\ lost = {} /\ failures = 0
-----------------------------------------------------------------------------
(* Fault: one more delivery is awaited than the queue holds.               *)
queueDeclareOvercounts ==
  /\ server = "declare"
  /\ count' = Len(returnQueue) + 1
  /\ server' = "deliver"
  /\ UNCHANGED <<arrived, answered, returnVars, signVars, workerVars, lost, failures>>

(* RabbitMQServer.run: queueDeclare and getMessageCount.                   *)
queueDeclare ==
  /\ server = "declare"
  /\ count' = Len(returnQueue)
  /\ server' = "deliver"
  /\ UNCHANGED <<arrived, answered, returnVars, signVars, workerVars, lost, failures>>

(* nextDelivery, which blocks; deserialize_signature, putData, basicAck.   *)
nextDelivery ==
  /\ server = "deliver" /\ count > 0 /\ delivered # << >>
  /\ answered' = Append(answered, Head(delivered))
  /\ delivered' = Tail(delivered)
  /\ count' = count - 1
  /\ UNCHANGED <<server, arrived, returnQueue, withheld, signVars, workerVars, lost, failures>>

(* An exception in between leaves the loop before basicAck: nothing was put*)
(* on the Face ...                                                         *)
putFails ==
  /\ server = "deliver" /\ count > 0 /\ delivered # << >> /\ failures < Failures
  /\ failures' = failures + 1
  /\ lost' = lost \cup {Head(delivered)}
  /\ delivered' = Tail(delivered)
  /\ withheld' = withheld + 1
  /\ server' = "declare"
  /\ UNCHANGED <<count, arrived, answered, returnQueue, signVars, workerVars>>

(* ... or the Data was put and basicAck itself failed.                     *)
ackFails ==
  /\ server = "deliver" /\ count > 0 /\ delivered # << >> /\ failures < Failures
  /\ failures' = failures + 1
  /\ answered' = Append(answered, Head(delivered))
  /\ delivered' = Tail(delivered)
  /\ withheld' = withheld + 1
  /\ server' = "declare"
  /\ UNCHANGED <<count, arrived, returnQueue, signVars, workerVars, lost>>

delivering ==
  /\ server = "deliver" /\ count = 0
  /\ server' = "events"
  /\ UNCHANGED <<count, arrived, answered, returnVars, signVars, workerVars, lost, failures>>

(* face.processEvents: onInterest publishes each Interest that arrived.    *)
onInterest(n) ==
  /\ server = "events"
  /\ arrived' = arrived \cup {n}
  /\ IF sign_exists
       THEN signQueue' = Append(signQueue, n) /\ UNCHANGED lost
       ELSE lost' = lost \cup {n} /\ UNCHANGED signQueue
  /\ UNCHANGED <<server, count, answered, returnVars, sign_exists, workerVars, failures>>

(* ... or basicPublish throws, and the Interest is forgotten.              *)
publishFails(n) ==
  /\ server = "events" /\ failures < Failures
  /\ failures' = failures + 1
  /\ arrived' = arrived \cup {n}
  /\ lost' = lost \cup {n}
  /\ UNCHANGED <<server, count, answered, returnVars, signVars, workerVars>>

eventsProcessed ==
  /\ server = "events"
  /\ server' = "declare"
  /\ UNCHANGED <<count, arrived, answered, returnVars, signVars, workerVars, lost, failures>>
-----------------------------------------------------------------------------
(* The broker pushes a message to a consumer.                              *)
CanPushReturn == returnQueue # << >> /\ Len(delivered) + withheld < Prefetch

pushReturn ==
  /\ CanPushReturn
  /\ delivered' = Append(delivered, Head(returnQueue))
  /\ returnQueue' = Tail(returnQueue)
  /\ UNCHANGED <<serverVars, withheld, signVars, workerVars, lost, failures>>

pushSign(w) ==
  /\ worker[w] # "down" /\ signQueue # << >>
  /\ Len(unacked[w]) + Len(kept[w]) < Prefetch
  /\ unacked' = [unacked EXCEPT ![w] = Append(@, Head(signQueue))]
  /\ signQueue' = Tail(signQueue)
  /\ UNCHANGED <<serverVars, returnVars, sign_exists, worker, kept, data, lost, failures>>

(* RabbitMQWorker: the constructor declares the queues and subscribes.     *)
start(w) ==
  /\ worker[w] = "down"
  /\ worker' = [worker EXCEPT ![w] = "next"]
  /\ sign_exists' = TRUE
  /\ UNCHANGED <<serverVars, returnVars, signQueue, unacked, kept, data, lost, failures>>

(* run: nextDelivery and deserialize_interest.                             *)
workerNext(w) ==
  /\ worker[w] = "next" /\ unacked[w] # << >>
  /\ data' = [data EXCEPT ![w] = Head(unacked[w])]
  /\ worker' = [worker EXCEPT ![w] = "ack"]
  /\ UNCHANGED <<serverVars, returnVars, signVars, unacked, kept, lost, failures>>

(* Fault: nothing is acknowledged, and the worker takes the same delivery  *)
(* again.                                                                  *)
workerAckForgotten(w) ==
  /\ worker[w] = "ack"
  /\ worker' = [worker EXCEPT ![w] = "sign"]
  /\ UNCHANGED <<serverVars, returnVars, signVars, unacked, kept, data, lost, failures>>

(* basicAck, before the signature.                                         *)
workerAck(w) ==
  /\ worker[w] = "ack"
  /\ unacked' = [unacked EXCEPT ![w] = Tail(@)]
  /\ worker' = [worker EXCEPT ![w] = "sign"]
  /\ UNCHANGED <<serverVars, returnVars, signVars, kept, data, lost, failures>>

(* basicAck throws: the delivery is not signed and stays with the worker.  *)
workerAckFails(w) ==
  /\ worker[w] = "ack" /\ failures < Failures
  /\ failures' = failures + 1
  /\ unacked' = [unacked EXCEPT ![w] = Tail(@)]
  /\ kept' = [kept EXCEPT ![w] = Append(@, data[w])]
  /\ worker' = [worker EXCEPT ![w] = "next"]
  /\ UNCHANGED <<serverVars, returnVars, signVars, data, lost>>

(* sign and basicPublish on ReturnQueue.                                   *)
workerPublish(w) ==
  /\ worker[w] = "sign"
  /\ returnQueue' = Append(returnQueue, data[w])
  /\ worker' = [worker EXCEPT ![w] = "next"]
  /\ UNCHANGED <<serverVars, delivered, withheld, signVars, unacked, kept, data, lost, failures>>

(* An exception in sign or basicPublish: the loop goes on.                 *)
workerFails(w) ==
  /\ worker[w] = "sign" /\ failures < Failures
  /\ failures' = failures + 1
  /\ lost' = lost \cup {data[w]}
  /\ worker' = [worker EXCEPT ![w] = "next"]
  /\ UNCHANGED <<serverVars, returnVars, signVars, unacked, kept, data>>

(* Fault: the broker forgets what a dead worker has not acknowledged.      *)
crashLosesUnacked(w) ==
  /\ worker[w] # "down" /\ failures < Failures
  /\ failures' = failures + 1
  /\ worker' = [worker EXCEPT ![w] = "down"]
  /\ unacked' = [unacked EXCEPT ![w] = << >>]
  /\ kept' = [kept EXCEPT ![w] = << >>]
  /\ UNCHANGED <<serverVars, returnVars, signVars, data, lost>>

(* A worker dies.  What it has not acknowledged is requeued, unless it was *)
(* the last one: then SignQueue is deleted with all it holds.              *)
crash(w) ==
  /\ worker[w] # "down" /\ failures < Failures
  /\ failures' = failures + 1
  /\ worker' = [worker EXCEPT ![w] = "down"]
  /\ unacked' = [unacked EXCEPT ![w] = << >>]
  /\ kept' = [kept EXCEPT ![w] = << >>]
  /\ LET inHand == IF worker[w] = "sign" THEN {data[w]} ELSE {}
         requeued == (kept[w] \o unacked[w]) \o signQueue
         last == \A v \in Workers \ {w} : worker[v] = "down"
     IN  /\ sign_exists' = ~last
         /\ signQueue' = IF last THEN << >> ELSE requeued
         /\ lost' = lost \cup inHand \cup (IF last THEN Elements(requeued) ELSE {})
  /\ UNCHANGED <<serverVars, returnVars, data>>
-----------------------------------------------------------------------------
Server == \/ queueDeclare \/ nextDelivery \/ delivering \/ eventsProcessed
          \/ putFails \/ ackFails
          \/ \E n \in Interests \ arrived : onInterest(n) \/ publishFails(n)
Worker(w) == workerNext(w) \/ workerAck(w) \/ workerPublish(w)

Next == \/ Server
        \/ pushReturn
        \/ \E w \in Workers : \/ pushSign(w) \/ start(w) \/ Worker(w)
                              \/ workerAckFails(w) \/ workerFails(w) \/ crash(w)

(* The server's loop, the broker and the running workers go on.  No worker *)
(* has to be started (again) and no Interest has to arrive.                *)
Fairness ==
  /\ WF_vars(queueDeclare) /\ WF_vars(nextDelivery \/ putFails \/ ackFails)
  /\ WF_vars(delivering)
  /\ WF_vars(eventsProcessed) /\ WF_vars(pushReturn)
  /\ WF_vars(\E w \in Workers : pushSign(w))
  /\ \A w \in Workers : WF_vars(Worker(w) \/ workerAckFails(w) \/ workerFails(w))

Spec == Init /\ [][Next]_vars
FairSpec == Spec /\ Fairness
-----------------------------------------------------------------------------
(* Every variable keeps its type, and the broker its prefetch limit.       *)
TypeOK ==
  /\ server \in {"declare", "deliver", "events"} /\ count \in Nat
  /\ arrived \in SUBSET Interests /\ answered \in Seq(Interests)
  /\ returnQueue \in Seq(Interests)
  /\ delivered \in Seq(Interests)
  /\ withheld \in Nat /\ Len(delivered) + withheld <= Prefetch
  /\ sign_exists \in BOOLEAN /\ signQueue \in Seq(Interests)
  /\ worker \in [Workers -> {"down", "next", "ack", "sign"}]
  /\ unacked \in [Workers -> Seq(Interests)] /\ kept \in [Workers -> Seq(Interests)]
  /\ \A w \in Workers : Len(unacked[w]) + Len(kept[w]) <= Prefetch
  /\ data \in [Workers -> Interests \cup {None}]
  /\ lost \in SUBSET Interests /\ failures \in Nat

Occurrences(n, s) == Cardinality({k \in DOMAIN s : s[k] = n})

(* Every Interest published is in one place, and answered at most once,    *)
(* even though deliveries of a dead worker are repeated: it is queued,     *)
(* with a worker, on its way back, answered, or counted as lost.           *)
EachInterestOnce ==
  \A n \in Interests :
    Occurrences(n, signQueue \o returnQueue \o delivered \o answered)
      + Cardinality({w \in Workers : Occurrences(n, kept[w] \o unacked[w]) = 1})
      + Cardinality({w \in Workers : worker[w] = "sign" /\ data[w] = n})
      + (IF n \in lost THEN 1 ELSE 0)
    = IF n \in arrived THEN 1 ELSE 0

(* The server does not block in nextDelivery because it counted wrong: the *)
(* deliveries it still wants exist, and unless it withholds as many as the *)
(* prefetch allows, one of them is there or can be pushed to it.           *)
DeliveriesSuffice ==
  server = "deliver" =>
    /\ count <= Len(delivered) + Len(returnQueue)
    /\ count > 0 /\ withheld < Prefetch => delivered # << >> \/ CanPushReturn

InSeq(n, s) == \E k \in DOMAIN s : s[k] = n

(* The server can still be sent replies, and a running worker Interests.   *)
Running == /\ withheld < Prefetch
           /\ \E w \in Workers : worker[w] # "down" /\ Len(kept[w]) < Prefetch

(* While that remains so, an Interest ends answered, lost with an exception*)
(* or a worker, kept by a worker that could not acknowledge it, or among   *)
(* the deliveries that were pushed to the server and that queueDeclare does*)
(* not count.                                                              *)
AnsweredLostOrPushed ==
  <>[]Running =>
    \A n \in Interests :
      n \in arrived ~> (\/ InSeq(n, answered) \/ n \in lost \/ InSeq(n, delivered)
                        \/ \E w \in Workers : InSeq(n, kept[w]))
=============================================================================
