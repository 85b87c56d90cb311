------------------------------ MODULE CppServer -------------------------------
(***************************************************************************)
(* The C++ server (c++/server/server.cpp): the thread that runs the Face,  *)
(* the signing threads, the display thread, and the main thread that stops *)
(* them on SIGINT.  They share the blocking queue of Interests and the     *)
(* plain bool _stop.                                                       *)
(*                                                                         *)
(* External parts, modelled by how server.cpp uses them: the queue is FIFO *)
(* for each producer and has no order between the Face thread and the main *)
(* thread; Face::put posts the Data to the io_service, whose thread sends  *)
(* it; io_service::stop lets the handler that is running finish and runs   *)
(* nothing after it.                                                       *)
(*                                                                         *)
(* _stop is read and written without synchronisation.  A read may return   *)
(* the old value, except after taking a dummy from the queue: main wrote   *)
(* _stop before it enqueued the dummy.                                     *)
(***************************************************************************)
EXTENDS Naturals, Sequences, FiniteSets

CONSTANTS Workers,    \* the signing threads, -t of them
          Interests,  \* the Interests the Face will receive
          Unparsable, \* those for a file of the server, without a segment number
          Dummy,      \* the Interest stop() enqueues to wake up a worker
          None        \* no Interest

ASSUME WorkersAssumption == IsFiniteSet(Workers)
ASSUME NamesAssumption == /\ Unparsable \subseteq Interests
                          /\ Dummy \notin Interests
                          /\ None \notin Interests \cup {Dummy}

VARIABLES
  stop,       \* set by signalHandler
  main,       \* where the main thread is; "failed" if the process was ended
  stopping,   \* _stop
  io,         \* the io_service: "running" or "stopped"
  registered, \* the prefix registration has succeeded
  face,       \* the Face thread: None (polling), an Interest, or "done"
  arrived,    \* Interests received so far
  queue,      \* what the Face thread enqueued
  enqueued,   \* dummies enqueued so far by stop()
  dummies,    \* dummies in the queue
  pc,         \* where each worker is
  job,        \* pair.first of each worker: what it dequeued last
  outbox,     \* Data posted to the io_service
  sent,       \* names of the Data sent, in order
  display     \* the display thread: "running" or "done"

mainVars == <<stop, main, stopping, io, enqueued>>
faceVars == <<registered, face, arrived, sent>>
vars == <<mainVars, faceVars, queue, dummies, pc, job, outbox, display>>

Alive == main \notin {"failed", "exited"}
-----------------------------------------------------------------------------
(* The constructor and start().                                            *)
Init ==
  /\ stop = FALSE
  /\ main = "sleep"
  /\ stopping = FALSE
  /\ io = "running"
  /\ registered = FALSE
  /\ face = None
  /\ arrived = {}
  /\ queue = << >>
  /\ enqueued = 0
  /\ dummies = 0
  /\ pc = [w \in Workers |-> "check"]
  /\ job = [w \in Workers |-> None]
  /\ outbox = << >>
  /\ sent = << >>
  /\ display = "running"

(* The answer to setInterestFilter: the prefix is registered, or the whole *)
(* process exits.                                                          *)
registerPrefix ==
  /\ Alive /\ ~registered /\ face = None /\ io = "running"
  /\ registered' = TRUE
  /\ UNCHANGED <<mainVars, face, arrived, sent, queue, dummies, pc, job, outbox, display>>

on_register_failed ==
  /\ Alive /\ ~registered /\ face = None /\ io = "running"
  /\ main' = "failed"
  /\ UNCHANGED <<stop, stopping, io, enqueued, faceVars, queue, dummies, pc,
                 job, outbox, display>>

(* The Face thread: processEvents dispatches an Interest to on_interest,   *)
(* sends a posted Data, or returns once the io_service is stopped.         *)
receive(n) ==
  /\ Alive /\ registered /\ face = None /\ io = "running"
  /\ arrived' = arrived \cup {n}
  /\ face' = n
  /\ UNCHANGED <<mainVars, registered, sent, queue, dummies, pc, job, outbox, display>>

on_interest ==
  /\ Alive /\ face \in Interests
  /\ queue' = Append(queue, face)
  /\ face' = None
  /\ UNCHANGED <<mainVars, registered, arrived, sent, dummies, pc, job, outbox, display>>

send ==
  /\ Alive /\ face = None /\ io = "running" /\ outbox # << >>
  /\ sent' = Append(sent, Head(outbox))
  /\ outbox' = Tail(outbox)
  /\ UNCHANGED <<mainVars, registered, face, arrived, queue, dummies, pc, job, display>>

processEventsReturns ==
  /\ Alive /\ face = None /\ io = "stopped"
  /\ face' = "done"
  /\ UNCHANGED <<mainVars, registered, arrived, sent, queue, dummies, pc, job,
                 outbox, display>>
-----------------------------------------------------------------------------
(* Fault: a worker that took a dummy may still miss _stop, as if main      *)
(* wrote _stop after enqueueing the dummies.                               *)
AlwaysMayMissStop(w) == TRUE

(* process: the loop condition.                                            *)
MayMissStop(w) == ~stopping \/ job[w] # Dummy

checkStop(w) ==
  /\ Alive /\ pc[w] = "check"
  /\ \/ stopping /\ pc' = [pc EXCEPT ![w] = "done"]
     \/ MayMissStop(w) /\ pc' = [pc EXCEPT ![w] = "wait"]
  /\ UNCHANGED <<mainVars, faceVars, queue, dummies, job, outbox, display>>

(* _queue.wait_dequeue(pair)                                               *)
wait_dequeue(w) ==
  /\ Alive /\ pc[w] = "wait"
  /\ \/ /\ queue # << >>
        /\ job' = [job EXCEPT ![w] = Head(queue)]
        /\ queue' = Tail(queue)
        /\ UNCHANGED dummies
     \/ /\ dummies > 0
        /\ job' = [job EXCEPT ![w] = Dummy]
        /\ dummies' = dummies - 1
        /\ UNCHANGED queue
  /\ pc' = [pc EXCEPT ![w] = "sign"]
  /\ UNCHANGED <<mainVars, faceVars, outbox, display>>

(* Fault: a failure to sign is skipped and nothing is put.                 *)
signFails(w) ==
  /\ Alive /\ pc[w] = "sign"
  /\ pc' = [pc EXCEPT ![w] = "check"]
  /\ UNCHANGED <<mainVars, faceVars, queue, dummies, job, outbox, display>>

(* Builds the Data and signs it.                                           *)
sign(w) ==
  /\ Alive /\ pc[w] = "sign" /\ job[w] \notin Unparsable
  /\ pc' = [pc EXCEPT ![w] = "put"]
  /\ UNCHANGED <<mainVars, faceVars, queue, dummies, job, outbox, display>>

(* The file is there and toSegment throws: nothing catches the exception,  *)
(* and the process ends.                                                   *)
toSegmentThrows(w) ==
  /\ Alive /\ pc[w] = "sign" /\ job[w] \in Unparsable
  /\ main' = "failed"
  /\ UNCHANGED <<stop, stopping, io, enqueued, faceVars, queue, dummies, pc,
                 job, outbox, display>>

(* Face::put, after which the next iteration follows.                      *)
put(w) ==
  /\ Alive /\ pc[w] = "put"
  /\ outbox' = Append(outbox, job[w])
  /\ pc' = [pc EXCEPT ![w] = "check"]
  /\ UNCHANGED <<mainVars, faceVars, queue, dummies, job, display>>

(* display: leaves its loop when it reads _stop.                           *)
displayReturns ==
  /\ Alive /\ display = "running" /\ stopping
  /\ display' = "done"
  /\ UNCHANGED <<mainVars, faceVars, queue, dummies, pc, job, outbox>>
-----------------------------------------------------------------------------
(* SIGINT, and the main thread: the loop around sleep, then Server::stop.  *)
signalHandler ==
  /\ Alive /\ ~stop
  /\ stop' = TRUE
  /\ UNCHANGED <<main, stopping, io, enqueued, faceVars, queue, dummies, pc,
                 job, outbox, display>>

stopBegins ==
  /\ main = "sleep" /\ stop
  /\ main' = "stop_io"
  /\ stopping' = TRUE
  /\ UNCHANGED <<stop, io, enqueued, faceVars, queue, dummies, pc, job, outbox,
                 display>>

(* Fault: the dummies are enqueued while the io_service runs.              *)
stopIoForgotten ==
  /\ main = "stop_io"
  /\ main' = "enqueue"
  /\ UNCHANGED <<stop, stopping, io, enqueued, faceVars, queue, dummies, pc, job,
                 outbox, display>>

stopIo ==
  /\ main = "stop_io"
  /\ main' = "enqueue"
  /\ io' = "stopped"
  /\ UNCHANGED <<stop, stopping, enqueued, faceVars, queue, dummies, pc, job,
                 outbox, display>>

(* Fault: the loop that enqueues the dummies starts at 1.                  *)
enqueueOneLess ==
  /\ main = "enqueue"
  /\ IF enqueued + 1 < Cardinality(Workers)
       THEN enqueued' = enqueued + 1 /\ dummies' = dummies + 1 /\ UNCHANGED main
       ELSE main' = "join" /\ UNCHANGED <<enqueued, dummies>>
  /\ UNCHANGED <<stop, stopping, io, faceVars, queue, pc, job, outbox, display>>

enqueueDummy ==
  /\ main = "enqueue"
  /\ IF enqueued < Cardinality(Workers)
       THEN enqueued' = enqueued + 1 /\ dummies' = dummies + 1 /\ UNCHANGED main
       ELSE main' = "join" /\ UNCHANGED <<enqueued, dummies>>
  /\ UNCHANGED <<stop, stopping, io, faceVars, queue, pc, job, outbox, display>>

(* _thread_pool.join_all()                                                 *)
Joined == /\ main = "join"
          /\ \A w \in Workers : pc[w] = "done"
          /\ display = "done"
          /\ face = "done"

(* The threads are gone, nobody uses the generated key any more: it is     *)
(* deleted, and main returns.                                              *)
stopEnds ==
  /\ Joined
  /\ main' = "exited"
  /\ UNCHANGED <<stop, stopping, io, enqueued, faceVars, queue, dummies, pc, job,
                 outbox, display>>
-----------------------------------------------------------------------------
FaceThread == \/ registerPrefix
              \/ on_register_failed
              \/ \E n \in Interests \ arrived : receive(n)
              \/ on_interest
              \/ send
              \/ processEventsReturns

Worker(w) == \/ checkStop(w) \/ wait_dequeue(w) \/ sign(w) \/ toSegmentThrows(w)
             \/ put(w)

MainThread == stopBegins \/ stopIo \/ enqueueDummy \/ stopEnds

Next == FaceThread \/ (\E w \in Workers : Worker(w)) \/ displayReturns
          \/ signalHandler \/ MainThread

(* The threads run.  Which waiting worker gets an element is left open, so *)
(* fairness of wait_dequeue is that of the queue and not of each worker;   *)
(* the registration is answered, and a store to _stop becomes visible.     *)
(* Neither the arrival of an Interest nor SIGINT is assumed.               *)
Fairness ==
  /\ WF_vars(registerPrefix \/ on_register_failed)
  /\ WF_vars(on_interest)
  /\ WF_vars(send)
  /\ WF_vars(processEventsReturns)
  /\ \A w \in Workers : WF_vars(checkStop(w)) /\ WF_vars(sign(w) \/ toSegmentThrows(w))
                       /\ WF_vars(put(w))
  /\ WF_vars(\E w \in Workers : wait_dequeue(w))
  /\ WF_vars(displayReturns)
  /\ WF_vars(MainThread)

Spec == Init /\ [][Next]_vars
FairSpec == Spec /\ Fairness
-----------------------------------------------------------------------------
(* Every variable keeps its type; the workers are where process can be.    *)
TypeOK ==
  /\ stop \in BOOLEAN /\ stopping \in BOOLEAN /\ registered \in BOOLEAN
  /\ main \in {"sleep", "stop_io", "enqueue", "join", "exited", "failed"}
  /\ io \in {"running", "stopped"}
  /\ face \in Interests \cup {None, "done"}
  /\ arrived \in SUBSET Interests
  /\ queue \in Seq(Interests)
  /\ enqueued \in Nat /\ dummies \in Nat
  /\ pc \in [Workers -> {"check", "wait", "sign", "put", "done"}]
  /\ job \in [Workers -> Interests \cup {Dummy, None}]
  /\ outbox \in Seq(Interests \cup {Dummy})
  /\ sent \in Seq(Interests \cup {Dummy})
  /\ display \in {"running", "done"}

(* join_all never waits for a worker that nothing will wake up: whatever   *)
(* each worker last read of _stop, there is an element in the queue for    *)
(* every worker that is blocked on it.                                     *)
NoWorkerStuck ==
  main = "join" =>
    Cardinality({w \in Workers : pc[w] = "wait"}) <= dummies + Len(queue)

(* The dummies wake up the workers and are seen by nobody else: the        *)
(* workers build, sign and put Data for them as for any Interest, and none *)
(* of it is sent, however the workers and the Face thread interleave with  *)
(* stop().                                                                 *)
NoDummySent == \A k \in 1..Len(sent) : sent[k] # Dummy

(* stop() returns once SIGINT was received.                                *)
ShutdownCompletes == stop ~> ~Alive

(* An Interest is answered unless the server is stopped first.             *)
EveryInterestServed ==
  \A n \in Interests : n \in arrived ~> (stopping \/ ~Alive \/ \E k \in DOMAIN sent : sent[k] = n)
=============================================================================
