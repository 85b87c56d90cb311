--------------------------- MODULE CppServerProofs ----------------------------
(***************************************************************************)
(* The shutdown of the C++ server, for any number of signing threads and   *)
(* any Interests.  The argument counts the dummies: stop() enqueues one    *)
(* for each worker, and a worker that took one never waits again.          *)
(*                                                                         *)
(* And the blocking queue that comes with it, for any number of threads,   *)
(* elements and elements per call: no wake-up is lost, the dequeue         *)
(* operations find the elements they were let through for, and the two     *)
(* levels of LightweightSemaphore together are a semaphore.                *)
(***************************************************************************)
EXTENDS CppServer, BlockingQueue, FiniteSetTheorems, SequenceTheorems, TLAPS

(* The workers that took a dummy.                                          *)
Woken == {w \in Workers : job[w] = Dummy}

(* Every dummy enqueued so far is in the queue or was taken by a worker of *)
(* its own, and that worker does not wait.                                 *)
DummiesCounted ==
  /\ dummies + Cardinality(Woken) = enqueued
  /\ enqueued <= Cardinality(Workers)
  /\ main = "join" => enqueued = Cardinality(Workers)
  /\ \A w \in Workers : pc[w] = "wait" => job[w] # Dummy

(* The order of the steps of stop().                                       *)
StopOrder ==
  /\ main \in {"sleep", "stop_io"} => enqueued = 0
  /\ main = "stop_io" => stopping
  /\ main \in {"enqueue", "join"} => stopping /\ io = "stopped"
  /\ enqueued > 0 => stopping /\ io = "stopped"

(* Nothing about a dummy exists while the io_service runs.                 *)
DummiesUnsent ==
  /\ NoDummySent
  /\ io = "running" => \A k \in 1..Len(outbox) : outbox[k] # Dummy

(* A worker that signs or puts has dequeued something.                     *)
JobTaken == \A w \in Workers : pc[w] \in {"sign", "put"} => job[w] # None

ServerInv == TypeOK /\ JobTaken /\ DummiesCounted /\ StopOrder /\ DummiesUnsent

(* The constructor and start().                                            *)
LEMMA InitServerInv == Init => ServerInv
<1> SUFFICES ASSUME Init PROVE ServerInv
  OBVIOUS
<1> USE DEF Init
<1>1. TypeOK
  <2>1. /\ stop \in BOOLEAN /\ stopping \in BOOLEAN /\ registered \in BOOLEAN
        /\ face \in Interests \cup {None, "done"} /\ arrived \in SUBSET Interests
        /\ enqueued \in Nat /\ dummies \in Nat
    OBVIOUS
  <2>2. pc \in [Workers -> {"check", "wait", "sign", "put", "done"}]
        /\ job \in [Workers -> Interests \cup {Dummy, None}]
    OBVIOUS
  <2>3. queue \in Seq(Interests) /\ outbox \in Seq(Interests \cup {Dummy})
        /\ sent \in Seq(Interests \cup {Dummy})
    BY EmptySeq
  <2> QED BY <2>1, <2>2, <2>3 DEF TypeOK
<1>2. Woken = {}
  BY NamesAssumption DEF Woken
<1>3. Cardinality(Workers) \in Nat
  BY WorkersAssumption, FS_CardinalityType
<1>4. DummiesCounted
  BY <1>2, <1>3, FS_EmptySet DEF DummiesCounted
<1>5. StopOrder /\ DummiesUnsent
  BY DEF StopOrder, DummiesUnsent, NoDummySent
<1>6. JobTaken
  BY DEF JobTaken
<1> QED BY <1>1, <1>4, <1>5, <1>6 DEF ServerInv

(* The Face thread: registerPrefix, on_register_failed, receive,           *)
(* on_interest, send and processEventsReturns.                             *)
LEMMA FaceKeeps == ServerInv /\ FaceThread => ServerInv'
<1> SUFFICES ASSUME ServerInv, FaceThread PROVE ServerInv'
  OBVIOUS
<1> USE DEF ServerInv, JobTaken, mainVars, faceVars
<1>1. CASE registerPrefix \/ on_register_failed \/ processEventsReturns
           \/ \E n \in Interests \ arrived : receive(n)
  <2>1. TypeOK'
    BY <1>1 DEF TypeOK, registerPrefix, on_register_failed, processEventsReturns, receive
  <2>2. UNCHANGED <<dummies, job, pc, enqueued, io, stopping, sent, outbox>>
        /\ (main' = main \/ (main' = "failed" /\ main # "exited"))
    BY <1>1 DEF registerPrefix, on_register_failed, processEventsReturns, receive, Alive
  <2> QED BY <2>1, <2>2 DEF DummiesCounted, Woken, StopOrder, DummiesUnsent, NoDummySent
<1>2. CASE on_interest
  <2>1. TypeOK'
    BY <1>2 DEF TypeOK, on_interest
  <2> QED BY <1>2, <2>1 DEF on_interest, DummiesCounted, Woken, StopOrder, DummiesUnsent,
                            NoDummySent
<1>3. CASE send
  <2>0. /\ outbox \in Seq(Interests \cup {Dummy}) /\ sent \in Seq(Interests \cup {Dummy})
        /\ outbox # << >> /\ io = "running"
    BY <1>3 DEF send, TypeOK
  <2>1. /\ Head(outbox) \in Interests \cup {Dummy}
        /\ Tail(outbox) \in Seq(Interests \cup {Dummy})
        /\ Len(Tail(outbox)) = Len(outbox) - 1 /\ Len(outbox) \in Nat \ {0}
        /\ \A k \in 1..Len(Tail(outbox)) : Tail(outbox)[k] = outbox[k + 1]
        /\ Head(outbox) = outbox[1]
    BY <2>0
  <2>2. Head(outbox) # Dummy
    BY <2>0, <2>1 DEF DummiesUnsent
  <2>3. /\ Append(sent, Head(outbox)) \in Seq(Interests \cup {Dummy})
        /\ Len(Append(sent, Head(outbox))) = Len(sent) + 1 /\ Len(sent) \in Nat
        /\ \A k \in 1..(Len(sent) + 1) :
             Append(sent, Head(outbox))[k] = IF k = Len(sent) + 1 THEN Head(outbox) ELSE sent[k]
    BY <2>0, <2>1
  <2>4. TypeOK'
    BY <1>3, <2>1, <2>3 DEF TypeOK, send
  <2>5. NoDummySent'
    BY <1>3, <2>2, <2>3 DEF send, DummiesUnsent, NoDummySent
  <2>6. (io = "running" => \A k \in 1..Len(outbox) : outbox[k] # Dummy)'
    BY <1>3, <2>0, <2>1 DEF send, DummiesUnsent
  <2> QED BY <1>3, <2>4, <2>5, <2>6 DEF send, DummiesCounted, Woken, StopOrder, DummiesUnsent
<1> QED BY <1>1, <1>2, <1>3 DEF FaceThread

(* A worker has a dummy only after _stop was set and the io_service was    *)
(* stopped.                                                                *)
LEMMA DummyMeansStop ==
  ASSUME ServerInv, NEW w \in Workers, job[w] = Dummy
  PROVE  stopping /\ io = "stopped"
<1>1. w \in Woken /\ IsFiniteSet(Woken)
  BY WorkersAssumption, FS_Subset DEF Woken
<1>2. Cardinality(Woken) \in Nat /\ Cardinality(Woken) # 0
  BY <1>1, FS_CardinalityType, FS_EmptySet
<1> QED BY <1>2 DEF ServerInv, DummiesCounted, StopOrder, TypeOK

(* A worker's loop: checkStop, wait_dequeue, sign and put.                 *)
LEMMA WorkerKeeps == ASSUME ServerInv, NEW w \in Workers, Worker(w) PROVE ServerInv'
<1> USE DEF ServerInv, JobTaken, mainVars, faceVars
<1>0. Alive
  BY DEF Worker, checkStop, wait_dequeue, sign, toSegmentThrows, put, Alive
<1>1. CASE checkStop(w)
  <2>1. TypeOK'
    BY <1>1 DEF checkStop, TypeOK
  <2>2. \A v \in Workers : pc'[v] = "wait" => job[v] # Dummy
    <3>1. job[w] = Dummy => stopping
      BY DummyMeansStop
    <3> QED BY <1>1, <3>1 DEF checkStop, MayMissStop, TypeOK, DummiesCounted
  <2>3. JobTaken'
    BY <1>1 DEF checkStop, TypeOK
  <2>4. DummiesCounted'
    BY <1>1, <2>2 DEF checkStop, DummiesCounted, Woken
  <2> QED BY <1>0, <1>1, <2>1, <2>3, <2>4 DEF checkStop, StopOrder, DummiesUnsent,
                                              NoDummySent
<1>2. CASE wait_dequeue(w)
  <2>1. job[w] # Dummy /\ pc[w] = "wait"
    BY <1>2 DEF wait_dequeue, DummiesCounted
  <2>2. CASE /\ queue # << >>
             /\ job' = [job EXCEPT ![w] = Head(queue)]
             /\ queue' = Tail(queue)
             /\ UNCHANGED dummies
    <3>1. Head(queue) \in Interests /\ Tail(queue) \in Seq(Interests)
      BY <2>2 DEF TypeOK
    <3>2. Head(queue) # Dummy
      BY <3>1, NamesAssumption
    <3>3. TypeOK'
      BY <1>2, <2>2, <3>1 DEF wait_dequeue, TypeOK
    <3>4. Woken' = Woken
      BY <2>1, <2>2, <3>2 DEF Woken, TypeOK
    <3>5. JobTaken'
      BY <1>2, <2>2, <3>1, NamesAssumption DEF wait_dequeue, TypeOK
    <3>6. DummiesCounted'
      BY <1>2, <2>2, <3>4 DEF wait_dequeue, DummiesCounted, TypeOK
    <3> QED BY <1>0, <1>2, <2>2, <3>3, <3>5, <3>6 DEF wait_dequeue, StopOrder,
                                            DummiesUnsent, NoDummySent
  <2>3. CASE /\ dummies > 0
             /\ job' = [job EXCEPT ![w] = Dummy]
             /\ dummies' = dummies - 1
             /\ UNCHANGED queue
    <3>1. TypeOK'
      BY <1>2, <2>3 DEF wait_dequeue, TypeOK
    <3>2. Woken' = Woken \cup {w} /\ w \notin Woken
      BY <2>1, <2>3 DEF Woken, TypeOK
    <3>3. IsFiniteSet(Woken)
      BY WorkersAssumption, FS_Subset DEF Woken
    <3>4. Cardinality(Woken') = Cardinality(Woken) + 1 /\ Cardinality(Woken) \in Nat
      BY <3>2, <3>3, FS_AddElement, FS_CardinalityType
    <3>5. DummiesCounted'
      BY <1>2, <2>3, <3>4 DEF wait_dequeue, DummiesCounted, TypeOK
    <3>6. JobTaken'
      BY <1>2, <2>3, NamesAssumption DEF wait_dequeue, TypeOK
    <3> QED BY <1>0, <1>2, <2>3, <3>1, <3>5, <3>6 DEF wait_dequeue, StopOrder, DummiesUnsent,
                                            NoDummySent
  <2> QED BY <1>2, <2>2, <2>3 DEF wait_dequeue
<1>3. CASE sign(w)
  <2>1. TypeOK'
    BY <1>3 DEF sign, TypeOK
  <2> QED BY <1>0, <1>3, <2>1 DEF sign, DummiesCounted, Woken, StopOrder, DummiesUnsent,
                                  NoDummySent, TypeOK
<1>4. CASE put(w)
  <2>1. job[w] \in Interests \cup {Dummy}
    BY <1>4 DEF put, TypeOK
  <2>2. outbox \in Seq(Interests \cup {Dummy})
    BY DEF TypeOK
  <2>3. /\ Append(outbox, job[w]) \in Seq(Interests \cup {Dummy})
        /\ Len(Append(outbox, job[w])) = Len(outbox) + 1 /\ Len(outbox) \in Nat
        /\ \A k \in 1..(Len(outbox) + 1) :
             Append(outbox, job[w])[k] = IF k = Len(outbox) + 1 THEN job[w] ELSE outbox[k]
    BY <2>1, <2>2
  <2>4. TypeOK'
    BY <1>4, <2>3 DEF put, TypeOK
  <2>5. io = "running" => job[w] # Dummy
    <3> SUFFICES ASSUME job[w] = Dummy PROVE io = "stopped"
      OBVIOUS
    <3> QED BY DummyMeansStop
  <2>6. (io = "running" => \A k \in 1..Len(outbox) : outbox[k] # Dummy)'
    BY <1>4, <2>3, <2>5 DEF put, DummiesUnsent
  <2> QED BY <1>0, <1>4, <2>4, <2>6 DEF put, DummiesCounted, Woken, StopOrder, DummiesUnsent,
                                        NoDummySent, TypeOK
<1>5. CASE toSegmentThrows(w)
  BY <1>5 DEF toSegmentThrows, Alive, TypeOK, DummiesCounted, Woken, StopOrder, DummiesUnsent,
              NoDummySent
<1> QED BY <1>1, <1>2, <1>3, <1>4, <1>5 DEF Worker
(* The main thread, SIGINT and the display thread.                         *)
LEMMA MainKeeps == ServerInv /\ (MainThread \/ signalHandler \/ displayReturns) => ServerInv'
<1> SUFFICES ASSUME ServerInv, MainThread \/ signalHandler \/ displayReturns
             PROVE  ServerInv'
  OBVIOUS
<1> USE DEF ServerInv, JobTaken, mainVars, faceVars
<1>0. Cardinality(Workers) \in Nat
  BY WorkersAssumption, FS_CardinalityType
<1>1. CASE signalHandler
  BY <1>1 DEF signalHandler, TypeOK, DummiesCounted, Woken, StopOrder, DummiesUnsent,
              NoDummySent
<1>2. CASE displayReturns
  BY <1>2 DEF displayReturns, TypeOK, DummiesCounted, Woken, StopOrder, DummiesUnsent,
              NoDummySent
<1>3. CASE stopBegins
  BY <1>3 DEF stopBegins, TypeOK, DummiesCounted, Woken, StopOrder, DummiesUnsent,
              NoDummySent
<1>4. CASE stopIo
  BY <1>4 DEF stopIo, TypeOK, DummiesCounted, Woken, StopOrder, DummiesUnsent,
              NoDummySent
<1>5. CASE enqueueDummy
  <2>1. Woken' = Woken
    BY <1>5 DEF enqueueDummy, Woken
  <2>2. IsFiniteSet(Woken) /\ Cardinality(Woken) \in Nat
    BY WorkersAssumption, FS_Subset, FS_CardinalityType DEF Woken
  <2>3. enqueued \in Nat /\ dummies \in Nat
    BY DEF TypeOK
  <2>4. DummiesCounted'
    BY <1>0, <1>5, <2>1, <2>2, <2>3 DEF enqueueDummy, DummiesCounted
  <2>5. TypeOK'
    BY <1>5 DEF enqueueDummy, TypeOK
  <2> QED BY <1>5, <2>4, <2>5 DEF enqueueDummy, StopOrder, DummiesUnsent, NoDummySent
<1>6. CASE stopEnds
  BY <1>6 DEF stopEnds, Joined, TypeOK, DummiesCounted, Woken, StopOrder, DummiesUnsent,
              NoDummySent
<1> QED BY <1>1, <1>2, <1>3, <1>4, <1>5, <1>6 DEF MainThread

(* Server: ServerInv, which counts the dummies against the workers they    *)
(* wake up and orders the steps of stop(), holds in every reachable state. *)
THEOREM ServerInvariant == Spec => []ServerInv
<1>1. Init => ServerInv
  BY InitServerInv
<1>2. ServerInv /\ [Next]_vars => ServerInv'
  <2> SUFFICES ASSUME ServerInv, [Next]_vars PROVE ServerInv'
    OBVIOUS
  <2>1. CASE FaceThread
    BY <2>1, FaceKeeps
  <2>2. CASE \E w \in Workers : Worker(w)
    BY <2>2, WorkerKeeps
  <2>3. CASE MainThread \/ signalHandler \/ displayReturns
    BY <2>3, MainKeeps
  <2>4. CASE UNCHANGED vars
    BY <2>4 DEF vars, mainVars, faceVars, ServerInv, TypeOK, JobTaken, DummiesCounted, Woken,
                StopOrder, DummiesUnsent, NoDummySent
  <2> QED BY <2>1, <2>2, <2>3, <2>4 DEF Next
<1> QED BY <1>1, <1>2, PTL DEF Spec

(* Server: every variable keeps its type.                                  *)
THEOREM TypeCorrect == Spec => []TypeOK
<1>1. ServerInv => TypeOK
  BY DEF ServerInv
<1> QED BY <1>1, ServerInvariant, PTL

(* Server::stop: with as many dummies as workers, join_all never waits for *)
(* a worker blocked on an empty queue, whatever the workers read of _stop. *)
THEOREM JoinNeverStuck == Spec => []NoWorkerStuck
<1>1. ServerInv => NoWorkerStuck
  <2> SUFFICES ASSUME ServerInv, main = "join"
               PROVE  Cardinality({w \in Workers : pc[w] = "wait"}) <= dummies + Len(queue)
    BY DEF NoWorkerStuck
  <2> DEFINE Waiting == {w \in Workers : pc[w] = "wait"}
             Others == Workers \ Woken
  <2>1. Waiting \subseteq Others
    BY DEF ServerInv, DummiesCounted, Woken
  <2>2. /\ IsFiniteSet(Others) /\ IsFiniteSet(Woken) /\ Woken \subseteq Workers
        /\ Cardinality(Woken) \in Nat
    BY WorkersAssumption, FS_Subset, FS_CardinalityType DEF Woken
  <2>3. Cardinality(Others) = Cardinality(Workers) - Cardinality(Woken)
    <3>1. Workers \cap Woken = Woken
      BY <2>2
    <3> QED BY <3>1, WorkersAssumption, FS_Difference
  <2>4. Cardinality(Waiting) <= Cardinality(Others) /\ Cardinality(Waiting) \in Nat
    BY <2>1, <2>2, FS_Subset, FS_CardinalityType
  <2>5. dummies + Cardinality(Woken) = Cardinality(Workers) /\ dummies \in Nat
        /\ Len(queue) \in Nat
    BY DEF ServerInv, DummiesCounted, TypeOK
  <2> QED BY <2>2, <2>3, <2>4, <2>5
<1> QED BY <1>1, ServerInvariant, PTL

(* Server::stop stops the io_service before it enqueues a dummy, so that   *)
(* the Data the workers build for the dummies is never sent.               *)
THEOREM DummiesAreNotSent == Spec => []NoDummySent
<1>1. ServerInv => NoDummySent
  BY DEF ServerInv, DummiesUnsent
<1> QED BY <1>1, ServerInvariant, PTL
-----------------------------------------------------------------------------
(* What a thread has at each place: a producer announces before it wakes   *)
(* up, and a consumer holds nothing until it is let through.               *)
Held ==
  /\ \A p \in Producers : toSignal[p] > 0 => toRelease[p] = 0
  /\ \A c \in Consumers :
       /\ consumer[c] \in {"idle", "spin", "sleep"} => granted[c] = 0
       /\ consumer[c] = "more" => granted[c] = 1 /\ max[c] > 1

(* Every element in the queue is accounted for: its signal is to come, or  *)
(* it is in m_count (where a sleeping thread counts as minus one), or a    *)
(* consumer was let through for it.                                        *)
Accounted ==
  inner = Total(toSignal) + m_count + Sleepers + Total(granted)

(* The sleepers without a wake-up are those the negative m_count records.  *)
WakeUps ==
  Sleepers - m_sema - Total(toRelease) = IF m_count < 0 THEN -m_count ELSE 0

QueueInv == QueueTypeOK /\ Held /\ Accounted /\ WakeUps
-----------------------------------------------------------------------------
(* The pairs of one x: there are f[x] of them.                             *)
LEMMA Column ==
  ASSUME NEW x, NEW n \in Nat
  PROVE  IsFiniteSet({x} \X (1..n)) /\ Cardinality({x} \X (1..n)) = n
<1>1. IsFiniteSet({x}) /\ Cardinality({x}) = 1
  BY FS_Singleton
<1>2. IsFiniteSet(1..n) /\ Cardinality(1..n) = n
  BY FS_Interval
<1> DEFINE X == {x}  I == 1..n
<1>3. IsFiniteSet(X) /\ Cardinality(X) = 1 /\ IsFiniteSet(I) /\ Cardinality(I) = n
  BY <1>1, <1>2
<1> HIDE DEF X, I
<1>4. IsFiniteSet(X \X I) /\ Cardinality(X \X I) = 1 * n
  BY <1>3, FS_Product
<1> QED BY <1>4 DEF X, I

(* A finite sum splits into one term and the rest.                         *)
LEMMA TotalSplits ==
  ASSUME NEW S, IsFiniteSet(S), NEW f \in [S -> 0..Bulk], NEW x \in S
  PROVE  LET Rest == UNION {{y} \X (1..f[y]) : y \in S \ {x}}
         IN  /\ IsFiniteSet(Rest) /\ Cardinality(Rest) \in Nat
             /\ Total(f) = Cardinality(Rest) + f[x]
<1> DEFINE Rest == UNION {{y} \X (1..f[y]) : y \in S \ {x}}
<1>1. IsFiniteSet(Rest)
  <2>1. Rest \subseteq S \X (1..Bulk)
    BY BulkAssumption
  <2>2. IsFiniteSet(1..Bulk)
    BY BulkAssumption, FS_Interval
  <2>3. IsFiniteSet(S \X (1..Bulk))
    BY <2>2, FS_Product
  <2> HIDE DEF Rest
  <2> QED BY <2>1, <2>3, FS_Subset
<1>2. Pairs(f) = Rest \cup ({x} \X (1..f[x]))
  BY DEF Pairs
<1>3. Rest \cap ({x} \X (1..f[x])) = {}
  OBVIOUS
<1> HIDE DEF Rest
<1>4. Cardinality(Rest) \in Nat
  BY <1>1, FS_CardinalityType
<1>5. f[x] \in Nat
  BY BulkAssumption
<1>6. IsFiniteSet({x} \X (1..f[x])) /\ Cardinality({x} \X (1..f[x])) = f[x]
  BY <1>5, Column
<1> DEFINE C == {x} \X (1..f[x])
<1>7. Pairs(f) = Rest \cup C /\ Rest \cap C = {} /\ IsFiniteSet(C) /\ Cardinality(C) = f[x]
  BY <1>2, <1>3, <1>6
<1> HIDE DEF C
<1>8. Cardinality(Rest \cup C) = Cardinality(Rest) + Cardinality(C) - Cardinality(Rest \cap C)
  BY <1>1, <1>7, FS_Union
<1>9. Cardinality(Rest \cap C) = 0
  BY <1>7, FS_EmptySet
<1>10. Total(f) = Cardinality(Rest) + f[x]
  BY <1>4, <1>5, <1>7, <1>8, <1>9 DEF Total
<1> USE DEF Rest
<1> QED BY <1>1, <1>4, <1>10

(* Changing one term changes the sum by as much.                           *)
LEMMA TotalExcept ==
  ASSUME NEW S, IsFiniteSet(S), NEW f \in [S -> 0..Bulk], NEW x \in S, NEW n \in 0..Bulk
  PROVE  /\ Total(f) \in Nat /\ f[x] <= Total(f)
         /\ Total([f EXCEPT ![x] = n]) = Total(f) - f[x] + n
<1> DEFINE g == [f EXCEPT ![x] = n]
<1> DEFINE Rest(h) == UNION {{y} \X (1..h[y]) : y \in S \ {x}}
<1>1. g \in [S -> 0..Bulk] /\ g[x] = n /\ \A y \in S \ {x} : g[y] = f[y]
  OBVIOUS
<1>2. Rest(f) = Rest(g)
  BY <1>1
<1>3. Cardinality(Rest(f)) \in Nat /\ Total(f) = Cardinality(Rest(f)) + f[x]
  BY TotalSplits
<1>4. Total(g) = Cardinality(Rest(g)) + g[x]
  <2> HIDE DEF g
  <2> QED BY <1>1, TotalSplits
<1> HIDE DEF Rest
<1> QED BY <1>1, <1>2, <1>3, <1>4

(* A sum of zeros.                                                         *)
LEMMA TotalZero ==
  ASSUME NEW S, IsFiniteSet(S)
  PROVE  Total([x \in S |-> 0]) = 0
<1>1. Pairs([x \in S |-> 0]) = {}
  BY DEF Pairs
<1> QED BY <1>1, FS_EmptySet DEF Total

(* A sum of natural numbers is one, over no thread too.                    *)
LEMMA TotalNat ==
  ASSUME NEW S, IsFiniteSet(S), NEW f \in [S -> 0..Bulk]
  PROVE  Total(f) \in Nat
<1>1. CASE S = {}
  <2>1. Pairs(f) = {}
    BY <1>1 DEF Pairs
  <2> QED BY <2>1, FS_EmptySet DEF Total
<1>2. CASE S # {}
  <2>1. PICK x \in S : TRUE
    BY <1>2
  <2> QED BY <2>1, TotalExcept
<1> QED BY <1>1, <1>2
-----------------------------------------------------------------------------
(* The sums that the invariant speaks of.                                  *)
LEMMA Counts ==
  ASSUME QueueTypeOK
  PROVE  /\ Total(toSignal) \in Nat /\ Total(toRelease) \in Nat
         /\ Total(granted) \in Nat /\ Sleepers \in Nat
<1>1. Total(toSignal) \in Nat /\ Total(toRelease) \in Nat
  BY ThreadsAssumption, TotalNat DEF QueueTypeOK
<1>2. Total(granted) \in Nat
  BY ThreadsAssumption, TotalNat DEF QueueTypeOK
<1>3. IsFiniteSet({c \in Consumers : consumer[c] = "sleep"})
  BY ThreadsAssumption, FS_Subset
<1> QED BY <1>1, <1>2, <1>3, FS_CardinalityType DEF Sleepers

(* fetch_sub puts a thread to sleep.                                       *)
LEMMA FallsAsleep ==
  ASSUME QueueTypeOK, NEW c \in Consumers, consumer[c] # "sleep",
         consumer' = [consumer EXCEPT ![c] = "sleep"]
  PROVE  Sleepers' = Sleepers + 1
<1>1. consumer'[c] = "sleep" /\ \A x \in Consumers \ {c} : consumer'[x] = consumer[x]
  BY DEF QueueTypeOK
<1>2. {x \in Consumers : consumer'[x] = "sleep"} = {x \in Consumers : consumer[x] = "sleep"} \cup {c}
  BY <1>1
<1> QED BY <1>2, ThreadsAssumption, FS_Subset, FS_AddElement DEF Sleepers

(* sem_wait ends the sleep of a thread.                                    *)
LEMMA WakesUp ==
  ASSUME QueueTypeOK, NEW c \in Consumers, NEW to, consumer[c] = "sleep", to # "sleep",
         consumer' = [consumer EXCEPT ![c] = to]
  PROVE  Sleepers' = Sleepers - 1
<1>1. consumer'[c] = to /\ \A x \in Consumers \ {c} : consumer'[x] = consumer[x]
  BY DEF QueueTypeOK
<1>2. {x \in Consumers : consumer'[x] = "sleep"} = {x \in Consumers : consumer[x] = "sleep"} \ {c}
  BY <1>1
<1>3. /\ IsFiniteSet({x \in Consumers : consumer[x] = "sleep"})
      /\ c \in {x \in Consumers : consumer[x] = "sleep"}
  BY ThreadsAssumption, FS_Subset
<1> QED BY <1>2, <1>3, FS_RemoveElement DEF Sleepers

(* The other steps of a consumer are those of a thread that is awake.      *)
LEMMA StaysAwake ==
  ASSUME QueueTypeOK, NEW c \in Consumers, NEW to, consumer[c] # "sleep", to # "sleep",
         consumer' = [consumer EXCEPT ![c] = to]
  PROVE  Sleepers' = Sleepers
<1>1. consumer'[c] = to /\ \A x \in Consumers \ {c} : consumer'[x] = consumer[x]
  BY DEF QueueTypeOK
<1>2. {x \in Consumers : consumer'[x] = "sleep"} = {x \in Consumers : consumer[x] = "sleep"}
  BY <1>1
<1> QED BY <1>2 DEF Sleepers

(* enqueue_bulk and signal change what one producer has to announce.       *)
LEMMA ToSignalChanges ==
  ASSUME QueueTypeOK, NEW p \in Producers, NEW n \in 0..Bulk,
         toSignal' = [toSignal EXCEPT ![p] = n]
  PROVE  Total(toSignal)' = Total(toSignal) - toSignal[p] + n
BY ThreadsAssumption, TotalExcept DEF QueueTypeOK

(* signal and sem_post change whom one producer has to wake up.            *)
LEMMA ToReleaseChanges ==
  ASSUME QueueTypeOK, NEW p \in Producers, NEW n \in 0..Bulk,
         toRelease' = [toRelease EXCEPT ![p] = n]
  PROVE  Total(toRelease)' = Total(toRelease) - toRelease[p] + n
BY ThreadsAssumption, TotalExcept DEF QueueTypeOK

(* The steps of a consumer change what it was let through for.             *)
LEMMA GrantedChanges ==
  ASSUME QueueTypeOK, NEW c \in Consumers, NEW n \in 0..Bulk,
         granted' = [granted EXCEPT ![c] = n]
  PROVE  Total(granted)' = Total(granted) - granted[c] + n
BY ThreadsAssumption, TotalExcept DEF QueueTypeOK

(* What does not change keeps its sum.                                     *)
LEMMA SumsStay ==
  /\ UNCHANGED toSignal => Total(toSignal)' = Total(toSignal)
  /\ UNCHANGED toRelease => Total(toRelease)' = Total(toRelease)
  /\ UNCHANGED granted => Total(granted)' = Total(granted)
  /\ UNCHANGED consumer => Sleepers' = Sleepers
BY DEF Sleepers
-----------------------------------------------------------------------------
(* A new queue: nothing is counted, nobody sleeps.                         *)
LEMMA InitEstablishes == QueueInit => QueueInv
<1> SUFFICES ASSUME QueueInit PROVE QueueInv
  OBVIOUS
<1>1. QueueTypeOK /\ Held
  BY BulkAssumption DEF QueueInit, QueueTypeOK, Held
<1>2. {c \in Consumers : consumer[c] = "sleep"} = {}
  BY DEF QueueInit
<1>3. Sleepers = 0
  BY <1>2, FS_EmptySet DEF Sleepers
<1>4. Total(toSignal) = 0 /\ Total(toRelease) = 0 /\ Total(granted) = 0
  BY ThreadsAssumption, TotalZero DEF QueueInit
<1> QED BY <1>1, <1>3, <1>4 DEF QueueInv, Accounted, WakeUps, QueueInit

(* The effect of enqueue_bulk, signal and sem_post on the sums.            *)
LEMMA EnqueueEffect ==
  ASSUME QueueInv, NEW p \in Producers, NEW n \in 1..Bulk, enqueue_bulk(p, n)
  PROVE  /\ QueueTypeOK' /\ Held'
         /\ Total(toSignal)' = Total(toSignal) + n
         /\ Total(toRelease)' = Total(toRelease)
         /\ Total(granted)' = Total(granted) /\ Sleepers' = Sleepers
<1> USE DEF QueueInv
<1>1. QueueTypeOK' /\ Held'
  BY ElementsAssumption, BulkAssumption DEF enqueue_bulk, QueueTypeOK, Held
<1>2. n \in 0..Bulk
  BY BulkAssumption
<1>3. Total(toSignal)' = Total(toSignal) - toSignal[p] + n
  BY <1>2, ToSignalChanges DEF enqueue_bulk
<1>4. Total(toSignal)' = Total(toSignal) + n
  BY <1>2, <1>3, Counts DEF enqueue_bulk
<1> QED BY <1>1, <1>4, SumsStay DEF enqueue_bulk

(* The announcement moves from the producer into m_count, and part of it   *)
(* into wake-ups.                                                          *)
LEMMA SignalEffect ==
  ASSUME QueueInv, NEW p \in Producers, signal(p)
  PROVE  /\ QueueTypeOK' /\ Held' /\ toSignal[p] \in 1..Bulk
         /\ Total(toSignal)' = Total(toSignal) - toSignal[p]
         /\ Total(toRelease)' = Total(toRelease) + Released(m_count, toSignal[p])
         /\ Total(granted)' = Total(granted) /\ Sleepers' = Sleepers
<1> USE DEF QueueInv
<1>1. toSignal[p] \in 1..Bulk /\ toRelease[p] = 0
  BY BulkAssumption DEF signal, QueueTypeOK, Held
<1>2. Released(m_count, toSignal[p]) \in 0..Bulk
  BY <1>1, BulkAssumption DEF Released, Lesser, QueueTypeOK
<1>3. QueueTypeOK' /\ Held'
  BY <1>1, <1>2, BulkAssumption DEF signal, QueueTypeOK, Held
<1>4. 0 \in 0..Bulk
  BY BulkAssumption
<1>5. Total(toSignal)' = Total(toSignal) - toSignal[p] + 0
  BY <1>4, ToSignalChanges DEF signal
<1>6. Total(toRelease)' = Total(toRelease) - 0 + Released(m_count, toSignal[p])
  BY <1>1, <1>2, ToReleaseChanges DEF signal
<1> HIDE DEF QueueInv
<1>7. Total(granted)' = Total(granted) /\ Sleepers' = Sleepers
  BY SumsStay DEF signal
<1> QED BY <1>1, <1>2, <1>3, <1>5, <1>6, <1>7, Counts DEF QueueInv

(* One wake-up moves from the producer to the POSIX semaphore.             *)
LEMMA PostEffect ==
  ASSUME QueueInv, NEW p \in Producers, sem_post(p)
  PROVE  /\ QueueTypeOK' /\ Held'
         /\ Total(toSignal)' = Total(toSignal)
         /\ Total(toRelease)' = Total(toRelease) - 1
         /\ Total(granted)' = Total(granted) /\ Sleepers' = Sleepers
<1> USE DEF QueueInv
<1>1. QueueTypeOK' /\ Held'
  BY BulkAssumption DEF sem_post, QueueTypeOK, Held
<1>2. toRelease[p] \in Nat /\ toRelease[p] - 1 \in 0..Bulk
  BY BulkAssumption DEF sem_post, QueueTypeOK
<1>3. Total(toRelease)' = Total(toRelease) - toRelease[p] + (toRelease[p] - 1)
  BY <1>2, ToReleaseChanges DEF sem_post
<1>4. Total(toRelease)' = Total(toRelease) - 1
  BY <1>2, <1>3, Counts
<1> QED BY <1>1, <1>4, SumsStay DEF sem_post

(* A successful exchange of m_count, wherever it happens: as much as it    *)
(* takes from the count is granted.                                        *)
LEMMA AcquireEffect ==
  ASSUME QueueInv, NEW c \in Consumers, NEW n \in 1..Bulk, m_count > 0,
         consumer[c] # "sleep", granted[c] + n <= Bulk, Acquire(c, n),
         UNCHANGED <<m_sema, inner, elements, toSignal, toRelease, max>>
  PROVE  /\ QueueTypeOK' /\ Held'
         /\ Lesser(n, m_count) \in 1..Bulk /\ Lesser(n, m_count) <= m_count
         /\ m_count' = m_count - Lesser(n, m_count)
         /\ Total(granted)' = Total(granted) + Lesser(n, m_count)
         /\ Sleepers' = Sleepers
<1> USE DEF QueueInv
<1>1. Lesser(n, m_count) \in 1..Bulk /\ Lesser(n, m_count) <= m_count /\ Lesser(n, m_count) <= n
  BY BulkAssumption DEF Lesser, QueueTypeOK
<1>2. granted[c] \in Nat /\ granted[c] + Lesser(n, m_count) \in 0..Bulk
  BY <1>1, BulkAssumption DEF QueueTypeOK
<1>3. granted' = [granted EXCEPT ![c] = granted[c] + Lesser(n, m_count)]
  BY DEF Acquire
<1> HIDE DEF Lesser
<1>4. QueueTypeOK'
  BY <1>1, <1>2, <1>3 DEF Acquire, QueueTypeOK
<1>5. Held'
  BY <1>3 DEF Acquire, QueueTypeOK, Held
<1>6. Total(granted)' = Total(granted) - granted[c] + (granted[c] + Lesser(n, m_count))
  BY <1>2, <1>3, GrantedChanges
<1>7. Total(granted)' = Total(granted) + Lesser(n, m_count)
  BY <1>1, <1>2, <1>6, Counts
<1>8. Sleepers' = Sleepers
  BY StaysAwake DEF Acquire
<1> QED BY <1>1, <1>4, <1>5, <1>7, <1>8 DEF Acquire

(* A thread that is let through for its first element, from the spinning   *)
(* or from its sleep.                                                      *)
LEMMA LetThroughEffect ==
  ASSUME QueueInv, NEW c \in Consumers, consumer[c] \in {"spin", "sleep"}, LetThrough(c),
         m_count' \in Int, m_sema' \in Nat,
         UNCHANGED <<inner, elements, toSignal, toRelease, max>>
  PROVE  /\ QueueTypeOK' /\ Held'
         /\ Total(granted)' = Total(granted) + 1
         /\ Sleepers' = IF consumer[c] = "sleep" THEN Sleepers - 1 ELSE Sleepers
<1> USE DEF QueueInv
<1>1. 1 \in 0..Bulk /\ granted[c] = 0
  BY BulkAssumption DEF Held
<1>2. QueueTypeOK' /\ Held'
  BY <1>1 DEF LetThrough, QueueTypeOK, Held
<1>3. Total(granted)' = Total(granted) - 0 + 1
  BY <1>1, GrantedChanges DEF LetThrough
<1> DEFINE to == IF max[c] > 1 THEN "more" ELSE "dequeue"
<1>4. to # "sleep" /\ consumer' = [consumer EXCEPT ![c] = to]
  BY DEF LetThrough
<1> HIDE DEF to
<1>5. Sleepers' = IF consumer[c] = "sleep" THEN Sleepers - 1 ELSE Sleepers
  BY <1>4, WakesUp, StaysAwake
<1> QED BY <1>2, <1>3, <1>5, Counts

(* A thread that goes to sleep or begins to spin holds nothing.            *)
LEMMA PlaceEffect ==
  ASSUME QueueInv, NEW c \in Consumers,
         NEW to \in {"spin", "sleep", "dequeue"}, consumer[c] \in {"idle", "spin", "more"},
         to # "dequeue" => granted[c] = 0,
         consumer' = [consumer EXCEPT ![c] = to], m_count' \in Int,
         max' \in [Consumers -> 1..Bulk],
         \A x \in Consumers \ {c} : max'[x] = max[x],
         UNCHANGED <<m_sema, inner, elements, toSignal, toRelease, granted>>
  PROVE  /\ QueueTypeOK' /\ Held'
         /\ Sleepers' = IF to = "sleep" THEN Sleepers + 1 ELSE Sleepers
<1> USE DEF QueueInv
<1>1. QueueTypeOK'
  BY DEF QueueTypeOK
<1>2. Held'
  BY DEF QueueTypeOK, Held
<1>3. Sleepers' = IF to = "sleep" THEN Sleepers + 1 ELSE Sleepers
  BY FallsAsleep, StaysAwake
<1> QED BY <1>1, <1>2, <1>3

(* Some of the elements are found and no longer awaited.                   *)
LEMMA DequeueEffect ==
  ASSUME QueueInv, NEW c \in Consumers, NEW n \in 1..Bulk, try_dequeue_bulk(c, n)
  PROVE  /\ QueueTypeOK' /\ Held'
         /\ Total(granted)' = Total(granted) - n
         /\ Sleepers' = Sleepers
<1> USE DEF QueueInv
<1>1. granted[c] \in Nat /\ granted[c] - n \in 0..Bulk
  BY BulkAssumption DEF try_dequeue_bulk, QueueTypeOK
<1>2. granted' = [granted EXCEPT ![c] = granted[c] - n]
  BY DEF try_dequeue_bulk
<1>3. QueueTypeOK'
  BY <1>1, <1>2 DEF try_dequeue_bulk, QueueTypeOK
<1>4. Held'
  BY <1>1, <1>2 DEF try_dequeue_bulk, QueueTypeOK, Held
<1>5. Total(granted)' = Total(granted) - granted[c] + (granted[c] - n)
  BY <1>1, <1>2, GrantedChanges
<1>6. Total(granted)' = Total(granted) - n
  BY <1>1, <1>5, Counts
<1>7. Sleepers' = Sleepers
  BY StaysAwake DEF try_dequeue_bulk
<1> QED BY <1>3, <1>4, <1>6, <1>7
-----------------------------------------------------------------------------
(* A step of a producer keeps the invariant, and is Signal or leaves the   *)
(* abstract counter alone.                                                 *)
LEMMA ProducerKeeps ==
  ASSUME QueueInv, NEW p \in Producers, Producer(p)
  PROVE  QueueInv' /\ [Abstract!Next]_(m_count + Sleepers)
<1>0. QueueTypeOK
  BY DEF QueueInv
<1>1. ASSUME NEW n \in 1..Bulk, enqueue_bulk(p, n)
      PROVE  QueueInv' /\ [Abstract!Next]_(m_count + Sleepers)
  <2>1. n \in Nat /\ inner' = inner + n /\ UNCHANGED <<m_count, m_sema>>
    BY <1>1, BulkAssumption DEF enqueue_bulk
  <2>2. /\ QueueTypeOK' /\ Held'
        /\ Total(toSignal)' = Total(toSignal) + n
        /\ Total(toRelease)' = Total(toRelease)
        /\ Total(granted)' = Total(granted) /\ Sleepers' = Sleepers
    BY <1>1, EnqueueEffect
  <2>3. Accounted' /\ WakeUps'
    BY <1>0, <2>1, <2>2, Counts DEF QueueInv, Accounted, WakeUps, QueueTypeOK
  <2> QED BY <2>1, <2>2, <2>3 DEF QueueInv
<1>2. CASE signal(p)
  <2>1. /\ QueueTypeOK' /\ Held' /\ toSignal[p] \in 1..Bulk
        /\ Total(toRelease)' = Total(toRelease) + Released(m_count, toSignal[p])
        /\ Total(toSignal)' = Total(toSignal) - toSignal[p]
        /\ Total(granted)' = Total(granted) /\ Sleepers' = Sleepers
    BY <1>2, SignalEffect
  <2>2. m_count' = m_count + toSignal[p] /\ UNCHANGED <<m_sema, inner>>
    BY <1>2 DEF signal
  <2> DEFINE n == toSignal[p]
  <2>3. n \in Nat /\ n \in 1..Bulk
    BY <2>1, BulkAssumption
  <2> HIDE DEF n
  <2>4. Accounted' /\ WakeUps'
    BY <1>0, <2>1, <2>2, <2>3, Counts
       DEF n, QueueInv, Accounted, WakeUps, QueueTypeOK, Released, Lesser
  <2>5. (m_count + Sleepers)' = m_count + Sleepers + n
    BY <1>0, <2>1, <2>2, <2>3, Counts DEF n, QueueTypeOK
  <2>6. Abstract!Next
    BY <2>3, <2>5 DEF Abstract!Next, Abstract!Signal
  <2> QED BY <2>1, <2>4, <2>6 DEF QueueInv
<1>3. CASE sem_post(p)
  <2>1. m_sema' = m_sema + 1 /\ UNCHANGED <<m_count, inner>>
    BY <1>3 DEF sem_post
  <2>2. /\ QueueTypeOK' /\ Held'
        /\ Total(toSignal)' = Total(toSignal)
        /\ Total(toRelease)' = Total(toRelease) - 1
        /\ Total(granted)' = Total(granted) /\ Sleepers' = Sleepers
    BY <1>3, PostEffect
  <2>3. Accounted' /\ WakeUps'
    BY <1>0, <2>1, <2>2, Counts DEF QueueInv, Accounted, WakeUps, QueueTypeOK
  <2> QED BY <2>1, <2>2, <2>3 DEF QueueInv
<1> QED BY <1>1, <1>2, <1>3 DEF Producer

(* A successful exchange keeps the invariant and is a Wait of Semaphore.   *)
LEMMA AcquireKeeps ==
  ASSUME QueueInv, NEW c \in Consumers, NEW n \in 1..Bulk, m_count > 0,
         consumer[c] # "sleep", granted[c] + n <= Bulk, Acquire(c, n),
         UNCHANGED <<m_sema, inner, elements, toSignal, toRelease, max>>
  PROVE  QueueInv' /\ [Abstract!Next]_(m_count + Sleepers)
<1> DEFINE k == Lesser(n, m_count)
<1>1. /\ QueueTypeOK' /\ Held' /\ k \in 1..Bulk /\ k <= m_count /\ m_count' = m_count - k
      /\ Total(granted)' = Total(granted) + k /\ Sleepers' = Sleepers
      /\ Total(toSignal)' = Total(toSignal) /\ Total(toRelease)' = Total(toRelease)
  BY AcquireEffect, SumsStay
<1> HIDE DEF k
<1>2. QueueTypeOK /\ k \in Nat
  BY <1>1, BulkAssumption DEF QueueInv
<1>3. Accounted' /\ WakeUps'
  BY <1>1, <1>2, Counts DEF QueueInv, Accounted, WakeUps, QueueTypeOK
<1>4. m_count + Sleepers >= k /\ (m_count + Sleepers)' = m_count + Sleepers - k
  BY <1>1, <1>2, Counts DEF QueueTypeOK
<1>5. Abstract!Next
  BY <1>1, <1>2, <1>4, Counts DEF Abstract!Next, Abstract!Wait, QueueTypeOK
<1> QED BY <1>1, <1>3, <1>5 DEF QueueInv

(* A step of a consumer keeps the invariant.  It takes from the abstract   *)
(* counter when it lets the consumer through; going to sleep leaves it     *)
(* alone.                                                                  *)
LEMMA ConsumerKeeps ==
  ASSUME QueueInv, NEW c \in Consumers, Consumer(c)
  PROVE  QueueInv' /\ [Abstract!Next]_(m_count + Sleepers)
<1>0. QueueTypeOK /\ Held /\ max[c] \in 1..Bulk
  BY DEF QueueInv, QueueTypeOK
<1>1. ASSUME NEW n \in 1..Bulk, tryWaitMany(c, n)
      PROVE  QueueInv' /\ [Abstract!Next]_(m_count + Sleepers)
  <2>1. granted[c] + n <= Bulk /\ consumer[c] # "sleep"
    BY <1>0, <1>1, BulkAssumption DEF tryWaitMany, Held
  <2> QED BY <1>1, <2>1, AcquireKeeps DEF tryWaitMany
<1>2. ASSUME NEW n \in 1..Bulk, waitMany(c, n)
      PROVE  QueueInv' /\ [Abstract!Next]_(m_count + Sleepers)
  <2>1. /\ QueueTypeOK' /\ Held' /\ Sleepers' = Sleepers
    <3>1. /\ max' \in [Consumers -> 1..Bulk]
          /\ \A x \in Consumers \ {c} : max'[x] = max[x]
          /\ granted[c] = 0 /\ m_count' \in Int
      BY <1>0, <1>2 DEF waitMany, QueueTypeOK, Held
    <3> QED BY <1>2, <3>1, PlaceEffect DEF waitMany
  <2>2. UNCHANGED <<m_count, m_sema, inner>>
    BY <1>2 DEF waitMany
  <2>3. Accounted' /\ WakeUps'
    BY <1>2, <2>1, <2>2, SumsStay DEF waitMany, QueueInv, Accounted, WakeUps
  <2> QED BY <2>1, <2>2, <2>3 DEF QueueInv
<1>3. CASE spin(c)
  <2>1. granted[c] + max[c] <= Bulk /\ consumer[c] # "sleep"
    BY <1>0, <1>3, BulkAssumption DEF spin, Held
  <2> QED BY <1>0, <1>3, <2>1, AcquireKeeps DEF spin
<1>4. CASE fetch_sub(c) /\ m_count <= 0
  <2>1. /\ consumer' = [consumer EXCEPT ![c] = "sleep"] /\ m_count' = m_count - 1
        /\ UNCHANGED <<m_sema, inner, elements, toSignal, toRelease, max, granted>>
        /\ consumer[c] = "spin" /\ granted[c] = 0
    BY <1>0, <1>4 DEF fetch_sub, Held, QueueTypeOK
  <2>2. /\ m_count' \in Int /\ max' \in [Consumers -> 1..Bulk]
        /\ \A x \in Consumers \ {c} : max'[x] = max[x]
    BY <1>0, <2>1 DEF QueueTypeOK
  <2>3. QueueTypeOK' /\ Held' /\ Sleepers' = Sleepers + 1
    BY <2>1, <2>2, PlaceEffect
  <2>4. Accounted' /\ WakeUps'
    BY <1>0, <1>4, <2>1, <2>3, Counts, SumsStay DEF QueueInv, Accounted, WakeUps, QueueTypeOK
  <2>5. (m_count + Sleepers)' = m_count + Sleepers
    BY <1>0, <2>1, <2>3, Counts DEF QueueTypeOK
  <2> QED BY <2>3, <2>4, <2>5 DEF QueueInv
<1>5. CASE fetch_sub(c) /\ m_count > 0
  <2>1. /\ LetThrough(c) /\ m_count' = m_count - 1 /\ consumer[c] = "spin"
        /\ UNCHANGED <<m_sema, inner, elements, toSignal, toRelease, max>>
    BY <1>0, <1>5 DEF fetch_sub, QueueTypeOK
  <2>2. m_count' \in Int /\ m_sema' \in Nat
    BY <1>0, <2>1 DEF QueueTypeOK
  <2>3. QueueTypeOK' /\ Held' /\ Total(granted)' = Total(granted) + 1 /\ Sleepers' = Sleepers
    BY <2>1, <2>2, LetThroughEffect
  <2>4. Accounted' /\ WakeUps'
    BY <1>0, <1>5, <2>1, <2>3, Counts, SumsStay DEF QueueInv, Accounted, WakeUps, QueueTypeOK
  <2>5. m_count + Sleepers >= 1 /\ (m_count + Sleepers)' = m_count + Sleepers - 1
    BY <1>0, <1>5, <2>1, <2>3, Counts DEF QueueTypeOK
  <2>6. Abstract!Next
    BY <1>0, <2>5, BulkAssumption, Counts DEF Abstract!Next, Abstract!Wait, QueueTypeOK
  <2> QED BY <2>3, <2>4, <2>6 DEF QueueInv
<1>6. CASE sem_wait(c)
  <2>1. /\ LetThrough(c) /\ m_sema' = m_sema - 1 /\ m_sema > 0 /\ consumer[c] = "sleep"
        /\ UNCHANGED <<m_count, inner, elements, toSignal, toRelease, max>>
    BY <1>6 DEF sem_wait
  <2>2. m_count' \in Int /\ m_sema' \in Nat
    BY <1>0, <2>1 DEF QueueTypeOK
  <2>3. QueueTypeOK' /\ Held' /\ Total(granted)' = Total(granted) + 1 /\ Sleepers' = Sleepers - 1
    BY <2>1, <2>2, LetThroughEffect
  <2>4. Accounted' /\ WakeUps'
    BY <1>0, <2>1, <2>3, Counts, SumsStay DEF QueueInv, Accounted, WakeUps, QueueTypeOK
  <2>5. m_count + Sleepers >= 1 /\ (m_count + Sleepers)' = m_count + Sleepers - 1
    BY <1>0, <2>1, <2>3, Counts DEF QueueInv, WakeUps, QueueTypeOK
  <2>6. Abstract!Next
    BY <1>0, <2>5, BulkAssumption, Counts DEF Abstract!Next, Abstract!Wait, QueueTypeOK
  <2> QED BY <2>3, <2>4, <2>6 DEF QueueInv
<1>7. CASE tryWaitMore(c) /\ m_count > 0
  <2>1. /\ max[c] - 1 \in 1..Bulk /\ granted[c] + (max[c] - 1) <= Bulk
        /\ consumer[c] # "sleep" /\ Acquire(c, max[c] - 1)
        /\ UNCHANGED <<m_sema, inner, elements, toSignal, toRelease, max>>
    BY <1>0, <1>7, BulkAssumption DEF tryWaitMore, Held, QueueTypeOK
  <2> QED BY <1>7, <2>1, AcquireKeeps
<1>8. CASE tryWaitMore(c) /\ m_count <= 0
  <2>1. /\ consumer' = [consumer EXCEPT ![c] = "dequeue"] /\ consumer[c] = "more"
        /\ UNCHANGED <<m_count, m_sema, inner, elements, toSignal, toRelease, max, granted>>
    BY <1>0, <1>8 DEF tryWaitMore, QueueTypeOK
  <2>2. /\ m_count' \in Int /\ max' \in [Consumers -> 1..Bulk]
        /\ \A x \in Consumers \ {c} : max'[x] = max[x]
    BY <1>0, <2>1 DEF QueueTypeOK
  <2>3. QueueTypeOK' /\ Held' /\ Sleepers' = Sleepers
    BY <2>1, <2>2, PlaceEffect
  <2>4. Accounted' /\ WakeUps'
    BY <2>1, <2>3, SumsStay DEF QueueInv, Accounted, WakeUps
  <2> QED BY <2>1, <2>3, <2>4 DEF QueueInv
<1>9. ASSUME NEW n \in 1..Bulk, try_dequeue_bulk(c, n)
      PROVE  QueueInv' /\ [Abstract!Next]_(m_count + Sleepers)
  <2>1. /\ n \in Nat /\ inner' = inner - n
        /\ UNCHANGED <<m_count, m_sema, toSignal, toRelease>>
    BY <1>9, BulkAssumption DEF try_dequeue_bulk
  <2>2. /\ QueueTypeOK' /\ Held' /\ Sleepers' = Sleepers
        /\ Total(granted)' = Total(granted) - n
    BY <1>9, DequeueEffect
  <2>3. Accounted' /\ WakeUps'
    BY <1>0, <2>1, <2>2, Counts, SumsStay DEF QueueInv, Accounted, WakeUps, QueueTypeOK
  <2> QED BY <2>1, <2>2, <2>3 DEF QueueInv
<1>10. m_count <= 0 \/ m_count > 0
  BY <1>0 DEF QueueTypeOK
<1> QED BY <1>1, <1>2, <1>3, <1>4, <1>5, <1>6, <1>7, <1>8, <1>9, <1>10
        DEF Consumer, Call, Dequeue

(* Every step keeps the invariant and maps to a step of Semaphore.         *)
LEMMA StepKeeps ==
  QueueInv /\ [QueueNext]_queueVars => QueueInv' /\ [Abstract!Next]_(m_count + Sleepers)
<1> SUFFICES ASSUME QueueInv, [QueueNext]_queueVars
             PROVE  QueueInv' /\ [Abstract!Next]_(m_count + Sleepers)
  OBVIOUS
<1>1. CASE QueueNext
  BY <1>1, ProducerKeeps, ConsumerKeeps DEF QueueNext
<1>2. CASE UNCHANGED queueVars
  BY <1>2, SumsStay DEF queueVars, QueueInv, QueueTypeOK, Held, Accounted, WakeUps
<1> QED BY <1>1, <1>2

(* Accounted, WakeUps and the types hold in every reachable state.         *)
THEOREM QueueInvariant == QueueSpec => []QueueInv
BY InitEstablishes, StepKeeps, PTL DEF QueueSpec

(* The types of m_count, the POSIX semaphore and the queue, for any number *)
(* of threads: neither of the last two becomes negative, and no call is    *)
(* granted more than a call may ask for.                                   *)
THEOREM QueueTypeCorrect == QueueSpec => []QueueTypeOK
<1>1. QueueInv => QueueTypeOK
  BY DEF QueueInv
<1> QED BY <1>1, QueueInvariant, PTL

(* The loops on inner.try_dequeue always have an element to find.          *)
THEOREM DequeueFinds == QueueSpec => []ElementForEach
<1>1. QueueInv => ElementForEach
  BY Counts DEF QueueInv, QueueTypeOK, Accounted, WakeUps, ElementForEach
<1> QED BY <1>1, QueueInvariant, PTL

(* signal and wait never lose a wake-up between fetch_add, fetch_sub and   *)
(* the two operations of the POSIX semaphore.                              *)
THEOREM NoWakeupIsLost == QueueSpec => []NoLostWakeup
<1>1. QueueInv => NoLostWakeup
  BY Counts DEF QueueInv, QueueTypeOK, Accounted, WakeUps, NoLostWakeup
<1> QED BY <1>1, QueueInvariant, PTL

(* LightweightSemaphore, with its count and the POSIX semaphore below it,  *)
(* implements a plain counting semaphore.                                  *)
THEOREM SemaphoreIsImplemented == QueueSpec => ImplementsSemaphore
<1>1. QueueInit => Abstract!Init
  <2> SUFFICES ASSUME QueueInit PROVE m_count + Sleepers = 0
    BY DEF Abstract!Init
  <2>1. {c \in Consumers : consumer[c] = "sleep"} = {}
    BY DEF QueueInit
  <2>2. Sleepers = 0
    BY <2>1, FS_EmptySet DEF Sleepers
  <2> QED BY <2>2 DEF QueueInit
<1> QED BY <1>1, StepKeeps, QueueInvariant, PTL DEF QueueSpec, ImplementsSemaphore, Abstract!Spec
=============================================================================
