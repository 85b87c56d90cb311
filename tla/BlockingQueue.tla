---------------------------- MODULE BlockingQueue -----------------------------
(***************************************************************************)
(* The blocking queue that comes with the C++ server (c++/server/          *)
(* blockingconcurrentqueue.h).  The elements of the lock-free queue inside *)
(* are announced by LightweightSemaphore::signal after they are enqueued,  *)
(* and a consumer looks for elements only after LightweightSemaphore has   *)
(* let it through for them.  The semaphore counts in m_count, which may    *)
(* become negative, and puts threads to sleep on the POSIX semaphore       *)
(* m_sema.                                                                 *)
(*                                                                         *)
(* Every operation takes a number of elements: enqueue, try_enqueue,       *)
(* wait_dequeue and try_dequeue are their bulk versions for one element,   *)
(* the token decides only where the queue inside puts or looks for it.     *)
(* Every access to an atomic variable is one step.  Of the queue inside    *)
(* only the number of elements counts (SubQueue and ConcurrentQueue model  *)
(* it): an enqueue that fails leaves everything as it is, a dequeue finds  *)
(* some of the elements if there are any and is called again otherwise.    *)
(***************************************************************************)
EXTENDS Integers, FiniteSets, Sums

CONSTANTS Producers,  \* threads that enqueue
          Consumers,  \* threads that dequeue
          Bulk,       \* the most elements one call enqueues or asks for
          Elements    \* bound on the number of elements enqueued

ASSUME ThreadsAssumption == IsFiniteSet(Producers) /\ IsFiniteSet(Consumers)
ASSUME BulkAssumption == Bulk \in Nat \ {0}
ASSUME ElementsAssumption == Elements \in Nat

VARIABLES
  m_count,   \* of LightweightSemaphore
  m_sema,    \* value of the POSIX semaphore
  inner,     \* number of elements in the queue inside
  elements,  \* number of elements enqueued so far
  toSignal,  \* elements each producer has enqueued and not yet announced
  toRelease, \* sleeping threads each producer has still to wake up
  consumer,  \* where each consumer is in wait_dequeue_bulk
  max,       \* how many elements each consumer asks for
  granted    \* elements each consumer was let through for and not dequeued

queueVars == <<m_count, m_sema, inner, elements, toSignal, toRelease, consumer, max, granted>>

QueueInit ==
  /\ m_count = 0
  /\ m_sema = 0
  /\ inner = 0
  /\ elements = 0
  /\ toSignal = [p \in Producers |-> 0]
  /\ toRelease = [p \in Producers |-> 0]
  /\ consumer = [c \in Consumers |-> "idle"]
  /\ max = [c \in Consumers |-> 1]
  /\ granted = [c \in Consumers |-> 0]

Lesser(m, n) == IF m < n THEN m ELSE n
-----------------------------------------------------------------------------
(* enqueue_bulk: inner.enqueue_bulk puts count elements, if it can.        *)
enqueue_bulk(p, count) ==
  /\ toSignal[p] = 0 /\ toRelease[p] = 0 /\ elements + count <= Elements
  /\ elements' = elements + count
  /\ inner' = inner + count
  /\ toSignal' = [toSignal EXCEPT ![p] = count]
  /\ UNCHANGED <<m_count, m_sema, toRelease, consumer, max, granted>>

(* Fault: as many threads are woken up as sleep, without the last one.     *)
ReleasedOffByOne(oldCount, count) ==
  IF oldCount < -1 THEN Lesser(-oldCount - 1, count) ELSE 0

(* toRelease of signal: the threads that sleep, at most count of them.     *)
Released(oldCount, count) ==
  IF oldCount < 0 THEN Lesser(-oldCount, count) ELSE 0

(* signal: fetch_add.                                                      *)
signal(p) ==
  /\ toSignal[p] > 0
  /\ m_count' = m_count + toSignal[p]
  /\ toRelease' = [toRelease EXCEPT ![p] = Released(m_count, toSignal[p])]
  /\ toSignal' = [toSignal EXCEPT ![p] = 0]
  /\ UNCHANGED <<m_sema, inner, elements, consumer, max, granted>>

(* One round of m_sema.signal(toRelease).                                  *)
sem_post(p) ==
  /\ toRelease[p] > 0
  /\ m_sema' = m_sema + 1
  /\ toRelease' = [toRelease EXCEPT ![p] = @ - 1]
  /\ UNCHANGED <<m_count, inner, elements, toSignal, consumer, max, granted>>
-----------------------------------------------------------------------------
(* Fault: the count is loaded, tested and left as it is.                   *)
AcquireNoExchange(c, most) ==
  /\ UNCHANGED m_count
  /\ granted' = [granted EXCEPT ![c] = @ + Lesser(most, m_count)]
  /\ consumer' = [consumer EXCEPT ![c] = "dequeue"]

(* A successful exchange: greedily as many as are counted, at most most.   *)
(* The load and the exchange are one step.                                 *)
Acquire(c, most) ==
  /\ m_count' = m_count - Lesser(most, m_count)
  /\ granted' = [granted EXCEPT ![c] = @ + Lesser(most, m_count)]
  /\ consumer' = [consumer EXCEPT ![c] = "dequeue"]

(* tryWaitMany of try_dequeue_bulk and wait_dequeue_bulk, when the count   *)
(* is positive.  Otherwise try_dequeue_bulk returns 0.                     *)
tryWaitMany(c, most) ==
  /\ consumer[c] = "idle" /\ m_count > 0
  /\ Acquire(c, most)
  /\ UNCHANGED <<m_sema, inner, elements, toSignal, toRelease, max>>

(* waitMany, when tryWaitMany got nothing: the spinning begins.            *)
waitMany(c, most) ==
  /\ consumer[c] = "idle" /\ m_count <= 0
  /\ consumer' = [consumer EXCEPT ![c] = "spin"]
  /\ max' = [max EXCEPT ![c] = most]
  /\ UNCHANGED <<m_count, m_sema, inner, elements, toSignal, toRelease, granted>>

(* waitManyWithPartialSpinning: the exchange succeeds in one of the rounds.*)
spin(c) ==
  /\ consumer[c] = "spin" /\ m_count > 0
  /\ Acquire(c, max[c])
  /\ UNCHANGED <<m_sema, inner, elements, toSignal, toRelease, max>>

(* Let through for one element; if more were asked for, tryWaitMany comes  *)
(* next.                                                                   *)
LetThrough(c) ==
  /\ granted' = [granted EXCEPT ![c] = 1]
  /\ consumer' = [consumer EXCEPT ![c] = IF max[c] > 1 THEN "more" ELSE "dequeue"]

(* Fault: the thread does not sleep when the count was 0.                  *)
fetch_subAtZero(c) ==
  /\ consumer[c] = "spin"
  /\ m_count' = m_count - 1
  /\ \/ m_count < 0 /\ consumer' = [consumer EXCEPT ![c] = "sleep"] /\ UNCHANGED granted
     \/ m_count >= 0 /\ LetThrough(c)
  /\ UNCHANGED <<m_sema, inner, elements, toSignal, toRelease, max>>

(* The rounds are over: fetch_sub, and the thread sleeps unless the count  *)
(* was positive.                                                           *)
fetch_sub(c) ==
  /\ consumer[c] = "spin"
  /\ m_count' = m_count - 1
  /\ \/ m_count <= 0 /\ consumer' = [consumer EXCEPT ![c] = "sleep"] /\ UNCHANGED granted
     \/ m_count > 0 /\ LetThrough(c)
  /\ UNCHANGED <<m_sema, inner, elements, toSignal, toRelease, max>>

(* m_sema.wait, called again when a signal handler interrupts sem_wait.    *)
sem_wait(c) ==
  /\ consumer[c] = "sleep" /\ m_sema > 0
  /\ m_sema' = m_sema - 1
  /\ LetThrough(c)
  /\ UNCHANGED <<m_count, inner, elements, toSignal, toRelease, max>>

(* tryWaitMany(max - 1) after the first element was granted.               *)
tryWaitMore(c) ==
  /\ consumer[c] = "more"
  /\ \/ m_count > 0 /\ Acquire(c, max[c] - 1)
     \/ m_count <= 0 /\ consumer' = [consumer EXCEPT ![c] = "dequeue"]
                     /\ UNCHANGED <<m_count, granted>>
  /\ UNCHANGED <<m_sema, inner, elements, toSignal, toRelease, max>>

(* One round of while (count != max): inner.try_dequeue_bulk takes some of *)
(* the elements, and the call returns when none is missing.                *)
try_dequeue_bulk(c, count) ==
  /\ consumer[c] = "dequeue" /\ count <= granted[c] /\ count <= inner
  /\ inner' = inner - count
  /\ granted' = [granted EXCEPT ![c] = @ - count]
  /\ consumer' = [consumer EXCEPT ![c] = IF granted[c] = count THEN "idle" ELSE "dequeue"]
  /\ UNCHANGED <<m_count, m_sema, elements, toSignal, toRelease, max>>
-----------------------------------------------------------------------------
Producer(p) ==
  (\E count \in 1..Bulk : enqueue_bulk(p, count)) \/ signal(p) \/ sem_post(p)

Call(c) == \E most \in 1..Bulk : tryWaitMany(c, most) \/ waitMany(c, most)

Dequeue(c) == \E count \in 1..Bulk : try_dequeue_bulk(c, count)

Consumer(c) ==
  Call(c) \/ spin(c) \/ fetch_sub(c) \/ sem_wait(c) \/ tryWaitMore(c) \/ Dequeue(c)

QueueNext == \/ \E p \in Producers : Producer(p)
             \/ \E c \in Consumers : Consumer(c)

(* The threads run; which of the sleeping ones a post wakes up is left     *)
(* open.  A consumer calls wait_dequeue again and again, as                *)
(* Server::process does.  Nothing says that an element is ever enqueued.   *)
QueueFairness ==
  /\ \A p \in Producers : WF_queueVars(signal(p) \/ sem_post(p))
  /\ \A c \in Consumers :
       WF_queueVars(Call(c) \/ spin(c) \/ fetch_sub(c) \/ tryWaitMore(c) \/ Dequeue(c))
  /\ WF_queueVars(\E c \in Consumers : sem_wait(c))

QueueSpec == QueueInit /\ [][QueueNext]_queueVars
FairQueueSpec == QueueSpec /\ QueueFairness
-----------------------------------------------------------------------------
Sleepers == Cardinality({c \in Consumers : consumer[c] = "sleep"})

(* Every variable keeps its type: m_count may be negative, the POSIX       *)
(* semaphore and the queue may not, and nobody is granted more than it     *)
(* asked for.                                                              *)
QueueTypeOK ==
  /\ m_count \in Int
  /\ m_sema \in Nat
  /\ inner \in Nat
  /\ elements \in Nat
  /\ toSignal \in [Producers -> 0..Bulk]
  /\ toRelease \in [Producers -> 0..Bulk]
  /\ consumer \in [Consumers -> {"idle", "spin", "sleep", "more", "dequeue"}]
  /\ max \in [Consumers -> 1..Bulk]
  /\ granted \in [Consumers -> 0..Bulk]

(* The loops around inner.try_dequeue end: for everything a consumer was   *)
(* let through for there is an element in the queue.                       *)
ElementForEach == Total(granted) <= inner

(* No wake-up is lost: when a consumer sleeps and no post is on its way    *)
(* for it, all the elements in the queue are those that consumers were let *)
(* through or woken up for, and those whose signal is still to come.       *)
NoLostWakeup ==
  Sleepers > m_sema + Total(toRelease) =>
    inner = Total(granted) + m_sema + Total(toRelease) + Total(toSignal)

(* The two-level semaphore is a semaphore.  A consumer that sleeps has     *)
(* already decremented m_count, but not yet waited successfully.           *)
Abstract == INSTANCE Semaphore WITH count <- m_count + Sleepers
ImplementsSemaphore == Abstract!Spec

(* What is enqueued is dequeued, even if nothing is enqueued after it.     *)
EverythingDequeued == inner > 0 ~> inner = 0
=============================================================================
