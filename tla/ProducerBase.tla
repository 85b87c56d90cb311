----------------------------- MODULE ProducerBase -----------------------------
(***************************************************************************)
(* What the two kinds of sub-queue of moodycamel::ConcurrentQueue have in  *)
(* common (c++/server/concurrentqueue.h): the indices of ProducerBase, the *)
(* blocks, and the way a consumer reserves elements before it looks for    *)
(* their blocks.  A sub-queue has one producer and any number of           *)
(* consumers; nothing is locked.                                           *)
(*                                                                         *)
(* The element enqueued at index i is the number i.  dequeue is            *)
(* dequeue_bulk with max = 1, and enqueue is enqueue_bulk with count = 1:  *)
(* the counters and the blocks go through the same values.  The indices    *)
(* are 64 bits wide and do not wrap around in the model.  Every access to  *)
(* an atomic variable that another thread may change is one step.          *)
(***************************************************************************)
EXTENDS Integers, FiniteSets, Sequences

CONSTANTS
  Consumers,          \* threads that dequeue
  Blocks,             \* all the blocks there is memory for
  NoBlock,            \* nullptr
  BLOCK_SIZE,
  MAX_SUBQUEUE_SIZE,  \* a multiple of BLOCK_SIZE
  Counts,             \* numbers of elements the producer enqueues at once
  Maxes,              \* numbers of elements a consumer asks for at once
  MaxElements,        \* bound on tailIndex
  MaxDequeues         \* bound on dequeueOptimisticCount

ASSUME ConsumersAssumption == IsFiniteSet(Consumers)
ASSUME SizesAssumption ==
  /\ BLOCK_SIZE \in Nat \ {0, 1}
  /\ MAX_SUBQUEUE_SIZE \in Nat
  /\ MaxElements \in Nat /\ MaxDequeues \in Nat
  /\ Counts \subseteq Nat \ {0} /\ Maxes \subseteq Nat \ {0}
ASSUME NoBlockAssumption == NoBlock \notin Blocks

VARIABLES
  isExplicit,              \* the kind of this sub-queue
  tailIndex, headIndex,    \* where to enqueue and to dequeue next
  dequeueOptimisticCount,  \* elements reserved, too many included
  dequeueOvercommit,       \* elements reserved too many
  tailBlock,               \* the block of the last element enqueued
  elements,                \* slots of each block: an element or Empty
  pool,                    \* blocks of the pool that all the sub-queues share
  producer,                \* call of the producer in progress
  consumer                 \* call of each consumer in progress

indexVars == <<tailIndex, headIndex, dequeueOptimisticCount, dequeueOvercommit>>
blockVars == <<tailBlock, elements, pool>>

Slots == 0 .. BLOCK_SIZE - 1
Empty == -1

(* index & ~(BLOCK_SIZE - 1), also for -1 (startTailIndex - 1 at 0).       *)
Base(i) == i - (i % BLOCK_SIZE)

Idle == [pc |-> "idle"]

ProducerBaseInit ==
  /\ isExplicit \in BOOLEAN
  /\ tailIndex = 0 /\ headIndex = 0
  /\ dequeueOptimisticCount = 0 /\ dequeueOvercommit = 0
  /\ tailBlock = NoBlock
  /\ elements = [b \in Blocks |-> [s \in Slots |-> Empty]]
  /\ pool = Blocks
  /\ producer = Idle
  /\ consumer = [c \in Consumers |-> Idle]

(* size_approx of one sub-queue                                            *)
SizeApprox == IF headIndex < tailIndex THEN tailIndex - headIndex ELSE 0
-----------------------------------------------------------------------------
(* The first part of dequeue and dequeue_bulk: max elements are wanted.    *)
LoadTail(c, max) ==
  /\ consumer[c].pc = "idle"
  /\ consumer' = [consumer EXCEPT ![c] = [pc |-> "overcommit", tail |-> tailIndex, max |-> max]]
  /\ UNCHANGED <<indexVars, blockVars, producer, isExplicit>>

LoadOvercommit(c) ==
  /\ consumer[c].pc = "overcommit"
  /\ consumer' = [consumer EXCEPT ![c] = [pc |-> "desire", tail |-> @.tail, max |-> @.max,
                                          overcommit |-> dequeueOvercommit]]
  /\ UNCHANGED <<indexVars, blockVars, producer, isExplicit>>

(* desiredCount; nothing is dequeued if the sub-queue appears empty.       *)
Desire(c) ==
  LET k == consumer[c]
      available == k.tail - (dequeueOptimisticCount - k.overcommit)
      desired == IF available < k.max THEN available ELSE k.max
  IN /\ k.pc = "desire"
     /\ consumer' = [consumer EXCEPT ![c] =
          IF available > 0
            THEN [pc |-> "reserve", overcommit |-> k.overcommit, desired |-> desired]
            ELSE Idle]
     /\ UNCHANGED <<indexVars, blockVars, producer, isExplicit>>

(* myDequeueCount = dequeueOptimisticCount.fetch_add(desiredCount)         *)
Reserve(c) ==
  LET k == consumer[c]
  IN /\ k.pc = "reserve" /\ dequeueOptimisticCount + k.desired <= MaxDequeues
     /\ dequeueOptimisticCount' = dequeueOptimisticCount + k.desired
     /\ consumer' = [consumer EXCEPT ![c] =
          [pc |-> "check", mine |-> dequeueOptimisticCount - k.overcommit, desired |-> k.desired]]
     /\ UNCHANGED <<tailIndex, headIndex, dequeueOvercommit, blockVars, producer, isExplicit>>

(* tailIndex is loaded again: actualCount of the reserved elements exist.  *)
Check(c) ==
  LET k == consumer[c]
      available == tailIndex - k.mine
      actual == IF available <= 0 THEN 0
                ELSE IF available < k.desired THEN available ELSE k.desired
  IN /\ k.pc = "check"
     /\ consumer' = [consumer EXCEPT ![c] =
          IF actual < k.desired
            THEN [pc |-> "giveBack", actual |-> actual, excess |-> k.desired - actual]
            ELSE [pc |-> "claim", actual |-> actual]]
     /\ UNCHANGED <<indexVars, blockVars, producer, isExplicit>>

(* Fault: what was reserved too much is never given back.                  *)
GiveBackNothing(c) ==
  LET k == consumer[c]
  IN /\ k.pc = "giveBack"
     /\ consumer' = [consumer EXCEPT ![c] =
          IF k.actual > 0 THEN [pc |-> "claim", actual |-> k.actual] ELSE Idle]
     /\ UNCHANGED <<indexVars, blockVars, producer, isExplicit>>

(* dequeueOvercommit.fetch_add: what was reserved too much is given back.  *)
GiveBack(c) ==
  LET k == consumer[c]
  IN /\ k.pc = "giveBack"
     /\ dequeueOvercommit' = dequeueOvercommit + k.excess
     /\ consumer' = [consumer EXCEPT ![c] =
          IF k.actual > 0 THEN [pc |-> "claim", actual |-> k.actual] ELSE Idle]
     /\ UNCHANGED <<tailIndex, headIndex, dequeueOptimisticCount, blockVars, producer, isExplicit>>

(* headIndex.fetch_add: the elements from index up to last are this        *)
(* consumer's own.                                                         *)
Claim(c) ==
  LET k == consumer[c]
  IN /\ k.pc = "claim"
     /\ headIndex' = headIndex + k.actual
     /\ consumer' = [consumer EXCEPT ![c] =
          [pc |-> "locate", index |-> headIndex, last |-> headIndex + k.actual]]
     /\ UNCHANGED <<tailIndex, dequeueOptimisticCount, dequeueOvercommit, blockVars, producer, isExplicit>>

ReserveSteps(c) ==
  \/ LoadOvercommit(c) \/ Desire(c) \/ Reserve(c)
  \/ Check(c) \/ GiveBack(c) \/ Claim(c)
-----------------------------------------------------------------------------
(* The consumer reads its elements block by block.  End(k) is endIndex.    *)
End(k) == LET end == Base(k.index) + BLOCK_SIZE
          IN IF k.last < end THEN k.last ELSE end

(* The elements are moved out of the block and destroyed, also when the    *)
(* assignment throws.                                                      *)
ReadBlock(c, block) ==
  LET k == consumer[c]
  IN /\ k.pc = "read"
     /\ elements' = [elements EXCEPT ![block] =
          [s \in Slots |-> IF Base(k.index) + s \in k.index .. End(k) - 1 THEN Empty ELSE @[s]]]
     /\ consumer' = [consumer EXCEPT ![c] =
          [pc |-> "empty", index |-> k.index, last |-> k.last, hdr |-> k.hdr, pos |-> k.pos,
           block |-> block]]
     /\ UNCHANGED <<indexVars, tailBlock, pool, producer, isExplicit>>

(* The call goes on with the next block of the block index, or returns.    *)
NextBlock(k, size) ==
  IF End(k) = k.last THEN Idle
  ELSE [pc |-> "read", index |-> End(k), last |-> k.last, hdr |-> k.hdr, pos |-> (k.pos + 1) % size]

(* The sub-queue is full when another block could exceed the limit.        *)
Full(base) == MAX_SUBQUEUE_SIZE < BLOCK_SIZE \/ MAX_SUBQUEUE_SIZE - BLOCK_SIZE < base - headIndex

(* Number of blocks that count more elements need.                         *)
BlocksNeeded(count) == (Base(tailIndex + count - 1) - Base(tailIndex - 1)) \div BLOCK_SIZE

(* First index of the next block of the call.                              *)
NextBase == Base(tailIndex - 1) + BLOCK_SIZE * (Len(producer.chain) + 1)

(* The block of index i in a call of the producer: start up to the next    *)
(* block boundary, then the blocks that the call has allocated.            *)
BlockOf(start, i) ==
  IF Base(i) = Base(tailIndex - 1) THEN start
  ELSE producer.chain[(Base(i) - Base(tailIndex - 1)) \div BLOCK_SIZE]

(* The elements of the call are constructed in their blocks.               *)
Filled(start) ==
  LET new == tailIndex .. tailIndex + producer.count - 1
      At(b, s) == {i \in new : BlockOf(start, i) = b /\ i % BLOCK_SIZE = s}
  IN [b \in Blocks |-> [s \in Slots |->
        IF At(b, s) = {} THEN elements[b][s] ELSE CHOOSE i \in At(b, s) : TRUE]]
=============================================================================
