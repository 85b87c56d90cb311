------------------------------- MODULE SubQueue -------------------------------
(***************************************************************************)
(* One sub-queue of the concurrent queue, of either kind, with its         *)
(* producer and its consumers, and what must hold of it.                   *)
(***************************************************************************)
EXTENDS ImplicitProducer, ExplicitProducer, Sums

vars == <<indexVars, blockVars, implicitVars, explicitVars, producer, consumer, isExplicit>>

Init == ProducerBaseInit /\ ImplicitInit /\ ExplicitInit

Produce ==
  \/ ~isExplicit /\ ImplicitProduce /\ UNCHANGED explicitVars
  \/ isExplicit /\ ExplicitProduce /\ UNCHANGED implicitVars

Consume(c) ==
  \/ ~isExplicit /\ ImplicitConsume(c) /\ UNCHANGED explicitVars
  \/ isExplicit /\ ExplicitConsume(c) /\ UNCHANGED implicitVars

Next == Produce \/ \E c \in Consumers : Consume(c)

Spec == Init /\ [][Next]_vars
-----------------------------------------------------------------------------
(* A consumer that is about to read its elements has found the block they  *)
(* were put in, although others have gone on enqueuing, dequeuing and      *)
(* giving blocks back since it looked at the block index: the assertion of *)
(* get_block_index_index_for_index, and the same for the explicit index.   *)
ReadsItsElements ==
  \A c \in Consumers :
    LET k == consumer[c]
        b == IF isExplicit THEN ExplicitEntryOf(k).block ELSE entries[ImplicitEntryOf(k)].value
    IN k.pc = "read" =>
         /\ b # NoBlock
         /\ \A i \in k.index .. End(k) - 1 : elements[b][i % BLOCK_SIZE] = i

(* Elements a consumer has reserved and neither claimed nor given back.    *)
Reserved(k) ==
  CASE k.pc = "check" -> k.desired
    [] k.pc = "giveBack" -> k.actual + k.excess
    [] k.pc = "claim" -> k.actual
    [] OTHER -> 0
AllReserved == Total([c \in Consumers |-> Reserved(consumer[c])])

(* Whatever the consumers reserve at the same time, nobody claims an       *)
(* element that is not there, and what was reserved too much is given      *)
(* back: once no call is in progress, the elements that the next call sees *)
(* as available are those that are in the sub-queue.                       *)
ReservationsBalance ==
  /\ headIndex <= tailIndex
  /\ dequeueOptimisticCount - dequeueOvercommit = headIndex + AllReserved

(* No block is lost and none has two owners: each one is in the pool, in   *)
(* one entry of the implicit block index or in the hands of the consumer   *)
(* that emptied it, or in the ring of the explicit producer.               *)
BlocksOwnedOnce ==
  LET InEntry(b) == {e \in DOMAIN entries : entries[e].value = b}
      Releasing(b) == {c \in Consumers : consumer[c].pc = "release" /\ consumer[c].block = b}
      Ring == {b \in Blocks : next[b] # NoBlock}
  IN IF isExplicit
       THEN /\ pool = Blocks \ Ring
            /\ {next[b] : b \in Ring} = Ring
            /\ Ring # {} => tailBlock \in Ring
       ELSE \A b \in Blocks :
              Cardinality(InEntry(b)) + Cardinality(Releasing(b)) = IF b \in pool THEN 0 ELSE 1

(* When no call is in progress, a block of the implicit index still has    *)
(* elements to dequeue or room for more: every emptied block was given     *)
(* back, whichever consumers emptied it and in whatever order.  (A block   *)
(* that an explicit producer has reset for an element whose constructor    *)
(* threw is never used again.)                                             *)
EmptiedBlocksComeBack ==
  (~isExplicit /\ producer = Idle /\ \A c \in Consumers : consumer[c] = Idle) =>
    \A e \in DOMAIN entries :
      entries[e].value # NoBlock => headIndex < entries[e].key + BLOCK_SIZE

(* The element that a consumer would find for index i if it looked now.    *)
Stored(i) ==
  LET h == indices[Len(indices)]
      offset == (Base(i) - h.entries[h.front].base) \div BLOCK_SIZE
      b == IF isExplicit THEN h.entries[(h.front + offset) % h.size].block
           ELSE entries[blockIndex.index[get_block_index_index_for_index(blockIndex, blockIndex.tail, i)]].value
  IN IF b = NoBlock THEN Empty ELSE elements[b][i % BLOCK_SIZE]

Fifo == INSTANCE ElementQueue WITH
  queue <- [i \in 1 .. tailIndex - headIndex |-> Stored(headIndex + i - 1)],
  enqueued <- tailIndex

(* The sub-queue implements a FIFO queue: what the blocks and the block    *)
(* index hold between headIndex and tailIndex changes only by calls that   *)
(* append all their elements, and by claims of the oldest ones; a failed   *)
(* enqueue, a block used again or a larger index change nothing.           *)
ImplementsFifo == Fifo!Spec
=============================================================================
