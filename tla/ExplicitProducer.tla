--------------------------- MODULE ExplicitProducer ---------------------------
(***************************************************************************)
(* The sub-queue of a ProducerToken.  Its blocks form a ring: a block that *)
(* has become empty is used again when the tail comes round to it, and is  *)
(* never put back into the pool.  Consumers find blocks through a circular *)
(* block index whose front is the block of the tail; a larger index gets a *)
(* copy of the entries.                                                    *)
(***************************************************************************)
EXTENDS ProducerBase

CONSTANTS
  EXPLICIT_INITIAL_INDEX_SIZE,
  BulkMayFail   \* whether a call for several elements may fail

ASSUME ExplicitAssumption ==
  EXPLICIT_INITIAL_INDEX_SIZE \in Nat \ {0, 1} /\ BulkMayFail \in BOOLEAN

VARIABLES
  emptyFlags,              \* slots of each block that are marked empty
  next,                    \* the ring of blocks
  indices,                 \* BlockIndexHeader; the last one is blockIndex
  pr_blockIndexSlotsUsed,
  pr_blockIndexSize,
  pr_blockIndexFront       \* next slot of the index

explicitVars == <<emptyFlags, next, indices, pr_blockIndexSlotsUsed,
                  pr_blockIndexSize, pr_blockIndexFront>>

NoEntry == [base |-> 0, block |-> NoBlock]

(* The constructor's new_block_index(0) may fail.                          *)
ExplicitInit ==
  /\ emptyFlags = [b \in Blocks |-> {}]
  /\ next = [b \in Blocks |-> NoBlock]
  /\ pr_blockIndexSlotsUsed = 0 /\ pr_blockIndexFront = 0
  /\ \/ /\ pr_blockIndexSize = EXPLICIT_INITIAL_INDEX_SIZE
        /\ indices = << [size |-> EXPLICIT_INITIAL_INDEX_SIZE, front |-> -1,
                         entries |-> [i \in 0 .. EXPLICIT_INITIAL_INDEX_SIZE - 1 |-> NoEntry]] >>
     \/ /\ isExplicit
        /\ pr_blockIndexSize = EXPLICIT_INITIAL_INDEX_SIZE \div 2
        /\ indices = <<>>

IsEmpty(b) == emptyFlags[b] = Slots
-----------------------------------------------------------------------------
(* enqueue and enqueue_bulk begin; what a failure goes back to is kept.    *)
ExplicitEnqueue(count) ==
  /\ producer.pc = "idle" /\ tailIndex + count <= MaxElements
  /\ producer' = [pc |-> IF BlocksNeeded(count) = 0 THEN "fill" ELSE "ahead",
                  count |-> count, need |-> BlocksNeeded(count), chain |-> <<>>, start |-> tailBlock,
                  front |-> pr_blockIndexFront, slotsUsed |-> pr_blockIndexSlotsUsed, published |-> FALSE]
  /\ UNCHANGED <<indexVars, blockVars, explicitVars, consumer, isExplicit>>

(* The next entry of the index gets block b.                               *)
AddEntry(b) ==
  /\ indices' = [indices EXCEPT ![Len(indices)].entries[pr_blockIndexFront] =
                   [base |-> NextBase, block |-> b]]
  /\ pr_blockIndexFront' = (pr_blockIndexFront + 1) % pr_blockIndexSize
  /\ tailBlock' = b

MoreBlocks(b, pc) ==
  producer' = [producer EXCEPT !.pc = IF producer.need = 1 THEN "reset" ELSE pc,
                               !.need = @ - 1, !.chain = Append(@, b)]

EmptyAhead ==
  /\ tailBlock # NoBlock
  /\ producer.chain # <<>> => next[tailBlock] # producer.chain[1]
  /\ IsEmpty(next[tailBlock])

(* Fault: the block ahead is used whether or not it is empty.              *)
ExplicitAheadAny ==
  /\ producer.pc = "ahead" /\ tailBlock # NoBlock
  /\ AddEntry(next[tailBlock]) /\ MoreBlocks(next[tailBlock], "ahead")
  /\ UNCHANGED <<indexVars, elements, pool, emptyFlags, next, pr_blockIndexSlotsUsed,
                 pr_blockIndexSize, consumer, isExplicit>>

(* The block ahead of the tail is empty: it is used again.                 *)
ExplicitAhead ==
  /\ producer.pc = "ahead" /\ EmptyAhead
  /\ AddEntry(next[tailBlock]) /\ MoreBlocks(next[tailBlock], "ahead")
  /\ UNCHANGED <<indexVars, elements, pool, emptyFlags, next, pr_blockIndexSlotsUsed,
                 pr_blockIndexSize, consumer, isExplicit>>

(* Otherwise the blocks that are still needed come from the pool.          *)
ExplicitNoneAhead ==
  /\ producer.pc = "ahead" /\ ~EmptyAhead
  /\ producer' = [producer EXCEPT !.pc = "new"]
  /\ UNCHANGED <<indexVars, blockVars, explicitVars, consumer, isExplicit>>

IndexFull == indices = <<>> \/ pr_blockIndexSlotsUsed = pr_blockIndexSize

(* new_block_index: twice the size, with the entries in use, the oldest    *)
(* first.                                                                  *)
ExplicitNewIndex ==
  LET used == pr_blockIndexSlotsUsed
      Old(i) == indices[Len(indices)].entries[(pr_blockIndexFront - used + i) % pr_blockIndexSize]
  IN /\ producer.pc = "new" /\ ~Full(NextBase) /\ IndexFull
     /\ indices' = Append(indices,
          [size |-> 2 * pr_blockIndexSize, front |-> producer.slotsUsed - 1,
           entries |-> [i \in 0 .. 2 * pr_blockIndexSize - 1 |-> IF i < used THEN Old(i) ELSE NoEntry]])
     /\ pr_blockIndexSize' = 2 * pr_blockIndexSize
     /\ pr_blockIndexFront' = used
     /\ producer' = [producer EXCEPT !.front = producer.slotsUsed]
     /\ UNCHANGED <<indexVars, blockVars, emptyFlags, next, pr_blockIndexSlotsUsed, consumer, isExplicit>>

(* A new block is inserted into the ring after the tail.                   *)
ExplicitBlock ==
  \E b \in pool :
    /\ producer.pc = "new" /\ ~Full(NextBase) /\ ~IndexFull
    /\ pool' = pool \ {b}
    /\ emptyFlags' = [emptyFlags EXCEPT ![b] = Slots]
    /\ next' = IF tailBlock = NoBlock THEN [next EXCEPT ![b] = b]
               ELSE [next EXCEPT ![b] = next[tailBlock], ![tailBlock] = b]
    /\ pr_blockIndexSlotsUsed' = pr_blockIndexSlotsUsed + 1
    /\ AddEntry(b) /\ MoreBlocks(b, "new")
    /\ UNCHANGED <<indexVars, elements, pr_blockIndexSize, consumer, isExplicit>>

(* reset_empty of the blocks.  The front of the index is published now if  *)
(* the constructor of an element cannot throw, else with the tail.         *)
Published == [indices EXCEPT ![Len(indices)].front = (pr_blockIndexFront - 1) % pr_blockIndexSize]

ExplicitReset ==
  \E noexcept \in BOOLEAN :
    /\ producer.pc = "reset"
    /\ emptyFlags' = [b \in Blocks |->
         IF \E i \in DOMAIN producer.chain : producer.chain[i] = b THEN {} ELSE emptyFlags[b]]
    /\ indices' = IF noexcept THEN Published ELSE indices
    /\ producer' = [producer EXCEPT !.pc = "fill", !.published = noexcept]
    /\ UNCHANGED <<indexVars, blockVars, next, pr_blockIndexSlotsUsed, pr_blockIndexSize,
                   pr_blockIndexFront, consumer, isExplicit>>

(* The limit is reached, there is no memory, or a constructor throws: the  *)
(* call is undone, but the blocks stay in the ring.                        *)
ExplicitUndo ==
  /\ producer.pc = "new" \/ (producer.pc = "fill" /\ ~producer.published)
  /\ producer.count = 1 \/ BulkMayFail
  /\ pr_blockIndexFront' = producer.front
  /\ pr_blockIndexSlotsUsed' = producer.slotsUsed
  /\ tailBlock' = IF producer.start # NoBlock THEN producer.start
                  ELSE IF producer.chain # <<>> THEN producer.chain[1] ELSE NoBlock
  /\ producer' = Idle
  /\ UNCHANGED <<indexVars, elements, pool, emptyFlags, next, indices, pr_blockIndexSize,
                 consumer, isExplicit>>

(* The elements are constructed and tailIndex is stored.                   *)
ExplicitFill ==
  /\ producer.pc = "fill"
  /\ elements' = Filled(producer.start)
  /\ tailBlock' = BlockOf(producer.start, tailIndex + producer.count - 1)
  /\ indices' = IF producer.chain # <<>> THEN Published ELSE indices
  /\ tailIndex' = tailIndex + producer.count
  /\ producer' = Idle
  /\ UNCHANGED <<headIndex, dequeueOptimisticCount, dequeueOvercommit, pool, emptyFlags, next,
                 pr_blockIndexSlotsUsed, pr_blockIndexSize, pr_blockIndexFront, consumer, isExplicit>>

ExplicitProduce ==
  \/ \E n \in Counts : ExplicitEnqueue(n)
  \/ ExplicitAhead \/ ExplicitNoneAhead \/ ExplicitNewIndex \/ ExplicitBlock
  \/ ExplicitReset \/ ExplicitUndo \/ ExplicitFill
-----------------------------------------------------------------------------
(* A consumer loads the index and its front, then the base at the front.   *)
ExplicitLocate(c) ==
  /\ consumer[c].pc = "locate"
  /\ consumer' = [consumer EXCEPT ![c] =
       [pc |-> "find", index |-> @.index, last |-> @.last,
        hdr |-> Len(indices), pos |-> indices[Len(indices)].front]]
  /\ UNCHANGED <<indexVars, blockVars, explicitVars, producer, isExplicit>>

ExplicitFind(c) ==
  LET k == consumer[c]
      h == indices[k.hdr]
      offset == (Base(k.index) - h.entries[k.pos].base) \div BLOCK_SIZE
  IN /\ k.pc = "find"
     /\ consumer' = [consumer EXCEPT ![c] =
          [k EXCEPT !.pc = "read", !.pos = (k.pos + offset) % h.size]]
     /\ UNCHANGED <<indexVars, blockVars, explicitVars, producer, isExplicit>>

ExplicitEntryOf(k) == indices[k.hdr].entries[k.pos]

ExplicitRead(c) == ReadBlock(c, ExplicitEntryOf(consumer[c]).block) /\ UNCHANGED explicitVars

(* set_many_empty: after the last flag the producer may use the block.     *)
ExplicitEmpty(c) ==
  LET k == consumer[c]
  IN /\ k.pc = "empty"
     /\ emptyFlags' = [emptyFlags EXCEPT ![k.block] =
          @ \union {i % BLOCK_SIZE : i \in k.index .. End(k) - 1}]
     /\ consumer' = [consumer EXCEPT ![c] = NextBlock(k, indices[k.hdr].size)]
     /\ UNCHANGED <<indexVars, blockVars, next, indices, pr_blockIndexSlotsUsed,
                    pr_blockIndexSize, pr_blockIndexFront, producer, isExplicit>>

ExplicitConsume(c) ==
  \/ (\E n \in Maxes : LoadTail(c, n)) /\ UNCHANGED explicitVars
  \/ ReserveSteps(c) /\ UNCHANGED explicitVars
  \/ ExplicitLocate(c) \/ ExplicitFind(c) \/ ExplicitRead(c) \/ ExplicitEmpty(c)
=============================================================================
