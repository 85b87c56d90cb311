--------------------------- MODULE ImplicitProducer ---------------------------
(***************************************************************************)
(* The sub-queue of a thread that enqueues without a token, as the server  *)
(* does.  Its blocks are found through a circular block index: a header    *)
(* points to entries, each with the first index of a block and the block.  *)
(* The last consumer of a block clears its entry and puts the block back   *)
(* into the pool.  When the entry after the tail is still in use, a larger *)
(* header is allocated that shares the entries of the old one; consumers   *)
(* may go on using the old one.                                            *)
(***************************************************************************)
EXTENDS ProducerBase

CONSTANTS IMPLICIT_INITIAL_INDEX_SIZE

ASSUME ImplicitIndexAssumption == IMPLICIT_INITIAL_INDEX_SIZE \in Nat \ {0, 1}

VARIABLES
  elementsCompletelyDequeued,  \* of each block
  entries,                     \* BlockIndexEntry: key and value
  headers                      \* BlockIndexHeader; the last one is blockIndex

implicitVars == <<elementsCompletelyDequeued, entries, headers>>

INVALID_BLOCK_BASE == 1

ImplicitInit ==
  /\ elementsCompletelyDequeued = [b \in Blocks |-> 0]
  /\ entries = [e \in 1 .. IMPLICIT_INITIAL_INDEX_SIZE |->
                  [key |-> INVALID_BLOCK_BASE, value |-> NoBlock]]
  /\ headers = << [capacity |-> IMPLICIT_INITIAL_INDEX_SIZE,
                   tail |-> IMPLICIT_INITIAL_INDEX_SIZE - 1,
                   index |-> [i \in 0 .. IMPLICIT_INITIAL_INDEX_SIZE - 1 |-> i + 1]] >>

blockIndex == headers[Len(headers)]

(* new_block_index: twice the capacity, the old entries in order, the      *)
(* oldest first, and as many fresh ones.                                   *)
NewHeader ==
  LET old == blockIndex
  IN [capacity |-> 2 * old.capacity,
      tail |-> old.capacity - 1,
      index |-> [i \in 0 .. 2 * old.capacity - 1 |->
                   IF i < old.capacity THEN old.index[(old.tail + 1 + i) % old.capacity]
                   ELSE Len(entries) + 1 + i - old.capacity]]

FreshEntries == [i \in 1 .. blockIndex.capacity |-> [key |-> INVALID_BLOCK_BASE, value |-> NoBlock]]

NextTail(h) == (h.tail + 1) % h.capacity

(* insert_block_index_entry: the entry after the tail gets the key, in a   *)
(* larger index if that entry is in use.                                   *)
InsertEntry(hs, es, base) ==
  LET h == hs[Len(hs)]
  IN /\ entries' = [es EXCEPT ![h.index[NextTail(h)]].key = base]
     /\ headers' = [hs EXCEPT ![Len(hs)].tail = NextTail(h)]

insert_block_index_entry(base) ==
  LET entry == entries[blockIndex.index[NextTail(blockIndex)]]
  IN IF entry.key = INVALID_BLOCK_BASE \/ entry.value = NoBlock
       THEN InsertEntry(headers, entries, base)
       ELSE InsertEntry(Append(headers, NewHeader), entries \o FreshEntries, base)

(* get_block_index_index_for_index, from the position of the tail entry.   *)
get_block_index_index_for_index(h, tail, index) ==
  LET tailBase == entries[h.index[tail]].key
  IN (tail + (Base(index) - tailBase) \div BLOCK_SIZE) % h.capacity

(* Fault: the entries keep the blocks that are given back.                 *)
RewoundTailOnly(n) ==
  /\ headers' = [headers EXCEPT ![Len(headers)].tail = (blockIndex.tail - n) % blockIndex.capacity]
  /\ UNCHANGED entries

(* The entries of the n blocks added last, and of the one inserted for a   *)
(* block that could not be had, are cleared and the tail goes back.        *)
Rewound(n) ==
  LET h == blockIndex
      undone == {h.index[(h.tail - i) % h.capacity] : i \in 0 .. n - 1}
  IN /\ entries' = [e \in DOMAIN entries |->
                      IF e \in undone THEN [entries[e] EXCEPT !.value = NoBlock] ELSE entries[e]]
     /\ headers' = [headers EXCEPT ![Len(headers)].tail = (h.tail - n) % h.capacity]
-----------------------------------------------------------------------------
(* enqueue and enqueue_bulk begin.  need is the number of blocks that      *)
(* remain to be allocated, chain the blocks allocated so far.              *)
ImplicitEnqueue(count) ==
  /\ producer.pc = "idle" /\ tailIndex + count <= MaxElements
  /\ producer' = [pc |-> IF BlocksNeeded(count) = 0 THEN "fill" ELSE "insert",
                  count |-> count, need |-> BlocksNeeded(count), chain |-> <<>>]
  /\ UNCHANGED <<indexVars, blockVars, implicitVars, consumer, isExplicit>>

(* A new entry of the block index, unless the sub-queue is full.           *)
ImplicitInsert ==
  /\ producer.pc = "insert" /\ ~Full(NextBase)
  /\ insert_block_index_entry(NextBase)
  /\ producer' = [producer EXCEPT !.pc = "block"]
  /\ UNCHANGED <<indexVars, blockVars, elementsCompletelyDequeued, consumer, isExplicit>>

(* The limit is reached, or the index cannot be enlarged: the blocks       *)
(* allocated so far are given back and the call returns false.             *)
ImplicitNoEntry ==
  /\ producer.pc = "insert"
  /\ \/ Full(NextBase)
     \/ LET entry == entries[blockIndex.index[NextTail(blockIndex)]]
        IN entry.key # INVALID_BLOCK_BASE /\ entry.value # NoBlock
  /\ Rewound(Len(producer.chain))
  /\ pool' = pool \union {producer.chain[i] : i \in DOMAIN producer.chain}
  /\ producer' = Idle
  /\ UNCHANGED <<indexVars, tailBlock, elements, elementsCompletelyDequeued, consumer, isExplicit>>

(* Fault: the counter of the last use of the block is kept.                *)
ImplicitBlockNoReset ==
  \E b \in pool :
    /\ producer.pc = "block"
    /\ pool' = pool \ {b}
    /\ entries' = [entries EXCEPT ![blockIndex.index[blockIndex.tail]].value = b]
    /\ producer' = [producer EXCEPT !.pc = IF producer.need = 1 THEN "fill" ELSE "insert",
                                    !.need = @ - 1, !.chain = Append(@, b)]
    /\ UNCHANGED <<indexVars, tailBlock, elements, elementsCompletelyDequeued, headers, consumer, isExplicit>>

(* requisition_block, reset_empty, and the entry gets its block.           *)
ImplicitBlock ==
  \E b \in pool :
    /\ producer.pc = "block"
    /\ pool' = pool \ {b}
    /\ elementsCompletelyDequeued' = [elementsCompletelyDequeued EXCEPT ![b] = 0]
    /\ entries' = [entries EXCEPT ![blockIndex.index[blockIndex.tail]].value = b]
    /\ producer' = [producer EXCEPT !.pc = IF producer.need = 1 THEN "fill" ELSE "insert",
                                    !.need = @ - 1, !.chain = Append(@, b)]
    /\ UNCHANGED <<indexVars, tailBlock, elements, headers, consumer, isExplicit>>

(* There is no block, or (once all are there) a constructor throws: all    *)
(* the entries and blocks of this call are given back.                     *)
ImplicitUndo ==
  /\ producer.pc \in {"block", "fill"}
  /\ Rewound(IF producer.pc = "block" THEN Len(producer.chain) + 1 ELSE Len(producer.chain))
  /\ pool' = pool \union {producer.chain[i] : i \in DOMAIN producer.chain}
  /\ producer' = Idle
  /\ UNCHANGED <<indexVars, tailBlock, elements, elementsCompletelyDequeued, consumer, isExplicit>>

(* The elements are constructed and tailIndex is stored.                   *)
ImplicitFill ==
  /\ producer.pc = "fill"
  /\ elements' = Filled(tailBlock)
  /\ tailBlock' = BlockOf(tailBlock, tailIndex + producer.count - 1)
  /\ tailIndex' = tailIndex + producer.count
  /\ producer' = Idle
  /\ UNCHANGED <<headIndex, dequeueOptimisticCount, dequeueOvercommit, pool,
                 implicitVars, consumer, isExplicit>>

ImplicitProduce ==
  \/ \E n \in Counts : ImplicitEnqueue(n)
  \/ ImplicitInsert \/ ImplicitNoEntry \/ ImplicitBlock \/ ImplicitUndo \/ ImplicitFill
-----------------------------------------------------------------------------
(* A consumer that has claimed its elements loads the header and its tail, *)
(* then the key of the tail entry.                                         *)
ImplicitLocate(c) ==
  /\ consumer[c].pc = "locate"
  /\ consumer' = [consumer EXCEPT ![c] =
       [pc |-> "find", index |-> @.index, last |-> @.last,
        hdr |-> Len(headers), pos |-> blockIndex.tail]]
  /\ UNCHANGED <<indexVars, blockVars, implicitVars, producer, isExplicit>>

ImplicitFind(c) ==
  LET k == consumer[c]
  IN /\ k.pc = "find"
     /\ consumer' = [consumer EXCEPT ![c] =
          [k EXCEPT !.pc = "read",
                    !.pos = get_block_index_index_for_index(headers[k.hdr], k.pos, k.index)]]
     /\ UNCHANGED <<indexVars, blockVars, implicitVars, producer, isExplicit>>

ImplicitEntryOf(k) == headers[k.hdr].index[k.pos]

(* The elements of the entry's block are moved out.                        *)
ImplicitRead(c) ==
  LET k == consumer[c]
  IN ReadBlock(c, entries[ImplicitEntryOf(k)].value) /\ UNCHANGED implicitVars

(* Fault: the block is given back with its last element, whether or not    *)
(* the others have been read.                                              *)
ImplicitEmptyAtEnd(c) ==
  LET k == consumer[c]
  IN /\ k.pc = "empty"
     /\ elementsCompletelyDequeued' = [elementsCompletelyDequeued EXCEPT ![k.block] = @ + End(k) - k.index]
     /\ consumer' = [consumer EXCEPT ![c] =
          IF End(k) % BLOCK_SIZE = 0 THEN [k EXCEPT !.pc = "clear"]
          ELSE NextBlock(k, headers[k.hdr].capacity)]
     /\ UNCHANGED <<indexVars, blockVars, entries, headers, producer, isExplicit>>

(* set_many_empty: the counter tells who has emptied the block.            *)
ImplicitEmpty(c) ==
  LET k == consumer[c]
      total == elementsCompletelyDequeued[k.block] + End(k) - k.index
  IN /\ k.pc = "empty"
     /\ elementsCompletelyDequeued' = [elementsCompletelyDequeued EXCEPT ![k.block] = total]
     /\ consumer' = [consumer EXCEPT ![c] =
          IF total = BLOCK_SIZE THEN [k EXCEPT !.pc = "clear"]
          ELSE NextBlock(k, headers[k.hdr].capacity)]
     /\ UNCHANGED <<indexVars, blockVars, entries, headers, producer, isExplicit>>

(* The emptied block leaves the index, then it goes back to the pool.      *)
ImplicitClear(c) ==
  LET k == consumer[c]
  IN /\ k.pc = "clear"
     /\ entries' = [entries EXCEPT ![ImplicitEntryOf(k)].value = NoBlock]
     /\ consumer' = [consumer EXCEPT ![c].pc = "release"]
     /\ UNCHANGED <<indexVars, blockVars, elementsCompletelyDequeued, headers, producer, isExplicit>>

ImplicitRelease(c) ==
  LET k == consumer[c]
  IN /\ k.pc = "release"
     /\ pool' = pool \union {k.block}
     /\ consumer' = [consumer EXCEPT ![c] = NextBlock(k, headers[k.hdr].capacity)]
     /\ UNCHANGED <<indexVars, tailBlock, elements, implicitVars, producer, isExplicit>>

ImplicitConsume(c) ==
  \/ (\E n \in Maxes : LoadTail(c, n)) /\ UNCHANGED implicitVars
  \/ ReserveSteps(c) /\ UNCHANGED implicitVars
  \/ ImplicitLocate(c) \/ ImplicitFind(c) \/ ImplicitRead(c)
  \/ ImplicitEmpty(c) \/ ImplicitClear(c) \/ ImplicitRelease(c)
=============================================================================
