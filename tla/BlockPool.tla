------------------------------- MODULE BlockPool ------------------------------
(***************************************************************************)
(* The pool of blocks that all the sub-queues of the concurrent queue      *)
(* share (c++/server/concurrentqueue.h): an array of initial blocks, the   *)
(* lock-free FreeList and the heap.  Producers take blocks with            *)
(* requisition_block, consumers that have emptied one give it back with    *)
(* add_block_to_free_list.  Each access to an atomic is one step of a      *)
(* thread.                                                                 *)
(*                                                                         *)
(* freeListRefs of a block counts the list itself and the threads that     *)
(* look at the block; its top bit says that the block has to be put on the *)
(* list by whoever brings the count to zero.  The 32 bits are scaled down  *)
(* to the bits below SHOULD_BE_ON_FREELIST and that one.                   *)
(***************************************************************************)
EXTENDS Naturals, FiniteSets

CONSTANTS
  Threads,
  initialBlockPoolSize,
  MaxBlocks,              \* blocks there is memory for
  SHOULD_BE_ON_FREELIST   \* a power of two

ASSUME PoolAssumption ==
  /\ IsFiniteSet(Threads)
  /\ MaxBlocks \in Nat /\ initialBlockPoolSize \in 0 .. MaxBlocks
  /\ SHOULD_BE_ON_FREELIST \in Nat /\ SHOULD_BE_ON_FREELIST > Cardinality(Threads) + 1

VARIABLES
  initialBlockPoolIndex,
  created,         \* number of blocks that create<Block> has returned
  freeListHead,
  freeListRefs, freeListNext,   \* of each block
  held,            \* blocks that the sub-queues of each thread use
  call             \* call of each thread in progress

poolVars == <<initialBlockPoolIndex, created, freeListHead, freeListRefs, freeListNext, held, call>>
listVars == <<freeListHead, freeListRefs, freeListNext>>

PoolBlocks == 1 .. MaxBlocks
Null == 0
REFS_MASK == SHOULD_BE_ON_FREELIST - 1

NoCall == [pc |-> "idle"]

PoolInit ==
  /\ initialBlockPoolIndex = 0 /\ created = 0
  /\ freeListHead = Null
  /\ freeListRefs = [b \in PoolBlocks |-> 0] /\ freeListNext = [b \in PoolBlocks |-> Null]
  /\ held = [t \in Threads |-> {}]
  /\ call = [t \in Threads |-> NoCall]

(* fetch_add of d on the count of block b                                  *)
AddRefs(b, d) ==
  freeListRefs' = [freeListRefs EXCEPT ![b] = (@ + d) % (2 * SHOULD_BE_ON_FREELIST)]

Goto(t, c) == call' = [call EXCEPT ![t] = c]
-----------------------------------------------------------------------------
(* requisition_block: first try_get_block_from_initial_pool.               *)
Requisition(t) ==
  /\ call[t].pc = "idle"
  /\ Goto(t, [pc |-> IF initialBlockPoolIndex >= initialBlockPoolSize THEN "head" ELSE "initial"])
  /\ UNCHANGED <<initialBlockPoolIndex, created, listVars, held>>

(* initialBlockPoolIndex.fetch_add: another thread may have come first.    *)
Initial(t) ==
  /\ call[t].pc = "initial"
  /\ initialBlockPoolIndex' = initialBlockPoolIndex + 1
  /\ IF initialBlockPoolIndex < initialBlockPoolSize
       THEN held' = [held EXCEPT ![t] = @ \union {initialBlockPoolIndex + 1}] /\ Goto(t, NoCall)
       ELSE Goto(t, [pc |-> "head"]) /\ UNCHANGED held
  /\ UNCHANGED <<created, listVars>>

(* try_get with what has been loaded as head.                              *)
WithHead(h) == IF h = Null THEN [pc |-> "create"] ELSE [pc |-> "refs", head |-> h]

LoadHead(t) ==
  /\ call[t].pc = "head"
  /\ Goto(t, WithHead(freeListHead))
  /\ UNCHANGED <<initialBlockPoolIndex, created, listVars, held>>

(* Fault: the head is not loaded again.                                    *)
LoadRefsAgain(t) ==
  LET h == call[t].head
  IN /\ call[t].pc = "refs"
     /\ Goto(t, IF freeListRefs[h] % SHOULD_BE_ON_FREELIST = 0 THEN call[t]
                ELSE [pc |-> "hold", head |-> h, refs |-> freeListRefs[h]])
     /\ UNCHANGED <<initialBlockPoolIndex, created, listVars, held>>

(* A block whose count is zero is not on the list any more.                *)
LoadRefs(t) ==
  LET h == call[t].head
  IN /\ call[t].pc = "refs"
     /\ Goto(t, IF freeListRefs[h] % SHOULD_BE_ON_FREELIST = 0 THEN [pc |-> "head"]
                ELSE [pc |-> "hold", head |-> h, refs |-> freeListRefs[h]])
     /\ UNCHANGED <<initialBlockPoolIndex, created, listVars, held>>

(* compare_exchange of the count: the block's next cannot change then.     *)
Hold(t) ==
  LET h == call[t].head
  IN /\ call[t].pc = "hold"
     /\ IF freeListRefs[h] = call[t].refs
          THEN AddRefs(h, 1) /\ Goto(t, [pc |-> "next", head |-> h])
          ELSE Goto(t, [pc |-> "head"]) /\ UNCHANGED freeListRefs
     /\ UNCHANGED <<initialBlockPoolIndex, created, freeListHead, freeListNext, held>>

LoadNext(t) ==
  LET h == call[t].head
  IN /\ call[t].pc = "next"
     /\ Goto(t, [pc |-> "pop", head |-> h, next |-> freeListNext[h]])
     /\ UNCHANGED <<initialBlockPoolIndex, created, listVars, held>>

(* compare_exchange of freeListHead: it fails if the head has changed.     *)
Pop(t) ==
  LET h == call[t].head
  IN /\ call[t].pc = "pop"
     /\ IF freeListHead = h
          THEN freeListHead' = call[t].next /\ Goto(t, [pc |-> "got", head |-> h])
          ELSE Goto(t, [pc |-> "leave", prevHead |-> h, head |-> freeListHead]) /\ UNCHANGED freeListHead
     /\ UNCHANGED <<initialBlockPoolIndex, created, freeListRefs, freeListNext, held>>

(* The block is taken: one reference less for the thread, one for the list. *)
Got(t) ==
  LET h == call[t].head
  IN /\ call[t].pc = "got"
     /\ AddRefs(h, 2 * SHOULD_BE_ON_FREELIST - 2)
     /\ held' = [held EXCEPT ![t] = @ \union {h}]
     /\ Goto(t, NoCall)
     /\ UNCHANGED <<initialBlockPoolIndex, created, freeListHead, freeListNext>>

(* Fault: the last thread to look at a block does not put it on the list.  *)
LeaveOnly(t) ==
  LET prev == call[t].prevHead
  IN /\ call[t].pc = "leave"
     /\ AddRefs(prev, 2 * SHOULD_BE_ON_FREELIST - 1)
     /\ Goto(t, WithHead(call[t].head))
     /\ UNCHANGED <<initialBlockPoolIndex, created, freeListHead, freeListNext, held>>

(* The reference is dropped; if it was the last one to a block that should *)
(* be on the list, this thread puts it there before it goes on.            *)
Leave(t) ==
  LET prev == call[t].prevHead
  IN /\ call[t].pc = "leave"
     /\ AddRefs(prev, 2 * SHOULD_BE_ON_FREELIST - 1)
     /\ Goto(t, IF freeListRefs[prev] = SHOULD_BE_ON_FREELIST + 1
                  THEN [pc |-> "addHead", node |-> prev, then |-> WithHead(call[t].head)]
                  ELSE WithHead(call[t].head))
     /\ UNCHANGED <<initialBlockPoolIndex, created, freeListHead, freeListNext, held>>

(* The list was empty: create<Block>, unless there is no memory or the     *)
(* caller may not allocate.                                                *)
Create(t) ==
  /\ call[t].pc = "create"
  /\ \/ /\ initialBlockPoolSize + created < MaxBlocks
        /\ created' = created + 1
        /\ held' = [held EXCEPT ![t] = @ \union {initialBlockPoolSize + created + 1}]
     \/ UNCHANGED <<created, held>>
  /\ Goto(t, NoCall)
  /\ UNCHANGED <<initialBlockPoolIndex, listVars>>
-----------------------------------------------------------------------------
(* add: the block is put on the list unless other threads still look at    *)
(* it; the last of them will do it.                                        *)
Add(t, b) ==
  /\ call[t].pc = "idle" /\ b \in held[t]
  /\ AddRefs(b, SHOULD_BE_ON_FREELIST)
  /\ held' = [held EXCEPT ![t] = @ \ {b}]
  /\ Goto(t, IF freeListRefs[b] = 0 THEN [pc |-> "addHead", node |-> b, then |-> NoCall] ELSE NoCall)
  /\ UNCHANGED <<initialBlockPoolIndex, created, freeListHead, freeListNext>>

(* add_knowing_refcount_is_zero, step by step.                             *)
AddLoadHead(t) ==
  /\ call[t].pc = "addHead"
  /\ Goto(t, [pc |-> "addNext", node |-> call[t].node, then |-> call[t].then, head |-> freeListHead])
  /\ UNCHANGED <<initialBlockPoolIndex, created, listVars, held>>

AddStoreNext(t) ==
  /\ call[t].pc = "addNext"
  /\ freeListNext' = [freeListNext EXCEPT ![call[t].node] = call[t].head]
  /\ Goto(t, [call[t] EXCEPT !.pc = "addRefs"])
  /\ UNCHANGED <<initialBlockPoolIndex, created, freeListHead, freeListRefs, held>>

AddStoreRefs(t) ==
  /\ call[t].pc = "addRefs"
  /\ freeListRefs' = [freeListRefs EXCEPT ![call[t].node] = 1]
  /\ Goto(t, [call[t] EXCEPT !.pc = "add"])
  /\ UNCHANGED <<initialBlockPoolIndex, created, freeListHead, freeListNext, held>>

AddPush(t) ==
  /\ call[t].pc = "add"
  /\ IF freeListHead = call[t].head
       THEN freeListHead' = call[t].node /\ Goto(t, call[t].then)
       ELSE Goto(t, [call[t] EXCEPT !.pc = "addFlag", !.head = freeListHead]) /\ UNCHANGED freeListHead
  /\ UNCHANGED <<initialBlockPoolIndex, created, freeListRefs, freeListNext, held>>

(* Fault: the thread tries again while others may look at the block.       *)
AddFlagRetry(t) ==
  /\ call[t].pc = "addFlag"
  /\ Goto(t, [call[t] EXCEPT !.pc = "addNext"])
  /\ UNCHANGED <<initialBlockPoolIndex, created, freeListHead, freeListRefs, freeListNext, held>>

(* The head has changed: the thread tries again only if nobody has begun   *)
(* to look at the block, else it leaves that to the last one who does.     *)
AddFlag(t) ==
  /\ call[t].pc = "addFlag"
  /\ AddRefs(call[t].node, SHOULD_BE_ON_FREELIST - 1)
  /\ Goto(t, IF freeListRefs[call[t].node] = 1 THEN [call[t] EXCEPT !.pc = "addNext"] ELSE call[t].then)
  /\ UNCHANGED <<initialBlockPoolIndex, created, freeListHead, freeListNext, held>>
-----------------------------------------------------------------------------
Start(t) == Requisition(t) \/ \E b \in held[t] : Add(t, b)

Step(t) ==
  \/ Initial(t) \/ LoadHead(t) \/ LoadRefs(t) \/ Hold(t) \/ LoadNext(t) \/ Pop(t)
  \/ Got(t) \/ Leave(t) \/ Create(t)
  \/ AddLoadHead(t) \/ AddStoreNext(t) \/ AddStoreRefs(t) \/ AddPush(t) \/ AddFlag(t)

PoolNext == \E t \in Threads : Start(t) \/ Step(t)

(* Some thread that is inside a call goes on: the others may be suspended. *)
PoolSpec == PoolInit /\ [][PoolNext]_poolVars /\ WF_poolVars(\E t \in Threads : Step(t))
-----------------------------------------------------------------------------
(* The blocks on the list, from its head on.                               *)
ListFrom(head, link) ==
  LET at[i \in 0 .. MaxBlocks] ==
        IF i = 0 THEN head ELSE IF at[i - 1] = Null THEN Null ELSE link[at[i - 1]]
  IN at
ListAt == ListFrom(freeListHead, freeListNext)
OnList == {ListAt[n] : n \in 0 .. MaxBlocks} \ {Null}

(* Blocks that requisition_block has given or is about to give to t.       *)
Taken(t) == held[t] \union IF call[t].pc = "got" THEN {call[t].head} ELSE {}

(* No block is given to two sub-queues, and none that is in use is on the  *)
(* list or linked twice into it, by whatever interleaving of try_get, add  *)
(* and the initial pool (the ABA problem of a free list).  A block taken   *)
(* off the list is not flagged to be on it: the assertion of try_get.      *)
NoBlockGivenTwice ==
  /\ ListAt[MaxBlocks] = Null
  /\ \A t \in Threads : Taken(t) \intersect OnList = {}
  /\ \A t, u \in Threads : t # u => Taken(t) \intersect Taken(u) = {}
  /\ \A t \in Threads :
       call[t].pc = "got" => freeListRefs[call[t].head] < SHOULD_BE_ON_FREELIST

(* An add that left the work to another thread is not forgotten: when no   *)
(* call is in progress, every block is in use or on the list, the counts   *)
(* are exact, and the next try_get succeeds unless all are in use.         *)
NoBlockForgotten ==
  LET allocated == {b \in PoolBlocks : b <= initialBlockPoolIndex /\ b <= initialBlockPoolSize}
                   \union initialBlockPoolSize + 1 .. initialBlockPoolSize + created
  IN (\A t \in Threads : call[t] = NoCall) =>
       /\ OnList = allocated \ UNION {held[t] : t \in Threads}
       /\ \A b \in PoolBlocks : freeListRefs[b] = IF b \in OnList THEN 1 ELSE 0

(* The free list is lock-free: however long the other threads are          *)
(* suspended inside a call, calls keep coming to an end while some thread  *)
(* that is inside one runs.                                                *)
LockFree ==
  \/ []<><<\E t \in Threads : call[t] # NoCall /\ call'[t] = NoCall>>_poolVars
  \/ <>[](\A t \in Threads : call[t] = NoCall)
=============================================================================
