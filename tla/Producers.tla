------------------------------- MODULE Producers ------------------------------
(***************************************************************************)
(* Where the sub-queues of the concurrent queue come from                  *)
(* (c++/server/concurrentqueue.h): the lock-free list of producers, the    *)
(* hash tables that give a thread its implicit producer, and the tokens    *)
(* that own an explicit one.  A token is used by one thread at a time, so  *)
(* it is an actor of its own.                                              *)
(*                                                                         *)
(* The key of a thread is read and written by that thread only; a hash     *)
(* table is therefore a map from threads to producers with a capacity, and *)
(* a probe of the table is one step.  Every other access to an atomic that *)
(* others may change is a step.  The elements of a sub-queue are counted:  *)
(* SubQueue models them.  Threads do not leave: without                    *)
(* MOODYCAMEL_CPP11_THREAD_LOCAL_SUPPORTED their producers stay theirs.    *)
(***************************************************************************)
EXTENDS Naturals, Sequences, FiniteSets, FiniteSetsExt

CONSTANTS
  Threads,        \* threads that enqueue without a token
  Tokens,         \* producer tokens
  Casts,          \* what runs together: actors, and producers made before
  MaxProducers,   \* producers there is memory for
  MaxElements,    \* elements in the queue at a time
  INITIAL_IMPLICIT_PRODUCER_HASH_SIZE

ASSUME ProducersAssumption ==
  /\ Threads \intersect Tokens = {} /\ IsFiniteSet(Threads)
  /\ MaxProducers \in Nat /\ MaxElements \in Nat
  /\ \A old \in Casts : old.made \in 0 .. MaxProducers
  /\ INITIAL_IMPLICIT_PRODUCER_HASH_SIZE \in Nat \ {0, 1}

VARIABLES
  cast,
  producerListTail, producerCount,
  next, isExplicit, inactive,    \* of each producer
  created,                       \* number of producers created
  hashes,                        \* the hash tables; the last is implicitProducerHash
  implicitProducerHashCount,
  implicitProducerHashResizeInProgress,
  token,                         \* producer of each token
  size,                          \* number of elements of each sub-queue
  call                           \* call of each thread or token in progress

listVars == <<producerListTail, producerCount, next, isExplicit, inactive, created>>
hashVars == <<hashes, implicitProducerHashCount, implicitProducerHashResizeInProgress>>
producerVars == <<cast, listVars, hashVars, token, size, call>>

AllProducers == 1 .. MaxProducers
NoProducer == 0
Idle == [pc |-> "idle"]

Elements == MapThenSumSet(LAMBDA p : size[p], AllProducers)

(* The queue may have been used before: some explicit producers, whose     *)
(* tokens have been destroyed, are in the list and may hold elements.      *)
ProducersInit ==
  \E old \in Casts :
    LET made == 1 .. old.made
    IN /\ cast = old.actors
       /\ producerListTail = old.made /\ producerCount = old.made /\ created = old.made
       /\ next = [p \in AllProducers |-> IF p \in made THEN p - 1 ELSE NoProducer]
       /\ isExplicit = [p \in AllProducers |-> p \in made]
       /\ inactive = [p \in AllProducers |-> p \in made]
       /\ hashes = << [capacity |-> INITIAL_IMPLICIT_PRODUCER_HASH_SIZE, entries |-> <<>>] >>
       /\ implicitProducerHashCount = 0
       /\ implicitProducerHashResizeInProgress = FALSE
       /\ token = [k \in Tokens |-> NoProducer]
       /\ size \in [AllProducers -> 0 .. MaxElements]
       /\ Elements <= MaxElements /\ \A p \in AllProducers \ made : size[p] = 0
       /\ call = [a \in Threads \union Tokens |-> Idle]

Goto(a, c) == call' = [call EXCEPT ![a] = c]
With(a, pc) == [call[a] EXCEPT !.pc = pc]
-----------------------------------------------------------------------------
(* recycle_or_create_producer: the list is searched for an inactive        *)
(* producer of the same kind.                                              *)
Search(main, newCount) == [pc |-> "visit", main |-> main, newCount |-> newCount,
                           ptr |-> producerListTail, recycled |-> FALSE]

Visit(a) ==
  LET p == call[a].ptr
  IN /\ call[a].pc = "visit"
     /\ Goto(a, IF p = NoProducer THEN With(a, "create")
                ELSE IF inactive[p] /\ isExplicit[p] = (a \in Tokens) THEN With(a, "recycle")
                ELSE [call[a] EXCEPT !.ptr = next[p]])
     /\ UNCHANGED <<cast, listVars, hashVars, token, size>>

(* Fault: the producer is taken although another token may have been       *)
(* faster.                                                                 *)
RecycleBlind(a) ==
  LET p == call[a].ptr
  IN /\ call[a].pc = "recycle"
     /\ inactive' = [inactive EXCEPT ![p] = FALSE]
     /\ Goto(a, [call[a] EXCEPT !.pc = "made", !.recycled = TRUE])
     /\ UNCHANGED <<cast, producerListTail, producerCount, next, isExplicit, created, hashVars, token, size>>

(* compare_exchange of inactive: another token may have been faster.       *)
Recycle(a) ==
  LET p == call[a].ptr
  IN /\ call[a].pc = "recycle"
     /\ inactive' = [inactive EXCEPT ![p] = FALSE]
     /\ Goto(a, IF inactive[p] THEN [call[a] EXCEPT !.pc = "made", !.recycled = TRUE]
                ELSE [call[a] EXCEPT !.pc = "visit", !.ptr = next[p]])
     /\ UNCHANGED <<cast, producerListTail, producerCount, next, isExplicit, created, hashVars, token, size>>

(* A new producer, unless there is no memory; add_producer counts it       *)
(* before it is in the list.                                               *)
Create(a) ==
  /\ call[a].pc = "create"
  /\ \/ /\ created < MaxProducers
        /\ created' = created + 1
        /\ isExplicit' = [isExplicit EXCEPT ![created + 1] = (a \in Tokens)]
        /\ producerCount' = producerCount + 1
        /\ Goto(a, [call[a] EXCEPT !.pc = "link", !.ptr = created + 1])
     \/ /\ Goto(a, With(a, "none"))
        /\ UNCHANGED <<created, isExplicit, producerCount>>
  /\ UNCHANGED <<cast, producerListTail, next, inactive, hashVars, token, size>>

LinkNext(a) ==
  /\ call[a].pc = "link"
  /\ next' = [next EXCEPT ![call[a].ptr] = producerListTail]
  /\ Goto(a, With(a, "push"))
  /\ UNCHANGED <<cast, producerListTail, producerCount, isExplicit, inactive, created, hashVars, token, size>>

(* Fault: the tail is stored without a look at it.                         *)
PushBlind(a) ==
  LET p == call[a].ptr
  IN /\ call[a].pc = "push"
     /\ producerListTail' = p /\ Goto(a, With(a, "made")) /\ UNCHANGED next
     /\ UNCHANGED <<cast, producerCount, isExplicit, inactive, created, hashVars, token, size>>

(* compare_exchange of producerListTail, again if another one came first.  *)
Push(a) ==
  LET p == call[a].ptr
  IN /\ call[a].pc = "push"
     /\ IF producerListTail = next[p]
          THEN producerListTail' = p /\ Goto(a, With(a, "made")) /\ UNCHANGED next
          ELSE next' = [next EXCEPT ![p] = producerListTail] /\ UNCHANGED <<producerListTail, call>>
     /\ UNCHANGED <<cast, producerCount, isExplicit, inactive, created, hashVars, token, size>>

(* Recycle is a step of tokens only: no thread leaves its producer.        *)
ProducerSteps(a) == Visit(a) \/ Create(a) \/ LinkNext(a) \/ Push(a)
-----------------------------------------------------------------------------
(* enqueue without a token: get_or_add_implicit_producer.                  *)
Capacity(t) == hashes[call[t].main].capacity
Known(t) == {h \in 1 .. call[t].main : t \in DOMAIN hashes[h].entries}

AddKey(h, t, p) ==
  hashes' = [hashes EXCEPT ![h].entries =
               [u \in DOMAIN @ \union {t} |-> IF u = t THEN p ELSE @[u]]]

Enqueue(t) ==
  /\ call[t].pc = "idle"
  /\ Goto(t, [pc |-> "lookUp", main |-> Len(hashes)])
  /\ UNCHANGED <<cast, listVars, hashVars, token, size>>

(* The thread's key is in one of the tables: it is added to the table that *)
(* was the main one.  If not, the thread is counted.                       *)
LookUp(t) ==
  /\ call[t].pc = "lookUp"
  /\ \/ \E h \in Known(t) :
          /\ \A g \in Known(t) : g <= h
          /\ AddKey(call[t].main, t, hashes[h].entries[t])
          /\ Goto(t, [pc |-> "enqueue", producer |-> hashes[h].entries[t]])
          /\ UNCHANGED implicitProducerHashCount
     \/ /\ Known(t) = {}
        /\ implicitProducerHashCount' = implicitProducerHashCount + 1
        /\ Goto(t, [pc |-> "grow", main |-> call[t].main, newCount |-> implicitProducerHashCount + 1])
        /\ UNCHANGED hashes
  /\ UNCHANGED <<cast, listVars, implicitProducerHashResizeInProgress, token, size>>

(* A table that is half full is to be replaced, by one thread at a time.   *)
Grow(t) ==
  LET mine == call[t].newCount >= Capacity(t) \div 2 /\ ~implicitProducerHashResizeInProgress
  IN /\ call[t].pc = "grow"
     /\ implicitProducerHashResizeInProgress' = (mine \/ implicitProducerHashResizeInProgress)
     /\ Goto(t, With(t, IF mine THEN "resize" ELSE "room"))
     /\ UNCHANGED <<cast, listVars, hashes, implicitProducerHashCount, token, size>>

(* The capacity is doubled until less than half of it is counted: the set  *)
(* of that one capacity.  It is at most four times the count, unless one   *)
(* doubling is enough.                                                     *)
NewCapacity(capacity, newCount) ==
  LET big == {c \in 2 * capacity .. 2 * capacity + 4 * newCount :
                newCount < c \div 2 /\ \E n \in 1 .. newCount + 1 : c = capacity * 2^n}
  IN {c \in big : \A d \in big : c <= d}

(* Fault: the resize lock is kept when there is no memory.                 *)
ResizeKeepingLock(t) ==
  LET current == hashes[Len(hashes)].capacity
      newCount == call[t].newCount
  IN /\ call[t].pc = "resize"
     /\ \/ /\ newCount >= current \div 2
           /\ \E c \in NewCapacity(current, newCount) :
                hashes' = Append(hashes, [capacity |-> c, entries |-> <<>>])
           /\ implicitProducerHashResizeInProgress' = FALSE
           /\ Goto(t, [call[t] EXCEPT !.pc = "room", !.main = Len(hashes) + 1])
           /\ UNCHANGED implicitProducerHashCount
        \/ /\ newCount >= current \div 2
           /\ implicitProducerHashCount' = implicitProducerHashCount - 1
           /\ Goto(t, Idle)
           /\ UNCHANGED <<hashes, implicitProducerHashResizeInProgress>>
        \/ /\ newCount < current \div 2
           /\ implicitProducerHashResizeInProgress' = FALSE
           /\ Goto(t, [call[t] EXCEPT !.pc = "room", !.main = Len(hashes)])
           /\ UNCHANGED <<hashes, implicitProducerHashCount>>
     /\ UNCHANGED <<cast, listVars, token, size>>

(* With the resize lock: a new table, no memory for one, or another thread *)
(* has already replaced the table.                                         *)
Resize(t) ==
  LET current == hashes[Len(hashes)].capacity
      newCount == call[t].newCount
  IN /\ call[t].pc = "resize"
     /\ \/ /\ newCount >= current \div 2
           /\ \E c \in NewCapacity(current, newCount) :
                hashes' = Append(hashes, [capacity |-> c, entries |-> <<>>])
           /\ Goto(t, [call[t] EXCEPT !.pc = "room", !.main = Len(hashes) + 1])
           /\ UNCHANGED implicitProducerHashCount
        \/ /\ newCount >= current \div 2
           /\ implicitProducerHashCount' = implicitProducerHashCount - 1
           /\ Goto(t, Idle)
           /\ UNCHANGED hashes
        \/ /\ newCount < current \div 2
           /\ Goto(t, [call[t] EXCEPT !.pc = "room", !.main = Len(hashes)])
           /\ UNCHANGED <<hashes, implicitProducerHashCount>>
     /\ implicitProducerHashResizeInProgress' = FALSE
     /\ UNCHANGED <<cast, listVars, token, size>>

(* Fault: the thread adds its key to the table however full it is.         *)
RoomAlways(t) ==
  /\ call[t].pc = "room"
  /\ Goto(t, Search(call[t].main, call[t].newCount))
  /\ UNCHANGED <<cast, listVars, hashVars, token, size>>

(* There is room while the table is less than three quarters full; else    *)
(* the thread waits for the one that is allocating a table.                *)
Room(t) ==
  /\ call[t].pc = "room"
  /\ Goto(t, IF call[t].newCount < Capacity(t) \div 2 + Capacity(t) \div 4
               THEN Search(call[t].main, call[t].newCount)
               ELSE [call[t] EXCEPT !.pc = "grow", !.main = Len(hashes)])
  /\ UNCHANGED <<cast, listVars, hashVars, token, size>>

(* The thread has its producer, or there is no memory for one.             *)
Insert(t) ==
  /\ call[t].pc = "made"
  /\ implicitProducerHashCount' = implicitProducerHashCount - IF call[t].recycled THEN 1 ELSE 0
  /\ AddKey(call[t].main, t, call[t].ptr)
  /\ Goto(t, [pc |-> "enqueue", producer |-> call[t].ptr])
  /\ UNCHANGED <<cast, listVars, implicitProducerHashResizeInProgress, token, size>>

NotMade(t) ==
  /\ call[t].pc = "none"
  /\ implicitProducerHashCount' = implicitProducerHashCount - 1
  /\ Goto(t, Idle)
  /\ UNCHANGED <<cast, listVars, hashes, implicitProducerHashResizeInProgress, token, size>>

(* The producer's own enqueue, which fails if there is no memory.          *)
Put(a) ==
  /\ call[a].pc = "enqueue"
  /\ \/ /\ Elements < MaxElements
        /\ size' = [size EXCEPT ![call[a].producer] = @ + 1]
     \/ UNCHANGED size
  /\ Goto(a, Idle)
  /\ UNCHANGED <<cast, listVars, hashVars, token>>

ThreadSteps(t) ==
  \/ LookUp(t) \/ Grow(t) \/ Resize(t) \/ Room(t) \/ ProducerSteps(t)
  \/ Insert(t) \/ NotMade(t) \/ Put(t)
-----------------------------------------------------------------------------
(* A ProducerToken is constructed, used, and destroyed.                    *)
Construct(k) ==
  /\ call[k].pc = "idle" /\ token[k] = NoProducer
  /\ Goto(k, Search(0, 0))
  /\ UNCHANGED <<cast, listVars, hashVars, token, size>>

Constructed(k) ==
  /\ call[k].pc \in {"made", "none"}
  /\ token' = [token EXCEPT ![k] = IF call[k].pc = "made" THEN call[k].ptr ELSE NoProducer]
  /\ Goto(k, Idle)
  /\ UNCHANGED <<cast, listVars, hashVars, size>>

TokenEnqueue(k) ==
  /\ call[k].pc = "idle" /\ token[k] # NoProducer
  /\ Goto(k, [pc |-> "enqueue", producer |-> token[k]])
  /\ UNCHANGED <<cast, listVars, hashVars, token, size>>

Destroy(k) ==
  /\ call[k].pc = "idle" /\ token[k] # NoProducer
  /\ inactive' = [inactive EXCEPT ![token[k]] = TRUE]
  /\ token' = [token EXCEPT ![k] = NoProducer]
  /\ UNCHANGED <<cast, producerListTail, producerCount, next, isExplicit, created, hashVars, size, call>>

(* ProducerToken::swap, with which moves and assignments are made.         *)
Swap(k, l) ==
  /\ call[k].pc = "idle" /\ call[l].pc = "idle" /\ token[k] # token[l]
  /\ token' = [token EXCEPT ![k] = token[l], ![l] = token[k]]
  /\ UNCHANGED <<cast, listVars, hashVars, size, call>>

TokenSteps(k) == ProducerSteps(k) \/ Recycle(k) \/ Constructed(k) \/ Put(k)

Produce ==
  \/ \E t \in Threads \intersect cast : Enqueue(t) \/ ThreadSteps(t)
  \/ \E k \in Tokens \intersect cast :
       \/ Construct(k) \/ TokenSteps(k) \/ TokenEnqueue(k) \/ Destroy(k)
       \/ \E l \in (Tokens \intersect cast) \ {k} : Swap(k, l)
=============================================================================
