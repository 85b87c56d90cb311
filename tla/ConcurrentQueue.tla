---------------------------- MODULE ConcurrentQueue ---------------------------
(***************************************************************************)
(* The concurrent queue as its callers see it: threads and tokens that     *)
(* enqueue into their own sub-queues (module Producers), and consumers     *)
(* that look for elements in all of them, with or without a ConsumerToken. *)
(* try_dequeue_non_interleaved is try_dequeue_bulk with max = 1.           *)
(***************************************************************************)
EXTENDS Producers

CONSTANTS
  Consumers,
  TokenUsers,        \* consumers that have a ConsumerToken
  Maxes,             \* numbers of elements asked for at once
  OffsetModulus,     \* 2^32 of globalExplicitConsumerOffset, scaled down
  EXPLICIT_CONSUMER_CONSUMPTION_QUOTA_BEFORE_ROTATE

ASSUME ConsumersAssumption ==
  /\ TokenUsers \subseteq Consumers
  /\ Maxes \subseteq Nat \ {0}
  /\ OffsetModulus \in Nat \ {0}

VARIABLES
  nextExplicitConsumerId, globalExplicitConsumerOffset,
  consumerToken,   \* of each consumer
  scan             \* dequeue call of each consumer in progress

consumerVars == <<nextExplicitConsumerId, globalExplicitConsumerOffset, consumerToken, scan>>
vars == <<producerVars, consumerVars>>

NoToken == [currentProducer |-> NoProducer]

Init ==
  /\ ProducersInit
  /\ nextExplicitConsumerId = 0 /\ globalExplicitConsumerOffset = 0
  /\ consumerToken = [c \in Consumers |-> NoToken]
  /\ scan = [c \in Consumers |-> Idle]

(* The producers that a walk along the list from p meets: those in every   *)
(* set that has p in it and that no step along the list leaves.            *)
Closed(S) == \A q \in S \ {NoProducer} : next[q] \in S

From(p) ==
  {q \in AllProducers : \A S \in SUBSET (0 .. MaxProducers) : p \in S /\ Closed(S) => q \in S}

Listed == From(producerListTail)

(* What dequeue or dequeue_bulk of a sub-queue may return: it may find the *)
(* sub-queue empty while other consumers have reserved its elements.       *)
Dequeued(c, p, max) ==
  {IF size[p] < max THEN size[p] ELSE max}
    \union IF \E d \in Consumers \ {c} : scan[d] # Idle THEN {0} ELSE {}

Take(p, n) == size' = [size EXCEPT ![p] = @ - n]

Continue(c, s) == scan' = [scan EXCEPT ![c] = s]

(* A call that ends: it has failed if it has found nothing.  unseen are    *)
(* the producers that were in the list when the call began and that it has *)
(* not seen empty.                                                         *)
End(s, unseen) == IF s.count = 0 THEN [pc |-> "failed", unseen |-> unseen] ELSE Idle

UnchangedElse == UNCHANGED <<cast, listVars, hashVars, token, call,
                             nextExplicitConsumerId>>
-----------------------------------------------------------------------------
(* try_dequeue: sub-queues are sized up until three are not empty.         *)
TryDequeue(c) ==
  /\ scan[c].pc = "idle"
  /\ Continue(c, [pc |-> "size", ptr |-> producerListTail, best |-> NoProducer, bestSize |-> 0,
                  nonEmptyCount |-> 0, unseen |-> Listed, count |-> 0, max |-> 1])
  /\ UNCHANGED <<size, globalExplicitConsumerOffset, consumerToken>> /\ UnchangedElse

SizeUp(c) ==
  LET s == scan[c]
  IN /\ s.pc = "size" /\ s.nonEmptyCount < 3 /\ s.ptr # NoProducer
     /\ Continue(c, [s EXCEPT !.ptr = next[s.ptr],
                              !.best = IF size[s.ptr] > s.bestSize THEN s.ptr ELSE @,
                              !.bestSize = IF size[s.ptr] > @ THEN size[s.ptr] ELSE @,
                              !.nonEmptyCount = IF size[s.ptr] > 0 THEN @ + 1 ELSE @,
                              !.unseen = IF size[s.ptr] > 0 THEN @ ELSE @ \ {s.ptr}])
     /\ UNCHANGED <<size, globalExplicitConsumerOffset, consumerToken>> /\ UnchangedElse

SizedUp(c) ==
  LET s == scan[c]
  IN /\ s.pc = "size" /\ (s.nonEmptyCount = 3 \/ s.ptr = NoProducer)
     /\ Continue(c, IF s.nonEmptyCount > 0 THEN [s EXCEPT !.pc = "best"] ELSE End(s, s.unseen))
     /\ UNCHANGED <<size, globalExplicitConsumerOffset, consumerToken>> /\ UnchangedElse

(* The largest one is tried first, then all the others.                    *)
Best(c) ==
  LET s == scan[c]
  IN /\ s.pc = "best"
     /\ \E n \in Dequeued(c, s.best, 1) :
          /\ Take(s.best, n)
          /\ Continue(c, IF n = 1 THEN Idle
                         ELSE [s EXCEPT !.pc = "all", !.ptr = producerListTail, !.unseen = @ \ {s.best}])
     /\ UNCHANGED <<globalExplicitConsumerOffset, consumerToken>> /\ UnchangedElse

TryDequeueBulk(c, max) ==
  /\ scan[c].pc = "idle"
  /\ Continue(c, [pc |-> "all", ptr |-> producerListTail, best |-> NoProducer,
                  unseen |-> Listed, count |-> 0, max |-> max])
  /\ UNCHANGED <<size, globalExplicitConsumerOffset, consumerToken>> /\ UnchangedElse

(* Every sub-queue of the list is tried until max elements are there.      *)
All(c) ==
  LET s == scan[c]
      wanted == IF s.ptr = s.best THEN 0 ELSE s.max - s.count
  IN /\ s.pc = "all" /\ s.ptr # NoProducer
     /\ \E n \in Dequeued(c, s.ptr, wanted) :
          /\ Take(s.ptr, n)
          /\ Continue(c, IF s.count + n = s.max THEN Idle
                         ELSE [s EXCEPT !.ptr = next[s.ptr], !.count = @ + n,
                                        !.unseen = @ \ {s.ptr}])
     /\ UNCHANGED <<globalExplicitConsumerOffset, consumerToken>> /\ UnchangedElse

AllTried(c) ==
  LET s == scan[c]
  IN /\ s.pc = "all" /\ s.ptr = NoProducer
     /\ Continue(c, End(s, s.unseen))
     /\ UNCHANGED <<size, globalExplicitConsumerOffset, consumerToken>> /\ UnchangedElse
-----------------------------------------------------------------------------
(* ConsumerToken: lastKnownGlobalOffset is -1 at first.                    *)
NewConsumerToken(c) ==
  /\ c \in TokenUsers /\ scan[c].pc = "idle" /\ consumerToken[c] = NoToken
  /\ consumerToken' = [consumerToken EXCEPT ![c] =
       [initialOffset |-> nextExplicitConsumerId, lastKnownGlobalOffset |-> OffsetModulus - 1,
        itemsConsumedFromCurrent |-> 0,
        currentProducer |-> NoProducer, desiredProducer |-> NoProducer]]
  /\ nextExplicitConsumerId' = nextExplicitConsumerId + 1
  /\ UNCHANGED <<producerVars, globalExplicitConsumerOffset, scan>>

(* try_dequeue and try_dequeue_bulk with a token.                          *)
TokenDequeue(c, max) ==
  LET t == consumerToken[c]
      rotated == \/ t.desiredProducer = NoProducer
                 \/ t.lastKnownGlobalOffset # globalExplicitConsumerOffset
  IN /\ scan[c].pc = "idle" /\ t # NoToken
     /\ Continue(c, [pc |-> IF rotated THEN "rotate" ELSE "current", tail |-> NoProducer,
                     ptr |-> NoProducer, unseen |-> Listed, count |-> 0, max |-> max])
     /\ UNCHANGED <<size, globalExplicitConsumerOffset, consumerToken>> /\ UnchangedElse

(* update_current_producer_after_rotation: the tail is loaded, then the    *)
(* number of producers and the offset.                                     *)
RotateTail(c) ==
  LET s == scan[c]
  IN /\ s.pc = "rotate"
     /\ Continue(c, IF consumerToken[c].desiredProducer = NoProducer /\ producerListTail = NoProducer
                      THEN End(s, s.unseen)
                      ELSE [s EXCEPT !.pc = "rotateTo", !.tail = producerListTail])
     /\ UNCHANGED <<size, globalExplicitConsumerOffset, consumerToken>> /\ UnchangedElse

(* The producer after p, the tail again after the last one.                *)
After(p, tail) == IF next[p] = NoProducer THEN tail ELSE next[p]

(* n steps along the list from p, and on from its tail at its end.         *)
Walk(p, tail, n) ==
  LET at[i \in 0 .. n] == IF i = 0 THEN p ELSE After(at[i - 1], tail)
  IN at[n]

RotateTo(c) ==
  LET t == consumerToken[c]
      tail == scan[c].tail
      delta == (globalExplicitConsumerOffset - t.lastKnownGlobalOffset) % OffsetModulus
      first == IF t.desiredProducer # NoProducer THEN t.desiredProducer
               ELSE Walk(tail, tail, producerCount - 1 - (t.initialOffset % producerCount))
      desired == Walk(first, tail, IF delta >= producerCount THEN delta % producerCount ELSE delta)
  IN /\ scan[c].pc = "rotateTo"
     /\ consumerToken' = [consumerToken EXCEPT ![c] =
          [t EXCEPT !.desiredProducer = desired, !.currentProducer = desired,
                    !.lastKnownGlobalOffset = globalExplicitConsumerOffset,
                    !.itemsConsumedFromCurrent = 0]]
     /\ Continue(c, [scan[c] EXCEPT !.pc = "current"])
     /\ UNCHANGED <<size, globalExplicitConsumerOffset>> /\ UnchangedElse

(* The quota of a rotation is met exactly by a call for one element, or    *)
(* reached by a call for several.                                          *)
QuotaReached(items, max) ==
  IF max = 1 THEN items = EXPLICIT_CONSUMER_CONSUMPTION_QUOTA_BEFORE_ROTATE
  ELSE items >= EXPLICIT_CONSUMER_CONSUMPTION_QUOTA_BEFORE_ROTATE

(* itemsConsumedFromCurrent plus n; past the quota its value no longer     *)
(* matters, as calls for one element compare it for equality.              *)
Consumed(c, n) ==
  LET items == consumerToken[c].itemsConsumedFromCurrent + n
      most == EXPLICIT_CONSUMER_CONSUMPTION_QUOTA_BEFORE_ROTATE + 1
  IN IF items < most THEN items ELSE most

(* The current producer of the token is tried first.                       *)
Current(c) ==
  LET s == scan[c]
      p == consumerToken[c].currentProducer
  IN /\ s.pc = "current"
     /\ \E n \in Dequeued(c, p, s.max) :
          LET items == Consumed(c, n)
          IN /\ Take(p, n)
             /\ consumerToken' = [consumerToken EXCEPT ![c].itemsConsumedFromCurrent = items]
             /\ globalExplicitConsumerOffset' =
                  IF n = s.max /\ QuotaReached(items, s.max)
                    THEN (globalExplicitConsumerOffset + 1) % OffsetModulus
                    ELSE globalExplicitConsumerOffset
             /\ Continue(c, IF n = s.max THEN Idle
                            ELSE [s EXCEPT !.pc = "around", !.count = n, !.max = @ - n,
                                           !.unseen = @ \ {p}])
     /\ UnchangedElse

(* Then the others, in a circle from the current producer.                 *)
Around(c) ==
  /\ scan[c].pc = "around"
  /\ Continue(c, [scan[c] EXCEPT !.pc = "ring", !.tail = producerListTail,
                    !.ptr = After(consumerToken[c].currentProducer, producerListTail)])
  /\ UNCHANGED <<size, globalExplicitConsumerOffset, consumerToken>> /\ UnchangedElse

(* Fault: the circle is not closed at the end of the list.                 *)
RingToEnd(c) ==
  LET s == scan[c]
  IN /\ s.pc = "ring" /\ s.ptr # consumerToken[c].currentProducer
     /\ \E n \in Dequeued(c, s.ptr, s.max) :
          /\ Take(s.ptr, n)
          /\ consumerToken' = IF n = 0 THEN consumerToken
                              ELSE [consumerToken EXCEPT ![c].currentProducer = s.ptr,
                                                         ![c].itemsConsumedFromCurrent = n]
          /\ Continue(c, IF n = s.max THEN Idle
                         ELSE IF next[s.ptr] = NoProducer
                           THEN End([s EXCEPT !.count = @ + n], s.unseen \ {s.ptr})
                         ELSE [s EXCEPT !.ptr = next[s.ptr], !.count = @ + n,
                                        !.max = @ - n, !.unseen = @ \ {s.ptr}])
     /\ UNCHANGED globalExplicitConsumerOffset /\ UnchangedElse

Ring(c) ==
  LET s == scan[c]
  IN /\ s.pc = "ring" /\ s.ptr # consumerToken[c].currentProducer
     /\ \E n \in Dequeued(c, s.ptr, s.max) :
          /\ Take(s.ptr, n)
          /\ consumerToken' = IF n = 0 THEN consumerToken
                              ELSE [consumerToken EXCEPT ![c].currentProducer = s.ptr,
                                                         ![c].itemsConsumedFromCurrent = n]
          /\ Continue(c, IF n = s.max THEN Idle
                         ELSE [s EXCEPT !.ptr = After(s.ptr, s.tail), !.count = @ + n,
                                        !.max = @ - n, !.unseen = @ \ {s.ptr}])
     /\ UNCHANGED globalExplicitConsumerOffset /\ UnchangedElse

RingTried(c) ==
  LET s == scan[c]
  IN /\ s.pc = "ring" /\ s.ptr = consumerToken[c].currentProducer
     /\ Continue(c, End(s, s.unseen))
     /\ UNCHANGED <<size, globalExplicitConsumerOffset, consumerToken>> /\ UnchangedElse

(* false, or 0, is returned.                                               *)
Fail(c) ==
  /\ scan[c].pc = "failed"
  /\ Continue(c, Idle)
  /\ UNCHANGED <<size, globalExplicitConsumerOffset, consumerToken>> /\ UnchangedElse
-----------------------------------------------------------------------------
ConsumerSteps(c) ==
  \/ SizeUp(c) \/ SizedUp(c) \/ Best(c) \/ All(c) \/ AllTried(c)
  \/ RotateTail(c) \/ RotateTo(c) \/ Current(c) \/ Around(c) \/ Ring(c) \/ RingTried(c)
  \/ Fail(c)

Consume(c) ==
  \/ TryDequeue(c) \/ NewConsumerToken(c)
  \/ \E max \in Maxes : TryDequeueBulk(c, max) \/ TokenDequeue(c, max)
  \/ ConsumerSteps(c)

Next ==
  \/ Produce /\ UNCHANGED consumerVars
  \/ \E c \in Consumers \intersect cast : Consume(c)

(* A thread that is inside a call goes on.                                 *)
Fairness ==
  /\ \A t \in Threads : WF_vars(t \in cast /\ ThreadSteps(t) /\ UNCHANGED consumerVars)
  /\ \A k \in Tokens : WF_vars(k \in cast /\ TokenSteps(k) /\ UNCHANGED consumerVars)
  /\ \A c \in Consumers : WF_vars(c \in cast /\ ConsumerSteps(c))

Spec == Init /\ [][Next]_vars /\ Fairness
-----------------------------------------------------------------------------
(* Producers that a thread or a token has, or is about to be given.        *)
OwnedBy(a) ==
  IF call[a].pc = "made" \/ call[a].pc = "link" \/ call[a].pc = "push" THEN {call[a].ptr}
  ELSE IF a \in Tokens THEN {token[a]} \ {NoProducer}
  ELSE {hashes[h].entries[a] : h \in {g \in DOMAIN hashes : a \in DOMAIN hashes[g].entries}}

(* A sub-queue has one producer at a time, and of the right kind: enqueue  *)
(* does not lock.  A thread has the same producer in every hash table, and *)
(* the token that recycles a producer is the only one to get it.           *)
OneOwner ==
  LET actors == Threads \union Tokens
  IN /\ \A a \in actors : Cardinality(OwnedBy(a)) <= 1
     /\ \A a \in actors : \A p \in OwnedBy(a) : isExplicit[p] = (a \in Tokens) /\ ~inactive[p]
     /\ \A a, b \in actors : a # b => OwnedBy(a) \intersect OwnedBy(b) = {}

(* Every hash table is less than three quarters full, so that no probe     *)
(* goes round for ever, although threads add their keys to a table that    *)
(* another thread has replaced since they looked at it.                    *)
FreeSlotInHash ==
  \A h \in DOMAIN hashes :
    Cardinality(DOMAIN hashes[h].entries) < hashes[h].capacity \div 2 + hashes[h].capacity \div 4

(* Producers that are counted and not yet in the list.                     *)
Linking == {call[a].ptr : a \in {b \in Threads \union Tokens : call[b].pc \in {"link", "push"}}}

(* No producer is lost when several are added at once, and producerCount   *)
(* is never behind the list: a rotation divides by it after it has seen    *)
(* the list not empty.                                                     *)
ListComplete ==
  /\ Listed = (1 .. created) \ Linking
  /\ Cardinality(Listed) <= producerCount

(* A dequeue fails only after it has seen every sub-queue empty that was   *)
(* in the list when it began: "all producer streams appeared empty at the  *)
(* time they were checked".                                                *)
FailsOnlyIfAllEmpty ==
  \A c \in Consumers : scan[c].pc = "failed" => scan[c].unseen = {}

(* Calls keep coming to an end while every thread that is inside one runs: *)
(* a thread that waits for a larger hash table gets one or allocates one   *)
(* itself, also when the thread that was to allocate it had no memory, and *)
(* a scan around the list ends while producers are added to it.            *)
CallsEnd ==
  \/ []<><<\/ \E a \in Threads \union Tokens : call[a] # Idle /\ call'[a] = Idle
          \/ \E c \in Consumers : scan[c] # Idle /\ scan'[c] = Idle>>_vars
  \/ <>[](/\ \A a \in Threads \union Tokens : call[a] = Idle
          /\ \A c \in Consumers : scan[c] = Idle)
=============================================================================
