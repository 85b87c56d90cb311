---------------------------- MODULE SubQueueProofs ----------------------------
(***************************************************************************)
(* What a sub-queue and the pool of blocks guarantee for any number of     *)
(* threads, elements and blocks.                                           *)
(*                                                                         *)
(* The reservations of the consumers: a consumer adds what it wants to one *)
(* counter, looks how much of it exists, and adds the rest to another one; *)
(* in between the counters are out of step with the queue.  ReserveInv     *)
(* says by how much, and bounds what all the consumers can still claim.    *)
(* It speaks of each value x that tailIndex may reach: the consumers look  *)
(* at tailIndex after they have reserved, when it may have grown.          *)
(*                                                                         *)
(* The block index of an implicit producer: ImplicitInv, of the module     *)
(* ImplicitIndex.  From it follows that each block has one owner and that  *)
(* the sub-queue is a FIFO queue.                                          *)
(*                                                                         *)
(* The free list of the pool: it has no lock, and the only thing that      *)
(* keeps a block from being given twice is its reference count.  PoolInv   *)
(* says what the count is worth in each of the places where a block can    *)
(* be: it is the number of threads that look at the block, plus one while  *)
(* the list or the thread that links or takes it has a reference of its    *)
(* own, plus the flag while the block waits for someone to put it on the   *)
(* list.                                                                   *)
(***************************************************************************)
EXTENDS ImplicitIndex, BlockPool, FiniteSetTheorems, FunctionTheorems, WellFoundedInduction, TLAPS

(* The part of what consumer k has reserved that it gets for sure once     *)
(* tailIndex has reached x.                                                *)
Clip(v, n) == IF v <= 0 THEN 0 ELSE IF v < n THEN v ELSE n
Sure(k, x) ==
  CASE k.pc = "check" -> Clip(x - k.mine, k.desired)
    [] k.pc = "giveBack" -> k.actual
    [] k.pc = "claim" -> k.actual
    [] OTHER -> 0
AllSure(x) == Total([c \in Consumers |-> Sure(consumer[c], x)])

(* The fields of a consumer that reserves elements; over is what has been  *)
(* given back.                                                             *)
ConsumerOK(k, over) ==
  /\ "pc" \in DOMAIN k
  /\ k.pc \in {"overcommit", "desire"} => k.tail \in Nat /\ k.max \in Nat \ {0}
  /\ k.pc \in {"desire", "reserve"} => k.overcommit \in 0 .. over
  /\ k.pc \in {"reserve", "check"} => k.desired \in Nat \ {0}
  /\ k.pc = "check" => k.mine \in Int
  /\ k.pc \in {"giveBack", "claim"} => k.actual \in Nat
  /\ k.pc = "giveBack" => k.excess \in Nat

ProducerOK(p) ==
  /\ "pc" \in DOMAIN p
  /\ p.pc # "idle" => "count" \in DOMAIN p /\ p.count \in Nat

CountersOK ==
  /\ tailIndex \in Nat /\ headIndex \in Nat
  /\ dequeueOptimisticCount \in Nat /\ dequeueOvercommit \in Nat
  /\ ProducerOK(producer)
  /\ DOMAIN consumer = Consumers
  /\ \A c \in Consumers : ConsumerOK(consumer[c], dequeueOvercommit)

(* However far the producer comes, the consumers claim no element beyond.  *)
NoneBeyond == \A x \in Nat : x >= tailIndex => headIndex + AllSure(x) <= x

Balanced == dequeueOptimisticCount - dequeueOvercommit = headIndex + AllReserved

ReserveInv == CountersOK /\ Balanced /\ NoneBeyond
-----------------------------------------------------------------------------
(* The pairs of some of the arguments of f.                                *)
Columns(f, T) == UNION {{x} \X (1 .. f[x]) : x \in T}

(* The pairs of one x: there are f[x] of them.                             *)
LEMMA OneColumn ==
  ASSUME NEW x, NEW n \in Nat
  PROVE  IsFiniteSet({x} \X (1 .. n)) /\ Cardinality({x} \X (1 .. n)) = n
<1>1. PICK X : X = {x}
  OBVIOUS
<1>2. PICK I : I = 1 .. n
  OBVIOUS
<1>3. IsFiniteSet(X) /\ Cardinality(X) = 1
  BY <1>1, FS_Singleton
<1>4. IsFiniteSet(I) /\ Cardinality(I) = n
  <2>1. IsFiniteSet(1 .. n) /\ Cardinality(1 .. n) = IF 1 > n THEN 0 ELSE n - 1 + 1
    BY FS_Interval
  <2> QED BY <1>2, <2>1
<1>5. IsFiniteSet(X \X I) /\ Cardinality(X \X I) = 1 * n
  BY <1>3, <1>4, FS_Product
<1> QED BY <1>1, <1>2, <1>5

(* Finitely many columns are finite.                                       *)
LEMMA ColumnsFinite ==
  ASSUME NEW S, IsFiniteSet(S), NEW f \in [S -> Nat]
  PROVE  IsFiniteSet(Columns(f, S)) /\ Cardinality(Columns(f, S)) \in Nat
<1>1. PICK g : g = [x \in S |-> {x} \X (1 .. f[x])]
  OBVIOUS
<1>2. PICK T : T = {{x} \X (1 .. f[x]) : x \in S}
  OBVIOUS
<1>3. g \in Surjection(S, T)
  BY <1>1, <1>2 DEF Surjection
<1>4. IsFiniteSet(T)
  BY <1>3, FS_Surjection
<1>5. ASSUME NEW C \in T PROVE IsFiniteSet(C)
  <2>1. PICK x \in S : C = {x} \X (1 .. f[x])
    BY <1>2
  <2>2. f[x] \in Nat
    OBVIOUS
  <2> QED BY <2>1, <2>2, OneColumn
<1>6. IsFiniteSet(UNION T)
  BY <1>4, <1>5, FS_UNION
<1>7. IsFiniteSet(Columns(f, S))
  BY <1>2, <1>6 DEF Columns
<1> QED BY <1>7, FS_CardinalityType

(* A sum splits into one term and the rest.                                *)
LEMMA TotalSplits ==
  ASSUME NEW S, IsFiniteSet(S), NEW f \in [S -> Nat], NEW x \in S
  PROVE  /\ Cardinality(Columns(f, S \ {x})) \in Nat
         /\ Total(f) = Cardinality(Columns(f, S \ {x})) + f[x]
<1>1. PICK R : R = Columns(f, S \ {x})
  OBVIOUS
<1>2. PICK C : C = {x} \X (1 .. f[x])
  OBVIOUS
<1>3. IsFiniteSet(C) /\ Cardinality(C) = f[x] /\ f[x] \in Nat
  BY <1>2, OneColumn
<1>4. IsFiniteSet(R) /\ Cardinality(R) \in Nat
  <2>1. IsFiniteSet(Columns(f, S))
    BY ColumnsFinite
  <2>2. R \in SUBSET Columns(f, S)
    BY <1>1 DEF Columns
  <2> QED BY <2>1, <2>2, FS_Subset, FS_CardinalityType
<1>5. Pairs(f) = R \union C
  BY <1>1, <1>2 DEF Columns, Pairs
<1>6. R \intersect C = {}
  BY <1>1, <1>2 DEF Columns
<1>7. Cardinality(R \union C) = Cardinality(R) + Cardinality(C) - Cardinality(R \intersect C)
  BY <1>3, <1>4, FS_Union
<1>8. Cardinality(R \intersect C) = 0
  BY <1>6, FS_EmptySet
<1> QED BY <1>1, <1>3, <1>4, <1>5, <1>7, <1>8 DEF Total

(* Changing one term changes the sum by as much.                           *)
LEMMA TotalStep ==
  ASSUME NEW S, IsFiniteSet(S), NEW f \in [S -> Nat], NEW g \in [S -> Nat], NEW x \in S,
         \A y \in S \ {x} : g[y] = f[y]
  PROVE  Total(f) \in Nat /\ Total(g) \in Nat /\ f[x] <= Total(f) /\ Total(g) = Total(f) - f[x] + g[x]
<1>1. Columns(g, S \ {x}) = Columns(f, S \ {x})
  BY DEF Columns
<1>2. /\ Cardinality(Columns(f, S \ {x})) \in Nat
      /\ Total(f) = Cardinality(Columns(f, S \ {x})) + f[x]
  BY TotalSplits
<1>3. Total(g) = Cardinality(Columns(g, S \ {x})) + g[x]
  BY TotalSplits
<1>4. f[x] \in Nat /\ g[x] \in Nat
  OBVIOUS
<1> QED BY <1>1, <1>2, <1>3, <1>4

(* A sum of smaller terms is smaller.                                      *)
LEMMA TotalLess ==
  ASSUME NEW S, IsFiniteSet(S), NEW f \in [S -> Nat], NEW g \in [S -> Nat],
         \A y \in S : f[y] <= g[y]
  PROVE  Total(f) \in Nat /\ Total(g) \in Nat /\ Total(f) <= Total(g)
<1>1. Pairs(f) = Columns(f, S) /\ Pairs(g) = Columns(g, S)
  BY DEF Pairs, Columns
<1>2. \A y \in S : 1 .. f[y] \subseteq 1 .. g[y]
  <2> SUFFICES ASSUME NEW y \in S PROVE 1 .. f[y] \subseteq 1 .. g[y]
    OBVIOUS
  <2>1. f[y] \in Nat /\ g[y] \in Nat /\ f[y] <= g[y]
    OBVIOUS
  <2> QED BY <2>1
<1>3. Columns(f, S) \in SUBSET Columns(g, S)
  BY <1>2 DEF Columns
<1>4. /\ IsFiniteSet(Columns(g, S)) /\ Cardinality(Columns(g, S)) \in Nat
      /\ Cardinality(Columns(f, S)) \in Nat
  BY ColumnsFinite
<1>5. Cardinality(Columns(f, S)) <= Cardinality(Columns(g, S))
  BY <1>3, <1>4, FS_Subset
<1> QED BY <1>1, <1>4, <1>5 DEF Total
-----------------------------------------------------------------------------
(* What a consumer gets for sure is part of what it has reserved.          *)
LEMMA SureIsReserved ==
  ASSUME NEW k, NEW n \in Nat, ConsumerOK(k, n), NEW x \in Nat
  PROVE  Reserved(k) \in Nat /\ Sure(k, x) \in Nat /\ Sure(k, x) <= Reserved(k)
<1>1. CASE k.pc = "check"
  <2>1. Reserved(k) = k.desired /\ Sure(k, x) = Clip(x - k.mine, k.desired)
    BY <1>1 DEF Reserved, Sure
  <2>2. k.desired \in Nat \ {0} /\ k.mine \in Int
    BY <1>1 DEF ConsumerOK
  <2> QED BY <2>1, <2>2 DEF Clip
<1>2. CASE k.pc = "giveBack"
  <2>1. Reserved(k) = k.actual + k.excess /\ Sure(k, x) = k.actual
    BY <1>2 DEF Reserved, Sure
  <2>2. k.actual \in Nat /\ k.excess \in Nat
    BY <1>2 DEF ConsumerOK
  <2> QED BY <2>1, <2>2
<1>3. CASE k.pc = "claim"
  <2>1. Reserved(k) = k.actual /\ Sure(k, x) = k.actual
    BY <1>3 DEF Reserved, Sure
  <2>2. k.actual \in Nat
    BY <1>3 DEF ConsumerOK
  <2> QED BY <2>1, <2>2
<1>4. CASE k.pc \notin {"check", "giveBack", "claim"}
  <2>1. Reserved(k) = 0 /\ Sure(k, x) = 0
    BY <1>4 DEF Reserved, Sure
  <2> QED BY <2>1
<1> QED BY <1>1, <1>2, <1>3, <1>4

(* A consumer's fields stay in order while more is given back.             *)
LEMMA ConsumerStaysOK ==
  ASSUME NEW k, NEW n \in Nat, NEW m \in Nat, n <= m, ConsumerOK(k, n)
  PROVE  ConsumerOK(k, m)
<1>1. 0 .. n \subseteq 0 .. m
  OBVIOUS
<1> QED BY <1>1 DEF ConsumerOK

(* The sums in a state of the invariant.                                   *)
LEMMA SumsInInv ==
  ASSUME ReserveInv, NEW x \in Nat
  PROVE  AllSure(x) \in Nat /\ AllReserved \in Nat /\ AllSure(x) <= AllReserved
<1>1. PICK f : f = [c \in Consumers |-> Sure(consumer[c], x)]
  OBVIOUS
<1>2. PICK g : g = [c \in Consumers |-> Reserved(consumer[c])]
  OBVIOUS
<1>3. \A c \in Consumers : Reserved(consumer[c]) \in Nat /\ Sure(consumer[c], x) \in Nat
                           /\ Sure(consumer[c], x) <= Reserved(consumer[c])
  BY SureIsReserved DEF ReserveInv, CountersOK
<1>4. f \in [Consumers -> Nat] /\ g \in [Consumers -> Nat] /\ \A c \in Consumers : f[c] <= g[c]
  BY <1>1, <1>2, <1>3
<1>5. Total(f) \in Nat /\ Total(g) \in Nat /\ Total(f) <= Total(g)
  BY <1>4, TotalLess, ConsumersAssumption
<1> QED BY <1>1, <1>2, <1>5 DEF AllSure, AllReserved

(* A step of consumer c changes both sums by its own term.                 *)
LEMMA SumsInStep ==
  ASSUME ReserveInv, NEW c \in Consumers, NEW r,
         consumer' = [consumer EXCEPT ![c] = r],
         NEW n \in Nat, ConsumerOK(r, n), NEW x \in Nat
  PROVE  /\ AllReserved' = AllReserved - Reserved(consumer[c]) + Reserved(r)
         /\ AllSure(x)' = AllSure(x) - Sure(consumer[c], x) + Sure(r, x)
<1>1. PICK f : f = [d \in Consumers |-> Sure(consumer[d], x)]
  OBVIOUS
<1>2. PICK g : g = [d \in Consumers |-> Reserved(consumer[d])]
  OBVIOUS
<1>3. PICK f2 : f2 = [d \in Consumers |-> Sure(consumer'[d], x)]
  OBVIOUS
<1>4. PICK g2 : g2 = [d \in Consumers |-> Reserved(consumer'[d])]
  OBVIOUS
<1>5. \A d \in Consumers : Reserved(consumer[d]) \in Nat /\ Sure(consumer[d], x) \in Nat
  BY SureIsReserved DEF ReserveInv, CountersOK
<1>6. Reserved(r) \in Nat /\ Sure(r, x) \in Nat
  BY SureIsReserved
<1>7. consumer'[c] = r /\ \A d \in Consumers \ {c} : consumer'[d] = consumer[d]
  BY DEF ReserveInv, CountersOK
<1>8. f \in [Consumers -> Nat] /\ g \in [Consumers -> Nat]
  BY <1>1, <1>2, <1>5
<1>9. f2 \in [Consumers -> Nat] /\ f2[c] = Sure(r, x) /\ \A d \in Consumers \ {c} : f2[d] = f[d]
  BY <1>1, <1>3, <1>5, <1>6, <1>7
<1>10. g2 \in [Consumers -> Nat] /\ g2[c] = Reserved(r) /\ \A d \in Consumers \ {c} : g2[d] = g[d]
  BY <1>2, <1>4, <1>5, <1>6, <1>7
<1>11. Total(f2) = Total(f) - f[c] + f2[c]
  BY <1>8, <1>9, TotalStep, ConsumersAssumption
<1>12. Total(g2) = Total(g) - g[c] + g2[c]
  BY <1>8, <1>10, TotalStep, ConsumersAssumption
<1>13. AllSure(x)' = Total(f2) /\ AllSure(x) = Total(f)
  BY <1>1, <1>3 DEF AllSure
<1>14. AllReserved' = Total(g2) /\ AllReserved = Total(g)
  BY <1>2, <1>4 DEF AllReserved
<1> QED BY <1>1, <1>2, <1>9, <1>10, <1>11, <1>12, <1>13, <1>14

(* A step of consumer c to r keeps the invariant if what it does to the    *)
(* counters matches the change of its own reservation.                     *)
LEMMA ConsumerStep ==
  ASSUME ReserveInv, NEW c \in Consumers, NEW r,
         consumer' = [consumer EXCEPT ![c] = r],
         tailIndex' = tailIndex, producer' = producer,
         headIndex' \in Nat, dequeueOptimisticCount' \in Nat,
         dequeueOvercommit' \in Nat, dequeueOvercommit <= dequeueOvercommit',
         ConsumerOK(r, dequeueOvercommit'),
         dequeueOptimisticCount' - dequeueOvercommit' - headIndex' - Reserved(r)
           = dequeueOptimisticCount - dequeueOvercommit - headIndex - Reserved(consumer[c]),
         \A x \in Nat : x >= tailIndex =>
           headIndex' + AllSure(x) - Sure(consumer[c], x) + Sure(r, x) <= x
  PROVE  ReserveInv'
<1>1. CountersOK'
  <2>1. \A d \in Consumers : ConsumerOK(consumer'[d], dequeueOvercommit')
    <3> SUFFICES ASSUME NEW d \in Consumers PROVE ConsumerOK(consumer'[d], dequeueOvercommit')
      OBVIOUS
    <3>1. CASE d = c
      BY <3>1 DEF ReserveInv, CountersOK
    <3>2. CASE d # c
      <4>1. consumer'[d] = consumer[d]
        BY <3>2 DEF ReserveInv, CountersOK
      <4>2. ConsumerOK(consumer[d], dequeueOvercommit) /\ dequeueOvercommit \in Nat
        BY DEF ReserveInv, CountersOK
      <4>3. ConsumerOK(consumer[d], dequeueOvercommit')
        BY <4>2, ConsumerStaysOK
      <4> QED BY <4>1, <4>3
    <3> QED BY <3>1, <3>2
  <2>2. DOMAIN consumer' = Consumers
    BY DEF ReserveInv, CountersOK
  <2> QED BY <2>1, <2>2 DEF ReserveInv, CountersOK
<1>2. \A x \in Nat : AllReserved \in Nat /\ AllSure(x) \in Nat
  BY SumsInInv
<1>3. \A x \in Nat : /\ AllReserved' = AllReserved - Reserved(consumer[c]) + Reserved(r)
                     /\ AllSure(x)' = AllSure(x) - Sure(consumer[c], x) + Sure(r, x)
  BY SumsInStep
<1>4. \A x \in Nat : Reserved(consumer[c]) \in Nat /\ Sure(consumer[c], x) \in Nat
                     /\ Reserved(r) \in Nat /\ Sure(r, x) \in Nat
  BY SureIsReserved DEF ReserveInv, CountersOK
<1>5. Balanced'
  <2>1. 0 \in Nat
    OBVIOUS
  <2>2. /\ AllReserved' = AllReserved - Reserved(consumer[c]) + Reserved(r)
        /\ AllReserved \in Nat /\ Reserved(consumer[c]) \in Nat /\ Reserved(r) \in Nat
    BY <1>2, <1>3, <1>4, <2>1
  <2>3. /\ dequeueOptimisticCount - dequeueOvercommit = headIndex + AllReserved
        /\ headIndex \in Nat /\ dequeueOptimisticCount \in Nat /\ dequeueOvercommit \in Nat
    BY DEF ReserveInv, Balanced, CountersOK
  <2>4. dequeueOptimisticCount' - dequeueOvercommit' = headIndex' + AllReserved'
    BY <2>2, <2>3
  <2> QED BY <2>4 DEF Balanced
<1>6. NoneBeyond'
  <2>1. \A x \in Nat : x >= tailIndex' => headIndex' + AllSure(x)' <= x
    <3> SUFFICES ASSUME NEW x \in Nat, x >= tailIndex' PROVE headIndex' + AllSure(x)' <= x
      OBVIOUS
    <3>1. AllSure(x)' = AllSure(x) - Sure(consumer[c], x) + Sure(r, x)
      BY <1>3
    <3>2. headIndex' + AllSure(x) - Sure(consumer[c], x) + Sure(r, x) <= x
      OBVIOUS
    <3>3. AllSure(x) \in Nat /\ Sure(consumer[c], x) \in Nat /\ Sure(r, x) \in Nat
      BY <1>2, <1>4
    <3> QED BY <3>1, <3>2, <3>3
  <2> QED BY <2>1 DEF NoneBeyond
<1> QED BY <1>1, <1>5, <1>6 DEF ReserveInv

(* A step of consumer c that neither holds a reservation before nor after  *)
(* it, and leaves the counters alone, keeps the invariant.                 *)
LEMMA OutsideStep ==
  ASSUME ReserveInv, NEW c \in Consumers, NEW r,
         consumer' = [consumer EXCEPT ![c] = r],
         UNCHANGED indexVars, producer' = producer,
         consumer[c].pc \notin {"check", "giveBack", "claim"},
         r.pc \notin {"check", "giveBack", "claim"},
         ConsumerOK(r, dequeueOvercommit)
  PROVE  ReserveInv'
<1>1. Reserved(consumer[c]) = 0 /\ Reserved(r) = 0
  BY DEF Reserved
<1>2. \A x \in Nat : Sure(consumer[c], x) = 0 /\ Sure(r, x) = 0
  BY DEF Sure
<1>3. /\ tailIndex' = tailIndex /\ headIndex' = headIndex
      /\ dequeueOptimisticCount' = dequeueOptimisticCount /\ dequeueOvercommit' = dequeueOvercommit
  BY DEF indexVars
<1>4. /\ headIndex \in Nat /\ dequeueOptimisticCount \in Nat /\ dequeueOvercommit \in Nat
  BY DEF ReserveInv, CountersOK
<1>5. \A x \in Nat : x >= tailIndex =>
        headIndex' + AllSure(x) - Sure(consumer[c], x) + Sure(r, x) <= x
  <2> SUFFICES ASSUME NEW x \in Nat, x >= tailIndex
               PROVE  headIndex + AllSure(x) - Sure(consumer[c], x) + Sure(r, x) <= x
    BY <1>3
  <2>1. headIndex + AllSure(x) <= x
    BY DEF ReserveInv, NoneBeyond
  <2>2. AllSure(x) \in Nat
    BY SumsInInv
  <2> QED BY <1>2, <1>4, <2>1, <2>2
<1>6. dequeueOptimisticCount' - dequeueOvercommit' - headIndex' - Reserved(r)
        = dequeueOptimisticCount - dequeueOvercommit - headIndex - Reserved(consumer[c])
  BY <1>1, <1>3
<1>7. ConsumerOK(r, dequeueOvercommit') /\ dequeueOvercommit <= dequeueOvercommit'
  BY <1>3, <1>4
<1> QED BY <1>3, <1>4, <1>5, <1>6, <1>7, ConsumerStep

(* tailIndex is loaded.                                                    *)
LEMMA LoadTailKeeps ==
  ASSUME ReserveInv, NEW c \in Consumers, NEW n \in Maxes, LoadTail(c, n)
  PROVE  ReserveInv'
<1>1. PICK r : r = [pc |-> "overcommit", tail |-> tailIndex, max |-> n]
  OBVIOUS
<1>2. ConsumerOK(r, dequeueOvercommit)
  BY <1>1, SizesAssumption DEF ConsumerOK, ReserveInv, CountersOK
<1>3. r.pc = "overcommit" /\ consumer' = [consumer EXCEPT ![c] = r] /\ consumer[c].pc = "idle"
      /\ UNCHANGED indexVars /\ producer' = producer
  BY <1>1 DEF LoadTail
<1> QED BY <1>2, <1>3, OutsideStep

(* dequeueOvercommit is loaded.                                            *)
LEMMA LoadOvercommitKeeps ==
  ASSUME ReserveInv, NEW c \in Consumers, LoadOvercommit(c)
  PROVE  ReserveInv'
<1>0. PICK k : k = consumer[c]
  OBVIOUS
<1>1. PICK r : r = [pc |-> "desire", tail |-> k.tail, max |-> k.max,
                    overcommit |-> dequeueOvercommit]
  OBVIOUS
<1>2. k.pc = "overcommit" /\ consumer' = [consumer EXCEPT ![c] = r]
      /\ UNCHANGED indexVars /\ producer' = producer
  BY <1>0, <1>1 DEF LoadOvercommit, ReserveInv, CountersOK
<1>3. ConsumerOK(k, dequeueOvercommit) /\ dequeueOvercommit \in Nat
  BY <1>0 DEF ReserveInv, CountersOK
<1>4. ConsumerOK(r, dequeueOvercommit)
  BY <1>1, <1>2, <1>3 DEF ConsumerOK
<1>5. r.pc = "desire"
  BY <1>1
<1> QED BY <1>0, <1>2, <1>4, <1>5, OutsideStep

(* The number of elements to reserve is positive.                          *)
LEMMA DesireKeeps ==
  ASSUME ReserveInv, NEW c \in Consumers, Desire(c)
  PROVE  ReserveInv'
<1>0. PICK k : k = consumer[c]
  OBVIOUS
<1>1. PICK a : a = k.tail - (dequeueOptimisticCount - k.overcommit)
  OBVIOUS
<1>2. PICK d : d = IF a < k.max THEN a ELSE k.max
  OBVIOUS
<1>3. PICK r : r = IF a > 0 THEN [pc |-> "reserve", overcommit |-> k.overcommit, desired |-> d]
                   ELSE Idle
  OBVIOUS
<1>4. k.pc = "desire" /\ consumer' = [consumer EXCEPT ![c] = r]
      /\ UNCHANGED indexVars /\ producer' = producer
  BY <1>0, <1>1, <1>2, <1>3 DEF Desire
<1>5. /\ ConsumerOK(k, dequeueOvercommit)
      /\ dequeueOvercommit \in Nat /\ dequeueOptimisticCount \in Nat
  BY <1>0 DEF ReserveInv, CountersOK
<1>6. k.tail \in Nat /\ k.max \in Nat \ {0} /\ k.overcommit \in 0 .. dequeueOvercommit
  BY <1>4, <1>5 DEF ConsumerOK
<1>7. a \in Int /\ (a > 0 => d \in Nat \ {0})
  BY <1>1, <1>2, <1>5, <1>6
<1>8. ConsumerOK(r, dequeueOvercommit) /\ r.pc \in {"reserve", "idle"}
  BY <1>3, <1>6, <1>7 DEF ConsumerOK, Idle
<1> QED BY <1>0, <1>4, <1>8, OutsideStep

(* A reservation starts no lower than the sum of the elements claimed and  *)
(* all the other reservations: what is sure of it lies above what is sure  *)
(* of theirs.                                                              *)
LEMMA ReserveKeeps ==
  ASSUME ReserveInv, NEW c \in Consumers, Reserve(c)
  PROVE  ReserveInv'
<1>0. PICK k : k = consumer[c]
  OBVIOUS
<1>1. PICK m : m = dequeueOptimisticCount - k.overcommit
  OBVIOUS
<1>2. PICK r : r = [pc |-> "check", mine |-> m, desired |-> k.desired]
  OBVIOUS
<1>3. /\ k.pc = "reserve" /\ consumer' = [consumer EXCEPT ![c] = r]
      /\ dequeueOptimisticCount' = dequeueOptimisticCount + k.desired
      /\ tailIndex' = tailIndex /\ headIndex' = headIndex
      /\ dequeueOvercommit' = dequeueOvercommit /\ producer' = producer
  BY <1>0, <1>1, <1>2 DEF Reserve
<1>4. /\ ConsumerOK(k, dequeueOvercommit)
      /\ dequeueOvercommit \in Nat /\ dequeueOptimisticCount \in Nat /\ headIndex \in Nat
      /\ dequeueOptimisticCount - dequeueOvercommit = headIndex + AllReserved
  BY <1>0 DEF ReserveInv, CountersOK, Balanced
<1>5. k.desired \in Nat \ {0} /\ k.overcommit \in 0 .. dequeueOvercommit
  BY <1>3, <1>4 DEF ConsumerOK
<1>6. m \in Int /\ m >= dequeueOptimisticCount - dequeueOvercommit
  BY <1>1, <1>4, <1>5
<1>7. ConsumerOK(r, dequeueOvercommit) /\ r.pc = "check" /\ r.mine = m /\ r.desired = k.desired
  BY <1>2, <1>5, <1>6 DEF ConsumerOK
<1>8. Reserved(k) = 0 /\ Reserved(r) = k.desired
  BY <1>3, <1>7 DEF Reserved
<1>9. \A x \in Nat : x >= tailIndex =>
        headIndex' + AllSure(x) - Sure(k, x) + Sure(r, x) <= x
  <2> SUFFICES ASSUME NEW x \in Nat, x >= tailIndex
               PROVE  headIndex + AllSure(x) - Sure(k, x) + Sure(r, x) <= x
    BY <1>3
  <2>1. headIndex + AllSure(x) <= x
    BY DEF ReserveInv, NoneBeyond
  <2>2. AllSure(x) \in Nat /\ AllReserved \in Nat /\ AllSure(x) <= AllReserved
    BY SumsInInv
  <2>3. Sure(k, x) = 0 /\ Sure(r, x) = Clip(x - m, k.desired)
    BY <1>3, <1>7 DEF Sure
  <2>4. CASE x - m <= 0
    <3>1. Sure(r, x) = 0
      BY <2>3, <2>4 DEF Clip
    <3> QED BY <1>4, <2>1, <2>2, <2>3, <3>1
  <2>5. CASE ~(x - m <= 0)
    <3>1. Sure(r, x) \in Nat /\ Sure(r, x) <= x - m
      BY <1>5, <1>6, <2>3, <2>5 DEF Clip
    <3>2. headIndex + AllSure(x) <= m
      BY <1>4, <1>6, <2>2
    <3> QED BY <1>4, <1>6, <2>2, <2>3, <3>1, <3>2
  <2> QED BY <2>4, <2>5
<1>10. dequeueOptimisticCount' - dequeueOvercommit' - headIndex' - Reserved(r)
        = dequeueOptimisticCount - dequeueOvercommit - headIndex - Reserved(k)
  BY <1>3, <1>4, <1>5, <1>8
<1>11. /\ headIndex' \in Nat /\ dequeueOptimisticCount' \in Nat /\ dequeueOvercommit' \in Nat
       /\ dequeueOvercommit <= dequeueOvercommit' /\ ConsumerOK(r, dequeueOvercommit')
  BY <1>3, <1>4, <1>5, <1>7
<1> QED BY <1>0, <1>3, <1>9, <1>10, <1>11, ConsumerStep

(* What exists of a reservation only grows with tailIndex.                 *)
LEMMA CheckKeeps ==
  ASSUME ReserveInv, NEW c \in Consumers, Check(c)
  PROVE  ReserveInv'
<1>0. PICK k : k = consumer[c]
  OBVIOUS
<1>1. PICK a : a = Clip(tailIndex - k.mine, k.desired)
  OBVIOUS
<1>2. PICK r : r = IF a < k.desired THEN [pc |-> "giveBack", actual |-> a, excess |-> k.desired - a]
                   ELSE [pc |-> "claim", actual |-> a]
  OBVIOUS
<1>3. /\ k.pc = "check" /\ consumer' = [consumer EXCEPT ![c] = r]
      /\ UNCHANGED indexVars /\ producer' = producer
  BY <1>0, <1>1, <1>2 DEF Check, Clip
<1>4. /\ ConsumerOK(k, dequeueOvercommit) /\ tailIndex \in Nat
      /\ dequeueOvercommit \in Nat /\ dequeueOptimisticCount \in Nat /\ headIndex \in Nat
  BY <1>0 DEF ReserveInv, CountersOK
<1>5. k.desired \in Nat \ {0} /\ k.mine \in Int
  BY <1>3, <1>4 DEF ConsumerOK
<1>6. a \in Nat /\ a <= k.desired
  BY <1>1, <1>4, <1>5 DEF Clip
<1>7. k.desired - a \in Nat
  BY <1>5, <1>6
<1>8. ConsumerOK(r, dequeueOvercommit)
  BY <1>2, <1>6, <1>7 DEF ConsumerOK
<1>9. Reserved(k) = k.desired /\ Reserved(r) = k.desired
  <2>1. Reserved(k) = k.desired
    BY <1>3 DEF Reserved
  <2>2. CASE a < k.desired
    <3>1. Reserved(r) = a + (k.desired - a)
      BY <1>2, <2>2 DEF Reserved
    <3> QED BY <1>5, <1>6, <2>1, <3>1
  <2>3. CASE ~(a < k.desired)
    <3>1. Reserved(r) = a
      BY <1>2, <2>3 DEF Reserved
    <3> QED BY <1>5, <1>6, <2>1, <2>3, <3>1
  <2> QED BY <2>2, <2>3
<1>10. \A x \in Nat : Sure(k, x) = Clip(x - k.mine, k.desired) /\ Sure(r, x) = a
  BY <1>2, <1>3 DEF Sure
<1>11. /\ tailIndex' = tailIndex /\ headIndex' = headIndex
       /\ dequeueOptimisticCount' = dequeueOptimisticCount /\ dequeueOvercommit' = dequeueOvercommit
  BY <1>3 DEF indexVars
<1>12. \A x \in Nat : x >= tailIndex =>
        headIndex' + AllSure(x) - Sure(k, x) + Sure(r, x) <= x
  <2> SUFFICES ASSUME NEW x \in Nat, x >= tailIndex
               PROVE  headIndex + AllSure(x) - Sure(k, x) + Sure(r, x) <= x
    BY <1>11
  <2>1. headIndex + AllSure(x) <= x
    BY DEF ReserveInv, NoneBeyond
  <2>2. AllSure(x) \in Nat
    BY SumsInInv
  <2>3. Clip(x - k.mine, k.desired) \in Nat /\ a <= Clip(x - k.mine, k.desired)
    BY <1>1, <1>4, <1>5 DEF Clip
  <2> QED BY <1>4, <1>6, <1>10, <2>1, <2>2, <2>3
<1>13. dequeueOptimisticCount' - dequeueOvercommit' - headIndex' - Reserved(r)
        = dequeueOptimisticCount - dequeueOvercommit - headIndex - Reserved(k)
  BY <1>9, <1>11
<1>14. ConsumerOK(r, dequeueOvercommit') /\ dequeueOvercommit <= dequeueOvercommit'
  BY <1>4, <1>8, <1>11
<1> QED BY <1>0, <1>3, <1>4, <1>11, <1>12, <1>13, <1>14, ConsumerStep

(* What was reserved too much leaves both sides of the balance.            *)
LEMMA GiveBackKeeps ==
  ASSUME ReserveInv, NEW c \in Consumers, GiveBack(c)
  PROVE  ReserveInv'
<1>0. PICK k : k = consumer[c]
  OBVIOUS
<1>1. PICK r : r = IF k.actual > 0 THEN [pc |-> "claim", actual |-> k.actual] ELSE Idle
  OBVIOUS
<1>2. /\ k.pc = "giveBack" /\ consumer' = [consumer EXCEPT ![c] = r]
      /\ dequeueOvercommit' = dequeueOvercommit + k.excess
      /\ tailIndex' = tailIndex /\ headIndex' = headIndex
      /\ dequeueOptimisticCount' = dequeueOptimisticCount /\ producer' = producer
  BY <1>0, <1>1 DEF GiveBack
<1>3. /\ ConsumerOK(k, dequeueOvercommit)
      /\ dequeueOvercommit \in Nat /\ dequeueOptimisticCount \in Nat /\ headIndex \in Nat
  BY <1>0 DEF ReserveInv, CountersOK
<1>4. k.actual \in Nat /\ k.excess \in Nat
  BY <1>2, <1>3 DEF ConsumerOK
<1>5. ConsumerOK(r, dequeueOvercommit')
  BY <1>1, <1>4 DEF ConsumerOK, Idle
<1>6. Reserved(k) = k.actual + k.excess /\ Reserved(r) = k.actual
  <2>1. Reserved(k) = k.actual + k.excess
    BY <1>2 DEF Reserved
  <2>2. CASE k.actual > 0
    BY <1>1, <2>1, <2>2 DEF Reserved
  <2>3. CASE ~(k.actual > 0)
    BY <1>1, <1>4, <2>1, <2>3 DEF Reserved, Idle
  <2> QED BY <2>2, <2>3
<1>7. \A x \in Nat : Sure(k, x) = k.actual /\ Sure(r, x) = k.actual
  <2>1. \A x \in Nat : Sure(k, x) = k.actual
    BY <1>2 DEF Sure
  <2>2. CASE k.actual > 0
    BY <1>1, <2>1, <2>2 DEF Sure
  <2>3. CASE ~(k.actual > 0)
    BY <1>1, <1>4, <2>1, <2>3 DEF Sure, Idle
  <2> QED BY <2>2, <2>3
<1>8. \A x \in Nat : x >= tailIndex =>
        headIndex' + AllSure(x) - Sure(k, x) + Sure(r, x) <= x
  <2> SUFFICES ASSUME NEW x \in Nat, x >= tailIndex
               PROVE  headIndex + AllSure(x) - Sure(k, x) + Sure(r, x) <= x
    BY <1>2
  <2>1. headIndex + AllSure(x) <= x
    BY DEF ReserveInv, NoneBeyond
  <2>2. AllSure(x) \in Nat
    BY SumsInInv
  <2> QED BY <1>3, <1>4, <1>7, <2>1, <2>2
<1>9. dequeueOptimisticCount' - dequeueOvercommit' - headIndex' - Reserved(r)
        = dequeueOptimisticCount - dequeueOvercommit - headIndex - Reserved(k)
  BY <1>2, <1>3, <1>4, <1>6
<1>10. dequeueOvercommit' \in Nat /\ dequeueOvercommit <= dequeueOvercommit'
  BY <1>2, <1>3, <1>4
<1> QED BY <1>0, <1>2, <1>3, <1>5, <1>8, <1>9, <1>10, ConsumerStep

(* What a consumer claims was sure: headIndex takes it over.               *)
LEMMA ClaimKeeps ==
  ASSUME ReserveInv, NEW c \in Consumers, Claim(c)
  PROVE  ReserveInv'
<1>0. PICK k : k = consumer[c]
  OBVIOUS
<1>1. PICK r : r = [pc |-> "locate", index |-> headIndex, last |-> headIndex + k.actual]
  OBVIOUS
<1>2. /\ k.pc = "claim" /\ consumer' = [consumer EXCEPT ![c] = r]
      /\ headIndex' = headIndex + k.actual
      /\ tailIndex' = tailIndex /\ dequeueOvercommit' = dequeueOvercommit
      /\ dequeueOptimisticCount' = dequeueOptimisticCount /\ producer' = producer
  BY <1>0, <1>1 DEF Claim
<1>3. /\ ConsumerOK(k, dequeueOvercommit)
      /\ dequeueOvercommit \in Nat /\ dequeueOptimisticCount \in Nat /\ headIndex \in Nat
  BY <1>0 DEF ReserveInv, CountersOK
<1>4. k.actual \in Nat
  BY <1>2, <1>3 DEF ConsumerOK
<1>5. ConsumerOK(r, dequeueOvercommit')
  BY <1>1 DEF ConsumerOK
<1>6. Reserved(k) = k.actual /\ Reserved(r) = 0
  BY <1>1, <1>2 DEF Reserved
<1>7. \A x \in Nat : Sure(k, x) = k.actual /\ Sure(r, x) = 0
  BY <1>1, <1>2 DEF Sure
<1>8. \A x \in Nat : x >= tailIndex =>
        headIndex' + AllSure(x) - Sure(k, x) + Sure(r, x) <= x
  <2> SUFFICES ASSUME NEW x \in Nat, x >= tailIndex
               PROVE  headIndex' + AllSure(x) - Sure(k, x) + Sure(r, x) <= x
    OBVIOUS
  <2>1. headIndex + AllSure(x) <= x
    BY DEF ReserveInv, NoneBeyond
  <2>2. AllSure(x) \in Nat
    BY SumsInInv
  <2> QED BY <1>2, <1>3, <1>4, <1>7, <2>1, <2>2
<1>9. dequeueOptimisticCount' - dequeueOvercommit' - headIndex' - Reserved(r)
        = dequeueOptimisticCount - dequeueOvercommit - headIndex - Reserved(k)
  BY <1>2, <1>3, <1>4, <1>6
<1>10. headIndex' \in Nat /\ dequeueOvercommit' \in Nat /\ dequeueOvercommit <= dequeueOvercommit'
  BY <1>2, <1>3, <1>4
<1> QED BY <1>0, <1>2, <1>3, <1>5, <1>8, <1>9, <1>10, ConsumerStep

(* While a consumer reads its elements block by block it holds no          *)
(* reservation.                                                            *)
LEMMA NextBlockIsOutside ==
  ASSUME NEW k, NEW size, NEW n
  PROVE  ConsumerOK(NextBlock(k, size), n)
         /\ NextBlock(k, size).pc \notin {"check", "giveBack", "claim"}
<1>1. CASE End(k) = k.last
  BY <1>1 DEF NextBlock, Idle, ConsumerOK
<1>2. CASE End(k) # k.last
  <2>1. PICK e, p : e = End(k) /\ p = (k.pos + 1) % size
    OBVIOUS
  <2>2. NextBlock(k, size) = [pc |-> "read", index |-> e, last |-> k.last, hdr |-> k.hdr, pos |-> p]
    BY <1>2, <2>1 DEF NextBlock
  <2> QED BY <2>2 DEF ConsumerOK
<1> QED BY <1>1, <1>2

(* A step that takes a consumer that reads to another place of the reading *)
(* keeps the invariant.                                                    *)
LEMMA ReadStep ==
  ASSUME ReserveInv, NEW c \in Consumers, NEW r,
         consumer' = [consumer EXCEPT ![c] = r],
         UNCHANGED indexVars, producer' = producer,
         consumer[c].pc \in Reading, "pc" \in DOMAIN r, r.pc \in Reading
  PROVE  ReserveInv'
<1>1. ConsumerOK(r, dequeueOvercommit)
  BY DEF Reading, ConsumerOK
<1> QED BY <1>1, OutsideStep DEF Reading

(* Reading the elements of a block.                                        *)
LEMMA ReadBlockKeeps ==
  ASSUME ReserveInv, NEW c \in Consumers, NEW b, ReadBlock(c, b)
  PROVE  ReserveInv'
<1>0. PICK k : k = consumer[c]
  OBVIOUS
<1>1. PICK r : r = [pc |-> "empty", index |-> k.index, last |-> k.last, hdr |-> k.hdr,
                    pos |-> k.pos, block |-> b]
  OBVIOUS
<1>2. /\ k.pc = "read" /\ consumer' = [consumer EXCEPT ![c] = r]
      /\ UNCHANGED indexVars /\ producer' = producer
  BY <1>0, <1>1 DEF ReadBlock
<1>3. "pc" \in DOMAIN r /\ r.pc = "empty"
  BY <1>1
<1> QED BY <1>0, <1>2, <1>3, ReadStep DEF Reading

(* The steps that the consumers of both kinds of sub-queue share.          *)
LEMMA ReserveStepsKeep ==
  ASSUME ReserveInv, NEW c \in Consumers, (\E n \in Maxes : LoadTail(c, n)) \/ ReserveSteps(c)
  PROVE  ReserveInv'
BY LoadTailKeeps, LoadOvercommitKeeps, DesireKeeps, ReserveKeeps, CheckKeeps, GiveBackKeeps,
   ClaimKeeps DEF ReserveSteps

(* The consumers of an implicit sub-queue.                                 *)
LEMMA ImplicitConsumeKeeps ==
  ASSUME ReserveInv, NEW c \in Consumers, ImplicitConsume(c)
  PROVE  ReserveInv'
<1>0. PICK k : k = consumer[c]
  OBVIOUS
<1>k. ConsumerOK(k, dequeueOvercommit) /\ "pc" \in DOMAIN k
  BY <1>0 DEF ReserveInv, CountersOK, ConsumerOK
<1>1. CASE (\E n \in Maxes : LoadTail(c, n)) \/ ReserveSteps(c)
  BY <1>1, ReserveStepsKeep
<1>2. CASE ImplicitLocate(c)
  <2>1. PICK r : r = [pc |-> "find", index |-> k.index, last |-> k.last,
                      hdr |-> Len(headers), pos |-> blockIndex.tail]
    OBVIOUS
  <2>2. /\ k.pc = "locate" /\ consumer' = [consumer EXCEPT ![c] = r]
        /\ UNCHANGED indexVars /\ producer' = producer
    BY <1>0, <1>2, <2>1 DEF ImplicitLocate, ReserveInv, CountersOK
  <2>3. "pc" \in DOMAIN r /\ r.pc = "find"
    BY <2>1
  <2> QED BY <1>0, <2>2, <2>3, ReadStep DEF Reading
<1>3. CASE ImplicitFind(c)
  <2>0. PICK p : p = get_block_index_index_for_index(headers[k.hdr], k.pos, k.index)
    OBVIOUS
  <2>1. PICK r : r = [k EXCEPT !.pc = "read", !.pos = p]
    OBVIOUS
  <2>2. /\ k.pc = "find" /\ consumer' = [consumer EXCEPT ![c] = r]
        /\ UNCHANGED indexVars /\ producer' = producer
    BY <1>0, <1>3, <2>0, <2>1 DEF ImplicitFind
  <2>3. "pc" \in DOMAIN r /\ r.pc = "read"
    BY <1>k, <2>1
  <2> QED BY <1>0, <2>2, <2>3, ReadStep DEF Reading
<1>4. CASE ImplicitRead(c)
  BY <1>4, ReadBlockKeeps DEF ImplicitRead
<1>5. CASE ImplicitEmpty(c)
  <2>1. PICK t : t = elementsCompletelyDequeued[k.block] + End(k) - k.index
    OBVIOUS
  <2>2. PICK r : r = IF t = BLOCK_SIZE THEN [k EXCEPT !.pc = "clear"]
                     ELSE NextBlock(k, headers[k.hdr].capacity)
    OBVIOUS
  <2>3. /\ k.pc = "empty" /\ consumer' = [consumer EXCEPT ![c] = r]
        /\ UNCHANGED indexVars /\ producer' = producer
    BY <1>0, <1>5, <2>1, <2>2 DEF ImplicitEmpty
  <2>4. CASE t = BLOCK_SIZE
    <3>1. "pc" \in DOMAIN r /\ r.pc = "clear"
      BY <1>k, <2>2, <2>4
    <3> QED BY <1>0, <2>3, <3>1, ReadStep DEF Reading
  <2>5. CASE t # BLOCK_SIZE
    <3>1. ConsumerOK(r, dequeueOvercommit) /\ r.pc \notin {"check", "giveBack", "claim"}
      BY <2>2, <2>5, NextBlockIsOutside
    <3> QED BY <1>0, <2>3, <3>1, OutsideStep
  <2> QED BY <2>4, <2>5
<1>6. CASE ImplicitClear(c)
  <2>1. PICK r : r = [k EXCEPT !.pc = "release"]
    OBVIOUS
  <2>2. /\ k.pc = "clear" /\ consumer' = [consumer EXCEPT ![c] = r]
        /\ UNCHANGED indexVars /\ producer' = producer
    BY <1>0, <1>6, <2>1 DEF ImplicitClear, ReserveInv, CountersOK
  <2>3. "pc" \in DOMAIN r /\ r.pc = "release"
    BY <1>k, <2>1
  <2> QED BY <1>0, <2>2, <2>3, ReadStep DEF Reading
<1>7. CASE ImplicitRelease(c)
  <2>1. PICK r : r = NextBlock(k, headers[k.hdr].capacity)
    OBVIOUS
  <2>2. /\ k.pc = "release" /\ consumer' = [consumer EXCEPT ![c] = r]
        /\ UNCHANGED indexVars /\ producer' = producer
    BY <1>0, <1>7, <2>1 DEF ImplicitRelease
  <2>3. ConsumerOK(r, dequeueOvercommit) /\ r.pc \notin {"check", "giveBack", "claim"}
    BY <2>1, NextBlockIsOutside
  <2> QED BY <1>0, <2>2, <2>3, OutsideStep
<1> QED BY <1>1, <1>2, <1>3, <1>4, <1>5, <1>6, <1>7 DEF ImplicitConsume

(* The consumers of an explicit sub-queue.                                 *)
LEMMA ExplicitConsumeKeeps ==
  ASSUME ReserveInv, NEW c \in Consumers, ExplicitConsume(c)
  PROVE  ReserveInv'
<1>0. PICK k : k = consumer[c]
  OBVIOUS
<1>k. ConsumerOK(k, dequeueOvercommit) /\ "pc" \in DOMAIN k
  BY <1>0 DEF ReserveInv, CountersOK, ConsumerOK
<1>1. CASE (\E n \in Maxes : LoadTail(c, n)) \/ ReserveSteps(c)
  BY <1>1, ReserveStepsKeep
<1>2. CASE ExplicitLocate(c)
  <2>1. PICK r : r = [pc |-> "find", index |-> k.index, last |-> k.last,
                      hdr |-> Len(indices), pos |-> indices[Len(indices)].front]
    OBVIOUS
  <2>2. /\ k.pc = "locate" /\ consumer' = [consumer EXCEPT ![c] = r]
        /\ UNCHANGED indexVars /\ producer' = producer
    BY <1>0, <1>2, <2>1 DEF ExplicitLocate, ReserveInv, CountersOK
  <2>3. "pc" \in DOMAIN r /\ r.pc = "find"
    BY <2>1
  <2> QED BY <1>0, <2>2, <2>3, ReadStep DEF Reading
<1>3. CASE ExplicitFind(c)
  <2>0. PICK p : p = (k.pos + (Base(k.index) - indices[k.hdr].entries[k.pos].base) \div BLOCK_SIZE)
                       % indices[k.hdr].size
    OBVIOUS
  <2>1. PICK r : r = [k EXCEPT !.pc = "read", !.pos = p]
    OBVIOUS
  <2>2. /\ k.pc = "find" /\ consumer' = [consumer EXCEPT ![c] = r]
        /\ UNCHANGED indexVars /\ producer' = producer
    BY <1>0, <1>3, <2>0, <2>1 DEF ExplicitFind
  <2>3. "pc" \in DOMAIN r /\ r.pc = "read"
    BY <1>k, <2>1
  <2> QED BY <1>0, <2>2, <2>3, ReadStep DEF Reading
<1>4. CASE ExplicitRead(c)
  BY <1>4, ReadBlockKeeps DEF ExplicitRead
<1>5. CASE ExplicitEmpty(c)
  <2>1. PICK r : r = NextBlock(k, indices[k.hdr].size)
    OBVIOUS
  <2>2. /\ k.pc = "empty" /\ consumer' = [consumer EXCEPT ![c] = r]
        /\ UNCHANGED indexVars /\ producer' = producer
    BY <1>0, <1>5, <2>1 DEF ExplicitEmpty
  <2>3. ConsumerOK(r, dequeueOvercommit) /\ r.pc \notin {"check", "giveBack", "claim"}
    BY <2>1, NextBlockIsOutside
  <2> QED BY <1>0, <2>2, <2>3, OutsideStep
<1> QED BY <1>1, <1>2, <1>3, <1>4, <1>5 DEF ExplicitConsume

(* The producer only moves tailIndex up.                                   *)
LEMMA ProducerStep ==
  ASSUME ReserveInv, consumer' = consumer, headIndex' = headIndex,
         dequeueOptimisticCount' = dequeueOptimisticCount, dequeueOvercommit' = dequeueOvercommit,
         tailIndex' \in Nat, tailIndex <= tailIndex', ProducerOK(producer')
  PROVE  ReserveInv'
<1>1. CountersOK'
  BY DEF ReserveInv, CountersOK
<1>2. Balanced'
  BY DEF ReserveInv, Balanced, AllReserved
<1>3. NoneBeyond'
  <2>1. ASSUME NEW x \in Nat, x >= tailIndex' PROVE headIndex' + AllSure(x)' <= x
    <3>1. x >= tailIndex
      BY <2>1 DEF ReserveInv, CountersOK
    <3>2. headIndex + AllSure(x) <= x
      BY <3>1 DEF ReserveInv, NoneBeyond
    <3> QED BY <3>2 DEF AllSure
  <2> QED BY <2>1 DEF NoneBeyond
<1> QED BY <1>1, <1>2, <1>3 DEF ReserveInv

(* The steps of a call before tailIndex is stored.                         *)
LEMMA ProducerWaits ==
  ASSUME ReserveInv, consumer' = consumer, UNCHANGED indexVars, ProducerOK(producer')
  PROVE  ReserveInv'
BY ProducerStep DEF indexVars, ReserveInv, CountersOK

(* The call that stores tailIndex.                                         *)
LEMMA ProducerFills ==
  ASSUME ReserveInv, consumer' = consumer, headIndex' = headIndex,
         dequeueOptimisticCount' = dequeueOptimisticCount, dequeueOvercommit' = dequeueOvercommit,
         producer.pc = "fill", tailIndex' = tailIndex + producer.count, producer' = Idle
  PROVE  ReserveInv'
<1>1. tailIndex \in Nat /\ producer.count \in Nat
  BY DEF ReserveInv, CountersOK, ProducerOK
<1>2. ProducerOK(producer')
  BY DEF ProducerOK, Idle
<1>3. tailIndex' \in Nat /\ tailIndex <= tailIndex'
  BY <1>1
<1> QED BY <1>2, <1>3, ProducerStep

(* The producer of an implicit sub-queue.                                  *)
LEMMA ImplicitProduceKeeps ==
  ASSUME ReserveInv, ImplicitProduce
  PROVE  ReserveInv'
<1>0. ProducerOK(producer) /\ ProducerOK(Idle)
  BY DEF ReserveInv, CountersOK, ProducerOK, Idle
<1>1. ASSUME NEW n \in Counts, ImplicitEnqueue(n) PROVE ReserveInv'
  <2>1. n \in Nat
    BY SizesAssumption
  <2>2. ProducerOK(producer')
    BY <1>1, <2>1 DEF ImplicitEnqueue, ProducerOK
  <2> QED BY <1>1, <2>2, ProducerWaits DEF ImplicitEnqueue
<1>2. CASE ImplicitInsert
  <2>1. ProducerOK(producer')
    BY <1>0, <1>2 DEF ImplicitInsert, ProducerOK
  <2> QED BY <1>2, <2>1, ProducerWaits DEF ImplicitInsert
<1>3. CASE ImplicitNoEntry
  BY <1>0, <1>3, ProducerWaits DEF ImplicitNoEntry
<1>4. CASE ImplicitBlock
  <2>1. ProducerOK(producer')
    BY <1>0, <1>4 DEF ImplicitBlock, ProducerOK
  <2> QED BY <1>4, <2>1, ProducerWaits DEF ImplicitBlock
<1>5. CASE ImplicitUndo
  BY <1>0, <1>5, ProducerWaits DEF ImplicitUndo
<1>6. CASE ImplicitFill
  BY <1>6, ProducerFills DEF ImplicitFill
<1> QED BY <1>1, <1>2, <1>3, <1>4, <1>5, <1>6 DEF ImplicitProduce

(* The producer of an explicit sub-queue.                                  *)
LEMMA ExplicitProduceKeeps ==
  ASSUME ReserveInv, ExplicitProduce
  PROVE  ReserveInv'
<1>0. ProducerOK(producer) /\ ProducerOK(Idle)
  BY DEF ReserveInv, CountersOK, ProducerOK, Idle
<1>m. ASSUME NEW b, NEW pc, producer.pc # "idle", MoreBlocks(b, pc) PROVE ProducerOK(producer')
  BY <1>0, <1>m DEF MoreBlocks, ProducerOK
<1>1. ASSUME NEW n \in Counts, ExplicitEnqueue(n) PROVE ReserveInv'
  <2>1. n \in Nat
    BY SizesAssumption
  <2>2. ProducerOK(producer')
    BY <1>1, <2>1 DEF ExplicitEnqueue, ProducerOK
  <2> QED BY <1>1, <2>2, ProducerWaits DEF ExplicitEnqueue
<1>2. CASE ExplicitAhead
  <2>1. ProducerOK(producer')
    BY <1>m, <1>2 DEF ExplicitAhead
  <2> QED BY <1>2, <2>1, ProducerWaits DEF ExplicitAhead
<1>3. CASE ExplicitNoneAhead
  <2>1. ProducerOK(producer')
    BY <1>0, <1>3 DEF ExplicitNoneAhead, ProducerOK
  <2> QED BY <1>3, <2>1, ProducerWaits DEF ExplicitNoneAhead
<1>4. CASE ExplicitNewIndex
  <2>1. ProducerOK(producer')
    BY <1>0, <1>4 DEF ExplicitNewIndex, ProducerOK
  <2> QED BY <1>4, <2>1, ProducerWaits DEF ExplicitNewIndex
<1>5. CASE ExplicitBlock
  <2>1. ProducerOK(producer')
    BY <1>m, <1>5 DEF ExplicitBlock
  <2> QED BY <1>5, <2>1, ProducerWaits DEF ExplicitBlock
<1>6. CASE ExplicitReset
  <2>1. ProducerOK(producer')
    BY <1>0, <1>6 DEF ExplicitReset, ProducerOK
  <2> QED BY <1>6, <2>1, ProducerWaits DEF ExplicitReset
<1>7. CASE ExplicitUndo
  BY <1>0, <1>7, ProducerWaits DEF ExplicitUndo
<1>8. CASE ExplicitFill
  BY <1>8, ProducerFills DEF ExplicitFill
<1> QED BY <1>1, <1>2, <1>3, <1>4, <1>5, <1>6, <1>7, <1>8 DEF ExplicitProduce

(* With no call in progress nothing is reserved.                           *)
LEMMA ReserveInit ==
  ASSUME Init PROVE ReserveInv
<1>1. /\ tailIndex = 0 /\ headIndex = 0 /\ dequeueOptimisticCount = 0 /\ dequeueOvercommit = 0
      /\ producer = Idle /\ consumer = [c \in Consumers |-> Idle]
  BY DEF Init, ProducerBaseInit
<1>2. ConsumerOK(Idle, 0) /\ ProducerOK(Idle)
  BY DEF ConsumerOK, ProducerOK, Idle
<1>3. CountersOK
  BY <1>1, <1>2 DEF CountersOK
<1>4. PICK z : z = [c \in Consumers |-> 0]
  OBVIOUS
<1>5. Total(z) = 0
  <2>1. Pairs(z) = {}
    BY <1>4 DEF Pairs
  <2> QED BY <2>1, FS_EmptySet DEF Total
<1>6. AllReserved = 0
  <2>1. [c \in Consumers |-> Reserved(consumer[c])] = z
    BY <1>1, <1>4 DEF Reserved, Idle
  <2> QED BY <1>5, <2>1 DEF AllReserved
<1>7. \A x \in Nat : AllSure(x) = 0
  <2> SUFFICES ASSUME NEW x \in Nat PROVE AllSure(x) = 0
    OBVIOUS
  <2>1. [c \in Consumers |-> Sure(consumer[c], x)] = z
    BY <1>1, <1>4 DEF Sure, Idle
  <2> QED BY <1>5, <2>1 DEF AllSure
<1>8. Balanced
  BY <1>1, <1>6 DEF Balanced
<1>9. NoneBeyond
  BY <1>1, <1>7 DEF NoneBeyond
<1> QED BY <1>3, <1>8, <1>9 DEF ReserveInv

(* The inductive invariant of the reservations: what the two counters of   *)
(* the dequeues say is what was claimed and is reserved, and what is sure  *)
(* of all the reservations together fits under tailIndex, wherever the     *)
(* producer takes it.                                                      *)
THEOREM ReserveInvariant == Spec => []ReserveInv
<1>1. Init => ReserveInv
  BY ReserveInit
<1>2. ReserveInv /\ [Next]_vars => ReserveInv'
  <2> SUFFICES ASSUME ReserveInv, [Next]_vars PROVE ReserveInv'
    OBVIOUS
  <2>1. CASE Produce
    BY <2>1, ImplicitProduceKeeps, ExplicitProduceKeeps DEF Produce
  <2>2. ASSUME NEW c \in Consumers, Consume(c) PROVE ReserveInv'
    BY <2>2, ImplicitConsumeKeeps, ExplicitConsumeKeeps DEF Consume
  <2>3. CASE UNCHANGED vars
    <3>1. UNCHANGED indexVars /\ producer' = producer /\ consumer' = consumer
      BY <2>3 DEF vars
    <3>2. ProducerOK(producer')
      BY <3>1 DEF ReserveInv, CountersOK
    <3> QED BY <3>1, <3>2, ProducerWaits
  <2> QED BY <2>1, <2>2, <2>3 DEF Next
<1> QED BY <1>1, <1>2, PTL DEF Spec

(* However many consumers reserve elements of a sub-queue at once, nobody  *)
(* claims an element that is not there, and the counters of the dequeues   *)
(* differ from headIndex by what is reserved (try_dequeue and              *)
(* dequeue_bulk of both kinds of producer).                                *)
THEOREM ReservationsAreBalanced == Spec => []ReservationsBalance
<1>1. ReserveInv => ReservationsBalance
  <2> SUFFICES ASSUME ReserveInv PROVE ReservationsBalance
    OBVIOUS
  <2>1. tailIndex \in Nat /\ headIndex \in Nat
    BY DEF ReserveInv, CountersOK
  <2>2. headIndex + AllSure(tailIndex) <= tailIndex /\ AllSure(tailIndex) \in Nat
    BY <2>1, SumsInInv DEF ReserveInv, NoneBeyond
  <2> QED BY <2>1, <2>2 DEF ReserveInv, Balanced, ReservationsBalance
<1> QED BY <1>1, ReserveInvariant, PTL
-----------------------------------------------------------------------------
(* The ring of an explicit producer: the blocks that have a next.  Each    *)
(* one of them is the next of one, and the others are in the pool.         *)
RingOf(nx) == {b \in Blocks : nx[b] # NoBlock}
RingOK(nx, free) ==
  /\ nx \in [Blocks -> Blocks \union {NoBlock}]
  /\ free = Blocks \ RingOf(nx)
  /\ \A b \in RingOf(nx) : nx[b] \in RingOf(nx) /\ \E a \in RingOf(nx) : nx[a] = b

(* A call of an explicit producer: its blocks are in the ring, with those  *)
(* still to come there are as many as needed, and the ring has a block     *)
(* from the first one on.                                                  *)
CallFields == {"pc", "count", "need", "chain", "start", "front", "slotsUsed", "published"}
CallInRing(p, tail, ring) ==
  /\ DOMAIN p = CallFields
  /\ p.count \in Nat \ {0} /\ p.need \in Nat /\ p.chain \in Seq(ring)
  /\ p.start \in ring \union {NoBlock}
  /\ Len(p.chain) + p.need = Needs(tail, p.count)
  /\ p.pc \in {"ahead", "new"} => p.need # 0
  /\ p.pc \in {"reset", "fill"} => p.need = 0
  /\ tail > 0 => p.start # NoBlock
  /\ p.start = NoBlock /\ p.chain = <<>> => ring = {}

(* The tail is a block of the ring, if there is one.                       *)
TailInRing(b, ring) == b \in ring \/ (b = NoBlock /\ ring = {})

RingInv ==
  /\ tailIndex \in Nat
  /\ RingOK(next, pool)
  /\ TailInRing(tailBlock, RingOf(next))
  /\ IF producer.pc = "idle" THEN tailIndex > 0 => tailBlock # NoBlock
     ELSE CallInRing(producer, tailIndex, RingOf(next))

(* A number is its quotient times the divisor, plus the rest.              *)
LEMMA DivMod ==
  ASSUME NEW a \in Int, NEW m \in Nat \ {0}
  PROVE  a \div m \in Int /\ a % m \in 0 .. m - 1 /\ a - (a % m) = m * (a \div m)
BY Z3

(* A multiple is divided exactly.                                          *)
LEMMA DivOfProduct ==
  ASSUME NEW q \in Int, NEW m \in Nat \ {0}
  PROVE  (m * q) \div m = q
BY Z3

(* Multiples that are less than one step apart are in order.               *)
LEMMA ProductOrder ==
  ASSUME NEW p \in Int, NEW q \in Int, NEW m \in Nat \ {0}, m * p < m * q + m
  PROVE  p <= q
<1>1. CASE p <= q
  BY <1>1
<1>2. CASE p >= q + 1
  <2>1. m * (p - (q + 1)) >= 0
    BY <1>2
  <2>2. m * (p - (q + 1)) = m * p - (m * q + m)
    OBVIOUS
  <2> QED BY <2>1, <2>2
<1> QED BY <1>1, <1>2

(* A call needs no block only if its last element goes into the block of   *)
(* the one before its first, which the first call of all does not have.    *)
LEMMA NeedsIs ==
  ASSUME NEW tail \in Nat, NEW count \in Nat \ {0}
  PROVE  /\ Needs(tail, count) \in Nat
         /\ Needs(tail, count) = 0 <=> Base(tail + count - 1) = Base(tail - 1)
         /\ tail = 0 => Needs(tail, count) # 0
<1>0. BLOCK_SIZE \in Nat \ {0}
  BY SizesAssumption
<1>1. PICK a, b : a = tail - 1 /\ b = tail + count - 1
  OBVIOUS
<1>2. a \in Int /\ b \in Int /\ a < b /\ b >= 0 /\ (tail = 0 => a = -1)
  BY <1>1
<1>3. PICK p, q : p = a \div BLOCK_SIZE /\ q = b \div BLOCK_SIZE
  OBVIOUS
<1>4. p \in Int /\ a % BLOCK_SIZE \in 0 .. BLOCK_SIZE - 1 /\ Base(a) = BLOCK_SIZE * p
  BY <1>0, <1>2, <1>3, DivMod DEF Base
<1>5. q \in Int /\ b % BLOCK_SIZE \in 0 .. BLOCK_SIZE - 1 /\ Base(b) = BLOCK_SIZE * q
  BY <1>0, <1>2, <1>3, DivMod DEF Base
<1>6. Base(a) <= a /\ b < Base(b) + BLOCK_SIZE /\ Base(a) \in Int /\ Base(b) \in Int /\ Base(b) <= b
      /\ a < Base(a) + BLOCK_SIZE
  BY <1>0, <1>2, <1>4, <1>5 DEF Base
<1>7. p <= q
  <2>1. BLOCK_SIZE * p < BLOCK_SIZE * q + BLOCK_SIZE
    BY <1>0, <1>2, <1>4, <1>5, <1>6
  <2> QED BY <1>0, <1>4, <1>5, <2>1, ProductOrder
<1>8. Needs(tail, count) = q - p
  <2>1. BLOCK_SIZE * q - BLOCK_SIZE * p = BLOCK_SIZE * (q - p)
    BY <1>0, <1>4, <1>5
  <2>2. (BLOCK_SIZE * (q - p)) \div BLOCK_SIZE = q - p
    BY <1>0, <1>4, <1>5, DivOfProduct
  <2> QED BY <1>1, <1>4, <1>5, <2>1, <2>2 DEF Needs
<1>9. q = p <=> Base(b) = Base(a)
  <2>1. ASSUME Base(b) = Base(a) PROVE q <= p
    <3>1. BLOCK_SIZE * q < BLOCK_SIZE * p + BLOCK_SIZE
      BY <1>0, <1>4, <1>5, <1>6, <2>1
    <3> QED BY <1>0, <1>4, <1>5, <3>1, ProductOrder
  <2> QED BY <1>4, <1>5, <1>7, <2>1
<1>10. ASSUME tail = 0 PROVE q # p
  <2>1. Base(a) < 0
    BY <1>2, <1>6, <1>10
  <2>2. Base(b) > -BLOCK_SIZE
    BY <1>0, <1>2, <1>6
  <2>3. Base(a) = -BLOCK_SIZE
    <3>1. a % BLOCK_SIZE = BLOCK_SIZE - 1
      <4>1. BLOCK_SIZE * p <= -1 /\ -1 < BLOCK_SIZE * p + BLOCK_SIZE
        BY <1>2, <1>4, <1>6, <1>10
      <4>2. BLOCK_SIZE * 0 < BLOCK_SIZE * (p + 1) + BLOCK_SIZE
        BY <1>0, <1>4, <4>1
      <4>3. 0 <= p + 1
        BY <1>0, <1>4, <4>2, ProductOrder
      <4>4. BLOCK_SIZE * p < BLOCK_SIZE * (0 - 1) + BLOCK_SIZE
        BY <1>0, <1>4, <4>1
      <4>5. p <= 0 - 1
        BY <1>0, <1>4, <4>4, ProductOrder
      <4>6. p = -1
        BY <1>4, <4>3, <4>5
      <4> QED BY <1>0, <1>2, <1>4, <1>10, <4>6 DEF Base
    <3> QED BY <1>0, <1>2, <1>10, <3>1 DEF Base
  <2> QED BY <1>0, <1>4, <1>5, <2>2, <2>3
<1> QED BY <1>1, <1>4, <1>5, <1>7, <1>8, <1>9, <1>10

(* A new block is linked into the ring after the tail.                     *)
LEMMA RingGrows ==
  ASSUME NEW nx, NEW free, RingOK(nx, free), NEW tb, TailInRing(tb, RingOf(nx)),
         NEW b \in free, NEW nx2, DOMAIN nx2 = Blocks,
         nx2[b] = IF tb = NoBlock THEN b ELSE nx[tb],
         tb # NoBlock => nx2[tb] = b,
         \A x \in Blocks \ {b, tb} : nx2[x] = nx[x],
         nx2 = [x \in Blocks |-> nx2[x]]
  PROVE  RingOf(nx2) = RingOf(nx) \union {b} /\ RingOK(nx2, free \ {b})
<1>1. b \in Blocks /\ nx[b] = NoBlock /\ b # NoBlock
  BY NoBlockAssumption DEF RingOK, RingOf
<1>2. CASE tb = NoBlock
  <2>1. RingOf(nx) = {}
    BY <1>2, NoBlockAssumption DEF TailInRing, RingOf
  <2>2. /\ nx2 \in [Blocks -> Blocks \union {NoBlock}] /\ nx2[b] = b
        /\ \A x \in Blocks \ {b} : nx2[x] = NoBlock
    <3>1. nx2[b] = b
      BY <1>2
    <3>2. \A x \in Blocks \ {b} : nx[x] = NoBlock /\ nx2[x] = nx[x]
      BY <1>2, <2>1, NoBlockAssumption DEF RingOf
    <3>3. \A x \in Blocks : nx2[x] \in Blocks \union {NoBlock}
      BY <1>1, <3>1, <3>2
    <3> QED BY <3>1, <3>2, <3>3
  <2>3. RingOf(nx2) = {b}
    BY <1>1, <2>2 DEF RingOf
  <2> QED BY <2>1, <2>2, <2>3 DEF RingOK
<1>3. CASE tb # NoBlock
  <2>1. tb \in RingOf(nx) /\ tb \in Blocks /\ tb # b /\ nx[tb] \in RingOf(nx) /\ nx[tb] \in Blocks
    BY <1>1, <1>3 DEF TailInRing, RingOf, RingOK
  <2>2. /\ nx2 \in [Blocks -> Blocks \union {NoBlock}] /\ nx2[b] = nx[tb] /\ nx2[tb] = b
        /\ \A x \in Blocks \ {b, tb} : nx2[x] = nx[x]
    BY <1>1, <1>3, <2>1 DEF RingOK
  <2>3. RingOf(nx2) = RingOf(nx) \union {b}
    BY <1>1, <2>1, <2>2, NoBlockAssumption DEF RingOf
  <2>4. ASSUME NEW x \in RingOf(nx2)
        PROVE  nx2[x] \in RingOf(nx2) /\ \E a \in RingOf(nx2) : nx2[a] = x
    <3>1. nx2[x] \in RingOf(nx2)
      <4>1. CASE x \in {b, tb}
        BY <2>1, <2>2, <2>3, <4>1
      <4>2. CASE x \notin {b, tb}
        <5>1. x \in RingOf(nx) /\ x \in Blocks \ {b, tb}
          BY <2>3, <4>2 DEF RingOf
        <5> QED BY <2>2, <2>3, <5>1 DEF RingOK
      <4> QED BY <4>1, <4>2
    <3>2. CASE x = b
      BY <2>1, <2>2, <2>3, <3>1, <3>2
    <3>3. CASE x # b
      <4>1. PICK a \in RingOf(nx) : nx[a] = x
        BY <2>3, <3>3 DEF RingOK
      <4>2. CASE a = tb
        BY <2>2, <2>3, <3>1, <4>1, <4>2
      <4>3. CASE a # tb
        <5>1. a \in Blocks \ {b, tb}
          BY <1>1, <4>1, <4>3 DEF RingOf
        <5> QED BY <2>2, <2>3, <3>1, <4>1, <5>1
      <4> QED BY <4>2, <4>3
    <3> QED BY <3>2, <3>3
  <2>5. free \ {b} = Blocks \ RingOf(nx2)
    BY <2>3 DEF RingOK
  <2> QED BY <2>2, <2>3, <2>4, <2>5 DEF RingOK
<1> QED BY <1>2, <1>3

(* One more block of the ring in a call that needs more.                   *)
LEMMA CallGrows ==
  ASSUME NEW p, NEW tail, NEW ring, NEW ring2, CallInRing(p, tail, ring),
         ring \subseteq ring2, NEW b \in ring2, NEW pc, pc \in {"ahead", "new"}, p.pc \in {"ahead", "new"},
         NEW p2, DOMAIN p2 = CallFields, p2.pc = IF p.need = 1 THEN "reset" ELSE pc,
         p2.need = p.need - 1, p2.chain = Append(p.chain, b), p2.count = p.count, p2.start = p.start
  PROVE  CallInRing(p2, tail, ring2) /\ p2.pc # "idle"
<1>1. p.need \in Nat \ {0} /\ p.chain \in Seq(ring2)
  BY DEF CallInRing
<1>3. p2.chain \in Seq(ring2) /\ Len(p2.chain) = Len(p.chain) + 1 /\ p2.chain # <<>> /\ Len(p.chain) \in Nat
  <2>1. PICK s, s2 : s = p.chain /\ s2 = p2.chain
    OBVIOUS
  <2>2. s \in Seq(ring2) /\ s2 = Append(s, b)
    BY <1>1, <2>1
  <2>3. s2 \in Seq(ring2) /\ Len(s2) = Len(s) + 1 /\ Len(s) \in Nat
    BY <2>2
  <2>4. s2 # <<>>
    BY <2>3
  <2> QED BY <2>1, <2>3, <2>4
<1>4. Len(p2.chain) + p2.need = Needs(tail, p.count)
  <2>1. Len(p.chain) + p.need = Needs(tail, p.count)
    BY DEF CallInRing
  <2>2. Len(p2.chain) + p2.need = Len(p.chain) + p.need
    <3>1. PICK m, n, k, l : m = Len(p2.chain) /\ n = Len(p.chain) /\ k = p2.need /\ l = p.need
      OBVIOUS
    <3>2. n \in Nat /\ m = n + 1 /\ l \in Nat /\ k = l - 1
      BY <1>1, <1>3, <3>1
    <3>3. m + k = n + l
      BY ONLY <3>2
    <3> QED BY <3>1, <3>3
  <2> QED BY <2>1, <2>2
<1>5. p2.need \in Nat /\ (p2.pc \in {"ahead", "new"} => p2.need # 0)
      /\ (p2.pc \in {"reset", "fill"} => p2.need = 0) /\ p2.pc # "idle"
  BY <1>1
<1> QED BY <1>3, <1>4, <1>5 DEF CallInRing

(* A step of a call that changes neither its blocks nor their number.      *)
LEMMA CallGoesOn ==
  ASSUME NEW p, NEW tail, NEW ring, CallInRing(p, tail, ring), NEW p2,
         DOMAIN p2 = CallFields, p2.count = p.count, p2.need = p.need, p2.chain = p.chain,
         p2.start = p.start, p2.pc \in {"ahead", "new"} => p.pc \in {"ahead", "new"},
         p2.pc \in {"reset", "fill"} => p.pc \in {"reset", "fill"}
  PROVE  CallInRing(p2, tail, ring)
BY DEF CallInRing

(* The block of the last element of a call is in the ring.                 *)
LEMMA LastBlockInRing ==
  ASSUME RingInv, producer.pc = "fill"
  PROVE  BlockOf(producer.start, tailIndex + producer.count - 1) \in RingOf(next)
<1>1. CallInRing(producer, tailIndex, RingOf(next)) /\ tailIndex \in Nat
  BY DEF RingInv
<1>2. PICK p : p = producer
  OBVIOUS
<1>3. /\ p.count \in Nat \ {0} /\ p.need = 0 /\ p.chain \in Seq(RingOf(next))
      /\ p.start \in RingOf(next) \union {NoBlock}
      /\ Len(p.chain) + p.need = Needs(tailIndex, p.count)
      /\ tailIndex > 0 => p.start # NoBlock
  BY <1>1, <1>2 DEF CallInRing
<1>4. /\ Needs(tailIndex, p.count) \in Nat
      /\ Needs(tailIndex, p.count) = 0 <=> Base(tailIndex + p.count - 1) = Base(tailIndex - 1)
      /\ tailIndex = 0 => Needs(tailIndex, p.count) # 0
  BY <1>1, <1>3, NeedsIs
<1>5. Len(p.chain) = Needs(tailIndex, p.count)
  BY <1>3, <1>4
<1>6. CASE Base(tailIndex + p.count - 1) = Base(tailIndex - 1)
  <2>1. p.start \in RingOf(next)
    BY <1>1, <1>3, <1>4, <1>6
  <2> QED BY <1>2, <1>6, <2>1 DEF BlockOf
<1>7. CASE Base(tailIndex + p.count - 1) # Base(tailIndex - 1)
  <2>1. BlockOf(p.start, tailIndex + p.count - 1) = p.chain[Needs(tailIndex, p.count)]
    BY <1>2, <1>7 DEF BlockOf, Needs
  <2>2. Needs(tailIndex, p.count) \in 1 .. Len(p.chain)
    BY <1>4, <1>5, <1>7
  <2>3. p.chain[Needs(tailIndex, p.count)] \in RingOf(next)
    BY <1>3, <2>2
  <2> QED BY <1>2, <2>1, <2>3
<1> QED BY <1>6, <1>7

(* The steps of an explicit producer keep the ring.                        *)
LEMMA ExplicitProduceKeepsRing ==
  ASSUME RingInv, ExplicitProduce
  PROVE  RingInv'
<1>0. PICK p : p = producer
  OBVIOUS
<1>r. PICK ring : ring = RingOf(next)
  OBVIOUS
<1>i. /\ tailIndex \in Nat /\ RingOK(next, pool) /\ TailInRing(tailBlock, ring)
      /\ p.pc = "idle" => (tailIndex > 0 => tailBlock # NoBlock)
      /\ p.pc # "idle" => CallInRing(p, tailIndex, ring)
  BY <1>0, <1>r DEF RingInv
<1>1. ASSUME NEW n \in Counts, ExplicitEnqueue(n) PROVE RingInv'
  <2>1. n \in Nat \ {0}
    BY SizesAssumption
  <2>2. /\ p.pc = "idle" /\ UNCHANGED <<tailIndex, next, pool, tailBlock>>
        /\ producer' = [pc |-> IF BlocksNeeded(n) = 0 THEN "fill" ELSE "ahead",
                  count |-> n, need |-> BlocksNeeded(n), chain |-> <<>>, start |-> tailBlock,
                  front |-> pr_blockIndexFront, slotsUsed |-> pr_blockIndexSlotsUsed,
                  published |-> FALSE]
    BY <1>0, <1>1 DEF ExplicitEnqueue, indexVars, blockVars, explicitVars
  <2>3. PICK m : m = BlocksNeeded(n)
    OBVIOUS
  <2>4. m = Needs(tailIndex, n) /\ m \in Nat /\ (tailIndex = 0 => m # 0)
    BY <1>i, <2>1, <2>3, NeedsIs DEF BlocksNeeded, Needs
  <2>5. PICK p2 : p2 = producer'
    OBVIOUS
  <2>6. /\ DOMAIN p2 = CallFields /\ p2.pc = (IF m = 0 THEN "fill" ELSE "ahead")
        /\ p2.count = n /\ p2.need = m /\ p2.chain = <<>> /\ p2.start = tailBlock
    BY <2>2, <2>3, <2>5 DEF CallFields
  <2>7. CallInRing(p2, tailIndex, ring)
    <3>1. p2.chain \in Seq(ring) /\ Len(p2.chain) + p2.need = Needs(tailIndex, n)
      BY <2>4, <2>6
    <3>2. /\ p2.start \in ring \union {NoBlock} /\ (tailIndex > 0 => p2.start # NoBlock)
          /\ p2.start = NoBlock => ring = {}
      BY <1>r, <1>i, <2>2, <2>6, NoBlockAssumption DEF TailInRing, RingOf
    <3> QED BY <2>1, <2>4, <2>6, <3>1, <3>2 DEF CallInRing
  <2>8. p2.pc # "idle"
    BY <2>6
  <2> QED BY <1>r, <1>i, <2>2, <2>5, <2>7, <2>8 DEF RingInv
<1>2. CASE ExplicitAhead
  <2>1. /\ p.pc = "ahead" /\ tailBlock # NoBlock /\ tailBlock' = next[tailBlock]
        /\ UNCHANGED <<tailIndex, next, pool>>
        /\ producer' = [p EXCEPT !.pc = IF p.need = 1 THEN "reset" ELSE "ahead",
                                 !.need = @ - 1, !.chain = Append(@, next[tailBlock])]
    BY <1>0, <1>2 DEF ExplicitAhead, EmptyAhead, AddEntry, MoreBlocks, indexVars
  <2>2. tailBlock' \in ring
    BY <1>r, <1>i, <2>1 DEF TailInRing, RingOK
  <2>3. PICK p2 : p2 = producer'
    OBVIOUS
  <2>4. PICK b \in ring : b = next[tailBlock]
    BY <2>1, <2>2
  <2>5. /\ DOMAIN p2 = CallFields /\ p2.pc = (IF p.need = 1 THEN "reset" ELSE "ahead")
        /\ p2.need = p.need - 1 /\ p2.chain = Append(p.chain, b)
        /\ p2.count = p.count /\ p2.start = p.start
    BY <1>i, <2>1, <2>3, <2>4 DEF CallInRing, CallFields
  <2>6. CallInRing(p, tailIndex, ring) /\ p.pc \in {"ahead", "new"}
    BY <1>i, <2>1
  <2>7. CallInRing(p2, tailIndex, ring) /\ p2.pc # "idle"
    <3>1. PICK pc : pc = "ahead"
      OBVIOUS
    <3> QED BY <2>5, <2>6, <3>1, CallGrows
  <2> QED BY <1>r, <1>i, <2>1, <2>2, <2>3, <2>7 DEF RingInv, TailInRing
<1>3. CASE ExplicitNoneAhead
  <2>1. /\ p.pc = "ahead" /\ UNCHANGED <<tailIndex, next, pool, tailBlock>>
        /\ producer' = [p EXCEPT !.pc = "new"]
    BY <1>0, <1>3 DEF ExplicitNoneAhead, indexVars, blockVars, explicitVars
  <2>2. PICK p2 : p2 = producer'
    OBVIOUS
  <2>3. /\ DOMAIN p2 = CallFields /\ p2.pc = "new" /\ p2.count = p.count /\ p2.need = p.need
        /\ p2.chain = p.chain /\ p2.start = p.start
    BY <1>i, <2>1, <2>2 DEF CallInRing, CallFields
  <2>4. CallInRing(p2, tailIndex, ring)
    BY <1>i, <2>1, <2>3, CallGoesOn
  <2> QED BY <1>r, <1>i, <2>1, <2>2, <2>3, <2>4 DEF RingInv
<1>4. CASE ExplicitNewIndex
  <2>1. /\ p.pc = "new" /\ UNCHANGED <<tailIndex, next, pool, tailBlock>>
        /\ producer' = [p EXCEPT !.front = p.slotsUsed]
    BY <1>0, <1>4 DEF ExplicitNewIndex, indexVars, blockVars
  <2>2. PICK p2 : p2 = producer'
    OBVIOUS
  <2>3. /\ DOMAIN p2 = CallFields /\ p2.pc = "new" /\ p2.count = p.count /\ p2.need = p.need
        /\ p2.chain = p.chain /\ p2.start = p.start
    BY <1>i, <2>1, <2>2 DEF CallInRing, CallFields
  <2>4. CallInRing(p2, tailIndex, ring)
    BY <1>i, <2>1, <2>3, CallGoesOn
  <2> QED BY <1>r, <1>i, <2>1, <2>2, <2>3, <2>4 DEF RingInv
<1>5. CASE ExplicitBlock
  <2>1. PICK b \in pool :
          /\ p.pc = "new" /\ pool' = pool \ {b} /\ tailBlock' = b /\ tailIndex' = tailIndex
          /\ next' = IF tailBlock = NoBlock THEN [next EXCEPT ![b] = b]
                     ELSE [next EXCEPT ![b] = next[tailBlock], ![tailBlock] = b]
          /\ producer' = [p EXCEPT !.pc = IF p.need = 1 THEN "reset" ELSE "new",
                                   !.need = @ - 1, !.chain = Append(@, b)]
    BY <1>0, <1>5 DEF ExplicitBlock, AddEntry, MoreBlocks, indexVars
  <2>2. PICK nx2 : nx2 = next'
    OBVIOUS
  <2>3. RingOf(nx2) = ring \union {b} /\ RingOK(nx2, pool \ {b})
    <3>1. PICK tb : tb = tailBlock
      OBVIOUS
    <3>2. RingOK(next, pool) /\ TailInRing(tb, RingOf(next))
      BY <1>r, <1>i, <3>1
    <3>3. b \in Blocks /\ next[b] = NoBlock /\ DOMAIN next = Blocks /\ (tb # NoBlock => tb \in Blocks \ {b})
      BY <3>2 DEF RingOK, RingOf, TailInRing
    <3>4. /\ DOMAIN nx2 = Blocks /\ nx2[b] = (IF tb = NoBlock THEN b ELSE next[tb])
          /\ tb # NoBlock => nx2[tb] = b
          /\ \A x \in Blocks \ {b, tb} : nx2[x] = next[x]
          /\ nx2 = [x \in Blocks |-> nx2[x]]
      BY <2>1, <2>2, <3>1, <3>3
    <3> QED BY <1>r, <3>2, <3>4, RingGrows
  <2>4. PICK p2 : p2 = producer'
    OBVIOUS
  <2>5. CallInRing(p2, tailIndex, RingOf(nx2)) /\ p2.pc # "idle"
    <3>1. PICK ring2 : ring2 = RingOf(nx2)
      OBVIOUS
    <3>2. ring \subseteq ring2 /\ b \in ring2
      BY <2>3, <3>1
    <3>3. PICK pc : pc = "new"
      OBVIOUS
    <3>4. /\ DOMAIN p2 = CallFields /\ p2.pc = (IF p.need = 1 THEN "reset" ELSE pc)
          /\ p2.need = p.need - 1 /\ p2.chain = Append(p.chain, b)
          /\ p2.count = p.count /\ p2.start = p.start
      BY <1>i, <2>1, <2>4, <3>3 DEF CallInRing, CallFields
    <3>5. CallInRing(p, tailIndex, ring) /\ p.pc \in {"ahead", "new"} /\ pc \in {"ahead", "new"}
      BY <1>i, <2>1, <3>3
    <3>6. CallInRing(p2, tailIndex, ring2) /\ p2.pc # "idle"
      BY <3>2, <3>4, <3>5, CallGrows
    <3> QED BY <3>1, <3>6
  <2> QED BY <1>i, <2>1, <2>2, <2>3, <2>4, <2>5 DEF RingInv, TailInRing
<1>6. CASE ExplicitReset
  <2>1. PICK noexcept \in BOOLEAN :
          /\ p.pc = "reset" /\ UNCHANGED <<tailIndex, next, pool, tailBlock>>
          /\ producer' = [p EXCEPT !.pc = "fill", !.published = noexcept]
    BY <1>0, <1>6 DEF ExplicitReset, indexVars, blockVars
  <2>2. PICK p2 : p2 = producer'
    OBVIOUS
  <2>3. /\ DOMAIN p2 = CallFields /\ p2.pc = "fill" /\ p2.count = p.count /\ p2.need = p.need
        /\ p2.chain = p.chain /\ p2.start = p.start
    BY <1>i, <2>1, <2>2 DEF CallInRing, CallFields
  <2>4. CallInRing(p2, tailIndex, ring)
    BY <1>i, <2>1, <2>3, CallGoesOn
  <2> QED BY <1>r, <1>i, <2>1, <2>2, <2>3, <2>4 DEF RingInv
<1>7. CASE ExplicitUndo
  <2>1. /\ p.pc \in {"new", "fill"} /\ UNCHANGED <<tailIndex, next, pool>>
        /\ tailBlock' = IF p.start # NoBlock THEN p.start
                        ELSE IF p.chain # <<>> THEN p.chain[1] ELSE NoBlock
        /\ producer' = Idle
    BY <1>0, <1>7 DEF ExplicitUndo, indexVars
  <2>2. CallInRing(p, tailIndex, ring)
    BY <1>i, <2>1
  <2>3. p.chain # <<>> => p.chain[1] \in ring
    BY <2>2 DEF CallInRing
  <2>4. TailInRing(tailBlock', ring) /\ (tailIndex > 0 => tailBlock' # NoBlock)
    BY <2>1, <2>2, <2>3 DEF CallInRing, TailInRing
  <2> QED BY <1>r, <1>i, <2>1, <2>4 DEF RingInv, Idle
<1>8. CASE ExplicitFill
  <2>1. /\ p.pc = "fill" /\ UNCHANGED <<next, pool>> /\ producer' = Idle
        /\ tailBlock' = BlockOf(p.start, tailIndex + p.count - 1)
        /\ tailIndex' = tailIndex + p.count
    BY <1>0, <1>8 DEF ExplicitFill
  <2>2. tailBlock' \in ring
    BY <1>0, <1>r, <2>1, LastBlockInRing
  <2>3. tailBlock' # NoBlock
    BY <1>r, <2>2, NoBlockAssumption DEF RingOf
  <2>4. tailIndex' \in Nat
    BY <1>i, <2>1 DEF CallInRing
  <2> QED BY <1>r, <1>i, <2>1, <2>2, <2>3, <2>4 DEF RingInv, TailInRing, Idle
<1> QED BY <1>1, <1>2, <1>3, <1>4, <1>5, <1>6, <1>7, <1>8 DEF ExplicitProduce

(* Consumers of an explicit sub-queue touch neither the ring nor the pool. *)
LEMMA ExplicitConsumeKeepsRing ==
  ASSUME RingInv, NEW c \in Consumers, ExplicitConsume(c)
  PROVE  RingInv'
<1>1. UNCHANGED <<tailIndex, next, pool, tailBlock, producer>>
  BY DEF ExplicitConsume, LoadTail, ReserveSteps, LoadOvercommit, Desire, Reserve, Check, GiveBack,
         Claim, ExplicitLocate, ExplicitFind, ExplicitRead, ReadBlock, ExplicitEmpty,
         indexVars, blockVars, explicitVars
<1> QED BY <1>1 DEF RingInv

(* The kind of a sub-queue does not change.                                *)
LEMMA KindKept ==
  ASSUME [Next]_vars PROVE isExplicit' = isExplicit
<1>1. CASE Produce
  BY <1>1 DEF Produce, ImplicitProduce, ImplicitEnqueue, ImplicitInsert, ImplicitNoEntry,
              ImplicitBlock, ImplicitUndo, ImplicitFill, ExplicitProduce, ExplicitEnqueue,
              ExplicitAhead, ExplicitNoneAhead, ExplicitNewIndex, ExplicitBlock,
              ExplicitReset, ExplicitUndo, ExplicitFill
<1>2. ASSUME NEW c \in Consumers, Consume(c) PROVE isExplicit' = isExplicit
  BY <1>2 DEF Consume, ImplicitConsume, ExplicitConsume, LoadTail, ReserveSteps,
              LoadOvercommit, Desire, Reserve, Check, GiveBack, Claim, ReadBlock,
              ImplicitLocate, ImplicitFind, ImplicitRead, ImplicitEmpty, ImplicitClear,
              ImplicitRelease, ExplicitLocate, ExplicitFind, ExplicitRead, ExplicitEmpty
<1>3. CASE UNCHANGED vars
  BY <1>3 DEF vars
<1> QED BY <1>1, <1>2, <1>3 DEF Next

(* The inductive invariant of the ring: the blocks of a call and the tail  *)
(* are in the ring, also while a call that may fail is in progress.        *)
THEOREM RingInvariant == Spec => [](isExplicit => RingInv)
<1>1. Init => (isExplicit => RingInv)
  <2> SUFFICES ASSUME Init PROVE RingInv
    OBVIOUS
  <2>1. /\ tailIndex = 0 /\ pool = Blocks /\ next = [b \in Blocks |-> NoBlock]
        /\ tailBlock = NoBlock /\ producer = Idle
    BY DEF Init, ProducerBaseInit, ExplicitInit
  <2>2. RingOf(next) = {}
    BY <2>1 DEF RingOf
  <2> QED BY <2>1, <2>2 DEF RingInv, RingOK, TailInRing, Idle
<1>2. (isExplicit => RingInv) /\ [Next]_vars => (isExplicit => RingInv)'
  <2> SUFFICES ASSUME isExplicit => RingInv, [Next]_vars, isExplicit' PROVE RingInv'
    OBVIOUS
  <2>0. isExplicit
    BY KindKept
  <2>1. CASE Produce
    BY <2>0, <2>1, ExplicitProduceKeepsRing DEF Produce
  <2>2. ASSUME NEW c \in Consumers, Consume(c) PROVE RingInv'
    BY <2>0, <2>2, ExplicitConsumeKeepsRing DEF Consume
  <2>3. CASE UNCHANGED vars
    BY <2>3 DEF vars, indexVars, blockVars, explicitVars, RingInv
  <2> QED BY <2>1, <2>2, <2>3 DEF Next
<1> QED BY <1>1, <1>2, PTL DEF Spec

(* An explicit producer loses none of its blocks and takes none that is in *)
(* the pool, even though a call that fails leaves its blocks in the ring   *)
(* (enqueue and enqueue_bulk of ExplicitProducer).                         *)
THEOREM RingKeepsItsBlocks == Spec => [](isExplicit => BlocksOwnedOnce)
<1>1. RingInv => (isExplicit => BlocksOwnedOnce)
  <2> SUFFICES ASSUME RingInv, isExplicit PROVE BlocksOwnedOnce
    OBVIOUS
  <2>1. PICK ring : ring = {b \in Blocks : next[b] # NoBlock}
    OBVIOUS
  <2>2. pool = Blocks \ ring /\ \A b \in ring : next[b] \in ring /\ \E a \in ring : next[a] = b
    BY <2>1 DEF RingInv, RingOK, RingOf
  <2>3. {next[b] : b \in ring} = ring
    BY <2>2
  <2>4. ring # {} => tailBlock \in ring
    BY <2>1 DEF RingInv, TailInRing, RingOf
  <2> QED BY <2>1, <2>2, <2>3, <2>4 DEF BlocksOwnedOnce
<1> QED BY <1>1, RingInvariant, PTL
-----------------------------------------------------------------------------
(* The size of a block.                                                    *)
LEMMA BlockSize == BLOCK_SIZE \in Nat \ {0, 1}
BY SizesAssumption

(* The number of a block and the place in it.                              *)
LEMMA NumIs ==
  ASSUME NEW i \in Int
  PROVE  /\ Num(i) \in Int /\ BLOCK_SIZE * Num(i) \in Int
         /\ BLOCK_SIZE * Num(i) <= i /\ i < BLOCK_SIZE * Num(i) + BLOCK_SIZE
         /\ Base(i) = BLOCK_SIZE * Num(i)
         /\ i % BLOCK_SIZE = i - BLOCK_SIZE * Num(i) /\ i % BLOCK_SIZE \in Slots
<1>1. BLOCK_SIZE \in Nat \ {0}
  BY BlockSize
<1>2. Num(i) \in Int /\ i % BLOCK_SIZE \in 0 .. BLOCK_SIZE - 1
      /\ i - (i % BLOCK_SIZE) = BLOCK_SIZE * Num(i)
  BY <1>1, DivMod DEF Num
<1>3. PICK r, x : r = i % BLOCK_SIZE /\ x = BLOCK_SIZE * Num(i)
  OBVIOUS
<1>4. r \in 0 .. BLOCK_SIZE - 1 /\ i - r = x
  BY <1>2, <1>3
<1>5. x \in Int /\ x <= i /\ i < x + BLOCK_SIZE /\ r = i - x
  BY <1>1, <1>4
<1> QED BY <1>2, <1>3, <1>4, <1>5 DEF Base, Slots

(* A number is that of the block in whose span the index is.               *)
LEMMA NumUnique ==
  ASSUME NEW i \in Int, NEW n \in Int, BLOCK_SIZE * n <= i, i < BLOCK_SIZE * n + BLOCK_SIZE
  PROVE  Num(i) = n
<1>1. BLOCK_SIZE \in Nat \ {0}
  BY BlockSize
<1>2. PICK m : m = Num(i)
  OBVIOUS
<1>3. m \in Int /\ BLOCK_SIZE * m <= i /\ i < BLOCK_SIZE * m + BLOCK_SIZE
  BY <1>2, NumIs
<1>4. BLOCK_SIZE * m < BLOCK_SIZE * n + BLOCK_SIZE /\ BLOCK_SIZE * n < BLOCK_SIZE * m + BLOCK_SIZE
  <2>1. PICK x, y : x = BLOCK_SIZE * m /\ y = BLOCK_SIZE * n
    OBVIOUS
  <2>2. x \in Int /\ y \in Int
    BY <1>1, <1>3, <2>1
  <2> QED BY <1>1, <1>3, <2>1, <2>2
<1>5. m <= n
  BY <1>1, <1>3, <1>4, ProductOrder
<1>6. n <= m
  BY <1>1, <1>3, <1>4, ProductOrder
<1> QED BY <1>2, <1>3, <1>5, <1>6

(* The span of a block.                                                    *)
LEMMA SpanIs ==
  ASSUME NEW i, NEW n \in Int
  PROVE  i \in Span(n) <=> i \in Int /\ Num(i) = n
<1>1. ASSUME i \in Span(n) PROVE i \in Int /\ Num(i) = n
  <2>1. BLOCK_SIZE * n \in Int /\ BLOCK_SIZE \in Nat
    BY BlockSize
  <2>2. PICK x : x = BLOCK_SIZE * n
    OBVIOUS
  <2>3. i \in Int /\ x <= i /\ i < x + BLOCK_SIZE
    BY <1>1, <2>1, <2>2 DEF Span
  <2> QED BY <2>2, <2>3, NumUnique
<1>2. ASSUME i \in Int, Num(i) = n PROVE i \in Span(n)
  <2>1. PICK x : x = BLOCK_SIZE * n
    OBVIOUS
  <2>2. x \in Int /\ x <= i /\ i < x + BLOCK_SIZE /\ BLOCK_SIZE \in Nat
    BY <1>2, <2>1, NumIs, BlockSize
  <2>3. i \in x .. x + BLOCK_SIZE - 1
    BY <1>2, <2>2
  <2> QED BY <2>1, <2>3 DEF Span
<1> QED BY <1>1, <1>2

(* Later elements are in later blocks.                                     *)
LEMMA NumOrder ==
  ASSUME NEW i \in Int, NEW j \in Int, i <= j
  PROVE  Num(i) <= Num(j)
<1>1. PICK m, n : m = Num(i) /\ n = Num(j)
  OBVIOUS
<1>2. m \in Int /\ n \in Int /\ BLOCK_SIZE * m <= i /\ j < BLOCK_SIZE * n + BLOCK_SIZE
      /\ BLOCK_SIZE * m \in Int /\ BLOCK_SIZE * n \in Int /\ BLOCK_SIZE \in Nat \ {0}
  BY <1>1, NumIs, BlockSize
<1>3. PICK x, y : x = BLOCK_SIZE * m /\ y = BLOCK_SIZE * n
  OBVIOUS
<1>4. BLOCK_SIZE * m < BLOCK_SIZE * n + BLOCK_SIZE
  <2>1. x < y + BLOCK_SIZE
    BY <1>2, <1>3
  <2> QED BY <1>3, <2>1
<1>5. m <= n
  BY <1>2, <1>4, ProductOrder
<1> QED BY <1>1, <1>5

(* Numbers are ordered as the starts of their blocks.                      *)
LEMMA StartOrder ==
  ASSUME NEW m \in Int, NEW n \in Int
  PROVE  /\ BLOCK_SIZE * m \in Int
         /\ m <= n => BLOCK_SIZE * m <= BLOCK_SIZE * n
         /\ m < n => BLOCK_SIZE * m + BLOCK_SIZE <= BLOCK_SIZE * n
         /\ BLOCK_SIZE * (m + 1) = BLOCK_SIZE * m + BLOCK_SIZE
         /\ BLOCK_SIZE * m = BLOCK_SIZE * n => m = n
<1>1. BLOCK_SIZE \in Nat \ {0}
  BY BlockSize
<1>2. BLOCK_SIZE * m \in Int /\ BLOCK_SIZE * n \in Int /\ BLOCK_SIZE * (m + 1) = BLOCK_SIZE * m + BLOCK_SIZE
  BY <1>1
<1>3. ASSUME m <= n PROVE BLOCK_SIZE * m <= BLOCK_SIZE * n
  <2>1. BLOCK_SIZE * (n - m) >= 0 /\ BLOCK_SIZE * (n - m) = BLOCK_SIZE * n - BLOCK_SIZE * m
    BY <1>1, <1>3
  <2> QED BY <1>2, <2>1
<1>4. ASSUME m < n PROVE BLOCK_SIZE * m + BLOCK_SIZE <= BLOCK_SIZE * n
  <2>1. BLOCK_SIZE * (n - (m + 1)) >= 0
        /\ BLOCK_SIZE * (n - (m + 1)) = BLOCK_SIZE * n - (BLOCK_SIZE * m + BLOCK_SIZE)
    BY <1>1, <1>4
  <2> QED BY <1>1, <1>2, <2>1
<1>5. ASSUME BLOCK_SIZE * m = BLOCK_SIZE * n PROVE m = n
  <2>1. BLOCK_SIZE * m < BLOCK_SIZE * n + BLOCK_SIZE /\ BLOCK_SIZE * n < BLOCK_SIZE * m + BLOCK_SIZE
    BY <1>1, <1>2, <1>5
  <2>2. m <= n /\ n <= m
    BY <1>1, <2>1, ProductOrder
  <2> QED BY <2>2
<1> QED BY <1>2, <1>3, <1>4, <1>5

(* A multiple of c that is less than c away from 0 is 0.                   *)
LEMMA SmallMultiple ==
  ASSUME NEW d \in Int, NEW c \in Nat \ {0}, c * d < c, -c < c * d
  PROVE  d = 0
<1>1. c * d < c * 0 + c /\ c * 0 < c * d + c
  BY Z3
<1>2. d <= 0
  BY <1>1, ProductOrder
<1>3. 0 <= d
  BY <1>1, ProductOrder
<1> QED BY <1>2, <1>3

(* Numbers that differ by a multiple of c have the same rest.              *)
LEMMA ModOfSum ==
  ASSUME NEW a \in Int, NEW q \in Int, NEW c \in Nat \ {0}
  PROVE  (a + c * q) % c = a % c
<1>1. PICK b : b = a + c * q
  OBVIOUS
<1>2. b \in Int
  BY <1>1
<1>3. PICK m, n, r, t : m = a \div c /\ n = b \div c /\ r = a % c /\ t = b % c
  OBVIOUS
<1>4. m \in Int /\ r \in 0 .. c - 1 /\ a - r = c * m
  BY <1>3, DivMod
<1>5. n \in Int /\ t \in 0 .. c - 1 /\ b - t = c * n
  BY <1>2, <1>3, DivMod
<1>6. c * (n - m - q) = r - t
  <2>1. c * (n - m - q) = c * n - c * m - c * q
    BY <1>4, <1>5
  <2>2. PICK x, y, z : x = c * n /\ y = c * m /\ z = c * q
    OBVIOUS
  <2>3. x \in Int /\ y \in Int /\ z \in Int
    BY <1>4, <1>5, <2>2
  <2>4. x - y - z = r - t
    BY <1>1, <1>4, <1>5, <2>2, <2>3
  <2> QED BY <2>1, <2>2, <2>4
<1>7. PICK d : d = n - m - q
  OBVIOUS
<1>8. d \in Int /\ c * d = r - t
  BY <1>4, <1>5, <1>6, <1>7
<1>9. c * d < c /\ -c < c * d
  BY <1>4, <1>5, <1>8
<1>10. d = 0
  BY <1>8, <1>9, SmallMultiple
<1>11. r - t = 0
  BY <1>8, <1>10
<1> QED BY <1>1, <1>3, <1>4, <1>5, <1>11

(* A rest may be taken before or after adding.                             *)
LEMMA ModShift ==
  ASSUME NEW a \in Int, NEW d \in Int, NEW c \in Nat \ {0}
  PROVE  ((a % c) + d) % c = (a + d) % c
<1>1. PICK q : q = a \div c
  OBVIOUS
<1>2. q \in Int /\ a % c \in Int /\ a - (a % c) = c * q /\ c * q \in Int
  BY <1>1, DivMod
<1>3. PICK r, x : r = a % c /\ x = c * q
  OBVIOUS
<1>4. a + d = (r + d) + x /\ r + d \in Int
  BY <1>2, <1>3
<1>5. ((r + d) + c * q) % c = (r + d) % c
  BY <1>2, <1>4, ModOfSum
<1> QED BY <1>3, <1>4, <1>5

(* A number below c is its own rest.                                       *)
LEMMA ModSmall ==
  ASSUME NEW a \in Nat, NEW c \in Nat, a < c
  PROVE  a % c = a
OBVIOUS

(* Numbers less than c apart differ modulo c.                              *)
LEMMA ModApart ==
  ASSUME NEW a \in Int, NEW b \in Int, NEW c \in Nat \ {0}, a % c = b % c, a - b < c, b - a < c
  PROVE  a = b
<1>1. PICK p, q, r : p = a \div c /\ q = b \div c /\ r = a % c
  OBVIOUS
<1>2. p \in Int /\ r \in Int /\ a - r = c * p
  BY <1>1, DivMod
<1>3. q \in Int /\ b - r = c * q
  <2>1. b - (b % c) = c * (b \div c) /\ b \div c \in Int
    BY DivMod
  <2> QED BY <1>1, <2>1
<1>4. PICK d : d = p - q
  OBVIOUS
<1>5. d \in Int /\ c * d = a - b
  <2>1. c * (p - q) = c * p - c * q
    BY <1>2, <1>3
  <2>2. PICK x, y : x = c * p /\ y = c * q
    OBVIOUS
  <2>3. x - y = a - b
    BY <1>2, <1>3, <2>2
  <2> QED BY <1>2, <1>3, <1>4, <2>1, <2>2, <2>3
<1>6. c * d < c /\ -c < c * d
  BY <1>5
<1>7. d = 0
  BY <1>5, <1>6, SmallMultiple
<1>8. c * d = 0
  BY <1>7
<1> QED BY <1>5, <1>8

(* What a call needs, in numbers of blocks.                                *)
LEMMA NeedsNum ==
  ASSUME NEW tail \in Nat, NEW count \in Nat \ {0}
  PROVE  Needs(tail, count) = Num(tail + count - 1) - Num(tail - 1)
<1>1. PICK a, b : a = tail - 1 /\ b = tail + count - 1
  OBVIOUS
<1>2. PICK p, q : p = Num(a) /\ q = Num(b)
  OBVIOUS
<1>3. a \in Int /\ b \in Int
  BY <1>1
<1>4. p \in Int /\ q \in Int /\ Base(a) = BLOCK_SIZE * p /\ Base(b) = BLOCK_SIZE * q
      /\ BLOCK_SIZE \in Nat \ {0}
  BY <1>2, <1>3, NumIs, BlockSize
<1>5. BLOCK_SIZE * q - BLOCK_SIZE * p = BLOCK_SIZE * (q - p)
  BY <1>4
<1>6. (BLOCK_SIZE * (q - p)) \div BLOCK_SIZE = q - p
  BY <1>4, DivOfProduct
<1> QED BY <1>1, <1>2, <1>4, <1>5, <1>6 DEF Needs
-----------------------------------------------------------------------------
(* A slot of a header is an entry.                                         *)
LEMMA SlotIn ==
  ASSUME NEW h, NEW size \in Nat, HeaderOK(h, size), NEW pos \in Int, NEW d \in Int
  PROVE  (pos + d) % h.capacity \in 0 .. h.capacity - 1 /\ SlotOf(h, pos, d) \in 1 .. size
<1>1. h.capacity \in Nat \ {0} /\ h.index \in [0 .. h.capacity - 1 -> 1 .. size]
  BY DEF HeaderOK
<1>2. PICK a, q, c : a = pos + d /\ q = (pos + d) % h.capacity /\ c = h.capacity
  OBVIOUS
<1>3. a \in Int /\ c \in Nat \ {0} /\ q = a % c
  BY <1>1, <1>2
<1>4. q \in 0 .. c - 1
  BY <1>3, DivMod
<1>5. h.index[q] \in 1 .. size
  BY <1>1, <1>2, <1>4
<1> QED BY <1>2, <1>4, <1>5 DEF SlotOf

(* The home of a block is an entry.                                        *)
LEMMA HomeIn ==
  ASSUME NEW h, NEW size \in Nat, HeaderOK(h, size), NEW top \in Int, NEW n \in Int
  PROVE  Home(h, top, n) \in 1 .. size
<1>1. h.tail \in Int /\ n - top \in Int
  BY DEF HeaderOK
<1> QED BY <1>1, SlotIn DEF Home

(* Slots at different distances differ, if these are less than the         *)
(* capacity apart.                                                         *)
LEMMA SlotsApart ==
  ASSUME NEW h, NEW size \in Nat, HeaderOK(h, size), NEW pos \in Int, NEW d \in Int, NEW e \in Int,
         d - e < h.capacity, e - d < h.capacity, SlotOf(h, pos, d) = SlotOf(h, pos, e)
  PROVE  d = e
<1>1. PICK a, b, c : a = pos + d /\ b = pos + e /\ c = h.capacity
  OBVIOUS
<1>2. a \in Int /\ b \in Int /\ c \in Nat \ {0} /\ a - b < c /\ b - a < c
  BY <1>1 DEF HeaderOK
<1>3. a % c \in 0 .. c - 1 /\ b % c \in 0 .. c - 1
  BY <1>2, DivMod
<1>4. h.index[a % c] = h.index[b % c]
  BY <1>1 DEF SlotOf
<1>5. a % c = b % c
  BY <1>1, <1>3, <1>4 DEF HeaderOK
<1>6. a = b
  BY <1>2, <1>5, ModApart
<1> QED BY <1>1, <1>6

(* Homes of blocks less than the capacity apart differ.                    *)
LEMMA HomesApart ==
  ASSUME NEW h, NEW size \in Nat, HeaderOK(h, size), NEW top \in Int, NEW m \in Int, NEW n \in Int,
         m - n < h.capacity, n - m < h.capacity, Home(h, top, m) = Home(h, top, n)
  PROVE  m = n
<1>1. PICK d, e : d = m - top /\ e = n - top
  OBVIOUS
<1>2. d \in Int /\ e \in Int /\ d - e < h.capacity /\ e - d < h.capacity /\ h.tail \in Int
  <2>1. h.capacity \in Nat /\ h.tail \in Int
    BY DEF HeaderOK
  <2> QED BY <1>1, <2>1
<1>3. d = e
  BY <1>1, <1>2, SlotsApart DEF Home
<1> QED BY <1>1, <1>3

(* The tail of the index moves with the number of its block.               *)
Moved(h, top, h2, top2) ==
  /\ h2.capacity = h.capacity /\ h2.index = h.index
  /\ h2.tail = (h.tail + (top2 - top)) % h.capacity

(* The entry of a block stays the same when the tail moves with the last   *)
(* block.                                                                  *)
LEMMA HomeMoves ==
  ASSUME NEW h, NEW size \in Nat, HeaderOK(h, size), NEW top \in Int, NEW top2 \in Int, NEW h2,
         Moved(h, top, h2, top2), NEW n \in Int
  PROVE  Home(h2, top2, n) = Home(h, top, n)
<1>1. PICK t, c, e, f, u : t = h.tail + (top2 - top) /\ c = h.capacity /\ e = n - top2 /\ f = n - top /\ u = h.tail
  OBVIOUS
<1>2. t \in Int /\ c \in Nat \ {0} /\ e \in Int /\ u \in Int /\ t + e = u + f
  BY <1>1 DEF HeaderOK
<1>3. ((t % c) + e) % c = (t + e) % c
  BY <1>2, ModShift
<1>4. h2.index[((t % c) + e) % c] = h.index[(u + f) % c]
  BY <1>2, <1>3 DEF Moved
<1> QED BY <1>1, <1>4 DEF Home, SlotOf, Moved

(* The larger header.                                                      *)
Larger(h, size, h2) ==
  /\ DOMAIN h2 = {"capacity", "tail", "index"}
  /\ h2.capacity = 2 * h.capacity /\ h2.tail = h.capacity
  /\ h2.index = [i \in 0 .. 2 * h.capacity - 1 |->
                   IF i < h.capacity THEN h.index[(h.tail + 1 + i) % h.capacity]
                   ELSE size + 1 + i - h.capacity]
Grown(h, top, h2, size) ==
  /\ Home(h2, top + 1, top + 1) = size + 1
  /\ \A n \in Int : top - n < h.capacity /\ n <= top => Home(h2, top + 1, n) = Home(h, top, n)

(* A larger header has the same entries for the blocks that fitted into    *)
(* the old one, and a fresh one for the next block.                        *)
LEMMA HomeGrows ==
  ASSUME NEW h, NEW size \in Nat, HeaderOK(h, size), NEW top \in Int, NEW h2, Larger(h, size, h2)
  PROVE  Grown(h, top, h2, size)
<1>1. PICK c, t : c = h.capacity /\ t = h.tail
  OBVIOUS
<1>2. c \in Nat \ {0, 1} /\ t \in Int
  BY <1>1 DEF HeaderOK
<1>3. Home(h2, top + 1, top + 1) = size + 1
  <2>1. PICK d : d = (top + 1) - (top + 1)
    OBVIOUS
  <2>2. c + d = c /\ c < 2 * c /\ 2 * c \in Nat
    BY <1>2, <2>1
  <2>3. c % (2 * c) = c
    BY <1>2, <2>2, ModSmall
  <2>4. h2.index[c] = size + 1
    <3>1. c \in 0 .. 2 * c - 1 /\ ~(c < c) /\ size + 1 + c - c = size + 1
      BY <1>2, <2>2
    <3>2. h2.index[c] = size + 1 + c - c
      BY <1>1, <3>1 DEF Larger
    <3> QED BY <3>1, <3>2
  <2>5. h2.tail + d = c /\ h2.capacity = 2 * c
    BY <1>1, <2>2 DEF Larger
  <2>6. (h2.tail + d) % h2.capacity = c
    BY <2>3, <2>5
  <2> QED BY <2>1, <2>4, <2>6 DEF Home, SlotOf
<1>4. ASSUME NEW n \in Int, top - n < c, n <= top PROVE Home(h2, top + 1, n) = Home(h, top, n)
  <2>1. PICK i, d : i = c - 1 - (top - n) /\ d = n - (top + 1)
    OBVIOUS
  <2>2. i \in 0 .. c - 1 /\ i \in Nat /\ i < c /\ c + d = i /\ i < 2 * c /\ 2 * c \in Nat
    BY <1>2, <1>4, <2>1
  <2>3. i % (2 * c) = i
    BY <2>2, ModSmall
  <2>4. h2.index[i] = h.index[(t + 1 + i) % c]
    BY <1>1, <1>2, <2>2 DEF Larger
  <2>5. (t + 1 + i) % c = (t + (n - top)) % c
    <3>1. PICK e : e = t + (n - top)
      OBVIOUS
    <3>2. e \in Int /\ t + 1 + i = e + c * 1
      BY <1>2, <1>4, <2>1, <2>2, <3>1
    <3>3. PICK q : q = 1
      OBVIOUS
    <3>4. q \in Int /\ c \in Nat \ {0}
      BY <1>2, <3>3
    <3>5. (e + c * q) % c = e % c
      BY <3>2, <3>4, ModOfSum
    <3> QED BY <3>1, <3>2, <3>3, <3>5
  <2>6. h2.tail + d = i /\ h2.capacity = 2 * c
    BY <1>1, <2>2 DEF Larger
  <2>7. h2.index[(h2.tail + d) % h2.capacity] = h.index[(t + (n - top)) % c]
    BY <2>3, <2>4, <2>5, <2>6
  <2> QED BY <1>1, <2>1, <2>7 DEF Home, SlotOf
<1> QED BY <1>1, <1>3, <1>4 DEF Grown
-----------------------------------------------------------------------------
(* One consumer goes on and the view of the blocks stays: all elements are *)
(* as much done and as much read as before.                                *)
SameWork(head, cs, head2, cs2) ==
  /\ \A n \in Nat : Undone(n, head2, cs2) = Undone(n, head, cs)
  /\ \A d \in Consumers, n \in Nat : Clears(cs2[d], n) <=> Clears(cs[d], n)
  /\ \A d \in Consumers, b \in Blocks : Releases(cs2[d], b) <=> Releases(cs[d], b)
SameView(head, cs, head2, cs2) ==
  /\ SameWork(head, cs, head2, cs2)
  /\ \A i \in Nat : ToRead(i, head2, cs2) <=> ToRead(i, head, cs)

(* What is live stays live.                                                *)
LEMMA LiveSame ==
  ASSUME NEW head, NEW cs, NEW head2, NEW cs2, SameWork(head, cs, head2, cs2), NEW n \in Nat, NEW top
  PROVE  Live(n, top, head2, cs2) <=> Live(n, top, head, cs)
BY DEF Live, SameWork

(* The step changes neither what a consumer has to mark empty nor what it  *)
(* has to read.                                                            *)
LEMMA SameRest ==
  ASSUME NEW cs, DOMAIN cs = Consumers, NEW c \in Consumers, NEW r, NEW cs2, cs2 = [cs EXCEPT ![c] = r],
         NEW head, Rest(r) = Rest(cs[c]), Unread(r) = Unread(cs[c]),
         r.pc \notin {"clear", "release"}, cs[c].pc \notin {"clear", "release"}
  PROVE  SameView(head, cs, head, cs2)
<1>1. \A d \in Consumers : Rest(cs2[d]) = Rest(cs[d]) /\ Unread(cs2[d]) = Unread(cs[d])
  OBVIOUS
<1>2. \A n \in Nat : Undone(n, head, cs2) = Undone(n, head, cs)
  BY <1>1 DEF Undone
<1>3. \A i \in Nat : ToRead(i, head, cs2) <=> ToRead(i, head, cs)
  BY <1>1 DEF ToRead
<1>4. \A d \in Consumers, n \in Nat : Clears(cs2[d], n) <=> Clears(cs[d], n)
  BY DEF Clears
<1>5. \A d \in Consumers, b \in Blocks : Releases(cs2[d], b) <=> Releases(cs[d], b)
  BY DEF Releases
<1> QED BY <1>2, <1>3, <1>4, <1>5 DEF SameView, SameWork

(* Elements that are claimed stay to be read and marked empty.             *)
LEMMA ClaimedRest ==
  ASSUME NEW cs, DOMAIN cs = Consumers, NEW c \in Consumers, NEW r, NEW cs2, cs2 = [cs EXCEPT ![c] = r],
         NEW head \in Nat, NEW a \in Nat, Rest(cs[c]) = {}, Unread(cs[c]) = {},
         Rest(r) = head .. head + a - 1, Unread(r) = head .. head + a - 1,
         r.pc \notin {"clear", "release"}, cs[c].pc \notin {"clear", "release"}
  PROVE  SameView(head, cs, head + a, cs2)
<1>1. cs2[c] = r /\ \A d \in Consumers \ {c} : cs2[d] = cs[d]
  OBVIOUS
<1>2. ASSUME NEW i \in Nat
      PROVE  i >= head + a \/ i \in head .. head + a - 1 <=> i >= head
  OBVIOUS
<1>3. ASSUME NEW n \in Nat PROVE Undone(n, head + a, cs2) = Undone(n, head, cs)
  <2>1. \A i \in Span(n) : i \in Nat
    BY StartOrder, BlockSize DEF Span
  <2>2. ASSUME NEW i \in Span(n)
        PROVE  (i >= head + a \/ \E d \in Consumers : i \in Rest(cs2[d]))
               <=> (i >= head \/ \E d \in Consumers : i \in Rest(cs[d]))
    <3>1. i \in Nat /\ (i >= head + a \/ i \in Rest(r) <=> i >= head)
      BY <1>2, <2>1
    <3>2. (\E d \in Consumers : i \in Rest(cs2[d]))
          <=> (i \in Rest(r) \/ \E d \in Consumers \ {c} : i \in Rest(cs[d]))
      BY <1>1
    <3>3. (\E d \in Consumers : i \in Rest(cs[d])) <=> (\E d \in Consumers \ {c} : i \in Rest(cs[d]))
      OBVIOUS
    <3> QED BY <3>1, <3>2, <3>3
  <2> QED BY <2>2 DEF Undone
<1>4. ASSUME NEW i \in Nat PROVE ToRead(i, head + a, cs2) <=> ToRead(i, head, cs)
  <2>1. i >= head + a \/ i \in Unread(r) <=> i >= head
    BY <1>2
  <2>2. (\E d \in Consumers : i \in Unread(cs2[d]))
        <=> (i \in Unread(r) \/ \E d \in Consumers \ {c} : i \in Unread(cs[d]))
    BY <1>1
  <2>3. (\E d \in Consumers : i \in Unread(cs[d])) <=> (\E d \in Consumers \ {c} : i \in Unread(cs[d]))
    OBVIOUS
  <2> QED BY <2>1, <2>2, <2>3 DEF ToRead
<1>5. \A d \in Consumers, n \in Nat : Clears(cs2[d], n) <=> Clears(cs[d], n)
  BY DEF Clears
<1>6. \A d \in Consumers, b \in Blocks : Releases(cs2[d], b) <=> Releases(cs[d], b)
  BY DEF Releases
<1> QED BY <1>3, <1>4, <1>5, <1>6 DEF SameView, SameWork
-----------------------------------------------------------------------------
(* The last blocks of the index.                                           *)
LEMMA TopIs ==
  ASSUME NEW tail \in Nat, NEW p, ImplicitCallOK(p, tail)
  PROVE  /\ Num(tail - 1) \in Int /\ Given(tail, p) \in Int /\ Top(tail, p) \in Int
         /\ Num(tail - 1) <= Given(tail, p) /\ Given(tail, p) <= Top(tail, p)
         /\ p.pc # "block" => Top(tail, p) = Given(tail, p)
         /\ p.pc = "block" => Top(tail, p) = Given(tail, p) + 1
         /\ ChainOf(p) \in Seq(Blocks) /\ Len(ChainOf(p)) \in Nat
<1>1. tail - 1 \in Int
  OBVIOUS
<1>2. Num(tail - 1) \in Int
  BY <1>1, NumIs
<1>3. ChainOf(p) \in Seq(Blocks)
  <2>1. CASE p.pc = "idle"
    <3>1. <<>> \in Seq(Blocks)
      OBVIOUS
    <3> QED BY <2>1, <3>1 DEF ChainOf
  <2>2. CASE p.pc # "idle"
    BY <2>2 DEF ChainOf, ImplicitCallOK
  <2> QED BY <2>1, <2>2
<1>4. Len(ChainOf(p)) \in Nat
  BY <1>3
<1>5. PICK g : g = Given(tail, p)
  OBVIOUS
<1>6. g \in Int /\ Num(tail - 1) <= g
  BY <1>2, <1>4, <1>5 DEF Given
<1> QED BY <1>2, <1>3, <1>4, <1>5, <1>6 DEF Top

(* The end of what a consumer takes from one block.                        *)
LEMMA EndIs ==
  ASSUME NEW k, k.index \in Nat, k.last \in Nat, k.index < k.last
  PROVE  /\ End(k) \in Nat /\ k.index < End(k) /\ End(k) <= k.last
         /\ \A i \in Int : i \in k.index .. End(k) - 1 <=> k.index <= i /\ i < k.last /\ Num(i) = Num(k.index)
         /\ End(k) # k.last => Num(End(k)) = Num(k.index) + 1
         /\ \A i \in Nat : i \in End(k) .. k.last - 1 <=> i \in k.index .. k.last - 1 /\ Num(i) # Num(k.index)
<1>1. PICK n, x, i0, l, e : n = Num(k.index) /\ x = BLOCK_SIZE * n /\ i0 = k.index /\ l = k.last /\ e = End(k)
  OBVIOUS
<1>2. n \in Int /\ x \in Int /\ x <= i0 /\ i0 < x + BLOCK_SIZE /\ Base(i0) = x /\ BLOCK_SIZE \in Nat \ {0}
  <2>1. i0 \in Int
    BY <1>1
  <2> QED BY <1>1, <2>1, NumIs, BlockSize
<1>3. e = (IF l < x + BLOCK_SIZE THEN l ELSE x + BLOCK_SIZE)
  BY <1>1, <1>2 DEF End
<1>4. i0 \in Nat /\ l \in Nat /\ i0 < l
  BY <1>1
<1>5. e \in Nat /\ i0 < e /\ e <= l
  BY <1>2, <1>3, <1>4
<1>6. ASSUME NEW i \in Int, i0 <= i
      PROVE  Num(i) = n <=> i < x + BLOCK_SIZE
  <2>1. ASSUME Num(i) = n PROVE i < x + BLOCK_SIZE
    BY <1>1, <2>1, NumIs
  <2>2. ASSUME i < x + BLOCK_SIZE PROVE Num(i) = n
    <3>1. BLOCK_SIZE * n <= i /\ i < BLOCK_SIZE * n + BLOCK_SIZE
      BY <1>1, <1>2, <1>4, <1>6, <2>2
    <3> QED BY <1>2, <3>1, NumUnique
  <2> QED BY <2>1, <2>2
<1>7. ASSUME NEW i \in Int PROVE i \in i0 .. e - 1 <=> i0 <= i /\ i < l /\ Num(i) = n
  <2>1. i \in i0 .. e - 1 <=> i0 <= i /\ i < e
    BY <1>4, <1>5
  <2>2. i < e <=> i < l /\ i < x + BLOCK_SIZE
    BY <1>2, <1>3, <1>4
  <2> QED BY <1>6, <2>1, <2>2
<1>8. ASSUME e # l PROVE Num(e) = n + 1
  <2>1. e = x + BLOCK_SIZE
    BY <1>3, <1>8
  <2>2. BLOCK_SIZE * (n + 1) = x + BLOCK_SIZE /\ n + 1 \in Int
    BY <1>1, <1>2, StartOrder
  <2>3. PICK m : m = n + 1
    OBVIOUS
  <2>4. m \in Int /\ BLOCK_SIZE * m <= e /\ e < BLOCK_SIZE * m + BLOCK_SIZE
    BY <1>2, <2>1, <2>2, <2>3
  <2>5. Num(e) = m
    BY <1>5, <2>4, NumUnique
  <2> QED BY <2>3, <2>5
<1>9. ASSUME NEW i \in Nat PROVE i \in e .. l - 1 <=> i \in i0 .. l - 1 /\ Num(i) # n
  <2>1. i \in Int /\ (i \in i0 .. e - 1 <=> i0 <= i /\ i < l /\ Num(i) = n)
    BY <1>7
  <2>2. i \in e .. l - 1 <=> i \in i0 .. l - 1 /\ ~(i \in i0 .. e - 1)
    BY <1>4, <1>5
  <2>3. i \in i0 .. l - 1 => i0 <= i /\ i < l
    BY <1>4
  <2> QED BY <2>1, <2>2, <2>3
<1> QED BY <1>1, <1>5, <1>7, <1>8, <1>9

(* What a consumer has claimed is before headIndex, and it marks nothing   *)
(* empty that it has not read.                                             *)
LEMMA RestIs ==
  ASSUME NEW head \in Nat, NEW k, ReaderOK(k, head)
  PROVE  Unread(k) \subseteq Rest(k) /\ Rest(k) \subseteq 0 .. head - 1
<1>1. CASE k.pc \in Reading
  <2>1. k.index \in Nat /\ k.last \in Nat /\ k.index < k.last /\ k.last <= head
    BY <1>1 DEF ReaderOK
  <2>2. End(k) \in Nat /\ k.index < End(k) /\ End(k) <= k.last
    BY <2>1, EndIs
  <2>3. k.index .. k.last - 1 \subseteq 0 .. head - 1 /\ End(k) .. k.last - 1 \subseteq k.index .. k.last - 1
    BY <2>1, <2>2
  <2> QED BY <2>3 DEF Rest, Unread
<1>2. CASE k.pc \notin Reading
  BY <1>2 DEF Rest, Unread, Reading
<1> QED BY <1>1, <1>2

(* Blocks are numbered from 0.                                             *)
LEMMA NumNat == ASSUME NEW i \in Nat PROVE Num(i) \in Nat
<1>1. Num(i) \in Int
  BY NumIs
<1>2. BLOCK_SIZE * 0 <= 0 /\ 0 < BLOCK_SIZE * 0 + BLOCK_SIZE
  BY BlockSize
<1>3. Num(0) = 0
  BY <1>2, NumUnique
<1>4. Num(0) <= Num(i)
  BY NumOrder
<1> QED BY <1>1, <1>3, <1>4

(* The block of an element that is not yet marked empty is live.           *)
LEMMA LiveIf ==
  ASSUME NEW i \in Nat, NEW top \in Int, Num(i) <= top, NEW head, NEW cs,
         i >= head \/ \E c \in Consumers : i \in Rest(cs[c])
  PROVE  Num(i) \in Nat /\ i \in Undone(Num(i), head, cs) /\ Live(Num(i), top, head, cs)
<1>1. Num(i) \in Nat
  BY NumNat
<1>2. PICK n : n = Num(i)
  OBVIOUS
<1>3. n \in Nat /\ n \in 0 .. top
  BY <1>1, <1>2
<1>4. i \in Span(n)
  BY <1>1, <1>2, SpanIs
<1>5. i \in Undone(n, head, cs)
  BY <1>4 DEF Undone
<1> QED BY <1>2, <1>3, <1>5 DEF Live

(* Two live blocks have different entries.                                 *)
LEMMA LiveApart ==
  ASSUME NEW h, NEW size \in Nat, HeaderOK(h, size), NEW top \in Int, NEW given, NEW head, NEW cs, NEW es, NEW ecd,
         AllLiveOK(top, given, head, cs, h, es, ecd),
         NEW m \in Nat, NEW n \in Int, Live(m, top, head, cs), m <= n, n <= top,
         NEW q \in Int, q <= top, m <= q, Home(h, top, n) = Home(h, top, q)
  PROVE  n = q
<1>1. top - m < h.capacity /\ h.capacity \in Nat
  BY DEF AllLiveOK, LiveOK, HeaderOK
<1>2. n - q < h.capacity /\ q - n < h.capacity
  BY <1>1
<1> QED BY <1>2, HomesApart

(* Two live blocks have different entries, either order.                   *)
LEMMA TwoLive ==
  ASSUME NEW h, NEW size \in Nat, HeaderOK(h, size), NEW top \in Int, NEW given, NEW head, NEW cs, NEW es, NEW ecd,
         AllLiveOK(top, given, head, cs, h, es, ecd),
         NEW m \in Nat, NEW n \in Nat, Live(m, top, head, cs), Live(n, top, head, cs),
         Home(h, top, m) = Home(h, top, n)
  PROVE  m = n
<1>1. m <= top /\ n <= top
  BY DEF Live
<1>2. CASE m <= n
  BY <1>1, <1>2, LiveApart
<1>3. CASE n <= m
  BY <1>1, <1>3, LiveApart
<1> QED BY <1>2, <1>3

(* The block of a consumer's next element.                                 *)
LEMMA ReaderLive ==
  ASSUME NEW tail \in Nat, NEW head \in Nat, head <= tail, NEW cs, NEW c \in Consumers,
         ReaderOK(cs[c], head), NEW top \in Int, Num(tail - 1) <= top, cs[c].pc \in Reading
  PROVE  /\ Num(cs[c].index) \in Nat
         /\ Num(cs[c].last - 1) \in Int /\ Num(cs[c].index) <= Num(cs[c].last - 1)
         /\ Num(cs[c].last - 1) <= Num(tail - 1)
         /\ cs[c].pc # "release" => Live(Num(cs[c].index), top, head, cs)
<1>1. PICK k : k = cs[c]
  OBVIOUS
<1>2. k.index \in Nat /\ k.last \in Nat /\ k.index < k.last /\ k.last <= head
  BY <1>1 DEF ReaderOK
<1>3. PICK i, l, t : i = k.index /\ l = k.last - 1 /\ t = tail - 1
  OBVIOUS
<1>4. i \in Nat /\ l \in Int /\ t \in Int /\ i <= l /\ l <= t
  BY <1>2, <1>3
<1>5. Num(i) \in Int /\ Num(l) \in Int /\ Num(t) \in Int /\ Num(i) <= Num(l) /\ Num(l) <= Num(t)
  <2>1. i \in Int
    BY <1>4
  <2>2. Num(i) \in Int /\ Num(l) \in Int /\ Num(t) \in Int
    BY <1>4, <2>1, NumIs
  <2>3. Num(i) <= Num(l)
    BY <1>4, <2>1, NumOrder
  <2>4. Num(l) <= Num(t)
    BY <1>4, NumOrder
  <2> QED BY <2>2, <2>3, <2>4
<1>6. Num(i) <= top
  BY <1>3, <1>4, <1>5
<1>7. Num(i) \in Nat
  BY <1>4, NumNat
<1>8. ASSUME k.pc # "release" PROVE Live(Num(i), top, head, cs)
  <2>1. CASE k.pc = "clear"
    <3>1. Clears(cs[c], Num(i))
      BY <1>1, <1>3, <2>1 DEF Clears
    <3>2. Num(i) \in 0 .. top
      BY <1>6, <1>7
    <3> QED BY <3>1, <3>2 DEF Live
  <2>2. CASE k.pc # "clear"
    <3>1. Rest(k) = k.index .. k.last - 1
      BY <1>1, <1>8, <2>2 DEF Rest, Reading
    <3>2. i \in Rest(k)
      BY <1>2, <1>3, <3>1
    <3> QED BY <1>1, <1>4, <1>6, <3>2, LiveIf
  <2> QED BY <2>1, <2>2
<1> QED BY <1>1, <1>3, <1>5, <1>7, <1>8
-----------------------------------------------------------------------------
(* Blocks in entries stay those of live blocks.                            *)
LEMMA OnlyLiveKept ==
  ASSUME NEW top, NEW given \in Int, NEW head, NEW cs, NEW h, NEW es, NEW head2, NEW cs2,
         AllOnlyLive(top, given, head, cs, h, es),
         \A n \in Nat : Live(n, top, head, cs) => Live(n, top, head2, cs2)
  PROVE  AllOnlyLive(top, given, head2, cs2, h, es)
<1>1. 0 .. given \subseteq Nat
  OBVIOUS
<1>2. ASSUME NEW e \in 1 .. Len(es) PROVE OnlyLive(e, top, given, head2, cs2, h, es)
  <2>1. OnlyLive(e, top, given, head, cs, h, es)
    BY DEF AllOnlyLive
  <2> QED BY <1>1, <2>1 DEF OnlyLive
<1> QED BY <1>2 DEF AllOnlyLive

(* The owners stay if nobody starts or ends giving a block back.           *)
LEMMA OwnersKept ==
  ASSUME NEW free, NEW es, NEW cs, NEW cs2, OwnersOK(free, es, cs),
         \A d \in Consumers, b \in Blocks : Releases(cs2[d], b) <=> Releases(cs[d], b)
  PROVE  OwnersOK(free, es, cs2)
<1>1. \A b \in free : b \in Blocks
  BY DEF OwnersOK
<1> QED BY <1>1 DEF OwnersOK

(* The other consumers do not notice a step of one of them.                *)
LEMMA ReadersKept ==
  ASSUME NEW top, NEW head \in Nat, NEW cs, NEW hs, NEW es, AllReaders(top, head, cs, hs, es),
         NEW head2 \in Nat, head <= head2, NEW cs2,
         NEW c \in Consumers, \A d \in Consumers \ {c} : cs2[d] = cs[d],
         ReaderOK(cs2[c], head2), FinderOK(cs2[c], top, hs, es)
  PROVE  AllReaders(top, head2, cs2, hs, es)
<1>1. ASSUME NEW d \in Consumers PROVE ReaderOK(cs2[d], head2) /\ FinderOK(cs2[d], top, hs, es)
  <2>1. CASE d = c
    BY <2>1
  <2>2. CASE d # c
    <3>1. cs2[d] = cs[d]
      BY <2>2
    <3>2. ReaderOK(cs[d], head) /\ FinderOK(cs[d], top, hs, es)
      BY DEF AllReaders
    <3>3. ReaderOK(cs[d], head2)
      BY <3>2 DEF ReaderOK
    <3> QED BY <3>1, <3>2, <3>3
  <2> QED BY <2>1, <2>2
<1> QED BY <1>1 DEF AllReaders

(* Claims stay disjoint if the one that changes is disjoint.               *)
LEMMA ClaimsApart ==
  ASSUME NEW head, NEW cs, ClaimsOK(head, cs), NEW cs2,
         NEW c \in Consumers, \A d \in Consumers \ {c} : cs2[d] = cs[d],
         \A d \in Consumers \ {c} : Apart(cs[d], cs2[c]),
         NEW d \in Consumers, NEW f \in Consumers, d # f
  PROVE  Apart(cs2[d], cs2[f])
<1>1. CASE d = c
  BY <1>1 DEF Apart
<1>2. CASE f = c
  BY <1>2
<1>3. CASE d # c /\ f # c
  BY <1>3 DEF ClaimsOK
<1> QED BY <1>1, <1>2, <1>3

(* A step of a consumer that leaves as much to be done keeps the           *)
(* invariant, if its own part of it holds.                                 *)
LEMMA MarksKept ==
  ASSUME NEW tail, NEW head \in Nat, NEW p, NEW cs, NEW tb, NEW hs, NEW es, NEW ecd, NEW els, NEW free,
         Indexed(tail, head, p, cs, tb, hs, es, ecd, els, free),
         NEW head2 \in Nat, head <= head2, NEW cs2, SameWork(head, cs, head2, cs2),
         NEW c \in Consumers, \A d \in Consumers \ {c} : cs2[d] = cs[d],
         ReaderOK(cs2[c], head2), FinderOK(cs2[c], Top(tail, p), hs, es),
         \A d \in Consumers \ {c} : Apart(cs[d], cs2[c]),
         NEW els2 \in [Blocks -> [Slots -> Int]], ElementsOK(tail, Top(tail, p), head2, cs2, hs[Len(hs)], es, els2)
  PROVE  Indexed(tail, head2, p, cs2, tb, hs, es, ecd, els2, free)
<1>1. PICK top, given, h : top = Top(tail, p) /\ given = Given(tail, p) /\ h = hs[Len(hs)]
  OBVIOUS
<1>2. tail \in Nat /\ given \in Int
  BY <1>1, TopIs DEF Indexed, IndexOK
<1>3. \A n \in Nat : Live(n, top, head2, cs2) <=> Live(n, top, head, cs)
  BY LiveSame
<1>4. \A n \in Nat : Undone(n, head2, cs2) = Undone(n, head, cs)
  BY DEF SameWork
<1>5. AllLiveOK(top, given, head2, cs2, h, es, ecd)
  <2>1. AllLiveOK(top, given, head, cs, h, es, ecd)
    BY <1>1 DEF Indexed
  <2> QED BY <1>3, <1>4, <2>1 DEF AllLiveOK, LiveOK
<1>6. AllOnlyLive(top, given, head2, cs2, h, es)
  <2>1. AllOnlyLive(top, given, head, cs, h, es)
    BY <1>1 DEF Indexed
  <2> QED BY <1>2, <1>3, <2>1, OnlyLiveKept
<1>7. OwnersOK(free, es, cs2)
  BY OwnersKept DEF Indexed, SameWork
<1>8. IndexOK(tail, p, hs, es, ecd, els2)
  BY DEF Indexed, IndexOK
<1>9. AllReaders(top, head2, cs2, hs, es)
  <2>1. AllReaders(top, head, cs, hs, es)
    BY <1>1 DEF Indexed
  <2> QED BY <1>1, <2>1, ReadersKept
<1>10. ClaimsOK(head2, cs2)
  <2>1. ClaimsOK(head, cs)
    BY DEF Indexed
  <2>2. ASSUME NEW d \in Consumers, NEW f \in Consumers, d # f PROVE Apart(cs2[d], cs2[f])
    BY <2>1, <2>2, ClaimsApart
  <2>3. \A d \in Consumers, n \in Nat : Clears(cs2[d], n) <=> Clears(cs[d], n)
    BY DEF SameWork
  <2>4. \A d \in Consumers, n \in Nat : Clears(cs2[d], n) => Undone(n, head2, cs2) = {}
    BY <1>4, <2>1, <2>3 DEF ClaimsOK
  <2>5. \A d, f \in Consumers, n \in Nat : Clears(cs2[d], n) /\ Clears(cs2[f], n) => d = f
    BY <2>1, <2>3 DEF ClaimsOK
  <2> QED BY <2>2, <2>4, <2>5 DEF ClaimsOK
<1> QED BY <1>1, <1>5, <1>6, <1>7, <1>8, <1>9, <1>10 DEF Indexed

(* A step of a consumer that keeps the view keeps the invariant, if its    *)
(* own part of it holds.                                                   *)
LEMMA ViewKept ==
  ASSUME NEW tail, NEW head \in Nat, NEW p, NEW cs, NEW tb, NEW hs, NEW es, NEW ecd, NEW els, NEW free,
         Indexed(tail, head, p, cs, tb, hs, es, ecd, els, free),
         NEW head2 \in Nat, head <= head2, NEW cs2, SameView(head, cs, head2, cs2),
         NEW c \in Consumers, \A d \in Consumers \ {c} : cs2[d] = cs[d],
         ReaderOK(cs2[c], head2), FinderOK(cs2[c], Top(tail, p), hs, es),
         \A d \in Consumers \ {c} : Apart(cs[d], cs2[c])
  PROVE  Indexed(tail, head2, p, cs2, tb, hs, es, ecd, els, free)
<1>1. PICK top, h : top = Top(tail, p) /\ h = hs[Len(hs)]
  OBVIOUS
<1>2. tail \in Nat /\ els \in [Blocks -> [Slots -> Int]]
  BY DEF Indexed, IndexOK
<1>3. ElementsOK(tail, top, head2, cs2, h, es, els)
  <2>1. \A i \in 0 .. tail - 1 : i \in Nat
    BY <1>2
  <2>2. \A i \in Nat : ToRead(i, head2, cs2) <=> ToRead(i, head, cs)
    BY DEF SameView
  <2> QED BY <1>1, <2>1, <2>2 DEF ElementsOK, Indexed
<1>4. SameWork(head, cs, head2, cs2)
  BY DEF SameView
<1> QED BY <1>1, <1>2, <1>3, <1>4, MarksKept

(* What the invariant says of the variables.                               *)
LEMMA Now ==
  ASSUME ImplicitInv, ReserveInv
  PROVE  /\ tailIndex \in Nat /\ headIndex \in Nat /\ headIndex <= tailIndex
         /\ DOMAIN consumer = Consumers
<1>1. tailIndex \in Nat /\ headIndex \in Nat /\ DOMAIN consumer = Consumers
  BY DEF ReserveInv, CountersOK
<1>2. headIndex + AllSure(tailIndex) <= tailIndex
  BY <1>1 DEF ReserveInv, NoneBeyond
<1>3. AllSure(tailIndex) \in Nat
  BY <1>1, SumsInInv
<1> QED BY <1>1, <1>2, <1>3

(* A consumer that has no claim before and after its step.                 *)
LEMMA QuietStep ==
  ASSUME ImplicitInv, ReserveInv, NEW c \in Consumers, NEW r, consumer' = [consumer EXCEPT ![c] = r],
         consumer[c].pc \notin Reading, r.pc \notin Reading, r.pc = "claim" => r.actual # 0,
         tailIndex' = tailIndex, headIndex' = headIndex, UNCHANGED <<blockVars, implicitVars, producer>>
  PROVE  ImplicitInv'
<1>1. headIndex \in Nat /\ DOMAIN consumer = Consumers
  BY Now
<1>2. Rest(r) = {} /\ Rest(consumer[c]) = {} /\ Unread(r) = {} /\ Unread(consumer[c]) = {}
  BY DEF Rest, Unread, Reading
<1>3. PICK cs2 : cs2 = consumer'
  OBVIOUS
<1>4. cs2[c] = r /\ \A d \in Consumers \ {c} : cs2[d] = consumer[d]
  BY <1>1, <1>3
<1>5. SameView(headIndex, consumer, headIndex, cs2)
  <2>1. r.pc \notin {"clear", "release"} /\ consumer[c].pc \notin {"clear", "release"}
    BY DEF Reading
  <2> QED BY <1>1, <1>2, <1>3, <2>1, SameRest
<1>6. ReaderOK(r, headIndex)
  BY DEF ReaderOK
<1>7. FinderOK(r, Top(tailIndex, producer), headers, entries)
  BY DEF FinderOK, Reading, Finding
<1>8. Indexed(tailIndex, headIndex, producer, cs2, tailBlock, headers, entries,
              elementsCompletelyDequeued, elements, pool)
  <2>1. Indexed(tailIndex, headIndex, producer, consumer, tailBlock, headers, entries,
                elementsCompletelyDequeued, elements, pool)
    BY DEF ImplicitInv
  <2>2. headIndex <= headIndex
    BY <1>1
  <2>3. \A d \in Consumers \ {c} : Apart(consumer[d], cs2[c])
    BY <1>2, <1>4 DEF Apart
  <2> QED BY <1>1, <1>4, <1>5, <1>6, <1>7, <2>1, <2>2, <2>3, ViewKept
<1> QED BY <1>3, <1>8 DEF ImplicitInv, blockVars, implicitVars

(* The steps before a claim.                                               *)
LEMMA ReserveStepsKeepIndex ==
  ASSUME ImplicitInv, ReserveInv, NEW c \in Consumers, UNCHANGED implicitVars,
         \/ \E n \in Maxes : LoadTail(c, n)
         \/ LoadOvercommit(c) \/ Desire(c) \/ Reserve(c) \/ Check(c) \/ GiveBack(c)
  PROVE  ImplicitInv'
<1>0. PICK k : k = consumer[c]
  OBVIOUS
<1>a. DOMAIN consumer = Consumers /\ ConsumerOK(k, dequeueOvercommit) /\ tailIndex \in Nat
  BY <1>0 DEF ReserveInv, CountersOK
<1>1. ASSUME NEW n \in Maxes, LoadTail(c, n) PROVE ImplicitInv'
  <2>1. PICK r : r = [pc |-> "overcommit", tail |-> tailIndex, max |-> n]
    OBVIOUS
  <2>2. consumer' = [consumer EXCEPT ![c] = r] /\ k.pc = "idle" /\ UNCHANGED <<indexVars, blockVars, producer>>
    BY <1>0, <1>1, <2>1 DEF LoadTail
  <2>3. r.pc = "overcommit"
    BY <2>1
  <2> QED BY <1>0, <2>2, <2>3, QuietStep DEF Reading, indexVars
<1>2. CASE LoadOvercommit(c)
  <2>1. PICK r : r = [pc |-> "desire", tail |-> k.tail, max |-> k.max, overcommit |-> dequeueOvercommit]
    OBVIOUS
  <2>2. consumer' = [consumer EXCEPT ![c] = r] /\ k.pc = "overcommit" /\ UNCHANGED <<indexVars, blockVars, producer>>
    BY <1>0, <1>a, <1>2, <2>1 DEF LoadOvercommit
  <2>3. r.pc = "desire"
    BY <2>1
  <2> QED BY <1>0, <2>2, <2>3, QuietStep DEF Reading, indexVars
<1>3. CASE Desire(c)
  <2>1. PICK a, d : a = k.tail - (dequeueOptimisticCount - k.overcommit) /\ d = (IF a < k.max THEN a ELSE k.max)
    OBVIOUS
  <2>2. PICK r : r = IF a > 0 THEN [pc |-> "reserve", overcommit |-> k.overcommit, desired |-> d] ELSE Idle
    OBVIOUS
  <2>3. consumer' = [consumer EXCEPT ![c] = r] /\ k.pc = "desire" /\ UNCHANGED <<indexVars, blockVars, producer>>
    BY <1>0, <1>3, <2>1, <2>2 DEF Desire
  <2>4. r.pc \in {"reserve", "idle"}
    BY <2>2 DEF Idle
  <2> QED BY <1>0, <2>3, <2>4, QuietStep DEF Reading, indexVars
<1>4. CASE Reserve(c)
  <2>1. PICK r : r = [pc |-> "check", mine |-> dequeueOptimisticCount - k.overcommit, desired |-> k.desired]
    OBVIOUS
  <2>2. consumer' = [consumer EXCEPT ![c] = r] /\ k.pc = "reserve"
        /\ UNCHANGED <<tailIndex, headIndex, blockVars, producer>>
    BY <1>0, <1>4, <2>1 DEF Reserve
  <2>3. r.pc = "check"
    BY <2>1
  <2> QED BY <1>0, <2>2, <2>3, QuietStep DEF Reading
<1>5. CASE Check(c)
  <2>1. PICK v, a : v = tailIndex - k.mine
                    /\ a = (IF v <= 0 THEN 0 ELSE IF v < k.desired THEN v ELSE k.desired)
    OBVIOUS
  <2>2. PICK r : r = IF a < k.desired THEN [pc |-> "giveBack", actual |-> a, excess |-> k.desired - a]
                     ELSE [pc |-> "claim", actual |-> a]
    OBVIOUS
  <2>3. consumer' = [consumer EXCEPT ![c] = r] /\ k.pc = "check" /\ UNCHANGED <<indexVars, blockVars, producer>>
    BY <1>0, <1>5, <2>1, <2>2 DEF Check
  <2>4. k.desired \in Nat \ {0} /\ k.mine \in Int
    BY <1>a, <2>3 DEF ConsumerOK
  <2>5. r.pc \in {"giveBack", "claim"} /\ (r.pc = "claim" => r.actual # 0)
    <3>1. CASE a < k.desired
      BY <2>2, <3>1
    <3>2. CASE ~(a < k.desired)
      <4>1. a # 0
        BY <2>4, <3>2
      <4> QED BY <2>2, <3>2, <4>1
    <3> QED BY <3>1, <3>2
  <2> QED BY <1>0, <2>3, <2>5, QuietStep DEF Reading, indexVars
<1>6. CASE GiveBack(c)
  <2>1. PICK r : r = IF k.actual > 0 THEN [pc |-> "claim", actual |-> k.actual] ELSE Idle
    OBVIOUS
  <2>2. consumer' = [consumer EXCEPT ![c] = r] /\ k.pc = "giveBack"
        /\ UNCHANGED <<tailIndex, headIndex, blockVars, producer>>
    BY <1>0, <1>6, <2>1 DEF GiveBack
  <2>3. r.pc \in {"idle", "claim"} /\ (r.pc = "claim" => r.actual # 0)
    BY <2>1, <1>a, <2>2 DEF Idle, ConsumerOK
  <2> QED BY <1>0, <2>2, <2>3, QuietStep DEF Reading
<1> QED BY <1>1, <1>2, <1>3, <1>4, <1>5, <1>6

(* The claim.                                                              *)
LEMMA ClaimKeepsIndex ==
  ASSUME ImplicitInv, ReserveInv, NEW c \in Consumers, UNCHANGED implicitVars, Claim(c)
  PROVE  ImplicitInv'
<1>0. PICK k, a, head2 : k = consumer[c] /\ a = consumer[c].actual /\ head2 = headIndex + consumer[c].actual
  OBVIOUS
<1>1. headIndex \in Nat /\ DOMAIN consumer = Consumers
  BY Now
<1>2. PICK r : r = [pc |-> "locate", index |-> headIndex, last |-> head2]
  OBVIOUS
<1>3. consumer' = [consumer EXCEPT ![c] = r] /\ k.pc = "claim" /\ headIndex' = head2
      /\ UNCHANGED <<tailIndex, blockVars, producer>>
  BY <1>0, <1>2 DEF Claim
<1>4. a \in Nat /\ a # 0 /\ head2 = headIndex + a /\ head2 \in Nat /\ headIndex < head2
  <2>1. ConsumerOK(k, dequeueOvercommit)
    BY <1>0 DEF ReserveInv, CountersOK
  <2>2. ReaderOK(k, headIndex)
    BY <1>0 DEF ImplicitInv, Indexed, AllReaders
  <2>3. a \in Nat /\ a # 0
    BY <1>0, <1>3, <2>1, <2>2 DEF ConsumerOK, ReaderOK
  <2> QED BY <1>0, <1>1, <2>3
<1>5. r.pc = "locate" /\ r.index = headIndex /\ r.last = head2
  BY <1>2
<1>6. Rest(r) = headIndex .. head2 - 1 /\ Unread(r) = headIndex .. head2 - 1
      /\ Rest(k) = {} /\ Unread(k) = {}
  BY <1>3, <1>5 DEF Rest, Unread
<1>7. PICK cs2 : cs2 = consumer'
  OBVIOUS
<1>8. cs2[c] = r /\ \A d \in Consumers \ {c} : cs2[d] = consumer[d]
  BY <1>1, <1>3, <1>7
<1>9. SameView(headIndex, consumer, head2, cs2)
  <2>1. cs2 = [consumer EXCEPT ![c] = r] /\ k.pc \notin {"clear", "release"} /\ r.pc \notin {"clear", "release"}
    BY <1>3, <1>5, <1>7
  <2>2. Rest(r) = headIndex .. headIndex + a - 1 /\ Unread(r) = headIndex .. headIndex + a - 1
    <3>1. head2 - 1 = headIndex + a - 1
      BY <1>1, <1>4
    <3> QED BY <1>6, <3>1
  <2>3. SameView(headIndex, consumer, headIndex + a, cs2)
    BY <1>0, <1>1, <1>4, <1>6, <2>1, <2>2, ClaimedRest
  <2> QED BY <1>4, <2>3
<1>10. ReaderOK(r, head2)
  BY <1>1, <1>4, <1>5 DEF ReaderOK
<1>11. FinderOK(r, Top(tailIndex, producer), headers, entries)
  BY <1>5 DEF FinderOK, Finding
<1>12. \A d \in Consumers \ {c} : Apart(consumer[d], cs2[c])
  <2> SUFFICES ASSUME NEW d \in Consumers \ {c} PROVE Apart(consumer[d], cs2[c])
    OBVIOUS
  <2>1. ReaderOK(consumer[d], headIndex)
    BY DEF ImplicitInv, Indexed, AllReaders
  <2>2. Rest(consumer[d]) \subseteq 0 .. headIndex - 1
    BY <1>1, <2>1, RestIs
  <2>3. (0 .. headIndex - 1) \intersect (headIndex .. head2 - 1) = {}
    BY <1>1, <1>4
  <2> QED BY <1>6, <1>8, <2>2, <2>3 DEF Apart
<1>13. Indexed(tailIndex, head2, producer, cs2, tailBlock, headers, entries,
               elementsCompletelyDequeued, elements, pool)
  <2>1. Indexed(tailIndex, headIndex, producer, consumer, tailBlock, headers, entries,
                elementsCompletelyDequeued, elements, pool)
    BY DEF ImplicitInv
  <2>2. headIndex <= head2
    BY <1>1, <1>4
  <2> QED BY <1>1, <1>4, <1>8, <1>9, <1>10, <1>11, <1>12, <2>1, <2>2, ViewKept
<1> QED BY <1>3, <1>7, <1>13 DEF ImplicitInv, blockVars, implicitVars
-----------------------------------------------------------------------------
(* A position of a header moves along.                                     *)
LEMMA SlotShift ==
  ASSUME NEW h, NEW size \in Nat, HeaderOK(h, size), NEW pos \in Int, NEW d \in Int, NEW e \in Int
  PROVE  SlotOf(h, (pos + d) % h.capacity, e) = SlotOf(h, pos, d + e)
<1>1. PICK a, c : a = pos + d /\ c = h.capacity
  OBVIOUS
<1>2. a \in Int /\ c \in Nat \ {0} /\ a + e = pos + (d + e)
  BY <1>1 DEF HeaderOK
<1>3. ((a % c) + e) % c = (a + e) % c
  BY <1>2, ModShift
<1> QED BY <1>1, <1>2, <1>3 DEF SlotOf

(* The next position of a header.                                          *)
LEMMA SlotNext ==
  ASSUME NEW h, NEW size \in Nat, HeaderOK(h, size), NEW pos \in Int, NEW d \in Int
  PROVE  SlotOf(h, (pos + 1) % h.capacity, d) = SlotOf(h, pos, 1 + d)
<1>1. PICK u : u = 1
  OBVIOUS
<1>2. u \in Int
  BY <1>1
<1>3. SlotOf(h, (pos + u) % h.capacity, d) = SlotOf(h, pos, u + d)
  BY <1>2, SlotShift
<1> QED BY <1>1, <1>3

(* The entry at a position itself.                                         *)
LEMMA SlotHere ==
  ASSUME NEW h, NEW size \in Nat, HeaderOK(h, size), NEW pos \in 0 .. h.capacity - 1
  PROVE  SlotOf(h, pos, 0) = h.index[pos]
<1>1. h.capacity \in Nat
  BY DEF HeaderOK
<1>2. pos + 0 = pos /\ pos \in Nat /\ pos < h.capacity
  BY <1>1
<1>3. pos % h.capacity = pos
  BY <1>1, <1>2, ModSmall
<1> QED BY <1>2, <1>3 DEF SlotOf

(* A consumer of claimed elements that takes a step without marking or     *)
(* reading any.                                                            *)
LEMMA LookStep ==
  ASSUME ImplicitInv, ReserveInv, NEW c \in Consumers, NEW r, consumer' = [consumer EXCEPT ![c] = r],
         consumer[c].pc \in {"locate", "find"}, r.pc \in {"find", "read"},
         r.index = consumer[c].index, r.last = consumer[c].last,
         FinderOK(r, Top(tailIndex, producer), headers, entries),
         UNCHANGED <<indexVars, blockVars, implicitVars, producer>>
  PROVE  ImplicitInv'
<1>1. headIndex \in Nat /\ DOMAIN consumer = Consumers
  BY Now
<1>2. Rest(r) = Rest(consumer[c]) /\ Unread(r) = Unread(consumer[c])
  BY DEF Rest, Unread
<1>3. PICK cs2 : cs2 = consumer'
  OBVIOUS
<1>4. cs2[c] = r /\ \A d \in Consumers \ {c} : cs2[d] = consumer[d]
  BY <1>1, <1>3
<1>5. SameView(headIndex, consumer, headIndex, cs2)
  <2>1. r.pc \notin {"clear", "release"} /\ consumer[c].pc \notin {"clear", "release"}
    OBVIOUS
  <2> QED BY <1>1, <1>2, <1>3, <2>1, SameRest
<1>6. Indexed(tailIndex, headIndex, producer, consumer, tailBlock, headers, entries,
              elementsCompletelyDequeued, elements, pool)
  BY DEF ImplicitInv
<1>7. ReaderOK(r, headIndex)
  <2>1. ReaderOK(consumer[c], headIndex)
    BY <1>6 DEF Indexed, AllReaders
  <2> QED BY <2>1 DEF ReaderOK, Reading
<1>8. \A d \in Consumers \ {c} : Apart(consumer[d], cs2[c])
  BY <1>2, <1>4, <1>6 DEF Indexed, ClaimsOK, Apart
<1>9. Indexed(tailIndex, headIndex, producer, cs2, tailBlock, headers, entries,
              elementsCompletelyDequeued, elements, pool)
  <2>1. headIndex <= headIndex
    BY <1>1
  <2> QED BY <1>1, <1>4, <1>5, <1>6, <1>7, <1>8, <2>1, ViewKept
<1> QED BY <1>3, <1>9 DEF ImplicitInv, blockVars, implicitVars, indexVars

(* The current header and the blocks it is about.                          *)
LEMMA IndexNow ==
  ASSUME ImplicitInv, ReserveInv, NEW top, top = Top(tailIndex, producer), NEW given, given = Given(tailIndex, producer),
         NEW h, h = headers[Len(headers)]
  PROVE  /\ top \in Int /\ given \in Int /\ Num(tailIndex - 1) \in Int
         /\ Num(tailIndex - 1) <= given /\ given <= top
         /\ Len(entries) \in Nat /\ HeaderOK(h, Len(entries)) /\ Len(headers) \in Nat \ {0}
         /\ AllLiveOK(top, given, headIndex, consumer, h, entries, elementsCompletelyDequeued)
         /\ entries \in Seq(Entry)
<1>1. IndexOK(tailIndex, producer, headers, entries, elementsCompletelyDequeued, elements)
  BY DEF ImplicitInv, Indexed
<1>2. tailIndex \in Nat /\ ImplicitCallOK(producer, tailIndex)
  BY <1>1 DEF IndexOK
<1>3. entries \in Seq(Entry) /\ Len(entries) \in Nat /\ Len(headers) \in Nat \ {0}
  BY <1>1 DEF IndexOK
<1>4. HeaderOK(h, Len(entries))
  BY <1>1, <1>3 DEF IndexOK
<1>5. AllLiveOK(top, given, headIndex, consumer, h, entries, elementsCompletelyDequeued)
  BY DEF ImplicitInv, Indexed
<1> QED BY <1>2, <1>3, <1>4, <1>5, TopIs

(* The block a consumer works on.                                          *)
LEMMA ReaderNow ==
  ASSUME ImplicitInv, ReserveInv, NEW top, top = Top(tailIndex, producer),
         NEW c \in Consumers, NEW k, k = consumer[c], k.pc \in Reading
  PROVE  /\ k.index \in Nat /\ k.last \in Nat /\ k.index < k.last /\ k.last <= headIndex
         /\ Num(k.index) \in Nat /\ Num(k.last - 1) \in Int
         /\ Num(k.index) <= Num(k.last - 1) /\ Num(k.last - 1) <= Num(tailIndex - 1)
         /\ Num(k.index) <= Given(tailIndex, producer)
         /\ k.pc # "release" => Live(Num(k.index), top, headIndex, consumer)
<1>1. tailIndex \in Nat /\ headIndex \in Nat /\ headIndex <= tailIndex
  BY Now
<1>2. ReaderOK(consumer[c], headIndex)
  BY DEF ImplicitInv, Indexed, AllReaders
<1>3. PICK given, h : given = Given(tailIndex, producer) /\ h = headers[Len(headers)]
  OBVIOUS
<1>4. top \in Int /\ given \in Int /\ Num(tailIndex - 1) \in Int /\ Num(tailIndex - 1) <= given /\ given <= top
  BY <1>3, IndexNow
<1>5. Num(tailIndex - 1) <= top
  BY <1>4
<1>6. /\ Num(k.index) \in Nat /\ Num(k.last - 1) \in Int
      /\ Num(k.index) <= Num(k.last - 1) /\ Num(k.last - 1) <= Num(tailIndex - 1)
      /\ k.pc # "release" => Live(Num(k.index), top, headIndex, consumer)
  BY <1>1, <1>2, <1>4, <1>5, ReaderLive
<1>7. Num(k.index) <= given
  BY <1>4, <1>6
<1> QED BY <1>2, <1>3, <1>6, <1>7 DEF ReaderOK

(* The header and its tail are loaded.                                     *)
LEMMA LocateKeepsIndex ==
  ASSUME ImplicitInv, ReserveInv, NEW c \in Consumers, ImplicitLocate(c)
  PROVE  ImplicitInv'
<1>0. PICK k, top, given, h : k = consumer[c] /\ top = Top(tailIndex, producer) /\ given = Given(tailIndex, producer)
                             /\ h = headers[Len(headers)]
  OBVIOUS
<1>1. PICK r : r = [pc |-> "find", index |-> k.index, last |-> k.last, hdr |-> Len(headers), pos |-> h.tail]
  OBVIOUS
<1>2. consumer' = [consumer EXCEPT ![c] = r] /\ k.pc = "locate"
      /\ UNCHANGED <<indexVars, blockVars, implicitVars, producer>>
  <2>1. DOMAIN consumer = Consumers
    BY Now
  <2> QED BY <1>0, <1>1, <2>1 DEF ImplicitLocate, blockIndex
<1>3. r.pc = "find" /\ r.index = k.index /\ r.last = k.last /\ r.hdr = Len(headers) /\ r.pos = h.tail
      /\ DOMAIN r = {"pc", "index", "last", "hdr", "pos"}
  BY <1>1
<1>4. /\ top \in Int /\ given \in Int /\ Num(tailIndex - 1) \in Int /\ Num(tailIndex - 1) <= given /\ given <= top
      /\ Len(entries) \in Nat /\ HeaderOK(h, Len(entries)) /\ Len(headers) \in Nat \ {0}
      /\ AllLiveOK(top, given, headIndex, consumer, h, entries, elementsCompletelyDequeued)
  BY <1>0, IndexNow
<1>5. /\ Num(k.index) \in Nat /\ Num(k.last - 1) \in Int
      /\ Num(k.index) <= Num(k.last - 1) /\ Num(k.last - 1) <= Num(tailIndex - 1)
      /\ Live(Num(k.index), top, headIndex, consumer)
  BY <1>0, <1>2, ReaderNow DEF Reading
<1>6. Num(k.last - 1) <= top /\ top \in Nat /\ Num(k.index) <= top
  BY <1>4, <1>5
<1>7. r.hdr \in 1 .. Len(headers) /\ headers[r.hdr] = h /\ r.pos \in 0 .. h.capacity - 1
  BY <1>0, <1>3, <1>4 DEF HeaderOK
<1>8. top - Num(k.index) < h.capacity /\ \A m \in Num(k.index) .. top : entries[Home(h, top, m)].key = BLOCK_SIZE * m
  BY <1>4, <1>5 DEF AllLiveOK, LiveOK
<1>9. entries[h.index[r.pos]].key = BLOCK_SIZE * top
  <2>1. top - top = 0 /\ top \in Num(k.index) .. top
    BY <1>5, <1>6
  <2>2. Home(h, top, top) = h.index[r.pos]
    <3>1. Home(h, top, top) = SlotOf(h, r.pos, 0)
      BY <1>3, <2>1 DEF Home
    <3> QED BY <1>4, <1>7, <3>1, SlotHere
  <2> QED BY <1>8, <2>1, <2>2
<1>10. \A m : Finds(r, headers, top, top, m)
  BY <1>0, <1>3 DEF Finds, Home
<1>11. top + 1 .. top = {}
  BY <1>4
<1>12. FinderOK(r, top, headers, entries)
  <2>1. FindOK(r, top, headers, entries, top)
    BY <1>0, <1>3, <1>6, <1>7, <1>8, <1>9, <1>10, <1>11 DEF FindOK
  <2> QED BY <1>3, <1>6, <1>7, <2>1 DEF FinderOK, Finding
<1> QED BY <1>0, <1>2, <1>3, <1>12, LookStep

(* The position of the block is computed from the key of the tail entry.   *)
LEMMA FindKeepsIndex ==
  ASSUME ImplicitInv, ReserveInv, NEW c \in Consumers, ImplicitFind(c)
  PROVE  ImplicitInv'
<1>0. PICK k, top, given, h : k = consumer[c] /\ top = Top(tailIndex, producer) /\ given = Given(tailIndex, producer)
                             /\ h = headers[Len(headers)]
  OBVIOUS
<1>1. PICK q : q = get_block_index_index_for_index(headers[k.hdr], k.pos, k.index)
  OBVIOUS
<1>2. PICK r : r = [k EXCEPT !.pc = "read", !.pos = q]
  OBVIOUS
<1>3. consumer' = [consumer EXCEPT ![c] = r] /\ k.pc = "find"
      /\ UNCHANGED <<indexVars, blockVars, implicitVars, producer>>
  BY <1>0, <1>1, <1>2 DEF ImplicitFind
<1>4. FinderOK(k, top, headers, entries)
  BY <1>0 DEF ImplicitInv, Indexed, AllReaders
<1>5. DOMAIN k = {"pc", "index", "last", "hdr", "pos"}
  BY <1>3, <1>4 DEF FinderOK
<1>6. r.pc = "read" /\ r.index = k.index /\ r.last = k.last /\ r.hdr = k.hdr /\ r.pos = q /\ DOMAIN r = DOMAIN k
  BY <1>2, <1>5
<1>7. k.index \in Nat /\ Num(k.index) \in Nat /\ Num(k.last - 1) \in Int /\ Num(k.index) <= Num(k.last - 1)
  BY <1>0, <1>3, ReaderNow DEF Reading
<1>8. PICK g : g = headers[k.hdr]
  OBVIOUS
<1>9. k.hdr \in 1 .. Len(headers) /\ k.pos \in 0 .. g.capacity - 1
  BY <1>3, <1>4, <1>8 DEF FinderOK, Finding
<1>10. HeaderOK(g, Len(entries)) /\ Len(entries) \in Nat /\ g.capacity \in Nat \ {0}
  <2>1. IndexOK(tailIndex, producer, headers, entries, elementsCompletelyDequeued, elements)
    BY DEF ImplicitInv, Indexed
  <2>2. HeaderOK(g, Len(entries)) /\ Len(entries) \in Nat
    BY <1>8, <1>9, <2>1 DEF IndexOK
  <2> QED BY <2>2 DEF HeaderOK
<1>11. PICK p \in Nat :
         /\ entries[g.index[k.pos]].key = BLOCK_SIZE * p
         /\ \A m \in (Num(k.index) .. Num(k.last - 1)) \union {p} : Finds(k, headers, top, p, m)
  BY <1>3, <1>4, <1>8 DEF FinderOK, FindOK
<1>12. q = (k.pos + (Num(k.index) - p)) % g.capacity
  <2>1. Base(k.index) = BLOCK_SIZE * Num(k.index) /\ Num(k.index) \in Int
    <3>1. k.index \in Int
      BY <1>7
    <3> QED BY <3>1, NumIs
  <2>2. PICK n, d : n = Num(k.index) /\ d = Num(k.index) - p
    OBVIOUS
  <2>3. n \in Int /\ d \in Int /\ BLOCK_SIZE \in Nat \ {0}
    BY <2>1, <2>2, BlockSize
  <2>4. BLOCK_SIZE * n - BLOCK_SIZE * p = BLOCK_SIZE * d
    BY <2>2, <2>3
  <2>5. (BLOCK_SIZE * d) \div BLOCK_SIZE = d
    BY <2>3, DivOfProduct
  <2> QED BY <1>1, <1>8, <1>11, <2>1, <2>2, <2>4, <2>5 DEF get_block_index_index_for_index
<1>13. q \in 0 .. g.capacity - 1
  <2>1. PICK d : d = Num(k.index) - p
    OBVIOUS
  <2>2. d \in Int /\ k.pos \in Int
    BY <1>7, <1>9, <2>1
  <2> QED BY <1>10, <1>12, <2>1, <2>2, SlotIn
<1>14. FindsFrom(r, headers, top, Num(r.index))
  <2> SUFFICES ASSUME NEW m \in Num(k.index) .. Num(k.last - 1) PROVE Finds(r, headers, top, Num(k.index), m)
    BY <1>6 DEF FindsFrom
  <2>1. PICK d, e : d = Num(k.index) - p /\ e = m - Num(k.index)
    OBVIOUS
  <2>2. d \in Int /\ e \in Int /\ k.pos \in Int /\ d + e = m - p
    <3>1. PICK n, l : n = Num(k.index) /\ l = Num(k.last - 1)
      OBVIOUS
    <3>2. n \in Int /\ l \in Int /\ m \in n .. l
      BY <1>7, <3>1
    <3>3. d \in Int /\ e \in Int /\ d + e = m - p
      BY <2>1, <3>1, <3>2
    <3>4. k.pos \in Int
      BY <1>9, <1>10
    <3> QED BY <3>3, <3>4
  <2>3. SlotOf(g, (k.pos + d) % g.capacity, e) = SlotOf(g, k.pos, d + e)
    BY <1>10, <2>2, SlotShift
  <2>4. SlotOf(g, q, e) = SlotOf(g, k.pos, m - p)
    BY <1>12, <2>1, <2>2, <2>3
  <2>5. Finds(k, headers, top, p, m)
    BY <1>11
  <2> QED BY <1>6, <1>8, <2>1, <2>4, <2>5 DEF Finds
<1>15. FinderOK(r, top, headers, entries)
  BY <1>5, <1>6, <1>8, <1>9, <1>13, <1>14 DEF FinderOK, Finding
<1> QED BY <1>0, <1>3, <1>6, <1>15, LookStep
-----------------------------------------------------------------------------
(* The entry and the block of a consumer that has found its entry.         *)
LEMMA BlockNow ==
  ASSUME ImplicitInv, ReserveInv, NEW top, top = Top(tailIndex, producer), NEW h, h = headers[Len(headers)],
         NEW c \in Consumers, NEW k, k = consumer[c], k.pc \in {"read", "empty", "clear"},
         NEW n, n = Num(k.index), NEW e, e = Home(h, top, n)
  PROVE  /\ ImplicitEntryOf(k) = e /\ e \in 1 .. Len(entries)
         /\ entries[e].value \in Blocks
         /\ elementsCompletelyDequeued[entries[e].value] = BLOCK_SIZE - Cardinality(Undone(n, headIndex, consumer))
<1>0. PICK given : given = Given(tailIndex, producer)
  OBVIOUS
<1>1. /\ top \in Int /\ given \in Int
      /\ Len(entries) \in Nat /\ HeaderOK(h, Len(entries)) /\ Len(headers) \in Nat \ {0}
      /\ AllLiveOK(top, given, headIndex, consumer, h, entries, elementsCompletelyDequeued)
  BY <1>0, IndexNow
<1>2. n \in Nat /\ n <= given /\ Live(n, top, headIndex, consumer) /\ n <= Num(k.last - 1) /\ Num(k.last - 1) \in Int
  BY <1>0, ReaderNow DEF Reading
<1>3. e \in 1 .. Len(entries)
  BY <1>1, <1>2, HomeIn
<1>4. /\ entries[e].value \in Blocks
      /\ elementsCompletelyDequeued[entries[e].value] = BLOCK_SIZE - Cardinality(Undone(n, headIndex, consumer))
  BY <1>1, <1>2 DEF AllLiveOK, LiveOK
<1>5. FinderOK(k, top, headers, entries)
  BY DEF ImplicitInv, Indexed, AllReaders
<1>6. k.hdr \in 1 .. Len(headers) /\ k.pos \in 0 .. headers[k.hdr].capacity - 1
  BY <1>5 DEF FinderOK, Finding
<1>7. HeaderOK(headers[k.hdr], Len(entries))
  BY <1>6 DEF ImplicitInv, Indexed, IndexOK
<1>8. Finds(k, headers, top, n, n)
  <2>1. n \in n .. Num(k.last - 1)
    BY <1>2
  <2> QED BY <1>5, <2>1 DEF FinderOK, FindsFrom
<1>9. n - n = 0
  BY <1>2
<1>10. SlotOf(headers[k.hdr], k.pos, 0) = e
  BY <1>8, <1>9 DEF Finds
<1>11. headers[k.hdr].index[k.pos] = e
  BY <1>1, <1>6, <1>7, <1>10, SlotHere
<1> QED BY <1>3, <1>4, <1>11 DEF ImplicitEntryOf

(* A block is in one entry only.                                           *)
LEMMA OneEntry ==
  ASSUME NEW free, NEW es, NEW cs, OwnersOK(free, es, cs), NEW e \in 1 .. Len(es), NEW f \in 1 .. Len(es),
         es[e].value \in Blocks, es[e].value = es[f].value
  PROVE  e = f
BY NoBlockAssumption DEF OwnersOK

(* The element numbered i is at the place of i in the block of i.          *)
LEMMA PlaceIs ==
  ASSUME NEW i \in Int, NEW j \in Int, Num(i) = Num(j)
  PROVE  Base(j) + (i % BLOCK_SIZE) = i
<1>1. PICK x : x = BLOCK_SIZE * Num(j)
  OBVIOUS
<1>2. x \in Int /\ Base(j) = x
  BY <1>1, NumIs
<1>3. i % BLOCK_SIZE = i - x
  BY <1>1, NumIs
<1> QED BY <1>2, <1>3

(* The elements are moved out of the block.                                *)
LEMMA ReadKeepsIndex ==
  ASSUME ImplicitInv, ReserveInv, NEW c \in Consumers, ImplicitRead(c)
  PROVE  ImplicitInv'
<1>0. PICK k, top, given, h, n, e, b :
        /\ k = consumer[c] /\ top = Top(tailIndex, producer) /\ given = Given(tailIndex, producer)
        /\ h = headers[Len(headers)] /\ n = Num(consumer[c].index) /\ e = Home(h, top, n)
        /\ b = entries[e].value
  OBVIOUS
<1>a. k.pc = "read"
  BY <1>0 DEF ImplicitRead, ReadBlock
<1>1. ImplicitEntryOf(k) = e /\ e \in 1 .. Len(entries) /\ b \in Blocks
  BY <1>0, <1>a, BlockNow
<1>2. PICK r : r = [pc |-> "empty", index |-> k.index, last |-> k.last, hdr |-> k.hdr, pos |-> k.pos, block |-> b]
  OBVIOUS
<1>3. PICK els2 : els2 = [elements EXCEPT ![b] =
          [s \in Slots |-> IF Base(k.index) + s \in k.index .. End(k) - 1 THEN Empty ELSE elements[b][s]]]
  OBVIOUS
<1>4. DOMAIN consumer = Consumers /\ headIndex \in Nat /\ tailIndex \in Nat /\ headIndex <= tailIndex
  BY Now
<1>5. elements \in [Blocks -> [Slots -> Int]]
  BY DEF ImplicitInv, Indexed, IndexOK
<1>6. consumer' = [consumer EXCEPT ![c] = r] /\ elements' = els2
      /\ UNCHANGED <<indexVars, tailBlock, pool, producer, implicitVars>>
  BY <1>0, <1>1, <1>2, <1>3, <1>5 DEF ImplicitRead, ReadBlock
<1>7. r.pc = "empty" /\ r.index = k.index /\ r.last = k.last /\ r.hdr = k.hdr /\ r.pos = k.pos /\ r.block = b
      /\ DOMAIN r = {"pc", "index", "last", "hdr", "pos", "block"}
  BY <1>2
<1>8. els2 \in [Blocks -> [Slots -> Int]] /\ \A d \in Blocks \ {b} : els2[d] = elements[d]
  <2>1. [s \in Slots |-> IF Base(k.index) + s \in k.index .. End(k) - 1 THEN Empty ELSE elements[b][s]]
          \in [Slots -> Int]
    BY <1>1, <1>5 DEF Empty
  <2> QED BY <1>1, <1>3, <1>5, <2>1
<1>9. \A s \in Slots : ~(Base(k.index) + s \in k.index .. End(k) - 1) => els2[b][s] = elements[b][s]
  BY <1>1, <1>3, <1>5
<1>10. PICK cs2 : cs2 = consumer'
  OBVIOUS
<1>11. cs2[c] = r /\ \A d \in Consumers \ {c} : cs2[d] = consumer[d]
  BY <1>4, <1>6, <1>10
<1>12. k.index \in Nat /\ k.last \in Nat /\ k.index < k.last /\ k.last <= headIndex
  BY <1>0, <1>a, ReaderNow DEF Reading
<1>13. /\ End(k) \in Nat /\ k.index < End(k) /\ End(k) <= k.last /\ End(r) = End(k)
  BY <1>7, <1>12, EndIs DEF End
<1>14. Rest(r) = Rest(k) /\ Rest(k) = k.index .. k.last - 1 /\ Unread(r) = End(k) .. k.last - 1
  BY <1>a, <1>7, <1>13 DEF Rest, Unread
<1>15. SameWork(headIndex, consumer, headIndex, cs2)
  <2>1. \A d \in Consumers : Rest(cs2[d]) = Rest(consumer[d])
    BY <1>0, <1>11, <1>14
  <2>2. \A m \in Nat : Undone(m, headIndex, cs2) = Undone(m, headIndex, consumer)
    BY <2>1 DEF Undone
  <2>3. \A d \in Consumers, m \in Nat : Clears(cs2[d], m) <=> Clears(consumer[d], m)
    BY <1>0, <1>a, <1>7, <1>11 DEF Clears
  <2>4. \A d \in Consumers, x \in Blocks : Releases(cs2[d], x) <=> Releases(consumer[d], x)
    BY <1>0, <1>a, <1>7, <1>11 DEF Releases
  <2> QED BY <2>2, <2>3, <2>4 DEF SameWork
<1>16. Indexed(tailIndex, headIndex, producer, consumer, tailBlock, headers, entries,
               elementsCompletelyDequeued, elements, pool)
  BY DEF ImplicitInv
<1>17. ReaderOK(r, headIndex)
  BY <1>7, <1>12 DEF ReaderOK
<1>18. FinderOK(r, top, headers, entries)
  <2>1. FinderOK(k, top, headers, entries)
    BY <1>0, <1>16 DEF Indexed, AllReaders
  <2>2. k.hdr \in 1 .. Len(headers) /\ k.pos \in 0 .. headers[k.hdr].capacity - 1
        /\ FindsFrom(k, headers, top, Num(k.index))
    BY <1>a, <2>1 DEF FinderOK, Finding
  <2>3. FindsFrom(r, headers, top, Num(k.index))
    BY <1>7, <2>2 DEF FindsFrom, Finds
  <2> QED BY <1>0, <1>7, <2>2, <2>3 DEF FinderOK, Finding
<1>19. ASSUME NEW i \in Nat, ToRead(i, headIndex, cs2)
       PROVE  ToRead(i, headIndex, consumer) /\ i \notin k.index .. End(k) - 1
  <2>1. CASE i >= headIndex
    BY <1>4, <1>12, <1>13, <2>1 DEF ToRead
  <2>2. CASE \E d \in Consumers \ {c} : i \in Unread(consumer[d])
    <3>1. PICK d \in Consumers \ {c} : i \in Unread(consumer[d])
      BY <2>2
    <3>2. ReaderOK(consumer[d], headIndex) /\ Apart(consumer[d], k)
      BY <1>0, <1>16 DEF Indexed, AllReaders, ClaimsOK
    <3>3. i \in Rest(consumer[d])
      BY <1>4, <3>1, <3>2, RestIs
    <3>4. i \notin k.index .. k.last - 1
      BY <1>14, <3>2, <3>3 DEF Apart
    <3>5. i \notin k.index .. End(k) - 1
      BY <1>12, <1>13, <3>4
    <3> QED BY <3>1, <3>5 DEF ToRead
  <2>3. CASE i \in Unread(r)
    <3>1. i \in End(k) .. k.last - 1
      BY <1>14, <2>3
    <3>2. i \in k.index .. k.last - 1 /\ i \notin k.index .. End(k) - 1
      BY <1>12, <1>13, <3>1
    <3>3. i \in Unread(k)
      BY <1>a, <3>2 DEF Unread
    <3> QED BY <1>0, <3>2, <3>3 DEF ToRead
  <2> QED BY <1>11, <1>19, <2>1, <2>2, <2>3 DEF ToRead
<1>20. ElementsOK(tailIndex, top, headIndex, cs2, h, entries, els2)
  <2> SUFFICES ASSUME NEW i \in 0 .. tailIndex - 1, ToRead(i, headIndex, cs2)
               PROVE  els2[entries[Home(h, top, Num(i))].value][i % BLOCK_SIZE] = i
    BY DEF ElementsOK
  <2>1. i \in Nat /\ i <= tailIndex - 1 /\ tailIndex - 1 \in Int
    BY <1>4
  <2>2. ToRead(i, headIndex, consumer) /\ i \notin k.index .. End(k) - 1
    BY <1>19, <2>1
  <2>3. PICK m, v, s : m = Num(i) /\ v = entries[Home(h, top, m)].value /\ s = i % BLOCK_SIZE
    OBVIOUS
  <2>4. elements[v][s] = i
    BY <1>0, <1>16, <2>2, <2>3 DEF Indexed, ElementsOK
  <2>5. /\ top \in Int /\ given \in Int /\ Num(tailIndex - 1) \in Int /\ Num(tailIndex - 1) <= given /\ given <= top
        /\ Len(entries) \in Nat /\ HeaderOK(h, Len(entries))
        /\ AllLiveOK(top, given, headIndex, consumer, h, entries, elementsCompletelyDequeued)
    BY <1>0, IndexNow
  <2>6. m <= Num(tailIndex - 1) /\ m \in Nat /\ m <= top /\ m <= given
    <3>1. Num(i) <= Num(tailIndex - 1) /\ Num(i) \in Nat
      BY <2>1, NumOrder, NumNat
    <3> QED BY <2>3, <2>5, <3>1
  <2>7. Live(m, top, headIndex, consumer)
    <3>1. i >= headIndex \/ \E d \in Consumers : i \in Rest(consumer[d])
      <4>1. \A d \in Consumers : ReaderOK(consumer[d], headIndex)
        BY <1>16 DEF Indexed, AllReaders
      <4>2. \A d \in Consumers : Unread(consumer[d]) \subseteq Rest(consumer[d])
        BY <1>4, <4>1, RestIs
      <4> QED BY <2>2, <4>2 DEF ToRead
    <3> QED BY <2>1, <2>3, <2>5, <2>6, <3>1, LiveIf
  <2>8. v \in Blocks
    BY <2>3, <2>5, <2>6, <2>7 DEF AllLiveOK, LiveOK
  <2>9. s \in Slots
    BY <2>1, <2>3, NumIs
  <2>10. CASE v = b
    <3>1. Home(h, top, m) \in 1 .. Len(entries) /\ OwnersOK(pool, entries, consumer)
      BY <1>16, <2>5, <2>6, HomeIn DEF Indexed
    <3>2. Home(h, top, m) = e
      BY <1>0, <1>1, <2>3, <2>8, <2>10, <3>1, OneEntry
    <3>3. n \in Nat /\ Live(n, top, headIndex, consumer)
      BY <1>0, <1>a, ReaderNow DEF Reading
    <3>4. m = n
      BY <1>0, <2>5, <2>6, <2>7, <3>2, <3>3, TwoLive
    <3>5. Base(k.index) + s = i
      <4>1. k.index \in Int /\ i \in Int /\ Num(i) = Num(k.index)
        BY <1>0, <1>12, <2>1, <2>3, <3>4
      <4>2. Base(k.index) + (i % BLOCK_SIZE) = i
        BY <4>1, PlaceIs
      <4> QED BY <2>3, <4>2
    <3> QED BY <1>9, <2>2, <2>3, <2>4, <2>9, <2>10, <3>5
  <2>11. CASE v # b
    BY <1>8, <2>3, <2>4, <2>8, <2>11
  <2> QED BY <2>10, <2>11
<1>21. \A d \in Consumers \ {c} : Apart(consumer[d], cs2[c])
  BY <1>0, <1>11, <1>14, <1>16 DEF Indexed, ClaimsOK, Apart
<1>22. Indexed(tailIndex, headIndex, producer, cs2, tailBlock, headers, entries,
               elementsCompletelyDequeued, els2, pool)
  <2>1. headIndex <= headIndex
    BY <1>4
  <2> QED BY <1>0, <1>4, <1>8, <1>11, <1>15, <1>16, <1>17, <1>18, <1>20, <1>21, <2>1, MarksKept
<1> QED BY <1>6, <1>10, <1>22 DEF ImplicitInv, implicitVars, indexVars
-----------------------------------------------------------------------------
(* What a consumer knows that goes on with its next block.                 *)
AtEntry(k, head, top, hs, es) ==
  /\ k.index \in Nat /\ k.last \in Nat /\ k.index < k.last /\ k.last <= head
  /\ Len(es) \in Nat /\ k.hdr \in 1 .. Len(hs) /\ HeaderOK(hs[k.hdr], Len(es))
  /\ k.pos \in 0 .. hs[k.hdr].capacity - 1
  /\ FindsFrom(k, hs, top, Num(k.index) + 1)

(* The consumer goes on with its next block, or is done.                   *)
LEMMA NextFinds ==
  ASSUME NEW head \in Nat, NEW k, NEW top, NEW hs, NEW es, AtEntry(k, head, top, hs, es),
         NEW r, r = NextBlock(k, hs[k.hdr].capacity)
  PROVE  /\ r.pc \in {"idle", "read"} /\ Rest(r) = End(k) .. k.last - 1 /\ Unread(r) = End(k) .. k.last - 1
         /\ ReaderOK(r, head) /\ FinderOK(r, top, hs, es)
<1>0. /\ k.index \in Nat /\ k.last \in Nat /\ k.index < k.last /\ k.last <= head
      /\ Len(es) \in Nat /\ k.hdr \in 1 .. Len(hs) /\ HeaderOK(hs[k.hdr], Len(es))
      /\ k.pos \in 0 .. hs[k.hdr].capacity - 1
      /\ FindsFrom(k, hs, top, Num(k.index) + 1)
  BY DEF AtEntry
<1>1. /\ End(k) \in Nat /\ k.index < End(k) /\ End(k) <= k.last
      /\ End(k) # k.last => Num(End(k)) = Num(k.index) + 1
  BY <1>0, EndIs
<1>2. CASE End(k) = k.last
  <2>1. r.pc = "idle"
    BY <1>2 DEF NextBlock, Idle
  <2>2. End(k) .. k.last - 1 = {}
    BY <1>1, <1>2
  <2> QED BY <2>1, <2>2 DEF Rest, Unread, ReaderOK, FinderOK, Reading, Finding
<1>3. CASE End(k) # k.last
  <2>1. PICK g, n, q : g = hs[k.hdr] /\ n = Num(k.index) /\ q = (k.pos + 1) % hs[k.hdr].capacity
    OBVIOUS
  <2>2. r = [pc |-> "read", index |-> End(k), last |-> k.last, hdr |-> k.hdr, pos |-> q]
    BY <1>3, <2>1 DEF NextBlock
  <2>3. r.pc = "read" /\ r.index = End(k) /\ r.last = k.last /\ r.hdr = k.hdr /\ r.pos = q
        /\ DOMAIN r = {"pc", "index", "last", "hdr", "pos"}
    BY <2>2
  <2>4. Rest(r) = End(k) .. k.last - 1 /\ Unread(r) = End(k) .. k.last - 1
    BY <2>3 DEF Rest, Unread
  <2>5. ReaderOK(r, head)
    BY <1>0, <1>1, <1>3, <2>3 DEF ReaderOK
  <2>6. g.capacity \in Nat \ {0} /\ k.pos \in Int /\ n \in Int /\ 1 \in Int
    <3>1. g.capacity \in Nat \ {0}
      BY <1>0, <2>1 DEF HeaderOK
    <3>2. k.pos \in Int
      BY <1>0, <2>1, <3>1
    <3>3. k.index \in Int
      BY <1>0
    <3>4. Num(k.index) \in Int
      BY <3>3, NumIs
    <3> QED BY <2>1, <3>1, <3>2, <3>4
  <2>7. q \in 0 .. g.capacity - 1
    BY <1>0, <2>1, <2>6, SlotIn
  <2>8. \A m \in n + 1 .. Num(k.last - 1) : Finds(r, hs, top, n + 1, m)
    <3>0. Num(k.last - 1) \in Int
      <4>1. k.last - 1 \in Int
        BY <1>0
      <4> QED BY <4>1, NumIs
    <3> SUFFICES ASSUME NEW m \in n + 1 .. Num(k.last - 1) PROVE Finds(r, hs, top, n + 1, m)
      OBVIOUS
    <3>1. PICK d, e : d = m - (n + 1) /\ e = m - n
      OBVIOUS
    <3>2. d \in Int /\ 1 + d = e /\ m \in Int
      BY <2>6, <3>0, <3>1
    <3>3. SlotOf(g, (k.pos + 1) % g.capacity, d) = SlotOf(g, k.pos, 1 + d)
      <4>1. HeaderOK(g, Len(es))
        BY <1>0, <2>1
      <4> QED BY <1>0, <2>6, <3>2, <4>1, SlotNext
    <3>4. Finds(k, hs, top, n, m)
      BY <1>0, <2>1 DEF FindsFrom
    <3> QED BY <2>1, <2>3, <3>1, <3>2, <3>3, <3>4 DEF Finds
  <2>9. Num(r.index) = n + 1
    BY <1>1, <1>3, <2>1, <2>3
  <2>10. FinderOK(r, top, hs, es)
    BY <1>0, <2>1, <2>3, <2>7, <2>8, <2>9 DEF FinderOK, Finding, FindsFrom
  <2> QED BY <2>3, <2>4, <2>5, <2>10
<1> QED BY <1>2, <1>3

(* The entry of a consumer has a position in its header.                   *)
LEMMA HeaderNow ==
  ASSUME ImplicitInv, ReserveInv, NEW c \in Consumers, NEW k, k = consumer[c], k.pc \in Finding
  PROVE  /\ k.hdr \in 1 .. Len(headers) /\ HeaderOK(headers[k.hdr], Len(entries))
         /\ k.pos \in 0 .. headers[k.hdr].capacity - 1
         /\ FinderOK(k, Top(tailIndex, producer), headers, entries)
<1>1. FinderOK(k, Top(tailIndex, producer), headers, entries)
  BY DEF ImplicitInv, Indexed, AllReaders
<1>2. k.hdr \in 1 .. Len(headers) /\ k.pos \in 0 .. headers[k.hdr].capacity - 1
  BY <1>1 DEF FinderOK
<1>3. HeaderOK(headers[k.hdr], Len(entries))
  BY <1>2 DEF ImplicitInv, Indexed, IndexOK
<1> QED BY <1>1, <1>2, <1>3

(* The elements of a block that are not marked empty are finitely many.    *)
LEMMA UndoneFinite ==
  ASSUME NEW n \in Int, NEW head, NEW cs
  PROVE  /\ IsFiniteSet(Undone(n, head, cs)) /\ Cardinality(Undone(n, head, cs)) \in Nat
         /\ Undone(n, head, cs) \subseteq Span(n)
<1>1. PICK x, y : x = BLOCK_SIZE * n /\ y = BLOCK_SIZE * n + BLOCK_SIZE - 1
  OBVIOUS
<1>2. x \in Int /\ y \in Int
  BY <1>1, BlockSize
<1>3. IsFiniteSet(x .. y)
  BY <1>2, FS_Interval
<1>4. Undone(n, head, cs) \in SUBSET (x .. y)
  BY <1>1 DEF Undone, Span
<1>5. IsFiniteSet(Undone(n, head, cs))
  BY <1>3, <1>4, FS_Subset
<1> QED BY <1>5, FS_CardinalityType DEF Undone

(* A consumer marks what it has read of a block empty.                     *)
LEMMA MarksDone ==
  ASSUME NEW head \in Nat, NEW cs, NEW c \in Consumers, NEW k, k = cs[c], k.pc = "empty",
         k.index \in Nat, k.last \in Nat, k.index < k.last, k.last <= head, ClaimsOK(head, cs),
         NEW cs2, \A d \in Consumers \ {c} : cs2[d] = cs[d], Rest(cs2[c]) = End(k) .. k.last - 1,
         NEW n, n = Num(k.index)
  PROVE  /\ \A m \in Nat \ {n} : Undone(m, head, cs2) = Undone(m, head, cs)
         /\ k.index \in Undone(n, head, cs)
         /\ Cardinality(Undone(n, head, cs2)) = Cardinality(Undone(n, head, cs)) - (End(k) - k.index)
<1>1. /\ End(k) \in Nat /\ k.index < End(k) /\ End(k) <= k.last
      /\ \A i \in Int : i \in k.index .. End(k) - 1 <=> k.index <= i /\ i < k.last /\ Num(i) = n
      /\ \A i \in Nat : i \in End(k) .. k.last - 1 <=> i \in k.index .. k.last - 1 /\ Num(i) # n
  BY EndIs
<1>2. Rest(k) = k.index .. k.last - 1
  BY DEF Rest
<1>3. n \in Nat
  BY NumNat
<1>4. ASSUME NEW i \in Nat
      PROVE  (i >= head \/ \E d \in Consumers : i \in Rest(cs2[d]))
             <=> (i >= head \/ \E d \in Consumers : i \in Rest(cs[d])) /\ i \notin k.index .. End(k) - 1
  <2>1. CASE i \in k.index .. k.last - 1
    <3>1. ~(i >= head)
      BY <2>1
    <3>2. \A d \in Consumers \ {c} : i \notin Rest(cs[d])
      BY <1>2, <2>1 DEF ClaimsOK, Apart
    <3>3. i \in Rest(cs[c])
      BY <1>2, <2>1
    <3>4. i \in Rest(cs2[c]) <=> i \notin k.index .. End(k) - 1
      BY <1>1, <2>1
    <3> QED BY <3>1, <3>2, <3>3, <3>4
  <2>2. CASE i \notin k.index .. k.last - 1
    <3>1. i \notin End(k) .. k.last - 1 /\ i \notin k.index .. End(k) - 1
      BY <1>1, <2>2
    <3> QED BY <1>2, <2>2, <3>1
  <2> QED BY <2>1, <2>2
<1>5. \A m \in Nat : Span(m) \subseteq Nat
  BY StartOrder, BlockSize DEF Span
<1>6. \A m \in Nat : Undone(m, head, cs2) = Undone(m, head, cs) \ (k.index .. End(k) - 1)
  BY <1>4, <1>5 DEF Undone
<1>7. \A m \in Nat \ {n} : Undone(m, head, cs) \intersect (k.index .. End(k) - 1) = {}
  <2> SUFFICES ASSUME NEW m \in Nat \ {n}, NEW i \in Undone(m, head, cs), i \in k.index .. End(k) - 1
               PROVE  FALSE
    OBVIOUS
  <2>1. i \in Span(m) /\ m \in Int
    BY DEF Undone
  <2>2. i \in Int /\ Num(i) = m
    BY <2>1, SpanIs
  <2> QED BY <1>1, <2>2
<1>8. \A m \in Nat \ {n} : Undone(m, head, cs2) = Undone(m, head, cs)
  <2> SUFFICES ASSUME NEW m \in Nat \ {n} PROVE Undone(m, head, cs2) = Undone(m, head, cs)
    OBVIOUS
  <2>1. PICK V, D : V = Undone(m, head, cs) /\ D = k.index .. End(k) - 1
    OBVIOUS
  <2>2. Undone(m, head, cs2) = V \ D /\ V \intersect D = {}
    BY <1>6, <1>7, <2>1
  <2> QED BY <2>1, <2>2
<1>9. k.index .. End(k) - 1 \subseteq Undone(n, head, cs)
  <2> SUFFICES ASSUME NEW i \in k.index .. End(k) - 1 PROVE i \in Undone(n, head, cs)
    OBVIOUS
  <2>1. i \in Int /\ Num(i) = n /\ i \in Rest(k) /\ n \in Int
    BY <1>1, <1>2, <1>3
  <2>2. i \in Span(n)
    BY <2>1, SpanIs
  <2> QED BY <2>1, <2>2 DEF Undone
<1>10. PICK U, U2, D : U = Undone(n, head, cs) /\ U2 = Undone(n, head, cs2) /\ D = k.index .. End(k) - 1
  OBVIOUS
<1>11. IsFiniteSet(U) /\ Cardinality(U) \in Nat
  BY <1>3, <1>10, UndoneFinite
<1>12. U2 = U \ D /\ U \cap D = D
  BY <1>3, <1>6, <1>9, <1>10
<1>13. Cardinality(U2) = Cardinality(U) - Cardinality(D)
  <2>1. Cardinality(U \ D) = Cardinality(U) - Cardinality(U \cap D)
    BY <1>11, FS_Difference
  <2> QED BY <1>12, <2>1
<1>14. Cardinality(D) = End(k) - k.index
  <2>1. PICK a, z : a = k.index /\ z = End(k) - 1
    OBVIOUS
  <2>2. a \in Int /\ z \in Int /\ ~(a > z) /\ z - a + 1 = End(k) - k.index
    BY <1>1, <2>1
  <2>3. Cardinality(a .. z) = IF a > z THEN 0 ELSE z - a + 1
    BY <2>2, FS_Interval
  <2> QED BY <1>10, <2>1, <2>2, <2>3
<1>15. k.index \in Undone(n, head, cs)
  BY <1>1, <1>9
<1> QED BY <1>8, <1>10, <1>13, <1>14, <1>15
-----------------------------------------------------------------------------
(* The elements are counted as empty.                                      *)
LEMMA EmptyKeepsIndex ==
  ASSUME ImplicitInv, ReserveInv, NEW c \in Consumers, ImplicitEmpty(c)
  PROVE  ImplicitInv'
<1>0. PICK k, top, given, h, n, e, b :
        /\ k = consumer[c] /\ top = Top(tailIndex, producer) /\ given = Given(tailIndex, producer)
        /\ h = headers[Len(headers)] /\ n = Num(consumer[c].index) /\ e = Home(h, top, n)
        /\ b = entries[e].value
  OBVIOUS
<1>a. k.pc = "empty"
  BY <1>0 DEF ImplicitEmpty
<1>b. Indexed(tailIndex, headIndex, producer, consumer, tailBlock, headers, entries,
              elementsCompletelyDequeued, elements, pool)
  BY DEF ImplicitInv
<1>1. e \in 1 .. Len(entries) /\ b \in Blocks
      /\ elementsCompletelyDequeued[b] = BLOCK_SIZE - Cardinality(Undone(n, headIndex, consumer))
  BY <1>0, <1>a, BlockNow
<1>2. k.hdr \in 1 .. Len(headers) /\ HeaderOK(headers[k.hdr], Len(entries))
      /\ k.pos \in 0 .. headers[k.hdr].capacity - 1 /\ FinderOK(k, top, headers, entries)
  BY <1>0, <1>a, HeaderNow DEF Finding
<1>3. k.block = b
      /\ FindsFrom(k, headers, top, Num(k.index))
      /\ DOMAIN k = {"pc", "index", "last", "hdr", "pos", "block"}
  BY <1>0, <1>a, <1>2 DEF FinderOK
<1>4. PICK total, cap : total = elementsCompletelyDequeued[b] + End(k) - k.index /\ cap = headers[k.hdr].capacity
  OBVIOUS
<1>5. PICK r : r = IF total = BLOCK_SIZE THEN [k EXCEPT !.pc = "clear"] ELSE NextBlock(k, cap)
  OBVIOUS
<1>6. PICK ecd2 : ecd2 = [elementsCompletelyDequeued EXCEPT ![b] = total]
  OBVIOUS
<1>7. consumer' = [consumer EXCEPT ![c] = r] /\ elementsCompletelyDequeued' = ecd2
      /\ UNCHANGED <<indexVars, blockVars, entries, headers, producer>>
  BY <1>0, <1>3, <1>4, <1>5, <1>6 DEF ImplicitEmpty
<1>8. DOMAIN consumer = Consumers /\ headIndex \in Nat /\ tailIndex \in Nat /\ headIndex <= tailIndex
  BY Now
<1>9. PICK cs2 : cs2 = consumer'
  OBVIOUS
<1>10. cs2[c] = r /\ \A d \in Consumers \ {c} : cs2[d] = consumer[d]
  BY <1>7, <1>8, <1>9
<1>11. /\ k.index \in Nat /\ k.last \in Nat /\ k.index < k.last /\ k.last <= headIndex
       /\ n \in Nat /\ n <= given /\ Live(n, top, headIndex, consumer) /\ Num(k.last - 1) \in Int
  BY <1>0, <1>a, ReaderNow DEF Reading
<1>12. End(k) \in Nat /\ k.index < End(k) /\ End(k) <= k.last
  BY <1>11, EndIs
<1>13. /\ top \in Int /\ given \in Int /\ Num(tailIndex - 1) \in Int /\ Num(tailIndex - 1) <= given /\ given <= top
       /\ Len(entries) \in Nat /\ HeaderOK(h, Len(entries))
       /\ AllLiveOK(top, given, headIndex, consumer, h, entries, elementsCompletelyDequeued)
  BY <1>0, IndexNow
<1>14. /\ Rest(r) = End(k) .. k.last - 1 /\ Unread(r) = End(k) .. k.last - 1
       /\ ReaderOK(r, headIndex) /\ FinderOK(r, top, headers, entries)
       /\ total = BLOCK_SIZE => r.pc = "clear" /\ r.index = k.index
       /\ total # BLOCK_SIZE => r.pc \in {"idle", "read"}
  <2>1. CASE total = BLOCK_SIZE
    <3>1. r = [k EXCEPT !.pc = "clear"]
      BY <1>5, <2>1
    <3>2. r.pc = "clear" /\ r.index = k.index /\ r.last = k.last /\ r.hdr = k.hdr /\ r.pos = k.pos
          /\ r.block = k.block /\ DOMAIN r = DOMAIN k
      BY <1>3, <3>1
    <3>3. End(r) = End(k)
      BY <3>2 DEF End
    <3>4. Rest(r) = End(k) .. k.last - 1 /\ Unread(r) = End(k) .. k.last - 1
      BY <3>2, <3>3 DEF Rest, Unread
    <3>5. ReaderOK(r, headIndex)
      BY <1>11, <3>2 DEF ReaderOK
    <3>6. FindsFrom(r, headers, top, Num(r.index))
      BY <1>3, <3>2 DEF FindsFrom, Finds
    <3>7. FinderOK(r, top, headers, entries)
      BY <1>0, <1>2, <1>3, <3>2, <3>6 DEF FinderOK, Finding
    <3> QED BY <2>1, <3>2, <3>4, <3>5, <3>7
  <2>2. CASE total # BLOCK_SIZE
    <3>1. r = NextBlock(k, headers[k.hdr].capacity)
      BY <1>4, <1>5, <2>2
    <3>2. FindsFrom(k, headers, top, Num(k.index) + 1)
      <4>1. Num(k.index) \in Int
        BY <1>0, <1>11
      <4>2. \A m \in Num(k.index) + 1 .. Num(k.last - 1) : m \in Num(k.index) .. Num(k.last - 1)
        BY <1>11, <4>1
      <4> QED BY <1>3, <4>2 DEF FindsFrom
    <3>3. /\ r.pc \in {"idle", "read"} /\ Rest(r) = End(k) .. k.last - 1 /\ Unread(r) = End(k) .. k.last - 1
          /\ ReaderOK(r, headIndex) /\ FinderOK(r, top, headers, entries)
      <4>1. AtEntry(k, headIndex, top, headers, entries)
        BY <1>2, <1>11, <1>13, <3>2 DEF AtEntry
      <4> QED BY <1>8, <3>1, <4>1, NextFinds
    <3> QED BY <2>2, <3>3
  <2> QED BY <2>1, <2>2
<1>15. PICK U, U2 : U = Undone(n, headIndex, consumer) /\ U2 = Undone(n, headIndex, cs2)
  OBVIOUS
<1>16. /\ \A m \in Nat \ {n} : Undone(m, headIndex, cs2) = Undone(m, headIndex, consumer)
       /\ k.index \in U
       /\ Cardinality(U2) = Cardinality(U) - (End(k) - k.index)
  <2>1. ClaimsOK(headIndex, consumer)
    BY <1>b DEF Indexed
  <2>2. Rest(cs2[c]) = End(k) .. k.last - 1
    BY <1>10, <1>14
  <2> QED BY <1>0, <1>a, <1>8, <1>10, <1>11, <1>15, <2>1, <2>2, MarksDone
<1>17. IsFiniteSet(U2) /\ Cardinality(U2) \in Nat /\ Cardinality(U) \in Nat
  <2>1. n \in Int
    BY <1>11
  <2> QED BY <1>15, <2>1, UndoneFinite
<1>18. total = BLOCK_SIZE - Cardinality(U2) /\ total \in Nat /\ (total = BLOCK_SIZE <=> U2 = {})
  <2>1. BLOCK_SIZE \in Nat
    BY BlockSize
  <2>2. elementsCompletelyDequeued[b] = BLOCK_SIZE - Cardinality(U) /\ elementsCompletelyDequeued[b] \in Nat
    BY <1>1, <1>15, <1>b DEF Indexed, IndexOK
  <2>3. total = BLOCK_SIZE - Cardinality(U2) /\ total \in Nat
    BY <1>4, <1>11, <1>12, <1>16, <1>17, <2>1, <2>2
  <2>4. Cardinality(U2) = 0 <=> U2 = {}
    BY <1>17, FS_EmptySet
  <2> QED BY <1>17, <2>1, <2>3, <2>4
<1>19. \A d \in Consumers \ {c}, m \in Nat : Clears(cs2[d], m) <=> Clears(consumer[d], m)
  BY <1>10
<1>20. \A m \in Nat : ~Clears(consumer[c], m) /\ (Clears(cs2[c], m) <=> total = BLOCK_SIZE /\ m = n)
  BY <1>0, <1>a, <1>10, <1>14 DEF Clears
<1>21. ASSUME NEW m \in Nat PROVE Live(m, top, headIndex, cs2) <=> Live(m, top, headIndex, consumer)
  <2>1. CASE m = n
    <3>1. Undone(m, headIndex, cs2) # {} \/ \E d \in Consumers : Clears(cs2[d], m)
      BY <1>11, <1>15, <1>18, <1>20, <2>1
    <3> QED BY <1>11, <2>1, <3>1 DEF Live
  <2>2. CASE m # n
    <3>1. Undone(m, headIndex, cs2) = Undone(m, headIndex, consumer)
      BY <1>16, <2>2
    <3>2. \A d \in Consumers : Clears(cs2[d], m) <=> Clears(consumer[d], m)
      BY <1>19, <1>20, <2>2
    <3> QED BY <3>1, <3>2 DEF Live
  <2> QED BY <2>1, <2>2
<1>22. ecd2 \in [Blocks -> Nat] /\ ecd2[b] = total /\ \A d \in Blocks \ {b} : ecd2[d] = elementsCompletelyDequeued[d]
  <2>1. elementsCompletelyDequeued \in [Blocks -> Nat]
    BY <1>b DEF Indexed, IndexOK
  <2> QED BY <1>1, <1>6, <1>18, <2>1
<1>23. AllLiveOK(top, given, headIndex, cs2, h, entries, ecd2)
  <2> SUFFICES ASSUME NEW m \in Nat, Live(m, top, headIndex, consumer)
               PROVE  LiveOK(m, top, given, headIndex, cs2, h, entries, ecd2)
    BY <1>21 DEF AllLiveOK, LiveOK
  <2>1. LiveOK(m, top, given, headIndex, consumer, h, entries, elementsCompletelyDequeued)
    BY <1>13 DEF AllLiveOK
  <2>2. CASE m = n
    BY <1>0, <1>15, <1>18, <1>22, <2>1, <2>2 DEF LiveOK
  <2>3. CASE m # n
    <3>1. Undone(m, headIndex, cs2) = Undone(m, headIndex, consumer)
      BY <1>16, <2>3
    <3>2. ASSUME m <= given PROVE entries[Home(h, top, m)].value # b
      <4>1. Home(h, top, m) \in 1 .. Len(entries)
        BY <1>13, HomeIn
      <4>2. Home(h, top, m) # e
        BY <1>0, <1>11, <1>13, <2>3, TwoLive
      <4>3. OwnersOK(pool, entries, consumer)
        BY <1>b DEF Indexed
      <4> QED BY <1>0, <1>1, <4>1, <4>2, <4>3, OneEntry
    <3> QED BY <1>22, <2>1, <3>1, <3>2 DEF LiveOK
  <2> QED BY <2>2, <2>3
<1>24. AllOnlyLive(top, given, headIndex, cs2, h, entries)
  <2>1. AllOnlyLive(top, given, headIndex, consumer, h, entries)
    BY <1>0, <1>b DEF Indexed
  <2> QED BY <1>13, <1>21, <2>1, OnlyLiveKept
<1>25. OwnersOK(pool, entries, cs2)
  <2>1. OwnersOK(pool, entries, consumer)
    BY <1>b DEF Indexed
  <2>2. \A d \in Consumers, x \in Blocks : Releases(cs2[d], x) <=> Releases(consumer[d], x)
    BY <1>0, <1>a, <1>10, <1>14 DEF Releases
  <2> QED BY <2>1, <2>2, OwnersKept
<1>26. ElementsOK(tailIndex, top, headIndex, cs2, h, entries, elements)
  <2>1. Unread(k) = End(k) .. k.last - 1
    BY <1>a DEF Unread
  <2>2. \A d \in Consumers : Unread(cs2[d]) = Unread(consumer[d])
    BY <1>0, <1>10, <1>14, <2>1
  <2>3. \A i : ToRead(i, headIndex, cs2) <=> ToRead(i, headIndex, consumer)
    BY <2>2 DEF ToRead
  <2>4. ElementsOK(tailIndex, top, headIndex, consumer, h, entries, elements)
    BY <1>0, <1>b DEF Indexed
  <2> QED BY <2>3, <2>4 DEF ElementsOK
<1>27. AllReaders(top, headIndex, cs2, headers, entries)
  <2>1. AllReaders(top, headIndex, consumer, headers, entries)
    BY <1>0, <1>b DEF Indexed
  <2>2. headIndex <= headIndex
    BY <1>8
  <2> QED BY <1>8, <1>10, <1>14, <2>1, <2>2, ReadersKept
<1>28. ClaimsOK(headIndex, cs2)
  <2>1. ClaimsOK(headIndex, consumer)
    BY <1>b DEF Indexed
  <2>2. \A d \in Consumers \ {c} : Apart(consumer[d], cs2[c])
    <3>1. Rest(k) = k.index .. k.last - 1 /\ End(k) .. k.last - 1 \subseteq k.index .. k.last - 1
      BY <1>a, <1>11, <1>12 DEF Rest
    <3> QED BY <1>0, <1>10, <1>14, <2>1, <3>1 DEF ClaimsOK, Apart
  <2>3. ASSUME NEW d \in Consumers, NEW f \in Consumers, d # f PROVE Apart(cs2[d], cs2[f])
    BY <1>10, <2>1, <2>2, <2>3, ClaimsApart
  <2>4. \A d \in Consumers \ {c} : ~Clears(consumer[d], n)
    BY <1>11, <1>15, <1>16, <2>1 DEF ClaimsOK
  <2>5. ASSUME NEW d \in Consumers, NEW m \in Nat, Clears(cs2[d], m) PROVE Undone(m, headIndex, cs2) = {}
    <3>1. CASE d = c
      BY <1>15, <1>18, <1>20, <2>5, <3>1
    <3>2. CASE d # c
      <4>1. Clears(consumer[d], m) /\ m # n
        BY <1>19, <2>4, <2>5, <3>2
      <4> QED BY <1>16, <2>1, <4>1 DEF ClaimsOK
    <3> QED BY <3>1, <3>2
  <2>6. ASSUME NEW d \in Consumers, NEW f \in Consumers, NEW m \in Nat, Clears(cs2[d], m), Clears(cs2[f], m)
        PROVE  d = f
    <3>1. CASE m = n
      BY <1>19, <2>4, <2>6, <3>1
    <3>2. CASE m # n
      BY <1>19, <1>20, <2>1, <2>6, <3>2 DEF ClaimsOK
    <3> QED BY <3>1, <3>2
  <2> QED BY <2>3, <2>5, <2>6 DEF ClaimsOK
<1>29. IndexOK(tailIndex, producer, headers, entries, ecd2, elements)
  BY <1>22, <1>b DEF Indexed, IndexOK
<1>30. Indexed(tailIndex, headIndex, producer, cs2, tailBlock, headers, entries, ecd2, elements, pool)
  BY <1>0, <1>b, <1>23, <1>24, <1>25, <1>26, <1>27, <1>28, <1>29 DEF Indexed
<1> QED BY <1>7, <1>9, <1>30 DEF ImplicitInv, blockVars, indexVars

(* The emptied block goes back to the pool.                                *)
LEMMA ReleaseKeepsIndex ==
  ASSUME ImplicitInv, ReserveInv, NEW c \in Consumers, ImplicitRelease(c)
  PROVE  ImplicitInv'
<1>0. PICK k, top : k = consumer[c] /\ top = Top(tailIndex, producer)
  OBVIOUS
<1>a. k.pc = "release"
  BY <1>0 DEF ImplicitRelease
<1>b. Indexed(tailIndex, headIndex, producer, consumer, tailBlock, headers, entries,
              elementsCompletelyDequeued, elements, pool)
  BY DEF ImplicitInv
<1>1. k.hdr \in 1 .. Len(headers) /\ HeaderOK(headers[k.hdr], Len(entries))
      /\ k.pos \in 0 .. headers[k.hdr].capacity - 1 /\ FinderOK(k, top, headers, entries)
  BY <1>0, <1>a, HeaderNow DEF Finding
<1>2. PICK b : b = k.block
  OBVIOUS
<1>3. b \in Blocks
      /\ FindsFrom(k, headers, top, Num(k.index) + 1)
  BY <1>a, <1>1, <1>2 DEF FinderOK
<1>4. PICK r : r = NextBlock(k, headers[k.hdr].capacity)
  OBVIOUS
<1>5. PICK cs2, free2 : cs2 = consumer' /\ free2 = pool'
  OBVIOUS
<1>6. consumer' = [consumer EXCEPT ![c] = r] /\ free2 = pool \union {b}
      /\ UNCHANGED <<indexVars, tailBlock, elements, implicitVars, producer>>
  BY <1>0, <1>2, <1>4, <1>5 DEF ImplicitRelease
<1>7. DOMAIN consumer = Consumers /\ headIndex \in Nat
  BY Now
<1>8. cs2[c] = r /\ \A d \in Consumers \ {c} : cs2[d] = consumer[d]
  BY <1>5, <1>6, <1>7
<1>9. k.index \in Nat /\ k.last \in Nat /\ k.index < k.last /\ k.last <= headIndex
  BY <1>0, <1>a, ReaderNow DEF Reading
<1>10. Len(entries) \in Nat
  BY <1>b DEF Indexed, IndexOK
<1>11. /\ r.pc \in {"idle", "read"} /\ Rest(r) = End(k) .. k.last - 1 /\ Unread(r) = End(k) .. k.last - 1
       /\ ReaderOK(r, headIndex) /\ FinderOK(r, top, headers, entries)
  <2>1. AtEntry(k, headIndex, top, headers, entries)
    BY <1>1, <1>3, <1>9, <1>10 DEF AtEntry
  <2> QED BY <1>4, <1>7, <2>1, NextFinds
<1>12. Rest(k) = Rest(r) /\ Unread(k) = Unread(r)
  BY <1>a, <1>11 DEF Rest, Unread
<1>13. OwnersOK(free2, entries, cs2)
  <2>1. OwnersOK(pool, entries, consumer)
    BY <1>b DEF Indexed
  <2>2. Releases(consumer[c], b) /\ \A x \in Blocks : ~Releases(cs2[c], x)
    BY <1>0, <1>a, <1>2, <1>8, <1>11 DEF Releases
  <2>3. \A x \in Blocks \ {b} : ~Releases(consumer[c], x)
    BY <1>0, <1>2 DEF Releases
  <2>4. \A d \in Consumers \ {c}, x \in Blocks : Releases(cs2[d], x) <=> Releases(consumer[d], x)
    BY <1>8
  <2>5. \A d \in Consumers \ {c} : ~Releases(consumer[d], b)
    BY <1>3, <2>1, <2>2 DEF OwnersOK
  <2>6. \A f \in 1 .. Len(entries) : entries[f].value # b
    BY <1>3, <2>1, <2>2 DEF OwnersOK
  <2>7. free2 \subseteq Blocks
    BY <1>3, <1>6, <2>1 DEF OwnersOK
  <2>8. \A f \in 1 .. Len(entries) : entries[f].value \notin free2
    BY <1>6, <2>1, <2>6 DEF OwnersOK
  <2>9. \A f \in 1 .. Len(entries), d \in Consumers : entries[f].value \in Blocks => ~Releases(cs2[d], entries[f].value)
    BY <2>1, <2>2, <2>4 DEF OwnersOK
  <2>10. \A x \in Blocks, d, f \in Consumers : Releases(cs2[d], x) /\ Releases(cs2[f], x) => d = f
    BY <2>1, <2>2, <2>4 DEF OwnersOK
  <2>11. \A x \in free2, d \in Consumers : ~Releases(cs2[d], x)
    BY <1>3, <1>6, <2>1, <2>2, <2>4, <2>5 DEF OwnersOK
  <2>12. \A x \in Blocks : \/ x \in free2
                           \/ \E f \in 1 .. Len(entries) : entries[f].value = x
                           \/ \E d \in Consumers : Releases(cs2[d], x)
    BY <1>6, <2>1, <2>3, <2>4 DEF OwnersOK
  <2> QED BY <2>1, <2>7, <2>8, <2>9, <2>10, <2>11, <2>12 DEF OwnersOK
<1>14. PICK given, h : given = Given(tailIndex, producer) /\ h = headers[Len(headers)]
  OBVIOUS
<1>15. \A d \in Consumers : Rest(cs2[d]) = Rest(consumer[d]) /\ Unread(cs2[d]) = Unread(consumer[d])
  BY <1>0, <1>8, <1>12
<1>16. \A d \in Consumers, m \in Nat : Clears(cs2[d], m) <=> Clears(consumer[d], m)
  BY <1>0, <1>a, <1>8, <1>11 DEF Clears
<1>17. \A m \in Nat : Undone(m, headIndex, cs2) = Undone(m, headIndex, consumer)
  BY <1>15 DEF Undone
<1>18. \A m \in Nat : Live(m, top, headIndex, cs2) <=> Live(m, top, headIndex, consumer)
  BY <1>16, <1>17 DEF Live
<1>19. AllLiveOK(top, given, headIndex, cs2, h, entries, elementsCompletelyDequeued)
  <2>1. AllLiveOK(top, given, headIndex, consumer, h, entries, elementsCompletelyDequeued)
    BY <1>0, <1>14, <1>b DEF Indexed
  <2> QED BY <1>17, <1>18, <2>1 DEF AllLiveOK, LiveOK
<1>20. AllOnlyLive(top, given, headIndex, cs2, h, entries)
  <2>1. AllOnlyLive(top, given, headIndex, consumer, h, entries)
    BY <1>0, <1>14, <1>b DEF Indexed
  <2>2. given \in Int
    BY <1>0, <1>14, IndexNow
  <2> QED BY <1>18, <2>1, <2>2, OnlyLiveKept
<1>21. ElementsOK(tailIndex, top, headIndex, cs2, h, entries, elements)
  <2>1. \A i : ToRead(i, headIndex, cs2) <=> ToRead(i, headIndex, consumer)
    BY <1>15 DEF ToRead
  <2>2. ElementsOK(tailIndex, top, headIndex, consumer, h, entries, elements)
    BY <1>0, <1>14, <1>b DEF Indexed
  <2> QED BY <2>1, <2>2 DEF ElementsOK
<1>22. AllReaders(top, headIndex, cs2, headers, entries)
  <2>1. AllReaders(top, headIndex, consumer, headers, entries)
    BY <1>0, <1>b DEF Indexed
  <2>2. headIndex <= headIndex
    BY <1>7
  <2> QED BY <1>7, <1>8, <1>11, <2>1, <2>2, ReadersKept
<1>23. ClaimsOK(headIndex, cs2)
  <2>1. ClaimsOK(headIndex, consumer)
    BY <1>b DEF Indexed
  <2>2. \A d, f \in Consumers : d # f => Apart(cs2[d], cs2[f])
    BY <1>15, <2>1 DEF ClaimsOK, Apart
  <2> QED BY <1>16, <1>17, <2>1, <2>2 DEF ClaimsOK
<1>24. Indexed(tailIndex, headIndex, producer, cs2, tailBlock, headers, entries,
               elementsCompletelyDequeued, elements, free2)
  BY <1>0, <1>b, <1>13, <1>14, <1>19, <1>20, <1>21, <1>22, <1>23 DEF Indexed
<1> QED BY <1>5, <1>6, <1>24 DEF ImplicitInv, implicitVars, indexVars
-----------------------------------------------------------------------------
(* A block after that of the last element is live, with all its elements   *)
(* to come.                                                                *)
LEMMA LaterLive ==
  ASSUME NEW tail \in Nat, NEW head \in Nat, head <= tail, NEW top \in Int, NEW m \in Int,
         Num(tail - 1) < m, m <= top, NEW cs
  PROVE  m \in Nat /\ Undone(m, head, cs) = Span(m) /\ Live(m, top, head, cs)
<1>1. tail - 1 \in Int /\ Num(tail - 1) \in Int
  BY NumIs
<1>2. ASSUME NEW i \in Span(m) PROVE i \in Nat /\ i >= tail /\ Num(i) = m
  <2>1. i \in Int /\ Num(i) = m
    BY SpanIs
  <2>2. ASSUME i < tail PROVE FALSE
    <3>1. i <= tail - 1
      BY <2>1, <2>2
    <3>2. Num(i) <= Num(tail - 1)
      BY <1>1, <2>1, <3>1, NumOrder
    <3> QED BY <1>1, <2>1, <3>2
  <2> QED BY <2>1, <2>2
<1>3. PICK x : x = BLOCK_SIZE * m
  OBVIOUS
<1>4. x \in Int /\ BLOCK_SIZE \in Nat \ {0}
  BY <1>3, BlockSize
<1>5. x \in Span(m)
  BY <1>3, <1>4 DEF Span
<1>6. m \in Nat
  BY <1>2, <1>5, NumNat
<1>7. Undone(m, head, cs) = Span(m)
  BY <1>2 DEF Undone
<1> QED BY <1>5, <1>6, <1>7 DEF Live

(* The block of the last element is live if there is room in it.           *)
LEMMA TailLive ==
  ASSUME NEW tail \in Nat, NEW head \in Nat, head <= tail, NEW top \in Int, Num(tail - 1) <= top,
         tail % BLOCK_SIZE # 0, NEW cs
  PROVE  Num(tail - 1) = Num(tail) /\ Num(tail - 1) \in Nat /\ Live(Num(tail - 1), top, head, cs)
<1>1. PICK n, x : n = Num(tail) /\ x = BLOCK_SIZE * Num(tail)
  OBVIOUS
<1>2. tail \in Int /\ tail - 1 \in Int
  OBVIOUS
<1>3. n \in Nat /\ x \in Int /\ x <= tail /\ tail < x + BLOCK_SIZE /\ tail % BLOCK_SIZE = tail - x /\ BLOCK_SIZE \in Nat
  BY <1>1, <1>2, NumIs, NumNat, BlockSize
<1>4. x <= tail - 1 /\ tail - 1 < x + BLOCK_SIZE
  BY <1>3
<1>5. Num(tail - 1) = n
  BY <1>1, <1>2, <1>3, <1>4, NumUnique
<1>6. Num(tail) <= top /\ tail >= head
  BY <1>1, <1>5
<1>7. Live(Num(tail), top, head, cs)
  BY <1>6, LiveIf
<1> QED BY <1>1, <1>3, <1>5, <1>7

(* A consumer that looks for its blocks does not notice other changes of   *)
(* the entries.                                                            *)
LEMMA FinderKept ==
  ASSUME NEW k, NEW top \in Int, NEW hs, NEW es, NEW es2, Len(es) \in Nat, Len(hs) \in Nat \ {0},
         \A g \in 1 .. Len(hs) : HeaderOK(hs[g], Len(es)), FinderOK(k, top, hs, es),
         \A e \in 1 .. Len(es) : es2[e].key = es[e].key /\ (es[e].value = NoBlock => es2[e].value = NoBlock),
         k.pc \in {"empty", "clear"} =>
           es2[Home(hs[Len(hs)], top, Num(k.index))].value = es[Home(hs[Len(hs)], top, Num(k.index))].value
  PROVE  FinderOK(k, top, hs, es2)
<1>1. ASSUME k.pc = "find"
      PROVE  \E p \in Nat : FindOK(k, top, hs, es2, p)
  <2>1. PICK p \in Nat : FindOK(k, top, hs, es, p)
    BY <1>1 DEF FinderOK
  <2>2. hs[k.hdr].index[k.pos] \in 1 .. Len(es)
    <3>1. k.hdr \in 1 .. Len(hs) /\ k.pos \in 0 .. hs[k.hdr].capacity - 1
      BY <1>1 DEF FinderOK, Finding
    <3>2. HeaderOK(hs[k.hdr], Len(es))
      BY <3>1
    <3> QED BY <3>1, <3>2 DEF HeaderOK
  <2>3. \A n \in top + 1 .. p : es2[Home(hs[Len(hs)], top, n)].value = NoBlock
    <3> SUFFICES ASSUME NEW n \in top + 1 .. p PROVE es2[Home(hs[Len(hs)], top, n)].value = NoBlock
      OBVIOUS
    <3>1. n \in Int /\ HeaderOK(hs[Len(hs)], Len(es))
      OBVIOUS
    <3>2. Home(hs[Len(hs)], top, n) \in 1 .. Len(es)
      BY <3>1, HomeIn
    <3> QED BY <2>1, <3>2 DEF FindOK
  <2> QED BY <2>1, <2>2, <2>3 DEF FindOK
<1> QED BY <1>1 DEF FinderOK

(* The emptied block is taken out of the index.                            *)
LEMMA ClearKeepsIndex ==
  ASSUME ImplicitInv, ReserveInv, NEW c \in Consumers, ImplicitClear(c)
  PROVE  ImplicitInv'
<1>0. PICK k, top, given, h, n, e, b :
        /\ k = consumer[c] /\ top = Top(tailIndex, producer) /\ given = Given(tailIndex, producer)
        /\ h = headers[Len(headers)] /\ n = Num(consumer[c].index) /\ e = Home(h, top, n)
        /\ b = entries[e].value
  OBVIOUS
<1>a. k.pc = "clear"
  BY <1>0 DEF ImplicitClear
<1>b. Indexed(tailIndex, headIndex, producer, consumer, tailBlock, headers, entries,
              elementsCompletelyDequeued, elements, pool)
  BY DEF ImplicitInv
<1>1. ImplicitEntryOf(k) = e /\ e \in 1 .. Len(entries) /\ b \in Blocks
  BY <1>0, <1>a, BlockNow
<1>2. k.hdr \in 1 .. Len(headers) /\ HeaderOK(headers[k.hdr], Len(entries))
      /\ k.pos \in 0 .. headers[k.hdr].capacity - 1 /\ FinderOK(k, top, headers, entries)
  BY <1>0, <1>a, HeaderNow DEF Finding
<1>3. k.block = b /\ FindsFrom(k, headers, top, Num(k.index))
      /\ DOMAIN k = {"pc", "index", "last", "hdr", "pos", "block"}
  BY <1>0, <1>a, <1>2 DEF FinderOK
<1>4. DOMAIN consumer = Consumers /\ headIndex \in Nat /\ tailIndex \in Nat /\ headIndex <= tailIndex
  BY Now
<1>5. PICK r, cs2, es2 : r = [k EXCEPT !.pc = "release"] /\ cs2 = consumer' /\ es2 = entries'
  OBVIOUS
<1>6. consumer' = [consumer EXCEPT ![c] = r] /\ es2 = [entries EXCEPT ![e].value = NoBlock]
      /\ UNCHANGED <<indexVars, blockVars, elementsCompletelyDequeued, headers, producer>>
  BY <1>0, <1>1, <1>4, <1>5 DEF ImplicitClear
<1>7. cs2[c] = r /\ \A d \in Consumers \ {c} : cs2[d] = consumer[d]
  BY <1>4, <1>5, <1>6
<1>8. r.pc = "release" /\ r.index = k.index /\ r.last = k.last /\ r.hdr = k.hdr /\ r.pos = k.pos
      /\ r.block = b /\ DOMAIN r = {"pc", "index", "last", "hdr", "pos", "block"}
  BY <1>3, <1>5
<1>9. /\ top \in Int /\ given \in Int /\ Num(tailIndex - 1) \in Int /\ Num(tailIndex - 1) <= given /\ given <= top
      /\ Len(entries) \in Nat /\ HeaderOK(h, Len(entries)) /\ Len(headers) \in Nat \ {0}
      /\ AllLiveOK(top, given, headIndex, consumer, h, entries, elementsCompletelyDequeued)
      /\ entries \in Seq(Entry)
  BY <1>0, IndexNow
<1>10. /\ k.index \in Nat /\ k.last \in Nat /\ k.index < k.last /\ k.last <= headIndex
       /\ n \in Nat /\ n <= given /\ Live(n, top, headIndex, consumer) /\ Num(k.last - 1) \in Int
  BY <1>0, <1>a, ReaderNow DEF Reading
<1>11. /\ es2 \in Seq(Entry) /\ Len(es2) = Len(entries)
       /\ es2[e].key = entries[e].key /\ es2[e].value = NoBlock
       /\ \A f \in 1 .. Len(entries) : f # e => es2[f] = entries[f]
  <2>1. entries[e] \in Entry
    BY <1>1, <1>9
  <2>2. [entries[e] EXCEPT !.value = NoBlock] \in Entry
    BY <2>1 DEF Entry
  <2>3. es2 = [entries EXCEPT ![e] = [entries[e] EXCEPT !.value = NoBlock]]
    BY <1>6
  <2>4. es2 \in Seq(Entry) /\ Len(es2) = Len(entries)
    BY <1>1, <1>9, <2>2, <2>3
  <2>5. es2[e] = [entries[e] EXCEPT !.value = NoBlock] /\ \A f \in 1 .. Len(entries) : f # e => es2[f] = entries[f]
    BY <1>1, <1>9, <2>3
  <2>6. es2[e].key = entries[e].key /\ es2[e].value = NoBlock
    BY <2>1, <2>5 DEF Entry
  <2> QED BY <2>4, <2>5, <2>6
<1>12. \A d \in Consumers : Rest(cs2[d]) = Rest(consumer[d]) /\ Unread(cs2[d]) = Unread(consumer[d])
  <2>1. End(r) = End(k)
    BY <1>8 DEF End
  <2>2. Rest(r) = Rest(k) /\ Unread(r) = Unread(k)
    BY <1>a, <1>8, <2>1 DEF Rest, Unread
  <2> QED BY <1>0, <1>7, <2>2
<1>13. \A m \in Nat : Undone(m, headIndex, cs2) = Undone(m, headIndex, consumer)
  BY <1>12 DEF Undone
<1>14. ClaimsOK(headIndex, consumer)
  BY <1>b DEF Indexed
<1>15. Clears(consumer[c], n) /\ Undone(n, headIndex, consumer) = {} /\ \A d \in Consumers \ {c} : ~Clears(consumer[d], n)
  <2>1. Clears(consumer[c], n)
    BY <1>0, <1>a DEF Clears
  <2> QED BY <1>10, <1>14, <2>1 DEF ClaimsOK
<1>16. \A d \in Consumers, m \in Nat : Clears(cs2[d], m) <=> d # c /\ Clears(consumer[d], m)
  BY <1>7, <1>8 DEF Clears
<1>17. \A m \in Nat \ {n} : ~Clears(consumer[c], m)
  BY <1>0 DEF Clears
<1>18. \A m \in Nat : Live(m, top, headIndex, cs2) <=> m # n /\ Live(m, top, headIndex, consumer)
  <2> SUFFICES ASSUME NEW m \in Nat
               PROVE  Live(m, top, headIndex, cs2) <=> m # n /\ Live(m, top, headIndex, consumer)
    OBVIOUS
  <2>1. CASE m = n
    BY <1>13, <1>15, <1>16, <2>1 DEF Live
  <2>2. CASE m # n
    BY <1>13, <1>16, <1>17, <2>2 DEF Live
  <2> QED BY <2>1, <2>2
<1>19. ASSUME NEW m \in Nat, Live(m, top, headIndex, cs2)
       PROVE  Home(h, top, m) \in 1 .. Len(entries) /\ es2[Home(h, top, m)] = entries[Home(h, top, m)]
  <2>1. Home(h, top, m) \in 1 .. Len(entries)
    BY <1>9, HomeIn
  <2>2. Home(h, top, m) # e
    BY <1>0, <1>9, <1>10, <1>18, <1>19, TwoLive
  <2> QED BY <1>11, <2>1, <2>2
<1>20. \A f \in 1 .. Len(entries) : es2[f].key = entries[f].key /\ (entries[f].value = NoBlock => es2[f].value = NoBlock)
  BY <1>11
<1>21. IndexOK(tailIndex, producer, headers, es2, elementsCompletelyDequeued, elements)
  BY <1>b, <1>11 DEF Indexed, IndexOK
<1>22. AllLiveOK(top, given, headIndex, cs2, h, es2, elementsCompletelyDequeued)
  <2> SUFFICES ASSUME NEW m \in Nat, Live(m, top, headIndex, cs2)
               PROVE  LiveOK(m, top, given, headIndex, cs2, h, es2, elementsCompletelyDequeued)
    BY DEF AllLiveOK, LiveOK
  <2>1. LiveOK(m, top, given, headIndex, consumer, h, entries, elementsCompletelyDequeued)
        /\ Live(m, top, headIndex, consumer)
    BY <1>9, <1>18 DEF AllLiveOK
  <2>2. \A q \in m .. top : es2[Home(h, top, q)].key = BLOCK_SIZE * q
    <3> SUFFICES ASSUME NEW q \in m .. top PROVE es2[Home(h, top, q)].key = BLOCK_SIZE * q
      OBVIOUS
    <3>1. q \in Int
      BY <1>9
    <3>2. Home(h, top, q) \in 1 .. Len(entries)
      BY <1>9, <3>1, HomeIn
    <3> QED BY <1>20, <2>1, <3>2 DEF LiveOK
  <2>3. es2[Home(h, top, m)] = entries[Home(h, top, m)]
    BY <1>19
  <2> QED BY <1>13, <2>1, <2>2, <2>3 DEF LiveOK
<1>23. AllOnlyLive(top, given, headIndex, cs2, h, es2)
  <2> SUFFICES ASSUME NEW f \in 1 .. Len(entries), es2[f].value # NoBlock
               PROVE  \E m \in 0 .. given : Live(m, top, headIndex, cs2) /\ Home(h, top, m) = f
    BY <1>11 DEF AllOnlyLive, OnlyLive
  <2>1. f # e /\ entries[f].value # NoBlock
    BY <1>11
  <2>2. OnlyLive(f, top, given, headIndex, consumer, h, entries)
    BY <1>0, <1>b DEF Indexed, AllOnlyLive
  <2>3. PICK m \in 0 .. given : Live(m, top, headIndex, consumer) /\ Home(h, top, m) = f
    BY <2>1, <2>2 DEF OnlyLive
  <2>4. m \in Nat /\ m # n
    BY <1>0, <1>9, <2>1, <2>3
  <2> QED BY <1>18, <2>3, <2>4
<1>24. OwnersOK(pool, es2, cs2)
  <2>1. OwnersOK(pool, entries, consumer)
    BY <1>b DEF Indexed
  <2>2. Releases(cs2[c], b) /\ \A x \in Blocks \ {b} : ~Releases(cs2[c], x)
    BY <1>7, <1>8 DEF Releases
  <2>3. \A x \in Blocks : ~Releases(consumer[c], x)
    BY <1>0, <1>a DEF Releases
  <2>4. \A d \in Consumers \ {c}, x \in Blocks : Releases(cs2[d], x) <=> Releases(consumer[d], x)
    BY <1>7
  <2>5. \A d \in Consumers \ {c} : ~Releases(consumer[d], b)
    BY <1>0, <1>1, <2>1 DEF OwnersOK
  <2>6. b \notin pool /\ NoBlock \notin pool
    BY <1>0, <1>1, <2>1, NoBlockAssumption DEF OwnersOK
  <2>7. \A f \in 1 .. Len(entries) : f # e => entries[f].value # b
    BY <1>0, <1>1, <2>1, OneEntry
  <2>8. \A f, g \in 1 .. Len(es2) : f # g /\ es2[f].value = es2[g].value => es2[f].value = NoBlock
    BY <1>11, <2>1 DEF OwnersOK
  <2>9. \A f \in 1 .. Len(es2) : es2[f].value \notin pool
    BY <1>11, <2>1, <2>6 DEF OwnersOK
  <2>10. \A f \in 1 .. Len(es2), d \in Consumers : es2[f].value \in Blocks => ~Releases(cs2[d], es2[f].value)
    <3> SUFFICES ASSUME NEW f \in 1 .. Len(es2), NEW d \in Consumers, es2[f].value \in Blocks
                 PROVE  ~Releases(cs2[d], es2[f].value)
      OBVIOUS
    <3>1. f \in 1 .. Len(entries) /\ f # e /\ es2[f] = entries[f]
      BY <1>11, NoBlockAssumption
    <3>2. entries[f].value # b /\ ~Releases(consumer[d], entries[f].value)
      BY <2>1, <2>7, <3>1 DEF OwnersOK
    <3> QED BY <2>2, <2>4, <3>1, <3>2
  <2>11. \A x \in Blocks, d, f \in Consumers : Releases(cs2[d], x) /\ Releases(cs2[f], x) => d = f
    BY <2>1, <2>2, <2>4, <2>5 DEF OwnersOK
  <2>12. \A x \in pool, d \in Consumers : ~Releases(cs2[d], x)
    BY <2>1, <2>2, <2>4, <2>6 DEF OwnersOK
  <2>13. \A x \in Blocks : \/ x \in pool
                           \/ \E f \in 1 .. Len(es2) : es2[f].value = x
                           \/ \E d \in Consumers : Releases(cs2[d], x)
    <3> SUFFICES ASSUME NEW x \in Blocks, x \notin pool, x # b
                 PROVE  \/ \E f \in 1 .. Len(es2) : es2[f].value = x
                        \/ \E d \in Consumers : Releases(cs2[d], x)
      BY <2>2
    <3>1. CASE \E f \in 1 .. Len(entries) : entries[f].value = x
      BY <1>0, <1>11, <3>1
    <3>2. CASE \E d \in Consumers : Releases(consumer[d], x)
      BY <2>3, <2>4, <3>2
    <3> QED BY <2>1, <3>1, <3>2 DEF OwnersOK
  <2> QED BY <2>1, <2>8, <2>9, <2>10, <2>11, <2>12, <2>13 DEF OwnersOK
<1>25. ProducerKnows(tailIndex, producer, tailBlock, h, es2)
  <2>1. ProducerKnows(tailIndex, producer, tailBlock, h, entries)
    BY <1>0, <1>b DEF Indexed
  <2>2. Len(ChainOf(producer)) \in Nat /\ given = Num(tailIndex - 1) + Len(ChainOf(producer))
    BY <1>0, <1>b, TopIs DEF Indexed, IndexOK, Given
  <2>3. ASSUME NEW j \in 1 .. Len(ChainOf(producer))
        PROVE  ChainOf(producer)[j] = es2[Home(h, top, Num(tailIndex - 1) + j)].value
    <3>1. PICK m : m = Num(tailIndex - 1) + j
      OBVIOUS
    <3>2. m \in Int /\ Num(tailIndex - 1) < m /\ m <= top
      BY <1>9, <2>2, <3>1
    <3>3. m \in Nat /\ Live(m, top, headIndex, cs2)
      BY <1>4, <1>9, <3>2, LaterLive
    <3>4. es2[Home(h, top, m)] = entries[Home(h, top, m)]
      BY <1>19, <3>3
    <3> QED BY <1>0, <2>1, <3>1, <3>4 DEF ProducerKnows
  <2>4. ASSUME tailIndex % BLOCK_SIZE # 0
        PROVE  tailBlock = es2[Home(h, top, Num(tailIndex - 1))].value
    <3>1. Num(tailIndex - 1) <= top
      BY <1>9
    <3>2. Num(tailIndex - 1) \in Nat /\ Live(Num(tailIndex - 1), top, headIndex, cs2)
      BY <1>4, <1>9, <2>4, <3>1, TailLive
    <3>3. es2[Home(h, top, Num(tailIndex - 1))] = entries[Home(h, top, Num(tailIndex - 1))]
      BY <1>19, <3>2
    <3> QED BY <1>0, <2>1, <2>4, <3>3 DEF ProducerKnows
  <2> QED BY <1>0, <2>3, <2>4 DEF ProducerKnows
<1>26. AllReaders(top, headIndex, cs2, headers, es2)
  <2> SUFFICES ASSUME NEW d \in Consumers
               PROVE  ReaderOK(cs2[d], headIndex) /\ FinderOK(cs2[d], top, headers, es2)
    BY DEF AllReaders
  <2>1. CASE d = c
    <3>1. ReaderOK(r, headIndex)
      BY <1>8, <1>10 DEF ReaderOK
    <3>2. FindsFrom(r, headers, top, Num(k.index) + 1)
      <4>1. Num(k.index) \in Int
        BY <1>0, <1>10
      <4>2. \A m \in Num(k.index) + 1 .. Num(k.last - 1) : m \in Num(k.index) .. Num(k.last - 1)
        BY <1>10, <4>1
      <4>3. \A m \in Num(k.index) + 1 .. Num(k.last - 1) : Finds(k, headers, top, Num(k.index), m)
        BY <1>3, <4>2 DEF FindsFrom
      <4> QED BY <1>8, <4>3 DEF FindsFrom, Finds
    <3>3. FinderOK(r, top, headers, es2)
      BY <1>1, <1>2, <1>8, <3>2 DEF FinderOK, Finding
    <3> QED BY <1>7, <2>1, <3>1, <3>3
  <2>2. CASE d # c
    <3>1. cs2[d] = consumer[d] /\ ReaderOK(consumer[d], headIndex) /\ FinderOK(consumer[d], top, headers, entries)
      BY <1>0, <1>7, <1>b, <2>2 DEF Indexed, AllReaders
    <3>2. ASSUME consumer[d].pc \in {"empty", "clear"}
          PROVE  es2[Home(h, top, Num(consumer[d].index))].value = entries[Home(h, top, Num(consumer[d].index))].value
      <4>1. Num(tailIndex - 1) <= top /\ cs2[d].pc \in Reading /\ cs2[d].pc # "release"
        BY <1>9, <3>1, <3>2 DEF Reading
      <4>2. Num(cs2[d].index) \in Nat /\ Live(Num(cs2[d].index), top, headIndex, cs2)
        BY <1>4, <1>9, <3>1, <4>1, ReaderLive
      <4>3. es2[Home(h, top, Num(cs2[d].index))] = entries[Home(h, top, Num(cs2[d].index))]
        BY <1>19, <4>2
      <4> QED BY <3>1, <4>3
    <3>3. \A g \in 1 .. Len(headers) : HeaderOK(headers[g], Len(entries))
      BY <1>b DEF Indexed, IndexOK
    <3>4. FinderOK(consumer[d], top, headers, es2)
      BY <1>0, <1>9, <1>20, <3>1, <3>2, <3>3, FinderKept
    <3> QED BY <3>1, <3>4
  <2> QED BY <2>1, <2>2
<1>27. ElementsOK(tailIndex, top, headIndex, cs2, h, es2, elements)
  <2> SUFFICES ASSUME NEW i \in 0 .. tailIndex - 1, ToRead(i, headIndex, cs2)
               PROVE  elements[es2[Home(h, top, Num(i))].value][i % BLOCK_SIZE] = i
    BY DEF ElementsOK
  <2>1. ToRead(i, headIndex, consumer)
    BY <1>12 DEF ToRead
  <2>2. elements[entries[Home(h, top, Num(i))].value][i % BLOCK_SIZE] = i
    BY <1>0, <1>b, <2>1 DEF Indexed, ElementsOK
  <2>3. i \in Nat /\ i <= tailIndex - 1 /\ tailIndex - 1 \in Int
    BY <1>4
  <2>4. Num(i) <= top
    <3>1. Num(i) <= Num(tailIndex - 1) /\ Num(i) \in Nat
      BY <2>3, NumOrder, NumNat
    <3> QED BY <1>9, <3>1
  <2>5. i >= headIndex \/ \E d \in Consumers : i \in Rest(cs2[d])
    <3>1. \A d \in Consumers : Unread(cs2[d]) \subseteq Rest(cs2[d])
      BY <1>4, <1>26, RestIs DEF AllReaders
    <3> QED BY <3>1 DEF ToRead
  <2>6. Num(i) \in Nat /\ Live(Num(i), top, headIndex, cs2)
    BY <1>9, <2>3, <2>4, <2>5, LiveIf
  <2> QED BY <1>19, <2>2, <2>6
<1>28. ClaimsOK(headIndex, cs2)
  <2>1. \A d, f \in Consumers : d # f => Apart(cs2[d], cs2[f])
    BY <1>12, <1>14 DEF ClaimsOK, Apart
  <2>2. \A d \in Consumers, m \in Nat : Clears(cs2[d], m) => Undone(m, headIndex, cs2) = {}
    BY <1>13, <1>14, <1>16 DEF ClaimsOK
  <2>3. \A d, f \in Consumers, m \in Nat : Clears(cs2[d], m) /\ Clears(cs2[f], m) => d = f
    BY <1>14, <1>16 DEF ClaimsOK
  <2> QED BY <2>1, <2>2, <2>3 DEF ClaimsOK
<1>29. Indexed(tailIndex, headIndex, producer, cs2, tailBlock, headers, es2,
               elementsCompletelyDequeued, elements, pool)
  BY <1>0, <1>21, <1>22, <1>23, <1>24, <1>25, <1>26, <1>27, <1>28 DEF Indexed
<1> QED BY <1>5, <1>6, <1>29 DEF ImplicitInv, blockVars, indexVars
-----------------------------------------------------------------------------
(* A consumer that looks for its blocks does not notice that the producer  *)
(* moves the tail of the index, or enlarges it.                            *)
LEMMA FinderMoves ==
  ASSUME NEW k, NEW top, NEW hs, NEW es, FinderOK(k, top, hs, es), NEW top2, NEW hs2, NEW es2,
         Len(hs) \in Nat, Len(hs2) \in Nat, Len(hs) <= Len(hs2),
         \A g \in 1 .. Len(hs) : hs2[g].capacity = hs[g].capacity /\ hs2[g].index = hs[g].index,
         k.pc = "find" => \A p \in Nat : FindOK(k, top, hs, es, p) => FindOK(k, top2, hs2, es2, p),
         k.pc \in {"read", "empty", "clear"} =>
           \A m \in Num(k.index) .. Num(k.last - 1) : Home(hs2[Len(hs2)], top2, m) = Home(hs[Len(hs)], top, m),
         k.pc = "release" =>
           \A m \in Num(k.index) + 1 .. Num(k.last - 1) : Home(hs2[Len(hs2)], top2, m) = Home(hs[Len(hs)], top, m),
         k.pc \in {"empty", "clear"} =>
           es2[Home(hs2[Len(hs2)], top2, Num(k.index))].value = es[Home(hs[Len(hs)], top, Num(k.index))].value
  PROVE  FinderOK(k, top2, hs2, es2)
<1>1. k.pc \in Finding => k.hdr \in 1 .. Len(hs) /\ k.hdr \in 1 .. Len(hs2) /\ k.pos \in 0 .. hs2[k.hdr].capacity - 1
  BY DEF FinderOK
<1>2. k.pc = "find" => \E p \in Nat : FindOK(k, top2, hs2, es2, p)
  BY DEF FinderOK
<1>3. ASSUME k.pc \in {"read", "empty", "clear"} PROVE FindsFrom(k, hs2, top2, Num(k.index))
  <2>1. FindsFrom(k, hs, top, Num(k.index)) /\ k.hdr \in 1 .. Len(hs)
    BY <1>1, <1>3 DEF FinderOK, Finding
  <2> QED BY <1>3, <2>1 DEF FindsFrom, Finds, SlotOf
<1>4. ASSUME k.pc = "release" PROVE FindsFrom(k, hs2, top2, Num(k.index) + 1)
  <2>1. FindsFrom(k, hs, top, Num(k.index) + 1) /\ k.hdr \in 1 .. Len(hs)
    BY <1>1, <1>4 DEF FinderOK, Finding
  <2> QED BY <1>4, <2>1 DEF FindsFrom, Finds, SlotOf
<1> QED BY <1>1, <1>2, <1>3, <1>4 DEF FinderOK

(* A call begins.                                                          *)
LEMMA EnqueueKeepsIndex ==
  ASSUME ImplicitInv, ReserveInv, NEW count \in Counts, ImplicitEnqueue(count)
  PROVE  ImplicitInv'
<1>b. Indexed(tailIndex, headIndex, producer, consumer, tailBlock, headers, entries,
              elementsCompletelyDequeued, elements, pool)
  BY DEF ImplicitInv
<1>1. tailIndex \in Nat /\ count \in Nat \ {0}
  BY Now, SizesAssumption
<1>2. PICK need : need = BlocksNeeded(count)
  OBVIOUS
<1>3. need = Needs(tailIndex, count) /\ need \in Nat
  BY <1>1, <1>2, NeedsIs DEF BlocksNeeded, Needs
<1>4. PICK p2 : p2 = [pc |-> IF need = 0 THEN "fill" ELSE "insert", count |-> count, need |-> need, chain |-> <<>>]
  OBVIOUS
<1>5. producer' = p2 /\ producer.pc = "idle" /\ UNCHANGED <<indexVars, blockVars, implicitVars, consumer>>
  BY <1>2, <1>4 DEF ImplicitEnqueue
<1>6. p2.pc = (IF need = 0 THEN "fill" ELSE "insert") /\ p2.count = count /\ p2.need = need /\ p2.chain = <<>>
      /\ DOMAIN p2 = ImplicitFields
  BY <1>4 DEF ImplicitFields
<1>7. ImplicitCallOK(p2, tailIndex)
  <2>1. <<>> \in Seq(Blocks) /\ Len(<<>>) + need = need
    BY <1>3
  <2>2. p2.pc \in {"insert", "fill"} /\ (p2.pc = "insert" => need # 0) /\ (p2.pc = "fill" => need = 0)
    BY <1>6
  <2> QED BY <1>1, <1>3, <1>6, <2>1, <2>2 DEF ImplicitCallOK
<1>8. ChainOf(p2) = <<>> /\ ChainOf(producer) = <<>>
  BY <1>5, <1>6 DEF ChainOf
<1>9. Given(tailIndex, p2) = Given(tailIndex, producer)
  BY <1>8 DEF Given
<1>10. Top(tailIndex, p2) = Top(tailIndex, producer)
  BY <1>5, <1>6, <1>9 DEF Top
<1>11. IndexOK(tailIndex, p2, headers, entries, elementsCompletelyDequeued, elements)
  BY <1>b, <1>7 DEF Indexed, IndexOK
<1>12. ProducerKnows(tailIndex, p2, tailBlock, headers[Len(headers)], entries)
  BY <1>b, <1>8, <1>10 DEF Indexed, ProducerKnows
<1>13. Indexed(tailIndex, headIndex, p2, consumer, tailBlock, headers, entries,
               elementsCompletelyDequeued, elements, pool)
  BY <1>b, <1>9, <1>10, <1>11, <1>12 DEF Indexed
<1> QED BY <1>5, <1>13 DEF ImplicitInv, blockVars, implicitVars, indexVars

(* The blocks that are the producer's in a call are those of the index.    *)
LEMMA BlockOfIs ==
  ASSUME ImplicitInv, ReserveInv, NEW top, top = Top(tailIndex, producer), NEW h, h = headers[Len(headers)],
         producer.pc = "fill", NEW j \in tailIndex .. tailIndex + producer.count - 1
  PROVE  /\ BlockOf(tailBlock, j) = entries[Home(h, top, Num(j))].value
         /\ Num(j) \in Nat /\ Num(j) <= top /\ Live(Num(j), top, headIndex, consumer)
<1>0. PICK given, a, t, n : given = Given(tailIndex, producer) /\ a = tailIndex + producer.count - 1
                            /\ t = tailIndex - 1 /\ n = Num(j)
  OBVIOUS
<1>1. headIndex \in Nat /\ tailIndex \in Nat /\ headIndex <= tailIndex
  BY Now
<1>2. ImplicitCallOK(producer, tailIndex)
  BY DEF ImplicitInv, Indexed, IndexOK
<1>3. /\ producer.count \in Nat \ {0} /\ producer.chain \in Seq(Blocks)
      /\ Len(producer.chain) \in Nat /\ Len(producer.chain) = Needs(tailIndex, producer.count)
  <2>1. producer.count \in Nat \ {0} /\ producer.chain \in Seq(Blocks)
        /\ Len(producer.chain) + producer.need = Needs(tailIndex, producer.count) /\ producer.need = 0
    BY <1>2 DEF ImplicitCallOK
  <2>2. Len(producer.chain) \in Nat
    BY <2>1
  <2> QED BY <2>1, <2>2
<1>4. top = given /\ given = Num(t) + Len(producer.chain) /\ ChainOf(producer) = producer.chain
  BY <1>0 DEF Top, Given, ChainOf
<1>5. t \in Int /\ a \in Int /\ j \in Int /\ j \in Nat /\ t <= j /\ j <= a /\ tailIndex <= j
  BY <1>0, <1>1, <1>3
<1>6. Num(t) \in Int /\ Num(a) \in Int /\ n \in Nat /\ Num(t) <= n /\ n <= Num(a)
  BY <1>0, <1>5, NumIs, NumNat, NumOrder
<1>7. top = Num(a) /\ top \in Int
  <2>1. Len(producer.chain) = Num(a) - Num(t)
    BY <1>0, <1>1, <1>3, NeedsNum
  <2> QED BY <1>3, <1>4, <1>6, <2>1
<1>8. Live(n, top, headIndex, consumer)
  <2>1. j >= headIndex /\ n <= top
    BY <1>1, <1>5, <1>6, <1>7
  <2> QED BY <1>0, <1>5, <1>7, <2>1, LiveIf
<1>9. ProducerKnows(tailIndex, producer, tailBlock, h, entries)
  BY DEF ImplicitInv, Indexed
<1>10. Base(j) = BLOCK_SIZE * n /\ Base(t) = BLOCK_SIZE * Num(t)
  BY <1>0, <1>5, NumIs
<1>11. CASE n = Num(t)
  <2>1. BlockOf(tailBlock, j) = tailBlock
    BY <1>0, <1>10, <1>11 DEF BlockOf
  <2>2. tailIndex % BLOCK_SIZE # 0
    <3>1. PICK x, s : x = BLOCK_SIZE * Num(t) /\ s = tailIndex % BLOCK_SIZE
      OBVIOUS
    <3>2. x <= t /\ x \in Int
      BY <1>5, <3>1, NumIs
    <3>3. tailIndex \in Int /\ Num(tailIndex) = Num(t)
      <4>1. Num(t) <= Num(tailIndex) /\ Num(tailIndex) <= n /\ Num(tailIndex) \in Int
        <5>1. tailIndex \in Int /\ t <= tailIndex
          BY <1>0, <1>1
        <5> QED BY <1>0, <1>5, <5>1, NumIs, NumOrder
      <4> QED BY <1>1, <1>6, <1>11, <4>1
    <3>4. s = tailIndex - x
      BY <3>1, <3>3, NumIs
    <3> QED BY <1>0, <1>1, <3>1, <3>2, <3>4
  <2>3. tailBlock = entries[Home(h, top, Num(t))].value
    BY <1>0, <1>9, <2>2 DEF ProducerKnows
  <2> QED BY <1>0, <1>6, <1>7, <1>8, <1>11, <2>1, <2>3
<1>12. CASE n # Num(t)
  <2>1. Base(j) # Base(t)
    BY <1>6, <1>10, <1>12, StartOrder
  <2>2. PICK d : d = n - Num(t)
    OBVIOUS
  <2>3. d \in Int /\ d \in 1 .. Len(producer.chain) /\ Num(t) + d = n
    BY <1>3, <1>4, <1>6, <1>7, <1>12, <2>2, SMTT(30)
  <2>4. (Base(j) - Base(t)) \div BLOCK_SIZE = d
    <3>1. BLOCK_SIZE \in Nat \ {0}
      BY BlockSize
    <3>2. BLOCK_SIZE * n - BLOCK_SIZE * Num(t) = BLOCK_SIZE * d
      BY <1>6, <2>2, <3>1
    <3>3. (BLOCK_SIZE * d) \div BLOCK_SIZE = d
      BY <2>3, <3>1, DivOfProduct
    <3> QED BY <1>10, <3>2, <3>3
  <2>5. BlockOf(tailBlock, j) = producer.chain[d]
    BY <1>0, <2>1, <2>4 DEF BlockOf
  <2>6. producer.chain[d] = entries[Home(h, top, Num(t) + d)].value
    BY <1>0, <1>4, <1>9, <2>3 DEF ProducerKnows
  <2> QED BY <1>0, <1>6, <1>7, <1>8, <2>3, <2>5, <2>6
<1> QED BY <1>11, <1>12

(* Two live blocks that have the same block in their entries are one.      *)
LEMMA SameBlock ==
  ASSUME ImplicitInv, ReserveInv, NEW top, top = Top(tailIndex, producer), NEW h, h = headers[Len(headers)],
         NEW m \in Nat, NEW n \in Nat, Live(m, top, headIndex, consumer), Live(n, top, headIndex, consumer),
         m <= Given(tailIndex, producer),
         entries[Home(h, top, m)].value = entries[Home(h, top, n)].value
  PROVE  m = n
<1>0. PICK given : given = Given(tailIndex, producer)
  OBVIOUS
<1>1. /\ top \in Int /\ Len(entries) \in Nat /\ HeaderOK(h, Len(entries))
      /\ AllLiveOK(top, given, headIndex, consumer, h, entries, elementsCompletelyDequeued)
  BY <1>0, IndexNow
<1>2. Home(h, top, m) \in 1 .. Len(entries) /\ Home(h, top, n) \in 1 .. Len(entries)
  BY <1>1, HomeIn
<1>3. entries[Home(h, top, m)].value \in Blocks
  BY <1>0, <1>1 DEF AllLiveOK, LiveOK
<1>4. OwnersOK(pool, entries, consumer)
  BY DEF ImplicitInv, Indexed
<1>5. Home(h, top, m) = Home(h, top, n)
  BY <1>2, <1>3, <1>4, OneEntry
<1> QED BY <1>1, <1>5, TwoLive

(* The block of an element that is to be read.                             *)
LEMMA ToReadLive ==
  ASSUME ImplicitInv, ReserveInv, NEW top, top = Top(tailIndex, producer),
         NEW i \in 0 .. tailIndex - 1, ToRead(i, headIndex, consumer)
  PROVE  /\ i \in Nat /\ Num(i) \in Nat /\ Num(i) <= Num(tailIndex - 1)
         /\ Live(Num(i), top, headIndex, consumer)
<1>0. PICK given, h : given = Given(tailIndex, producer) /\ h = headers[Len(headers)]
  OBVIOUS
<1>1. headIndex \in Nat /\ tailIndex \in Nat
  BY Now
<1>2. top \in Int /\ given \in Int /\ Num(tailIndex - 1) \in Int /\ Num(tailIndex - 1) <= given /\ given <= top
  BY <1>0, IndexNow
<1>3. i \in Nat /\ i <= tailIndex - 1 /\ tailIndex - 1 \in Int
  BY <1>1
<1>4. Num(i) <= Num(tailIndex - 1) /\ Num(i) \in Nat
  BY <1>3, NumOrder, NumNat
<1>5. Num(i) <= top
  BY <1>2, <1>4
<1>6. i >= headIndex \/ \E d \in Consumers : i \in Rest(consumer[d])
  <2>1. \A d \in Consumers : ReaderOK(consumer[d], headIndex)
    BY DEF ImplicitInv, Indexed, AllReaders
  <2>2. \A d \in Consumers : Unread(consumer[d]) \subseteq Rest(consumer[d])
    BY <1>1, <2>1, RestIs
  <2> QED BY <2>2 DEF ToRead
<1> QED BY <1>2, <1>3, <1>4, <1>5, <1>6, LiveIf
-----------------------------------------------------------------------------
(* The indices of the elements of the call.                                *)
NewOnes == tailIndex .. tailIndex + producer.count - 1
FillsOK(els2, els, h, top, es, new) ==
  /\ els2 \in [Blocks -> [Slots -> Int]]
  /\ \A i \in new : els2[es[Home(h, top, Num(i))].value][i % BLOCK_SIZE] = i
  /\ \A b \in Blocks, s \in Slots :
       (\A i \in new : es[Home(h, top, Num(i))].value = b => i % BLOCK_SIZE # s) => els2[b][s] = els[b][s]

(* The elements of a call are constructed in the blocks of their numbers,  *)
(* and nowhere else.                                                       *)
LEMMA FilledIs ==
  ASSUME ImplicitInv, ReserveInv, NEW top, top = Top(tailIndex, producer), NEW h, h = headers[Len(headers)],
         producer.pc = "fill", NEW els, els = Filled(tailBlock)
  PROVE  FillsOK(els, elements, h, top, entries, NewOnes)
<1>n. PICK new : new = NewOnes
  OBVIOUS
<1>0. PICK given : given = Given(tailIndex, producer)
  OBVIOUS
<1>1. elements \in [Blocks -> [Slots -> Int]] /\ ImplicitCallOK(producer, tailIndex) /\ tailIndex \in Nat
  BY DEF ImplicitInv, Indexed, IndexOK
<1>2. producer.count \in Nat
  BY <1>1 DEF ImplicitCallOK
<1>3. new \subseteq Int
  BY <1>n, <1>1, <1>2 DEF NewOnes
<1>4. \A j \in new : /\ BlockOf(tailBlock, j) = entries[Home(h, top, Num(j))].value
                     /\ Num(j) \in Nat /\ Num(j) <= top /\ Live(Num(j), top, headIndex, consumer)
  BY <1>n, BlockOfIs DEF NewOnes
<1>5. top = given /\ AllLiveOK(top, given, headIndex, consumer, h, entries, elementsCompletelyDequeued)
  BY <1>0, <1>1, IndexNow DEF Top
<1>6. \A j \in new : entries[Home(h, top, Num(j))].value \in Blocks
  BY <1>4, <1>5 DEF AllLiveOK, LiveOK
<1> DEFINE At(b, s) == {i \in new : BlockOf(tailBlock, i) = b /\ i % BLOCK_SIZE = s}
<1>7. els = [b \in Blocks |-> [s \in Slots |->
               IF At(b, s) = {} THEN elements[b][s] ELSE CHOOSE i \in At(b, s) : TRUE]]
  BY <1>n DEF Filled, NewOnes
<1>8. \A b \in Blocks, s \in Slots : At(b, s) \subseteq Int
  BY <1>3
<1>9. \A b \in Blocks, s \in Slots :
        els[b][s] = IF At(b, s) = {} THEN elements[b][s] ELSE CHOOSE i \in At(b, s) : TRUE
  <2> HIDE DEF At
  <2> QED BY <1>7
<1>10. \A i \in new : At(entries[Home(h, top, Num(i))].value, i % BLOCK_SIZE) = {i}
  <2> SUFFICES ASSUME NEW i \in new, NEW j \in new,
                      BlockOf(tailBlock, j) = entries[Home(h, top, Num(i))].value,
                      j % BLOCK_SIZE = i % BLOCK_SIZE
               PROVE  i = j
    BY <1>4
  <2>1. Num(i) \in Nat /\ Num(j) \in Nat /\ Num(i) <= given
        /\ Live(Num(i), top, headIndex, consumer) /\ Live(Num(j), top, headIndex, consumer)
        /\ entries[Home(h, top, Num(i))].value = entries[Home(h, top, Num(j))].value
    BY <1>4, <1>5
  <2>2. Num(i) = Num(j)
    BY <1>0, <2>1, SameBlock
  <2>3. i \in Int /\ j \in Int
    BY <1>3
  <2>4. Base(j) + (i % BLOCK_SIZE) = i /\ Base(j) + (j % BLOCK_SIZE) = j
    BY <2>2, <2>3, PlaceIs
  <2> QED BY <2>4
<1>11. \A i \in new : els[entries[Home(h, top, Num(i))].value][i % BLOCK_SIZE] = i
  <2> SUFFICES ASSUME NEW i \in new PROVE els[entries[Home(h, top, Num(i))].value][i % BLOCK_SIZE] = i
    OBVIOUS
  <2>1. PICK b, s : b = entries[Home(h, top, Num(i))].value /\ s = i % BLOCK_SIZE
    OBVIOUS
  <2>2. i \in Int
    BY <1>3
  <2>3. b \in Blocks /\ s \in Slots
    BY <1>6, <2>1, <2>2, NumIs
  <2>4. At(b, s) = {i}
    BY <1>10, <2>1
  <2>5. els[b][s] = CHOOSE x \in At(b, s) : TRUE
    BY <1>9, <2>3, <2>4
  <2>6. els[b][s] \in At(b, s)
    BY <2>4, <2>5
  <2> QED BY <2>1, <2>4, <2>6
<1>12. \A b \in Blocks, s \in Slots :
         (\A i \in new : entries[Home(h, top, Num(i))].value = b => i % BLOCK_SIZE # s) => els[b][s] = elements[b][s]
  BY <1>4, <1>9
<1>13. els \in [Blocks -> [Slots -> Int]]
  <2>1. ASSUME NEW b \in Blocks, NEW s \in Slots
        PROVE  (IF At(b, s) = {} THEN elements[b][s] ELSE CHOOSE i \in At(b, s) : TRUE) \in Int
    <3>1. CASE At(b, s) = {}
      BY <1>1, <3>1
    <3>2. CASE At(b, s) # {}
      <4>1. (CHOOSE i \in At(b, s) : TRUE) \in At(b, s)
        BY <3>2
      <4> QED BY <1>8, <3>2, <4>1
    <3> QED BY <3>1, <3>2
  <2> HIDE DEF At
  <2> QED BY <1>7, <2>1
<1> QED BY <1>n, <1>11, <1>12, <1>13 DEF FillsOK

(* The call returns: its elements are in the sub-queue.                    *)
LEMMA FillKeepsIndex ==
  ASSUME ImplicitInv, ReserveInv, ImplicitFill
  PROVE  ImplicitInv'
<1>0. PICK top, given, h, els2, tail2, a, tb2, new :
        /\ top = Top(tailIndex, producer) /\ given = Given(tailIndex, producer)
        /\ h = headers[Len(headers)] /\ els2 = Filled(tailBlock) /\ tail2 = tailIndex + producer.count
        /\ a = tailIndex + producer.count - 1 /\ tb2 = BlockOf(tailBlock, a)
        /\ new = NewOnes
  OBVIOUS
<1>a. producer.pc = "fill"
  BY DEF ImplicitFill
<1>b. Indexed(tailIndex, headIndex, producer, consumer, tailBlock, headers, entries,
              elementsCompletelyDequeued, elements, pool)
  BY DEF ImplicitInv
<1>1. elements' = els2 /\ tailBlock' = tb2 /\ tailIndex' = tail2 /\ producer' = Idle
      /\ UNCHANGED <<headIndex, pool, implicitVars, consumer>>
  BY <1>0 DEF ImplicitFill
<1>2. headIndex \in Nat /\ tailIndex \in Nat /\ headIndex <= tailIndex
  BY Now
<1>3. ImplicitCallOK(producer, tailIndex)
  BY <1>b DEF Indexed, IndexOK
<1>4. /\ producer.count \in Nat \ {0} /\ producer.chain \in Seq(Blocks)
      /\ Len(producer.chain) \in Nat /\ Len(producer.chain) = Needs(tailIndex, producer.count)
  <2>1. producer.count \in Nat \ {0} /\ producer.chain \in Seq(Blocks)
        /\ Len(producer.chain) + producer.need = Needs(tailIndex, producer.count) /\ producer.need = 0
    BY <1>a, <1>3 DEF ImplicitCallOK
  <2>2. Len(producer.chain) \in Nat
    BY <2>1
  <2> QED BY <2>1, <2>2
<1>5. /\ top \in Int /\ given \in Int /\ Num(tailIndex - 1) \in Int /\ Num(tailIndex - 1) <= given /\ given <= top
      /\ Len(entries) \in Nat /\ HeaderOK(h, Len(entries)) /\ Len(headers) \in Nat \ {0}
      /\ AllLiveOK(top, given, headIndex, consumer, h, entries, elementsCompletelyDequeued)
      /\ entries \in Seq(Entry)
  BY <1>0, IndexNow
<1>6. tail2 \in Nat /\ a \in Int /\ a = tail2 - 1 /\ a \in new
  BY <1>0, <1>2, <1>4 DEF NewOnes
<1>7. top = Num(a) /\ top = given
  <2>1. top = given /\ given = Num(tailIndex - 1) + Len(producer.chain)
    BY <1>0, <1>a DEF Top, Given, ChainOf
  <2>2. Len(producer.chain) = Num(a) - Num(tailIndex - 1)
    BY <1>0, <1>2, <1>4, NeedsNum
  <2>3. Num(a) \in Int
    BY <1>6, NumIs
  <2> QED BY <1>5, <2>1, <2>2, <2>3
<1>8. ChainOf(Idle) = <<>> /\ Given(tail2, Idle) = top /\ Top(tail2, Idle) = top
  <2>1. Idle.pc = "idle"
    BY DEF Idle
  <2>2. ChainOf(Idle) = <<>>
    BY <2>1 DEF ChainOf
  <2>3. Given(tail2, Idle) = Num(tail2 - 1) + 0
    BY <2>2 DEF Given
  <2>4. Given(tail2, Idle) = top
    BY <1>5, <1>6, <1>7, <2>3
  <2> QED BY <2>1, <2>2, <2>4 DEF Top
<1>9. /\ els2 \in [Blocks -> [Slots -> Int]]
      /\ \A i \in new : els2[entries[Home(h, top, Num(i))].value][i % BLOCK_SIZE] = i
      /\ \A b \in Blocks, s \in Slots :
           (\A i \in new : entries[Home(h, top, Num(i))].value = b => i % BLOCK_SIZE # s) =>
             els2[b][s] = elements[b][s]
  BY <1>0, <1>a, FilledIs DEF FillsOK
<1>10. \A j \in new : /\ BlockOf(tailBlock, j) = entries[Home(h, top, Num(j))].value
                      /\ Num(j) \in Nat /\ Num(j) <= top /\ Live(Num(j), top, headIndex, consumer)
  BY <1>0, <1>a, BlockOfIs DEF NewOnes
<1>11. IndexOK(tail2, Idle, headers, entries, elementsCompletelyDequeued, els2)
  <2>1. ImplicitCallOK(Idle, tail2)
    BY DEF ImplicitCallOK, Idle
  <2> QED BY <1>b, <1>6, <1>9, <2>1 DEF Indexed, IndexOK
<1>12. ProducerKnows(tail2, Idle, tb2, h, entries)
  <2>1. tb2 = entries[Home(h, top, Num(a))].value
    BY <1>0, <1>6, <1>10
  <2>2. Len(ChainOf(Idle)) = 0
    BY <1>8
  <2> QED BY <1>6, <1>8, <2>1, <2>2 DEF ProducerKnows
<1>13. ElementsOK(tail2, top, headIndex, consumer, h, entries, els2)
  <2> SUFFICES ASSUME NEW i \in 0 .. tail2 - 1, ToRead(i, headIndex, consumer)
               PROVE  els2[entries[Home(h, top, Num(i))].value][i % BLOCK_SIZE] = i
    BY DEF ElementsOK
  <2>1. CASE i >= tailIndex
    <3>1. i \in new
      BY <1>0, <1>2, <1>4, <2>1 DEF NewOnes
    <3> QED BY <1>9, <3>1
  <2>2. CASE i < tailIndex
    <3>1. i \in 0 .. tailIndex - 1 /\ i \in Int
      BY <1>2, <1>6, <2>2
    <3>2. PICK b, s : b = entries[Home(h, top, Num(i))].value /\ s = i % BLOCK_SIZE
      OBVIOUS
    <3>3. elements[b][s] = i
      BY <1>0, <1>b, <3>1, <3>2 DEF Indexed, ElementsOK
    <3>4. Num(i) \in Nat /\ Num(i) <= Num(tailIndex - 1) /\ Live(Num(i), top, headIndex, consumer)
      BY <1>0, <3>1, ToReadLive
    <3>5. b \in Blocks /\ s \in Slots /\ Num(i) <= given
      <4>1. Num(i) <= given
        BY <1>5, <3>4
      <4>2. b \in Blocks
        BY <1>5, <3>2, <3>4, <4>1 DEF AllLiveOK, LiveOK
      <4> QED BY <3>1, <3>2, <4>1, <4>2, NumIs
    <3>6. ASSUME NEW j \in new, entries[Home(h, top, Num(j))].value = b, j % BLOCK_SIZE = s
          PROVE  FALSE
      <4>1. Num(j) \in Nat /\ Live(Num(j), top, headIndex, consumer)
        BY <1>10
      <4>2. Num(i) = Num(j)
        BY <1>0, <3>2, <3>4, <3>5, <3>6, <4>1, SameBlock
      <4>3. j \in Int /\ j >= tailIndex
        BY <1>0, <1>2, <1>4 DEF NewOnes
      <4>4. Base(j) + (i % BLOCK_SIZE) = i /\ Base(j) + (j % BLOCK_SIZE) = j
        BY <3>1, <4>2, <4>3, PlaceIs
      <4> QED BY <1>2, <2>2, <3>1, <3>2, <3>6, <4>3, <4>4
    <3>7. els2[b][s] = elements[b][s]
      BY <1>9, <3>5, <3>6
    <3> QED BY <3>2, <3>3, <3>7
  <2> QED BY <1>2, <1>6, <2>1, <2>2
<1>14. Indexed(tail2, headIndex, Idle, consumer, tb2, headers, entries,
               elementsCompletelyDequeued, els2, pool)
  BY <1>0, <1>b, <1>7, <1>8, <1>11, <1>12, <1>13 DEF Indexed
<1> QED BY <1>1, <1>14 DEF ImplicitInv, implicitVars
-----------------------------------------------------------------------------
(* The elements of a block.                                                *)
LEMMA SpanSize == ASSUME NEW n \in Int PROVE Cardinality(Span(n)) = BLOCK_SIZE
<1>1. PICK x, y : x = BLOCK_SIZE * n /\ y = BLOCK_SIZE * n + BLOCK_SIZE - 1
  OBVIOUS
<1>2. x \in Int /\ y \in Int /\ BLOCK_SIZE \in Nat \ {0} /\ y = x + BLOCK_SIZE - 1
  BY <1>1, BlockSize
<1>3. Cardinality(x .. y) = IF x > y THEN 0 ELSE y - x + 1
  BY <1>2, FS_Interval
<1> QED BY <1>1, <1>2, <1>3 DEF Span

(* The last entry of the index gets a block of the pool.                   *)
LEMMA BlockKeepsIndex ==
  ASSUME ImplicitInv, ReserveInv, ImplicitBlock
  PROVE  ImplicitInv'
<1>0. PICK top, given, h, e, es2, ecd2, p2, free2, t :
        /\ top = Top(tailIndex, producer) /\ given = Given(tailIndex, producer)
        /\ h = headers[Len(headers)] /\ e = Home(h, top, top)
        /\ es2 = entries' /\ ecd2 = elementsCompletelyDequeued' /\ p2 = producer' /\ free2 = pool'
        /\ t = Num(tailIndex - 1)
  OBVIOUS
<1>b. Indexed(tailIndex, headIndex, producer, consumer, tailBlock, headers, entries,
              elementsCompletelyDequeued, elements, pool)
  BY DEF ImplicitInv
<1>1. PICK b \in pool :
        /\ producer.pc = "block" /\ free2 = pool \ {b}
        /\ ecd2 = [elementsCompletelyDequeued EXCEPT ![b] = 0]
        /\ es2 = [entries EXCEPT ![h.index[h.tail]].value = b]
        /\ p2 = [producer EXCEPT !.pc = IF producer.need = 1 THEN "fill" ELSE "insert",
                                 !.need = @ - 1, !.chain = Append(@, b)]
        /\ UNCHANGED <<indexVars, tailBlock, elements, headers, consumer>>
  BY <1>0 DEF ImplicitBlock, blockIndex
<1>2. headIndex \in Nat /\ tailIndex \in Nat /\ headIndex <= tailIndex /\ DOMAIN consumer = Consumers
  BY Now
<1>3. /\ top \in Int /\ given \in Int /\ t \in Int /\ t <= given /\ given <= top
      /\ Len(entries) \in Nat /\ HeaderOK(h, Len(entries)) /\ Len(headers) \in Nat \ {0}
      /\ AllLiveOK(top, given, headIndex, consumer, h, entries, elementsCompletelyDequeued)
      /\ entries \in Seq(Entry)
  BY <1>0, IndexNow
<1>4. OwnersOK(pool, entries, consumer) /\ elementsCompletelyDequeued \in [Blocks -> Nat]
      /\ ImplicitCallOK(producer, tailIndex)
  BY <1>b DEF Indexed, IndexOK
<1>5. b \in Blocks /\ b # NoBlock /\ NoBlock \notin Blocks
  BY <1>4, NoBlockAssumption DEF OwnersOK
<1>6. /\ DOMAIN producer = ImplicitFields /\ producer.count \in Nat \ {0} /\ producer.need \in Nat \ {0}
      /\ producer.chain \in Seq(Blocks) /\ Len(producer.chain) \in Nat
      /\ Len(producer.chain) + producer.need = Needs(tailIndex, producer.count)
  <2>1. /\ DOMAIN producer = ImplicitFields /\ producer.count \in Nat \ {0} /\ producer.need \in Nat \ {0}
        /\ producer.chain \in Seq(Blocks)
        /\ Len(producer.chain) + producer.need = Needs(tailIndex, producer.count)
    BY <1>1, <1>4 DEF ImplicitCallOK
  <2> QED BY <2>1
<1>7. top = given + 1 /\ given = t + Len(producer.chain) /\ ChainOf(producer) = producer.chain /\ t < top
  <2>1. top = given + 1 /\ given = t + Len(producer.chain) /\ ChainOf(producer) = producer.chain
    BY <1>0, <1>1 DEF Top, Given, ChainOf
  <2> QED BY <1>3, <2>1
<1>8. e = h.index[h.tail] /\ e \in 1 .. Len(entries)
  <2>1. h.tail \in 0 .. h.capacity - 1
    BY <1>3 DEF HeaderOK
  <2>2. SlotOf(h, h.tail, 0) = h.index[h.tail]
    BY <1>3, <2>1, SlotHere
  <2>3. top - top = 0
    BY <1>3
  <2> QED BY <1>0, <1>3, <2>2, <2>3, HomeIn DEF Home
<1>9. /\ es2 \in Seq(Entry) /\ Len(es2) = Len(entries)
      /\ es2[e].key = entries[e].key /\ es2[e].value = b
      /\ \A f \in 1 .. Len(entries) : f # e => es2[f] = entries[f]
  <2>1. entries[e] \in Entry
    BY <1>3, <1>8
  <2>2. [entries[e] EXCEPT !.value = b] \in Entry
    BY <1>5, <2>1 DEF Entry
  <2>3. es2 = [entries EXCEPT ![e] = [entries[e] EXCEPT !.value = b]]
    BY <1>1, <1>8
  <2>4. es2 \in Seq(Entry) /\ Len(es2) = Len(entries)
    BY <1>3, <1>8, <2>2, <2>3
  <2>5. es2[e] = [entries[e] EXCEPT !.value = b] /\ \A f \in 1 .. Len(entries) : f # e => es2[f] = entries[f]
    BY <1>3, <1>8, <2>3
  <2>6. es2[e].key = entries[e].key /\ es2[e].value = b
    BY <2>1, <2>5 DEF Entry
  <2> QED BY <2>4, <2>5, <2>6
<1>10. top \in Nat /\ Undone(top, headIndex, consumer) = Span(top) /\ Live(top, top, headIndex, consumer)
  <2>1. Num(tailIndex - 1) < top /\ top <= top
    BY <1>0, <1>3, <1>7
  <2> QED BY <1>2, <1>3, <2>1, LaterLive
<1>11. entries[e].value = NoBlock
  <2>1. LiveOK(top, top, given, headIndex, consumer, h, entries, elementsCompletelyDequeued) /\ top > given
    BY <1>3, <1>7, <1>10 DEF AllLiveOK
  <2> QED BY <1>0, <1>10, <2>1 DEF LiveOK
<1>12. ASSUME NEW m \in Nat, Live(m, top, headIndex, consumer), m # top
       PROVE  m <= given /\ Home(h, top, m) \in 1 .. Len(entries) /\ es2[Home(h, top, m)] = entries[Home(h, top, m)]
  <2>1. Home(h, top, m) \in 1 .. Len(entries)
    BY <1>3, HomeIn
  <2>2. Home(h, top, m) # e
    BY <1>0, <1>3, <1>10, <1>12, TwoLive
  <2>3. m <= top
    BY <1>12 DEF Live
  <2> QED BY <1>3, <1>7, <1>9, <1>12, <2>1, <2>2, <2>3
<1>13. /\ p2.pc = (IF producer.need = 1 THEN "fill" ELSE "insert") /\ p2.count = producer.count
       /\ p2.need = producer.need - 1 /\ p2.chain = Append(producer.chain, b) /\ DOMAIN p2 = ImplicitFields
  BY <1>1, <1>6 DEF ImplicitFields
<1>14. /\ p2.chain \in Seq(Blocks) /\ Len(p2.chain) = Len(producer.chain) + 1
       /\ \A j \in 1 .. Len(producer.chain) : p2.chain[j] = producer.chain[j]
       /\ p2.chain[Len(producer.chain) + 1] = b
  BY <1>5, <1>6, <1>13
<1>15. ImplicitCallOK(p2, tailIndex)
  <2>1. p2.pc \in {"insert", "fill"} /\ (p2.pc = "insert" => p2.need # 0) /\ (p2.pc = "fill" => p2.need = 0)
        /\ p2.need \in Nat
    BY <1>6, <1>13
  <2>2. Len(p2.chain) + p2.need = Needs(tailIndex, p2.count)
    BY <1>6, <1>13, <1>14
  <2> QED BY <1>6, <1>13, <1>14, <2>1, <2>2 DEF ImplicitCallOK
<1>16. ChainOf(p2) = p2.chain /\ Given(tailIndex, p2) = top /\ Top(tailIndex, p2) = top
  <2>1. p2.pc # "idle" /\ p2.pc # "block"
    BY <1>13
  <2>2. ChainOf(p2) = p2.chain
    BY <2>1 DEF ChainOf
  <2>3. Given(tailIndex, p2) = top
    BY <1>0, <1>3, <1>6, <1>7, <1>14, <2>2 DEF Given
  <2> QED BY <2>1, <2>2, <2>3 DEF Top
<1>17. ecd2 \in [Blocks -> Nat] /\ ecd2[b] = 0 /\ \A x \in Blocks \ {b} : ecd2[x] = elementsCompletelyDequeued[x]
  BY <1>1, <1>4, <1>5
<1>18. IndexOK(tailIndex, p2, headers, es2, ecd2, elements)
  BY <1>b, <1>9, <1>15, <1>17 DEF Indexed, IndexOK
<1>19. AllLiveOK(top, top, headIndex, consumer, h, es2, ecd2)
  <2> SUFFICES ASSUME NEW m \in Nat, Live(m, top, headIndex, consumer)
               PROVE  LiveOK(m, top, top, headIndex, consumer, h, es2, ecd2)
    BY DEF AllLiveOK, LiveOK
  <2>1. LiveOK(m, top, given, headIndex, consumer, h, entries, elementsCompletelyDequeued) /\ m <= top
    BY <1>3 DEF AllLiveOK, Live
  <2>2. \A q \in m .. top : es2[Home(h, top, q)].key = BLOCK_SIZE * q
    <3> SUFFICES ASSUME NEW q \in m .. top PROVE es2[Home(h, top, q)].key = BLOCK_SIZE * q
      OBVIOUS
    <3>1. q \in Int
      BY <1>3
    <3>2. Home(h, top, q) \in 1 .. Len(entries)
      BY <1>3, <3>1, HomeIn
    <3>3. es2[Home(h, top, q)].key = entries[Home(h, top, q)].key
      BY <1>9, <3>2
    <3> QED BY <2>1, <3>3 DEF LiveOK
  <2>3. es2[Home(h, top, m)].value \in Blocks
        /\ ecd2[es2[Home(h, top, m)].value] = BLOCK_SIZE - Cardinality(Undone(m, headIndex, consumer))
    <3>1. CASE m = top
      <4>1. Cardinality(Undone(m, headIndex, consumer)) = BLOCK_SIZE
        BY <1>3, <1>10, <3>1, SpanSize
      <4>2. es2[Home(h, top, m)].value = b
        BY <1>0, <1>9, <3>1
      <4> QED BY <1>5, <1>17, <4>1, <4>2, BlockSize
    <3>2. CASE m # top
      <4>1. m <= given /\ Home(h, top, m) \in 1 .. Len(entries) /\ es2[Home(h, top, m)] = entries[Home(h, top, m)]
        BY <1>12, <3>2
      <4>2. entries[Home(h, top, m)].value # b
        BY <1>4, <4>1 DEF OwnersOK
      <4>3. entries[Home(h, top, m)].value \in Blocks
            /\ elementsCompletelyDequeued[entries[Home(h, top, m)].value]
                 = BLOCK_SIZE - Cardinality(Undone(m, headIndex, consumer))
        BY <2>1, <4>1 DEF LiveOK
      <4> QED BY <1>17, <4>1, <4>2, <4>3
    <3> QED BY <3>1, <3>2
  <2>4. ~(m > top)
    BY <1>3, <2>1
  <2> QED BY <2>1, <2>2, <2>3, <2>4 DEF LiveOK
<1>20. AllOnlyLive(top, top, headIndex, consumer, h, es2)
  <2> SUFFICES ASSUME NEW f \in 1 .. Len(entries), es2[f].value # NoBlock
               PROVE  \E m \in 0 .. top : Live(m, top, headIndex, consumer) /\ Home(h, top, m) = f
    BY <1>9 DEF AllOnlyLive, OnlyLive
  <2>1. CASE f = e
    <3>1. top \in 0 .. top
      BY <1>10
    <3> QED BY <1>0, <1>10, <2>1, <3>1
  <2>2. CASE f # e
    <3>1. OnlyLive(f, top, given, headIndex, consumer, h, entries) /\ entries[f].value # NoBlock
      BY <1>0, <1>9, <1>b, <2>2 DEF Indexed, AllOnlyLive
    <3>2. PICK m \in 0 .. given : Live(m, top, headIndex, consumer) /\ Home(h, top, m) = f
      BY <3>1 DEF OnlyLive
    <3>3. m \in 0 .. top
      BY <1>3, <3>2
    <3> QED BY <3>2, <3>3
  <2> QED BY <2>1, <2>2
<1>21. OwnersOK(free2, es2, consumer)
  <2>1. \A f, g \in 1 .. Len(es2) : f # g /\ es2[f].value = es2[g].value => es2[f].value = NoBlock
    BY <1>4, <1>9 DEF OwnersOK
  <2>2. \A f \in 1 .. Len(es2) : es2[f].value \notin free2
    <3>1. b \notin free2 /\ free2 \subseteq pool
      BY <1>1
    <3>2. \A f \in 1 .. Len(entries) : entries[f].value \notin pool
      BY <1>4 DEF OwnersOK
    <3> QED BY <1>9, <3>1, <3>2, SMTT(30)
  <2>3. \A f \in 1 .. Len(es2), d \in Consumers : es2[f].value \in Blocks => ~Releases(consumer[d], es2[f].value)
    BY <1>4, <1>9 DEF OwnersOK
  <2>4. \A x \in Blocks : \/ x \in free2
                          \/ \E f \in 1 .. Len(es2) : es2[f].value = x
                          \/ \E d \in Consumers : Releases(consumer[d], x)
    <3> SUFFICES ASSUME NEW x \in Blocks, x # b, x \notin pool, \A d \in Consumers : ~Releases(consumer[d], x)
                 PROVE  \E f \in 1 .. Len(es2) : es2[f].value = x
      BY <1>1, <1>8, <1>9
    <3>1. PICK f \in 1 .. Len(entries) : entries[f].value = x
      BY <1>4 DEF OwnersOK
    <3> QED BY <1>5, <1>9, <1>11, <3>1
  <2> QED BY <1>1, <1>4, <2>1, <2>2, <2>3, <2>4 DEF OwnersOK
<1>22. ProducerKnows(tailIndex, p2, tailBlock, h, es2)
  <2>1. ProducerKnows(tailIndex, producer, tailBlock, h, entries)
    BY <1>0, <1>b DEF Indexed
  <2>2. ASSUME NEW j \in 1 .. Len(p2.chain) PROVE p2.chain[j] = es2[Home(h, top, t + j)].value
    <3>1. CASE j = Len(producer.chain) + 1
      <4>1. t + j = top
        BY <1>3, <1>6, <1>7, <3>1
      <4> QED BY <1>0, <1>9, <1>14, <3>1, <4>1
    <3>2. CASE j # Len(producer.chain) + 1
      <4>1. PICK m : m = t + j
        OBVIOUS
      <4>2. j \in 1 .. Len(producer.chain) /\ m \in Int /\ t < m /\ m < top
        BY <1>3, <1>6, <1>7, <1>14, <3>2, <4>1, SMTT(30)
      <4>3. Num(tailIndex - 1) < m /\ m <= top
        BY <1>0, <1>3, <4>2
      <4>4. m \in Nat /\ Live(m, top, headIndex, consumer)
        BY <1>2, <1>3, <4>2, <4>3, LaterLive
      <4>5. es2[Home(h, top, m)] = entries[Home(h, top, m)]
        BY <1>3, <1>12, <4>2, <4>4
      <4>6. producer.chain[j] = entries[Home(h, top, m)].value
        BY <1>0, <1>7, <2>1, <4>1, <4>2 DEF ProducerKnows
      <4> QED BY <1>14, <4>1, <4>2, <4>5, <4>6
    <3> QED BY <3>1, <3>2
  <2>3. ASSUME tailIndex % BLOCK_SIZE # 0 PROVE tailBlock = es2[Home(h, top, t)].value
    <3>1. Num(tailIndex - 1) <= top
      BY <1>0, <1>3
    <3>2. t \in Nat /\ Live(t, top, headIndex, consumer)
      BY <1>0, <1>2, <1>3, <2>3, <3>1, TailLive
    <3>3. es2[Home(h, top, t)] = entries[Home(h, top, t)]
      BY <1>3, <1>7, <1>12, <3>2
    <3> QED BY <1>0, <2>1, <2>3, <3>3 DEF ProducerKnows
  <2> QED BY <1>0, <1>16, <2>2, <2>3 DEF ProducerKnows
<1>23. ElementsOK(tailIndex, top, headIndex, consumer, h, es2, elements)
  <2> SUFFICES ASSUME NEW i \in 0 .. tailIndex - 1, ToRead(i, headIndex, consumer)
               PROVE  elements[es2[Home(h, top, Num(i))].value][i % BLOCK_SIZE] = i
    BY DEF ElementsOK
  <2>1. Num(i) \in Nat /\ Num(i) <= t /\ Live(Num(i), top, headIndex, consumer)
    BY <1>0, ToReadLive
  <2>2. es2[Home(h, top, Num(i))] = entries[Home(h, top, Num(i))]
    BY <1>3, <1>7, <1>12, <2>1
  <2> QED BY <1>0, <1>b, <2>2 DEF Indexed, ElementsOK
<1>24. AllReaders(top, headIndex, consumer, headers, es2)
  <2> SUFFICES ASSUME NEW d \in Consumers
               PROVE  ReaderOK(consumer[d], headIndex) /\ FinderOK(consumer[d], top, headers, es2)
    BY DEF AllReaders
  <2>1. ReaderOK(consumer[d], headIndex) /\ FinderOK(consumer[d], top, headers, entries)
    BY <1>0, <1>b DEF Indexed, AllReaders
  <2>2. PICK k : k = consumer[d]
    OBVIOUS
  <2>3. ASSUME k.pc = "find", NEW p \in Nat, FindOK(k, top, headers, entries, p)
        PROVE  FindOK(k, top, headers, es2, p)
    <3>1. k.hdr \in 1 .. Len(headers) /\ HeaderOK(headers[k.hdr], Len(entries)) /\ k.pos \in 0 .. headers[k.hdr].capacity - 1
      BY <2>2, <2>3, HeaderNow DEF Finding
    <3>2. headers[k.hdr].index[k.pos] \in 1 .. Len(entries)
      BY <3>1 DEF HeaderOK
    <3>3. es2[headers[k.hdr].index[k.pos]].key = entries[headers[k.hdr].index[k.pos]].key
      BY <1>9, <3>2
    <3>4. Num(k.index) \in Nat /\ Num(k.index) <= t
      <4>1. /\ Num(k.index) \in Nat /\ Num(k.last - 1) \in Int
            /\ Num(k.index) <= Num(k.last - 1) /\ Num(k.last - 1) <= Num(tailIndex - 1)
        BY <1>0, <2>2, <2>3, ReaderNow DEF Reading
      <4> QED BY <1>0, <1>3, <4>1
    <3>5. p - Num(k.index) < h.capacity /\ h.capacity \in Nat
      BY <1>0, <1>3, <2>3 DEF FindOK, HeaderOK
    <3>6. ASSUME NEW n \in top + 1 .. p PROVE es2[Home(h, top, n)].value = NoBlock
      <4>1. n \in Int /\ n - top < h.capacity /\ top - n < h.capacity /\ n # top
        <5>1. PICK cap, x : cap = h.capacity /\ x = Num(k.index)
          OBVIOUS
        <5>2. n \in Int /\ n <= p /\ top < n /\ x \in Int /\ x < top /\ p - x < cap /\ cap \in Nat
          BY <1>3, <1>7, <3>4, <3>5, <5>1
        <5>3. n - top < cap /\ top - n < cap /\ n # top
          BY <1>3, <5>2
        <5> QED BY <5>1, <5>2, <5>3
      <4>2. Home(h, top, n) # e
        BY <1>0, <1>3, <4>1, HomesApart
      <4>3. Home(h, top, n) \in 1 .. Len(entries)
        BY <1>3, <4>1, HomeIn
      <4>4. entries[Home(h, top, n)].value = NoBlock
        BY <1>0, <2>3 DEF FindOK
      <4> QED BY <1>9, <4>2, <4>3, <4>4
    <3> QED BY <1>0, <2>3, <3>3, <3>6 DEF FindOK
  <2>4. ASSUME k.pc \in {"empty", "clear"}
        PROVE  es2[Home(h, top, Num(k.index))].value = entries[Home(h, top, Num(k.index))].value
    <3>1. /\ Num(k.index) \in Nat /\ Num(k.last - 1) \in Int
          /\ Num(k.index) <= Num(k.last - 1) /\ Num(k.last - 1) <= Num(tailIndex - 1)
          /\ Live(Num(k.index), top, headIndex, consumer)
      BY <1>0, <2>2, <2>4, ReaderNow DEF Reading
    <3>2. Num(k.index) # top
      BY <1>0, <1>3, <1>7, <3>1
    <3> QED BY <1>12, <3>1, <3>2
  <2>5. FinderOK(k, top, headers, es2)
    <3>1. Len(headers) \in Nat /\ Len(headers) <= Len(headers)
      BY <1>3
    <3> QED BY <1>0, <2>1, <2>2, <2>3, <2>4, <3>1, FinderMoves
  <2> QED BY <2>1, <2>2, <2>5
<1>25. Indexed(tailIndex, headIndex, p2, consumer, tailBlock, headers, es2, ecd2, elements, free2)
  BY <1>0, <1>b, <1>16, <1>18, <1>19, <1>20, <1>21, <1>22, <1>23, <1>24 DEF Indexed
<1> QED BY <1>0, <1>1, <1>25 DEF ImplicitInv, indexVars
-----------------------------------------------------------------------------
(* No block starts at the index that marks an unused entry.                *)
LEMMA NotInvalid == ASSUME NEW n \in Int PROVE BLOCK_SIZE * n # INVALID_BLOCK_BASE
<1>1. PICK u, z : u = 1 /\ z = 0
  OBVIOUS
<1>2. u \in Int /\ z \in Int /\ BLOCK_SIZE * u = BLOCK_SIZE /\ BLOCK_SIZE * z = 0 /\ BLOCK_SIZE \in Nat \ {0, 1}
  BY <1>1, BlockSize
<1>3. BLOCK_SIZE * n \in Int
  BY <1>2
<1>4. CASE n <= 0
  <2>1. n <= z
    BY <1>1, <1>4
  <2>2. BLOCK_SIZE * n <= BLOCK_SIZE * z
    BY <1>2, <2>1, StartOrder
  <2> QED BY <1>2, <1>3, <2>2 DEF INVALID_BLOCK_BASE
<1>5. CASE n > 0
  <2>1. u <= n
    BY <1>1, <1>5
  <2>2. BLOCK_SIZE * u <= BLOCK_SIZE * n
    BY <1>2, <2>1, StartOrder
  <2> QED BY <1>2, <1>3, <2>2 DEF INVALID_BLOCK_BASE
<1> QED BY <1>4, <1>5

(* The later blocks of a consumer that gives one back are live.            *)
LEMMA RestLive ==
  ASSUME ImplicitInv, ReserveInv, NEW top, top = Top(tailIndex, producer), NEW c \in Consumers,
         NEW k, k = consumer[c], k.pc = "release", NEW m \in Num(k.index) + 1 .. Num(k.last - 1)
  PROVE  m \in Nat /\ m <= Num(tailIndex - 1) /\ Live(m, top, headIndex, consumer)
<1>0. PICK given, h : given = Given(tailIndex, producer) /\ h = headers[Len(headers)]
  OBVIOUS
<1>1. top \in Int /\ given \in Int /\ Num(tailIndex - 1) \in Int /\ Num(tailIndex - 1) <= given /\ given <= top
  BY <1>0, IndexNow
<1>2. /\ k.index \in Nat /\ k.last \in Nat /\ k.index < k.last
      /\ Num(k.index) \in Nat /\ Num(k.last - 1) \in Int /\ Num(k.last - 1) <= Num(tailIndex - 1)
  BY ReaderNow DEF Reading
<1>3. m \in Nat /\ Num(k.index) < m /\ m <= Num(k.last - 1) /\ m <= top
  BY <1>1, <1>2
<1>4. PICK x, y, z, i, l : x = BLOCK_SIZE * m /\ y = BLOCK_SIZE * Num(k.index) /\ z = BLOCK_SIZE * Num(k.last - 1)
                           /\ i = k.index /\ l = k.last - 1
  OBVIOUS
<1>5. m \in Int /\ i \in Int /\ l \in Int /\ i \in Nat
  BY <1>2, <1>3, <1>4
<1>6. x \in Int /\ y + BLOCK_SIZE <= x /\ x <= z
  BY <1>2, <1>3, <1>4, <1>5, StartOrder
<1>7. y \in Int /\ z \in Int /\ i < y + BLOCK_SIZE /\ z <= l /\ BLOCK_SIZE \in Nat \ {0}
  BY <1>4, <1>5, NumIs, BlockSize
<1>8. x \in Nat /\ i < x /\ x <= l
  BY <1>5, <1>6, <1>7
<1>9. Num(x) = m
  <2>1. x <= x /\ x < x + BLOCK_SIZE
    BY <1>7, <1>8
  <2> QED BY <1>4, <1>5, <1>6, <2>1, NumUnique
<1>10. x \in k.index .. k.last - 1 /\ Num(x) # Num(k.index)
  BY <1>2, <1>3, <1>4, <1>8, <1>9
<1>11. x \in End(k) .. k.last - 1
  BY <1>2, <1>8, <1>10, EndIs
<1>12. x \in Rest(consumer[c])
  BY <1>11 DEF Rest
<1>13. Live(Num(x), top, headIndex, consumer)
  BY <1>1, <1>3, <1>8, <1>9, <1>12, LiveIf
<1> QED BY <1>1, <1>2, <1>3, <1>9, <1>13
-----------------------------------------------------------------------------
(* The headers and entries of an index that has a new last entry x.        *)
HeadersGrow(hs, hs2, size2) ==
  /\ Len(hs2) \in Nat \ {0} /\ DOMAIN hs2 = 1 .. Len(hs2) /\ Len(hs) <= Len(hs2)
  /\ \A g \in 1 .. Len(hs2) : HeaderOK(hs2[g], size2)
  /\ \A g \in 1 .. Len(hs) : hs2[g].capacity = hs[g].capacity /\ hs2[g].index = hs[g].index
EntryAdded(es, es2, x, base) ==
  /\ es2 \in Seq(Entry) /\ Len(es2) \in Nat /\ Len(es) <= Len(es2)
  /\ x \in 1 .. Len(es2) /\ es2[x].key = base /\ es2[x].value = NoBlock
  /\ \A f \in 1 .. Len(es) : es2[f].value = es[f].value /\ (f # x => es2[f].key = es[f].key)
  /\ \A f \in 1 .. Len(es2) : f > Len(es) => es2[f].value = NoBlock
HomesKept(top, head, cs, h, h2, x) ==
  \A m \in Nat : Live(m, top, head, cs) =>
    /\ top + 1 - m < h2.capacity
    /\ \A q \in m .. top : Home(h2, top + 1, q) = Home(h, top, q) /\ Home(h, top, q) # x
FindersKept(top, cs, hs, es, hs2, es2) ==
  \A d \in Consumers, p \in Nat :
    cs[d].pc = "find" /\ FindOK(cs[d], top, hs, es, p) => FindOK(cs[d], top + 1, hs2, es2, p)

(* What inserts an entry: its base is the next one.                        *)
LEMMA NextBaseIs ==
  ASSUME ImplicitInv, ReserveInv, producer.pc = "insert", NEW top, top = Top(tailIndex, producer)
  PROVE  top \in Int /\ top = Given(tailIndex, producer) /\ NextBase = BLOCK_SIZE * (top + 1)
<1>1. tailIndex \in Nat /\ ImplicitCallOK(producer, tailIndex)
  BY DEF ImplicitInv, Indexed, IndexOK
<1>2. PICK t, l, s : t = Num(tailIndex - 1) /\ l = Len(producer.chain) /\ s = BLOCK_SIZE
  OBVIOUS
<1>3. l \in Nat /\ tailIndex - 1 \in Int /\ s \in Nat
  <2>1. producer.chain \in Seq(Blocks)
    BY <1>1 DEF ImplicitCallOK
  <2> QED BY <1>1, <1>2, <2>1, BlockSize
<1>4. t \in Int /\ Base(tailIndex - 1) = s * t
  BY <1>2, <1>3, NumIs
<1>5. top = t + l /\ top = Given(tailIndex, producer)
  BY <1>2 DEF Top, Given, ChainOf
<1>6. s * t + s * (l + 1) = s * ((t + l) + 1)
  BY <1>3, <1>4
<1>7. NextBase = s * t + s * (l + 1)
  BY <1>2, <1>4 DEF NextBase
<1> QED BY <1>2, <1>3, <1>4, <1>5, <1>6, <1>7

(* A call that has an entry for its next block.                            *)
AtBlock(p) == [p EXCEPT !.pc = "block"]

(* A call gets the entry after the tail for its next block.                *)
LEMMA InsertStep ==
  ASSUME ImplicitInv, ReserveInv, producer.pc = "insert", NEW top, top = Top(tailIndex, producer),
         NEW h, h = headers[Len(headers)], NEW hs2, NEW es2, NEW h2, h2 = hs2[Len(hs2)],
         NEW x, x = Home(h2, top + 1, top + 1),
         HeadersGrow(headers, hs2, Len(es2)), EntryAdded(entries, es2, x, NextBase),
         HomesKept(top, headIndex, consumer, h, h2, x),
         FindersKept(top, consumer, headers, entries, hs2, es2),
         NEW p2, p2 = AtBlock(producer)
  PROVE  Indexed(tailIndex, headIndex, p2, consumer, tailBlock, hs2, es2,
                 elementsCompletelyDequeued, elements, pool)
<1>0. PICK given, t, top2 : given = Given(tailIndex, producer) /\ t = Num(tailIndex - 1) /\ top2 = top + 1
  OBVIOUS
<1>b. Indexed(tailIndex, headIndex, producer, consumer, tailBlock, headers, entries,
              elementsCompletelyDequeued, elements, pool)
  BY DEF ImplicitInv
<1>1. headIndex \in Nat /\ tailIndex \in Nat /\ headIndex <= tailIndex /\ DOMAIN consumer = Consumers
  BY Now
<1>2. /\ top \in Int /\ given \in Int /\ t \in Int /\ t <= given /\ given <= top
      /\ Len(entries) \in Nat /\ HeaderOK(h, Len(entries)) /\ Len(headers) \in Nat \ {0}
      /\ AllLiveOK(top, given, headIndex, consumer, h, entries, elementsCompletelyDequeued)
  BY <1>0, IndexNow
<1>3. OwnersOK(pool, entries, consumer) /\ ImplicitCallOK(producer, tailIndex)
  BY <1>b DEF Indexed, IndexOK
<1>4. top = given /\ top2 \in Int /\ top < top2 /\ t < top2 /\ t <= top
  <2>1. top = given
    BY <1>0 DEF Top
  <2> QED BY <1>0, <1>2, <2>1
<1>5. /\ DOMAIN producer = ImplicitFields /\ producer.chain \in Seq(Blocks)
      /\ producer.count \in Nat \ {0} /\ producer.need \in Nat \ {0}
      /\ Len(producer.chain) + producer.need = Needs(tailIndex, producer.count)
  BY <1>3 DEF ImplicitCallOK
<1>6. /\ p2.pc = "block" /\ p2.count = producer.count /\ p2.need = producer.need /\ p2.chain = producer.chain
      /\ DOMAIN p2 = ImplicitFields
  BY <1>5 DEF ImplicitFields, AtBlock
<1>7. ImplicitCallOK(p2, tailIndex)
  BY <1>5, <1>6 DEF ImplicitCallOK
<1>8. ChainOf(p2) = ChainOf(producer) /\ ChainOf(producer) = producer.chain
      /\ Given(tailIndex, p2) = top /\ Top(tailIndex, p2) = top2
  <2>1. ChainOf(p2) = ChainOf(producer) /\ ChainOf(producer) = producer.chain
    BY <1>6 DEF ChainOf
  <2>2. Given(tailIndex, p2) = top
    BY <1>0, <1>4, <2>1 DEF Given
  <2> QED BY <1>0, <1>6, <2>1, <2>2 DEF Top
<1>9. Len(producer.chain) \in Nat /\ given = t + Len(producer.chain)
  BY <1>0, <1>5, <1>8 DEF Given
<1>10. x = Home(h2, top2, top2)
  BY <1>0
<1>11. top2 \in Nat /\ Undone(top2, headIndex, consumer) = Span(top2) /\ Live(top2, top2, headIndex, consumer)
  <2>1. Num(tailIndex - 1) < top2 /\ top2 <= top2
    BY <1>0, <1>4
  <2> QED BY <1>1, <1>4, <2>1, LaterLive
<1>12. \A m \in Nat : Live(m, top2, headIndex, consumer) <=> m = top2 \/ Live(m, top, headIndex, consumer)
  <2> SUFFICES ASSUME NEW m \in Nat, m # top2
               PROVE  Live(m, top2, headIndex, consumer) <=> Live(m, top, headIndex, consumer)
    BY <1>11
  <2>1. m \in 0 .. top2 <=> m \in 0 .. top
    BY <1>0, <1>2, <1>4
  <2> QED BY <2>1 DEF Live
<1>13. ASSUME NEW m \in Nat, Live(m, top, headIndex, consumer), NEW q \in m .. top
       PROVE  /\ Home(h2, top2, q) = Home(h, top, q)
              /\ Home(h, top, q) \in 1 .. Len(entries)
              /\ es2[Home(h, top, q)].value = entries[Home(h, top, q)].value
              /\ es2[Home(h, top, q)].key = entries[Home(h, top, q)].key
  <2>1. q \in Int
    BY <1>2
  <2>2. Home(h2, top2, q) = Home(h, top, q) /\ Home(h, top, q) # x
    BY <1>0, <1>13 DEF HomesKept
  <2>3. Home(h, top, q) \in 1 .. Len(entries)
    BY <1>2, <2>1, HomeIn
  <2> QED BY <2>2, <2>3 DEF EntryAdded
<1>14. \A m \in Nat : Live(m, top, headIndex, consumer) => m <= top /\ m \in m .. top
  BY <1>2 DEF Live
<1>15. /\ es2 \in Seq(Entry) /\ Len(es2) \in Nat /\ Len(entries) <= Len(es2) /\ x \in 1 .. Len(es2)
       /\ es2[x].key = BLOCK_SIZE * top2 /\ es2[x].value = NoBlock
       /\ \A f \in 1 .. Len(entries) : es2[f].value = entries[f].value
       /\ \A f \in 1 .. Len(es2) : f > Len(entries) => es2[f].value = NoBlock
  <2>1. NextBase = BLOCK_SIZE * top2
    BY <1>0, NextBaseIs
  <2> QED BY <2>1 DEF EntryAdded
<1>16. IndexOK(tailIndex, p2, hs2, es2, elementsCompletelyDequeued, elements)
  BY <1>b, <1>7, <1>15 DEF Indexed, IndexOK, HeadersGrow
<1>17. AllLiveOK(top2, top, headIndex, consumer, h2, es2, elementsCompletelyDequeued)
  <2> SUFFICES ASSUME NEW m \in Nat, Live(m, top2, headIndex, consumer)
               PROVE  LiveOK(m, top2, top, headIndex, consumer, h2, es2, elementsCompletelyDequeued)
    BY DEF AllLiveOK, LiveOK
  <2>1. CASE m = top2
    <3>1. h2.capacity \in Nat \ {0}
      BY DEF HeadersGrow, HeaderOK
    <3>2. top2 - m < h2.capacity /\ ~(m <= top) /\ m .. top2 = {top2}
      BY <1>2, <1>4, <2>1, <3>1
    <3> QED BY <1>10, <1>15, <2>1, <3>2 DEF LiveOK
  <2>2. CASE m # top2
    <3>1. Live(m, top, headIndex, consumer) /\ m <= top /\ m \in m .. top
      BY <1>12, <1>14, <2>2
    <3>2. LiveOK(m, top, given, headIndex, consumer, h, entries, elementsCompletelyDequeued)
      BY <1>2 DEF AllLiveOK
    <3>3. top2 - m < h2.capacity
      <4>1. top + 1 - m < h2.capacity
        BY <3>1 DEF HomesKept
      <4>2. h2.capacity \in Nat
        BY DEF HeadersGrow, HeaderOK
      <4> QED BY <1>0, <1>2, <4>1, <4>2
    <3>4. ASSUME NEW q \in m .. top2 PROVE es2[Home(h2, top2, q)].key = BLOCK_SIZE * q
      <4>1. CASE q = top2
        BY <1>10, <1>15, <4>1
      <4>2. CASE q # top2
        <5>1. q \in m .. top
          BY <1>0, <1>2, <3>4, <4>2
        <5>2. entries[Home(h, top, q)].key = BLOCK_SIZE * q
          BY <3>1, <3>2, <5>1 DEF LiveOK
        <5> QED BY <1>13, <3>1, <5>1, <5>2
      <4> QED BY <4>1, <4>2
    <3>5. Home(h2, top2, m) = Home(h, top, m) /\ es2[Home(h, top, m)].value = entries[Home(h, top, m)].value
      BY <1>13, <3>1
    <3>6. ~(m > top) /\ m <= given
      BY <1>2, <1>4, <3>1
    <3>7. entries[Home(h, top, m)].value \in Blocks
          /\ elementsCompletelyDequeued[entries[Home(h, top, m)].value]
               = BLOCK_SIZE - Cardinality(Undone(m, headIndex, consumer))
      BY <3>1, <3>2, <3>6 DEF LiveOK
    <3> QED BY <3>3, <3>4, <3>5, <3>6, <3>7 DEF LiveOK
  <2> QED BY <2>1, <2>2
<1>18. AllOnlyLive(top2, top, headIndex, consumer, h2, es2)
  <2> SUFFICES ASSUME NEW f \in 1 .. Len(es2), es2[f].value # NoBlock
               PROVE  \E m \in 0 .. top : Live(m, top2, headIndex, consumer) /\ Home(h2, top2, m) = f
    BY DEF AllOnlyLive, OnlyLive
  <2>1. f \in 1 .. Len(entries) /\ entries[f].value # NoBlock
    BY <1>2, <1>15, SMTT(30)
  <2>2. OnlyLive(f, top, given, headIndex, consumer, h, entries)
    BY <1>0, <1>b, <2>1 DEF Indexed, AllOnlyLive
  <2>3. PICK m \in 0 .. given : Live(m, top, headIndex, consumer) /\ Home(h, top, m) = f
    BY <2>1, <2>2 DEF OnlyLive
  <2>4. m \in Nat /\ m \in 0 .. top
    BY <1>2, <1>4, <2>3
  <2>5. Home(h2, top2, m) = f
    BY <1>13, <1>14, <2>3, <2>4
  <2> QED BY <1>12, <2>3, <2>4, <2>5
<1>19. OwnersOK(pool, es2, consumer)
  <2>1. \A f \in 1 .. Len(es2) : es2[f].value # NoBlock => f \in 1 .. Len(entries) /\ es2[f].value = entries[f].value
    BY <1>2, <1>15
  <2>2. NoBlock \notin Blocks /\ pool \subseteq Blocks
    BY <1>3, NoBlockAssumption DEF OwnersOK
  <2>3. \A f, g \in 1 .. Len(es2) : f # g /\ es2[f].value = es2[g].value => es2[f].value = NoBlock
    BY <1>3, <2>1 DEF OwnersOK
  <2>4. \A f \in 1 .. Len(es2) : es2[f].value \notin pool
    BY <1>3, <2>1, <2>2 DEF OwnersOK
  <2>5. \A f \in 1 .. Len(es2), d \in Consumers : es2[f].value \in Blocks => ~Releases(consumer[d], es2[f].value)
    BY <1>3, <2>1, <2>2 DEF OwnersOK
  <2>6. \A y \in Blocks : \/ y \in pool
                          \/ \E f \in 1 .. Len(es2) : es2[f].value = y
                          \/ \E d \in Consumers : Releases(consumer[d], y)
    <3> SUFFICES ASSUME NEW y \in Blocks, y \notin pool, \A d \in Consumers : ~Releases(consumer[d], y)
                 PROVE  \E f \in 1 .. Len(es2) : es2[f].value = y
      OBVIOUS
    <3>1. PICK f \in 1 .. Len(entries) : entries[f].value = y
      BY <1>3 DEF OwnersOK
    <3>2. f \in 1 .. Len(es2)
      BY <1>2, <1>15, <3>1
    <3> QED BY <1>15, <3>1, <3>2
  <2> QED BY <1>3, <2>3, <2>4, <2>5, <2>6 DEF OwnersOK
<1>20. ProducerKnows(tailIndex, p2, tailBlock, h2, es2)
  <2>1. ProducerKnows(tailIndex, producer, tailBlock, h, entries)
    BY <1>b DEF Indexed
  <2>2. ASSUME NEW j \in 1 .. Len(producer.chain) PROVE producer.chain[j] = es2[Home(h2, top2, t + j)].value
    <3>1. PICK m : m = t + j
      OBVIOUS
    <3>2. m \in Int /\ Num(tailIndex - 1) < m /\ m <= top
      <4>1. t \in Int /\ top \in Int /\ j \in Int /\ 1 <= j /\ j <= Len(producer.chain)
            /\ Len(producer.chain) \in Nat /\ top = t + Len(producer.chain)
        BY <1>2, <1>4, <1>9
      <4>2. m \in Int /\ t < m /\ m <= top
        BY <3>1, <4>1
      <4> QED BY <1>0, <4>2
    <3>3. m \in Nat /\ Live(m, top, headIndex, consumer)
      BY <1>1, <1>2, <3>2, LaterLive
    <3>4. Home(h2, top2, m) = Home(h, top, m) /\ es2[Home(h, top, m)].value = entries[Home(h, top, m)].value
      BY <1>13, <1>14, <3>3
    <3> QED BY <1>0, <1>8, <2>1, <3>1, <3>4 DEF ProducerKnows
  <2>3. ASSUME tailIndex % BLOCK_SIZE # 0 PROVE tailBlock = es2[Home(h2, top2, t)].value
    <3>1. Num(tailIndex - 1) <= top
      BY <1>0, <1>4
    <3>2. t \in Nat /\ Live(t, top, headIndex, consumer)
      BY <1>0, <1>1, <1>2, <2>3, <3>1, TailLive
    <3>3. Home(h2, top2, t) = Home(h, top, t) /\ es2[Home(h, top, t)].value = entries[Home(h, top, t)].value
      BY <1>13, <1>14, <3>2
    <3> QED BY <1>0, <2>1, <2>3, <3>3 DEF ProducerKnows
  <2> QED BY <1>0, <1>8, <2>2, <2>3 DEF ProducerKnows
<1>21. ElementsOK(tailIndex, top2, headIndex, consumer, h2, es2, elements)
  <2> SUFFICES ASSUME NEW i \in 0 .. tailIndex - 1, ToRead(i, headIndex, consumer)
               PROVE  elements[es2[Home(h2, top2, Num(i))].value][i % BLOCK_SIZE] = i
    BY DEF ElementsOK
  <2>1. Num(i) \in Nat /\ Live(Num(i), top, headIndex, consumer)
    BY ToReadLive
  <2>2. Home(h2, top2, Num(i)) = Home(h, top, Num(i))
        /\ es2[Home(h, top, Num(i))].value = entries[Home(h, top, Num(i))].value
    BY <1>13, <1>14, <2>1
  <2> QED BY <1>b, <2>2 DEF Indexed, ElementsOK
<1>22. AllReaders(top2, headIndex, consumer, hs2, es2)
  <2> SUFFICES ASSUME NEW d \in Consumers
               PROVE  ReaderOK(consumer[d], headIndex) /\ FinderOK(consumer[d], top2, hs2, es2)
    BY DEF AllReaders
  <2>1. ReaderOK(consumer[d], headIndex) /\ FinderOK(consumer[d], top, headers, entries)
    BY <1>b DEF Indexed, AllReaders
  <2>2. PICK k : k = consumer[d]
    OBVIOUS
  <2>3. ASSUME k.pc = "find", NEW p \in Nat, FindOK(k, top, headers, entries, p)
        PROVE  FindOK(k, top2, hs2, es2, p)
    BY <1>0, <2>2, <2>3 DEF FindersKept
  <2>4. ASSUME k.pc \in {"read", "empty", "clear"}
        PROVE  /\ \A m \in Num(k.index) .. Num(k.last - 1) : Home(h2, top2, m) = Home(h, top, m)
               /\ es2[Home(h2, top2, Num(k.index))].value = entries[Home(h, top, Num(k.index))].value
    <3>1. /\ Num(k.index) \in Nat /\ Num(k.last - 1) \in Int
          /\ Num(k.index) <= Num(k.last - 1) /\ Num(k.last - 1) <= Num(tailIndex - 1)
          /\ Live(Num(k.index), top, headIndex, consumer)
      BY <2>2, <2>4, ReaderNow DEF Reading
    <3>2. \A m \in Num(k.index) .. Num(k.last - 1) : m \in Num(k.index) .. top
      BY <1>0, <1>2, <1>4, <3>1
    <3>3. \A m \in Num(k.index) .. Num(k.last - 1) : Home(h2, top2, m) = Home(h, top, m)
      BY <1>13, <3>1, <3>2
    <3> QED BY <1>13, <1>14, <3>1, <3>3
  <2>5. ASSUME k.pc = "release", NEW m \in Num(k.index) + 1 .. Num(k.last - 1)
        PROVE  Home(h2, top2, m) = Home(h, top, m)
    <3>1. m \in Nat /\ Live(m, top, headIndex, consumer)
      BY <2>2, <2>5, RestLive
    <3> QED BY <1>13, <1>14, <3>1
  <2>6. Len(headers) \in Nat /\ Len(hs2) \in Nat /\ Len(headers) <= Len(hs2)
        /\ \A g \in 1 .. Len(headers) : hs2[g].capacity = headers[g].capacity /\ hs2[g].index = headers[g].index
    BY <1>2 DEF HeadersGrow
  <2>7. FinderOK(k, top2, hs2, es2)
    BY <2>1, <2>2, <2>3, <2>4, <2>5, <2>6, FinderMoves
  <2> QED BY <2>1, <2>2, <2>7
<1> QED BY <1>b, <1>8, <1>16, <1>17, <1>18, <1>19, <1>20, <1>21, <1>22 DEF Indexed
-----------------------------------------------------------------------------
(* Blocks a whole round of the index apart have the same entry.            *)
LEMMA HomeWraps ==
  ASSUME NEW h, NEW size \in Nat, HeaderOK(h, size), NEW top \in Int, NEW n \in Int
  PROVE  Home(h, top, n - h.capacity) = Home(h, top, n)
<1>1. PICK c, a, q : c = h.capacity /\ a = h.tail + (n - top) /\ q = -1
  OBVIOUS
<1>2. c \in Nat \ {0} /\ a \in Int /\ q \in Int /\ h.tail \in Int
  BY <1>1 DEF HeaderOK
<1>3. h.tail + ((n - c) - top) = a + c * q
  BY <1>1, <1>2
<1>4. (a + c * q) % c = a % c
  BY <1>2, ModOfSum
<1> QED BY <1>1, <1>3, <1>4 DEF Home, SlotOf

(* The entry that a looking consumer has started from.                     *)
LEMMA StartsAt ==
  ASSUME ImplicitInv, ReserveInv, NEW top, top = Top(tailIndex, producer), NEW h, h = headers[Len(headers)],
         NEW c \in Consumers, NEW k, k = consumer[c], k.pc = "find",
         NEW p \in Nat, FindOK(k, top, headers, entries, p)
  PROVE  /\ headers[k.hdr].index[k.pos] = Home(h, top, p)
         /\ k.hdr \in 1 .. Len(headers)
         /\ Num(k.index) \in Nat /\ Num(k.last - 1) \in Int /\ Num(k.index) <= Num(k.last - 1)
         /\ Num(k.last - 1) <= p /\ Num(k.last - 1) <= top /\ p - Num(k.index) < h.capacity
         /\ Live(Num(k.index), top, headIndex, consumer)
<1>0. PICK given : given = Given(tailIndex, producer)
  OBVIOUS
<1>1. top \in Int /\ given \in Int /\ Num(tailIndex - 1) \in Int /\ Num(tailIndex - 1) <= given /\ given <= top
      /\ Len(entries) \in Nat
  BY <1>0, IndexNow
<1>2. k.hdr \in 1 .. Len(headers) /\ HeaderOK(headers[k.hdr], Len(entries)) /\ k.pos \in 0 .. headers[k.hdr].capacity - 1
  BY HeaderNow DEF Finding
<1>3. SlotOf(headers[k.hdr], k.pos, 0) = headers[k.hdr].index[k.pos]
  BY <1>1, <1>2, SlotHere
<1>4. SlotOf(headers[k.hdr], k.pos, p - p) = Home(h, top, p) /\ p - p = 0
  BY DEF FindOK, Finds
<1>5. /\ Num(k.index) \in Nat /\ Num(k.last - 1) \in Int
      /\ Num(k.index) <= Num(k.last - 1) /\ Num(k.last - 1) <= Num(tailIndex - 1)
      /\ Live(Num(k.index), top, headIndex, consumer)
  BY ReaderNow DEF Reading
<1>6. Num(k.last - 1) <= p /\ p - Num(k.index) < h.capacity
  BY DEF FindOK
<1>7. Num(k.last - 1) <= top
  BY <1>1, <1>5
<1> QED BY <1>2, <1>3, <1>4, <1>5, <1>6, <1>7

(* A distance less than c that is not the largest one.                     *)
LEMMA OneMore ==
  ASSUME NEW top \in Int, NEW m \in Int, NEW c \in Nat, NEW n \in Int, n = top + 1, top - m < c, n - c # m
  PROVE  n - m < c
OBVIOUS

(* The entry after the tail: if it is free, no live block has it, and the  *)
(* index has room.                                                         *)
LEMMA NextFree ==
  ASSUME ImplicitInv, ReserveInv, producer.pc = "insert", NEW top, top = Top(tailIndex, producer),
         NEW h, h = headers[Len(headers)], NEW x, x = Home(h, top, top + 1),
         entries[x].key = INVALID_BLOCK_BASE \/ entries[x].value = NoBlock
  PROVE  /\ entries[x].value = NoBlock
         /\ \A m \in Nat : Live(m, top, headIndex, consumer) =>
              /\ top + 1 - m < h.capacity
              /\ \A q \in m .. top : Home(h, top, q) # x
<1>0. PICK given : given = Given(tailIndex, producer)
  OBVIOUS
<1>1. /\ top \in Int /\ given \in Int
      /\ Len(entries) \in Nat /\ HeaderOK(h, Len(entries)) /\ Len(headers) \in Nat \ {0}
      /\ AllLiveOK(top, given, headIndex, consumer, h, entries, elementsCompletelyDequeued)
  BY <1>0, IndexNow
<1>2. top = given
  BY <1>0, NextBaseIs
<1>3. x \in 1 .. Len(entries)
  <2>1. top + 1 \in Int
    BY <1>1
  <2> QED BY <1>1, <2>1, HomeIn
<1>4. \A m \in Nat : Live(m, top, headIndex, consumer) =>
        /\ m <= top /\ top - m < h.capacity /\ entries[Home(h, top, m)].value \in Blocks
        /\ entries[Home(h, top, m)].key = BLOCK_SIZE * m
  <2> SUFFICES ASSUME NEW m \in Nat, Live(m, top, headIndex, consumer)
               PROVE  /\ m <= top /\ top - m < h.capacity /\ entries[Home(h, top, m)].value \in Blocks
                      /\ entries[Home(h, top, m)].key = BLOCK_SIZE * m
    OBVIOUS
  <2>1. LiveOK(m, top, given, headIndex, consumer, h, entries, elementsCompletelyDequeued)
    BY <1>1 DEF AllLiveOK
  <2>2. m <= top /\ m \in m .. top /\ m <= given
    BY <1>1, <1>2 DEF Live
  <2> QED BY <2>1, <2>2 DEF LiveOK
<1>5. entries[x].value = NoBlock
  <2> SUFFICES ASSUME entries[x].value # NoBlock PROVE FALSE
    OBVIOUS
  <2>1. OnlyLive(x, top, given, headIndex, consumer, h, entries)
    BY <1>0, <1>3 DEF ImplicitInv, Indexed, AllOnlyLive
  <2>2. PICK m \in 0 .. given : Live(m, top, headIndex, consumer) /\ Home(h, top, m) = x
    BY <2>1 DEF OnlyLive
  <2>3. m \in Nat /\ m \in Int
    BY <1>1, <2>2
  <2>4. entries[x].key = BLOCK_SIZE * m
    BY <1>4, <2>2, <2>3
  <2> QED BY <2>3, <2>4, NotInvalid
<1>6. ASSUME NEW m \in Nat, Live(m, top, headIndex, consumer)
      PROVE  top + 1 - m < h.capacity
  <2>1. PICK c, n : c = h.capacity /\ n = top + 1
    OBVIOUS
  <2>2. c \in Nat /\ top - m < c
    BY <1>1, <1>4, <1>6, <2>1 DEF HeaderOK
  <2>3. n \in Int /\ top \in Int /\ m \in Int
    BY <1>1, <2>1
  <2>4. n - c # m
    <3>1. Home(h, top, n - h.capacity) = Home(h, top, n)
      BY <1>1, <2>3, HomeWraps
    <3>2. Home(h, top, n - c) = x
      BY <2>1, <3>1
    <3>3. Home(h, top, m) # x
      BY <1>4, <1>5, <1>6, NoBlockAssumption
    <3> QED BY <3>2, <3>3
  <2>5. n - m < c
    BY <2>1, <2>2, <2>3, <2>4, OneMore
  <2> QED BY <2>1, <2>2, <2>3, <2>5
<1>7. ASSUME NEW m \in Nat, Live(m, top, headIndex, consumer), NEW q \in m .. top, Home(h, top, q) = x
      PROVE  FALSE
  <2>1. PICK n, c : n = top + 1 /\ c = h.capacity
    OBVIOUS
  <2>2. n \in Int /\ q \in Int /\ n - m < c /\ m <= q /\ q <= top /\ c \in Nat
    BY <1>1, <1>6, <1>7, <2>1, SMTT(30) DEF HeaderOK
  <2>3. q - n < h.capacity /\ n - q < h.capacity /\ n # q
    BY <1>1, <2>1, <2>2, SMTT(30)
  <2> QED BY <1>1, <1>7, <2>1, <2>2, <2>3, HomesApart
<1> QED BY <1>5, <1>6, <1>7

(* An entry gets a key.                                                    *)
KeyAt(es, x, base) == [es EXCEPT ![x].key = base]

(* An entry with another key keeps its block.                              *)
LEMMA KeySet ==
  ASSUME NEW es \in Seq(Entry), NEW x \in 1 .. Len(es), NEW base \in Int, NEW es2, es2 = KeyAt(es, x, base)
  PROVE  /\ Len(es2) = Len(es) /\ es2 \in Seq(Entry) /\ es2[x].key = base
         /\ es2[x].value = es[x].value /\ \A f \in 1 .. Len(es) : f # x => es2[f] = es[f]
<1>1. PICK r : r = [es[x] EXCEPT !.key = base]
  OBVIOUS
<1>2. r \in Entry /\ r.key = base /\ r.value = es[x].value
  <2>1. es[x] \in Entry
    OBVIOUS
  <2> QED BY <1>1, <2>1 DEF Entry
<1>3. es2 = [es EXCEPT ![x] = r]
  BY <1>1 DEF KeyAt
<1> QED BY <1>2, <1>3

(* The next entry is in the same header.                                   *)
SameHeaders(hs, hs2, h2) ==
  /\ DOMAIN hs2 = 1 .. Len(hs) /\ Len(hs2) = Len(hs) /\ hs2[Len(hs)] = h2
  /\ \A i \in 1 .. Len(hs) : i # Len(hs) => hs2[i] = hs[i]

(* The entry after the tail is free: the header is used further.           *)
LEMMA InsertSame ==
  ASSUME ImplicitInv, ReserveInv, producer.pc = "insert", NEW top, top = Top(tailIndex, producer),
         NEW h, h = headers[Len(headers)], NEW x, x = Home(h, top, top + 1),
         entries[x].key = INVALID_BLOCK_BASE \/ entries[x].value = NoBlock,
         NEW es2, es2 = KeyAt(entries, x, NextBase),
         NEW h2, DOMAIN h2 = {"capacity", "tail", "index"}, NEW top2, top2 = top + 1, Moved(h, top, h2, top2),
         NEW hs2, SameHeaders(headers, hs2, h2), NEW p2, p2 = AtBlock(producer)
  PROVE  Indexed(tailIndex, headIndex, p2, consumer, tailBlock, hs2, es2,
                 elementsCompletelyDequeued, elements, pool)
<1>0. PICK given, g, u : given = Given(tailIndex, producer) /\ g = Len(headers) /\ u = 1
  OBVIOUS
<1>1. /\ top \in Int /\ given \in Int /\ g \in Nat \ {0}
      /\ Len(entries) \in Nat /\ HeaderOK(h, Len(entries)) /\ entries \in Seq(Entry)
      /\ AllLiveOK(top, given, headIndex, consumer, h, entries, elementsCompletelyDequeued)
  BY <1>0, IndexNow
<1>2. DOMAIN headers = 1 .. g /\ \A i \in 1 .. g : HeaderOK(headers[i], Len(entries))
  BY <1>0 DEF ImplicitInv, Indexed, IndexOK
<1>3. top = given /\ NextBase = BLOCK_SIZE * (top + 1)
  BY <1>0, NextBaseIs
<1>4. /\ entries[x].value = NoBlock
      /\ \A m \in Nat : Live(m, top, headIndex, consumer) =>
           /\ top + 1 - m < h.capacity
           /\ \A q \in m .. top : Home(h, top, q) # x
  BY NextFree
<1>5. top2 \in Int /\ top2 - top = 1
  BY <1>1
<1>6. (h.tail + 1) % h.capacity \in 0 .. h.capacity - 1 /\ h.tail \in Int /\ h.capacity \in Nat \ {0, 1}
  <2>1. h.tail \in Int /\ h.capacity \in Nat \ {0, 1}
    BY <1>1 DEF HeaderOK
  <2>2. u \in Int
    BY <1>0
  <2>3. (h.tail + u) % h.capacity \in 0 .. h.capacity - 1
    BY <1>1, <2>1, <2>2, SlotIn
  <2> QED BY <1>0, <2>1, <2>3
<1>c. h.capacity \in Nat
  BY <1>6
<1>7. h2.capacity = h.capacity /\ h2.index = h.index /\ h2.tail = (h.tail + 1) % h.capacity
  BY <1>5 DEF Moved
<1>8. HeaderOK(h2, Len(entries))
  BY <1>1, <1>6, <1>7 DEF HeaderOK
<1>9. DOMAIN hs2 = 1 .. g /\ hs2[g] = h2 /\ \A i \in 1 .. g : i # g => hs2[i] = headers[i]
  BY <1>0 DEF SameHeaders
<1>10. Len(hs2) = g
  BY <1>0 DEF SameHeaders
<1>11. Len(es2) = Len(entries) /\ es2 \in Seq(Entry) /\ x \in 1 .. Len(entries) /\ es2[x].key = NextBase
       /\ es2[x].value = entries[x].value /\ \A f \in 1 .. Len(entries) : f # x => es2[f] = entries[f]
  <2>1. top + 1 \in Int /\ NextBase \in Int
    BY <1>1, <1>3, BlockSize
  <2>2. x \in 1 .. Len(entries)
    BY <1>1, <2>1, HomeIn
  <2> QED BY <1>1, <2>1, <2>2, KeySet
<1>12. \A n \in Int : Home(h2, top + 1, n) = Home(h, top, n)
  <2> SUFFICES ASSUME NEW n \in Int PROVE Home(h2, top + 1, n) = Home(h, top, n)
    OBVIOUS
  <2>1. Home(h2, top2, n) = Home(h, top, n)
    BY <1>1, <1>5, HomeMoves
  <2> QED BY <2>1
<1>13. x = Home(h2, top + 1, top + 1)
  BY <1>1, <1>12
<1>14. HeadersGrow(headers, hs2, Len(es2))
  <2>1. \A i \in 1 .. g : HeaderOK(hs2[i], Len(es2))
    BY <1>2, <1>8, <1>9, <1>11
  <2>2. \A i \in 1 .. g : hs2[i].capacity = headers[i].capacity /\ hs2[i].index = headers[i].index
    BY <1>0, <1>7, <1>9
  <2> QED BY <1>0, <1>1, <1>9, <1>10, <2>1, <2>2 DEF HeadersGrow
<1>15. EntryAdded(entries, es2, x, NextBase)
  BY <1>1, <1>4, <1>11 DEF EntryAdded
<1>16. HomesKept(top, headIndex, consumer, h, h2, x)
  <2> SUFFICES ASSUME NEW m \in Nat, Live(m, top, headIndex, consumer)
               PROVE  /\ top + 1 - m < h2.capacity
                      /\ \A q \in m .. top : Home(h2, top + 1, q) = Home(h, top, q) /\ Home(h, top, q) # x
    BY DEF HomesKept
  <2>1. \A q \in m .. top : q \in Int
    BY <1>1
  <2> QED BY <1>4, <1>7, <1>12, <2>1
<1>17. FindersKept(top, consumer, headers, entries, hs2, es2)
  <2> SUFFICES ASSUME NEW d \in Consumers, NEW p \in Nat, consumer[d].pc = "find",
                      FindOK(consumer[d], top, headers, entries, p)
               PROVE  FindOK(consumer[d], top + 1, hs2, es2, p)
    BY DEF FindersKept
  <2>1. PICK k, y, n : k = consumer[d] /\ y = headers[k.hdr].index[k.pos] /\ n = Num(k.index)
    OBVIOUS
  <2>2. /\ y = Home(h, top, p) /\ k.hdr \in 1 .. g
        /\ n \in Nat /\ Num(k.last - 1) \in Int /\ n <= Num(k.last - 1)
        /\ Num(k.last - 1) <= p /\ Num(k.last - 1) <= top /\ p - n < h.capacity
        /\ Live(n, top, headIndex, consumer)
    BY <1>0, <2>1, StartsAt
  <2>3. y \in 1 .. Len(entries) /\ p \in Int
    <3>1. p \in Int
      OBVIOUS
    <3> QED BY <1>1, <2>2, <3>1, HomeIn
  <2>4. es2[y].key = BLOCK_SIZE * p
    <3>1. entries[y].key = BLOCK_SIZE * p
      BY <2>1 DEF FindOK
    <3>2. CASE y # x
      BY <1>11, <2>3, <3>1, <3>2
    <3>3. CASE y = x
      <4>1. PICK a, c : a = top + 1 /\ c = h.capacity
        OBVIOUS
      <4>2. a \in Int /\ n <= p /\ n < a /\ p - n < c /\ a - n < c /\ c \in Nat
        <5>1. top + 1 - n < h.capacity
          BY <1>4, <2>2
        <5>2. n <= p /\ n <= top
          BY <1>1, <2>2, SMTT(30)
        <5>3. c \in Nat /\ a \in Int /\ n < a /\ p - n < c
          BY <1>1, <1>c, <2>2, <4>1, <5>2
        <5>4. a - n < c
          BY <1>1, <2>2, <4>1, <5>1, <5>3
        <5> QED BY <5>2, <5>3, <5>4
      <4>3. p - a < h.capacity /\ a - p < h.capacity
        BY <2>2, <4>1, <4>2
      <4>4. p = a
        BY <1>1, <2>2, <2>3, <3>3, <4>1, <4>2, <4>3, HomesApart
      <4> QED BY <1>3, <1>11, <3>3, <4>1, <4>4
    <3> QED BY <3>2, <3>3
  <2>5. hs2[k.hdr].index = headers[k.hdr].index /\ hs2[k.hdr].capacity = headers[k.hdr].capacity
    BY <1>0, <1>7, <1>9, <2>2
  <2>6. ASSUME NEW m \in (n .. Num(k.last - 1)) \union {p} PROVE Finds(k, hs2, top + 1, p, m)
    <3>1. Finds(k, headers, top, p, m) /\ m \in Int
      BY <2>1, <2>2, <2>6 DEF FindOK
    <3> QED BY <1>9, <1>10, <1>12, <2>5, <3>1 DEF Finds, SlotOf
  <2>7. ASSUME NEW m \in (top + 1) + 1 .. p PROVE es2[Home(h2, top + 1, m)].value = NoBlock
    <3>1. m \in Int /\ m \in top + 1 .. p
      BY <1>1, <2>7
    <3>2. Home(h, top, m) \in 1 .. Len(entries)
      BY <1>1, <3>1, HomeIn
    <3>3. entries[Home(h, top, m)].value = NoBlock
      BY <3>1 DEF FindOK
    <3> QED BY <1>11, <1>12, <3>1, <3>2, <3>3
  <2>8. p - n < hs2[Len(hs2)].capacity
    BY <1>7, <1>9, <1>10, <2>2
  <2>9. es2[hs2[k.hdr].index[k.pos]].key = BLOCK_SIZE * p /\ Num(k.last - 1) <= p
        /\ p - Num(k.index) < hs2[Len(hs2)].capacity
    BY <2>1, <2>2, <2>4, <2>5, <2>8
  <2>10. \A m \in (Num(k.index) .. Num(k.last - 1)) \union {p} : Finds(k, hs2, top + 1, p, m)
    BY <2>1, <2>6
  <2>11. \A m \in (top + 1) + 1 .. p : es2[Home(hs2[Len(hs2)], top + 1, m)].value = NoBlock
    BY <1>9, <1>10, <2>7
  <2>12. FindOK(k, top + 1, hs2, es2, p)
    BY <2>9, <2>10, <2>11 DEF FindOK
  <2> QED BY <2>1, <2>12
<1>18. h2 = hs2[Len(hs2)]
  BY <1>9, <1>10
<1> QED BY <1>13, <1>14, <1>15, <1>16, <1>17, <1>18, InsertStep
-----------------------------------------------------------------------------
(* The larger header has its entries once.                                 *)
LEMMA LargerOK ==
  ASSUME NEW h, NEW size \in Nat, HeaderOK(h, size), NEW h2, Larger(h, size, h2)
  PROVE  HeaderOK(h2, size + h.capacity)
<1>1. PICK c, u : c = h.capacity /\ u = h.tail + 1
  OBVIOUS
<1>2. c \in Nat \ {0, 1} /\ u \in Int /\ h.tail \in Int /\ h.index \in [0 .. c - 1 -> 1 .. size]
      /\ \A i, j \in 0 .. c - 1 : i # j => h.index[i] # h.index[j]
  BY <1>1 DEF HeaderOK
<1>3. /\ h2.capacity = 2 * c /\ h2.tail = c
      /\ h2.index = [i \in 0 .. 2 * c - 1 |-> IF i < c THEN h.index[(u + i) % c] ELSE size + 1 + i - c]
  BY <1>1 DEF Larger
<1>4. ASSUME NEW i \in 0 .. c - 1 PROVE (u + i) % c \in 0 .. c - 1 /\ h.index[(u + i) % c] \in 1 .. size
  <2>1. PICK a : a = u + i
    OBVIOUS
  <2>2. a \in Int /\ c \in Nat \ {0}
    BY <1>2, <2>1
  <2>3. a % c \in 0 .. c - 1
    BY <2>2, DivMod
  <2> QED BY <1>2, <2>1, <2>3
<1>5. ASSUME NEW i \in 0 .. c - 1, NEW j \in 0 .. c - 1, h.index[(u + i) % c] = h.index[(u + j) % c]
      PROVE  i = j
  <2>1. PICK a, b : a = u + i /\ b = u + j
    OBVIOUS
  <2>2. a \in Int /\ b \in Int /\ a - b < c /\ b - a < c /\ c \in Nat \ {0}
    BY <1>2, <2>1
  <2>3. a % c = b % c
    BY <1>2, <1>4, <1>5, <2>1
  <2>4. a = b
    BY <2>2, <2>3, ModApart
  <2> QED BY <1>2, <2>1, <2>4
<1>6. \A i \in 0 .. 2 * c - 1 :
        /\ i < c => i \in 0 .. c - 1 /\ h2.index[i] = h.index[(u + i) % c] /\ h2.index[i] \in 1 .. size
        /\ i >= c => h2.index[i] = size + 1 + i - c
  BY <1>2, <1>3, <1>4
<1>7. h2.index \in [0 .. 2 * c - 1 -> 1 .. size + c]
  <2>1. \A i \in 0 .. 2 * c - 1 : h2.index[i] \in 1 .. size + c
    <3> SUFFICES ASSUME NEW i \in 0 .. 2 * c - 1 PROVE h2.index[i] \in 1 .. size + c
      OBVIOUS
    <3>1. CASE i < c
      <4>1. h2.index[i] \in 1 .. size
        BY <1>6, <3>1
      <4> QED BY <1>2, <4>1
    <3>2. CASE i >= c
      BY <1>2, <1>6, <3>2
    <3> QED BY <1>2, <3>1, <3>2
  <2> QED BY <1>3, <2>1
<1>8. ASSUME NEW i \in 0 .. 2 * c - 1, NEW j \in 0 .. 2 * c - 1, h2.index[i] = h2.index[j]
      PROVE  i = j
  <2>1. CASE i < c /\ j < c
    BY <1>5, <1>6, <1>8, <2>1
  <2>2. CASE i >= c /\ j >= c
    BY <1>2, <1>6, <1>8, <2>2
  <2>3. CASE i < c /\ j >= c
    <3>1. h2.index[i] \in 1 .. size /\ h2.index[j] = size + 1 + j - c
      BY <1>6, <2>3
    <3> QED BY <1>2, <1>8, <2>3, <3>1
  <2>4. CASE i >= c /\ j < c
    <3>1. h2.index[j] \in 1 .. size /\ h2.index[i] = size + 1 + i - c
      BY <1>6, <2>4
    <3> QED BY <1>2, <1>8, <2>4, <3>1
  <2> QED BY <1>2, <2>1, <2>2, <2>3, <2>4
<1>9. 2 * c \in Nat \ {0, 1} /\ c \in 0 .. 2 * c - 1
  BY <1>2
<1>10. DOMAIN h2 = {"capacity", "tail", "index"}
  BY DEF Larger
<1> QED BY <1>1, <1>3, <1>7, <1>8, <1>9, <1>10 DEF HeaderOK

(* A header stays one when there are more entries.                         *)
LEMMA HeaderWider ==
  ASSUME NEW k, NEW size \in Nat, NEW size2 \in Nat, size <= size2, HeaderOK(k, size)
  PROVE  HeaderOK(k, size2)
<1>1. k.index \in [0 .. k.capacity - 1 -> 1 .. size]
  BY DEF HeaderOK
<1>2. 1 .. size \subseteq 1 .. size2
  OBVIOUS
<1>3. k.index \in [0 .. k.capacity - 1 -> 1 .. size2]
  BY <1>1, <1>2
<1> QED BY <1>3 DEF HeaderOK

(* A sequence with one more element, which is replaced.                    *)
Appended(hs, r, r2) == [Append(hs, r) EXCEPT ![Len(hs) + 1] = r2]

(* A header that is added at the end leaves the others as they were.       *)
LEMMA AppendSet ==
  ASSUME NEW hs, Len(hs) \in Nat \ {0}, DOMAIN hs = 1 .. Len(hs), NEW r, NEW r2, NEW hs2,
         hs2 = Appended(hs, r, r2)
  PROVE  /\ DOMAIN hs2 = 1 .. Len(hs) + 1 /\ Len(hs2) = Len(hs) + 1 /\ hs2[Len(hs) + 1] = r2
         /\ \A i \in 1 .. Len(hs) : hs2[i] = hs[i]
<1>1. PICK a, g : a = Append(hs, r) /\ g = Len(hs) + 1
  OBVIOUS
<1>2. g \in Nat \ {0} /\ DOMAIN a = 1 .. g /\ \A i \in 1 .. Len(hs) : a[i] = hs[i]
  BY <1>1
<1>3. hs2 = [a EXCEPT ![g] = r2]
  BY <1>1 DEF Appended
<1>4. DOMAIN hs2 = 1 .. g /\ hs2[g] = r2 /\ \A i \in 1 .. g : i # g => hs2[i] = a[i]
  BY <1>2, <1>3
<1>5. Len(hs2) = g
  BY <1>2, <1>4
<1> QED BY <1>1, <1>2, <1>4, <1>5

(* A sequence of entries and as many fresh ones.                           *)
FreshOK(S, es, c, v, es2) ==
  /\ es2 \in Seq(S) /\ Len(es) \in Nat /\ Len(es2) = Len(es) + c
  /\ \A i \in 1 .. Len(es) : es2[i] = es[i]
  /\ \A j \in 1 .. Len(es) + c : j > Len(es) => es2[j] = v
WithFresh(es, c, v) == es \o [i \in 1 .. c |-> v]

(* Fresh entries come after the old ones.                                  *)
LEMMA FreshAdded ==
  ASSUME NEW S, NEW es \in Seq(S), NEW c \in Nat, NEW v \in S
  PROVE  FreshOK(S, es, c, v, WithFresh(es, c, v))
<1>1. PICK fr : fr = [i \in 1 .. c |-> v]
  OBVIOUS
<1>2. fr \in Seq(S) /\ Len(fr) = c
  BY <1>1
<1>3. /\ es \o fr \in Seq(S) /\ Len(es) \in Nat /\ Len(es \o fr) = Len(es) + c
      /\ \A i \in 1 .. Len(es) : (es \o fr)[i] = es[i]
      /\ \A j \in 1 .. Len(es) + c : j > Len(es) => (es \o fr)[j] = v
  BY <1>1, <1>2
<1> QED BY <1>1, <1>3 DEF WithFresh, FreshOK

(* The next entry is in a larger header.                                   *)
MoreHeaders(hs, hs2, h2) ==
  /\ DOMAIN hs2 = 1 .. Len(hs) + 1 /\ Len(hs2) = Len(hs) + 1 /\ hs2[Len(hs) + 1] = h2
  /\ \A i \in 1 .. Len(hs) : hs2[i] = hs[i]

(* The entry after the tail is in use: a header of twice the capacity is   *)
(* put at the end.                                                         *)
LEMMA InsertGrown ==
  ASSUME ImplicitInv, ReserveInv, producer.pc = "insert", NEW top, top = Top(tailIndex, producer),
         NEW h, h = headers[Len(headers)], entries[Home(h, top, top + 1)].value # NoBlock,
         NEW h2, Larger(h, Len(entries), h2),
         NEW hs2, MoreHeaders(headers, hs2, h2),
         NEW x, x = Len(entries) + 1, NEW es2, EntryAdded(entries, es2, x, NextBase),
         Len(es2) = Len(entries) + h.capacity,
         NEW p2, p2 = AtBlock(producer)
  PROVE  Indexed(tailIndex, headIndex, p2, consumer, tailBlock, hs2, es2,
                 elementsCompletelyDequeued, elements, pool)
<1>0. PICK given, g, c, size, top2 : given = Given(tailIndex, producer) /\ g = Len(headers) /\ c = h.capacity
                                     /\ size = Len(entries) /\ top2 = top + 1
  OBVIOUS
<1>1. /\ top \in Int /\ given \in Int /\ g \in Nat \ {0}
      /\ size \in Nat /\ HeaderOK(h, size) /\ entries \in Seq(Entry)
      /\ AllLiveOK(top, given, headIndex, consumer, h, entries, elementsCompletelyDequeued)
  BY <1>0, IndexNow
<1>2. DOMAIN headers = 1 .. g /\ \A i \in 1 .. g : HeaderOK(headers[i], size)
  BY <1>0 DEF ImplicitInv, Indexed, IndexOK
<1>4. c \in Nat \ {0, 1} /\ top2 \in Int /\ h2.capacity = 2 * c
  BY <1>0, <1>1 DEF HeaderOK, Larger
<1>5. Home(h2, top + 1, top + 1) = size + 1
      /\ \A n \in Int : top - n < c /\ n <= top => Home(h2, top + 1, n) = Home(h, top, n)
  <2>1. Grown(h, top, h2, size)
    BY <1>0, <1>1, HomeGrows
  <2> QED BY <1>0, <2>1 DEF Grown
<1>6. HeaderOK(h2, size + c)
  BY <1>0, <1>1, LargerOK
<1>7. HeadersGrow(headers, hs2, Len(es2))
  <2>1. \A i \in 1 .. g : HeaderOK(headers[i], size + c)
    <3>1. PICK s2 : s2 = size + c
      OBVIOUS
    <3>2. s2 \in Nat /\ size <= s2
      BY <1>1, <1>4, <3>1
    <3>3. \A i \in 1 .. g : HeaderOK(headers[i], s2)
      BY <1>1, <1>2, <3>2, HeaderWider
    <3> QED BY <3>1, <3>3
  <2>2. Len(es2) = size + c /\ Len(hs2) = g + 1 /\ hs2[g + 1] = h2 /\ DOMAIN hs2 = 1 .. g + 1
    BY <1>0 DEF MoreHeaders
  <2>3. \A i \in 1 .. g : hs2[i] = headers[i]
    BY <1>0 DEF MoreHeaders
  <2>4. \A i \in 1 .. g + 1 : HeaderOK(hs2[i], size + c)
    <3>1. \A i \in 1 .. g + 1 : i = g + 1 \/ i \in 1 .. g
      BY <1>1
    <3> QED BY <1>6, <2>1, <2>2, <2>3, <3>1
  <2>5. Len(hs2) \in Nat \ {0} /\ DOMAIN hs2 = 1 .. Len(hs2) /\ Len(headers) <= Len(hs2)
    BY <1>0, <1>1, <2>2
  <2>6. \A i \in 1 .. Len(hs2) : HeaderOK(hs2[i], Len(es2))
    BY <2>2, <2>4
  <2>7. \A i \in 1 .. Len(headers) : hs2[i].capacity = headers[i].capacity /\ hs2[i].index = headers[i].index
    BY DEF MoreHeaders
  <2> QED BY <2>5, <2>6, <2>7 DEF HeadersGrow
<1>8. \A m \in Nat : Live(m, top, headIndex, consumer) => m <= top /\ top - m < c
  BY <1>0, <1>1 DEF AllLiveOK, LiveOK, Live
<1>9. HomesKept(top, headIndex, consumer, h, h2, x)
  <2> SUFFICES ASSUME NEW m \in Nat, Live(m, top, headIndex, consumer)
               PROVE  /\ top + 1 - m < h2.capacity
                      /\ \A q \in m .. top : Home(h2, top + 1, q) = Home(h, top, q) /\ Home(h, top, q) # x
    BY DEF HomesKept
  <2>1. m <= top /\ top - m < c
    BY <1>8
  <2>2. top + 1 - m < h2.capacity
    BY <1>1, <1>4, <2>1
  <2>3. ASSUME NEW q \in m .. top PROVE Home(h2, top + 1, q) = Home(h, top, q) /\ Home(h, top, q) # x
    <3>1. q \in Int /\ top - q < c /\ q <= top
      BY <1>1, <1>4, <2>1
    <3>2. Home(h, top, q) \in 1 .. size
      BY <1>1, <3>1, HomeIn
    <3>3. Home(h, top, q) # x
      BY <1>0, <1>1, <3>2
    <3> QED BY <1>5, <3>1, <3>3
  <2> QED BY <2>2, <2>3
<1>10. FindersKept(top, consumer, headers, entries, hs2, es2)
  <2> SUFFICES ASSUME NEW d \in Consumers, NEW p \in Nat, consumer[d].pc = "find",
                      FindOK(consumer[d], top, headers, entries, p)
               PROVE  FindOK(consumer[d], top + 1, hs2, es2, p)
    BY DEF FindersKept
  <2>1. PICK k, y, n : k = consumer[d] /\ y = headers[k.hdr].index[k.pos] /\ n = Num(k.index)
    OBVIOUS
  <2>2. /\ y = Home(h, top, p) /\ k.hdr \in 1 .. g
        /\ n \in Nat /\ Num(k.last - 1) \in Int /\ n <= Num(k.last - 1)
        /\ Num(k.last - 1) <= p /\ Num(k.last - 1) <= top /\ p - n < c
        /\ Live(n, top, headIndex, consumer)
    BY <1>0, <2>1, StartsAt, SMTT(30)
  <2>3. p <= top /\ p \in Int
    <3> SUFFICES ASSUME p > top PROVE FALSE
      BY <1>1
    <3>1. top + 1 \in top + 1 .. p
      BY <1>1
    <3> QED BY <3>1 DEF FindOK
  <2>4. y \in 1 .. size /\ y # x
    <3>1. y \in 1 .. size
      BY <1>1, <2>2, <2>3, HomeIn
    <3> QED BY <1>0, <1>1, <3>1
  <2>5. hs2[k.hdr] = headers[k.hdr] /\ hs2[Len(hs2)] = h2
    BY <1>0, <2>2 DEF MoreHeaders
  <2>6. es2[y].key = BLOCK_SIZE * p
    <3>1. entries[y].key = BLOCK_SIZE * p
      BY <2>1 DEF FindOK
    <3> QED BY <1>0, <2>4, <3>1 DEF EntryAdded
  <2>7. p - n < h2.capacity
    BY <1>1, <1>4, <2>2
  <2>8. es2[hs2[k.hdr].index[k.pos]].key = BLOCK_SIZE * p /\ Num(k.last - 1) <= p
        /\ p - Num(k.index) < hs2[Len(hs2)].capacity
    BY <2>1, <2>2, <2>5, <2>6, <2>7
  <2>9. ASSUME NEW m \in (Num(k.index) .. Num(k.last - 1)) \union {p} PROVE Finds(k, hs2, top + 1, p, m)
    <3>1. Finds(k, headers, top, p, m)
      BY <2>1, <2>9 DEF FindOK
    <3>2. m \in Int /\ n <= m /\ m <= top
      BY <1>1, <2>1, <2>2, <2>3, <2>9, SMTT(30)
    <3>3. top - m < c
      <4>1. top - n < c
        BY <1>8, <2>2
      <4> QED BY <1>1, <1>4, <2>2, <3>2, <4>1
    <3>4. Home(h2, top + 1, m) = Home(h, top, m)
      BY <1>5, <3>2, <3>3
    <3> QED BY <2>5, <3>1, <3>4 DEF Finds
  <2>10. \A m \in (top + 1) + 1 .. p : es2[Home(hs2[Len(hs2)], top + 1, m)].value = NoBlock
    BY <1>1, <2>3
  <2>11. FindOK(k, top + 1, hs2, es2, p)
    BY <2>8, <2>9, <2>10 DEF FindOK
  <2> QED BY <2>1, <2>11
<1>11. h2 = hs2[Len(hs2)] /\ x = Home(h2, top + 1, top + 1)
  BY <1>0, <1>5 DEF MoreHeaders
<1> QED BY <1>7, <1>9, <1>10, <1>11, InsertStep

(* The call gets a new entry of the index.                                 *)
LEMMA InsertKeepsIndex ==
  ASSUME ImplicitInv, ReserveInv, ImplicitInsert
  PROVE  ImplicitInv'
<1>0. PICK top, h, x, p2, size, c : top = Top(tailIndex, producer) /\ h = headers[Len(headers)]
        /\ x = Home(h, top, top + 1) /\ p2 = AtBlock(producer) /\ size = Len(entries) /\ c = h.capacity
  OBVIOUS
<1>1. producer.pc = "insert" /\ producer' = p2 /\ UNCHANGED <<indexVars, blockVars, elementsCompletelyDequeued, consumer>>
  BY <1>0 DEF ImplicitInsert, AtBlock
<1>2. top \in Int /\ size \in Nat /\ HeaderOK(h, size) /\ entries \in Seq(Entry) /\ Len(headers) \in Nat \ {0}
  <2>1. PICK given : given = Given(tailIndex, producer)
    OBVIOUS
  <2> QED BY <1>0, <2>1, IndexNow
<1>3. DOMAIN headers = 1 .. Len(headers) /\ c \in Nat \ {0, 1} /\ h.tail \in 0 .. c - 1
  BY <1>0, <1>2 DEF ImplicitInv, Indexed, IndexOK, HeaderOK
<1>4. h.index[NextTail(h)] = x
  <2>1. (top + 1) - top = 1
    BY <1>2
  <2> QED BY <1>0, <2>1 DEF NextTail, Home, SlotOf
<1>5. CASE entries[x].key = INVALID_BLOCK_BASE \/ entries[x].value = NoBlock
  <2>1. PICK es2, hs2, h2 : es2 = KeyAt(entries, x, NextBase)
                            /\ hs2 = [headers EXCEPT ![Len(headers)] = h2] /\ h2 = [h EXCEPT !.tail = NextTail(h)]
    OBVIOUS
  <2>2. entries' = es2 /\ headers' = hs2
    BY <1>0, <1>4, <1>5, <2>1 DEF ImplicitInsert, insert_block_index_entry, InsertEntry, blockIndex, KeyAt
  <2>3. DOMAIN hs2 = 1 .. Len(headers) /\ hs2[Len(headers)] = h2
        /\ \A i \in 1 .. Len(headers) : i # Len(headers) => hs2[i] = headers[i]
    BY <1>2, <1>3, <2>1
  <2>4. Len(hs2) = Len(headers)
    BY <1>2, <2>3
  <2>5. DOMAIN h2 = {"capacity", "tail", "index"} /\ h2.capacity = h.capacity /\ h2.index = h.index
        /\ h2.tail = (h.tail + 1) % h.capacity
    BY <1>2, <2>1 DEF HeaderOK, NextTail
  <2>6. PICK top2 : top2 = top + 1
    OBVIOUS
  <2>7. top2 - top = 1 /\ top2 \in Int
    BY <1>2, <2>6
  <2>8. Moved(h, top, h2, top2)
    BY <2>5, <2>7 DEF Moved
  <2>9. SameHeaders(headers, hs2, h2)
    BY <2>3, <2>4 DEF SameHeaders
  <2>10. Indexed(tailIndex, headIndex, p2, consumer, tailBlock, hs2, es2,
                elementsCompletelyDequeued, elements, pool)
    BY <1>0, <1>1, <1>5, <2>1, <2>5, <2>6, <2>8, <2>9, InsertSame
  <2> QED BY <1>1, <2>2, <2>10 DEF ImplicitInv, indexVars, blockVars
<1>6. CASE ~(entries[x].key = INVALID_BLOCK_BASE \/ entries[x].value = NoBlock)
  <2>1. PICK nh, es1, hs1, y : nh = NewHeader /\ es1 = entries \o FreshEntries /\ hs1 = Append(headers, nh)
                               /\ y = size + 1
    OBVIOUS
  <2>2. /\ DOMAIN nh = {"capacity", "tail", "index"} /\ nh.capacity = 2 * c /\ nh.tail = c - 1
        /\ nh.index = [i \in 0 .. 2 * c - 1 |->
                   IF i < c THEN h.index[(h.tail + 1 + i) % c] ELSE size + 1 + i - c]
    BY <1>0, <2>1 DEF NewHeader, blockIndex
  <2>3. NextTail(nh) = c
    <3>1. PICK a, b : a = c /\ b = 2 * c
      OBVIOUS
    <3>2. a \in Nat /\ b \in Nat /\ a < b
      BY <1>3, <3>1
    <3>3. a % b = a
      BY <3>2, ModSmall
    <3>4. nh.tail + 1 = c
      BY <1>3, <2>2
    <3> QED BY <2>2, <3>1, <3>3, <3>4 DEF NextTail
  <2>4. nh.index[c] = y
    BY <1>2, <1>3, <2>1, <2>2
  <2>5. PICK h2 : h2 = [nh EXCEPT !.tail = c]
    OBVIOUS
  <2>6. Larger(h, size, h2)
    <3>1. DOMAIN h2 = {"capacity", "tail", "index"} /\ h2.capacity = nh.capacity /\ h2.tail = c /\ h2.index = nh.index
      BY <2>2, <2>5
    <3> QED BY <1>0, <2>2, <3>1 DEF Larger
  <2>7. Len(hs1) = Len(headers) + 1 /\ hs1[Len(headers) + 1] = nh
    BY <1>2, <1>3, <2>1
  <2>8. PICK es2, hs2 : es2 = [es1 EXCEPT ![y].key = NextBase] /\ hs2 = [hs1 EXCEPT ![Len(headers) + 1] = h2]
    OBVIOUS
  <2>9. entries' = es2 /\ headers' = hs2
    <3>1. InsertEntry(hs1, es1, NextBase)
      BY <1>0, <1>4, <1>6, <2>1 DEF ImplicitInsert, insert_block_index_entry, blockIndex
    <3>2. entries' = [es1 EXCEPT ![nh.index[NextTail(nh)]].key = NextBase]
          /\ headers' = [hs1 EXCEPT ![Len(headers) + 1].tail = NextTail(nh)]
      BY <2>7, <3>1 DEF InsertEntry
    <3> QED BY <2>3, <2>4, <2>5, <2>7, <2>8, <3>2
  <2>10. MoreHeaders(headers, hs2, h2)
    <3>1. hs2 = Appended(headers, nh, h2)
      BY <2>1, <2>8 DEF Appended
    <3> QED BY <1>2, <1>3, <3>1, AppendSet DEF MoreHeaders
  <2>11. PICK v : v = [key |-> INVALID_BLOCK_BASE, value |-> NoBlock]
    OBVIOUS
  <2>12. v \in Entry /\ v.value = NoBlock
    BY <2>11 DEF Entry, INVALID_BLOCK_BASE
  <2>13. /\ es1 \in Seq(Entry) /\ Len(es1) = size + c
         /\ \A i \in 1 .. size : es1[i] = entries[i]
         /\ \A j \in 1 .. size + c : j > size => es1[j] = v
    <3>1. es1 = WithFresh(entries, c, v)
      BY <1>0, <2>1, <2>11 DEF FreshEntries, blockIndex, WithFresh
    <3>2. c \in Nat
      BY <1>3
    <3>3. FreshOK(Entry, entries, c, v, es1)
      BY <1>2, <2>12, <3>1, <3>2, FreshAdded
    <3> QED BY <1>0, <3>3 DEF FreshOK
  <2>14. y \in 1 .. Len(es1) /\ y > size /\ NextBase \in Int
    <3>1. NextBase = BLOCK_SIZE * (top + 1)
      BY <1>0, <1>1, NextBaseIs
    <3> QED BY <1>2, <1>3, <2>1, <2>13, <3>1, BlockSize
  <2>15. /\ Len(es2) = Len(es1) /\ es2 \in Seq(Entry) /\ es2[y].key = NextBase
         /\ es2[y].value = es1[y].value /\ \A f \in 1 .. Len(es1) : f # y => es2[f] = es1[f]
    <3>1. es2 = KeyAt(es1, y, NextBase)
      BY <2>8 DEF KeyAt
    <3> QED BY <2>13, <2>14, <3>1, KeySet
  <2>16. EntryAdded(entries, es2, y, NextBase)
    <3>1. Len(es2) = size + c /\ Len(es2) \in Nat /\ size <= Len(es2)
      BY <1>2, <1>3, <2>13, <2>15
    <3>2. es2[y].value = NoBlock
      BY <2>12, <2>13, <2>14, <2>15
    <3>3. \A f \in 1 .. size : f # y /\ es2[f] = entries[f]
      <4> SUFFICES ASSUME NEW f \in 1 .. size PROVE f # y /\ es2[f] = entries[f]
        OBVIOUS
      <4>1. f # y /\ f \in 1 .. Len(es1)
        BY <1>2, <1>3, <2>1, <2>13
      <4> QED BY <2>13, <2>15, <4>1
    <3>4. \A f \in 1 .. Len(es2) : f > size => es2[f].value = NoBlock
      BY <2>12, <2>13, <2>15, <3>1, <3>2
    <3> QED BY <1>0, <2>14, <2>15, <3>1, <3>2, <3>3, <3>4 DEF EntryAdded
  <2>17. Len(es2) = Len(entries) + h.capacity
    BY <1>0, <2>13, <2>15
  <2>18. Indexed(tailIndex, headIndex, p2, consumer, tailBlock, hs2, es2,
                 elementsCompletelyDequeued, elements, pool)
    <3>1. entries[Home(h, top, top + 1)].value # NoBlock
      BY <1>0, <1>6
    <3> QED BY <1>0, <1>1, <2>1, <2>6, <2>10, <2>16, <2>17, <3>1, InsertGrown
  <2> QED BY <1>1, <2>9, <2>18 DEF ImplicitInv, indexVars, blockVars
<1> QED BY <1>5, <1>6
-----------------------------------------------------------------------------
(* The entries of the blocks after t, up to top, are cleared.              *)
Cleared(es, es2, h, top, t) ==
  /\ es2 \in Seq(Entry) /\ Len(es2) = Len(es)
  /\ \A f \in 1 .. Len(es) :
       /\ es2[f].key = es[f].key
       /\ (\E m \in t + 1 .. top : Home(h, top, m) = f) => es2[f].value = NoBlock
       /\ (\A m \in t + 1 .. top : Home(h, top, m) # f) => es2[f] = es[f]

(* The homes of the blocks after t, and the last n entries of a header.    *)
Adds(h, top, t, f) == \E m \in t + 1 .. top : Home(h, top, m) = f
UndoneEntries(h, n) == {h.index[(h.tail - i) % h.capacity] : i \in 0 .. n - 1}

(* The entries that rewind_block_index_tail clears are those homes.        *)
LEMMA UndoneAre ==
  ASSUME NEW h, h.tail \in Int, NEW top \in Int, NEW t \in Int, NEW n \in Nat, n = top - t, NEW f
  PROVE  f \in UndoneEntries(h, n) <=> Adds(h, top, t, f)
<1>1. PICK a \in Int : a = h.tail
  OBVIOUS
<1>2. ASSUME NEW i \in Int PROVE h.index[(h.tail - i) % h.capacity] = Home(h, top, top - i)
  <2>1. a - i = a + ((top - i) - top)
    OBVIOUS
  <2> QED BY <1>1, <2>1 DEF Home, SlotOf
<1>3. ASSUME f \in UndoneEntries(h, n) PROVE \E m \in t + 1 .. top : Home(h, top, m) = f
  <2>1. PICK i \in 0 .. n - 1 : f = h.index[(h.tail - i) % h.capacity]
    BY <1>3 DEF UndoneEntries
  <2>2. i \in Int /\ top - i \in t + 1 .. top
    OBVIOUS
  <2> QED BY <1>2, <2>1, <2>2
<1>4. ASSUME NEW m \in t + 1 .. top, Home(h, top, m) = f PROVE f \in UndoneEntries(h, n)
  <2>1. PICK i : i = top - m
    OBVIOUS
  <2>2. i \in 0 .. n - 1 /\ i \in Int /\ top - i = m
    BY <2>1
  <2>3. f = h.index[(h.tail - i) % h.capacity]
    BY <1>2, <1>4, <2>2
  <2> QED BY <2>2, <2>3 DEF UndoneEntries
<1> QED BY <1>3, <1>4 DEF Adds

(* All the entries of a call are cleared, and the tail of the index goes   *)
(* back to the block of the last element.                                  *)
LEMMA RewoundIs ==
  ASSUME ImplicitInv, ReserveInv, NEW top, top = Top(tailIndex, producer), NEW h, h = headers[Len(headers)],
         NEW t, t = Num(tailIndex - 1), NEW n, n = top - t, Rewound(n),
         NEW es2, es2 = entries', NEW hs2, hs2 = headers', NEW h2, h2 = hs2[Len(hs2)]
  PROVE  /\ Cleared(entries, es2, h, top, t) /\ SameHeaders(headers, hs2, h2)
         /\ Moved(h, top, h2, t) /\ HeaderOK(h2, Len(entries))
<1>0. PICK given, g, c, new : given = Given(tailIndex, producer) /\ g = Len(headers) /\ c = h.capacity
        /\ new = [h EXCEPT !.tail = (h.tail - n) % c]
  OBVIOUS
<1>1. /\ top \in Int /\ given \in Int /\ t \in Int /\ t <= given /\ given <= top
      /\ Len(entries) \in Nat /\ HeaderOK(h, Len(entries)) /\ g \in Nat \ {0} /\ entries \in Seq(Entry)
  BY <1>0, IndexNow
<1>2. n \in Nat /\ t - top = -n /\ n = top - t /\ top \in Int /\ t \in Int
  BY <1>1, SMTT(30)
<1>3. DOMAIN headers = 1 .. g
  BY <1>0 DEF ImplicitInv, Indexed, IndexOK
<1>4. c \in Nat \ {0, 1} /\ h.tail \in Int /\ DOMAIN h = {"capacity", "tail", "index"}
  BY <1>0, <1>1 DEF HeaderOK
<1>5. hs2 = [headers EXCEPT ![g] = new]
  BY <1>0 DEF Rewound, blockIndex
<1>6. DOMAIN hs2 = 1 .. g /\ hs2[g] = new /\ \A i \in 1 .. g : i # g => hs2[i] = headers[i]
  BY <1>1, <1>3, <1>5
<1>7. Len(hs2) = g
  BY <1>1, <1>6
<1>8. h2 = new
  BY <1>6, <1>7
<1>9. SameHeaders(headers, hs2, h2)
  BY <1>0, <1>6, <1>7, <1>8 DEF SameHeaders
<1>10. h2.capacity = c /\ h2.index = h.index /\ h2.tail = (h.tail - n) % c /\ DOMAIN h2 = {"capacity", "tail", "index"}
  BY <1>0, <1>4, <1>8
<1>11. Moved(h, top, h2, t)
  <2>1. h.tail + (t - top) = h.tail - n
    BY <1>1, <1>4, SMTT(30)
  <2> QED BY <1>0, <1>10, <2>1 DEF Moved
<1>12. HeaderOK(h2, Len(entries))
  <2>1. PICK a : a = h.tail - n
    OBVIOUS
  <2>2. a \in Int /\ c \in Nat \ {0}
    BY <1>2, <1>4, <2>1
  <2>3. a % c \in 0 .. c - 1
    BY <2>2, DivMod
  <2> QED BY <1>0, <1>1, <1>10, <2>1, <2>3 DEF HeaderOK
<1>14. PICK undone : undone = UndoneEntries(h, n)
  OBVIOUS
<1>15. ASSUME NEW f PROVE f \in undone <=> Adds(h, top, t, f)
  BY <1>2, <1>4, <1>14, UndoneAre
<1>16. es2 = [e \in DOMAIN entries |->
                IF e \in undone THEN [entries[e] EXCEPT !.value = NoBlock] ELSE entries[e]]
  BY <1>0, <1>14 DEF Rewound, blockIndex, UndoneEntries
<1>17. DOMAIN entries = 1 .. Len(entries) /\ \A f \in 1 .. Len(entries) : entries[f] \in Entry
  BY <1>1
<1>18. \A f \in 1 .. Len(entries) : es2[f] = IF f \in undone THEN [entries[f] EXCEPT !.value = NoBlock] ELSE entries[f]
  BY <1>16, <1>17
<1>19. \A f \in 1 .. Len(entries) :
         /\ es2[f] \in Entry /\ es2[f].key = entries[f].key
         /\ f \in undone => es2[f].value = NoBlock
         /\ f \notin undone => es2[f] = entries[f]
  <2> SUFFICES ASSUME NEW f \in 1 .. Len(entries)
               PROVE  /\ es2[f] \in Entry /\ es2[f].key = entries[f].key
                      /\ f \in undone => es2[f].value = NoBlock
                      /\ f \notin undone => es2[f] = entries[f]
    OBVIOUS
  <2>1. CASE f \in undone
    <3>1. PICK r : r = [entries[f] EXCEPT !.value = NoBlock]
      OBVIOUS
    <3>2. r \in Entry /\ r.key = entries[f].key /\ r.value = NoBlock
      BY <1>17, <3>1 DEF Entry
    <3> QED BY <1>18, <2>1, <3>1, <3>2
  <2>2. CASE f \notin undone
    BY <1>17, <1>18, <2>2
  <2> QED BY <2>1, <2>2
<1>20. es2 \in Seq(Entry) /\ Len(es2) = Len(entries)
  <2>1. es2 \in [1 .. Len(entries) -> Entry]
    BY <1>16, <1>17, <1>19
  <2>2. PICK l \in Nat : l = Len(entries)
    BY <1>1
  <2>3. es2 \in [1 .. l -> Entry]
    BY <2>1, <2>2
  <2>4. es2 \in Seq(Entry) /\ Len(es2) = l
    BY <2>3
  <2> QED BY <2>2, <2>4
<1>21. Cleared(entries, es2, h, top, t)
  BY <1>15, <1>19, <1>20 DEF Cleared, Adds
<1> QED BY <1>9, <1>11, <1>12, <1>21

(* The place of a block among those of a call.                             *)
LEMMA Distance ==
  ASSUME NEW t \in Int, NEW l \in Nat, NEW given \in Int, given = t + l,
         NEW m \in Int, t < m, m <= given, NEW j, j = m - t
  PROVE  j \in 1 .. l /\ t + j = m
OBVIOUS

(* A call gives back all its entries and blocks.                           *)
LEMMA UndoStep ==
  ASSUME ImplicitInv, ReserveInv, producer.pc # "idle", NEW top, top = Top(tailIndex, producer),
         NEW h, h = headers[Len(headers)], NEW t, t = Num(tailIndex - 1), NEW es2, NEW hs2, NEW h2,
         Cleared(entries, es2, h, top, t), SameHeaders(headers, hs2, h2),
         Moved(h, top, h2, t), HeaderOK(h2, Len(entries)),
         NEW free2, free2 = pool \union {producer.chain[i] : i \in DOMAIN producer.chain}
  PROVE  Indexed(tailIndex, headIndex, Idle, consumer, tailBlock, hs2, es2,
                 elementsCompletelyDequeued, elements, free2)
<1>0. PICK given, g, l : given = Given(tailIndex, producer) /\ g = Len(headers) /\ l = Len(producer.chain)
  OBVIOUS
<1>b. Indexed(tailIndex, headIndex, producer, consumer, tailBlock, headers, entries,
              elementsCompletelyDequeued, elements, pool)
  BY DEF ImplicitInv
<1>1. headIndex \in Nat /\ tailIndex \in Nat /\ headIndex <= tailIndex
  BY Now
<1>2. /\ top \in Int /\ given \in Int /\ t \in Int /\ t <= given /\ given <= top
      /\ Len(entries) \in Nat /\ HeaderOK(h, Len(entries)) /\ g \in Nat \ {0}
      /\ AllLiveOK(top, given, headIndex, consumer, h, entries, elementsCompletelyDequeued)
  BY <1>0, IndexNow
<1>t. t <= top
  BY <1>2
<1>3. OwnersOK(pool, entries, consumer) /\ ImplicitCallOK(producer, tailIndex)
      /\ ProducerKnows(tailIndex, producer, tailBlock, h, entries)
  BY <1>b DEF Indexed, IndexOK
<1>4. producer.chain \in Seq(Blocks) /\ l \in Nat /\ DOMAIN producer.chain = 1 .. l
      /\ ChainOf(producer) = producer.chain /\ given = t + l
  <2>1. producer.chain \in Seq(Blocks) /\ ChainOf(producer) = producer.chain
    BY <1>3 DEF ImplicitCallOK, ChainOf
  <2> QED BY <1>0, <2>1 DEF Given
<1>5. ChainOf(Idle) = <<>> /\ Given(tailIndex, Idle) = t /\ Top(tailIndex, Idle) = t
  <2>1. Idle.pc = "idle"
    BY DEF Idle
  <2>2. ChainOf(Idle) = <<>>
    BY <2>1 DEF ChainOf
  <2>3. Given(tailIndex, Idle) = t
    BY <1>2, <2>2 DEF Given
  <2> QED BY <2>1, <2>2, <2>3 DEF Top
<1>6. \A m \in Int : Home(h2, t, m) = Home(h, top, m) /\ Home(h, top, m) \in 1 .. Len(entries)
  <2> SUFFICES ASSUME NEW m \in Int
               PROVE  Home(h2, t, m) = Home(h, top, m) /\ Home(h, top, m) \in 1 .. Len(entries)
    OBVIOUS
  <2>0. m \in Int
    OBVIOUS
  <2>1. Home(h2, t, m) = Home(h, top, m)
    BY <1>2, <2>0, HomeMoves
  <2>2. Home(h, top, m) \in 1 .. Len(entries)
    BY <1>2, <2>0, HomeIn
  <2> QED BY <2>1, <2>2
<1>7. ASSUME NEW m \in t + 1 .. top PROVE m \in Nat /\ m \in Int /\ Live(m, top, headIndex, consumer)
  <2>1. m \in Int /\ t < m /\ m <= top
    BY <1>2
  <2> QED BY <1>1, <1>2, <2>1, LaterLive
<1>8. \A m \in Nat : Live(m, t, headIndex, consumer) <=> Live(m, top, headIndex, consumer) /\ m <= t
  <2> SUFFICES ASSUME NEW m \in Nat
               PROVE  Live(m, t, headIndex, consumer) <=> Live(m, top, headIndex, consumer) /\ m <= t
    OBVIOUS
  <2>1. m \in 0 .. t <=> m \in 0 .. top /\ m <= t
    BY <1>2
  <2> QED BY <2>1 DEF Live
<1>9. ASSUME NEW m \in Nat, Live(m, top, headIndex, consumer), m <= t
      PROVE  m \in Int /\ es2[Home(h, top, m)] = entries[Home(h, top, m)] /\ Home(h2, t, m) = Home(h, top, m)
  <2>1. m \in Int
    OBVIOUS
  <2>2. \A q \in t + 1 .. top : Home(h, top, q) # Home(h, top, m)
    <3> SUFFICES ASSUME NEW q \in t + 1 .. top, Home(h, top, q) = Home(h, top, m) PROVE FALSE
      OBVIOUS
    <3>1. q = m
      BY <1>2, <1>7, <1>9, TwoLive
    <3>2. q > t
      BY <1>2
    <3> QED BY <1>2, <1>9, <3>1, <3>2
  <2> QED BY <1>6, <2>1, <2>2 DEF Cleared
<1>10. /\ es2 \in Seq(Entry) /\ Len(es2) = Len(entries)
       /\ \A f \in 1 .. Len(entries) : es2[f].key = entries[f].key
       /\ \A f \in 1 .. Len(entries) : es2[f].value # NoBlock =>
            es2[f] = entries[f] /\ \A m \in t + 1 .. top : Home(h, top, m) # f
       /\ \A f \in 1 .. Len(entries) : (\A m \in t + 1 .. top : Home(h, top, m) # f) => es2[f] = entries[f]
       /\ \A m \in t + 1 .. top : Home(h, top, m) \in 1 .. Len(entries) => es2[Home(h, top, m)].value = NoBlock
  BY DEF Cleared
<1>11. DOMAIN hs2 = 1 .. g /\ Len(hs2) = g /\ hs2[g] = h2 /\ \A i \in 1 .. g : i # g => hs2[i] = headers[i]
  BY <1>0 DEF SameHeaders
<1>12. h2.capacity = h.capacity /\ h2.index = h.index
  BY DEF Moved
<1>13. IndexOK(tailIndex, Idle, hs2, es2, elementsCompletelyDequeued, elements)
  <2>1. ImplicitCallOK(Idle, tailIndex)
    BY DEF ImplicitCallOK, Idle
  <2>2. \A i \in 1 .. g : HeaderOK(headers[i], Len(entries))
    BY <1>0, <1>b DEF Indexed, IndexOK
  <2>3. \A i \in 1 .. g : HeaderOK(hs2[i], Len(es2))
    BY <1>10, <1>11, <2>2
  <2> QED BY <1>b, <1>2, <1>10, <1>11, <2>1, <2>3 DEF Indexed, IndexOK
<1>14. AllLiveOK(t, t, headIndex, consumer, h2, es2, elementsCompletelyDequeued)
  <2> SUFFICES ASSUME NEW m \in Nat, Live(m, t, headIndex, consumer)
               PROVE  LiveOK(m, t, t, headIndex, consumer, h2, es2, elementsCompletelyDequeued)
    BY DEF AllLiveOK, LiveOK
  <2>1. Live(m, top, headIndex, consumer) /\ m <= t
    BY <1>8
  <2>2. LiveOK(m, top, given, headIndex, consumer, h, entries, elementsCompletelyDequeued)
    BY <1>2 DEF AllLiveOK
  <2>3. t - m < h2.capacity
    <3>1. top - m < h.capacity /\ h.capacity \in Nat
      BY <1>2, <2>1, <2>2 DEF LiveOK, HeaderOK
    <3> QED BY <1>2, <1>t, <1>12, <3>1
  <2>4. ASSUME NEW q \in m .. t PROVE es2[Home(h2, t, q)].key = BLOCK_SIZE * q
    <3>1. q \in Int /\ q \in m .. top
      BY <1>2, <1>t
    <3>2. entries[Home(h, top, q)].key = BLOCK_SIZE * q
      BY <2>1, <2>2, <3>1 DEF LiveOK
    <3>3. Home(h2, t, q) = Home(h, top, q) /\ Home(h, top, q) \in 1 .. Len(entries)
      BY <1>6, <3>1
    <3>4. es2[Home(h, top, q)].key = entries[Home(h, top, q)].key
      BY <1>10, <3>3
    <3> QED BY <3>2, <3>3, <3>4
  <2>5. es2[Home(h2, t, m)] = entries[Home(h, top, m)]
    BY <1>9, <2>1
  <2>6. m <= given /\ ~(m > t)
    BY <1>2, <2>1
  <2>7. entries[Home(h, top, m)].value \in Blocks
        /\ elementsCompletelyDequeued[entries[Home(h, top, m)].value]
             = BLOCK_SIZE - Cardinality(Undone(m, headIndex, consumer))
    BY <2>1, <2>2, <2>6 DEF LiveOK
  <2> QED BY <2>3, <2>4, <2>5, <2>6, <2>7 DEF LiveOK
<1>15. AllOnlyLive(t, t, headIndex, consumer, h2, es2)
  <2> SUFFICES ASSUME NEW f \in 1 .. Len(entries), es2[f].value # NoBlock
               PROVE  \E m \in 0 .. t : Live(m, t, headIndex, consumer) /\ Home(h2, t, m) = f
    BY <1>10 DEF AllOnlyLive, OnlyLive
  <2>1. entries[f].value # NoBlock /\ \A m \in t + 1 .. top : Home(h, top, m) # f
    BY <1>10
  <2>2. OnlyLive(f, top, given, headIndex, consumer, h, entries)
    BY <1>0, <1>b DEF Indexed, AllOnlyLive
  <2>3. PICK m \in 0 .. given : Live(m, top, headIndex, consumer) /\ Home(h, top, m) = f
    BY <2>1, <2>2 DEF OnlyLive
  <2>4. m \in Nat /\ m \in Int /\ m <= top
    BY <1>2, <2>3
  <2>5. m <= t
    <3> SUFFICES ASSUME ~(m <= t) PROVE FALSE
      OBVIOUS
    <3>1. m \in t + 1 .. top
      BY <1>2, <2>4
    <3> QED BY <2>1, <2>3, <3>1
  <2>6. m \in 0 .. t
    BY <1>2, <2>4, <2>5
  <2> QED BY <1>6, <1>8, <2>3, <2>4, <2>5, <2>6
<1>16. ASSUME NEW j \in 1 .. l
       PROVE  /\ t + j \in t + 1 .. top /\ Home(h, top, t + j) \in 1 .. Len(entries)
              /\ producer.chain[j] = entries[Home(h, top, t + j)].value
              /\ producer.chain[j] \in Blocks
  <2>1. PICK m : m = t + j
    OBVIOUS
  <2>2. m \in t + 1 .. top /\ m \in Int
    BY <1>2, <1>4, <2>1
  <2>3. producer.chain[j] = entries[Home(h, top, t + j)].value
    BY <1>0, <1>3, <1>4 DEF ProducerKnows
  <2>4. producer.chain[j] \in Blocks
    BY <1>4
  <2> QED BY <1>6, <2>1, <2>2, <2>3, <2>4
<1>17. \A b : b \in free2 <=> b \in pool \/ \E j \in 1 .. l : b = producer.chain[j]
  BY <1>4
<1>18. OwnersOK(free2, es2, consumer)
  <2>1. free2 \subseteq Blocks
    BY <1>3, <1>16, <1>17 DEF OwnersOK
  <2>2. \A e, f \in 1 .. Len(es2) : e # f /\ es2[e].value = es2[f].value => es2[e].value = NoBlock
    <3> SUFFICES ASSUME NEW e \in 1 .. Len(es2), NEW f \in 1 .. Len(es2), e # f,
                        es2[e].value = es2[f].value, es2[e].value # NoBlock
                 PROVE  FALSE
      OBVIOUS
    <3>1. e \in 1 .. Len(entries) /\ f \in 1 .. Len(entries) /\ es2[e] = entries[e] /\ es2[f] = entries[f]
      BY <1>10
    <3> QED BY <1>3, <3>1 DEF OwnersOK
  <2>3. \A f \in 1 .. Len(es2) : es2[f].value \notin free2
    <3> SUFFICES ASSUME NEW f \in 1 .. Len(es2), es2[f].value \in free2 PROVE FALSE
      OBVIOUS
    <3>1. es2[f].value \in Blocks /\ es2[f].value # NoBlock
      BY <2>1, NoBlockAssumption
    <3>2. f \in 1 .. Len(entries) /\ es2[f] = entries[f] /\ \A m \in t + 1 .. top : Home(h, top, m) # f
      BY <1>10, <3>1
    <3>3. entries[f].value \notin pool
      BY <1>3, <3>2 DEF OwnersOK
    <3>4. PICK j \in 1 .. l : entries[f].value = producer.chain[j]
      BY <1>17, <3>2, <3>3
    <3>5. f = Home(h, top, t + j)
      BY <1>3, <1>16, <3>1, <3>2, <3>4, OneEntry
    <3> QED BY <1>16, <3>2, <3>5
  <2>4. \A f \in 1 .. Len(es2), d \in Consumers : es2[f].value \in Blocks => ~Releases(consumer[d], es2[f].value)
    <3> SUFFICES ASSUME NEW f \in 1 .. Len(es2), NEW d \in Consumers, es2[f].value \in Blocks
                 PROVE  ~Releases(consumer[d], es2[f].value)
      OBVIOUS
    <3>1. f \in 1 .. Len(entries) /\ es2[f] = entries[f]
      BY <1>10, NoBlockAssumption
    <3> QED BY <1>3, <3>1 DEF OwnersOK
  <2>5. \A b \in free2, d \in Consumers : ~Releases(consumer[d], b)
    <3> SUFFICES ASSUME NEW b \in free2, NEW d \in Consumers, b \notin pool PROVE ~Releases(consumer[d], b)
      BY <1>3 DEF OwnersOK
    <3>1. PICK j \in 1 .. l : b = producer.chain[j]
      BY <1>17
    <3>2. PICK e : e = Home(h, top, t + j)
      OBVIOUS
    <3>3. e \in 1 .. Len(entries) /\ b = entries[e].value /\ b \in Blocks
      BY <1>16, <3>1, <3>2
    <3> QED BY <1>3, <3>3 DEF OwnersOK
  <2>6. \A b \in Blocks : \/ b \in free2
                          \/ \E f \in 1 .. Len(es2) : es2[f].value = b
                          \/ \E d \in Consumers : Releases(consumer[d], b)
    <3> SUFFICES ASSUME NEW b \in Blocks, b \notin pool, \A d \in Consumers : ~Releases(consumer[d], b)
                 PROVE  b \in free2 \/ \E f \in 1 .. Len(es2) : es2[f].value = b
      BY <1>17
    <3>1. PICK f \in 1 .. Len(entries) : entries[f].value = b
      BY <1>3 DEF OwnersOK
    <3>2. CASE \A m \in t + 1 .. top : Home(h, top, m) # f
      BY <1>10, <3>1, <3>2
    <3>3. CASE \E m \in t + 1 .. top : Home(h, top, m) = f
      <4>1. PICK m \in t + 1 .. top : Home(h, top, m) = f
        BY <3>3
      <4>2. m \in Nat /\ Live(m, top, headIndex, consumer)
        BY <1>7
      <4>3. LiveOK(m, top, given, headIndex, consumer, h, entries, elementsCompletelyDequeued)
        BY <1>2, <4>2 DEF AllLiveOK
      <4>4. ~(m > given)
        BY <3>1, <4>1, <4>2, <4>3, NoBlockAssumption DEF LiveOK
      <4>5. PICK j : j = m - t
        OBVIOUS
      <4>6. j \in 1 .. l /\ t + j = m
        <5>1. t \in Int /\ l \in Nat /\ given \in Int /\ m \in Int /\ given = t + l
          BY <1>2, <1>4, <4>2
        <5>2. t < m /\ m <= given
          <6>1. t < m
            BY <1>2
          <6> QED BY <4>4, <5>1, <6>1
        <5> QED BY <4>5, <5>1, <5>2, Distance
      <4>7. producer.chain[j] = b
        BY <1>16, <3>1, <4>1, <4>6
      <4> QED BY <1>17, <4>6, <4>7
    <3> QED BY <3>2, <3>3
  <2> QED BY <1>3, <2>1, <2>2, <2>3, <2>4, <2>5, <2>6 DEF OwnersOK
<1>19. ProducerKnows(tailIndex, Idle, tailBlock, h2, es2)
  <2>1. Len(ChainOf(Idle)) = 0
    BY <1>5
  <2>2. ASSUME tailIndex % BLOCK_SIZE # 0 PROVE tailBlock = es2[Home(h2, t, t)].value
    <3>1. Num(tailIndex - 1) <= top /\ t <= t
      BY <1>2, <1>t
    <3>2. t \in Nat /\ Live(t, top, headIndex, consumer)
      BY <1>1, <1>2, <2>2, <3>1, TailLive
    <3>3. es2[Home(h2, t, t)] = entries[Home(h, top, t)]
      BY <1>9, <3>1, <3>2
    <3> QED BY <1>3, <2>2, <3>3 DEF ProducerKnows
  <2> QED BY <1>5, <2>1, <2>2 DEF ProducerKnows
<1>20. ElementsOK(tailIndex, t, headIndex, consumer, h2, es2, elements)
  <2> SUFFICES ASSUME NEW i \in 0 .. tailIndex - 1, ToRead(i, headIndex, consumer)
               PROVE  elements[es2[Home(h2, t, Num(i))].value][i % BLOCK_SIZE] = i
    BY DEF ElementsOK
  <2>1. Num(i) \in Nat /\ Num(i) <= t /\ Live(Num(i), top, headIndex, consumer)
    BY ToReadLive
  <2>2. es2[Home(h2, t, Num(i))] = entries[Home(h, top, Num(i))]
    BY <1>9, <2>1
  <2> QED BY <1>b, <2>2 DEF Indexed, ElementsOK
<1>21. AllReaders(t, headIndex, consumer, hs2, es2)
  <2> SUFFICES ASSUME NEW d \in Consumers
               PROVE  ReaderOK(consumer[d], headIndex) /\ FinderOK(consumer[d], t, hs2, es2)
    BY DEF AllReaders
  <2>1. ReaderOK(consumer[d], headIndex) /\ FinderOK(consumer[d], top, headers, entries)
    BY <1>b DEF Indexed, AllReaders
  <2>2. PICK k : k = consumer[d]
    OBVIOUS
  <2>3. ASSUME k.pc = "find", NEW p \in Nat, FindOK(k, top, headers, entries, p)
        PROVE  FindOK(k, t, hs2, es2, p)
    <3>1. PICK y : y = headers[k.hdr].index[k.pos]
      OBVIOUS
    <3>2. /\ y = Home(h, top, p) /\ k.hdr \in 1 .. g
          /\ Num(k.index) \in Nat /\ Num(k.last - 1) \in Int
      BY <1>0, <2>2, <2>3, <3>1, StartsAt
    <3>3. p \in Int
      OBVIOUS
    <3>4. hs2[k.hdr].index = headers[k.hdr].index /\ hs2[k.hdr].capacity = headers[k.hdr].capacity
      BY <1>0, <1>11, <1>12, <3>2
    <3>5. es2[hs2[k.hdr].index[k.pos]].key = BLOCK_SIZE * p
      <4>1. y \in 1 .. Len(entries)
        BY <1>6, <3>2, <3>3
      <4>2. entries[y].key = BLOCK_SIZE * p
        BY <2>3, <3>1 DEF FindOK
      <4>3. es2[y].key = entries[y].key
        BY <1>10, <4>1
      <4>4. hs2[k.hdr].index[k.pos] = y
        BY <3>1, <3>4
      <4> QED BY <4>2, <4>3, <4>4
    <3>6. Num(k.last - 1) <= p /\ p - Num(k.index) < hs2[Len(hs2)].capacity
      BY <1>11, <1>12, <2>3 DEF FindOK
    <3>7. ASSUME NEW m \in (Num(k.index) .. Num(k.last - 1)) \union {p} PROVE Finds(k, hs2, t, p, m)
      <4>1. Finds(k, headers, top, p, m) /\ m \in Int
        BY <2>3, <3>2, <3>7 DEF FindOK
      <4> QED BY <1>6, <1>11, <3>4, <4>1 DEF Finds, SlotOf
    <3>8. ASSUME NEW m \in t + 1 .. p PROVE es2[Home(hs2[Len(hs2)], t, m)].value = NoBlock
      <4>1. m \in Int /\ Home(hs2[Len(hs2)], t, m) = Home(h, top, m) /\ Home(h, top, m) \in 1 .. Len(entries)
        BY <1>2, <1>6, <1>11, <3>8
      <4>2. CASE m <= top
        <5>1. m \in t + 1 .. top
          BY <1>2, <4>1, <4>2
        <5> QED BY <1>10, <4>1, <5>1
      <4>3. CASE m > top
        <5>1. m \in top + 1 .. p
          BY <1>2, <4>1, <4>3
        <5>2. entries[Home(h, top, m)].value = NoBlock
          BY <2>3, <5>1 DEF FindOK
        <5> QED BY <1>10, <4>1, <5>2
      <4> QED BY <1>2, <4>1, <4>2, <4>3
    <3> QED BY <3>5, <3>6, <3>7, <3>8 DEF FindOK
  <2>4. ASSUME k.pc \in Reading
        PROVE  /\ Num(k.index) \in Nat /\ Num(k.last - 1) \in Int /\ Num(k.index) <= t
               /\ k.pc # "release" => Live(Num(k.index), top, headIndex, consumer)
    <3>1. /\ Num(k.index) \in Nat /\ Num(k.last - 1) \in Int
          /\ Num(k.index) <= Num(k.last - 1) /\ Num(k.last - 1) <= Num(tailIndex - 1)
          /\ k.pc # "release" => Live(Num(k.index), top, headIndex, consumer)
      BY <2>2, <2>4, ReaderNow
    <3> QED BY <1>2, <3>1
  <2>5. ASSUME k.pc \in {"empty", "clear"}
        PROVE  es2[Home(h2, t, Num(k.index))].value = entries[Home(h, top, Num(k.index))].value
    <3>1. Num(k.index) \in Nat /\ Num(k.index) <= t /\ Live(Num(k.index), top, headIndex, consumer)
      BY <2>4, <2>5 DEF Reading
    <3> QED BY <1>9, <3>1
  <2>6. ASSUME k.pc \in Reading
        PROVE  /\ \A m \in Num(k.index) .. Num(k.last - 1) : Home(h2, t, m) = Home(h, top, m)
               /\ \A m \in Num(k.index) + 1 .. Num(k.last - 1) : Home(h2, t, m) = Home(h, top, m)
    <3>1. Num(k.index) \in Int /\ Num(k.last - 1) \in Int
      BY <2>4, <2>6
    <3>2. PICK a \in Int, b \in Int : a = Num(k.index) /\ b = Num(k.last - 1)
      BY <3>1
    <3>3. \A m \in a .. b : m \in Int
      BY <3>2
    <3>4. \A m \in a + 1 .. b : m \in Int
      BY <3>2
    <3>5. \A m \in Int : Home(h2, t, m) = Home(h, top, m)
      BY <1>6
    <3>6. \A m \in a .. b : Home(h2, t, m) = Home(h, top, m)
      BY <3>3, <3>5
    <3>7. \A m \in a + 1 .. b : Home(h2, t, m) = Home(h, top, m)
      BY <3>4, <3>5
    <3> QED BY <3>2, <3>6, <3>7
  <2>7. Len(headers) \in Nat /\ Len(hs2) \in Nat /\ Len(headers) <= Len(hs2) /\ h2 = hs2[Len(hs2)]
        /\ \A i \in 1 .. Len(headers) : hs2[i].capacity = headers[i].capacity /\ hs2[i].index = headers[i].index
    BY <1>0, <1>2, <1>11, <1>12
  <2>8. k.pc \in {"read", "empty", "clear", "release"} => k.pc \in Reading
    BY DEF Reading
  <2>9. FinderOK(k, t, hs2, es2)
    BY <2>1, <2>2, <2>3, <2>5, <2>6, <2>7, <2>8, FinderMoves
  <2> QED BY <2>1, <2>2, <2>9
<1>22. h2 = hs2[Len(hs2)]
  BY <1>11
<1> QED BY <1>b, <1>5, <1>13, <1>14, <1>15, <1>18, <1>19, <1>20, <1>21, <1>22 DEF Indexed

(* A call that fails gives everything back, whether it has no entry, no    *)
(* block, or no element.                                                   *)
LEMMA UndoKeepsIndex ==
  ASSUME ImplicitInv, ReserveInv, ImplicitNoEntry \/ ImplicitUndo
  PROVE  ImplicitInv'
<1>0. PICK top, h, t, n, es2, hs2, h2, free2 :
        /\ top = Top(tailIndex, producer) /\ h = headers[Len(headers)] /\ t = Num(tailIndex - 1)
        /\ n = top - t /\ es2 = entries' /\ hs2 = headers' /\ h2 = hs2[Len(hs2)] /\ free2 = pool'
  OBVIOUS
<1>1. producer.pc # "idle" /\ producer' = Idle
      /\ free2 = pool \union {producer.chain[i] : i \in DOMAIN producer.chain}
      /\ UNCHANGED <<indexVars, tailBlock, elements, elementsCompletelyDequeued, consumer>>
  BY <1>0 DEF ImplicitNoEntry, ImplicitUndo
<1>2. ImplicitCallOK(producer, tailIndex) /\ tailIndex \in Nat
  BY DEF ImplicitInv, Indexed, IndexOK
<1>3. Len(producer.chain) \in Nat /\ ChainOf(producer) = producer.chain
  <2>1. producer.chain \in Seq(Blocks)
    BY <1>1, <1>2 DEF ImplicitCallOK
  <2> QED BY <1>1, <2>1 DEF ChainOf
<1>4. t \in Int
  <2>1. tailIndex - 1 \in Int
    BY <1>2
  <2> QED BY <1>0, <2>1, NumIs
<1>5. n = (IF producer.pc = "block" THEN Len(producer.chain) + 1 ELSE Len(producer.chain))
  BY <1>0, <1>3, <1>4 DEF Top, Given
<1>6. Rewound(n)
  BY <1>5 DEF ImplicitNoEntry, ImplicitUndo
<1>7. /\ Cleared(entries, es2, h, top, t) /\ SameHeaders(headers, hs2, h2)
      /\ Moved(h, top, h2, t) /\ HeaderOK(h2, Len(entries))
  BY <1>0, <1>6, RewoundIs
<1>8. Indexed(tailIndex, headIndex, Idle, consumer, tailBlock, hs2, es2,
              elementsCompletelyDequeued, elements, free2)
  BY <1>0, <1>1, <1>7, UndoStep
<1> QED BY <1>0, <1>1, <1>8 DEF ImplicitInv, indexVars
-----------------------------------------------------------------------------
(* At the start the index has no block and all blocks are in the pool.     *)
LEMMA FirstHeader ==
  ASSUME NEW h, NEW c \in Nat \ {0, 1},
         h = [capacity |-> c, tail |-> c - 1, index |-> [i \in 0 .. c - 1 |-> i + 1]]
  PROVE  HeaderOK(h, c)
<1>1. PICK f : f = [i \in 0 .. c - 1 |-> i + 1]
  OBVIOUS
<1>2. h.capacity = c /\ h.tail = c - 1 /\ h.index = f /\ DOMAIN h = {"capacity", "tail", "index"}
  BY <1>1
<1>3. f \in [0 .. c - 1 -> 1 .. c] /\ \A i, j \in 0 .. c - 1 : i # j => f[i] # f[j]
  BY <1>1
<1>4. c - 1 \in 0 .. c - 1
  OBVIOUS
<1> QED BY <1>2, <1>3, <1>4 DEF HeaderOK

(* The invariant holds at the start: nothing is live.                      *)
LEMMA ImplicitInitially ==
  ASSUME Init PROVE ImplicitInv
<1>0. PICK c, h, es, ecd, els, cs : c = IMPLICIT_INITIAL_INDEX_SIZE /\ h = headers[Len(headers)] /\ es = entries
        /\ ecd = elementsCompletelyDequeued /\ els = elements /\ cs = consumer
  OBVIOUS
<1>1. /\ tailIndex = 0 /\ headIndex = 0 /\ pool = Blocks /\ producer = Idle
      /\ cs = [d \in Consumers |-> Idle] /\ els = [b \in Blocks |-> [s \in Slots |-> Empty]]
      /\ ecd = [b \in Blocks |-> 0]
      /\ es = [e \in 1 .. c |-> [key |-> INVALID_BLOCK_BASE, value |-> NoBlock]]
      /\ headers = << [capacity |-> c, tail |-> c - 1, index |-> [i \in 0 .. c - 1 |-> i + 1]] >>
  BY <1>0 DEF Init, ProducerBaseInit, ImplicitInit
<1>2. c \in Nat \ {0, 1} /\ Idle.pc = "idle"
  BY <1>0, ImplicitIndexAssumption DEF Idle
<1>3. Len(headers) = 1 /\ DOMAIN headers = 1 .. 1 /\ h = [capacity |-> c, tail |-> c - 1, index |-> [i \in 0 .. c - 1 |-> i + 1]]
  BY <1>0, <1>1
<1>4. HeaderOK(h, c)
  BY <1>2, <1>3, FirstHeader
<1>5. es \in [1 .. c -> Entry] /\ \A e \in 1 .. c : es[e].value = NoBlock
  BY <1>1 DEF Entry, INVALID_BLOCK_BASE
<1>6. es \in Seq(Entry) /\ Len(es) = c
  BY <1>2, <1>5
<1>7. \A d \in Consumers : cs[d] = Idle /\ cs[d].pc = "idle"
  BY <1>1, <1>2
<1>8. Top(0, Idle) = -1 /\ Given(0, Idle) = -1 /\ Len(ChainOf(Idle)) = 0 /\ 0 % BLOCK_SIZE = 0
  <2>1. PICK z \in Int, u \in Int, v \in Int : z = 0 /\ u = 0 - 1 /\ v = -1
    OBVIOUS
  <2>2. BLOCK_SIZE * v = 0 - BLOCK_SIZE /\ BLOCK_SIZE \in Nat \ {0}
    BY <2>1, BlockSize
  <2>3. PICK x : x = BLOCK_SIZE * v
    OBVIOUS
  <2>4. x <= u /\ u < x + BLOCK_SIZE
    BY <2>1, <2>2, <2>3
  <2>5. Num(u) = v
    BY <2>3, <2>4, NumUnique
  <2>6. ChainOf(Idle) = <<>>
    BY <1>2 DEF ChainOf
  <2>7. Given(0, Idle) = -1
    BY <2>1, <2>5, <2>6 DEF Given
  <2>8. 0 % BLOCK_SIZE = 0
    BY <2>2
  <2> QED BY <1>2, <2>6, <2>7, <2>8 DEF Top
<1>9. \A n : ~Live(n, -1, 0, cs)
  BY DEF Live
<1>10. IndexOK(0, Idle, headers, es, ecd, els)
  <2>1. ImplicitCallOK(Idle, 0)
    BY <1>2 DEF ImplicitCallOK
  <2>2. ecd \in [Blocks -> Nat] /\ els \in [Blocks -> [Slots -> Int]]
    BY <1>1 DEF Empty
  <2>3. \A g \in 1 .. Len(headers) : HeaderOK(headers[g], Len(es))
    BY <1>0, <1>3, <1>4, <1>6
  <2> QED BY <1>3, <1>6, <2>1, <2>2, <2>3 DEF IndexOK
<1>11. AllLiveOK(-1, -1, 0, cs, h, es, ecd)
  BY <1>9 DEF AllLiveOK, LiveOK
<1>12. AllOnlyLive(-1, -1, 0, cs, h, es)
  BY <1>5, <1>6 DEF AllOnlyLive, OnlyLive
<1>13. OwnersOK(Blocks, es, cs)
  BY <1>5, <1>6, <1>7, NoBlockAssumption DEF OwnersOK, Releases
<1>14. ProducerKnows(0, Idle, tailBlock, h, es)
  BY <1>8 DEF ProducerKnows
<1>15. ElementsOK(0, -1, 0, cs, h, es, els)
  BY DEF ElementsOK
<1>16. AllReaders(-1, 0, cs, headers, es)
  BY <1>7 DEF AllReaders, ReaderOK, FinderOK, Reading, Finding
<1>17. ClaimsOK(0, cs)
  BY <1>7 DEF ClaimsOK, Apart, Rest, Clears
<1>18. Indexed(0, 0, Idle, cs, tailBlock, headers, es, ecd, els, Blocks)
  BY <1>0, <1>8, <1>10, <1>11, <1>12, <1>13, <1>14, <1>15, <1>16, <1>17 DEF Indexed
<1> QED BY <1>0, <1>1, <1>18 DEF ImplicitInv

(* Every step of the producer and of a consumer keeps the invariant.       *)
LEMMA ImplicitProduceKeepsIndex ==
  ASSUME ImplicitInv, ReserveInv, ImplicitProduce
  PROVE  ImplicitInv'
BY EnqueueKeepsIndex, InsertKeepsIndex, UndoKeepsIndex, BlockKeepsIndex, FillKeepsIndex DEF ImplicitProduce

(* The same for a consumer.                                                *)
LEMMA ImplicitConsumeKeepsIndex ==
  ASSUME ImplicitInv, ReserveInv, NEW c \in Consumers, ImplicitConsume(c)
  PROVE  ImplicitInv'
<1>1. CASE (\E n \in Maxes : LoadTail(c, n)) /\ UNCHANGED implicitVars
  BY <1>1, ReserveStepsKeepIndex
<1>2. CASE ReserveSteps(c) /\ UNCHANGED implicitVars
  BY <1>2, ReserveStepsKeepIndex, ClaimKeepsIndex DEF ReserveSteps
<1>3. CASE ImplicitLocate(c) \/ ImplicitFind(c) \/ ImplicitRead(c)
  BY <1>3, LocateKeepsIndex, FindKeepsIndex, ReadKeepsIndex
<1>4. CASE ImplicitEmpty(c) \/ ImplicitClear(c) \/ ImplicitRelease(c)
  BY <1>4, EmptyKeepsIndex, ClearKeepsIndex, ReleaseKeepsIndex
<1> QED BY <1>1, <1>2, <1>3, <1>4 DEF ImplicitConsume

(* The same for any step of a sub-queue with an implicit producer.         *)
LEMMA ImplicitStepKeeps ==
  ASSUME ImplicitInv, ReserveInv, ~isExplicit, [Next]_vars
  PROVE  ImplicitInv'
<1>1. CASE Produce
  BY <1>1, ImplicitProduceKeepsIndex DEF Produce
<1>2. ASSUME NEW c \in Consumers, Consume(c) PROVE ImplicitInv'
  BY <1>2, ImplicitConsumeKeepsIndex DEF Consume
<1>3. CASE UNCHANGED vars
  BY <1>3 DEF vars, indexVars, blockVars, implicitVars, ImplicitInv
<1> QED BY <1>1, <1>2, <1>3 DEF Next

(* The inductive invariant of the implicit block index.                    *)
THEOREM ImplicitInvariant == Spec => [](~isExplicit => ImplicitInv)
<1>1. Init => (~isExplicit => ImplicitInv)
  BY ImplicitInitially
<1>2. ReserveInv /\ (~isExplicit => ImplicitInv) /\ [Next]_vars => (~isExplicit => ImplicitInv)'
  BY KindKept, ImplicitStepKeeps
<1> QED BY <1>1, <1>2, ReserveInvariant, PTL DEF Spec

(* From the owners of the blocks to their number.                          *)
LEMMA OwnedOnce ==
  ASSUME ImplicitInv, ~isExplicit PROVE BlocksOwnedOnce
<1>1. OwnersOK(pool, entries, consumer) /\ entries \in Seq(Entry)
  BY DEF ImplicitInv, Indexed, IndexOK
<1>2. DOMAIN entries = 1 .. Len(entries)
  BY <1>1
<1> SUFFICES ASSUME NEW b \in Blocks
             PROVE  Cardinality({e \in DOMAIN entries : entries[e].value = b})
                      + Cardinality({c \in Consumers : consumer[c].pc = "release" /\ consumer[c].block = b})
                    = IF b \in pool THEN 0 ELSE 1
  BY DEF BlocksOwnedOnce
<1>3. PICK In, Rel : In = {e \in DOMAIN entries : entries[e].value = b}
                     /\ Rel = {c \in Consumers : consumer[c].pc = "release" /\ consumer[c].block = b}
  OBVIOUS
<1>4. /\ \A e \in In : e \in 1 .. Len(entries) /\ entries[e].value = b
      /\ \A c \in Rel : c \in Consumers /\ Releases(consumer[c], b)
      /\ \A c \in Consumers : Releases(consumer[c], b) => c \in Rel
      /\ \A e \in 1 .. Len(entries) : entries[e].value = b => e \in In
  BY <1>2, <1>3 DEF Releases
<1>5. b # NoBlock
  BY NoBlockAssumption
<1>6. CASE b \in pool
  <2>1. In = {} /\ Rel = {}
    BY <1>1, <1>4, <1>6 DEF OwnersOK
  <2>2. Cardinality(In) = 0 /\ Cardinality(Rel) = 0
    BY <2>1, FS_EmptySet
  <2> QED BY <1>3, <1>6, <2>2
<1>7. CASE b \notin pool /\ In # {}
  <2>1. PICK e : e \in In
    BY <1>7
  <2>2. In = {e} /\ Rel = {}
    BY <1>1, <1>4, <1>5, <2>1 DEF OwnersOK
  <2>3. Cardinality(In) = 1 /\ Cardinality(Rel) = 0
    BY <2>2, FS_EmptySet, FS_Singleton
  <2> QED BY <1>3, <1>7, <2>3
<1>8. CASE b \notin pool /\ In = {}
  <2>1. PICK c : c \in Rel
    BY <1>1, <1>4, <1>8 DEF OwnersOK
  <2>2. Rel = {c}
    BY <1>1, <1>4, <2>1 DEF OwnersOK
  <2>3. Cardinality(In) = 0 /\ Cardinality(Rel) = 1
    BY <1>8, <2>2, FS_EmptySet, FS_Singleton
  <2> QED BY <1>3, <1>8, <2>3
<1> QED BY <1>6, <1>7, <1>8

(* No block of a sub-queue is lost and none has two owners, with failed    *)
(* calls, a larger index and consumers that go on with an old one          *)
(* (insert_block_index_entry, rewind_block_index_tail, set_many_empty).    *)
THEOREM BlocksAreOwnedOnce == Spec => []BlocksOwnedOnce
<1>1. (~isExplicit => ImplicitInv) /\ (isExplicit => BlocksOwnedOnce) => BlocksOwnedOnce
  BY OwnedOnce
<1> QED BY <1>1, ImplicitInvariant, RingKeepsItsBlocks, PTL

(* A block in an entry is live; with no call in progress this means that   *)
(* headIndex has not passed it.                                            *)
LEMMA ComesBack ==
  ASSUME ImplicitInv, ReserveInv PROVE EmptiedBlocksComeBack
<1> SUFFICES ASSUME \A c \in Consumers : consumer[c] = Idle,
                    NEW e \in DOMAIN entries, entries[e].value # NoBlock
             PROVE  headIndex < entries[e].key + BLOCK_SIZE
  BY DEF EmptiedBlocksComeBack
<1>0. PICK top, given, h : top = Top(tailIndex, producer) /\ given = Given(tailIndex, producer) /\ h = headers[Len(headers)]
  OBVIOUS
<1>1. /\ top \in Int /\ given \in Int /\ entries \in Seq(Entry) /\ headIndex \in Nat
      /\ AllLiveOK(top, given, headIndex, consumer, h, entries, elementsCompletelyDequeued)
      /\ AllOnlyLive(top, given, headIndex, consumer, h, entries)
  BY <1>0, IndexNow, Now DEF ImplicitInv, Indexed
<1>2. PICK n \in 0 .. given : Live(n, top, headIndex, consumer) /\ Home(h, top, n) = e
  BY <1>1 DEF AllOnlyLive, OnlyLive
<1>3. n \in Nat /\ n \in Int /\ n \in n .. top
  BY <1>1, <1>2 DEF Live
<1>4. entries[e].key = BLOCK_SIZE * n
  BY <1>1, <1>2, <1>3 DEF AllLiveOK, LiveOK
<1>5. \A c \in Consumers : consumer[c].pc = "idle"
  BY DEF Idle
<1>6. PICK i : i \in Undone(n, headIndex, consumer)
  BY <1>2, <1>5 DEF Live, Clears
<1>7. i \in Span(n) /\ i >= headIndex
  BY <1>5, <1>6 DEF Undone, Rest
<1>8. PICK x : x = BLOCK_SIZE * n
  OBVIOUS
<1>9. x \in Int /\ BLOCK_SIZE \in Nat
  BY <1>3, <1>8, BlockSize, StartOrder
<1>10. i \in Int /\ i < x + BLOCK_SIZE
  BY <1>7, <1>8, <1>9 DEF Span
<1>11. headIndex < x + BLOCK_SIZE
  BY <1>1, <1>7, <1>9, <1>10
<1> QED BY <1>4, <1>8, <1>11

(* Whichever consumers have emptied a block, and in whatever order, it has *)
(* left the block index once they are done (set_many_empty, and what       *)
(* dequeue and dequeue_bulk of ImplicitProducer do when it returns true).  *)
THEOREM EmptiedBlocksAreBack == Spec => []EmptiedBlocksComeBack
<1>1. ReserveInv /\ (~isExplicit => ImplicitInv) => EmptiedBlocksComeBack
  BY ComesBack DEF EmptiedBlocksComeBack
<1> QED BY <1>1, ImplicitInvariant, ReserveInvariant, PTL

(* The entry that a reading consumer has come to is the home of its block, *)
(* which holds the elements that are to be read.                           *)
LEMMA ReadsThem ==
  ASSUME ImplicitInv, ReserveInv, ~isExplicit PROVE ReadsItsElements
<1>0. PICK top, h : top = Top(tailIndex, producer) /\ h = headers[Len(headers)]
  OBVIOUS
<1> SUFFICES ASSUME NEW c \in Consumers, consumer[c].pc = "read"
             PROVE  LET k == consumer[c]
                        b == entries[ImplicitEntryOf(k)].value
                    IN /\ b # NoBlock
                       /\ \A i \in k.index .. End(k) - 1 : elements[b][i % BLOCK_SIZE] = i
  BY DEF ReadsItsElements
<1>1. PICK k, n, e, b : k = consumer[c] /\ n = Num(k.index) /\ e = Home(h, top, n) /\ b = entries[e].value
  OBVIOUS
<1>2. k.pc = "read" /\ k.pc \in {"read", "empty", "clear"} /\ k.pc \in Reading
  BY <1>1 DEF Reading
<1>3. ImplicitEntryOf(k) = e /\ b \in Blocks
  BY <1>0, <1>1, <1>2, BlockNow
<1>4. k.index \in Nat /\ k.last \in Nat /\ k.index < k.last /\ k.last <= headIndex
  BY <1>0, <1>1, <1>2, ReaderNow
<1>5. headIndex \in Nat /\ tailIndex \in Nat /\ headIndex <= tailIndex
  BY Now
<1>6. ElementsOK(tailIndex, top, headIndex, consumer, h, entries, elements)
  BY <1>0 DEF ImplicitInv, Indexed
<1>7. ASSUME NEW i \in k.index .. End(k) - 1 PROVE elements[b][i % BLOCK_SIZE] = i
  <2>1. End(k) \in Nat
    BY <1>4, EndIs
  <2>2. i \in Int
    BY <1>4, <2>1
  <2>3. k.index <= i /\ i < k.last /\ Num(i) = n
    BY <1>1, <1>4, <1>7, <2>2, EndIs
  <2>4. i \in 0 .. tailIndex - 1
    BY <1>4, <1>5, <2>2, <2>3
  <2>5. i \in Unread(k)
    BY <1>2, <1>4, <2>2, <2>3 DEF Unread
  <2>6. ToRead(i, headIndex, consumer)
    BY <1>1, <2>5 DEF ToRead
  <2> QED BY <1>1, <1>6, <2>3, <2>4, <2>6 DEF ElementsOK
<1> QED BY <1>1, <1>3, <1>7, NoBlockAssumption

(* A consumer of an implicit sub-queue reads its own elements, also when   *)
(* it has come to their block through an old header of the index, or from  *)
(* a tail entry that has since been taken back or used again (the          *)
(* assertion of get_block_index_index_for_index).                          *)
THEOREM ElementsAreFound == Spec => [](~isExplicit => ReadsItsElements)
<1>1. ReserveInv /\ (~isExplicit => ImplicitInv) => (~isExplicit => ReadsItsElements)
  BY ReadsThem
<1> QED BY <1>1, ImplicitInvariant, ReserveInvariant, PTL
-----------------------------------------------------------------------------
(* What a consumer has reserved is no more than it was asked for, and the  *)
(* producer enqueues as many elements as it was given.                     *)
Asked(k) ==
  /\ k.pc \in {"overcommit", "desire"} => k.max \in Maxes
  /\ k.pc \in {"reserve", "check"} => \E m \in Maxes : k.desired <= m
  /\ k.pc \in {"giveBack", "claim"} => \E m \in Maxes : k.actual <= m
AskedInv ==
  /\ \A c \in Consumers : Asked(consumer[c])
  /\ producer.pc # "idle" => producer.count \in Counts

(* A step of one consumer.                                                 *)
LEMMA AskedStep ==
  ASSUME AskedInv, ReserveInv, NEW c \in Consumers, NEW r, consumer' = [consumer EXCEPT ![c] = r], Asked(r),
         producer' = producer
  PROVE  AskedInv'
<1>1. DOMAIN consumer = Consumers
  BY DEF ReserveInv, CountersOK
<1>2. ASSUME NEW d \in Consumers PROVE Asked(consumer'[d])
  <2>1. CASE d = c
    BY <1>1, <2>1
  <2>2. CASE d # c
    <3>1. consumer'[d] = consumer[d]
      BY <1>1, <2>2
    <3> QED BY <3>1 DEF AskedInv
  <2> QED BY <2>1, <2>2
<1> QED BY <1>2 DEF AskedInv

(* A consumer reserves at most max elements, claims at most those.         *)
LEMMA ReserveStepsKeepAsked ==
  ASSUME AskedInv, ReserveInv, NEW c \in Consumers,
         (\E n \in Maxes : LoadTail(c, n)) \/ ReserveSteps(c)
  PROVE  AskedInv'
<1>0. PICK k : k = consumer[c]
  OBVIOUS
<1>1. /\ Asked(k) /\ ConsumerOK(k, dequeueOvercommit) /\ tailIndex \in Nat
      /\ dequeueOvercommit \in Nat /\ dequeueOptimisticCount \in Nat
  BY <1>0 DEF AskedInv, ReserveInv, CountersOK
<1>m. \A m \in Maxes : m \in Nat
  BY SizesAssumption
<1>2. ASSUME NEW n \in Maxes, LoadTail(c, n) PROVE AskedInv'
  <2>1. PICK r : r = [pc |-> "overcommit", tail |-> tailIndex, max |-> n]
    OBVIOUS
  <2>2. consumer' = [consumer EXCEPT ![c] = r] /\ producer' = producer
    BY <1>2, <2>1 DEF LoadTail
  <2>3. Asked(r)
    BY <2>1 DEF Asked
  <2> QED BY <2>2, <2>3, AskedStep
<1>3. CASE LoadOvercommit(c)
  <2>1. PICK r : r = [pc |-> "desire", tail |-> k.tail, max |-> k.max, overcommit |-> dequeueOvercommit]
    OBVIOUS
  <2>2. consumer' = [consumer EXCEPT ![c] = r] /\ producer' = producer /\ k.pc = "overcommit"
    BY <1>0, <1>3, <2>1 DEF LoadOvercommit, ReserveInv, CountersOK
  <2>3. Asked(r)
    BY <1>1, <2>1, <2>2 DEF Asked
  <2> QED BY <2>2, <2>3, AskedStep
<1>4. CASE Desire(c)
  <2>1. PICK a, d : a = k.tail - (dequeueOptimisticCount - k.overcommit) /\ d = (IF a < k.max THEN a ELSE k.max)
    OBVIOUS
  <2>2. PICK r : r = IF a > 0 THEN [pc |-> "reserve", overcommit |-> k.overcommit, desired |-> d] ELSE Idle
    OBVIOUS
  <2>3. consumer' = [consumer EXCEPT ![c] = r] /\ producer' = producer /\ k.pc = "desire"
    BY <1>0, <1>4, <2>1, <2>2 DEF Desire
  <2>4. k.max \in Maxes /\ d <= k.max
    <3>1. k.max \in Maxes
      BY <1>1, <2>3 DEF Asked
    <3>2. k.tail \in Nat /\ k.overcommit \in 0 .. dequeueOvercommit
      BY <1>1, <2>3 DEF ConsumerOK
    <3>3. PICK x \in Nat : x = k.max
      BY <1>m, <3>1
    <3>4. a \in Int
      BY <1>1, <2>1, <3>2
    <3>5. d <= x
      BY <2>1, <3>3, <3>4
    <3> QED BY <3>1, <3>3, <3>5
  <2>5. CASE a > 0
    <3>1. r.pc = "reserve" /\ r.desired = d
      BY <2>2, <2>5
    <3>2. Asked(r)
      BY <2>4, <3>1 DEF Asked
    <3> QED BY <2>3, <3>2, AskedStep
  <2>6. CASE ~(a > 0)
    <3>1. r.pc = "idle"
      BY <2>2, <2>6 DEF Idle
    <3>2. Asked(r)
      BY <3>1 DEF Asked
    <3> QED BY <2>3, <3>2, AskedStep
  <2> QED BY <2>5, <2>6
<1>5. CASE Reserve(c)
  <2>1. PICK r : r = [pc |-> "check", mine |-> dequeueOptimisticCount - k.overcommit, desired |-> k.desired]
    OBVIOUS
  <2>2. consumer' = [consumer EXCEPT ![c] = r] /\ producer' = producer /\ k.pc = "reserve"
    BY <1>0, <1>5, <2>1 DEF Reserve
  <2>3. r.pc = "check" /\ r.desired = k.desired
    BY <2>1
  <2>4. Asked(r)
    BY <1>1, <2>2, <2>3 DEF Asked
  <2> QED BY <2>2, <2>4, AskedStep
<1>6. CASE Check(c)
  <2>1. PICK v, a : v = tailIndex - k.mine
                    /\ a = (IF v <= 0 THEN 0 ELSE IF v < k.desired THEN v ELSE k.desired)
    OBVIOUS
  <2>2. PICK r : r = IF a < k.desired THEN [pc |-> "giveBack", actual |-> a, excess |-> k.desired - a]
                     ELSE [pc |-> "claim", actual |-> a]
    OBVIOUS
  <2>3. consumer' = [consumer EXCEPT ![c] = r] /\ producer' = producer /\ k.pc = "check"
    BY <1>0, <1>6, <2>1, <2>2 DEF Check
  <2>4. PICK m \in Maxes : k.desired <= m
    BY <1>1, <2>3 DEF Asked
  <2>5. a <= m
    <3>1. PICK x \in Nat : x = k.desired
      BY <1>1, <2>3 DEF ConsumerOK
    <3>2. v \in Int
      BY <1>1, <2>1, <2>3 DEF ConsumerOK
    <3>3. m \in Nat /\ x <= m
      BY <1>m, <2>4, <3>1
    <3> QED BY <2>1, <3>1, <3>2, <3>3
  <2>6. r.pc \in {"giveBack", "claim"} /\ r.actual = a
    BY <2>2
  <2>7. Asked(r)
    BY <2>5, <2>6 DEF Asked
  <2> QED BY <2>3, <2>7, AskedStep
<1>7. CASE GiveBack(c)
  <2>1. PICK r : r = IF k.actual > 0 THEN [pc |-> "claim", actual |-> k.actual] ELSE Idle
    OBVIOUS
  <2>2. consumer' = [consumer EXCEPT ![c] = r] /\ producer' = producer /\ k.pc = "giveBack"
    BY <1>0, <1>7, <2>1 DEF GiveBack
  <2>3. Asked(r)
    BY <1>1, <2>1, <2>2 DEF Asked, Idle
  <2> QED BY <2>2, <2>3, AskedStep
<1>8. CASE Claim(c)
  <2>1. PICK r : r = [pc |-> "locate", index |-> headIndex, last |-> headIndex + k.actual]
    OBVIOUS
  <2>2. consumer' = [consumer EXCEPT ![c] = r] /\ producer' = producer
    BY <1>0, <1>8, <2>1 DEF Claim
  <2>3. Asked(r)
    BY <2>1 DEF Asked
  <2> QED BY <2>2, <2>3, AskedStep
<1> QED BY <1>2, <1>3, <1>4, <1>5, <1>6, <1>7, <1>8 DEF ReserveSteps

(* The other steps of a consumer reserve nothing.                          *)
LEMMA ImplicitConsumeKeepsAsked ==
  ASSUME AskedInv, ReserveInv, ImplicitInv, NEW c \in Consumers, ImplicitConsume(c)
  PROVE  AskedInv'
<1>0. PICK k, r : k = consumer[c] /\ r = consumer'[c]
  OBVIOUS
<1>1. CASE (\E n \in Maxes : LoadTail(c, n)) \/ ReserveSteps(c)
  BY <1>1, ReserveStepsKeepAsked
<1>2. \A r2 : r2.pc \in {"idle", "find", "read", "empty", "clear", "release"} => Asked(r2)
  BY DEF Asked
<1>3. \A l, n : NextBlock(l, n).pc \in {"idle", "read"}
  BY DEF NextBlock, Idle
<1>4. CASE ImplicitLocate(c)
  <2>1. PICK r2 : r2 = [pc |-> "find", index |-> k.index, last |-> k.last, hdr |-> Len(headers), pos |-> blockIndex.tail]
    OBVIOUS
  <2>2. consumer' = [consumer EXCEPT ![c] = r2] /\ producer' = producer
    BY <1>0, <1>4, <2>1 DEF ImplicitLocate, ReserveInv, CountersOK
  <2>8. Asked(r2)
    BY <1>2, <2>1, <2>2
  <2> QED BY <2>1, <2>2, <2>8, AskedStep
<1>d. k.pc \in {"find", "clear"} => "pc" \in DOMAIN k
  BY <1>0 DEF ReserveInv, CountersOK, ConsumerOK
<1>5. CASE ImplicitFind(c)
  <2>1. PICK q : q = get_block_index_index_for_index(headers[k.hdr], k.pos, k.index)
    OBVIOUS
  <2>2. PICK r2 : r2 = [k EXCEPT !.pc = "read", !.pos = q]
    OBVIOUS
  <2>3. consumer' = [consumer EXCEPT ![c] = r2] /\ producer' = producer /\ k.pc = "find"
    BY <1>0, <1>5, <2>1, <2>2 DEF ImplicitFind
  <2>4. r2.pc = "read"
    BY <1>d, <2>2, <2>3
  <2>8. Asked(r2)
    BY <1>2, <2>3, <2>4
  <2> QED BY <2>3, <2>4, <2>8, AskedStep
<1>6. CASE ImplicitRead(c)
  <2>1. PICK b : b = entries[ImplicitEntryOf(k)].value
    OBVIOUS
  <2>2. PICK r2 : r2 = [pc |-> "empty", index |-> k.index, last |-> k.last, hdr |-> k.hdr, pos |-> k.pos, block |-> b]
    OBVIOUS
  <2>3. consumer' = [consumer EXCEPT ![c] = r2] /\ producer' = producer
    BY <1>0, <1>6, <2>1, <2>2 DEF ImplicitRead, ReadBlock
  <2>8. Asked(r2)
    BY <1>2, <2>2, <2>3
  <2> QED BY <2>2, <2>3, <2>8, AskedStep
<1>7. CASE ImplicitEmpty(c)
  <2>1. PICK r2 : consumer' = [consumer EXCEPT ![c] = r2]
                  /\ (r2 = [k EXCEPT !.pc = "clear"] \/ r2 = NextBlock(k, headers[k.hdr].capacity))
    BY <1>0, <1>7 DEF ImplicitEmpty
  <2>2. producer' = producer /\ "pc" \in DOMAIN k
    BY <1>0, <1>7 DEF ImplicitEmpty, ReserveInv, CountersOK, ConsumerOK
  <2>3. r2.pc \in {"idle", "read", "clear"}
    BY <1>3, <2>1, <2>2
  <2>8. Asked(r2)
    BY <1>2, <2>1, <2>2, <2>3
  <2> QED BY <2>1, <2>2, <2>3, <2>8, AskedStep
<1>8. CASE ImplicitClear(c)
  <2>1. PICK r2 : r2 = [k EXCEPT !.pc = "release"]
    OBVIOUS
  <2>2. consumer' = [consumer EXCEPT ![c] = r2] /\ producer' = producer /\ k.pc = "clear"
    BY <1>0, <1>8, <2>1 DEF ImplicitClear, ReserveInv, CountersOK
  <2>3. r2.pc = "release"
    BY <1>d, <2>1, <2>2
  <2>8. Asked(r2)
    BY <1>2, <2>2, <2>3
  <2> QED BY <2>2, <2>3, <2>8, AskedStep
<1>9. CASE ImplicitRelease(c)
  <2>1. PICK r2 : r2 = NextBlock(k, headers[k.hdr].capacity)
    OBVIOUS
  <2>2. consumer' = [consumer EXCEPT ![c] = r2] /\ producer' = producer
    BY <1>0, <1>9, <2>1 DEF ImplicitRelease
  <2>8. Asked(r2)
    BY <1>2, <1>3, <2>1, <2>2
  <2> QED BY <2>1, <2>2, <2>8, AskedStep
<1> QED BY <1>1, <1>4, <1>5, <1>6, <1>7, <1>8, <1>9 DEF ImplicitConsume

(* The producer keeps its count until it returns.                          *)
LEMMA ImplicitProduceKeepsAsked ==
  ASSUME AskedInv, ImplicitInv, ImplicitProduce
  PROVE  AskedInv'
<1>0. producer.pc # "idle" => DOMAIN producer = ImplicitFields
  BY DEF ImplicitInv, Indexed, IndexOK, ImplicitCallOK
<1>1. ASSUME NEW n \in Counts, ImplicitEnqueue(n) PROVE AskedInv'
  BY <1>1 DEF ImplicitEnqueue, AskedInv
<1>2. CASE ImplicitInsert
  <2>1. producer'.count = producer.count /\ producer.pc = "insert" /\ consumer' = consumer
    BY <1>0, <1>2 DEF ImplicitInsert, ImplicitFields
  <2> QED BY <2>1 DEF AskedInv
<1>3. CASE ImplicitBlock
  <2>1. producer'.count = producer.count /\ producer.pc = "block" /\ consumer' = consumer
    BY <1>0, <1>3 DEF ImplicitBlock, ImplicitFields
  <2> QED BY <2>1 DEF AskedInv
<1>4. CASE ImplicitNoEntry \/ ImplicitUndo \/ ImplicitFill
  <2>1. producer'.pc = "idle" /\ consumer' = consumer
    BY <1>4 DEF ImplicitNoEntry, ImplicitUndo, ImplicitFill, Idle
  <2> QED BY <2>1 DEF AskedInv
<1> QED BY <1>1, <1>2, <1>3, <1>4 DEF ImplicitProduce

(* Any step of a sub-queue with an implicit producer.                      *)
LEMMA ImplicitStepKeepsAsked ==
  ASSUME AskedInv, ImplicitInv, ReserveInv, ~isExplicit, [Next]_vars
  PROVE  AskedInv'
<1>1. CASE Produce
  BY <1>1, ImplicitProduceKeepsAsked DEF Produce
<1>2. ASSUME NEW c \in Consumers, Consume(c) PROVE AskedInv'
  BY <1>2, ImplicitConsumeKeepsAsked DEF Consume
<1>3. CASE UNCHANGED vars
  BY <1>3 DEF vars, AskedInv
<1> QED BY <1>1, <1>2, <1>3 DEF Next
-----------------------------------------------------------------------------
(* An element of the queue is found through the current header.            *)
LEMMA StoredIs ==
  ASSUME ImplicitInv, ReserveInv, ~isExplicit, NEW i \in Nat, headIndex <= i, i < tailIndex
  PROVE  Stored(i) = i
<1>0. PICK top, given, h, n, e : top = Top(tailIndex, producer) /\ given = Given(tailIndex, producer)
        /\ h = headers[Len(headers)] /\ n = Num(i) /\ e = Home(h, top, n)
  OBVIOUS
<1>1. headIndex \in Nat /\ tailIndex \in Nat /\ headIndex <= tailIndex
  BY Now
<1>2. /\ top \in Int /\ given \in Int /\ Num(tailIndex - 1) \in Int /\ Num(tailIndex - 1) <= given /\ given <= top
      /\ Len(entries) \in Nat /\ HeaderOK(h, Len(entries))
      /\ AllLiveOK(top, given, headIndex, consumer, h, entries, elementsCompletelyDequeued)
      /\ ElementsOK(tailIndex, top, headIndex, consumer, h, entries, elements)
  BY <1>0, IndexNow DEF ImplicitInv, Indexed
<1>3. i \in 0 .. tailIndex - 1 /\ i \in Int
  BY <1>1
<1>4. ToRead(i, headIndex, consumer)
  BY <1>1 DEF ToRead
<1>5. n \in Nat /\ n \in Int /\ n <= Num(tailIndex - 1) /\ Live(n, top, headIndex, consumer)
  BY <1>0, <1>3, <1>4, ToReadLive
<1>6. n <= given /\ n \in n .. top /\ top \in n .. top
  BY <1>2, <1>5
<1>7. LiveOK(n, top, given, headIndex, consumer, h, entries, elementsCompletelyDequeued)
  BY <1>2, <1>5 DEF AllLiveOK
<1>8. entries[e].value \in Blocks /\ entries[Home(h, top, top)].key = BLOCK_SIZE * top
  BY <1>0, <1>5, <1>6, <1>7 DEF LiveOK
<1>9. h.tail \in 0 .. h.capacity - 1 /\ h.capacity \in Nat \ {0}
  BY <1>2 DEF HeaderOK
<1>10. Home(h, top, top) = h.index[h.tail]
  <2>1. top - top = 0
    BY <1>2
  <2> QED BY <1>2, <1>9, <2>1, SlotHere DEF Home
<1>11. get_block_index_index_for_index(h, h.tail, i) = (h.tail + (n - top)) % h.capacity
  <2>1. Base(i) = BLOCK_SIZE * n
    BY <1>0, <1>3, NumIs
  <2>2. PICK d : d = n - top
    OBVIOUS
  <2>3. d \in Int /\ BLOCK_SIZE \in Nat \ {0}
    BY <1>2, <1>5, <2>2, BlockSize
  <2>4. BLOCK_SIZE * n - BLOCK_SIZE * top = BLOCK_SIZE * d
    BY <1>2, <1>5, <2>2, <2>3
  <2>5. (BLOCK_SIZE * d) \div BLOCK_SIZE = d
    BY <2>3, DivOfProduct
  <2> QED BY <1>8, <1>10, <2>1, <2>2, <2>4, <2>5 DEF get_block_index_index_for_index
<1>12. entries[blockIndex.index[get_block_index_index_for_index(blockIndex, blockIndex.tail, i)]].value = entries[e].value
  BY <1>0, <1>11 DEF blockIndex, Home, SlotOf
<1>13. Stored(i) = elements[entries[e].value][i % BLOCK_SIZE]
  BY <1>8, <1>12, NoBlockAssumption DEF Stored
<1> QED BY <1>0, <1>2, <1>3, <1>4, <1>13 DEF ElementsOK

(* The queue that the blocks and the index hold, and what is in it.        *)
QueueNow == [i \in 1 .. tailIndex - headIndex |-> Stored(headIndex + i - 1)]
Ordered(head, tail) == [i \in 1 .. tail - head |-> head + i - 1]
Contents == headIndex \in Nat /\ tailIndex \in Nat /\ headIndex <= tailIndex /\ QueueNow = Ordered(headIndex, tailIndex)

(* The queue holds the numbers from headIndex up to tailIndex, in order.   *)
LEMMA ContentsAre ==
  ASSUME ImplicitInv, ReserveInv, ~isExplicit PROVE Contents
<1>1. headIndex \in Nat /\ tailIndex \in Nat /\ headIndex <= tailIndex
  BY Now
<1>2. ASSUME NEW i \in 1 .. tailIndex - headIndex PROVE Stored(headIndex + i - 1) = headIndex + i - 1
  <2>1. PICK j : j = headIndex + i - 1
    OBVIOUS
  <2>2. j \in Nat /\ headIndex <= j /\ j < tailIndex
    BY <1>1, <2>1
  <2>3. Stored(j) = j
    BY <2>2, StoredIs
  <2> QED BY <2>1, <2>3
<1> QED BY <1>1, <1>2 DEF Contents, QueueNow, Ordered

(* The queue grows at one end and shrinks at the other.                    *)
LEMMA OrderedGrows ==
  ASSUME NEW head \in Nat, NEW tail \in Nat, head <= tail, NEW n \in Nat
  PROVE  Ordered(head, tail + n) = Ordered(head, tail) \o [i \in 1 .. n |-> tail + i - 1]
<1>1. PICK s, a, l : s = Ordered(head, tail) /\ a = [i \in 1 .. n |-> tail + i - 1] /\ l = tail - head
  OBVIOUS
<1>2. l \in Nat
  BY <1>1
<1>3. s \in Seq(Int) /\ Len(s) = l /\ a \in Seq(Int) /\ Len(a) = n
  BY <1>1, <1>2 DEF Ordered
<1>4. /\ DOMAIN (s \o a) = 1 .. l + n
      /\ \A i \in 1 .. l + n : (s \o a)[i] = IF i <= l THEN s[i] ELSE a[i - l]
  BY <1>2, <1>3, SMTT(30)
<1>5. ASSUME NEW i \in 1 .. l + n PROVE (s \o a)[i] = head + i - 1
  <2>1. CASE i <= l
    <3>1. i \in 1 .. tail - head
      BY <1>1, <1>2, <2>1
    <3>2. s[i] = head + i - 1
      BY <1>1, <3>1 DEF Ordered
    <3> QED BY <1>4, <2>1, <3>2
  <2>2. CASE ~(i <= l)
    <3>1. i - l \in 1 .. n /\ tail + (i - l) - 1 = head + i - 1
      BY <1>1, <1>2, <2>2
    <3>2. a[i - l] = tail + (i - l) - 1
      BY <1>1, <3>1
    <3> QED BY <1>4, <2>2, <3>1, <3>2
  <2> QED BY <2>1, <2>2
<1>6. tail + n - head = l + n
  BY <1>1
<1>7. s \o a = [i \in 1 .. l + n |-> head + i - 1]
  <2>1. PICK w : w = s \o a
    OBVIOUS
  <2>2. w \in Seq(Int)
    BY <1>3, <2>1
  <2>3. w = [i \in DOMAIN w |-> w[i]]
    BY <2>2
  <2>4. DOMAIN w = 1 .. l + n /\ \A i \in 1 .. l + n : w[i] = head + i - 1
    BY <1>4, <1>5, <2>1
  <2> QED BY <2>1, <2>3, <2>4
<1> QED BY <1>1, <1>6, <1>7 DEF Ordered

(* Elements are taken at the front.                                        *)
LEMMA OrderedShrinks ==
  ASSUME NEW head \in Nat, NEW tail \in Nat, NEW n \in Nat, head + n <= tail
  PROVE  /\ Len(Ordered(head, tail)) = tail - head
         /\ Ordered(head + n, tail) = SubSeq(Ordered(head, tail), n + 1, Len(Ordered(head, tail)))
<1>1. PICK s, l : s = Ordered(head, tail) /\ l = tail - head
  OBVIOUS
<1>2. l \in Nat /\ n <= l
  BY <1>1
<1>3. s \in Seq(Int) /\ Len(s) = l
  BY <1>1, <1>2 DEF Ordered
<1>4. SubSeq(s, n + 1, l) = [i \in 1 .. l - n |-> s[i + n]]
  BY <1>2, <1>3
<1>5. ASSUME NEW i \in 1 .. l - n PROVE s[i + n] = (head + n) + i - 1
  <2>1. i + n \in 1 .. tail - head
    BY <1>1, <1>2
  <2>2. s[i + n] = head + (i + n) - 1
    BY <1>1, <2>1 DEF Ordered
  <2> QED BY <1>2, <2>2
<1>6. tail - (head + n) = l - n
  BY <1>1
<1>7. SubSeq(s, n + 1, l) = Ordered(head + n, tail)
  BY <1>4, <1>5, <1>6 DEF Ordered
<1> QED BY <1>1, <1>3, <1>7

(* A step of the sub-queue is a step of the queue or changes nothing.      *)
LEMMA FifoStep ==
  ASSUME ImplicitInv, ReserveInv, AskedInv, Contents, Contents', ~isExplicit, [Next]_vars
  PROVE  [Fifo!Next]_<<QueueNow, tailIndex>>
<1>1. /\ headIndex \in Nat /\ tailIndex \in Nat /\ headIndex <= tailIndex
      /\ QueueNow = Ordered(headIndex, tailIndex)
      /\ headIndex' \in Nat /\ tailIndex' \in Nat /\ headIndex' <= tailIndex'
      /\ QueueNow' = Ordered(headIndex', tailIndex')
  BY DEF Contents
<1>2. CASE headIndex' = headIndex /\ tailIndex' = tailIndex
  BY <1>1, <1>2
<1>3. CASE ImplicitFill
  <2>1. PICK n : n = producer.count
    OBVIOUS
  <2>2. n \in Counts /\ n \in Nat /\ tailIndex' = tailIndex + n /\ headIndex' = headIndex
    BY <1>3, <2>1, SizesAssumption DEF ImplicitFill, AskedInv
  <2>3. QueueNow' = QueueNow \o [i \in 1 .. n |-> tailIndex + i - 1]
    BY <1>1, <2>2, OrderedGrows, ZenonT(30)
  <2>4. Fifo!Enqueue(n)
    BY <2>2, <2>3 DEF Fifo!Enqueue, QueueNow
  <2> QED BY <2>2, <2>4 DEF Fifo!Next
<1>4. ASSUME NEW c \in Consumers, Claim(c) PROVE Fifo!Next
  <2>1. PICK k, n : k = consumer[c] /\ n = k.actual
    OBVIOUS
  <2>2. k.pc = "claim" /\ tailIndex' = tailIndex /\ headIndex' = headIndex + n
    BY <1>4, <2>1 DEF Claim
  <2>3. Asked(k) /\ n # 0
    BY <2>1, <2>2 DEF AskedInv, ImplicitInv, Indexed, AllReaders, ReaderOK
  <2>4. PICK m \in Maxes : n <= m
    BY <2>1, <2>2, <2>3 DEF Asked
  <2>5. n \in Nat /\ m \in Nat
    BY <2>1, <2>2, SizesAssumption DEF ReserveInv, CountersOK, ConsumerOK
  <2>6. n \in 1 .. m /\ headIndex + n <= tailIndex
    BY <1>1, <2>2, <2>3, <2>4, <2>5
  <2>7. Len(QueueNow) = tailIndex - headIndex /\ QueueNow' = SubSeq(QueueNow, n + 1, Len(QueueNow))
    <3>1. PICK q, head, tail : q = QueueNow /\ head = headIndex /\ tail = tailIndex
      OBVIOUS
    <3>2. head \in Nat /\ tail \in Nat /\ head + n <= tail /\ q = Ordered(head, tail)
      BY <1>1, <2>6, <3>1
    <3>3. Len(q) = tail - head /\ Ordered(head + n, tail) = SubSeq(q, n + 1, Len(q))
      BY <2>5, <3>2, OrderedShrinks, ZenonT(30)
    <3>4. QueueNow' = Ordered(head + n, tail)
      BY <1>1, <2>2, <3>1
    <3> QED BY <3>1, <3>3, <3>4
  <2>8. n <= Len(QueueNow)
    BY <1>1, <2>5, <2>6, <2>7
  <2>9. Fifo!Dequeue(m)
    BY <2>2, <2>6, <2>7, <2>8 DEF Fifo!Dequeue, QueueNow
  <2> QED BY <2>4, <2>9 DEF Fifo!Next
<1>5. CASE Produce
  <2>1. ImplicitProduce
    BY <1>5 DEF Produce
  <2>2. CASE ~ImplicitFill
    <3>1. headIndex' = headIndex /\ tailIndex' = tailIndex
      BY <2>1, <2>2 DEF ImplicitProduce, ImplicitEnqueue, ImplicitInsert, ImplicitNoEntry, ImplicitBlock,
                        ImplicitUndo, indexVars
    <3> QED BY <1>2, <3>1
  <2> QED BY <1>3, <2>2
<1>6. ASSUME NEW c \in Consumers, Consume(c) PROVE [Fifo!Next]_<<QueueNow, tailIndex>>
  <2>1. ImplicitConsume(c)
    BY <1>6 DEF Consume
  <2>2. CASE ~Claim(c)
    <3>1. headIndex' = headIndex /\ tailIndex' = tailIndex
      BY <2>1, <2>2 DEF ImplicitConsume, LoadTail, ReserveSteps, LoadOvercommit, Desire, Reserve, Check,
                        GiveBack, ReadBlock, ImplicitLocate, ImplicitFind, ImplicitRead, ImplicitEmpty,
                        ImplicitClear, ImplicitRelease, indexVars
    <3> QED BY <1>2, <3>1
  <2> QED BY <1>4, <2>2
<1>7. CASE UNCHANGED vars
  BY <1>2, <1>7 DEF vars, indexVars
<1> QED BY <1>5, <1>6, <1>7 DEF Next

(* A sub-queue of an implicit producer is a FIFO queue: a call appends all *)
(* its elements or none, a claim takes the oldest ones, and nothing else   *)
(* changes what is found through the block index (enqueue_bulk, dequeue    *)
(* and dequeue_bulk of ImplicitProducer).                                  *)
THEOREM ImplicitIsFifo == Spec => (~isExplicit => ImplementsFifo)
<1>1. Init => Fifo!Init
  <2> SUFFICES ASSUME Init PROVE Fifo!Init
    OBVIOUS
  <2>1. tailIndex = 0 /\ headIndex = 0
    BY DEF Init, ProducerBaseInit
  <2> QED BY <2>1 DEF Fifo!Init
<1>2. Init => AskedInv
  BY DEF Init, ProducerBaseInit, AskedInv, Asked, Idle
<1>3. ImplicitInv /\ ReserveInv /\ ~isExplicit => Contents
  BY ContentsAre
<1>4. ImplicitInv /\ ReserveInv /\ AskedInv /\ ~isExplicit /\ [Next]_vars => AskedInv' /\ ~isExplicit'
  BY ImplicitStepKeepsAsked, KindKept
<1>5. ImplicitInv /\ ReserveInv /\ AskedInv /\ Contents /\ Contents' /\ ~isExplicit /\ [Next]_vars
        => [Fifo!Next]_<<QueueNow, tailIndex>>
  BY FifoStep
<1>6. Spec /\ ~isExplicit => Fifo!Init /\ [][Fifo!Next]_<<QueueNow, tailIndex>>
  BY <1>1, <1>2, <1>3, <1>4, <1>5, ImplicitInvariant, ReserveInvariant, PTL DEF Spec
<1> QED BY <1>6, PTL DEF ImplementsFifo, Fifo!Spec, QueueNow
-----------------------------------------------------------------------------
(* What a pointer to a block can be.                                       *)
Pointers == PoolBlocks \union {Null}

(* What a thread does after it has put on the list the block that it was   *)
(* the last to look at, or its own.                                        *)
Thens == {NoCall, [pc |-> "create"]} \union [pc : {"refs"}, head : PoolBlocks]

(* A thread that puts a block on the list: before and after the count of   *)
(* the block has been set to one.                                          *)
Linking == {"addHead", "addNext", "addRefs"}
Pushing == {"add", "addFlag"}

(* The fields of a call at each of its steps.                              *)
CallOK(c) ==
  \/ c \in [pc : {"idle", "initial", "head", "create"}]
  \/ c \in [pc : {"refs", "next", "got"}, head : PoolBlocks]
  \/ c \in [pc : {"hold"}, head : PoolBlocks, refs : Nat]
  \/ c \in [pc : {"pop"}, head : PoolBlocks, next : Pointers]
  \/ c \in [pc : {"leave"}, prevHead : PoolBlocks, head : Pointers]
  \/ c \in [pc : {"addHead"}, node : PoolBlocks, then : Thens]
  \/ c \in [pc : {"addNext", "addRefs"} \union Pushing, node : PoolBlocks, then : Thens,
            head : Pointers]

PoolTypeOK ==
  /\ initialBlockPoolIndex \in Nat
  /\ created \in 0 .. (MaxBlocks - initialBlockPoolSize)
  /\ freeListHead \in Pointers
  /\ freeListRefs \in [PoolBlocks -> 0 .. (2 * SHOULD_BE_ON_FREELIST - 1)]
  /\ freeListNext \in [PoolBlocks -> Pointers]
  /\ held \in [Threads -> SUBSET PoolBlocks]
  /\ DOMAIN call = Threads
  /\ \A t \in Threads : CallOK(call[t])

(* The blocks that the initial pool or create<Block> has handed out.       *)
Allocated == {b \in PoolBlocks : b <= initialBlockPoolIndex /\ b <= initialBlockPoolSize}
             \union initialBlockPoolSize + 1 .. initialBlockPoolSize + created

(* What a call in progress has to do with a block: it has a reference to   *)
(* it, it has taken it off the list, or it is putting it there.            *)
Holds(c, b) == \/ c.pc \in {"next", "pop", "got"} /\ c.head = b
               \/ c.pc = "leave" /\ c.prevHead = b
Gets(c, b) == c.pc = "got" /\ c.head = b
Links(c, b) == c.pc \in Linking /\ c.node = b
Pushes(c, b) == c.pc \in Pushing /\ c.node = b

(* The threads that are concerned with block b, and how.                   *)
Holders(b) == {t \in Threads : Holds(call[t], b)}
Getters(b) == {t \in Threads : Gets(call[t], b)}
Linkers(b) == {t \in Threads : Links(call[t], b)}
Pushers(b) == {t \in Threads : Pushes(call[t], b)}
Users(b) == {t \in Threads : b \in held[t]}

(* The list that starts at h and goes on along nx has the n elements of f, *)
(* each one once.                                                          *)
IsList(h, nx, n, f) ==
  /\ f[0] = h /\ f[n] = Null
  /\ \A i \in 0 .. (n - 1) : f[i] \in PoolBlocks /\ f[i + 1] = nx[f[i]]
  /\ \A i, j \in 0 .. (n - 1) : f[i] = f[j] => i = j

(* The first n elements, and all those that ListFrom meets.                *)
First(n, f) == {f[i] : i \in 0 .. (n - 1)}

HasList(h, nx) == \E n \in 0 .. MaxBlocks, f \in [0 .. MaxBlocks -> Pointers] : IsList(h, nx, n, f)
Elements(h, nx) == {ListFrom(h, nx)[k] : k \in 0 .. MaxBlocks} \ {Null}

ListOK == HasList(freeListHead, freeListNext)

(* What a thread has read or written of a pointer is still there while it  *)
(* relies on it.                                                           *)
CallFits(c, nx) ==
  /\ c.pc = "pop" => c.next = nx[c.head]
  /\ c.pc \in {"addRefs", "add"} => c.head = nx[c.node]
  /\ c.pc = "hold" => c.refs % SHOULD_BE_ON_FREELIST # 0
CallsFit == \A t \in Threads : CallFits(call[t], freeListNext)

(* Where block b is, and what its count r is worth there: H are the        *)
(* threads that look at it, L is the list, A the blocks allocated, us, gt, *)
(* lk and ps the threads that use, have taken, link and push the block.    *)
BlockOK(b, r, H, L, A, us, gt, lk, ps) ==
  /\ \A t, u \in us \union gt \union lk \union ps : t = u
  /\ us \intersect (gt \union lk \union ps) = {}
  /\ b \in L => us \union gt \union lk \union ps = {}
  /\ b \notin A => /\ b \notin L /\ us \union gt \union lk \union ps = {}
                   /\ r = 0 /\ H = {}
  /\ us # {} => r = Cardinality(H)
  /\ b \in L \/ gt # {} \/ ps # {} => r = 1 + Cardinality(H)
  /\ lk # {} => r = SHOULD_BE_ON_FREELIST /\ H = {}
  /\ b \in A /\ b \notin L /\ us \union gt \union lk \union ps = {} =>
       r = SHOULD_BE_ON_FREELIST + Cardinality(H) /\ H # {}

(* Every block is where it should be, with the count it should have.       *)
Counted(b) == BlockOK(b, freeListRefs[b], Holders(b), OnList, Allocated,
                      Users(b), Getters(b), Linkers(b), Pushers(b))
CountsOK == \A b \in PoolBlocks : Counted(b)

PoolInv == PoolTypeOK /\ ListOK /\ CallsFit /\ CountsOK
-----------------------------------------------------------------------------
(* Every set of numbers that is not empty has a least element.             *)
LEMMA LeastBlock == ASSUME NEW T \in SUBSET Nat, T # {} PROVE \E m \in T : \A k \in T : m <= k
<1>1. PICK R : R = OpToRel(<, Nat)
  OBVIOUS
<1>2. IsWellFoundedOn(R, Nat)
  BY <1>1, NatLessThanWellFounded
<1>3. \A x, y \in Nat : <<y, x>> \in R <=> y < x
  BY <1>1 DEF OpToRel
<1>4. PICK x \in T : \A y \in T : ~(<<y, x>> \in R)
  BY <1>2, WFMin
<1>5. \A y \in T : ~(y < x) /\ y \in Nat /\ x \in Nat
  BY <1>3, <1>4
<1> QED BY <1>5

(* ListFrom follows the list to its end and stays there.                   *)
LEMMA ListIs ==
  ASSUME NEW h, NEW nx, NEW n \in 0 .. MaxBlocks, NEW f, IsList(h, nx, n, f)
  PROVE  /\ ListFrom(h, nx)[MaxBlocks] = Null
         /\ Elements(h, nx) = First(n, f)
<1> DEFINE Next1(g, i) == IF i = 0 THEN h ELSE IF g[i - 1] = Null THEN Null ELSE nx[g[i - 1]]
<1>0. MaxBlocks \in Nat /\ Null \notin PoolBlocks
  BY PoolAssumption DEF Null, PoolBlocks
<1>1. PICK g : g = [i \in 0 .. MaxBlocks |-> IF i <= n THEN f[i] ELSE Null]
  OBVIOUS
<1>2. \A i \in 0 .. MaxBlocks : g[i] = IF i <= n THEN f[i] ELSE Null
  BY <1>1
<1>3. ASSUME NEW i \in 0 .. MaxBlocks PROVE g[i] = Next1(g, i)
  <2>1. CASE i = 0
    BY <2>1, <1>0, <1>2 DEF IsList
  <2>2. CASE i # 0 /\ i <= n
    <3>1. i - 1 \in 0 .. (n - 1) /\ i - 1 \in 0 .. MaxBlocks /\ (i - 1) + 1 = i /\ i - 1 <= n
      BY <2>2, <1>0
    <3>2. g[i - 1] = f[i - 1] /\ f[i - 1] \in PoolBlocks /\ f[i] = nx[f[i - 1]]
      BY <3>1, <1>2 DEF IsList
    <3> QED BY <2>2, <3>2, <1>0, <1>2
  <2>3. CASE ~(i <= n)
    <3>1. i - 1 \in 0 .. MaxBlocks /\ i # 0
      BY <2>3, <1>0
    <3>2. g[i - 1] = Null
      BY <3>1, <2>3, <1>0, <1>2 DEF IsList
    <3> QED BY <2>3, <3>1, <3>2, <1>2
  <2> QED BY <2>1, <2>2, <2>3
<1>4. g = [i \in 0 .. MaxBlocks |-> Next1(g, i)]
  BY <1>1, <1>3
<1> DEFINE at[i \in 0 .. MaxBlocks] == Next1(at, i)
<1>5. at = [i \in 0 .. MaxBlocks |-> Next1(at, i)]
  BY <1>4
<1>6. ListFrom(h, nx) = at
  BY DEF ListFrom
<1> HIDE DEF at
<1>7. PICK a : a = at
  OBVIOUS
<1>8. a = [i \in 0 .. MaxBlocks |-> Next1(a, i)]
  BY <1>5, <1>7
<1>9. \A i \in 0 .. MaxBlocks : a[i] = Next1(a, i)
  BY <1>8
<1> DEFINE Bad == {i \in 0 .. MaxBlocks : a[i] # g[i]}
<1>10. Bad = {}
  <2> SUFFICES ASSUME Bad # {} PROVE FALSE
    OBVIOUS
  <2>1. Bad \in SUBSET Nat
    BY <1>0
  <2>2. PICK m \in Bad : \A k \in Bad : m <= k
    <3> HIDE DEF Bad
    <3> QED BY <2>1, LeastBlock
  <2>3. m \in 0 .. MaxBlocks /\ a[m] # g[m]
    OBVIOUS
  <2>4. CASE m = 0
    BY <2>3, <2>4, <1>3, <1>9
  <2>5. CASE m # 0
    <3>1. m - 1 \in 0 .. MaxBlocks /\ ~(m <= m - 1)
      BY <2>3, <2>5, <1>0
    <3>2. a[m - 1] = g[m - 1]
      BY <2>2, <3>1
    <3> QED BY <2>3, <2>5, <3>2, <1>3, <1>9
  <2> QED BY <2>4, <2>5
<1>11. \A i \in 0 .. MaxBlocks : a[i] = IF i <= n THEN f[i] ELSE Null
  BY <1>2, <1>10
<1>12. f[n] = Null /\ \A i \in 0 .. (n - 1) : f[i] \in PoolBlocks
  BY DEF IsList
<1>13. a[MaxBlocks] = Null
  <2>1. MaxBlocks \in 0 .. MaxBlocks /\ (MaxBlocks <= n => MaxBlocks = n)
    BY <1>0
  <2> QED BY <2>1, <1>11, <1>12
<1>14. ASSUME NEW i \in 0 .. MaxBlocks, a[i] # Null PROVE i \in 0 .. (n - 1) /\ a[i] = f[i]
  BY <1>0, <1>11, <1>12, <1>14
<1>15. ASSUME NEW i \in 0 .. (n - 1) PROVE i \in 0 .. MaxBlocks /\ a[i] = f[i] /\ a[i] # Null
  <2>1. i \in 0 .. MaxBlocks /\ i <= n
    BY <1>0
  <2> QED BY <2>1, <1>0, <1>11, <1>12
<1>16. {a[k] : k \in 0 .. MaxBlocks} \ {Null} = {f[i] : i \in 0 .. (n - 1)}
  BY <1>14, <1>15
<1> QED BY <1>6, <1>7, <1>13, <1>16 DEF Elements, First

(* A block that is not on the list is pushed in front of it.               *)
LEMMA PushList ==
  ASSUME NEW h, NEW nx, HasList(h, nx), NEW b \in PoolBlocks, b \notin Elements(h, nx)
  PROVE  nx[b] = h => HasList(b, nx) /\ Elements(b, nx) = Elements(h, nx) \union {b}
<1>0. MaxBlocks \in Nat
  BY PoolAssumption
<1>1. PICK n \in 0 .. MaxBlocks, f \in [0 .. MaxBlocks -> Pointers] : IsList(h, nx, n, f)
  BY DEF HasList
<1>2. Elements(h, nx) = First(n, f)
  BY <1>1, ListIs
<1> HAVE nx[b] = h
<1>3. PICK g : g = [i \in 0 .. MaxBlocks |-> IF i = 0 THEN b ELSE f[i - 1]]
  OBVIOUS
<1>4. g \in [0 .. MaxBlocks -> Pointers]
  <2>1. \A i \in 0 .. MaxBlocks : i # 0 => i - 1 \in 0 .. MaxBlocks
    BY <1>0
  <2> QED BY <1>3, <2>1 DEF Pointers
<1>5. n + 1 <= MaxBlocks
  <2>1. PICK inj : inj = [i \in 0 .. n |-> IF i = n THEN b ELSE f[i]]
    OBVIOUS
  <2>2. inj \in Injection(0 .. n, PoolBlocks)
    <3>1. \A i \in 0 .. n : i = n \/ i \in 0 .. (n - 1)
      BY <1>0
    <3>2. \A i \in 0 .. (n - 1) : f[i] \in PoolBlocks /\ f[i] # b
      BY <1>1, <1>2 DEF IsList, First
    <3>3. inj \in [0 .. n -> PoolBlocks]
      BY <2>1, <3>1, <3>2
    <3>4. ASSUME NEW i \in 0 .. n, NEW j \in 0 .. n, inj[i] = inj[j] PROVE i = j
      BY <1>1, <2>1, <3>1, <3>2, <3>4 DEF IsList
    <3> QED BY <3>3, <3>4 DEF Injection, IsInjective
  <2>3. /\ IsFiniteSet(0 .. n) /\ Cardinality(0 .. n) = n + 1
        /\ IsFiniteSet(PoolBlocks) /\ Cardinality(PoolBlocks) = MaxBlocks
    <3>1. \A a, b1 \in Int : /\ IsFiniteSet(a .. b1)
                               /\ Cardinality(a .. b1) = IF a > b1 THEN 0 ELSE b1 - a + 1
      BY FS_Interval, Zenon
    <3>2. /\ IsFiniteSet(0 .. n) /\ Cardinality(0 .. n) = IF 0 > n THEN 0 ELSE n - 0 + 1
          /\ IsFiniteSet(1 .. MaxBlocks)
          /\ Cardinality(1 .. MaxBlocks) = IF 1 > MaxBlocks THEN 0 ELSE MaxBlocks - 1 + 1
      BY <1>0, <3>1
    <3> QED BY <1>0, <3>2 DEF PoolBlocks
  <2> QED BY <2>2, <2>3, FS_Injection
<1>6. IsList(b, nx, n + 1, g)
  <2>1. \A i \in 1 .. (n + 1) : i - 1 \in 0 .. n /\ i \in 0 .. MaxBlocks /\ i # 0
    BY <1>0, <1>5
  <2>2. \A i \in 1 .. (n + 1) : g[i] = f[i - 1]
    BY <1>3, <2>1
  <2>3. g[0] = b
    BY <1>0, <1>3
  <2>4. g[n + 1] = Null
    <3>1. n + 1 \in 1 .. (n + 1) /\ (n + 1) - 1 = n
      BY <1>0
    <3> QED BY <1>1, <2>2, <3>1 DEF IsList
  <2>5. ASSUME NEW i \in 0 .. n PROVE g[i] \in PoolBlocks /\ g[i + 1] = nx[g[i]]
    <3>1. i + 1 \in 1 .. (n + 1) /\ (i + 1) - 1 = i
      BY <1>0
    <3>2. CASE i = 0
      BY <1>1, <2>2, <2>3, <3>1, <3>2 DEF IsList
    <3>3. CASE i # 0
      <4>1. i \in 1 .. (n + 1) /\ i - 1 \in 0 .. (n - 1) /\ (i - 1) + 1 = i
        BY <1>0, <3>3
      <4>2. f[i - 1] \in PoolBlocks /\ f[i] = nx[f[i - 1]]
        BY <1>1, <4>1 DEF IsList
      <4> QED BY <2>2, <3>1, <4>1, <4>2
    <3> QED BY <3>2, <3>3
  <2>6. ASSUME NEW i \in 0 .. n, NEW j \in 0 .. n, g[i] = g[j] PROVE i = j
    <3>1. \A k \in 0 .. n : k # 0 => k \in 1 .. (n + 1) /\ k - 1 \in 0 .. (n - 1)
      BY <1>0
    <3>2. \A k \in 0 .. n : k # 0 => g[k] = f[k - 1] /\ g[k] # b
      BY <1>2, <2>2, <3>1 DEF First
    <3>3. CASE i = 0 \/ j = 0
      BY <2>3, <2>6, <3>2, <3>3
    <3>4. CASE i # 0 /\ j # 0
      <4>1. i - 1 = j - 1
        BY <1>1, <2>6, <3>1, <3>2, <3>4 DEF IsList
      <4> QED BY <1>0, <4>1
    <3> QED BY <3>3, <3>4
  <2>7. 0 .. ((n + 1) - 1) = 0 .. n
    BY <1>0
  <2> QED BY <2>3, <2>4, <2>5, <2>6, <2>7 DEF IsList
<1>7. n + 1 \in 0 .. MaxBlocks
  BY <1>0, <1>5
<1>8. HasList(b, nx)
  BY <1>4, <1>6, <1>7 DEF HasList
<1>9. Elements(b, nx) = First(n + 1, g)
  BY <1>6, <1>7, ListIs, ZenonT(30)
<1>10. First(n + 1, g) = First(n, f) \union {b}
  <2>1. g[0] = b /\ 0 \in 0 .. ((n + 1) - 1)
    BY <1>0, <1>3
  <2>2. ASSUME NEW i \in 0 .. ((n + 1) - 1), i # 0 PROVE i - 1 \in 0 .. (n - 1) /\ g[i] = f[i - 1]
    <3>1. i - 1 \in 0 .. (n - 1) /\ i \in 0 .. MaxBlocks
      BY <1>0, <2>2
    <3> QED BY <1>3, <2>2, <3>1
  <2>3. ASSUME NEW i \in 0 .. (n - 1) PROVE i + 1 \in 0 .. ((n + 1) - 1) /\ g[i + 1] = f[i]
    <3>1. i + 1 \in 0 .. ((n + 1) - 1) /\ i + 1 # 0 /\ (i + 1) - 1 = i
      BY <1>0
    <3> QED BY <2>2, <3>1
  <2>4. ASSUME NEW x \in First(n + 1, g) PROVE x \in First(n, f) \union {b}
    <3>1. PICK i \in 0 .. ((n + 1) - 1) : x = g[i]
      BY DEF First
    <3>2. CASE i = 0
      BY <2>1, <3>1, <3>2
    <3>3. CASE i # 0
      BY <2>2, <3>1, <3>3 DEF First
    <3> QED BY <3>2, <3>3
  <2>5. b \in First(n + 1, g)
    BY <2>1 DEF First
  <2>6. ASSUME NEW x \in First(n, f) PROVE x \in First(n + 1, g)
    <3>1. PICK i \in 0 .. (n - 1) : x = f[i]
      BY DEF First
    <3> QED BY <2>3, <3>1 DEF First
  <2> QED BY <2>4, <2>5, <2>6
<1> QED BY <1>2, <1>8, <1>9, <1>10

(* The first block of the list is taken off.                               *)
LEMMA PopList ==
  ASSUME NEW h \in PoolBlocks, NEW nx, HasList(h, nx)
  PROVE  /\ h \in Elements(h, nx) /\ HasList(nx[h], nx)
         /\ Elements(nx[h], nx) = Elements(h, nx) \ {h}
<1>0. MaxBlocks \in Nat /\ Null \notin PoolBlocks
  BY PoolAssumption DEF Null, PoolBlocks
<1>1. PICK n \in 0 .. MaxBlocks, f \in [0 .. MaxBlocks -> Pointers] : IsList(h, nx, n, f)
  BY DEF HasList
<1>2. Elements(h, nx) = First(n, f)
  BY <1>1, ListIs
<1>3. n # 0
  BY <1>0, <1>1 DEF IsList
<1>4. 0 \in 0 .. (n - 1) /\ f[0] = h /\ n - 1 \in 0 .. MaxBlocks /\ 0 + 1 = 1
  BY <1>0, <1>1, <1>3 DEF IsList
<1>5. PICK g : g = [i \in 0 .. MaxBlocks |-> IF i < n THEN f[i + 1] ELSE Null]
  OBVIOUS
<1>6. g \in [0 .. MaxBlocks -> Pointers]
  <2>1. \A i \in 0 .. MaxBlocks : i < n => i + 1 \in 0 .. MaxBlocks
    BY <1>0
  <2> QED BY <1>5, <2>1 DEF Pointers
<1>7. \A i \in 0 .. (n - 1) : g[i] = f[i + 1]
  <2>1. \A i \in 0 .. (n - 1) : i < n /\ i \in 0 .. MaxBlocks
    BY <1>0
  <2> QED BY <1>5, <2>1
<1>8. \A i \in 0 .. ((n - 1) - 1) : i \in 0 .. (n - 1) /\ i + 1 \in 0 .. (n - 1)
  BY <1>0
<1>9. IsList(nx[h], nx, n - 1, g)
  <2>1. g[0] = nx[h]
    BY <1>1, <1>4, <1>7 DEF IsList
  <2>2. g[n - 1] = Null
    <3>1. n - 1 \in 0 .. (n - 1) /\ (n - 1) + 1 = n
      BY <1>0, <1>3
    <3> QED BY <1>1, <1>7, <3>1 DEF IsList
  <2>3. ASSUME NEW i \in 0 .. ((n - 1) - 1) PROVE g[i] \in PoolBlocks /\ g[i + 1] = nx[g[i]]
    BY <1>1, <1>7, <1>8 DEF IsList
  <2>4. ASSUME NEW i \in 0 .. ((n - 1) - 1), NEW j \in 0 .. ((n - 1) - 1), g[i] = g[j] PROVE i = j
    <3>1. i + 1 = j + 1
      BY <1>1, <1>7, <1>8, <2>4 DEF IsList
    <3> QED BY <1>0, <3>1
  <2> QED BY <2>1, <2>2, <2>3, <2>4 DEF IsList
<1>10. HasList(nx[h], nx) /\ Elements(nx[h], nx) = First(n - 1, g)
  <2>1. PICK k : k = nx[h]
    OBVIOUS
  <2>2. IsList(k, nx, n - 1, g)
    BY <1>9, <2>1
  <2>3. Elements(k, nx) = First(n - 1, g)
    BY <1>4, <2>2, ListIs
  <2> QED BY <1>4, <1>6, <1>9, <2>1, <2>3 DEF HasList
<1>11. First(n - 1, g) = First(n, f) \ {h}
  <2>1. ASSUME NEW i \in 0 .. ((n - 1) - 1)
        PROVE  i + 1 \in 0 .. (n - 1) /\ g[i] = f[i + 1] /\ f[i + 1] # h
    <3>1. i + 1 # 0
      BY <1>0
    <3> QED BY <1>1, <1>4, <1>7, <1>8, <3>1 DEF IsList
  <2>2. ASSUME NEW i \in 0 .. (n - 1), f[i] # h
        PROVE  i - 1 \in 0 .. ((n - 1) - 1) /\ g[i - 1] = f[i]
    <3>1. i - 1 \in 0 .. ((n - 1) - 1) /\ (i - 1) + 1 = i
      BY <1>0, <1>4, <2>2
    <3> QED BY <1>7, <1>8, <3>1
  <2> QED BY <2>1, <2>2 DEF First
<1> QED BY <1>2, <1>4, <1>10, <1>11 DEF First

(* The list does not depend on the pointers of other blocks.               *)
LEMMA ListKept ==
  ASSUME NEW h, NEW nx, HasList(h, nx), NEW ny, \A b \in Elements(h, nx) : ny[b] = nx[b]
  PROVE  HasList(h, ny) /\ Elements(h, ny) = Elements(h, nx)
<1>1. PICK n \in 0 .. MaxBlocks, f \in [0 .. MaxBlocks -> Pointers] : IsList(h, nx, n, f)
  BY DEF HasList
<1>2. Elements(h, nx) = First(n, f)
  BY <1>1, ListIs
<1>3. IsList(h, ny, n, f)
  BY <1>1, <1>2 DEF IsList, First
<1>4. Elements(h, ny) = First(n, f)
  BY <1>3, ListIs
<1> QED BY <1>2, <1>3, <1>4 DEF HasList
-----------------------------------------------------------------------------
(* The fetch_add of the counts, which wrap around.                         *)
LEMMA Below == ASSUME NEW a \in Nat, NEW m \in Nat, a < m PROVE a % m = a
  OBVIOUS

(* A sum that wraps around once.                                           *)
LEMMA Beyond == ASSUME NEW a \in Nat, NEW m \in Nat, m <= a, a < m + m PROVE a % m = a - m
  OBVIOUS

(* Adding to a count, and subtracting from it by adding the complement.    *)
LEMMA Wraps ==
  ASSUME NEW x \in 0 .. (2 * SHOULD_BE_ON_FREELIST - 1)
  PROVE  LET S == SHOULD_BE_ON_FREELIST IN
         /\ x < 2 * S - 1 => (x + 1) % (2 * S) = x + 1
         /\ x >= 1 => (x + (2 * S - 1)) % (2 * S) = x - 1
         /\ x >= 2 => (x + (2 * S - 2)) % (2 * S) = x - 2
         /\ x < S => (x + S) % (2 * S) = x + S
         /\ 1 <= x /\ x <= S => (x + (S - 1)) % (2 * S) = x + S - 1
         /\ x % S = 0 <=> x = 0 \/ x = S
<1> DEFINE S == SHOULD_BE_ON_FREELIST
<1>1. S \in Nat /\ S > 1
  <2>1. Cardinality(Threads) \in Nat
    BY PoolAssumption, FS_CardinalityType
  <2> QED BY <2>1, PoolAssumption
<1> HIDE DEF S
<1>2. x \in Nat /\ x <= 2 * S - 1
  BY <1>1 DEF S
<1>3. PICK m \in Nat : m = 2 * S
  BY <1>1
<1>4. x < m - 1 => (x + 1) % m = x + 1
  BY <1>1, <1>2, <1>3, Below
<1>5. x >= 1 => (x + (m - 1)) % m = x - 1
  <2> SUFFICES ASSUME x >= 1 PROVE (x + (m - 1)) % m = x - 1
    OBVIOUS
  <2>1. PICK a \in Nat : a = x + (m - 1)
    BY <1>1, <1>2, <1>3
  <2>2. m <= a /\ a < m + m /\ a - m = x - 1
    BY <1>1, <1>2, <1>3, <2>1
  <2>3. a % m = a - m
    BY <2>2, Beyond
  <2> QED BY <2>1, <2>2, <2>3
<1>6. x >= 2 => (x + (m - 2)) % m = x - 2
  <2> SUFFICES ASSUME x >= 2 PROVE (x + (m - 2)) % m = x - 2
    OBVIOUS
  <2>1. PICK a \in Nat : a = x + (m - 2)
    BY <1>1, <1>2, <1>3
  <2>2. m <= a /\ a < m + m /\ a - m = x - 2
    BY <1>1, <1>2, <1>3, <2>1
  <2>3. a % m = a - m
    BY <2>2, Beyond
  <2> QED BY <2>1, <2>2, <2>3
<1>7. x < S => (x + S) % m = x + S
  BY <1>1, <1>2, <1>3, Below
<1>8. 1 <= x /\ x <= S => (x + (S - 1)) % m = x + S - 1
  <2>1. 1 <= x /\ x <= S => x + (S - 1) \in Nat /\ x + (S - 1) < m
    BY <1>1, <1>2, <1>3
  <2> QED BY <1>1, <1>2, <1>3, <2>1, Below
<1>9. x % S = 0 <=> x = 0 \/ x = S
  BY <1>1, <1>2, Below, Beyond
<1> QED BY <1>3, <1>4, <1>5, <1>6, <1>7, <1>8, <1>9 DEF S

(* How many threads can look at a block.                                   *)
LEMMA Card ==
  ASSUME NEW H \in SUBSET Threads, NEW t \in Threads
  PROVE  /\ Cardinality(H) \in Nat
         /\ Cardinality(H) + 1 < SHOULD_BE_ON_FREELIST
         /\ Cardinality(H) = 0 <=> H = {}
         /\ t \in H => Cardinality(H \ {t}) = Cardinality(H) - 1
         /\ t \notin H => Cardinality(H \union {t}) = Cardinality(H) + 1
<1>1. IsFiniteSet(Threads) /\ IsFiniteSet(H)
  BY PoolAssumption, FS_Subset
<1>2. Cardinality(H) \in Nat /\ Cardinality(Threads) \in Nat
  BY <1>1, FS_CardinalityType
<1>3. Cardinality(H) <= Cardinality(Threads)
  BY <1>1, FS_Subset
<1>4. Cardinality(H) = 0 <=> H = {}
  BY <1>1, FS_EmptySet
<1>5. t \in H => Cardinality(H \ {t}) = Cardinality(H) - 1
  BY <1>1, FS_RemoveElement
<1>6. t \notin H => Cardinality(H \union {t}) = Cardinality(H) + 1
  BY <1>1, FS_AddElement
<1> QED BY <1>2, <1>3, <1>4, <1>5, <1>6, PoolAssumption

(* The fields that a call has at each of its steps.                        *)
LEMMA CallFacts ==
  ASSUME NEW c, CallOK(c)
  PROVE  /\ c.pc \in {"refs", "hold", "next", "pop", "got"} => c.head \in PoolBlocks
         /\ c.pc = "pop" => c.next \in Pointers
         /\ c.pc = "leave" => c.prevHead \in PoolBlocks /\ c.head \in Pointers
         /\ c.pc \in Linking \union Pushing => c.node \in PoolBlocks /\ c.then \in Thens
         /\ c.pc \in {"addNext", "addRefs"} \union Pushing =>
              c \in [pc : {"addNext", "addRefs"} \union Pushing, node : PoolBlocks, then : Thens,
                     head : Pointers]
  BY DEF CallOK, Linking, Pushing

(* The calls that have nothing to do with any block.                       *)
Unmarked == {"idle", "initial", "head", "create", "refs", "hold"}

(* Such a call holds, has taken, links and pushes no block.                *)
LEMMA UnmarkedIs ==
  ASSUME NEW c, c.pc \in Unmarked, NEW b
  PROVE  ~Holds(c, b) /\ ~Gets(c, b) /\ ~Links(c, b) /\ ~Pushes(c, b)
  BY DEF Unmarked, Holds, Gets, Links, Pushes, Linking, Pushing

(* What a thread goes on with after an add concerns no block yet.          *)
LEMMA ThenIs ==
  ASSUME NEW c \in Thens
  PROVE  CallOK(c) /\ c.pc \in Unmarked /\ c.pc # "hold" /\ \A nx : CallFits(c, nx)
<1>1. c.pc \in {"idle", "create", "refs"}
  BY DEF Thens, NoCall
<1>2. CallOK(c)
  BY DEF Thens, NoCall, CallOK
<1> QED BY <1>1, <1>2 DEF Unmarked, CallFits

(* try_get goes on with the head it has loaded, or creates a block.        *)
LEMMA WithHeadIs == ASSUME NEW h \in Pointers PROVE WithHead(h) \in Thens
  BY DEF WithHead, Pointers, Thens

(* The sets of threads after a step of thread t.                           *)
LEMMA SetsStep ==
  ASSUME PoolTypeOK, NEW t \in Threads, NEW c, Goto(t, c), NEW b
  PROVE  /\ Holders(b)' = (Holders(b) \ {t}) \union {u \in {t} : Holds(c, b)}
         /\ Getters(b)' = (Getters(b) \ {t}) \union {u \in {t} : Gets(c, b)}
         /\ Linkers(b)' = (Linkers(b) \ {t}) \union {u \in {t} : Links(c, b)}
         /\ Pushers(b)' = (Pushers(b) \ {t}) \union {u \in {t} : Pushes(c, b)}
<1>1. call'[t] = c /\ \A u \in Threads \ {t} : call'[u] = call[u]
  BY DEF PoolTypeOK, Goto
<1>2. Holders(b)' = (Holders(b) \ {t}) \union {u \in {t} : Holds(c, b)}
  BY <1>1 DEF Holders
<1>3. Getters(b)' = (Getters(b) \ {t}) \union {u \in {t} : Gets(c, b)}
  BY <1>1 DEF Getters
<1>4. Linkers(b)' = (Linkers(b) \ {t}) \union {u \in {t} : Links(c, b)}
  BY <1>1 DEF Linkers
<1>5. Pushers(b)' = (Pushers(b) \ {t}) \union {u \in {t} : Pushes(c, b)}
  BY <1>1 DEF Pushers
<1> QED BY <1>2, <1>3, <1>4, <1>5

(* A block that a step leaves alone stays as it is.                        *)
SameMarks(c, d, b) == /\ Holds(c, b) <=> Holds(d, b)
                      /\ Gets(c, b) <=> Gets(d, b)
                      /\ Links(c, b) <=> Links(d, b)
                      /\ Pushes(c, b) <=> Pushes(d, b)

(* If the call of t has to do with b what it had to do before, the threads *)
(* that are concerned with b stay the same.                                *)
LEMMA Alike ==
  ASSUME PoolTypeOK, NEW t \in Threads, NEW c, Goto(t, c), NEW b, SameMarks(c, call[t], b)
  PROVE  /\ Holders(b)' = Holders(b) /\ Getters(b)' = Getters(b)
         /\ Linkers(b)' = Linkers(b) /\ Pushers(b)' = Pushers(b)
<1>1. /\ Holds(c, b) <=> t \in Holders(b)
      /\ Gets(c, b) <=> t \in Getters(b)
      /\ Links(c, b) <=> t \in Linkers(b)
      /\ Pushes(c, b) <=> t \in Pushers(b)
  BY DEF SameMarks, Holders, Getters, Linkers, Pushers
<1> QED BY <1>1, SetsStep

(* The count of such a block stays right.                                  *)
LEMMA Frame ==
  ASSUME PoolInv, NEW t \in Threads, NEW c, Goto(t, c), NEW b \in PoolBlocks,
         SameMarks(c, call[t], b), freeListRefs'[b] = freeListRefs[b],
         b \in OnList' <=> b \in OnList, b \in Allocated' <=> b \in Allocated,
         \A u \in Threads : b \in held'[u] <=> b \in held[u]
  PROVE  Counted(b)'
<1>1. /\ Holders(b)' = Holders(b) /\ Getters(b)' = Getters(b)
      /\ Linkers(b)' = Linkers(b) /\ Pushers(b)' = Pushers(b)
  BY Alike DEF PoolInv
<1>2. Users(b)' = Users(b)
  BY DEF Users
<1>3. BlockOK(b, freeListRefs[b], Holders(b), OnList, Allocated,
              Users(b), Getters(b), Linkers(b), Pushers(b))
  BY DEF PoolInv, CountsOK, Counted
<1>4. BlockOK(b, freeListRefs[b], Holders(b), OnList', Allocated',
              Users(b), Getters(b), Linkers(b), Pushers(b))
  BY <1>3 DEF BlockOK
<1> QED BY <1>1, <1>2, <1>4 DEF Counted

(* The calls after a step of thread t that changes no pointer.             *)
LEMMA CallsStep ==
  ASSUME PoolInv, NEW t \in Threads, NEW c, Goto(t, c), CallOK(c), CallFits(c, freeListNext),
         freeListNext' = freeListNext
  PROVE  CallsFit' /\ DOMAIN call' = Threads /\ \A u \in Threads : CallOK(call'[u])
<1>1. call'[t] = c /\ DOMAIN call' = Threads /\ \A u \in Threads \ {t} : call'[u] = call[u]
  BY DEF PoolInv, PoolTypeOK, Goto
<1>2. \A u \in Threads : CallOK(call[u]) /\ CallFits(call[u], freeListNext)
  BY DEF PoolInv, PoolTypeOK, CallsFit
<1>3. \A u \in Threads : CallOK(call'[u]) /\ CallFits(call'[u], freeListNext)
  BY <1>1, <1>2
<1> QED BY <1>1, <1>3 DEF CallsFit

(* A step that touches no block.                                           *)
LEMMA Quiet ==
  ASSUME PoolInv, NEW t \in Threads, NEW c, Goto(t, c), CallOK(c), CallFits(c, freeListNext),
         \A b \in PoolBlocks : SameMarks(c, call[t], b),
         UNCHANGED <<created, listVars, held>>,
         initialBlockPoolIndex' \in Nat, Allocated' = Allocated
  PROVE  PoolInv'
<1>0. OnList' = OnList
  BY DEF listVars, OnList, ListAt
<1>1. CallsFit' /\ DOMAIN call' = Threads /\ \A u \in Threads : CallOK(call'[u])
  BY CallsStep DEF listVars
<1>2. PoolTypeOK'
  BY <1>1 DEF PoolInv, PoolTypeOK, listVars
<1>3. ListOK'
  BY DEF PoolInv, ListOK, listVars
<1>4. CountsOK'
  <2> SUFFICES ASSUME NEW b \in PoolBlocks PROVE Counted(b)'
    BY DEF CountsOK
  <2> QED BY <1>0, Frame DEF listVars
<1> QED BY <1>1, <1>2, <1>3, <1>4 DEF PoolInv

(* A step that touches block x only.                                       *)
LEMMA OneBlock ==
  ASSUME PoolInv, NEW t \in Threads, NEW c, Goto(t, c), NEW x \in PoolBlocks, Counted(x)',
         \A b \in PoolBlocks \ {x} :
           /\ SameMarks(c, call[t], b) /\ freeListRefs'[b] = freeListRefs[b]
           /\ b \in OnList' <=> b \in OnList
           /\ b \in Allocated' <=> b \in Allocated
           /\ \A u \in Threads : b \in held'[u] <=> b \in held[u]
  PROVE  CountsOK'
<1> SUFFICES ASSUME NEW b \in PoolBlocks PROVE Counted(b)'
  BY DEF CountsOK
<1>1. CASE b = x
  BY <1>1
<1>2. CASE b # x
  BY <1>2, Frame
<1> QED BY <1>1, <1>2
-----------------------------------------------------------------------------
(* Two calls that have nothing to do with a block.                         *)
LEMMA BothUnmarked ==
  ASSUME NEW c, NEW d, c.pc \in Unmarked, d.pc \in Unmarked, NEW b
  PROVE  SameMarks(c, d, b)
  BY UnmarkedIs DEF SameMarks

(* The steps of requisition_block that only load.                          *)
LEMMA RequisitionKeeps ==
  ASSUME PoolInv, NEW t \in Threads, Requisition(t) \/ LoadHead(t) \/ LoadRefs(t)
  PROVE  PoolInv'
<1>1. PICK c : /\ Goto(t, c) /\ CallOK(c) /\ CallFits(c, freeListNext)
               /\ c.pc \in Unmarked /\ call[t].pc \in Unmarked
  <2>0. CallOK(call[t]) /\ freeListHead \in Pointers
    BY DEF PoolInv, PoolTypeOK
  <2>1. CASE Requisition(t)
    BY <2>1 DEF Requisition, CallOK, CallFits, Unmarked
  <2>2. CASE LoadHead(t)
    <3>1. WithHead(freeListHead) \in Thens
      BY <2>0, WithHeadIs
    <3> QED BY <2>2, <3>1, ThenIs DEF LoadHead, Unmarked
  <2>3. CASE LoadRefs(t)
    <3> DEFINE h == call[t].head
               r == freeListRefs[h]
    <3>1. h \in PoolBlocks /\ r \in Nat
      <4>1. h \in PoolBlocks
        BY <2>0, <2>3, CallFacts DEF LoadRefs
      <4>2. SHOULD_BE_ON_FREELIST \in Nat
        BY PoolAssumption
      <4> QED BY <4>1, <4>2 DEF PoolInv, PoolTypeOK
    <3> HIDE DEF h, r
    <3>2. CASE r % SHOULD_BE_ON_FREELIST = 0
      <4>1. Goto(t, [pc |-> "head"])
        BY <2>3, <3>2 DEF LoadRefs, h, r
      <4> QED BY <2>3, <4>1 DEF LoadRefs, CallOK, CallFits, Unmarked
    <3>3. CASE r % SHOULD_BE_ON_FREELIST # 0
      <4>1. PICK c : c = [pc |-> "hold", head |-> h, refs |-> r]
        OBVIOUS
      <4>2. Goto(t, c)
        BY <2>3, <3>3, <4>1 DEF LoadRefs, h, r
      <4>3. CallOK(c) /\ CallFits(c, freeListNext) /\ c.pc \in Unmarked
        BY <3>1, <3>3, <4>1 DEF CallOK, CallFits, Unmarked
      <4>4. call[t].pc \in Unmarked
        BY <2>3 DEF LoadRefs, Unmarked
      <4> QED BY <4>2, <4>3, <4>4
    <3> QED BY <3>2, <3>3
  <2> QED BY <2>1, <2>2, <2>3
<1>2. UNCHANGED <<initialBlockPoolIndex, created, listVars, held>>
  BY DEF Requisition, LoadHead, LoadRefs
<1>3. initialBlockPoolIndex' \in Nat /\ Allocated' = Allocated
  BY <1>2 DEF PoolInv, PoolTypeOK, Allocated
<1> QED BY <1>1, <1>2, <1>3, BothUnmarked, Quiet

(* The next of the head is loaded: the thread keeps its reference.         *)
LEMMA LoadNextKeeps ==
  ASSUME PoolInv, NEW t \in Threads, LoadNext(t)
  PROVE  PoolInv'
<1>1. CallOK(call[t]) /\ call[t].pc = "next"
  BY DEF PoolInv, PoolTypeOK, LoadNext
<1>2. call[t].head \in PoolBlocks /\ freeListNext[call[t].head] \in Pointers
  <2>1. call[t].head \in PoolBlocks
    BY <1>1, CallFacts
  <2> QED BY <2>1 DEF PoolInv, PoolTypeOK
<1>3. PICK c : c = [pc |-> "pop", head |-> call[t].head, next |-> freeListNext[call[t].head]]
  OBVIOUS
<1>4. Goto(t, c) /\ CallOK(c) /\ CallFits(c, freeListNext)
  BY <1>2, <1>3 DEF LoadNext, CallOK, CallFits
<1>5. \A b \in PoolBlocks : SameMarks(c, call[t], b)
  BY <1>1, <1>3 DEF SameMarks, Holds, Gets, Links, Pushes, Linking, Pushing
<1>6. UNCHANGED <<initialBlockPoolIndex, created, listVars, held>>
  BY DEF LoadNext
<1>7. initialBlockPoolIndex' \in Nat /\ Allocated' = Allocated
  BY <1>6 DEF PoolInv, PoolTypeOK, Allocated
<1> QED BY <1>4, <1>5, <1>6, <1>7, Quiet

(* The head is loaded in add_knowing_refcount_is_zero.                     *)
LEMMA AddLoadHeadKeeps ==
  ASSUME PoolInv, NEW t \in Threads, AddLoadHead(t)
  PROVE  PoolInv'
<1>1. CallOK(call[t]) /\ call[t].pc = "addHead" /\ freeListHead \in Pointers
  BY DEF PoolInv, PoolTypeOK, AddLoadHead
<1>2. call[t].node \in PoolBlocks /\ call[t].then \in Thens
  BY <1>1, CallFacts DEF Linking
<1>3. PICK c : c = [pc |-> "addNext", node |-> call[t].node, then |-> call[t].then,
                    head |-> freeListHead]
  OBVIOUS
<1>4. Goto(t, c) /\ CallOK(c) /\ CallFits(c, freeListNext)
  BY <1>1, <1>2, <1>3 DEF AddLoadHead, CallOK, CallFits
<1>5. \A b \in PoolBlocks : SameMarks(c, call[t], b)
  BY <1>1, <1>3 DEF SameMarks, Holds, Gets, Links, Pushes, Linking, Pushing
<1>6. UNCHANGED <<initialBlockPoolIndex, created, listVars, held>>
  BY DEF AddLoadHead
<1>7. initialBlockPoolIndex' \in Nat /\ Allocated' = Allocated
  BY <1>6 DEF PoolInv, PoolTypeOK, Allocated
<1> QED BY <1>4, <1>5, <1>6, <1>7, Quiet

(* A new block, from the initial pool or from the heap, is nobody's.       *)
LEMMA NewBlock ==
  ASSUME PoolInv, NEW t \in Threads, NEW x \in PoolBlocks, x \notin Allocated,
         Goto(t, NoCall), call[t].pc \in Unmarked,
         held' = [held EXCEPT ![t] = @ \union {x}], UNCHANGED listVars,
         Allocated' = Allocated \union {x},
         initialBlockPoolIndex' \in Nat,
         created' \in 0 .. (MaxBlocks - initialBlockPoolSize)
  PROVE  PoolInv'
<1>1. CallOK(NoCall) /\ CallFits(NoCall, freeListNext) /\ NoCall.pc \in Unmarked
  BY DEF NoCall, CallOK, CallFits, Unmarked
<1>2. OnList' = OnList
  BY DEF listVars, OnList, ListAt
<1>3. CallsFit' /\ DOMAIN call' = Threads /\ \A u \in Threads : CallOK(call'[u])
  BY <1>1, CallsStep DEF listVars
<1>4. PoolTypeOK' /\ ListOK'
  BY <1>3 DEF PoolInv, PoolTypeOK, ListOK, listVars
<1>5. \A b \in PoolBlocks : SameMarks(NoCall, call[t], b)
  BY <1>1, BothUnmarked
<1>6. \A b \in PoolBlocks, u \in Threads : b \in held'[u] <=> b \in held[u] \/ (b = x /\ u = t)
  BY DEF PoolInv, PoolTypeOK
<1>7. Counted(x)'
  <2>1. BlockOK(x, freeListRefs[x], Holders(x), OnList, Allocated,
                Users(x), Getters(x), Linkers(x), Pushers(x))
    BY DEF PoolInv, CountsOK, Counted
  <2>2. /\ x \notin OnList /\ Users(x) = {} /\ Getters(x) = {} /\ Linkers(x) = {}
        /\ Pushers(x) = {} /\ freeListRefs[x] = 0 /\ Holders(x) = {}
    BY <2>1 DEF BlockOK
  <2>3. Users(x)' = {t}
    BY <1>6, <2>2 DEF Users
  <2>4. /\ Holders(x)' = {} /\ Getters(x)' = {} /\ Linkers(x)' = {} /\ Pushers(x)' = {}
    BY <1>5, <2>2, Alike DEF PoolInv
  <2>5. Cardinality({}) = 0
    BY FS_EmptySet
  <2>6. BlockOK(x, 0, {}, OnList, Allocated', {t}, {}, {}, {})
    BY <2>2, <2>5 DEF BlockOK
  <2> QED BY <1>2, <2>2, <2>3, <2>4, <2>6 DEF Counted, listVars
<1>8. CountsOK'
  BY <1>2, <1>5, <1>6, <1>7, OneBlock DEF listVars
<1> QED BY <1>3, <1>4, <1>8 DEF PoolInv

(* try_get_block_from_initial_pool.                                        *)
LEMMA InitialKeeps ==
  ASSUME PoolInv, NEW t \in Threads, Initial(t)
  PROVE  PoolInv'
<1>1. /\ initialBlockPoolIndex \in Nat /\ initialBlockPoolSize \in 0 .. MaxBlocks
      /\ MaxBlocks \in Nat /\ created \in Nat /\ call[t].pc \in Unmarked
      /\ initialBlockPoolIndex' = initialBlockPoolIndex + 1 /\ UNCHANGED <<created, listVars>>
  BY PoolAssumption DEF PoolInv, PoolTypeOK, Initial, Unmarked
<1>2. CASE initialBlockPoolIndex < initialBlockPoolSize
  <2>1. PICK x \in PoolBlocks : x = initialBlockPoolIndex + 1
    BY <1>1, <1>2 DEF PoolBlocks
  <2>2. x \notin Allocated
    BY <1>1, <1>2, <2>1 DEF Allocated
  <2>3. Allocated' = Allocated \union {x}
    BY <1>1, <1>2, <2>1 DEF Allocated, PoolBlocks
  <2>4. held' = [held EXCEPT ![t] = @ \union {x}] /\ Goto(t, NoCall)
    BY <1>2, <2>1 DEF Initial
  <2>5. initialBlockPoolIndex' \in Nat /\ created' \in 0 .. (MaxBlocks - initialBlockPoolSize)
    BY <1>1 DEF PoolInv, PoolTypeOK
  <2> QED BY <1>1, <2>2, <2>3, <2>4, <2>5, NewBlock
<1>3. CASE ~(initialBlockPoolIndex < initialBlockPoolSize)
  <2>1. PICK c : c = [pc |-> "head"]
    OBVIOUS
  <2>2. Goto(t, c) /\ held' = held
    BY <1>3, <2>1 DEF Initial
  <2>3. CallOK(c) /\ CallFits(c, freeListNext) /\ c.pc \in Unmarked
    BY <2>1 DEF CallOK, CallFits, Unmarked
  <2>4. Allocated' = Allocated
    BY <1>1, <1>3 DEF Allocated, PoolBlocks
  <2>5. \A b \in PoolBlocks : SameMarks(c, call[t], b)
    BY <1>1, <2>3, BothUnmarked
  <2> QED BY <1>1, <2>2, <2>3, <2>4, <2>5, Quiet
<1> QED BY <1>2, <1>3

(* create<Block>, or no block at all.                                      *)
LEMMA CreateKeeps ==
  ASSUME PoolInv, NEW t \in Threads, Create(t)
  PROVE  PoolInv'
<1>1. /\ initialBlockPoolIndex \in Nat /\ initialBlockPoolSize \in 0 .. MaxBlocks
      /\ MaxBlocks \in Nat /\ created \in 0 .. (MaxBlocks - initialBlockPoolSize)
      /\ call[t].pc \in Unmarked /\ Goto(t, NoCall)
      /\ UNCHANGED <<initialBlockPoolIndex, listVars>>
  BY PoolAssumption DEF PoolInv, PoolTypeOK, Create, Unmarked
<1>2. CASE /\ initialBlockPoolSize + created < MaxBlocks
           /\ created' = created + 1
           /\ held' = [held EXCEPT ![t] = @ \union {initialBlockPoolSize + created + 1}]
  <2>1. PICK x \in PoolBlocks : x = initialBlockPoolSize + created + 1
    BY <1>1, <1>2 DEF PoolBlocks
  <2>2. x \notin Allocated
    BY <1>1, <1>2, <2>1 DEF Allocated
  <2>3. Allocated' = Allocated \union {x}
    BY <1>1, <1>2, <2>1 DEF Allocated, PoolBlocks
  <2>4. held' = [held EXCEPT ![t] = @ \union {x}]
    BY <1>2, <2>1
  <2>5. initialBlockPoolIndex' \in Nat /\ created' \in 0 .. (MaxBlocks - initialBlockPoolSize)
    BY <1>1, <1>2
  <2> QED BY <1>1, <2>2, <2>3, <2>4, <2>5, NewBlock
<1>3. CASE UNCHANGED <<created, held>>
  <2>1. CallOK(NoCall) /\ CallFits(NoCall, freeListNext) /\ NoCall.pc \in Unmarked
    BY DEF NoCall, CallOK, CallFits, Unmarked
  <2>2. Allocated' = Allocated
    BY <1>1, <1>3 DEF Allocated
  <2>3. \A b \in PoolBlocks : SameMarks(NoCall, call[t], b)
    BY <1>1, <2>1, BothUnmarked
  <2> QED BY <1>1, <1>3, <2>1, <2>2, <2>3, Quiet
<1> QED BY <1>2, <1>3 DEF Create
-----------------------------------------------------------------------------
(* What is known of the count of a block.                                  *)
LEMMA CountFacts ==
  ASSUME PoolInv, NEW x \in PoolBlocks
  PROVE  /\ BlockOK(x, freeListRefs[x], Holders(x), OnList, Allocated,
                    Users(x), Getters(x), Linkers(x), Pushers(x))
         /\ freeListRefs[x] \in 0 .. (2 * SHOULD_BE_ON_FREELIST - 1) /\ freeListRefs[x] \in Nat
         /\ Holders(x) \in SUBSET Threads
         /\ SHOULD_BE_ON_FREELIST \in Nat
<1>1. SHOULD_BE_ON_FREELIST \in Nat
  BY PoolAssumption
<1> QED BY <1>1 DEF PoolInv, PoolTypeOK, CountsOK, Counted, Holders

(* A thread takes a reference to a block whose count is not zero.          *)
LEMMA HoldKeeps ==
  ASSUME PoolInv, NEW t \in Threads, Hold(t)
  PROVE  PoolInv'
<1>1. CallOK(call[t]) /\ call[t].pc = "hold" /\ call[t].pc \in Unmarked
  BY DEF PoolInv, PoolTypeOK, Hold, Unmarked
<1>2. PICK x \in PoolBlocks : x = call[t].head
  BY <1>1, CallFacts
<1>3. UNCHANGED <<initialBlockPoolIndex, created, freeListHead, freeListNext, held>>
  BY DEF Hold
<1>4. Allocated' = Allocated /\ initialBlockPoolIndex' \in Nat /\ OnList' = OnList
  BY <1>3 DEF PoolInv, PoolTypeOK, Allocated, OnList, ListAt
<1>5. CASE freeListRefs[x] = call[t].refs
  <2>1. PICK c : c = [pc |-> "next", head |-> x]
    OBVIOUS
  <2>2. Goto(t, c) /\ AddRefs(x, 1)
    BY <1>2, <1>5, <2>1 DEF Hold
  <2>3. CallOK(c) /\ CallFits(c, freeListNext)
    BY <2>1 DEF CallOK, CallFits
  <2>4. PICK r : r = freeListRefs[x]
    OBVIOUS
  <2>5. /\ BlockOK(x, r, Holders(x), OnList, Allocated,
                   Users(x), Getters(x), Linkers(x), Pushers(x))
        /\ r \in 0 .. (2 * SHOULD_BE_ON_FREELIST - 1) /\ r \in Nat
        /\ Holders(x) \in SUBSET Threads /\ SHOULD_BE_ON_FREELIST \in Nat
    BY <2>4, CountFacts
  <2>6. r # 0 /\ r # SHOULD_BE_ON_FREELIST
    <3>1. r % SHOULD_BE_ON_FREELIST # 0
      BY <1>1, <1>5, <2>4 DEF PoolInv, CallsFit, CallFits
    <3> QED BY <2>5, <3>1, Wraps
  <2>7. t \notin Holders(x)
    BY <1>1, UnmarkedIs DEF Holders
  <2>8. PICK k \in Nat : k = Cardinality(Holders(x)) /\ k + 1 < SHOULD_BE_ON_FREELIST
    BY <2>5, Card
  <2>9. Cardinality(Holders(x) \union {t}) = k + 1
    BY <2>5, <2>7, <2>8, Card
  <2>10. r < 2 * SHOULD_BE_ON_FREELIST - 1
    BY <2>5, <2>6, <2>8 DEF BlockOK
  <2>11. freeListRefs' = [freeListRefs EXCEPT ![x] = r + 1]
    BY <2>2, <2>4, <2>5, <2>10, Wraps DEF AddRefs
  <2>12. CallsFit' /\ DOMAIN call' = Threads /\ \A u \in Threads : CallOK(call'[u])
    BY <1>3, <2>2, <2>3, CallsStep
  <2>13. PoolTypeOK' /\ ListOK'
    <3>1. freeListRefs' \in [PoolBlocks -> 0 .. (2 * SHOULD_BE_ON_FREELIST - 1)]
      BY <2>5, <2>10, <2>11 DEF PoolInv, PoolTypeOK
    <3> QED BY <1>3, <2>12, <3>1 DEF PoolInv, PoolTypeOK, ListOK
  <2>14. \A b \in PoolBlocks :
         /\ (Holds(c, b) <=> b = x)
         /\ ~Gets(c, b) /\ ~Links(c, b) /\ ~Pushes(c, b)
    BY <2>1 DEF Holds, Gets, Links, Pushes, Linking, Pushing
  <2>15. \A b \in PoolBlocks \ {x} : SameMarks(c, call[t], b)
    <3>1. \A b \in PoolBlocks : /\ ~Holds(call[t], b) /\ ~Gets(call[t], b)
         /\ ~Links(call[t], b) /\ ~Pushes(call[t], b)
      BY <1>1, UnmarkedIs
    <3> QED BY <2>14, <3>1 DEF SameMarks
  <2>16. Counted(x)'
    <3>1. /\ t \notin Getters(x) /\ t \notin Linkers(x) /\ t \notin Pushers(x)
      BY <1>1, UnmarkedIs DEF Getters, Linkers, Pushers
    <3>2. /\ Holders(x)' = Holders(x) \union {t} /\ Getters(x)' = Getters(x)
          /\ Linkers(x)' = Linkers(x) /\ Pushers(x)' = Pushers(x)
      <4>1. Holds(c, x) /\ ~Gets(c, x) /\ ~Links(c, x) /\ ~Pushes(c, x)
        BY <2>14
      <4> QED BY <2>2, <2>7, <3>1, <4>1, SetsStep DEF PoolInv
    <3>3. Users(x)' = Users(x) /\ freeListRefs'[x] = r + 1
      BY <1>3, <2>11 DEF Users, PoolInv, PoolTypeOK
    <3>4. BlockOK(x, r + 1, Holders(x) \union {t}, OnList, Allocated,
                  Users(x), Getters(x), Linkers(x), Pushers(x))
      BY <2>5, <2>6, <2>8, <2>9 DEF BlockOK
    <3> QED BY <1>4, <3>2, <3>3, <3>4 DEF Counted
  <2>17. \A b \in PoolBlocks \ {x} : freeListRefs'[b] = freeListRefs[b]
    BY <2>11 DEF PoolInv, PoolTypeOK
  <2>18. CountsOK'
    BY <1>3, <1>4, <2>2, <2>15, <2>16, <2>17, OneBlock
  <2> QED BY <2>12, <2>13, <2>18 DEF PoolInv
<1>6. CASE freeListRefs[x] # call[t].refs
  <2>1. PICK c : c = [pc |-> "head"]
    OBVIOUS
  <2>2. Goto(t, c) /\ UNCHANGED listVars
    BY <1>2, <1>3, <1>6, <2>1 DEF Hold, listVars
  <2>3. CallOK(c) /\ CallFits(c, freeListNext) /\ c.pc \in Unmarked
    BY <2>1 DEF CallOK, CallFits, Unmarked
  <2>4. \A b \in PoolBlocks : SameMarks(c, call[t], b)
    BY <1>1, <2>3, BothUnmarked
  <2> QED BY <1>3, <1>4, <2>2, <2>3, <2>4, Quiet
<1> QED BY <1>5, <1>6

(* The head is taken off the list: its next is the one that was loaded.    *)
LEMMA PopKeeps ==
  ASSUME PoolInv, NEW t \in Threads, Pop(t)
  PROVE  PoolInv'
<1>1. /\ CallOK(call[t]) /\ call[t].pc = "pop"
      /\ call[t].next = freeListNext[call[t].head] /\ freeListHead \in Pointers
  BY DEF PoolInv, PoolTypeOK, CallsFit, CallFits, Pop
<1>2. PICK x \in PoolBlocks : x = call[t].head
  BY <1>1, CallFacts
<1>3. UNCHANGED <<initialBlockPoolIndex, created, freeListRefs, freeListNext, held>>
  BY DEF Pop
<1>4. Allocated' = Allocated /\ initialBlockPoolIndex' \in Nat
  BY <1>3 DEF PoolInv, PoolTypeOK, Allocated
<1>5. CASE freeListHead = x
  <2>1. PICK c : c = [pc |-> "got", head |-> x]
    OBVIOUS
  <2>2. Goto(t, c) /\ freeListHead' = freeListNext[x]
    BY <1>1, <1>2, <1>5, <2>1 DEF Pop
  <2>3. CallOK(c) /\ CallFits(c, freeListNext)
    BY <2>1 DEF CallOK, CallFits
  <2>4. /\ x \in OnList /\ OnList' = OnList \ {x} /\ ListOK'
    <3>1. PICK nx : nx = freeListNext
      OBVIOUS
    <3>2. HasList(x, nx) /\ OnList = Elements(x, nx)
      BY <1>5, <3>1 DEF PoolInv, ListOK, OnList, ListAt, Elements
    <3>3. x \in Elements(x, nx) /\ HasList(nx[x], nx) /\ Elements(nx[x], nx) = Elements(x, nx) \ {x}
      BY <3>2, PopList
    <3>4. OnList' = Elements(nx[x], nx) /\ (HasList(nx[x], nx) => ListOK')
      BY <1>3, <2>2, <3>1 DEF OnList, ListAt, Elements, ListOK
    <3> QED BY <3>2, <3>3, <3>4
  <2>5. CallsFit' /\ DOMAIN call' = Threads /\ \A u \in Threads : CallOK(call'[u])
    BY <1>3, <2>2, <2>3, CallsStep
  <2>6. PoolTypeOK'
    <3>1. freeListHead' \in Pointers
      BY <2>2 DEF PoolInv, PoolTypeOK
    <3> QED BY <1>3, <2>5, <3>1 DEF PoolInv, PoolTypeOK
  <2>7. \A b \in PoolBlocks :
         /\ (Holds(c, b) <=> b = x)
         /\ (Gets(c, b) <=> b = x)
         /\ ~Links(c, b) /\ ~Pushes(c, b)
    BY <2>1 DEF Holds, Gets, Links, Pushes, Linking, Pushing
  <2>8. \A b \in PoolBlocks :
         /\ (Holds(call[t], b) <=> b = x)
         /\ ~Gets(call[t], b)
         /\ ~Links(call[t], b) /\ ~Pushes(call[t], b)
    BY <1>1, <1>2 DEF Holds, Gets, Links, Pushes, Linking, Pushing
  <2>9. \A b \in PoolBlocks \ {x} : SameMarks(c, call[t], b)
    BY <2>7, <2>8 DEF SameMarks
  <2>10. Counted(x)'
    <3>1. BlockOK(x, freeListRefs[x], Holders(x), OnList, Allocated,
                  Users(x), Getters(x), Linkers(x), Pushers(x))
      BY CountFacts
    <3>2. t \in Holders(x) /\ t \notin Getters(x) /\ t \notin Linkers(x) /\ t \notin Pushers(x)
      BY <2>8 DEF Holders, Getters, Linkers, Pushers
    <3>3. /\ Holders(x)' = Holders(x) /\ Getters(x)' = Getters(x) \union {t}
          /\ Linkers(x)' = Linkers(x) /\ Pushers(x)' = Pushers(x)
      <4>1. Holds(c, x) /\ Gets(c, x) /\ ~Links(c, x) /\ ~Pushes(c, x)
        BY <2>7
      <4> QED BY <2>2, <3>2, <4>1, SetsStep DEF PoolInv
    <3>4. Users(x)' = Users(x) /\ freeListRefs'[x] = freeListRefs[x]
      BY <1>3 DEF Users
    <3>5. BlockOK(x, freeListRefs[x], Holders(x), OnList \ {x}, Allocated,
                  Users(x), Getters(x) \union {t}, Linkers(x), Pushers(x))
      BY <2>4, <3>1 DEF BlockOK
    <3> QED BY <1>4, <2>4, <3>3, <3>4, <3>5 DEF Counted
  <2>11. CountsOK'
    BY <1>3, <1>4, <2>2, <2>4, <2>9, <2>10, OneBlock
  <2> QED BY <2>4, <2>5, <2>6, <2>11 DEF PoolInv
<1>6. CASE freeListHead # x
  <2>1. PICK c : c = [pc |-> "leave", prevHead |-> x, head |-> freeListHead]
    OBVIOUS
  <2>2. Goto(t, c) /\ UNCHANGED listVars
    BY <1>2, <1>3, <1>6, <2>1 DEF Pop, listVars
  <2>3. CallOK(c) /\ CallFits(c, freeListNext)
    BY <1>1, <2>1 DEF CallOK, CallFits
  <2>4. \A b \in PoolBlocks : SameMarks(c, call[t], b)
    BY <1>1, <1>2, <2>1 DEF SameMarks, Holds, Gets, Links, Pushes, Linking, Pushing
  <2> QED BY <1>3, <1>4, <2>2, <2>3, <2>4, Quiet
<1> QED BY <1>5, <1>6

(* The count of block x is set to r by a step that leaves the list alone.  *)
LEMMA CountStep ==
  ASSUME PoolInv, NEW t \in Threads, NEW c, Goto(t, c), CallOK(c), CallFits(c, freeListNext),
         NEW x \in PoolBlocks, NEW r \in 0 .. (2 * SHOULD_BE_ON_FREELIST - 1),
         freeListRefs' = [freeListRefs EXCEPT ![x] = r],
         UNCHANGED <<initialBlockPoolIndex, created, freeListHead, freeListNext>>,
         held' \in [Threads -> SUBSET PoolBlocks],
         \A b \in PoolBlocks \ {x}, u \in Threads : b \in held'[u] <=> b \in held[u],
         \A b \in PoolBlocks \ {x} : SameMarks(c, call[t], b),
         BlockOK(x, r, Holders(x)', OnList, Allocated,
                 Users(x)', Getters(x)', Linkers(x)', Pushers(x)')
  PROVE  PoolInv'
<1>1. OnList' = OnList /\ Allocated' = Allocated
  BY DEF OnList, ListAt, Allocated
<1>2. freeListRefs'[x] = r /\ \A b \in PoolBlocks \ {x} : freeListRefs'[b] = freeListRefs[b]
  BY DEF PoolInv, PoolTypeOK
<1>3. Counted(x)'
  BY <1>1, <1>2 DEF Counted
<1>4. CountsOK'
  BY <1>1, <1>2, <1>3, OneBlock
<1>5. CallsFit' /\ DOMAIN call' = Threads /\ \A u \in Threads : CallOK(call'[u])
  BY CallsStep
<1>6. freeListRefs' \in [PoolBlocks -> 0 .. (2 * SHOULD_BE_ON_FREELIST - 1)]
  BY DEF PoolInv, PoolTypeOK
<1>7. PoolTypeOK' /\ ListOK'
  BY <1>5, <1>6 DEF PoolInv, PoolTypeOK, ListOK
<1> QED BY <1>4, <1>5, <1>7 DEF PoolInv

(* The block that was taken off the list is given to its user.             *)
LEMMA GotKeeps ==
  ASSUME PoolInv, NEW t \in Threads, Got(t)
  PROVE  PoolInv'
<1>1. CallOK(call[t]) /\ call[t].pc = "got" /\ Goto(t, NoCall)
  BY DEF PoolInv, PoolTypeOK, Got
<1>2. PICK x \in PoolBlocks : x = call[t].head
  BY <1>1, CallFacts
<1>3. /\ UNCHANGED <<initialBlockPoolIndex, created, freeListHead, freeListNext>>
      /\ held' = [held EXCEPT ![t] = @ \union {x}]
      /\ AddRefs(x, 2 * SHOULD_BE_ON_FREELIST - 2)
  BY <1>2 DEF Got
<1>4. CallOK(NoCall) /\ CallFits(NoCall, freeListNext) /\ NoCall.pc \in Unmarked
  BY DEF NoCall, CallOK, CallFits, Unmarked
<1>5. /\ ~Holds(NoCall, x) /\ ~Gets(NoCall, x) /\ ~Links(NoCall, x) /\ ~Pushes(NoCall, x)
      /\ \A b \in PoolBlocks \ {x} : SameMarks(NoCall, call[t], b)
  <2>1. \A b \in PoolBlocks : ~Holds(NoCall, b) /\ ~Gets(NoCall, b) /\ ~Links(NoCall, b) /\ ~Pushes(NoCall, b)
    BY <1>4, UnmarkedIs
  <2>2. \A b \in PoolBlocks \ {x} : /\ ~Holds(call[t], b) /\ ~Gets(call[t], b) /\ ~Links(call[t], b)
                                /\ ~Pushes(call[t], b)
    BY <1>1, <1>2 DEF Holds, Gets, Links, Pushes, Linking, Pushing
  <2> QED BY <2>1, <2>2 DEF SameMarks
<1>6. t \in Holders(x) /\ t \in Getters(x)
  BY <1>1, <1>2 DEF Holders, Getters, Holds, Gets
<1>7. PICK r : r = freeListRefs[x]
  OBVIOUS
<1>8. /\ BlockOK(x, r, Holders(x), OnList, Allocated,
                 Users(x), Getters(x), Linkers(x), Pushers(x))
      /\ r \in 0 .. (2 * SHOULD_BE_ON_FREELIST - 1) /\ r \in Nat
      /\ Holders(x) \in SUBSET Threads /\ SHOULD_BE_ON_FREELIST \in Nat
  BY <1>7, CountFacts
<1>9. /\ r = 1 + Cardinality(Holders(x)) /\ x \notin OnList /\ x \in Allocated
      /\ Users(x) = {} /\ Getters(x) = {t} /\ Linkers(x) \ {t} = {} /\ Pushers(x) \ {t} = {}
  BY <1>6, <1>8 DEF BlockOK
<1>10. PICK k \in Nat : k = Cardinality(Holders(x)) - 1 /\ Cardinality(Holders(x) \ {t}) = k
  <2>1. /\ Cardinality(Holders(x)) \in Nat /\ Cardinality(Holders(x)) # 0
        /\ Cardinality(Holders(x) \ {t}) = Cardinality(Holders(x)) - 1
    BY <1>6, <1>8, Card
  <2> QED BY <2>1
<1>11. r = k + 2 /\ k \in 0 .. (2 * SHOULD_BE_ON_FREELIST - 1)
  <2>1. Cardinality(Holders(x)) \in Nat
    BY <1>8, Card
  <2> QED BY <1>8, <1>9, <1>10, <2>1
<1>12. freeListRefs' = [freeListRefs EXCEPT ![x] = k]
  <2>1. (r + (2 * SHOULD_BE_ON_FREELIST - 2)) % (2 * SHOULD_BE_ON_FREELIST) = k
    BY <1>8, <1>11, Wraps
  <2> QED BY <1>3, <1>7, <2>1 DEF AddRefs
<1>13. /\ Holders(x)' = Holders(x) \ {t} /\ Getters(x)' = {}
       /\ Linkers(x)' = {} /\ Pushers(x)' = {}
  BY <1>1, <1>5, <1>9, SetsStep DEF PoolInv
<1>14. /\ held' \in [Threads -> SUBSET PoolBlocks] /\ Users(x)' = {t}
       /\ \A b \in PoolBlocks \ {x}, u \in Threads : b \in held'[u] <=> b \in held[u]
  <2>1. held' \in [Threads -> SUBSET PoolBlocks]
    BY <1>3 DEF PoolInv, PoolTypeOK
  <2>2. \A b \in PoolBlocks, u \in Threads : b \in held'[u] <=> b \in held[u] \/ (b = x /\ u = t)
    BY <1>3 DEF PoolInv, PoolTypeOK
  <2> QED BY <1>9, <2>1, <2>2 DEF Users
<1>15. BlockOK(x, k, Holders(x) \ {t}, OnList, Allocated, {t}, {}, {}, {})
  BY <1>9, <1>10 DEF BlockOK
<1>16. BlockOK(x, k, Holders(x)', OnList, Allocated,
               Users(x)', Getters(x)', Linkers(x)', Pushers(x)')
  BY <1>13, <1>14, <1>15
<1> QED BY <1>1, <1>3, <1>4, <1>5, <1>11, <1>12, <1>14, <1>16, CountStep

(* A reference is dropped; the last one puts a flagged block on the list.  *)
LEMMA LeaveKeeps ==
  ASSUME PoolInv, NEW t \in Threads, Leave(t)
  PROVE  PoolInv'
<1>1. CallOK(call[t]) /\ call[t].pc = "leave"
  BY DEF PoolInv, PoolTypeOK, Leave
<1>2. PICK x \in PoolBlocks : x = call[t].prevHead
  BY <1>1, CallFacts
<1>3. /\ UNCHANGED <<initialBlockPoolIndex, created, freeListHead, freeListNext, held>>
      /\ AddRefs(x, 2 * SHOULD_BE_ON_FREELIST - 1)
  BY <1>2 DEF Leave
<1>4. PICK w \in Thens : w = WithHead(call[t].head)
  BY <1>1, CallFacts, WithHeadIs
<1>5. PICK r : r = freeListRefs[x]
  OBVIOUS
<1>6. PICK c : c = IF r = SHOULD_BE_ON_FREELIST + 1
                     THEN [pc |-> "addHead", node |-> x, then |-> w] ELSE w
  OBVIOUS
<1>7. Goto(t, c)
  BY <1>2, <1>4, <1>5, <1>6 DEF Leave
<1>8. CallOK(w) /\ CallFits(w, freeListNext) /\ w.pc \in Unmarked
  BY ThenIs
<1>9. CallOK(c) /\ CallFits(c, freeListNext)
  BY <1>6, <1>8 DEF CallOK, CallFits
<1>10. /\ BlockOK(x, r, Holders(x), OnList, Allocated,
                  Users(x), Getters(x), Linkers(x), Pushers(x))
       /\ r \in 0 .. (2 * SHOULD_BE_ON_FREELIST - 1) /\ r \in Nat
       /\ Holders(x) \in SUBSET Threads /\ SHOULD_BE_ON_FREELIST \in Nat
  BY <1>5, CountFacts
<1>11. /\ t \in Holders(x) /\ t \notin Getters(x) /\ t \notin Linkers(x) /\ t \notin Pushers(x)
       /\ \A b \in PoolBlocks \ {x} : /\ ~Holds(call[t], b) /\ ~Gets(call[t], b)
                                   /\ ~Links(call[t], b) /\ ~Pushes(call[t], b)
  BY <1>1, <1>2 DEF Holders, Getters, Linkers, Pushers, Holds, Gets, Links, Pushes, Linking, Pushing
<1>12. /\ \A b \in PoolBlocks : ~Holds(c, b) /\ ~Gets(c, b) /\ ~Pushes(c, b)
       /\ \A b \in PoolBlocks : Links(c, b) <=> b = x /\ r = SHOULD_BE_ON_FREELIST + 1
  <2>1. \A b \in PoolBlocks : ~Holds(w, b) /\ ~Gets(w, b) /\ ~Links(w, b) /\ ~Pushes(w, b)
    BY <1>8, UnmarkedIs
  <2>2. CASE r = SHOULD_BE_ON_FREELIST + 1
    <3>1. c = [pc |-> "addHead", node |-> x, then |-> w]
      BY <1>6, <2>2
    <3> QED BY <2>2, <3>1 DEF Holds, Gets, Links, Pushes, Linking, Pushing
  <2>3. CASE r # SHOULD_BE_ON_FREELIST + 1
    BY <1>6, <2>1, <2>3
  <2> QED BY <2>2, <2>3
<1>13. \A b \in PoolBlocks \ {x} : SameMarks(c, call[t], b)
  BY <1>11, <1>12 DEF SameMarks
<1>14. PICK k \in Nat : k = Cardinality(Holders(x)) - 1 /\ Cardinality(Holders(x) \ {t}) = k
  <2>1. /\ Cardinality(Holders(x)) \in Nat /\ Cardinality(Holders(x)) # 0
        /\ Cardinality(Holders(x) \ {t}) = Cardinality(Holders(x)) - 1
    BY <1>10, <1>11, Card
  <2> QED BY <2>1
<1>15. Cardinality(Holders(x)) = k + 1 /\ k + 2 < SHOULD_BE_ON_FREELIST /\ (k = 0 <=> Holders(x) \ {t} = {})
  <2>1. Cardinality(Holders(x)) \in Nat /\ Cardinality(Holders(x)) + 1 < SHOULD_BE_ON_FREELIST
    BY <1>10, Card
  <2>2. Holders(x) \ {t} \in SUBSET Threads
    BY <1>10
  <2>3. Cardinality(Holders(x) \ {t}) = 0 <=> Holders(x) \ {t} = {}
    BY <2>2, Card
  <2> QED BY <1>10, <1>14, <2>1, <2>3
<1>16. r >= 1
  BY <1>10, <1>11, <1>15 DEF BlockOK
<1>17. freeListRefs' = [freeListRefs EXCEPT ![x] = r - 1] /\ r - 1 \in 0 .. (2 * SHOULD_BE_ON_FREELIST - 1)
  <2>1. (r + (2 * SHOULD_BE_ON_FREELIST - 1)) % (2 * SHOULD_BE_ON_FREELIST) = r - 1
    BY <1>10, <1>16, Wraps
  <2>2. freeListRefs' = [freeListRefs EXCEPT ![x] = r - 1]
    BY <1>3, <1>5, <2>1 DEF AddRefs
  <2>3. r - 1 \in 0 .. (2 * SHOULD_BE_ON_FREELIST - 1)
    BY <1>10, <1>16
  <2> QED BY <2>2, <2>3
<1>18. Users(x)' = Users(x) /\ held' \in [Threads -> SUBSET PoolBlocks]
  BY <1>3 DEF Users, PoolInv, PoolTypeOK
<1>19. BlockOK(x, r - 1, Holders(x)', OnList, Allocated,
               Users(x)', Getters(x)', Linkers(x)', Pushers(x)')
  <2>1. Holders(x)' = Holders(x) \ {t} /\ Getters(x)' = Getters(x) /\ Pushers(x)' = Pushers(x)
    <3>1. ~Holds(c, x) /\ ~Gets(c, x) /\ ~Pushes(c, x)
      BY <1>12
    <3> QED BY <1>7, <1>11, <3>1, SetsStep DEF PoolInv
  <2>2. CASE r = SHOULD_BE_ON_FREELIST + 1
    <3>1. /\ k = 0 /\ Holders(x) \ {t} = {} /\ x \notin OnList /\ x \in Allocated
          /\ Users(x) = {} /\ Getters(x) = {} /\ Linkers(x) = {} /\ Pushers(x) = {}
      BY <1>10, <1>11, <1>15, <2>2 DEF BlockOK
    <3>2. Links(c, x)
      BY <1>12, <2>2
    <3>3. Linkers(x)' = {t}
      BY <1>7, <3>1, <3>2, SetsStep DEF PoolInv
    <3>4. BlockOK(x, r - 1, {}, OnList, Allocated, {}, {}, {t}, {})
      BY <1>10, <2>2, <3>1 DEF BlockOK
    <3> QED BY <1>18, <2>1, <3>1, <3>3, <3>4
  <2>3. CASE r # SHOULD_BE_ON_FREELIST + 1
    <3>1. ~Links(c, x)
      BY <1>12, <2>3
    <3>2. Linkers(x)' = Linkers(x)
      BY <1>7, <1>11, <3>1, SetsStep DEF PoolInv
    <3>3. BlockOK(x, r - 1, Holders(x) \ {t}, OnList, Allocated,
                  Users(x), Getters(x), Linkers(x), Pushers(x))
      BY <1>10, <1>11, <1>14, <1>15, <2>3 DEF BlockOK
    <3> QED BY <1>18, <2>1, <3>2, <3>3
  <2> QED BY <2>2, <2>3
<1> QED BY <1>3, <1>7, <1>9, <1>13, <1>17, <1>18, <1>19, CountStep
-----------------------------------------------------------------------------
(* A user gives its block back.                                            *)
LEMMA AddKeeps ==
  ASSUME PoolInv, NEW t \in Threads, NEW x \in held[t], Add(t, x)
  PROVE  PoolInv'
<1>1. x \in PoolBlocks /\ call[t].pc \in Unmarked
  BY DEF PoolInv, PoolTypeOK, Add, Unmarked
<1>2. /\ UNCHANGED <<initialBlockPoolIndex, created, freeListHead, freeListNext>>
      /\ held' = [held EXCEPT ![t] = @ \ {x}]
      /\ AddRefs(x, SHOULD_BE_ON_FREELIST)
  BY DEF Add
<1>3. PICK r : r = freeListRefs[x]
  OBVIOUS
<1>4. PICK c : c = IF r = 0 THEN [pc |-> "addHead", node |-> x, then |-> NoCall] ELSE NoCall
  OBVIOUS
<1>5. Goto(t, c)
  BY <1>3, <1>4 DEF Add
<1>6. CallOK(NoCall) /\ CallFits(NoCall, freeListNext) /\ NoCall.pc \in Unmarked /\ NoCall \in Thens
  BY DEF NoCall, CallOK, CallFits, Unmarked, Thens
<1>7. CallOK(c) /\ CallFits(c, freeListNext)
  BY <1>1, <1>4, <1>6 DEF CallOK, CallFits
<1>8. /\ BlockOK(x, r, Holders(x), OnList, Allocated,
                 Users(x), Getters(x), Linkers(x), Pushers(x))
      /\ r \in 0 .. (2 * SHOULD_BE_ON_FREELIST - 1) /\ r \in Nat
      /\ Holders(x) \in SUBSET Threads /\ SHOULD_BE_ON_FREELIST \in Nat
  BY <1>1, <1>3, CountFacts
<1>9. \A b \in PoolBlocks : /\ ~Holds(call[t], b) /\ ~Gets(call[t], b)
                        /\ ~Links(call[t], b) /\ ~Pushes(call[t], b)
  BY <1>1, UnmarkedIs
<1>10. /\ \A b \in PoolBlocks : ~Holds(c, b) /\ ~Gets(c, b) /\ ~Pushes(c, b)
       /\ \A b \in PoolBlocks : Links(c, b) <=> b = x /\ r = 0
  <2>1. \A b \in PoolBlocks : ~Holds(NoCall, b) /\ ~Gets(NoCall, b) /\ ~Links(NoCall, b) /\ ~Pushes(NoCall, b)
    BY <1>6, UnmarkedIs
  <2>2. CASE r = 0
    <3>1. c = [pc |-> "addHead", node |-> x, then |-> NoCall]
      BY <1>4, <2>2
    <3> QED BY <2>2, <3>1 DEF Holds, Gets, Links, Pushes, Linking, Pushing
  <2>3. CASE r # 0
    BY <1>4, <2>1, <2>3
  <2> QED BY <2>2, <2>3
<1>11. \A b \in PoolBlocks \ {x} : SameMarks(c, call[t], b)
  BY <1>9, <1>10 DEF SameMarks
<1>12. /\ Users(x) = {t} /\ Getters(x) = {} /\ Linkers(x) = {} /\ Pushers(x) = {}
       /\ r = Cardinality(Holders(x)) /\ x \notin OnList /\ x \in Allocated
  <2>1. t \in Users(x)
    BY DEF Users
  <2> QED BY <1>8, <2>1 DEF BlockOK
<1>13. r + 1 < SHOULD_BE_ON_FREELIST /\ (r = 0 <=> Holders(x) = {})
  BY <1>8, <1>12, Card
<1>14. /\ freeListRefs' = [freeListRefs EXCEPT ![x] = r + SHOULD_BE_ON_FREELIST]
       /\ r + SHOULD_BE_ON_FREELIST \in 0 .. (2 * SHOULD_BE_ON_FREELIST - 1)
  <2>1. (r + SHOULD_BE_ON_FREELIST) % (2 * SHOULD_BE_ON_FREELIST) = r + SHOULD_BE_ON_FREELIST
    BY <1>8, <1>13, Wraps
  <2>2. freeListRefs' = [freeListRefs EXCEPT ![x] = r + SHOULD_BE_ON_FREELIST]
    BY <1>2, <1>3, <2>1 DEF AddRefs
  <2> QED BY <1>8, <1>13, <2>2
<1>15. /\ held' \in [Threads -> SUBSET PoolBlocks] /\ Users(x)' = {}
       /\ \A b \in PoolBlocks \ {x}, u \in Threads : b \in held'[u] <=> b \in held[u]
  <2>1. held' \in [Threads -> SUBSET PoolBlocks]
    BY <1>2 DEF PoolInv, PoolTypeOK
  <2>2. \A b \in PoolBlocks, u \in Threads : b \in held'[u] <=> b \in held[u] /\ ~(b = x /\ u = t)
    BY <1>2 DEF PoolInv, PoolTypeOK
  <2> QED BY <1>1, <1>12, <2>1, <2>2 DEF Users
<1>16. BlockOK(x, r + SHOULD_BE_ON_FREELIST, Holders(x)', OnList, Allocated,
               Users(x)', Getters(x)', Linkers(x)', Pushers(x)')
  <2>1. ~Holds(c, x) /\ ~Gets(c, x) /\ ~Pushes(c, x)
    BY <1>1, <1>10
  <2>2. t \notin Holders(x)
    BY <1>1, <1>9 DEF Holders
  <2>3. Holders(x)' = Holders(x) /\ Getters(x)' = {} /\ Pushers(x)' = {}
    BY <1>5, <1>12, <2>1, <2>2, SetsStep DEF PoolInv
  <2>4. CASE r = 0
    <3>1. Links(c, x)
      BY <1>1, <1>10, <2>4
    <3>2. Linkers(x)' = {t}
      BY <1>5, <1>12, <3>1, SetsStep DEF PoolInv
    <3>3. BlockOK(x, r + SHOULD_BE_ON_FREELIST, {}, OnList, Allocated, {}, {}, {t}, {})
      BY <1>8, <1>12, <2>4 DEF BlockOK
    <3> QED BY <1>13, <1>15, <2>3, <2>4, <3>2, <3>3
  <2>5. CASE r # 0
    <3>1. ~Links(c, x)
      BY <1>1, <1>10, <2>5
    <3>2. Linkers(x)' = {}
      BY <1>5, <1>12, <3>1, SetsStep DEF PoolInv
    <3>3. BlockOK(x, r + SHOULD_BE_ON_FREELIST, Holders(x), OnList, Allocated, {}, {}, {}, {})
      BY <1>8, <1>12, <1>13, <2>5 DEF BlockOK
    <3> QED BY <1>15, <2>3, <3>2, <3>3
  <2> QED BY <2>4, <2>5
<1> QED BY <1>1, <1>2, <1>5, <1>7, <1>11, <1>14, <1>15, <1>16, CountStep

(* The next of a block that nobody looks at is stored.                     *)
LEMMA AddStoreNextKeeps ==
  ASSUME PoolInv, NEW t \in Threads, AddStoreNext(t)
  PROVE  PoolInv'
<1>1. CallOK(call[t]) /\ call[t].pc = "addNext"
  BY DEF PoolInv, PoolTypeOK, AddStoreNext
<1>2. /\ call[t] \in [pc : {"addNext", "addRefs"} \union Pushing, node : PoolBlocks, then : Thens,
                      head : Pointers]
      /\ call[t].node \in PoolBlocks /\ call[t].head \in Pointers
  BY <1>1, CallFacts
<1>3. PICK x \in PoolBlocks : x = call[t].node
  BY <1>2
<1>4. PICK c : c = [call[t] EXCEPT !.pc = "addRefs"]
  OBVIOUS
<1>5. /\ c \in [pc : {"addNext", "addRefs"} \union Pushing, node : PoolBlocks, then : Thens,
                head : Pointers]
      /\ c.pc = "addRefs" /\ c.node = x /\ c.head = call[t].head
  BY <1>2, <1>3, <1>4
<1>6. /\ Goto(t, c) /\ freeListNext' = [freeListNext EXCEPT ![x] = c.head]
      /\ UNCHANGED <<initialBlockPoolIndex, created, freeListHead, freeListRefs, held>>
  BY <1>3, <1>4, <1>5 DEF AddStoreNext
<1>7. BlockOK(x, freeListRefs[x], Holders(x), OnList, Allocated,
              Users(x), Getters(x), Linkers(x), Pushers(x))
  BY CountFacts
<1>8. t \in Linkers(x)
  BY <1>1, <1>3 DEF Linkers, Links, Linking
<1>9. x \notin OnList /\ Holders(x) = {} /\ \A u \in Linkers(x) \union Pushers(x) : u = t
  BY <1>7, <1>8 DEF BlockOK
<1>10. ListOK' /\ OnList' = OnList
  <2>1. PICK h : h = freeListHead
    OBVIOUS
  <2>2. PICK nx : nx = freeListNext
    OBVIOUS
  <2>3. PICK ny : ny = [nx EXCEPT ![x] = c.head]
    OBVIOUS
  <2>4. HasList(h, nx) /\ OnList = Elements(h, nx)
    BY <2>1, <2>2 DEF PoolInv, ListOK, OnList, ListAt, Elements
  <2>5. \A b \in PoolBlocks \ {x} : ny[b] = nx[b]
    BY <2>2, <2>3 DEF PoolInv, PoolTypeOK
  <2>6. \A b \in Elements(h, nx) : b \in PoolBlocks /\ b # x
    <3>1. PICK n \in 0 .. MaxBlocks, f \in [0 .. MaxBlocks -> Pointers] : IsList(h, nx, n, f)
      BY <2>4 DEF HasList
    <3>2. Elements(h, nx) = First(n, f)
      BY <3>1, ListIs
    <3>3. \A b \in First(n, f) : b \in PoolBlocks
      BY <3>1 DEF First, IsList
    <3> QED BY <1>9, <2>4, <3>2, <3>3
  <2>7. HasList(h, ny) /\ Elements(h, ny) = Elements(h, nx)
    BY <2>4, <2>5, <2>6, ListKept
  <2>8. freeListHead' = h /\ freeListNext' = ny
    BY <1>6, <2>1, <2>2, <2>3
  <2>9. OnList' = Elements(h, ny) /\ (HasList(h, ny) => ListOK')
    BY <2>8 DEF OnList, ListAt, Elements, ListOK
  <2> QED BY <2>4, <2>7, <2>9
<1>11. call'[t] = c /\ DOMAIN call' = Threads /\ \A u \in Threads \ {t} : call'[u] = call[u]
  BY <1>6 DEF PoolInv, PoolTypeOK, Goto
<1>12. CallOK(c)
  BY <1>5 DEF CallOK
<1>13. /\ freeListNext' \in [PoolBlocks -> Pointers] /\ freeListNext'[x] = c.head
       /\ \A b \in PoolBlocks \ {x} : freeListNext'[b] = freeListNext[b]
  BY <1>2, <1>5, <1>6 DEF PoolInv, PoolTypeOK
<1>14. PoolTypeOK'
  BY <1>6, <1>11, <1>12, <1>13 DEF PoolInv, PoolTypeOK
<1>15. CallsFit'
  <2> SUFFICES ASSUME NEW u \in Threads PROVE CallFits(call'[u], freeListNext')
    BY DEF CallsFit
  <2>1. CASE u = t
    BY <1>5, <1>11, <1>13, <2>1 DEF CallFits
  <2>2. CASE u # t
    <3>1. call'[u] = call[u] /\ CallOK(call[u]) /\ CallFits(call[u], freeListNext)
      BY <1>11, <2>2 DEF PoolInv, PoolTypeOK, CallsFit
    <3>2. call[u].pc = "pop" => call[u].head \in PoolBlocks \ {x}
      <4>1. call[u].pc = "pop" => call[u].head \in PoolBlocks
        BY <3>1, CallFacts
      <4>2. ~Holds(call[u], x)
        BY <1>9 DEF Holders
      <4> QED BY <4>1, <4>2 DEF Holds
    <3>3. call[u].pc \in {"addRefs", "add"} => call[u].node \in PoolBlocks \ {x}
      <4>1. call[u].pc \in {"addRefs", "add"} => call[u].node \in PoolBlocks
        BY <3>1, CallFacts DEF Linking, Pushing
      <4>2. ~Links(call[u], x) /\ ~Pushes(call[u], x)
        BY <1>9, <2>2 DEF Linkers, Pushers
      <4> QED BY <4>1, <4>2 DEF Links, Pushes, Linking, Pushing
    <3> QED BY <1>13, <3>1, <3>2, <3>3 DEF CallFits
  <2> QED BY <2>1, <2>2
<1>16. CountsOK'
  <2> SUFFICES ASSUME NEW b \in PoolBlocks PROVE Counted(b)'
    BY DEF CountsOK
  <2>1. SameMarks(c, call[t], b)
    BY <1>1, <1>3, <1>5 DEF SameMarks, Holds, Gets, Links, Pushes, Linking, Pushing
  <2>2. Allocated' = Allocated
    BY <1>6 DEF Allocated
  <2> QED BY <1>6, <1>10, <2>1, <2>2, Frame
<1> QED BY <1>10, <1>14, <1>15, <1>16 DEF PoolInv

(* The count is set to one: from now on others may look at the block.      *)
LEMMA AddStoreRefsKeeps ==
  ASSUME PoolInv, NEW t \in Threads, AddStoreRefs(t)
  PROVE  PoolInv'
<1>1. /\ CallOK(call[t]) /\ call[t].pc = "addRefs"
      /\ call[t].head = freeListNext[call[t].node]
  BY DEF PoolInv, PoolTypeOK, CallsFit, CallFits, AddStoreRefs
<1>2. /\ call[t] \in [pc : {"addNext", "addRefs"} \union Pushing, node : PoolBlocks, then : Thens,
                      head : Pointers]
      /\ call[t].node \in PoolBlocks
  BY <1>1, CallFacts
<1>3. PICK x \in PoolBlocks : x = call[t].node
  BY <1>2
<1>4. PICK c : c = [call[t] EXCEPT !.pc = "add"]
  OBVIOUS
<1>5. /\ c \in [pc : {"addNext", "addRefs"} \union Pushing, node : PoolBlocks, then : Thens,
                head : Pointers]
      /\ c.pc = "add" /\ c.node = x /\ c.head = call[t].head
  BY <1>2, <1>3, <1>4 DEF Pushing
<1>6. /\ Goto(t, c) /\ freeListRefs' = [freeListRefs EXCEPT ![x] = 1]
      /\ UNCHANGED <<initialBlockPoolIndex, created, freeListHead, freeListNext, held>>
  BY <1>3, <1>4 DEF AddStoreRefs
<1>7. CallOK(c) /\ CallFits(c, freeListNext)
  BY <1>1, <1>3, <1>5 DEF CallOK, CallFits
<1>8. /\ BlockOK(x, freeListRefs[x], Holders(x), OnList, Allocated,
                 Users(x), Getters(x), Linkers(x), Pushers(x))
      /\ SHOULD_BE_ON_FREELIST \in Nat
  BY CountFacts
<1>9. t \in Linkers(x)
  BY <1>1, <1>3 DEF Linkers, Links, Linking
<1>10. /\ x \notin OnList /\ x \in Allocated /\ Holders(x) = {} /\ Users(x) = {}
       /\ \A u \in Linkers(x) \union Pushers(x) \union Getters(x) : u = t
  BY <1>8, <1>9 DEF BlockOK
<1>11. /\ Getters(x) = {} /\ Pushers(x) = {}
  BY <1>1, <1>10 DEF Getters, Pushers, Gets, Pushes, Pushing
<1>12. /\ \A b \in PoolBlocks : ~Holds(c, b) /\ ~Gets(c, b) /\ ~Links(c, b)
       /\ \A b \in PoolBlocks : Pushes(c, b) <=> b = x
       /\ \A b \in PoolBlocks : ~Holds(call[t], b) /\ ~Gets(call[t], b) /\ ~Pushes(call[t], b)
       /\ \A b \in PoolBlocks : Links(call[t], b) <=> b = x
  BY <1>1, <1>3, <1>5 DEF Holds, Gets, Links, Pushes, Linking, Pushing
<1>13. \A b \in PoolBlocks \ {x} : SameMarks(c, call[t], b)
  BY <1>12 DEF SameMarks
<1>14. /\ Holders(x)' = {} /\ Getters(x)' = {} /\ Linkers(x)' = {} /\ Pushers(x)' = {t}
  <2>1. ~Holds(c, x) /\ ~Gets(c, x) /\ ~Links(c, x) /\ Pushes(c, x)
    BY <1>12
  <2> QED BY <1>6, <1>10, <1>11, <2>1, SetsStep DEF PoolInv
<1>15. Users(x)' = {} /\ held' \in [Threads -> SUBSET PoolBlocks]
  BY <1>6, <1>10 DEF Users, PoolInv, PoolTypeOK
<1>16. Cardinality({}) = 0 /\ 1 \in 0 .. (2 * SHOULD_BE_ON_FREELIST - 1)
  <2>1. Cardinality(Threads) \in Nat
    BY PoolAssumption, FS_CardinalityType
  <2> QED BY <2>1, PoolAssumption, FS_EmptySet
<1>17. BlockOK(x, 1, {}, OnList, Allocated, {}, {}, {}, {t})
  BY <1>10, <1>16 DEF BlockOK
<1>18. BlockOK(x, 1, Holders(x)', OnList, Allocated,
               Users(x)', Getters(x)', Linkers(x)', Pushers(x)')
  BY <1>14, <1>15, <1>17
<1> QED BY <1>6, <1>7, <1>13, <1>15, <1>16, <1>18, CountStep

(* A thread that pushes block x, and nobody else has it.                   *)
LEMMA PushFacts ==
  ASSUME PoolInv, NEW t \in Threads, call[t].pc \in Pushing
  PROVE  \E x \in PoolBlocks :
           /\ x = call[t].node /\ call[t].then \in Thens
           /\ call[t] \in [pc : {"addNext", "addRefs"} \union Pushing, node : PoolBlocks,
                           then : Thens, head : Pointers]
           /\ freeListRefs[x] = 1 + Cardinality(Holders(x))
           /\ x \notin OnList /\ x \in Allocated
           /\ Users(x) = {} /\ Getters(x) = {} /\ Linkers(x) = {} /\ Pushers(x) = {t}
           /\ \A b \in PoolBlocks : ~Holds(call[t], b) /\ ~Gets(call[t], b) /\ ~Links(call[t], b)
           /\ \A b \in PoolBlocks \ {x} : ~Pushes(call[t], b)
<1>1. CallOK(call[t])
  BY DEF PoolInv, PoolTypeOK
<1>2. /\ call[t].node \in PoolBlocks /\ call[t].then \in Thens
      /\ call[t] \in [pc : {"addNext", "addRefs"} \union Pushing, node : PoolBlocks, then : Thens,
                      head : Pointers]
  BY <1>1, CallFacts
<1>3. PICK x \in PoolBlocks : x = call[t].node
  BY <1>2
<1>4. BlockOK(x, freeListRefs[x], Holders(x), OnList, Allocated,
              Users(x), Getters(x), Linkers(x), Pushers(x))
  BY CountFacts
<1>5. t \in Pushers(x)
  BY <1>3 DEF Pushers, Pushes
<1>6. /\ freeListRefs[x] = 1 + Cardinality(Holders(x)) /\ x \notin OnList /\ x \in Allocated
      /\ Users(x) = {}
      /\ \A u \in Linkers(x) \union Pushers(x) \union Getters(x) : u = t
  BY <1>4, <1>5 DEF BlockOK
<1>7. Getters(x) = {} /\ Linkers(x) = {} /\ Pushers(x) = {t}
  BY <1>5, <1>6 DEF Getters, Linkers, Gets, Links, Linking, Pushing
<1>8. /\ \A b \in PoolBlocks : ~Holds(call[t], b) /\ ~Gets(call[t], b) /\ ~Links(call[t], b)
      /\ \A b \in PoolBlocks \ {x} : ~Pushes(call[t], b)
  BY <1>3 DEF Holds, Gets, Links, Pushes, Linking, Pushing
<1> QED BY <1>2, <1>3, <1>6, <1>7, <1>8

(* The block becomes the head of the list, or the head has changed.        *)
LEMMA AddPushKeeps ==
  ASSUME PoolInv, NEW t \in Threads, AddPush(t)
  PROVE  PoolInv'
<1>1. call[t].pc = "add" /\ call[t].pc \in Pushing /\ freeListHead \in Pointers
  BY DEF PoolInv, PoolTypeOK, AddPush, Pushing
<1>2. PICK x \in PoolBlocks :
           /\ x = call[t].node /\ call[t].then \in Thens
           /\ call[t] \in [pc : {"addNext", "addRefs"} \union Pushing, node : PoolBlocks,
                           then : Thens, head : Pointers]
           /\ freeListRefs[x] = 1 + Cardinality(Holders(x))
           /\ x \notin OnList /\ x \in Allocated
           /\ Users(x) = {} /\ Getters(x) = {} /\ Linkers(x) = {} /\ Pushers(x) = {t}
           /\ \A b \in PoolBlocks : ~Holds(call[t], b) /\ ~Gets(call[t], b) /\ ~Links(call[t], b)
           /\ \A b \in PoolBlocks \ {x} : ~Pushes(call[t], b)
  BY <1>1, PushFacts
<1>3. UNCHANGED <<initialBlockPoolIndex, created, freeListRefs, freeListNext, held>>
  BY DEF AddPush
<1>4. Allocated' = Allocated /\ initialBlockPoolIndex' \in Nat
  BY <1>3 DEF PoolInv, PoolTypeOK, Allocated
<1>5. CASE freeListHead = call[t].head
  <2>1. PICK c \in Thens : c = call[t].then
    BY <1>2
  <2>2. Goto(t, c) /\ freeListHead' = x
    BY <1>2, <1>5, <2>1 DEF AddPush
  <2>3. CallOK(c) /\ CallFits(c, freeListNext) /\ c.pc \in Unmarked
    BY ThenIs
  <2>4. ListOK' /\ OnList' = OnList \union {x}
    <3>1. PICK h : h = freeListHead
      OBVIOUS
    <3>2. PICK nx : nx = freeListNext
      OBVIOUS
    <3>3. HasList(h, nx) /\ OnList = Elements(h, nx)
      BY <3>1, <3>2 DEF PoolInv, ListOK, OnList, ListAt, Elements
    <3>4. nx[x] = h
      BY <1>1, <1>2, <1>5, <3>1, <3>2 DEF PoolInv, CallsFit, CallFits
    <3>5. x \notin Elements(h, nx)
      BY <1>2, <3>3
    <3>6. nx[x] = h => HasList(x, nx) /\ Elements(x, nx) = Elements(h, nx) \union {x}
      BY <3>3, <3>5, PushList
    <3>7. OnList' = Elements(x, nx) /\ (HasList(x, nx) => ListOK')
      BY <1>3, <2>2, <3>2 DEF OnList, ListAt, Elements, ListOK
    <3> QED BY <3>3, <3>4, <3>6, <3>7
  <2>5. CallsFit' /\ DOMAIN call' = Threads /\ \A u \in Threads : CallOK(call'[u])
    BY <1>3, <2>2, <2>3, CallsStep
  <2>6. PoolTypeOK'
    <3>1. freeListHead' \in Pointers
      BY <2>2 DEF Pointers
    <3> QED BY <1>3, <2>5, <3>1 DEF PoolInv, PoolTypeOK
  <2>7. \A b \in PoolBlocks : ~Holds(c, b) /\ ~Gets(c, b) /\ ~Links(c, b) /\ ~Pushes(c, b)
    BY <2>3, UnmarkedIs
  <2>8. \A b \in PoolBlocks \ {x} : SameMarks(c, call[t], b)
    BY <1>2, <2>7 DEF SameMarks
  <2>9. Counted(x)'
    <3>1. t \notin Holders(x)
      BY <1>2 DEF Holders
    <3>2. ~Holds(c, x) /\ ~Gets(c, x) /\ ~Links(c, x) /\ ~Pushes(c, x)
      BY <2>7
    <3>3. /\ Holders(x)' = Holders(x) /\ Getters(x)' = {} /\ Linkers(x)' = {} /\ Pushers(x)' = {}
      <4>1. PoolTypeOK /\ Goto(t, c) /\ t \in Threads
        BY <2>2 DEF PoolInv
      <4>2. {u \in {t} : Holds(c, x)} = {} /\ {u \in {t} : Gets(c, x)} = {}
            /\ {u \in {t} : Links(c, x)} = {} /\ {u \in {t} : Pushes(c, x)} = {}
        BY <3>2
      <4> QED BY <1>2, <3>1, <4>1, <4>2, SetsStep
    <3>4. Users(x)' = {} /\ freeListRefs'[x] = freeListRefs[x]
      BY <1>2, <1>3 DEF Users
    <3>5. BlockOK(x, freeListRefs[x], Holders(x), OnList', Allocated, {}, {}, {}, {})
      BY <1>2, <2>4 DEF BlockOK
    <3> QED BY <1>4, <3>3, <3>4, <3>5 DEF Counted
  <2>10. CountsOK'
    BY <1>3, <1>4, <2>2, <2>4, <2>8, <2>9, OneBlock
  <2> QED BY <2>4, <2>5, <2>6, <2>10 DEF PoolInv
<1>6. CASE freeListHead # call[t].head
  <2>1. PICK c : c = [call[t] EXCEPT !.pc = "addFlag", !.head = freeListHead]
    OBVIOUS
  <2>2. /\ c \in [pc : {"addNext", "addRefs"} \union Pushing, node : PoolBlocks, then : Thens,
                  head : Pointers]
        /\ c.pc = "addFlag" /\ c.node = x
    BY <1>1, <1>2, <2>1 DEF Pushing
  <2>3. Goto(t, c) /\ UNCHANGED listVars
    BY <1>3, <1>6, <2>1 DEF AddPush, listVars
  <2>4. CallOK(c) /\ CallFits(c, freeListNext)
    BY <2>2 DEF CallOK, CallFits
  <2>5. \A b \in PoolBlocks : SameMarks(c, call[t], b)
    BY <1>1, <1>2, <2>2 DEF SameMarks, Holds, Gets, Links, Pushes, Linking, Pushing
  <2> QED BY <1>3, <1>4, <2>3, <2>4, <2>5, Quiet
<1> QED BY <1>5, <1>6

(* The block is flagged again: by whom it will be linked depends on        *)
(* whether anyone looks at it.                                             *)
LEMMA AddFlagKeeps ==
  ASSUME PoolInv, NEW t \in Threads, AddFlag(t)
  PROVE  PoolInv'
<1>1. call[t].pc = "addFlag" /\ call[t].pc \in Pushing
  BY DEF AddFlag, Pushing
<1>2. PICK x \in PoolBlocks :
           /\ x = call[t].node /\ call[t].then \in Thens
           /\ call[t] \in [pc : {"addNext", "addRefs"} \union Pushing, node : PoolBlocks,
                           then : Thens, head : Pointers]
           /\ freeListRefs[x] = 1 + Cardinality(Holders(x))
           /\ x \notin OnList /\ x \in Allocated
           /\ Users(x) = {} /\ Getters(x) = {} /\ Linkers(x) = {} /\ Pushers(x) = {t}
           /\ \A b \in PoolBlocks : ~Holds(call[t], b) /\ ~Gets(call[t], b) /\ ~Links(call[t], b)
           /\ \A b \in PoolBlocks \ {x} : ~Pushes(call[t], b)
  BY <1>1, PushFacts
<1>3. /\ UNCHANGED <<initialBlockPoolIndex, created, freeListHead, freeListNext, held>>
      /\ AddRefs(x, SHOULD_BE_ON_FREELIST - 1)
  BY <1>2 DEF AddFlag
<1>4. PICK r : r = freeListRefs[x]
  OBVIOUS
<1>5. PICK again : again = [call[t] EXCEPT !.pc = "addNext"]
  OBVIOUS
<1>6. /\ again \in [pc : {"addNext", "addRefs"} \union Pushing, node : PoolBlocks, then : Thens,
                    head : Pointers]
      /\ again.pc = "addNext" /\ again.node = x
  BY <1>2, <1>5
<1>7. PICK c : c = IF r = 1 THEN again ELSE call[t].then
  OBVIOUS
<1>8. Goto(t, c)
  BY <1>2, <1>4, <1>5, <1>7 DEF AddFlag
<1>9. CallOK(call[t].then) /\ CallFits(call[t].then, freeListNext) /\ call[t].then.pc \in Unmarked
  BY <1>2, ThenIs
<1>10. CallOK(c) /\ CallFits(c, freeListNext)
  <2>1. CallOK(again) /\ CallFits(again, freeListNext)
    BY <1>6 DEF CallOK, CallFits
  <2> QED BY <1>7, <1>9, <2>1
<1>11. PICK k \in Nat : /\ k = Cardinality(Holders(x)) /\ k + 1 < SHOULD_BE_ON_FREELIST
                        /\ k = 0 <=> Holders(x) = {}
  <2>1. Holders(x) \in SUBSET Threads
    BY DEF Holders
  <2> QED BY <2>1, Card
<1>12. /\ r = 1 + k /\ SHOULD_BE_ON_FREELIST \in Nat
       /\ r \in 0 .. (2 * SHOULD_BE_ON_FREELIST - 1)
  BY <1>2, <1>4, <1>11, CountFacts
<1>13. /\ freeListRefs' = [freeListRefs EXCEPT ![x] = k + SHOULD_BE_ON_FREELIST]
       /\ k + SHOULD_BE_ON_FREELIST \in 0 .. (2 * SHOULD_BE_ON_FREELIST - 1)
  <2>1. (r + (SHOULD_BE_ON_FREELIST - 1)) % (2 * SHOULD_BE_ON_FREELIST) = r + SHOULD_BE_ON_FREELIST - 1
    BY <1>11, <1>12, Wraps
  <2>2. r + SHOULD_BE_ON_FREELIST - 1 = k + SHOULD_BE_ON_FREELIST
    BY <1>12
  <2>3. freeListRefs' = [freeListRefs EXCEPT ![x] = k + SHOULD_BE_ON_FREELIST]
    BY <1>3, <1>4, <2>1, <2>2 DEF AddRefs
  <2> QED BY <1>11, <1>12, <2>3
<1>14. /\ \A b \in PoolBlocks : ~Holds(c, b) /\ ~Gets(c, b) /\ ~Pushes(c, b)
       /\ \A b \in PoolBlocks : Links(c, b) <=> b = x /\ r = 1
  <2>1. \A b \in PoolBlocks : /\ ~Holds(call[t].then, b) /\ ~Gets(call[t].then, b)
                          /\ ~Links(call[t].then, b) /\ ~Pushes(call[t].then, b)
    BY <1>9, UnmarkedIs
  <2>2. CASE r = 1
    <3>1. c = again
      BY <1>7, <2>2
    <3> QED BY <1>6, <2>2, <3>1 DEF Holds, Gets, Links, Pushes, Linking, Pushing
  <2>3. CASE r # 1
    BY <1>7, <2>1, <2>3
  <2> QED BY <2>2, <2>3
<1>15. \A b \in PoolBlocks \ {x} : SameMarks(c, call[t], b)
  BY <1>2, <1>14 DEF SameMarks
<1>16. Users(x)' = {} /\ held' \in [Threads -> SUBSET PoolBlocks]
  BY <1>2, <1>3 DEF Users, PoolInv, PoolTypeOK
<1>17. BlockOK(x, k + SHOULD_BE_ON_FREELIST, Holders(x)', OnList, Allocated,
               Users(x)', Getters(x)', Linkers(x)', Pushers(x)')
  <2>1. ~Holds(c, x) /\ ~Gets(c, x) /\ ~Pushes(c, x)
    BY <1>14
  <2>2. t \notin Holders(x)
    BY <1>2 DEF Holders
  <2>3. Holders(x)' = Holders(x) /\ Getters(x)' = {} /\ Pushers(x)' = {}
    <3>1. ~Holds(call[t], x) /\ Getters(x) = {} /\ Pushers(x) = {t}
      BY <1>2
    <3>2. Holders(x)' = Holders(x)
      BY <1>8, <2>1, <2>2, SetsStep DEF PoolInv
    <3>3. Getters(x)' = Getters(x) \ {t} /\ Pushers(x)' = Pushers(x) \ {t}
      BY <1>8, <2>1, SetsStep DEF PoolInv
    <3> QED BY <3>1, <3>2, <3>3
  <2>4. CASE r = 1
    <3>1. Links(c, x) /\ k = 0
      BY <1>12, <1>14, <2>4
    <3>2. Linkers(x)' = {t}
      BY <1>2, <1>8, <3>1, SetsStep DEF PoolInv
    <3>3. BlockOK(x, k + SHOULD_BE_ON_FREELIST, {}, OnList, Allocated, {}, {}, {t}, {})
      BY <1>2, <1>12, <3>1 DEF BlockOK
    <3> QED BY <1>11, <1>16, <2>3, <3>1, <3>2, <3>3
  <2>5. CASE r # 1
    <3>1. ~Links(c, x) /\ k # 0
      BY <1>12, <1>14, <2>5
    <3>2. Linkers(x)' = {}
      BY <1>2, <1>8, <3>1, SetsStep DEF PoolInv
    <3>3. BlockOK(x, k + SHOULD_BE_ON_FREELIST, Holders(x), OnList, Allocated, {}, {}, {}, {})
      BY <1>2, <1>11, <1>12, <3>1 DEF BlockOK
    <3> QED BY <1>16, <2>3, <3>2, <3>3
  <2> QED BY <2>4, <2>5
<1> QED BY <1>3, <1>8, <1>10, <1>13, <1>15, <1>16, <1>17, CountStep
-----------------------------------------------------------------------------
(* At first no block has been allocated and the list is empty.             *)
LEMMA InitPoolInv == ASSUME PoolInit PROVE PoolInv
<1>0. /\ MaxBlocks \in Nat /\ initialBlockPoolSize \in 0 .. MaxBlocks
      /\ SHOULD_BE_ON_FREELIST \in Nat /\ SHOULD_BE_ON_FREELIST > 0
  <2>1. Cardinality(Threads) \in Nat
    BY PoolAssumption, FS_CardinalityType
  <2> QED BY <2>1, PoolAssumption
<1>1. \A t \in Threads : call[t].pc = "idle" /\ call[t] \in [pc : {"idle"}] /\ held[t] = {}
  BY DEF PoolInit, NoCall
<1>2. \A t \in Threads : CallOK(call[t]) /\ CallFits(call[t], freeListNext)
  BY <1>1 DEF CallOK, CallFits
<1>3. PoolTypeOK
  <2>1. \A t \in Threads : CallOK(call[t])
    BY <1>2
  <2>2. DOMAIN call = Threads /\ held \in [Threads -> SUBSET PoolBlocks]
    BY DEF PoolInit
  <2>3. /\ freeListRefs \in [PoolBlocks -> 0 .. (2 * SHOULD_BE_ON_FREELIST - 1)]
        /\ created \in 0 .. (MaxBlocks - initialBlockPoolSize) /\ initialBlockPoolIndex \in Nat
    BY <1>0 DEF PoolInit
  <2>4. freeListHead \in Pointers /\ freeListNext \in [PoolBlocks -> Pointers]
    BY DEF PoolInit, Pointers
  <2> QED BY <2>1, <2>2, <2>3, <2>4 DEF PoolTypeOK
<1>4. PICK f : f = [i \in 0 .. MaxBlocks |-> Null]
  OBVIOUS
<1>5. f \in [0 .. MaxBlocks -> Pointers] /\ 0 \in 0 .. MaxBlocks
  BY <1>0, <1>4 DEF Pointers
<1>6. 0 .. (0 - 1) = {}
  OBVIOUS
<1>7. IsList(freeListHead, freeListNext, 0, f)
  BY <1>4, <1>5, <1>6 DEF IsList, PoolInit
<1>8. ListOK
  BY <1>5, <1>7 DEF ListOK, HasList
<1>9. OnList = {}
  <2>1. Elements(freeListHead, freeListNext) = First(0, f)
    BY <1>5, <1>7, ListIs
  <2> QED BY <1>6, <2>1 DEF Elements, First, OnList, ListAt
<1>10. CountsOK
  <2> SUFFICES ASSUME NEW b \in PoolBlocks PROVE Counted(b)
    BY DEF CountsOK
  <2>1. /\ Holders(b) = {} /\ Getters(b) = {} /\ Linkers(b) = {} /\ Pushers(b) = {}
    BY <1>1 DEF Holders, Getters, Linkers, Pushers, Holds, Gets, Links, Pushes, Linking, Pushing
  <2>2. Users(b) = {} /\ freeListRefs[b] = 0
    BY <1>1 DEF Users, PoolInit
  <2>3. b \notin Allocated
    BY <1>0 DEF Allocated, PoolBlocks, PoolInit
  <2>4. BlockOK(b, 0, {}, {}, Allocated, {}, {}, {}, {})
    BY <2>3 DEF BlockOK
  <2> QED BY <1>9, <2>1, <2>2, <2>4 DEF Counted
<1> QED BY <1>2, <1>3, <1>8, <1>10 DEF PoolInv, CallsFit

(* No step of a thread disturbs PoolInv.                                   *)
LEMMA NextKeeps == ASSUME PoolInv, PoolNext PROVE PoolInv'
<1>1. PICK t \in Threads : Start(t) \/ Step(t)
  BY DEF PoolNext
<1>2. CASE Requisition(t) \/ LoadHead(t) \/ LoadRefs(t)
  BY <1>2, RequisitionKeeps
<1>3. ASSUME NEW b \in held[t], Add(t, b) PROVE PoolInv'
  BY <1>3, AddKeeps
<1>4. CASE Initial(t)
  BY <1>4, InitialKeeps
<1>5. CASE Hold(t)
  BY <1>5, HoldKeeps
<1>6. CASE LoadNext(t)
  BY <1>6, LoadNextKeeps
<1>7. CASE Pop(t)
  BY <1>7, PopKeeps
<1>8. CASE Got(t)
  BY <1>8, GotKeeps
<1>9. CASE Leave(t)
  BY <1>9, LeaveKeeps
<1>10. CASE Create(t)
  BY <1>10, CreateKeeps
<1>11. CASE AddLoadHead(t)
  BY <1>11, AddLoadHeadKeeps
<1>12. CASE AddStoreNext(t)
  BY <1>12, AddStoreNextKeeps
<1>13. CASE AddStoreRefs(t)
  BY <1>13, AddStoreRefsKeeps
<1>14. CASE AddPush(t)
  BY <1>14, AddPushKeeps
<1>15. CASE AddFlag(t)
  BY <1>15, AddFlagKeeps
<1> QED BY <1>1, <1>2, <1>3, <1>4, <1>5, <1>6, <1>7, <1>8, <1>9, <1>10, <1>11, <1>12, <1>13,
           <1>14, <1>15 DEF Start, Step

(* A step that leaves the pool alone does not disturb it either.           *)
LEMMA StutterKeeps == ASSUME PoolInv, UNCHANGED poolVars PROVE PoolInv'
<1>1. /\ initialBlockPoolIndex' = initialBlockPoolIndex /\ created' = created
      /\ freeListHead' = freeListHead /\ freeListRefs' = freeListRefs
      /\ freeListNext' = freeListNext /\ held' = held /\ call' = call
  BY DEF poolVars
<1>2. PoolTypeOK'
  BY <1>1 DEF PoolInv, PoolTypeOK
<1>3. ListOK' /\ CallsFit'
  BY <1>1 DEF PoolInv, ListOK, CallsFit
<1>4. ASSUME NEW b \in PoolBlocks PROVE Counted(b)'
  <2>1. Counted(b)
    BY DEF PoolInv, CountsOK
  <2>2. OnList' = OnList /\ Allocated' = Allocated
    BY <1>1 DEF OnList, ListAt, Allocated
  <2>3. /\ Holders(b)' = Holders(b) /\ Getters(b)' = Getters(b) /\ Users(b)' = Users(b)
        /\ Linkers(b)' = Linkers(b) /\ Pushers(b)' = Pushers(b)
    BY <1>1 DEF Holders, Getters, Linkers, Pushers, Users
  <2> QED BY <1>1, <2>1, <2>2, <2>3 DEF Counted
<1> QED BY <1>2, <1>3, <1>4 DEF PoolInv, CountsOK

(* FreeList of concurrentqueue.h: whatever the threads do at whatever      *)
(* moment, the list is a finite chain without repetition, and the count of *)
(* every block is what the place of the block makes it worth.              *)
THEOREM PoolInvariant == PoolSpec => []PoolInv
<1>1. PoolInit => PoolInv
  BY InitPoolInv
<1>2. PoolInv /\ [PoolNext]_poolVars => PoolInv'
  BY NextKeeps, StutterKeeps
<1> QED BY <1>1, <1>2, PTL DEF PoolSpec
-----------------------------------------------------------------------------
(* What PoolInv says of one block that a thread has taken.                 *)
LEMMA TakenFacts ==
  ASSUME PoolInv, NEW t \in Threads, NEW b \in Taken(t)
  PROVE  /\ b \in PoolBlocks /\ b \notin OnList
         /\ t \in Users(b) \union Getters(b)
         /\ \A u, v \in Users(b) \union Getters(b) : u = v
<1>1. CallOK(call[t]) /\ held[t] \in SUBSET PoolBlocks
  BY DEF PoolInv, PoolTypeOK
<1>2. call[t].pc = "got" => call[t].head \in PoolBlocks
  BY <1>1, CallFacts
<1>3. b \in PoolBlocks
  BY <1>1, <1>2 DEF Taken
<1>4. t \in Users(b) \union Getters(b)
  BY <1>3 DEF Taken, Users, Getters, Gets
<1>5. BlockOK(b, freeListRefs[b], Holders(b), OnList, Allocated,
              Users(b), Getters(b), Linkers(b), Pushers(b))
  BY <1>3 DEF PoolInv, CountsOK, Counted
<1> QED BY <1>3, <1>4, <1>5 DEF BlockOK

(* PoolInv excludes that a block is given twice.                           *)
LEMMA GivenOnce == ASSUME PoolInv PROVE NoBlockGivenTwice
<1>1. ListAt[MaxBlocks] = Null
  <2>1. PICK n \in 0 .. MaxBlocks, f \in [0 .. MaxBlocks -> Pointers] :
               IsList(freeListHead, freeListNext, n, f)
    BY DEF PoolInv, ListOK, HasList
  <2> QED BY <2>1, ListIs DEF ListAt
<1>2. \A t \in Threads : Taken(t) \intersect OnList = {}
  BY TakenFacts
<1>3. ASSUME NEW t \in Threads, NEW u \in Threads, t # u
      PROVE  Taken(t) \intersect Taken(u) = {}
  BY <1>3, TakenFacts
<1>4. ASSUME NEW t \in Threads, call[t].pc = "got"
      PROVE  freeListRefs[call[t].head] < SHOULD_BE_ON_FREELIST
  <2>1. PICK h : h = call[t].head
    OBVIOUS
  <2>2. h \in Taken(t)
    BY <1>4, <2>1 DEF Taken
  <2>3. h \in PoolBlocks /\ t \in Getters(h)
    BY <1>4, <2>1, <2>2, TakenFacts DEF Getters, Gets
  <2>4. BlockOK(h, freeListRefs[h], Holders(h), OnList, Allocated,
                Users(h), Getters(h), Linkers(h), Pushers(h))
    BY <2>3 DEF PoolInv, CountsOK, Counted
  <2>5. freeListRefs[h] = 1 + Cardinality(Holders(h))
    BY <2>3, <2>4 DEF BlockOK
  <2>6. Cardinality(Holders(h)) \in Nat /\ Cardinality(Holders(h)) + 1 < SHOULD_BE_ON_FREELIST
    <3>1. Holders(h) \in SUBSET Threads
      BY DEF Holders
    <3> QED BY <3>1, Card
  <2> QED BY <2>1, <2>5, <2>6
<1> QED BY <1>1, <1>2, <1>3, <1>4 DEF NoBlockGivenTwice

(* requisition_block and FreeList::try_get never give a block to two       *)
(* sub-queues, nor one that the list still leads to, and the assertion of  *)
(* try_get that a taken block is not flagged holds: the free list has no   *)
(* ABA problem, with any number of threads and blocks.                     *)
THEOREM BlocksAreGivenOnce == PoolSpec => []NoBlockGivenTwice
<1>1. PoolInv => NoBlockGivenTwice
  BY GivenOnce
<1> QED BY <1>1, PoolInvariant, PTL

(* PoolInv accounts for every block when no call is in progress.           *)
LEMMA AllAccounted == ASSUME PoolInv PROVE NoBlockForgotten
<1> SUFFICES ASSUME \A t \in Threads : call[t] = NoCall
             PROVE  /\ OnList = Allocated \ UNION {held[t] : t \in Threads}
                    /\ \A b \in PoolBlocks : freeListRefs[b] = IF b \in OnList THEN 1 ELSE 0
  BY DEF NoBlockForgotten, Allocated
<1>1. ASSUME NEW b \in PoolBlocks
      PROVE  /\ b \in OnList <=> b \in Allocated /\ Users(b) = {}
             /\ freeListRefs[b] = IF b \in OnList THEN 1 ELSE 0
  <2>1. \A t \in Threads : call[t].pc = "idle"
    BY DEF NoCall
  <2>2. Holders(b) = {} /\ Getters(b) = {} /\ Linkers(b) = {} /\ Pushers(b) = {}
    BY <2>1 DEF Holders, Getters, Linkers, Pushers, Holds, Gets, Links, Pushes, Linking, Pushing
  <2>3. BlockOK(b, freeListRefs[b], {}, OnList, Allocated, Users(b), {}, {}, {})
    BY <2>2 DEF PoolInv, CountsOK, Counted
  <2>4. Cardinality({}) = 0
    BY FS_EmptySet
  <2> QED BY <2>3, <2>4 DEF BlockOK
<1>2. OnList \in SUBSET PoolBlocks
  <2>1. PICK n \in 0 .. MaxBlocks, f \in [0 .. MaxBlocks -> Pointers] :
               IsList(freeListHead, freeListNext, n, f)
    BY DEF PoolInv, ListOK, HasList
  <2>2. OnList = First(n, f)
    BY <2>1, ListIs DEF OnList, ListAt, Elements
  <2> QED BY <2>1, <2>2 DEF IsList, First
<1>3. Allocated \in SUBSET PoolBlocks
  <2>1. /\ MaxBlocks \in Nat /\ initialBlockPoolSize \in 0 .. MaxBlocks
        /\ created \in 0 .. (MaxBlocks - initialBlockPoolSize)
    BY PoolAssumption DEF PoolInv, PoolTypeOK
  <2> QED BY <2>1 DEF Allocated, PoolBlocks
<1>4. \A b \in PoolBlocks : Users(b) = {} <=> b \notin UNION {held[t] : t \in Threads}
  BY DEF Users
<1> QED BY <1>1, <1>2, <1>3, <1>4

(* FreeList::add leaves a block that others look at to the last of them:   *)
(* none is lost that way.  When no call is in progress every block that    *)
(* was allocated is in use or on the list, and all the counts are exact.   *)
THEOREM BlocksAreNotForgotten == PoolSpec => []NoBlockForgotten
<1>1. PoolInv => NoBlockForgotten
  BY AllAccounted
<1> QED BY <1>1, PoolInvariant, PTL
=============================================================================
