---------------------------- MODULE RabbitMQProofs ----------------------------
(***************************************************************************)
(* What RabbitMQ guarantees for every number of workers and Interests,     *)
(* every prefetch limit and every number of crashes and exceptions: an     *)
(* Interest is in one place and is answered at most once, and the server   *)
(* waits for a delivery that cannot come only when it has withheld as many *)
(* as the prefetch allows.  BrokerInv is the inductive invariant.          *)
(***************************************************************************)
EXTENDS RabbitMQ, FiniteSetTheorems, FunctionTheorems, TLAPS

Indicator(b) == IF b THEN 1 ELSE 0

(* The positions at which a name stands in a queue.                        *)
Positions(n, s) == {k \in DOMAIN s : s[k] = n}

(* They can be counted.                                                    *)
LEMMA OccurrencesNat ==
  ASSUME NEW n, NEW s \in Seq(Interests)
  PROVE  /\ IsFiniteSet(Positions(n, s)) /\ Positions(n, s) \in SUBSET Int
         /\ Occurrences(n, s) = Cardinality(Positions(n, s))
         /\ Occurrences(n, s) \in Nat
         /\ Occurrences(n, s) >= 1 <=> n \in Elements(s)
<1>1. IsFiniteSet(1..Len(s)) /\ Positions(n, s) \subseteq 1..Len(s)
  BY FS_Interval DEF Positions
<1>2. IsFiniteSet(Positions(n, s)) /\ Positions(n, s) \in SUBSET Int
  BY <1>1, FS_Subset
<1>3. /\ Cardinality(Positions(n, s)) \in Nat
      /\ Cardinality(Positions(n, s)) = 0 <=> Positions(n, s) = {}
  BY <1>2, FS_CardinalityType, FS_EmptySet
<1>4. Positions(n, s) # {} <=> n \in Elements(s)
  BY DEF Elements, Positions
<1>5. Occurrences(n, s) = Cardinality(Positions(n, s))
  BY DEF Occurrences, Positions
<1> QED BY <1>2, <1>3, <1>4, <1>5

(* The empty queue.                                                        *)
LEMMA OccurrencesEmpty == \A n : Occurrences(n, << >>) = 0
  BY FS_EmptySet DEF Occurrences

(* basicPublish, or the broker pushing a message.                          *)
LEMMA OccurrencesAppend ==
  ASSUME NEW n, NEW s \in Seq(Interests), NEW x \in Interests
  PROVE  Occurrences(n, Append(s, x)) = Occurrences(n, s) + Indicator(x = n)
<1> DEFINE t == Append(s, x)
           end == Len(s) + 1
<1>1. /\ t \in Seq(Interests)
      /\ DOMAIN t = DOMAIN s \cup {end} /\ end \notin DOMAIN s
      /\ \A k \in DOMAIN s : t[k] = s[k]
      /\ t[end] = x
  OBVIOUS
<1> HIDE DEF t, end
<1>2. /\ IsFiniteSet(Positions(n, s)) /\ Occurrences(n, s) = Cardinality(Positions(n, s))
      /\ Occurrences(n, t) = Cardinality(Positions(n, t))
      /\ Occurrences(n, s) \in Nat
  BY <1>1, OccurrencesNat
<1>3. CASE x = n
  <2>1. Positions(n, t) = Positions(n, s) \cup {end} /\ end \notin Positions(n, s)
    BY <1>1, <1>3 DEF Positions
  <2>2. Cardinality(Positions(n, t)) = Cardinality(Positions(n, s)) + 1
    BY <1>2, <2>1, FS_AddElement
  <2> QED BY <1>2, <1>3, <2>2 DEF Indicator, t
<1>4. CASE x # n
  <2>1. Positions(n, t) = Positions(n, s)
    BY <1>1, <1>4 DEF Positions
  <2> QED BY <1>2, <1>4, <2>1 DEF Indicator, t
<1> QED BY <1>3, <1>4

(* Moving every position of a set by the same distance keeps their number. *)
LEMMA ShiftCounts ==
  ASSUME NEW S \in SUBSET Int, IsFiniteSet(S), NEW d \in Int, NEW T,
         T = {k + d : k \in S}
  PROVE  IsFiniteSet(T) /\ Cardinality(T) = Cardinality(S)
<1> DEFINE f == [k \in S |-> k + d]
<1>1. \A j, k \in S : j + d = k + d => j = k
  OBVIOUS
<1>2. f \in Bijection(S, T)
  BY <1>1 DEF Bijection, Injection, Surjection, IsInjective
<1>3. ExistsBijection(S, T)
  BY <1>2 DEF ExistsBijection
<1> QED BY <1>3, FS_Bijection

(* A consumer takes the first delivery.                                    *)
LEMMA OccurrencesTail ==
  ASSUME NEW n, NEW s \in Seq(Interests), s # << >>
  PROVE  Occurrences(n, s) = Occurrences(n, Tail(s)) + Indicator(Head(s) = n)
<1> DEFINE t == Tail(s)
           P == Positions(n, s)
           Q == Positions(n, t)
<1>1. /\ DOMAIN t = 1..(Len(s) - 1) /\ DOMAIN s = 1..Len(s)
      /\ \A k \in DOMAIN t : t[k] = s[k + 1]
      /\ Head(s) = s[1] /\ Len(s) \in Nat \ {0} /\ t \in Seq(Interests)
  OBVIOUS
<1> HIDE DEF t
<1>2. P \ {1} = {k + 1 : k \in Q}
  <2>1. ASSUME NEW j \in P \ {1} PROVE j - 1 \in Q /\ (j - 1) + 1 = j
    <3>1. j \in 2..Len(s) /\ s[j] = n
      BY <1>1, <2>1 DEF Positions
    <3>2. j - 1 \in 1..(Len(s) - 1) /\ (j - 1) + 1 = j
      BY <1>1, <3>1
    <3> QED BY <1>1, <3>1, <3>2 DEF Positions
  <2>2. ASSUME NEW k \in Q PROVE k + 1 \in P \ {1}
    BY <1>1, <2>2 DEF Positions
  <2> HIDE DEF P, Q
  <2> QED BY <2>1, <2>2
<1>3. /\ IsFiniteSet(P) /\ Occurrences(n, s) = Cardinality(P)
      /\ IsFiniteSet(Q) /\ Occurrences(n, t) = Cardinality(Q)
      /\ Q \in SUBSET Int /\ Cardinality(Q) \in Nat
  BY <1>1, OccurrencesNat, FS_CardinalityType
<1>4. 1 \in P <=> Head(s) = n
  BY <1>1 DEF Positions
<1> HIDE DEF P, Q
<1>5. IsFiniteSet(P \ {1}) /\ Cardinality(P \ {1}) = Cardinality(Q)
  <2> DEFINE T == P \ {1}
  <2>1. T = {k + 1 : k \in Q} /\ 1 \in Int
    BY <1>2
  <2> HIDE DEF T
  <2>2. IsFiniteSet(T) /\ Cardinality(T) = Cardinality(Q)
    BY <1>3, <2>1, ShiftCounts
  <2> QED BY <2>2 DEF T
<1>6. CASE Head(s) = n
  <2>1. P = (P \ {1}) \cup {1}
    BY <1>4, <1>6
  <2>2. Cardinality(P) = Cardinality(P \ {1}) + 1
    BY <1>5, <2>1, FS_AddElement
  <2> QED BY <1>3, <1>5, <1>6, <2>2 DEF Indicator, t
<1>7. CASE Head(s) # n
  <2>1. P \ {1} = P
    BY <1>4, <1>7
  <2>2. Indicator(Head(s) = n) = 0
    BY <1>7 DEF Indicator
  <2>3. Cardinality(P) = Cardinality(Q)
    BY <1>5, <2>1, Zenon
  <2> QED BY <1>3, <2>2, <2>3 DEF t
<1> QED BY <1>6, <1>7

(* The broker puts deliveries in front of a queue.                         *)
LEMMA OccurrencesConcat ==
  ASSUME NEW n, NEW s \in Seq(Interests), NEW t \in Seq(Interests)
  PROVE  /\ s \o t \in Seq(Interests)
         /\ Occurrences(n, s \o t) = Occurrences(n, s) + Occurrences(n, t)
<1> DEFINE u == s \o t
           P == Positions(n, s)
           Q == Positions(n, t)
           R == Positions(n, u)
           M == {k + Len(s) : k \in Q}
<1>1. /\ u \in Seq(Interests)
      /\ DOMAIN u = 1..(Len(s) + Len(t)) /\ DOMAIN s = 1..Len(s) /\ DOMAIN t = 1..Len(t)
      /\ \A k \in 1..Len(s) : u[k] = s[k]
      /\ \A k \in 1..Len(t) : u[k + Len(s)] = t[k]
      /\ Len(s) \in Nat /\ Len(t) \in Nat
  OBVIOUS
<1> HIDE DEF u
<1>2. /\ IsFiniteSet(P) /\ Occurrences(n, s) = Cardinality(P) /\ Cardinality(P) \in Nat
      /\ IsFiniteSet(Q) /\ Occurrences(n, t) = Cardinality(Q) /\ Cardinality(Q) \in Nat
      /\ Q \in SUBSET Int /\ Occurrences(n, u) = Cardinality(R)
  BY <1>1, OccurrencesNat, FS_CardinalityType
<1>3. R = P \cup M
  <2>1. ASSUME NEW j \in R PROVE j \in P \/ (j - Len(s) \in Q /\ (j - Len(s)) + Len(s) = j)
    <3>0. j \in 1..(Len(s) + Len(t)) /\ u[j] = n
      BY <1>1, <2>1 DEF Positions
    <3>1. CASE j <= Len(s)
      BY <1>1, <3>0, <3>1 DEF Positions
    <3>2. CASE ~(j <= Len(s))
      <4>1. j - Len(s) \in 1..Len(t) /\ (j - Len(s)) + Len(s) = j
        BY <1>1, <3>0, <3>2
      <4> QED BY <1>1, <3>0, <4>1 DEF Positions
    <3> QED BY <3>1, <3>2
  <2>2. ASSUME NEW k \in P PROVE k \in R
    BY <1>1, <2>2 DEF Positions
  <2>3. ASSUME NEW k \in Q PROVE k + Len(s) \in R
    BY <1>1, <2>3 DEF Positions
  <2> HIDE DEF P, Q, R
  <2> QED BY <2>1, <2>2, <2>3
<1>4. P \cap M = {}
  BY <1>1 DEF Positions
<1> HIDE DEF P, Q, R
<1>5. M = {k + Len(s) : k \in Q} /\ Len(s) \in Int
  BY <1>1
<1> HIDE DEF M
<1>6. IsFiniteSet(M) /\ Cardinality(M) = Cardinality(Q)
  BY <1>2, <1>5, ShiftCounts
<1>7. Cardinality(P \cup M) = Cardinality(P) + Cardinality(M) - Cardinality(P \cap M)
  BY <1>2, <1>6, FS_Union
<1>8. Cardinality(P \cap M) = 0
  BY <1>4, FS_EmptySet
<1>9. Cardinality(R) = Cardinality(P) + Cardinality(Q)
  BY <1>2, <1>3, <1>6, <1>7, <1>8
<1> QED BY <1>1, <1>2, <1>9 DEF u

(* A set of workers that changes at one worker.                            *)
LEMMA OneWorker ==
  ASSUME NEW w \in Workers, NEW P \in SUBSET Workers, NEW Q \in SUBSET Workers,
         \A v \in Workers \ {w} : v \in P <=> v \in Q
  PROVE  /\ Cardinality(P) \in Nat /\ Cardinality(Q) \in Nat
         /\ Cardinality(Q) + Indicator(w \in P) = Cardinality(P) + Indicator(w \in Q)
<1>1. IsFiniteSet(P) /\ IsFiniteSet(Q)
  BY WorkersAssumption, FS_Subset
<1>2. Cardinality(P) \in Nat /\ Cardinality(Q) \in Nat
  BY <1>1, FS_CardinalityType
<1>3. CASE w \in P /\ w \notin Q
  <2>1. Q = P \ {w}
    BY <1>3
  <2>2. Cardinality(Q) = Cardinality(P) - 1
    BY <1>1, <1>3, <2>1, FS_RemoveElement
  <2> QED BY <1>2, <1>3, <2>2 DEF Indicator
<1>4. CASE w \notin P /\ w \in Q
  <2>1. P = Q \ {w}
    BY <1>4
  <2>2. Cardinality(P) = Cardinality(Q) - 1
    BY <1>1, <1>4, <2>1, FS_RemoveElement
  <2> QED BY <1>2, <1>4, <2>2 DEF Indicator
<1>5. CASE w \in P <=> w \in Q
  <2>1. P = Q
    BY <1>5
  <2> QED BY <1>2, <2>1
<1> QED BY <1>3, <1>4, <1>5
-----------------------------------------------------------------------------
(* The places an Interest can be in, each with its count.                  *)
With(n, w) == Occurrences(n, kept[w]) + Occurrences(n, unacked[w])
Holding(n) == {w \in Workers : With(n, w) = 1}
Signing(n) == {w \in Workers : worker[w] = "sign" /\ data[w] = n}
InSign(n) == Occurrences(n, signQueue)
InReturn(n) == Occurrences(n, returnQueue)
InDelivered(n) == Occurrences(n, delivered)
InAnswered(n) == Occurrences(n, answered)
Held(n) == Cardinality(Holding(n))
Signed(n) == Cardinality(Signing(n))
Lost(n) == Indicator(n \in lost)
Arrived(n) == Indicator(n \in arrived)

(* EachInterestOnce, with the queues counted one by one.                   *)
Once == \A n \in Interests :
          InSign(n) + InReturn(n) + InDelivered(n) + InAnswered(n)
            + Held(n) + Signed(n) + Lost(n) = Arrived(n)

(* A worker signs the delivery it acknowledged, and the broker has pushed  *)
(* no name to it twice.                                                    *)
WorkersOK ==
  \A w \in Workers :
    /\ worker[w] \in {"ack", "sign"} => data[w] \in Interests
    /\ worker[w] = "ack" => unacked[w] # << >> /\ data[w] = Head(unacked[w])
    /\ \A n \in Interests : With(n, w) <= 1

(* The replies the server still counts on exist.                           *)
CountCovered == server = "deliver" => count <= Len(delivered) + Len(returnQueue)

BrokerInv == /\ TypeOK
             /\ WorkersOK
             /\ Once
             /\ CountCovered

(* Every count is a natural number.                                        *)
LEMMA CountsNat ==
  TypeOK => \A n : /\ InSign(n) \in Nat /\ InReturn(n) \in Nat
                   /\ InDelivered(n) \in Nat /\ InAnswered(n) \in Nat
                   /\ Held(n) \in Nat /\ Signed(n) \in Nat
                   /\ Lost(n) \in {0, 1} /\ Arrived(n) \in {0, 1}
<1> SUFFICES ASSUME TypeOK, NEW n
             PROVE  /\ InSign(n) \in Nat /\ InReturn(n) \in Nat
                    /\ InDelivered(n) \in Nat /\ InAnswered(n) \in Nat
                    /\ Held(n) \in Nat /\ Signed(n) \in Nat
                    /\ Lost(n) \in {0, 1} /\ Arrived(n) \in {0, 1}
  OBVIOUS
<1>1. /\ InSign(n) \in Nat /\ InReturn(n) \in Nat
      /\ InDelivered(n) \in Nat /\ InAnswered(n) \in Nat
  BY OccurrencesNat DEF TypeOK, InSign, InReturn, InDelivered, InAnswered
<1>2. Holding(n) \subseteq Workers /\ Signing(n) \subseteq Workers
  BY DEF Holding, Signing
<1>3. Held(n) \in Nat /\ Signed(n) \in Nat
  BY <1>2, WorkersAssumption, FS_Subset, FS_CardinalityType DEF Held, Signed
<1>4. Lost(n) \in {0, 1} /\ Arrived(n) \in {0, 1}
  BY DEF Lost, Arrived, Indicator
<1> QED BY <1>1, <1>3, <1>4

(* What a worker holds can be counted.                                     *)
LEMMA WithNat ==
  TypeOK => \A n : \A w \in Workers :
              /\ With(n, w) \in Nat
              /\ Occurrences(n, kept[w]) \in Nat /\ Occurrences(n, unacked[w]) \in Nat
              /\ Occurrences(n, kept[w] \o unacked[w]) = With(n, w)
<1> SUFFICES ASSUME TypeOK, NEW n, NEW w \in Workers
             PROVE  /\ With(n, w) \in Nat
                    /\ Occurrences(n, kept[w]) \in Nat /\ Occurrences(n, unacked[w]) \in Nat
                    /\ Occurrences(n, kept[w] \o unacked[w]) = With(n, w)
  OBVIOUS
<1>1. kept[w] \in Seq(Interests) /\ unacked[w] \in Seq(Interests)
  BY DEF TypeOK
<1>2. Occurrences(n, kept[w]) \in Nat /\ Occurrences(n, unacked[w]) \in Nat
  BY <1>1, OccurrencesNat
<1>3. Occurrences(n, kept[w] \o unacked[w]) = With(n, w)
  BY <1>1, OccurrencesConcat DEF With
<1> QED BY <1>2, <1>3 DEF With

(* Once is the property of the run: the queues are counted together there. *)
LEMMA OnceIsEachInterestOnce == TypeOK => (Once <=> EachInterestOnce)
<1> SUFFICES ASSUME TypeOK PROVE Once <=> EachInterestOnce
  OBVIOUS
<1>1. /\ signQueue \in Seq(Interests) /\ returnQueue \in Seq(Interests)
      /\ delivered \in Seq(Interests) /\ answered \in Seq(Interests)
  BY DEF TypeOK
<1>2. ASSUME NEW n \in Interests
      PROVE  Occurrences(n, signQueue \o returnQueue \o delivered \o answered)
               = InSign(n) + InReturn(n) + InDelivered(n) + InAnswered(n)
  <2>1. /\ signQueue \o returnQueue \in Seq(Interests)
        /\ Occurrences(n, signQueue \o returnQueue) = InSign(n) + InReturn(n)
    BY <1>1, OccurrencesConcat DEF InSign, InReturn
  <2>2. /\ (signQueue \o returnQueue) \o delivered \in Seq(Interests)
        /\ Occurrences(n, (signQueue \o returnQueue) \o delivered)
             = Occurrences(n, signQueue \o returnQueue) + InDelivered(n)
    BY <1>1, <2>1, OccurrencesConcat DEF InDelivered
  <2>3. Occurrences(n, ((signQueue \o returnQueue) \o delivered) \o answered)
             = Occurrences(n, (signQueue \o returnQueue) \o delivered) + InAnswered(n)
    BY <1>1, <2>2, OccurrencesConcat DEF InAnswered
  <2> QED BY <2>1, <2>2, <2>3
<1>3. ASSUME NEW n \in Interests
      PROVE  /\ Cardinality({w \in Workers : Occurrences(n, kept[w] \o unacked[w]) = 1})
                  = Held(n)
             /\ Cardinality({w \in Workers : worker[w] = "sign" /\ data[w] = n}) = Signed(n)
             /\ (IF n \in lost THEN 1 ELSE 0) = Lost(n)
             /\ (IF n \in arrived THEN 1 ELSE 0) = Arrived(n)
  <2>1. {w \in Workers : Occurrences(n, kept[w] \o unacked[w]) = 1} = Holding(n)
    BY WithNat DEF Holding
  <2> QED BY <2>1 DEF Held, Signed, Signing, Lost, Arrived, Indicator
<1> QED BY <1>2, <1>3 DEF Once, EachInterestOnce

(* The counts when nothing moves.                                          *)
LEMMA NothingMoves ==
  ASSUME Once, UNCHANGED <<signQueue, returnQueue, delivered, answered, unacked, kept, lost,
                           arrived>>,
         \A n \in Interests : Signing(n)' = Signing(n)
  PROVE  Once'
<1>1. ASSUME NEW n \in Interests
      PROVE  /\ InSign(n)' = InSign(n) /\ InReturn(n)' = InReturn(n)
             /\ InDelivered(n)' = InDelivered(n) /\ InAnswered(n)' = InAnswered(n)
             /\ Held(n)' = Held(n) /\ Signed(n)' = Signed(n)
             /\ Lost(n)' = Lost(n) /\ Arrived(n)' = Arrived(n)
  BY DEF InSign, InReturn, InDelivered, InAnswered, Held, Holding, With, Signed, Lost, Arrived
<1> QED BY <1>1 DEF Once

(* The broker and the server before any worker runs.                       *)
LEMMA InitBrokerInv == Init => BrokerInv
<1> SUFFICES ASSUME Init PROVE BrokerInv
  OBVIOUS
<1> USE DEF Init
<1>1. TypeOK
  BY BoundsAssumption DEF TypeOK
<1>2. WorkersOK
  BY OccurrencesEmpty DEF WorkersOK, With
<1>3. ASSUME NEW n \in Interests
      PROVE  /\ InSign(n) = 0 /\ InReturn(n) = 0 /\ InDelivered(n) = 0
             /\ InAnswered(n) = 0 /\ Held(n) = 0 /\ Signed(n) = 0
             /\ Lost(n) = 0 /\ Arrived(n) = 0
  <2>1. InSign(n) = 0 /\ InReturn(n) = 0 /\ InDelivered(n) = 0 /\ InAnswered(n) = 0
    BY OccurrencesEmpty DEF InSign, InReturn, InDelivered, InAnswered
  <2>2. Holding(n) = {} /\ Signing(n) = {}
    BY OccurrencesEmpty DEF Holding, Signing, With
  <2>3. Held(n) = 0 /\ Signed(n) = 0
    BY <2>2, FS_EmptySet DEF Held, Signed
  <2> QED BY <2>1, <2>3 DEF Lost, Arrived, Indicator
<1>4. Once
  BY <1>3 DEF Once
<1>5. CountCovered
  BY DEF CountCovered
<1> QED BY <1>1, <1>2, <1>4, <1>5 DEF BrokerInv

(* RabbitMQServer.run without its messages: queueDeclare, the end of the   *)
(* loop over the deliveries, and processEvents.                            *)
LEMMA LoopKeeps ==
  ASSUME BrokerInv, queueDeclare \/ delivering \/ eventsProcessed \/ UNCHANGED vars
  PROVE  BrokerInv'
<1> USE DEF BrokerInv, queueDeclare, delivering, eventsProcessed, vars, serverVars,
            returnVars, signVars, workerVars
<1>1. TypeOK'
  <2>1. server' \in {"declare", "deliver", "events"} /\ count' \in Nat
    BY DEF TypeOK
  <2>2. /\ UNCHANGED <<arrived, answered, returnQueue, delivered, withheld>>
        /\ UNCHANGED <<sign_exists, signQueue, worker, unacked, kept, data, lost, failures>>
    OBVIOUS
  <2>3. TypeOK
    OBVIOUS
  <2> HIDE DEF BrokerInv, queueDeclare, delivering, eventsProcessed, vars
  <2> QED BY <2>1, <2>2, <2>3 DEF TypeOK
<1>2. WorkersOK'
  BY DEF WorkersOK, With
<1>3. Once'
  <2>1. \A n \in Interests : Signing(n)' = Signing(n)
    BY DEF Signing
  <2>2. UNCHANGED <<signQueue, returnQueue, delivered, answered, unacked, kept, lost, arrived>>
    OBVIOUS
  <2> QED BY <2>1, <2>2, NothingMoves
<1>4. CountCovered'
  BY DEF CountCovered, TypeOK
<1> QED BY <1>1, <1>2, <1>3, <1>4

(* RabbitMQServer.run: a delivery is answered and acknowledged, or an      *)
(* exception leaves it unacknowledged, before or after it was answered.    *)
LEMMA DeliveryKeeps ==
  ASSUME BrokerInv, nextDelivery \/ putFails \/ ackFails
  PROVE  BrokerInv'
<1> USE DEF BrokerInv
<1>0. PICK x : x = Head(delivered)
  OBVIOUS
<1>1. /\ delivered \in Seq(Interests) /\ delivered # << >> /\ answered \in Seq(Interests)
      /\ x \in Interests /\ Tail(delivered) \in Seq(Interests)
      /\ Len(delivered) \in Nat /\ Len(Tail(delivered)) = Len(delivered) - 1
      /\ count \in Nat /\ count > 0 /\ returnQueue \in Seq(Interests)
      /\ withheld \in Nat /\ Len(delivered) + withheld <= Prefetch
      /\ Append(answered, x) \in Seq(Interests) /\ lost \in SUBSET Interests
  BY <1>0 DEF TypeOK, nextDelivery, putFails, ackFails
<1>2. /\ delivered' = Tail(delivered)
      /\ UNCHANGED <<arrived, returnQueue, sign_exists, signQueue, worker, unacked, kept, data>>
  BY DEF nextDelivery, putFails, ackFails, signVars, workerVars
<1>3. \/ answered' = Append(answered, x) /\ lost' = lost
      \/ answered' = answered /\ lost' = lost \cup {x}
  BY <1>0 DEF nextDelivery, putFails, ackFails
<1>4. \/ server' = server /\ server = "deliver" /\ count' = count - 1
           /\ withheld' = withheld /\ failures' = failures
      \/ server' = "declare" /\ count' = count
           /\ withheld' = withheld + 1 /\ failures' = failures + 1
  BY DEF nextDelivery, putFails, ackFails
<1>5. TypeOK'
  <2>1. withheld' \in Nat /\ Len(delivered') + withheld' <= Prefetch /\ count' \in Nat
    <3>1. Len(delivered') = Len(delivered) - 1
      BY <1>1, <1>2
    <3> HIDE DEF BrokerInv
    <3> QED BY <1>1, <1>4, <3>1, BoundsAssumption
  <2>2. answered' \in Seq(Interests) /\ lost' \in SUBSET Interests
    <3> HIDE DEF BrokerInv
    <3> QED BY <1>1, <1>3
  <2>3. server' \in {"declare", "deliver", "events"} /\ failures' \in Nat
    BY <1>4 DEF TypeOK
  <2> QED BY <1>1, <1>2, <2>1, <2>2, <2>3 DEF TypeOK
<1>6. WorkersOK'
  BY <1>2 DEF WorkersOK, With
<1>7. ASSUME NEW n \in Interests
      PROVE  InSign(n)' + InReturn(n)' + InDelivered(n)' + InAnswered(n)'
               + Held(n)' + Signed(n)' + Lost(n)' = Arrived(n)'
  <2>1. /\ InSign(n)' = InSign(n) /\ InReturn(n)' = InReturn(n)
        /\ Held(n)' = Held(n) /\ Signed(n)' = Signed(n) /\ Arrived(n)' = Arrived(n)
    BY <1>2 DEF InSign, InReturn, Held, Holding, With, Signed, Signing, Arrived
  <2>2. InDelivered(n) = InDelivered(n)' + Indicator(x = n)
    BY <1>0, <1>1, <1>2, OccurrencesTail DEF InDelivered
  <2>3. InDelivered(n)' \in Nat /\ Indicator(x = n) \in {0, 1}
    BY <1>1, <1>2, OccurrencesNat DEF InDelivered, Indicator
  <2>4. /\ InSign(n) \in Nat /\ InReturn(n) \in Nat /\ InDelivered(n) \in Nat
        /\ InAnswered(n) \in Nat /\ Held(n) \in Nat /\ Signed(n) \in Nat
        /\ Lost(n) \in {0, 1} /\ Arrived(n) \in {0, 1}
        /\ InSign(n) + InReturn(n) + InDelivered(n) + InAnswered(n)
             + Held(n) + Signed(n) + Lost(n) = Arrived(n)
    BY CountsNat DEF Once
  <2> HIDE DEF BrokerInv
  <2>5. CASE answered' = Append(answered, x) /\ lost' = lost
    <3>1. InAnswered(n)' = InAnswered(n) + Indicator(x = n) /\ Lost(n)' = Lost(n)
      BY <1>1, <2>5, OccurrencesAppend DEF InAnswered, Lost
    <3> QED BY <2>1, <2>2, <2>3, <2>4, <3>1
  <2>6. CASE answered' = answered /\ lost' = lost \cup {x}
    <3>1. x = n => Lost(n) = 0
      <4>1. x = n => InDelivered(n) >= 1
        BY <2>2, <2>3 DEF Indicator
      <4> QED BY <2>4, <4>1
    <3>2. InAnswered(n)' = InAnswered(n) /\ Lost(n)' = Lost(n) + Indicator(x = n)
      BY <2>6, <3>1 DEF InAnswered, Lost, Indicator
    <3> QED BY <2>1, <2>2, <2>3, <2>4, <3>2
  <2> QED BY <1>3, <2>5, <2>6
<1>8. Once'
  BY <1>7 DEF Once
<1>9. CountCovered'
  <2>1. CASE server' = "declare"
    BY <2>1 DEF CountCovered
  <2>2. CASE server = "deliver" /\ count' = count - 1
    <3>1. count <= Len(delivered) + Len(returnQueue) /\ Len(returnQueue) \in Nat
      BY <1>1, <2>2 DEF CountCovered
    <3>2. Len(delivered') = Len(delivered) - 1 /\ returnQueue' = returnQueue
      BY <1>1, <1>2
    <3> HIDE DEF BrokerInv
    <3> QED BY <1>1, <2>2, <3>1, <3>2 DEF CountCovered
  <2> QED BY <1>4, <2>1, <2>2
<1> QED BY <1>5, <1>6, <1>8, <1>9

(* RabbitMQServer.onInterest: published, or dropped when SignQueue is gone *)
(* or basicPublish throws.                                                 *)
LEMMA InterestKeeps ==
  ASSUME BrokerInv, NEW x \in Interests \ arrived, onInterest(x) \/ publishFails(x)
  PROVE  BrokerInv'
<1> USE DEF BrokerInv, onInterest, publishFails, returnVars, signVars, workerVars
<1>0. /\ signQueue \in Seq(Interests) /\ arrived' = arrived \cup {x}
      /\ \/ signQueue' = Append(signQueue, x) /\ lost' = lost
         \/ signQueue' = signQueue /\ lost' = lost \cup {x}
      /\ UNCHANGED <<server, count, returnQueue, delivered, withheld, answered, worker,
                     unacked, kept, data>>
  BY DEF TypeOK
<1>1. TypeOK'
  <2>1. signQueue' \in Seq(Interests) /\ lost' \in SUBSET Interests
    <3>1. Append(signQueue, x) \in Seq(Interests)
      BY <1>0
    <3>2. lost \in SUBSET Interests /\ lost \cup {x} \in SUBSET Interests
      BY DEF TypeOK
    <3> HIDE DEF BrokerInv, onInterest, publishFails
    <3> QED BY <1>0, <3>1, <3>2
  <2>2. arrived' \in SUBSET Interests
    BY <1>0 DEF TypeOK
  <2>3. sign_exists' = sign_exists /\ failures' \in Nat
    BY DEF TypeOK
  <2> HIDE DEF onInterest, publishFails
  <2> QED BY <1>0, <2>1, <2>2, <2>3 DEF TypeOK
<1>2. WorkersOK' /\ CountCovered'
  BY DEF WorkersOK, With, CountCovered
<1>3. ASSUME NEW n \in Interests
      PROVE  InSign(n)' + InReturn(n)' + InDelivered(n)' + InAnswered(n)'
               + Held(n)' + Signed(n)' + Lost(n)' = Arrived(n)'
  <2>1. /\ InSign(n) \in Nat /\ InReturn(n) \in Nat /\ InDelivered(n) \in Nat
        /\ InAnswered(n) \in Nat /\ Held(n) \in Nat /\ Signed(n) \in Nat
        /\ Lost(n) \in {0, 1} /\ Arrived(n) \in {0, 1}
        /\ InSign(n) + InReturn(n) + InDelivered(n) + InAnswered(n)
             + Held(n) + Signed(n) + Lost(n) = Arrived(n)
    BY CountsNat DEF Once
  <2>2. /\ InReturn(n)' = InReturn(n) /\ InDelivered(n)' = InDelivered(n)
        /\ InAnswered(n)' = InAnswered(n)
        /\ Held(n)' = Held(n) /\ Signed(n)' = Signed(n)
    BY DEF InReturn, InDelivered, InAnswered, Held, Holding, With, Signed, Signing
  <2>3. Arrived(x) = 0 /\ (n = x => Lost(n) = 0)
    <3>1. Arrived(x) = 0
      BY DEF Arrived, Indicator
    <3> QED BY <2>1, <3>1
  <2>4. Arrived(n)' = Arrived(n) + Indicator(x = n)
    BY <1>0, <2>3 DEF Arrived, Indicator
  <2>5. CASE signQueue' = Append(signQueue, x) /\ lost' = lost
    <3>1. InSign(n)' = InSign(n) + Indicator(x = n) /\ Lost(n)' = Lost(n)
      BY <1>0, <2>5, OccurrencesAppend DEF InSign, Lost
    <3>2. Indicator(x = n) \in {0, 1}
      BY DEF Indicator
    <3> HIDE DEF BrokerInv, onInterest, publishFails
    <3> QED BY <2>1, <2>2, <2>4, <3>1, <3>2
  <2>6. CASE signQueue' = signQueue /\ lost' = lost \cup {x}
    <3>1. Lost(n)' = Lost(n) + Indicator(x = n) /\ InSign(n)' = InSign(n)
      BY <2>3, <2>6 DEF InSign, Lost, Indicator
    <3>2. Indicator(x = n) \in {0, 1}
      BY DEF Indicator
    <3> HIDE DEF BrokerInv, onInterest, publishFails
    <3> QED BY <2>1, <2>2, <2>4, <3>1, <3>2
  <2> QED BY <1>0, <2>5, <2>6
<1>4. Once'
  BY <1>3 DEF Once
<1> QED BY <1>1, <1>2, <1>4

(* The broker pushes a reply to the server.                                *)
LEMMA PushReturnKeeps == BrokerInv /\ pushReturn => BrokerInv'
<1> SUFFICES ASSUME BrokerInv, pushReturn PROVE BrokerInv'
  OBVIOUS
<1> USE DEF BrokerInv, pushReturn, serverVars, signVars, workerVars
<1> DEFINE x == Head(returnQueue)
<1>0. /\ returnQueue \in Seq(Interests) /\ returnQueue # << >> /\ delivered \in Seq(Interests)
      /\ x \in Interests /\ Tail(returnQueue) \in Seq(Interests)
      /\ Len(Tail(returnQueue)) = Len(returnQueue) - 1
      /\ Append(delivered, x) \in Seq(Interests)
      /\ Len(Append(delivered, x)) = Len(delivered) + 1
  BY DEF TypeOK, CanPushReturn
<1>1. TypeOK'
  <2>1. Len(delivered') + withheld' <= Prefetch
    <3>1. /\ Len(delivered') = Len(delivered) + 1 /\ Len(delivered) \in Nat
          /\ withheld' = withheld /\ withheld \in Nat /\ Len(delivered) + withheld < Prefetch
      BY <1>0 DEF TypeOK, CanPushReturn
    <3> HIDE DEF BrokerInv, pushReturn
    <3> QED BY <3>1, BoundsAssumption
  <2> QED BY <1>0, <2>1 DEF TypeOK
<1>2. WorkersOK'
  BY DEF WorkersOK, With
<1>3. ASSUME NEW n \in Interests
      PROVE  InSign(n)' + InReturn(n)' + InDelivered(n)' + InAnswered(n)'
               + Held(n)' + Signed(n)' + Lost(n)' = Arrived(n)'
  <2>1. /\ InSign(n) \in Nat /\ InReturn(n) \in Nat /\ InDelivered(n) \in Nat
        /\ InAnswered(n) \in Nat /\ Held(n) \in Nat /\ Signed(n) \in Nat
        /\ Lost(n) \in {0, 1} /\ Arrived(n) \in {0, 1}
        /\ InSign(n) + InReturn(n) + InDelivered(n) + InAnswered(n)
             + Held(n) + Signed(n) + Lost(n) = Arrived(n)
    BY CountsNat DEF Once
  <2>2. /\ InSign(n)' = InSign(n) /\ InAnswered(n)' = InAnswered(n)
        /\ Held(n)' = Held(n) /\ Signed(n)' = Signed(n)
        /\ Lost(n)' = Lost(n) /\ Arrived(n)' = Arrived(n)
    BY DEF InSign, InAnswered, Held, Holding, With, Signed, Signing, Lost, Arrived
  <2>3. /\ InReturn(n) = InReturn(n)' + Indicator(x = n)
        /\ InDelivered(n)' = InDelivered(n) + Indicator(x = n)
    BY <1>0, OccurrencesTail, OccurrencesAppend DEF InDelivered, InReturn
  <2>4. InReturn(n)' \in Nat /\ Indicator(x = n) \in {0, 1}
    BY <1>0, OccurrencesNat DEF InReturn, Indicator
  <2> HIDE DEF BrokerInv, pushReturn
  <2> QED BY <2>1, <2>2, <2>3, <2>4
<1>4. Once'
  BY <1>3 DEF Once
<1>5. CountCovered'
  BY <1>0 DEF CountCovered, TypeOK
<1> QED BY <1>1, <1>2, <1>4, <1>5

(* RabbitMQWorker starts, or takes a delivery that it has not acknowledged.*)
LEMMA WorkerLocalKeeps ==
  ASSUME BrokerInv, NEW w \in Workers, start(w) \/ workerNext(w)
  PROVE  BrokerInv'
<1> USE DEF BrokerInv, start, workerNext, serverVars, returnVars, signVars
<1>0. /\ unacked' = unacked /\ unacked[w] \in Seq(Interests)
      /\ worker[w] # "sign" /\ worker'[w] \in {"next", "ack"}
      /\ worker'[w] = "ack" => unacked[w] # << >> /\ data'[w] = Head(unacked[w])
      /\ \A v \in Workers \ {w} : worker'[v] = worker[v] /\ data'[v] = data[v]
  BY DEF TypeOK
<1>1. TypeOK'
  <2>1. worker' \in [Workers -> {"down", "next", "ack", "sign"}]
    BY DEF TypeOK
  <2>2. data' \in [Workers -> Interests \cup {None}]
    <3>1. CASE start(w)
      BY <3>1 DEF TypeOK
    <3>2. CASE workerNext(w)
      <4>1. Head(unacked[w]) \in Interests
        BY <1>0, <3>2
      <4> QED BY <3>2, <4>1 DEF TypeOK
    <3> QED BY <3>1, <3>2
  <2>3. sign_exists' \in BOOLEAN
    BY DEF TypeOK
  <2> QED BY <2>1, <2>2, <2>3 DEF TypeOK
<1>2. WorkersOK'
  BY <1>0 DEF WorkersOK, With
<1>3. \A n \in Interests : Signing(n)' = Signing(n)
  BY <1>0 DEF Signing
<1>4. UNCHANGED <<signQueue, returnQueue, delivered, answered, unacked, kept, lost, arrived>>
  OBVIOUS
<1>5. Once'
  BY <1>3, <1>4, NothingMoves
<1>6. CountCovered'
  BY DEF CountCovered
<1> QED BY <1>1, <1>2, <1>5, <1>6

(* The broker pushes a name to a worker: it is not with any worker yet.    *)
LEMMA PushSignKeeps ==
  ASSUME BrokerInv, NEW w \in Workers, pushSign(w)
  PROVE  BrokerInv'
<1> USE DEF BrokerInv, pushSign, serverVars, returnVars
<1>0. PICK x : x = Head(signQueue)
  OBVIOUS
<1>1. /\ signQueue \in Seq(Interests) /\ signQueue # << >> /\ x \in Interests
      /\ Tail(signQueue) \in Seq(Interests) /\ signQueue' = Tail(signQueue)
      /\ unacked[w] \in Seq(Interests) /\ unacked'[w] = Append(unacked[w], x)
      /\ unacked'[w] \in Seq(Interests) /\ Len(unacked'[w]) = Len(unacked[w]) + 1
      /\ unacked[w] # << >> => Head(unacked'[w]) = Head(unacked[w])
      /\ unacked'[w] # << >>
      /\ \A v \in Workers \ {w} : unacked'[v] = unacked[v]
  <2>1. /\ signQueue \in Seq(Interests) /\ signQueue # << >> /\ signQueue' = Tail(signQueue)
        /\ unacked \in [Workers -> Seq(Interests)]
        /\ unacked' = [unacked EXCEPT ![w] = Append(@, x)]
    BY <1>0 DEF TypeOK
  <2>2. x \in Interests /\ Tail(signQueue) \in Seq(Interests)
    BY <1>0, <2>1
  <2>3. /\ unacked[w] \in Seq(Interests) /\ unacked'[w] = Append(unacked[w], x)
        /\ \A v \in Workers \ {w} : unacked'[v] = unacked[v]
    BY <2>1
  <2> HIDE DEF BrokerInv, pushSign
  <2> QED BY <2>1, <2>2, <2>3
<1>2. TypeOK'
  <2>1. \A v \in Workers : Len(unacked'[v]) + Len(kept'[v]) <= Prefetch
    <3>1. /\ Len(unacked[w]) + Len(kept[w]) < Prefetch /\ kept' = kept
          /\ Len(unacked[w]) \in Nat /\ Len(kept[w]) \in Nat
          /\ \A v \in Workers : Len(unacked[v]) + Len(kept[v]) <= Prefetch
      <4>1. kept[w] \in Seq(Interests)
        BY DEF TypeOK
      <4>2. Len(unacked[w]) \in Nat /\ Len(kept[w]) \in Nat
        BY <1>1, <4>1
      <4> QED BY <4>2 DEF TypeOK
    <3>2. Len(unacked'[w]) + Len(kept'[w]) <= Prefetch
      <4>1. PICK a, b : a = Len(unacked[w]) /\ b = Len(kept[w])
        OBVIOUS
      <4>2. Len(unacked'[w]) = a + 1 /\ Len(kept'[w]) = b
        BY <1>1, <3>1, <4>1
      <4>3. a \in Nat /\ b \in Nat /\ a + b < Prefetch
        BY <3>1, <4>1
      <4> HIDE DEF BrokerInv, pushSign
      <4>4. (a + 1) + b <= Prefetch
        BY <4>3, BoundsAssumption
      <4> QED BY <4>2, <4>4
    <3> QED BY <1>1, <3>1, <3>2
  <2>2. unacked' \in [Workers -> Seq(Interests)]
    BY <1>1 DEF TypeOK
  <2> QED BY <1>1, <2>1, <2>2 DEF TypeOK
<1>3. \A n : /\ With(n, w)' = With(n, w) + Indicator(x = n) /\ With(n, w) \in Nat
            /\ \A v \in Workers \ {w} : With(n, v)' = With(n, v)
  <2> SUFFICES ASSUME NEW n
               PROVE  /\ With(n, w)' = With(n, w) + Indicator(x = n) /\ With(n, w) \in Nat
                      /\ \A v \in Workers \ {w} : With(n, v)' = With(n, v)
    OBVIOUS
  <2>1. Occurrences(n, unacked'[w]) = Occurrences(n, unacked[w]) + Indicator(x = n)
    BY <1>1, OccurrencesAppend
  <2>2. /\ With(n, w) \in Nat /\ Occurrences(n, kept[w]) \in Nat
        /\ Occurrences(n, unacked[w]) \in Nat /\ Indicator(x = n) \in {0, 1}
    BY WithNat DEF Indicator
  <2>3. kept' = kept
    OBVIOUS
  <2> HIDE DEF BrokerInv, pushSign
  <2> QED BY <1>1, <2>1, <2>2, <2>3 DEF With
<1>4. With(x, w) = 0 /\ Held(x) = 0
  <2>1. InSign(x) >= 1
    <3>1. x \in Elements(signQueue)
      BY <1>0, <1>1 DEF Elements
    <3> QED BY <1>1, <3>1, OccurrencesNat DEF InSign
  <2>2. /\ InSign(x) \in Nat /\ InReturn(x) \in Nat /\ InDelivered(x) \in Nat
        /\ InAnswered(x) \in Nat /\ Held(x) \in Nat /\ Signed(x) \in Nat
        /\ Lost(x) \in {0, 1} /\ Arrived(x) \in {0, 1}
        /\ InSign(x) + InReturn(x) + InDelivered(x) + InAnswered(x)
             + Held(x) + Signed(x) + Lost(x) = Arrived(x)
    BY <1>1, CountsNat DEF Once
  <2>3. Held(x) = 0
    BY <2>1, <2>2
  <2>4. Holding(x) = {}
    <3>1. IsFiniteSet(Holding(x))
      BY WorkersAssumption, FS_Subset DEF Holding
    <3> QED BY <2>3, <3>1, FS_EmptySet DEF Held
  <2>5. With(x, w) # 1 /\ With(x, w) <= 1
    BY <1>1, <2>4 DEF Holding, WorkersOK
  <2> QED BY <1>3, <2>3, <2>5
<1>5. WorkersOK'
  <2>1. ASSUME NEW n \in Interests PROVE With(n, w)' <= 1
    <3>1. CASE n = x
      BY <1>3, <1>4, <3>1 DEF Indicator
    <3>2. CASE n # x
      BY <1>1, <1>3, <3>2 DEF Indicator, WorkersOK
    <3> QED BY <3>1, <3>2
  <2> QED BY <1>1, <1>3, <2>1 DEF WorkersOK
<1>6. ASSUME NEW n \in Interests
      PROVE  InSign(n)' + InReturn(n)' + InDelivered(n)' + InAnswered(n)'
               + Held(n)' + Signed(n)' + Lost(n)' = Arrived(n)'
  <2>1. /\ InSign(n) \in Nat /\ InReturn(n) \in Nat /\ InDelivered(n) \in Nat
        /\ InAnswered(n) \in Nat /\ Held(n) \in Nat /\ Signed(n) \in Nat
        /\ Lost(n) \in {0, 1} /\ Arrived(n) \in {0, 1}
        /\ InSign(n) + InReturn(n) + InDelivered(n) + InAnswered(n)
             + Held(n) + Signed(n) + Lost(n) = Arrived(n)
    BY CountsNat DEF Once
  <2>2. /\ InReturn(n)' = InReturn(n) /\ InDelivered(n)' = InDelivered(n)
        /\ InAnswered(n)' = InAnswered(n) /\ Signed(n)' = Signed(n)
        /\ Lost(n)' = Lost(n) /\ Arrived(n)' = Arrived(n)
    BY DEF InReturn, InDelivered, InAnswered, Signed, Signing, Lost, Arrived
  <2>3. InSign(n) = InSign(n)' + Indicator(x = n) /\ InSign(n)' \in Nat
    <3>1. InSign(n)' = Occurrences(n, Tail(signQueue))
      BY <1>1 DEF InSign
    <3>2. InSign(n) = Occurrences(n, Tail(signQueue)) + Indicator(Head(signQueue) = n)
      BY <1>1, OccurrencesTail DEF InSign
    <3> QED BY <1>0, <1>1, <3>1, <3>2, OccurrencesNat
  <2>4. Held(n)' + Indicator(w \in Holding(n)) = Held(n) + Indicator(w \in Holding(n)')
        /\ Held(n)' \in Nat
    <3>1. /\ Holding(n) \in SUBSET Workers /\ Holding(n)' \in SUBSET Workers
          /\ \A v \in Workers \ {w} : v \in Holding(n) <=> v \in Holding(n)'
      BY <1>3 DEF Holding
    <3> QED BY <3>1, OneWorker DEF Held
  <2>5. Held(n)' = Held(n) + Indicator(x = n)
    <3>1. CASE n = x
      <4>1. w \notin Holding(n) /\ w \in Holding(n)'
        BY <1>3, <1>4, <3>1 DEF Holding, Indicator
      <4> QED BY <2>1, <2>4, <3>1, <4>1 DEF Indicator
    <3>2. CASE n # x
      <4>1. w \in Holding(n) <=> w \in Holding(n)'
        BY <1>3, <3>2 DEF Holding, Indicator
      <4> HIDE DEF BrokerInv, pushSign
      <4>2. Indicator(w \in Holding(n)) = Indicator(w \in Holding(n)')
            /\ Indicator(w \in Holding(n)) \in {0, 1} /\ Indicator(x = n) = 0
        BY <3>2, <4>1 DEF Indicator
      <4> QED BY <2>1, <2>4, <4>2
    <3> QED BY <3>1, <3>2
  <2>6. Indicator(x = n) \in {0, 1}
    BY DEF Indicator
  <2> HIDE DEF BrokerInv, pushSign
  <2> QED BY <2>1, <2>2, <2>3, <2>5, <2>6
<1>7. Once'
  BY <1>6 DEF Once
<1>8. CountCovered'
  BY DEF CountCovered
<1> QED BY <1>2, <1>5, <1>7, <1>8

(* RabbitMQWorker.run: basicAck, before the signature.  From here on only  *)
(* the worker knows the name.                                              *)
LEMMA AckKeeps ==
  ASSUME BrokerInv, NEW w \in Workers, workerAck(w)
  PROVE  BrokerInv'
<1> USE DEF BrokerInv, workerAck, serverVars, returnVars, signVars
<1>0. PICK x : x = data[w]
  OBVIOUS
<1>1. /\ worker[w] = "ack" /\ worker'[w] = "sign" /\ data' = data
      /\ x \in Interests /\ unacked[w] # << >> /\ x = Head(unacked[w])
      /\ unacked[w] \in Seq(Interests) /\ unacked'[w] = Tail(unacked[w])
      /\ unacked'[w] \in Seq(Interests) /\ Len(unacked'[w]) = Len(unacked[w]) - 1
      /\ \A v \in Workers \ {w} : unacked'[v] = unacked[v] /\ worker'[v] = worker[v]
      /\ kept' = kept
  <2>1. /\ worker[w] = "ack" /\ data' = data /\ kept' = kept
        /\ unacked' = [unacked EXCEPT ![w] = Tail(@)] /\ unacked \in [Workers -> Seq(Interests)]
        /\ worker' = [worker EXCEPT ![w] = "sign"]
        /\ worker \in [Workers -> {"down", "next", "ack", "sign"}]
    BY DEF TypeOK
  <2>2. x \in Interests /\ unacked[w] # << >> /\ x = Head(unacked[w])
    BY <1>0, <2>1 DEF WorkersOK
  <2>3. /\ unacked[w] \in Seq(Interests) /\ unacked'[w] = Tail(unacked[w])
        /\ worker'[w] = "sign"
        /\ \A v \in Workers \ {w} : unacked'[v] = unacked[v] /\ worker'[v] = worker[v]
    BY <2>1
  <2> HIDE DEF BrokerInv, workerAck
  <2> QED BY <2>1, <2>2, <2>3
<1>2. TypeOK'
  <2>1. /\ worker' \in [Workers -> {"down", "next", "ack", "sign"}]
        /\ unacked' \in [Workers -> Seq(Interests)]
    BY <1>1 DEF TypeOK
  <2>2. \A v \in Workers : Len(unacked'[v]) + Len(kept'[v]) <= Prefetch
    <3>1. /\ \A v \in Workers : Len(unacked[v]) + Len(kept[v]) <= Prefetch
          /\ kept[w] \in Seq(Interests)
      BY DEF TypeOK
    <3>2. /\ Len(unacked[w]) \in Nat /\ Len(kept[w]) \in Nat
          /\ Len(unacked'[w]) = Len(unacked[w]) - 1
      BY <1>1, <3>1
    <3> HIDE DEF BrokerInv, workerAck
    <3>3. Len(unacked'[w]) + Len(kept'[w]) <= Prefetch
      <4>1. PICK a, b : a = Len(unacked[w]) /\ b = Len(kept[w])
        OBVIOUS
      <4>2. Len(unacked'[w]) = a - 1 /\ Len(kept'[w]) = b
        BY <1>1, <3>2, <4>1
      <4>3. a \in Nat /\ b \in Nat /\ a + b <= Prefetch
        BY <3>1, <3>2, <4>1
      <4>4. (a - 1) + b <= Prefetch
        BY <4>3, BoundsAssumption
      <4> QED BY <4>2, <4>4
    <3> QED BY <1>1, <3>1, <3>3
  <2> QED BY <2>1, <2>2 DEF TypeOK
<1>3. ASSUME NEW n
      PROVE  /\ With(n, w) = With(n, w)' + Indicator(x = n)
             /\ With(n, w) \in Nat /\ With(n, w)' \in Nat
             /\ \A v \in Workers \ {w} : With(n, v)' = With(n, v)
  <2>1. Occurrences(n, unacked[w])
          = Occurrences(n, Tail(unacked[w])) + Indicator(Head(unacked[w]) = n)
    BY <1>1, OccurrencesTail
  <2>2. /\ Occurrences(n, unacked[w]) \in Nat /\ Occurrences(n, unacked'[w]) \in Nat
        /\ Occurrences(n, kept[w]) \in Nat /\ Indicator(x = n) \in {0, 1}
    BY <1>1, OccurrencesNat, WithNat DEF Indicator
  <2> HIDE DEF BrokerInv, workerAck
  <2> QED BY <1>1, <2>1, <2>2 DEF With
<1>4. ASSUME NEW n \in Interests PROVE With(n, w)' <= 1
  <2>1. With(n, w) <= 1 /\ Indicator(x = n) \in {0, 1}
    BY DEF WorkersOK, Indicator
  <2> QED BY <1>3, <2>1
<1>5. WorkersOK'
  BY <1>0, <1>1, <1>3, <1>4 DEF WorkersOK
<1>6. ASSUME NEW n \in Interests
      PROVE  InSign(n)' + InReturn(n)' + InDelivered(n)' + InAnswered(n)'
               + Held(n)' + Signed(n)' + Lost(n)' = Arrived(n)'
  <2>1. /\ InSign(n) \in Nat /\ InReturn(n) \in Nat /\ InDelivered(n) \in Nat
        /\ InAnswered(n) \in Nat /\ Held(n) \in Nat /\ Signed(n) \in Nat
        /\ Lost(n) \in {0, 1} /\ Arrived(n) \in {0, 1}
        /\ InSign(n) + InReturn(n) + InDelivered(n) + InAnswered(n)
             + Held(n) + Signed(n) + Lost(n) = Arrived(n)
    BY CountsNat DEF Once
  <2>2. /\ InSign(n)' = InSign(n) /\ InReturn(n)' = InReturn(n)
        /\ InDelivered(n)' = InDelivered(n) /\ InAnswered(n)' = InAnswered(n)
        /\ Lost(n)' = Lost(n) /\ Arrived(n)' = Arrived(n)
    BY DEF InSign, InReturn, InDelivered, InAnswered, Lost, Arrived
  <2>3. Signed(n)' = Signed(n) + Indicator(x = n)
    <3>1. /\ Signing(n) \in SUBSET Workers /\ Signing(n)' \in SUBSET Workers
          /\ \A v \in Workers \ {w} : v \in Signing(n) <=> v \in Signing(n)'
          /\ w \notin Signing(n) /\ (w \in Signing(n)' <=> x = n)
      BY <1>0, <1>1 DEF Signing
    <3>2. /\ Signed(n)' \in Nat
          /\ Signed(n)' + Indicator(w \in Signing(n)) = Signed(n) + Indicator(w \in Signing(n)')
      BY <3>1, OneWorker DEF Signed
    <3> QED BY <2>1, <3>1, <3>2 DEF Indicator
  <2>4. Held(n) = Held(n)' + Indicator(x = n) /\ Held(n)' \in Nat
    <3>1. /\ Holding(n) \in SUBSET Workers /\ Holding(n)' \in SUBSET Workers
          /\ \A v \in Workers \ {w} : v \in Holding(n) <=> v \in Holding(n)'
      BY <1>3 DEF Holding
    <3>2. /\ Held(n)' \in Nat
          /\ Held(n)' + Indicator(w \in Holding(n)) = Held(n) + Indicator(w \in Holding(n)')
      BY <3>1, OneWorker DEF Held
    <3>3. With(n, w) <= 1
      BY DEF WorkersOK
    <3>4. CASE x = n
      <4>1. With(n, w) = With(n, w)' + 1
        BY <1>3, <3>4 DEF Indicator
      <4>2. With(n, w) = 1 /\ With(n, w)' = 0
        BY <1>3, <3>3, <4>1
      <4>3. w \in Holding(n) /\ w \notin Holding(n)'
        BY <4>2 DEF Holding
      <4> QED BY <2>1, <3>2, <3>4, <4>3 DEF Indicator
    <3>5. CASE x # n
      <4>1. With(n, w) = With(n, w)'
        BY <1>3, <3>5 DEF Indicator
      <4>2. w \in Holding(n) <=> w \in Holding(n)'
        BY <4>1 DEF Holding
      <4> QED BY <2>1, <3>2, <3>5, <4>2 DEF Indicator
    <3> QED BY <3>4, <3>5
  <2>5. Indicator(x = n) \in {0, 1}
    BY DEF Indicator
  <2> HIDE DEF BrokerInv, workerAck
  <2> QED BY <2>1, <2>2, <2>3, <2>4, <2>5
<1>7. Once'
  BY <1>6 DEF Once
<1>8. CountCovered'
  BY DEF CountCovered
<1> QED BY <1>2, <1>5, <1>7, <1>8

(* RabbitMQWorker.run: basicAck throws.  The broker still counts the       *)
(* delivery as the worker's.                                               *)
LEMMA AckFailsKeeps ==
  ASSUME BrokerInv, NEW w \in Workers, workerAckFails(w)
  PROVE  BrokerInv'
<1> USE DEF BrokerInv, workerAckFails, serverVars, returnVars, signVars
<1>0. PICK x : x = data[w]
  OBVIOUS
<1>1. /\ worker[w] = "ack" /\ worker'[w] = "next" /\ data' = data
      /\ x \in Interests /\ unacked[w] # << >> /\ x = Head(unacked[w])
      /\ unacked[w] \in Seq(Interests) /\ unacked'[w] = Tail(unacked[w])
      /\ kept[w] \in Seq(Interests) /\ kept'[w] = Append(kept[w], x)
      /\ \A v \in Workers \ {w} : /\ unacked'[v] = unacked[v] /\ kept'[v] = kept[v]
                                  /\ worker'[v] = worker[v]
  <2>1. /\ worker[w] = "ack" /\ data' = data
        /\ unacked' = [unacked EXCEPT ![w] = Tail(@)] /\ unacked \in [Workers -> Seq(Interests)]
        /\ kept' = [kept EXCEPT ![w] = Append(@, x)] /\ kept \in [Workers -> Seq(Interests)]
        /\ worker' = [worker EXCEPT ![w] = "next"]
        /\ worker \in [Workers -> {"down", "next", "ack", "sign"}]
    BY <1>0 DEF TypeOK
  <2>2. x \in Interests /\ unacked[w] # << >> /\ x = Head(unacked[w])
    BY <1>0, <2>1 DEF WorkersOK
  <2>3. /\ unacked[w] \in Seq(Interests) /\ unacked'[w] = Tail(unacked[w])
        /\ kept[w] \in Seq(Interests) /\ kept'[w] = Append(kept[w], x) /\ worker'[w] = "next"
    BY <2>1
  <2>4. \A v \in Workers \ {w} : /\ unacked'[v] = unacked[v] /\ kept'[v] = kept[v]
                                /\ worker'[v] = worker[v]
    BY <2>1
  <2> HIDE DEF BrokerInv, workerAckFails
  <2> QED BY <2>1, <2>2, <2>3, <2>4
<1>2. /\ unacked'[w] \in Seq(Interests) /\ Len(unacked'[w]) = Len(unacked[w]) - 1
      /\ kept'[w] \in Seq(Interests) /\ Len(kept'[w]) = Len(kept[w]) + 1
      /\ Len(unacked[w]) \in Nat /\ Len(kept[w]) \in Nat
  <2>1. PICK u, k : u = unacked[w] /\ k = kept[w]
    OBVIOUS
  <2>2. /\ u \in Seq(Interests) /\ u # << >> /\ unacked'[w] = Tail(u)
        /\ k \in Seq(Interests) /\ kept'[w] = Append(k, x) /\ x \in Interests
    BY <1>1, <2>1
  <2> HIDE DEF BrokerInv, workerAckFails
  <2>3. Tail(u) \in Seq(Interests) /\ Len(Tail(u)) = Len(u) - 1 /\ Len(u) \in Nat
    BY <2>2
  <2>4. Append(k, x) \in Seq(Interests) /\ Len(Append(k, x)) = Len(k) + 1 /\ Len(k) \in Nat
    BY <2>2
  <2> QED BY <2>1, <2>2, <2>3, <2>4
<1>3. TypeOK'
  <2>1. /\ worker' \in [Workers -> {"down", "next", "ack", "sign"}]
        /\ unacked' \in [Workers -> Seq(Interests)] /\ kept' \in [Workers -> Seq(Interests)]
    BY <1>1, <1>2 DEF TypeOK
  <2>2. \A v \in Workers : Len(unacked'[v]) + Len(kept'[v]) <= Prefetch
    <3>1. \A v \in Workers : Len(unacked[v]) + Len(kept[v]) <= Prefetch
      BY DEF TypeOK
    <3> HIDE DEF BrokerInv, workerAckFails
    <3>2. Len(unacked'[w]) + Len(kept'[w]) = Len(unacked[w]) + Len(kept[w])
      <4>1. PICK a, b : a = Len(unacked[w]) /\ b = Len(kept[w])
        OBVIOUS
      <4>2. /\ a \in Nat /\ b \in Nat
            /\ Len(unacked'[w]) = a - 1 /\ Len(kept'[w]) = b + 1
        BY <1>2, <4>1
      <4>3. (a - 1) + (b + 1) = a + b
        BY <4>2
      <4> QED BY <4>1, <4>2, <4>3
    <3> QED BY <1>1, <3>1, <3>2
  <2>3. failures' \in Nat
    BY DEF TypeOK
  <2> QED BY <2>1, <2>2, <2>3 DEF TypeOK
<1>4. ASSUME NEW n PROVE \A v \in Workers : With(n, v)' = With(n, v)
  <2>1. Occurrences(n, unacked[w])
          = Occurrences(n, Tail(unacked[w])) + Indicator(Head(unacked[w]) = n)
    BY <1>1, OccurrencesTail
  <2>2. Occurrences(n, kept'[w]) = Occurrences(n, kept[w]) + Indicator(x = n)
    BY <1>1, OccurrencesAppend
  <2>3. /\ Occurrences(n, unacked[w]) \in Nat /\ Occurrences(n, unacked'[w]) \in Nat
        /\ Occurrences(n, kept[w]) \in Nat /\ Indicator(x = n) \in {0, 1}
    BY <1>1, <1>2, OccurrencesNat DEF Indicator
  <2> HIDE DEF BrokerInv, workerAckFails
  <2>4. With(n, w)' = With(n, w)
    BY <1>1, <2>1, <2>2, <2>3 DEF With
  <2>5. \A v \in Workers \ {w} : With(n, v)' = With(n, v)
    BY <1>1 DEF With
  <2> QED BY <2>4, <2>5
<1>5. WorkersOK'
  BY <1>1, <1>4 DEF WorkersOK
<1>6. ASSUME NEW n \in Interests
      PROVE  /\ InSign(n)' = InSign(n) /\ InReturn(n)' = InReturn(n)
             /\ InDelivered(n)' = InDelivered(n) /\ InAnswered(n)' = InAnswered(n)
             /\ Held(n)' = Held(n) /\ Signed(n)' = Signed(n)
             /\ Lost(n)' = Lost(n) /\ Arrived(n)' = Arrived(n)
  <2>1. Holding(n)' = Holding(n)
    BY <1>4 DEF Holding
  <2>2. Signing(n)' = Signing(n)
    BY <1>1 DEF Signing
  <2> QED BY <2>1, <2>2 DEF InSign, InReturn, InDelivered, InAnswered, Held, Signed, Lost, Arrived
<1>7. Once'
  BY <1>6 DEF Once
<1>8. CountCovered'
  BY DEF CountCovered
<1> QED BY <1>3, <1>5, <1>7, <1>8

(* RabbitMQWorker.run: basicPublish on ReturnQueue.                        *)
LEMMA PublishKeeps ==
  ASSUME BrokerInv, NEW w \in Workers, workerPublish(w)
  PROVE  BrokerInv'
<1> USE DEF BrokerInv, workerPublish, serverVars, signVars
<1>0. PICK x : x = data[w]
  OBVIOUS
<1>1. /\ worker[w] = "sign" /\ worker'[w] = "next" /\ data' = data /\ x \in Interests
      /\ returnQueue \in Seq(Interests) /\ returnQueue' = Append(returnQueue, x)
      /\ returnQueue' \in Seq(Interests) /\ Len(returnQueue') = Len(returnQueue) + 1
      /\ \A v \in Workers \ {w} : worker'[v] = worker[v]
  BY <1>0 DEF TypeOK, WorkersOK
<1>2. TypeOK'
  <2>1. worker' \in [Workers -> {"down", "next", "ack", "sign"}]
    BY <1>1 DEF TypeOK
  <2> QED BY <1>1, <2>1 DEF TypeOK
<1>3. WorkersOK'
  BY <1>1 DEF WorkersOK, With
<1>4. ASSUME NEW n \in Interests
      PROVE  InSign(n)' + InReturn(n)' + InDelivered(n)' + InAnswered(n)'
               + Held(n)' + Signed(n)' + Lost(n)' = Arrived(n)'
  <2>1. /\ InSign(n) \in Nat /\ InReturn(n) \in Nat /\ InDelivered(n) \in Nat
        /\ InAnswered(n) \in Nat /\ Held(n) \in Nat /\ Signed(n) \in Nat
        /\ Lost(n) \in {0, 1} /\ Arrived(n) \in {0, 1}
        /\ InSign(n) + InReturn(n) + InDelivered(n) + InAnswered(n)
             + Held(n) + Signed(n) + Lost(n) = Arrived(n)
    BY CountsNat DEF Once
  <2>2. /\ InSign(n)' = InSign(n) /\ Held(n)' = Held(n)
        /\ InDelivered(n)' = InDelivered(n) /\ InAnswered(n)' = InAnswered(n)
        /\ Lost(n)' = Lost(n) /\ Arrived(n)' = Arrived(n)
    BY DEF InSign, Held, Holding, With, InDelivered, InAnswered, Lost, Arrived
  <2>3. Signed(n) = Signed(n)' + Indicator(x = n) /\ Signed(n)' \in Nat
    <3>1. /\ Signing(n) \in SUBSET Workers /\ Signing(n)' \in SUBSET Workers
          /\ \A v \in Workers \ {w} : v \in Signing(n) <=> v \in Signing(n)'
          /\ w \notin Signing(n)' /\ (w \in Signing(n) <=> x = n)
      BY <1>0, <1>1 DEF Signing
    <3>2. /\ Signed(n)' \in Nat
          /\ Signed(n)' + Indicator(w \in Signing(n)) = Signed(n) + Indicator(w \in Signing(n)')
      BY <3>1, OneWorker DEF Signed
    <3> QED BY <2>1, <3>1, <3>2 DEF Indicator
  <2>4. InReturn(n)' = InReturn(n) + Indicator(x = n)
    BY <1>1, OccurrencesAppend DEF InReturn
  <2>5. Indicator(x = n) \in {0, 1}
    BY DEF Indicator
  <2> HIDE DEF BrokerInv, workerPublish
  <2> QED BY <2>1, <2>2, <2>3, <2>4, <2>5
<1>5. Once'
  BY <1>4 DEF Once
<1>6. CountCovered'
  BY <1>1 DEF CountCovered, TypeOK
<1> QED BY <1>2, <1>3, <1>5, <1>6

(* RabbitMQWorker.run: an exception after the acknowledgement.             *)
LEMMA FailureKeeps ==
  ASSUME BrokerInv, NEW w \in Workers, workerFails(w)
  PROVE  BrokerInv'
<1> USE DEF BrokerInv, workerFails, serverVars, returnVars, signVars
<1>0. PICK x : x = data[w]
  OBVIOUS
<1>1. /\ worker[w] = "sign" /\ worker'[w] = "next" /\ data' = data /\ x \in Interests
      /\ lost' = lost \cup {x}
      /\ \A v \in Workers \ {w} : worker'[v] = worker[v]
  BY <1>0 DEF TypeOK, WorkersOK
<1>2. TypeOK'
  <2>1. worker' \in [Workers -> {"down", "next", "ack", "sign"}]
    BY <1>1 DEF TypeOK
  <2> QED BY <1>1, <2>1 DEF TypeOK
<1>3. WorkersOK'
  BY <1>1 DEF WorkersOK, With
<1>4. ASSUME NEW n \in Interests
      PROVE  InSign(n)' + InReturn(n)' + InDelivered(n)' + InAnswered(n)'
               + Held(n)' + Signed(n)' + Lost(n)' = Arrived(n)'
  <2>1. /\ InSign(n) \in Nat /\ InReturn(n) \in Nat /\ InDelivered(n) \in Nat
        /\ InAnswered(n) \in Nat /\ Held(n) \in Nat /\ Signed(n) \in Nat
        /\ Lost(n) \in {0, 1} /\ Arrived(n) \in {0, 1}
        /\ InSign(n) + InReturn(n) + InDelivered(n) + InAnswered(n)
             + Held(n) + Signed(n) + Lost(n) = Arrived(n)
    BY CountsNat DEF Once
  <2>2. /\ InSign(n)' = InSign(n) /\ Held(n)' = Held(n) /\ InReturn(n)' = InReturn(n)
        /\ InDelivered(n)' = InDelivered(n) /\ InAnswered(n)' = InAnswered(n)
        /\ Arrived(n)' = Arrived(n)
    BY DEF InSign, InReturn, Held, Holding, With, InDelivered, InAnswered, Arrived
  <2>3. Signed(n) = Signed(n)' + Indicator(x = n) /\ Signed(n)' \in Nat
    <3>1. /\ Signing(n) \in SUBSET Workers /\ Signing(n)' \in SUBSET Workers
          /\ \A v \in Workers \ {w} : v \in Signing(n) <=> v \in Signing(n)'
          /\ w \notin Signing(n)' /\ (w \in Signing(n) <=> x = n)
      BY <1>0, <1>1 DEF Signing
    <3>2. /\ Signed(n)' \in Nat
          /\ Signed(n)' + Indicator(w \in Signing(n)) = Signed(n) + Indicator(w \in Signing(n)')
      BY <3>1, OneWorker DEF Signed
    <3> QED BY <2>1, <3>1, <3>2 DEF Indicator
  <2>4. Indicator(x = n) \in {0, 1}
    BY DEF Indicator
  <2>5. x = n => Lost(n) = 0
    <3>1. x = n => Signed(n) >= 1
      BY <2>3 DEF Indicator
    <3> HIDE DEF BrokerInv, workerFails
    <3> QED BY <2>1, <3>1
  <2>6. Lost(n)' = Lost(n) + Indicator(x = n)
    BY <1>1, <2>5 DEF Lost, Indicator
  <2> HIDE DEF BrokerInv, workerFails
  <2> QED BY <2>1, <2>2, <2>3, <2>4, <2>6
<1>5. Once'
  BY <1>4 DEF Once
<1>6. CountCovered'
  BY DEF CountCovered
<1> QED BY <1>2, <1>3, <1>5, <1>6

(* A worker dies: the broker requeues what it did not acknowledge, or      *)
(* deletes SignQueue with the last worker; what the worker was signing is  *)
(* lost.                                                                   *)
LEMMA CrashKeeps ==
  ASSUME BrokerInv, NEW w \in Workers, crash(w)
  PROVE  BrokerInv'
<1> USE DEF BrokerInv
<1>0. PICK pending, inHand, x :
        /\ pending = (kept[w] \o unacked[w]) \o signQueue
        /\ inHand = (IF worker[w] = "sign" THEN {data[w]} ELSE {})
        /\ x = data[w]
  OBVIOUS
<1>1. /\ worker' = [worker EXCEPT ![w] = "down"]
      /\ unacked' = [unacked EXCEPT ![w] = << >>]
      /\ kept' = [kept EXCEPT ![w] = << >>]
      /\ UNCHANGED <<server, count, arrived, answered, returnQueue, delivered, withheld, data>>
      /\ failures' = failures + 1
      /\ sign_exists' \in BOOLEAN
  BY DEF crash, serverVars, returnVars
<1>2. \/ signQueue' = pending /\ lost' = lost \cup inHand
      \/ signQueue' = << >> /\ lost' = lost \cup inHand \cup Elements(pending)
  BY <1>0 DEF crash
<1>3. /\ worker'[w] = "down" /\ unacked'[w] = << >> /\ kept'[w] = << >>
      /\ \A v \in Workers \ {w} : /\ worker'[v] = worker[v] /\ unacked'[v] = unacked[v]
                                  /\ kept'[v] = kept[v]
      /\ unacked[w] \in Seq(Interests) /\ kept[w] \in Seq(Interests)
      /\ signQueue \in Seq(Interests) /\ inHand \subseteq Interests
  <2>1. /\ worker \in [Workers -> {"down", "next", "ack", "sign"}]
        /\ unacked \in [Workers -> Seq(Interests)] /\ kept \in [Workers -> Seq(Interests)]
        /\ signQueue \in Seq(Interests)
    BY DEF TypeOK
  <2>2. inHand \subseteq Interests
    BY <1>0 DEF WorkersOK
  <2>3. worker'[w] = "down" /\ unacked'[w] = << >> /\ kept'[w] = << >>
    BY <1>1, <2>1
  <2>4. \A v \in Workers \ {w} : /\ worker'[v] = worker[v] /\ unacked'[v] = unacked[v]
                                /\ kept'[v] = kept[v]
    BY <1>1, <2>1
  <2> HIDE DEF BrokerInv
  <2> QED BY <2>1, <2>2, <2>3, <2>4
<1>4. /\ kept[w] \o unacked[w] \in Seq(Interests)
      /\ pending \in Seq(Interests) /\ Elements(pending) \subseteq Interests
  <2>1. kept[w] \o unacked[w] \in Seq(Interests)
    BY <1>3
  <2>2. pending \in Seq(Interests)
    BY <1>0, <1>3, <2>1, OccurrencesConcat
  <2> HIDE DEF BrokerInv
  <2>3. Elements(pending) \subseteq Interests
    BY <2>2 DEF Elements
  <2> QED BY <2>1, <2>2, <2>3
<1>5. TypeOK'
  <2>1. /\ worker' \in [Workers -> {"down", "next", "ack", "sign"}]
        /\ unacked' \in [Workers -> Seq(Interests)] /\ kept' \in [Workers -> Seq(Interests)]
    BY <1>1 DEF TypeOK
  <2>2. \A v \in Workers : Len(unacked'[v]) + Len(kept'[v]) <= Prefetch
    <3>1. Len(<< >>) + Len(<< >>) <= Prefetch
      BY BoundsAssumption
    <3>2. \A v \in Workers : Len(unacked[v]) + Len(kept[v]) <= Prefetch
      BY DEF TypeOK
    <3> HIDE DEF BrokerInv
    <3> QED BY <1>3, <3>1, <3>2
  <2>3. signQueue' \in Seq(Interests) /\ lost' \in SUBSET Interests
    <3>1. lost \in SUBSET Interests /\ << >> \in Seq(Interests)
      BY DEF TypeOK
    <3> HIDE DEF BrokerInv
    <3> QED BY <1>2, <1>3, <1>4, <3>1
  <2> QED BY <1>1, <2>1, <2>2, <2>3 DEF TypeOK
<1>6. WorkersOK'
  <2>1. \A n : With(n, w)' = 0 /\ \A v \in Workers \ {w} : With(n, v)' = With(n, v)
    BY <1>3, OccurrencesEmpty DEF With
  <2> QED BY <1>1, <1>3, <2>1 DEF WorkersOK
<1>7. ASSUME NEW n \in Interests
      PROVE  InSign(n)' + InReturn(n)' + InDelivered(n)' + InAnswered(n)'
               + Held(n)' + Signed(n)' + Lost(n)' = Arrived(n)'
  <2>1. /\ InSign(n) \in Nat /\ InReturn(n) \in Nat /\ InDelivered(n) \in Nat
        /\ InAnswered(n) \in Nat /\ Held(n) \in Nat /\ Signed(n) \in Nat
        /\ Lost(n) \in {0, 1} /\ Arrived(n) \in {0, 1}
        /\ InSign(n) + InReturn(n) + InDelivered(n) + InAnswered(n)
             + Held(n) + Signed(n) + Lost(n) = Arrived(n)
    BY CountsNat DEF Once
  <2>2. /\ InReturn(n)' = InReturn(n) /\ InDelivered(n)' = InDelivered(n)
        /\ InAnswered(n)' = InAnswered(n) /\ Arrived(n)' = Arrived(n)
    BY <1>1 DEF InReturn, InDelivered, InAnswered, Arrived
  <2>3. PICK u : u = With(n, w)
    OBVIOUS
  <2>4. /\ u \in {0, 1}
        /\ Occurrences(n, pending) = u + InSign(n)
        /\ n \in Elements(pending) <=> u + InSign(n) >= 1
    <3>1. u \in Nat /\ u <= 1
      BY <2>3, WithNat DEF WorkersOK
    <3>2. Occurrences(n, pending) = u + InSign(n)
      <4>1. Occurrences(n, kept[w] \o unacked[w]) = u
        BY <2>3, WithNat
      <4> DEFINE mine == kept[w] \o unacked[w]
      <4>2. /\ mine \in Seq(Interests) /\ signQueue \in Seq(Interests)
            /\ pending = mine \o signQueue /\ Occurrences(n, mine) = u
        BY <1>0, <1>3, <1>4, <4>1
      <4> HIDE DEF mine, BrokerInv
      <4> QED BY <4>2, OccurrencesConcat DEF InSign
    <3>3. n \in Elements(pending) <=> Occurrences(n, pending) >= 1
      BY <1>4, OccurrencesNat
    <3> QED BY <3>1, <3>2, <3>3
  <2>5. Held(n) = Held(n)' + u /\ Held(n)' \in Nat
    <3>1. /\ Holding(n) \in SUBSET Workers /\ Holding(n)' \in SUBSET Workers
          /\ \A v \in Workers \ {w} : v \in Holding(n) <=> v \in Holding(n)'
          /\ w \notin Holding(n)' /\ (w \in Holding(n) <=> u = 1)
      <4>1. With(n, w)' = 0 /\ \A v \in Workers \ {w} : With(n, v)' = With(n, v)
        BY <1>3, OccurrencesEmpty DEF With
      <4> QED BY <2>3, <4>1 DEF Holding
    <3>2. /\ Held(n)' \in Nat
          /\ Held(n)' + Indicator(w \in Holding(n)) = Held(n) + Indicator(w \in Holding(n)')
      BY <3>1, OneWorker DEF Held
    <3> QED BY <2>1, <2>4, <3>1, <3>2 DEF Indicator
  <2>6. Signed(n) = Signed(n)' + Indicator(n \in inHand) /\ Signed(n)' \in Nat
    <3>1. /\ Signing(n) \in SUBSET Workers /\ Signing(n)' \in SUBSET Workers
          /\ \A v \in Workers \ {w} : v \in Signing(n) <=> v \in Signing(n)'
          /\ w \notin Signing(n)' /\ (w \in Signing(n) <=> n \in inHand)
      BY <1>0, <1>1, <1>3 DEF Signing
    <3>2. /\ Signed(n)' \in Nat
          /\ Signed(n)' + Indicator(w \in Signing(n)) = Signed(n) + Indicator(w \in Signing(n)')
      BY <3>1, OneWorker DEF Signed
    <3> QED BY <2>1, <3>1, <3>2 DEF Indicator
  <2>7. Indicator(n \in inHand) \in {0, 1}
    BY DEF Indicator
  <2> HIDE DEF BrokerInv
  <2>8. CASE signQueue' = pending /\ lost' = lost \cup inHand
    <3>1. InSign(n)' = u + InSign(n)
      BY <2>4, <2>8 DEF InSign
    <3>2. n \in inHand => Lost(n) = 0
      <4>1. n \in inHand => Signed(n) >= 1
        BY <2>6 DEF Indicator
      <4> QED BY <2>1, <4>1
    <3>3. Lost(n)' = Lost(n) + Indicator(n \in inHand)
      BY <2>8, <3>2 DEF Lost, Indicator
    <3> QED BY <2>1, <2>2, <2>4, <2>5, <2>6, <2>7, <3>1, <3>3
  <2>9. CASE signQueue' = << >> /\ lost' = lost \cup inHand \cup Elements(pending)
    <3>1. InSign(n)' = 0
      BY <2>9, OccurrencesEmpty DEF InSign
    <3>2. /\ n \in inHand => Indicator(n \in inHand) = 1
          /\ n \notin inHand => Indicator(n \in inHand) = 0
          /\ n \in lost => Lost(n) = 1
          /\ n \notin lost => Lost(n) = 0
          /\ Lost(n)' = IF n \in lost \/ n \in inHand \/ n \in Elements(pending) THEN 1 ELSE 0
      BY <2>9 DEF Lost, Indicator
    <3>3. Lost(n) + Indicator(n \in inHand) + u + InSign(n) <= 1
      BY <2>1, <2>4, <2>5, <2>6, <2>7
    <3>4. Lost(n)' = Lost(n) + Indicator(n \in inHand) + u + InSign(n)
      BY <2>1, <2>4, <2>7, <3>2, <3>3
    <3> QED BY <2>1, <2>2, <2>4, <2>5, <2>6, <2>7, <3>1, <3>4
  <2> QED BY <1>2, <2>8, <2>9
<1>8. Once'
  BY <1>7 DEF Once
<1>9. CountCovered'
  BY <1>1 DEF CountCovered
<1> QED BY <1>5, <1>6, <1>8, <1>9

(* BrokerInv is inductive.                                                 *)
THEOREM BrokerInvariant == Spec => []BrokerInv
<1>1. Init => BrokerInv
  BY InitBrokerInv
<1>2. BrokerInv /\ [Next]_vars => BrokerInv'
  <2> SUFFICES ASSUME BrokerInv, [Next]_vars PROVE BrokerInv'
    OBVIOUS
  <2>1. CASE Server
    BY <2>1, LoopKeeps, DeliveryKeeps, InterestKeeps DEF Server
  <2>2. CASE pushReturn
    BY <2>2, PushReturnKeeps
  <2>3. CASE \E w \in Workers : pushSign(w) \/ start(w) \/ Worker(w)
    BY <2>3, PushSignKeeps, WorkerLocalKeeps, AckKeeps, PublishKeeps DEF Worker
  <2>4. CASE \E w \in Workers : workerAckFails(w) \/ workerFails(w) \/ crash(w)
    BY <2>4, AckFailsKeeps, FailureKeeps, CrashKeeps
  <2>5. CASE UNCHANGED vars
    BY <2>5, LoopKeeps
  <2> QED BY <2>1, <2>2, <2>3, <2>4, <2>5 DEF Next
<1> QED BY <1>1, <1>2, PTL DEF Spec

(* The state of the server, the broker and the workers keeps its type, and *)
(* no consumer holds more than basicQos allows.                            *)
THEOREM TypeCorrect == Spec => []TypeOK
<1>1. BrokerInv => TypeOK
  BY DEF BrokerInv
<1> QED BY <1>1, BrokerInvariant, PTL

(* RabbitMQServer and RabbitMQWorker: whatever crashes and redeliveries    *)
(* happen, an Interest is in one place, is answered at most once, and is   *)
(* lost only where the model counts it as lost.                            *)
THEOREM InterestsAreCounted == Spec => []EachInterestOnce
<1>1. BrokerInv => EachInterestOnce
  BY OnceIsEachInterestOnce DEF BrokerInv
<1> QED BY <1>1, BrokerInvariant, PTL

(* RabbitMQServer.run: getMessageCount never promises more deliveries than *)
(* there are, and as long as exceptions have not used up the prefetch the  *)
(* next one is with nextDelivery or can be pushed to it.                   *)
THEOREM DeliveriesAreThere == Spec => []DeliveriesSuffice
<1>1. BrokerInv => DeliveriesSuffice
  <2> SUFFICES ASSUME BrokerInv, server = "deliver"
               PROVE  /\ count <= Len(delivered) + Len(returnQueue)
                      /\ count > 0 /\ withheld < Prefetch
                           => delivered # << >> \/ CanPushReturn
    BY DEF DeliveriesSuffice
  <2>1. count <= Len(delivered) + Len(returnQueue)
    BY DEF BrokerInv, CountCovered
  <2>2. /\ count \in Nat /\ withheld \in Nat
        /\ delivered \in Seq(Interests) /\ returnQueue \in Seq(Interests)
    BY DEF BrokerInv, TypeOK
  <2>3. ASSUME count > 0, withheld < Prefetch, delivered = << >> PROVE CanPushReturn
    <3>1. Len(delivered) = 0 /\ Len(returnQueue) > 0
      BY <2>1, <2>2, <2>3
    <3>2. returnQueue # << >>
      BY <3>1
    <3> QED BY <2>2, <2>3, <3>1, <3>2 DEF CanPushReturn
  <2> QED BY <2>1, <2>3
<1> QED BY <1>1, BrokerInvariant, PTL
=============================================================================
