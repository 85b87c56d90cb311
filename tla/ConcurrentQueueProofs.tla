------------------------ MODULE ConcurrentQueueProofs -------------------------
(***************************************************************************)
(* What ConcurrentQueue guarantees for any number of threads, tokens,      *)
(* consumers and producers.  OwnersInv is the inductive invariant: it says *)
(* where each call stands, what the hash tables hold, and who owns which   *)
(* producer.                                                               *)
(***************************************************************************)
EXTENDS ConcurrentQueue, FiniteSetTheorems, SequenceTheorems, WellFoundedInduction, TLAPS

Actors == Threads \union Tokens

(* Where a call may stand: in the hash tables, or in the producer list.    *)
HashPcs == {"grow", "resize", "room"}
LinkPcs == {"link", "push", "made"}
ListPcs == {"visit", "recycle", "create", "none"} \union LinkPcs

ListCall == [pc : ListPcs, main : Nat, newCount : Int, ptr : 0 .. MaxProducers,
             recycled : BOOLEAN]
HashCall == [pc : HashPcs, main : Nat, newCount : Int]
LookCall == [pc : {"lookUp"}, main : Nat]
PutCall == [pc : {"enqueue"}, producer : AllProducers]

(* A call has the fields its place in the code needs.                      *)
CallOK(c) ==
  /\ c.pc \in {"idle", "enqueue", "lookUp"} \union HashPcs \union ListPcs
  /\ c.pc \in ListPcs => c \in ListCall
  /\ c.pc \in HashPcs => c \in HashCall
  /\ c.pc = "lookUp" => c \in LookCall
  /\ c.pc = "enqueue" => c \in PutCall
  /\ c.pc \in LinkPcs \union {"recycle"} => c.ptr # NoProducer

CallsOK == call = [a \in Actors |-> call[a]] /\ \A a \in Actors : CallOK(call[a])

ListOK ==
  /\ created \in 0 .. MaxProducers /\ producerListTail \in 0 .. MaxProducers
  /\ next \in [AllProducers -> 0 .. MaxProducers]
  /\ isExplicit \in [AllProducers -> BOOLEAN] /\ inactive \in [AllProducers -> BOOLEAN]
  /\ token \in [Tokens -> 0 .. MaxProducers]
  /\ implicitProducerHashCount \in Int

(* The hash tables are a sequence of records.                              *)
TablesOK ==
  /\ hashes \in Seq({hashes[h] : h \in DOMAIN hashes})
  /\ Len(hashes) \in DOMAIN hashes
  /\ \A h \in DOMAIN hashes : DOMAIN hashes[h] = {"capacity", "entries"}

HasKey(t, h) == h \in DOMAIN hashes /\ t \in DOMAIN hashes[h].entries
Entry(h, t) == hashes[h].entries[t]

(* A thread looks for a producer only when it has no key in any table,     *)
(* those included that others have added since it read                     *)
(* implicitProducerHash.                                                   *)
ThreadCall(t, c) ==
  /\ c.pc \in HashPcs \union ListPcs => \A h \in DOMAIN hashes : ~HasKey(t, h)
  /\ c.pc = "lookUp" => \A h \in DOMAIN hashes : HasKey(t, h) => h <= c.main
  /\ c.pc \in {"lookUp"} \union HashPcs \union ListPcs => c.main \in DOMAIN hashes

(* A thread has one producer in all the tables that have its key.          *)
KeysOK ==
  \A t \in Threads :
    /\ \A g, h \in DOMAIN hashes : HasKey(t, g) /\ HasKey(t, h) => Entry(g, t) = Entry(h, t)
    /\ ThreadCall(t, call[t])

(* A token that is being constructed has no producer yet.                  *)
TokenCall(k, c) ==
  /\ c.pc \in {"idle", "enqueue"} \union ListPcs
  /\ c.pc \in ListPcs => token[k] = NoProducer

TokensOK == \A k \in Tokens : TokenCall(k, call[k])

(* Only explicit producers are ever inactive; who owns a producer owns no  *)
(* other and shares it with no one; an element goes into a producer that   *)
(* its thread or token owns.                                               *)
OwnersOK ==
  /\ \A p \in AllProducers : inactive[p] => isExplicit[p] /\ p <= created
  /\ \A a \in Actors : \A p \in OwnedBy(a) :
       /\ p \in 1 .. created
       /\ isExplicit[p] <=> a \in Tokens
       /\ ~inactive[p]
  /\ \A a \in Actors : \A p, q \in OwnedBy(a) : p = q
  /\ \A a, b \in Actors : \A p \in OwnedBy(a) : p \in OwnedBy(b) => a = b

(* What is put goes into a producer of the caller's own.                   *)
PutsIntoItsOwn ==
  \A a \in Actors : call[a].pc = "enqueue" => call[a].producer \in OwnedBy(a)

OwnersInv == CallsOK /\ ListOK /\ TablesOK /\ KeysOK /\ TokensOK /\ OwnersOK /\ PutsIntoItsOwn
-----------------------------------------------------------------------------
(* A function on 1..n is a sequence of its values.                         *)
LEMMA IsSequence ==
  ASSUME NEW s, NEW n \in Nat, s = [i \in 1 .. n |-> s[i]]
  PROVE  s \in Seq({s[i] : i \in DOMAIN s})
<1> DEFINE S == {s[i] : i \in DOMAIN s}
<1>1. \A i \in 1 .. n : s[i] \in S
  OBVIOUS
<1> HIDE DEF S
<1>2. s \in [1 .. n -> S]
  BY <1>1
<1>3. s \in Seq(S)
  BY <1>2
<1> QED BY <1>3 DEF S

(* AddKey changes one entry of one table.                                  *)
LEMMA AddKeyFacts ==
  ASSUME TablesOK, NEW m \in DOMAIN hashes, NEW t, NEW p, AddKey(m, t, p)
  PROVE  /\ TablesOK' /\ DOMAIN hashes' = DOMAIN hashes
         /\ \A u, h : HasKey(u, h)' <=> HasKey(u, h) \/ (u = t /\ h = m)
         /\ \A h \in DOMAIN hashes : \A u :
              Entry(h, u)' = IF u = t /\ h = m THEN p ELSE
                             IF HasKey(u, h) THEN Entry(h, u) ELSE Entry(h, u)'
<1> DEFINE T == [u \in DOMAIN hashes[m].entries \union {t} |->
                    IF u = t THEN p ELSE hashes[m].entries[u]]
<1>1. hashes' = [hashes EXCEPT ![m].entries = T]
  BY DEF AddKey
<1> HIDE DEF T
<1>2. /\ DOMAIN hashes' = DOMAIN hashes
      /\ \A h \in DOMAIN hashes : h # m => hashes'[h] = hashes[h]
      /\ hashes'[m] = [hashes[m] EXCEPT !.entries = T]
  BY <1>1
<1>3. /\ DOMAIN hashes'[m] = {"capacity", "entries"} /\ hashes'[m].entries = T
  BY <1>2 DEF TablesOK
<1>4. hashes' \in Seq({hashes'[h] : h \in DOMAIN hashes'})
  <2>1. Len(hashes) \in Nat /\ DOMAIN hashes = 1 .. Len(hashes)
    BY DEF TablesOK
  <2>2. hashes' = [h \in 1 .. Len(hashes) |-> hashes'[h]]
    BY <1>1, <2>1
  <2> QED BY <2>1, <2>2, IsSequence
<1>5. TablesOK'
  <2>1. Len(hashes') = Len(hashes)
    BY <1>2, <1>4 DEF TablesOK
  <2> QED BY <1>2, <1>3, <1>4, <2>1 DEF TablesOK
<1>6. DOMAIN T = DOMAIN hashes[m].entries \union {t}
      /\ \A u \in DOMAIN T : T[u] = IF u = t THEN p ELSE hashes[m].entries[u]
  BY DEF T
<1>7. \A u, h : HasKey(u, h)' <=> HasKey(u, h) \/ (u = t /\ h = m)
  BY <1>2, <1>3, <1>6 DEF HasKey
<1>8. \A h \in DOMAIN hashes : \A u :
        /\ u = t /\ h = m => Entry(h, u)' = p
        /\ HasKey(u, h) /\ ~(u = t /\ h = m) => Entry(h, u)' = Entry(h, u)
  BY <1>2, <1>3, <1>6 DEF HasKey, Entry
<1> QED BY <1>2, <1>5, <1>7, <1>8

(* A new table has no keys.                                                *)
LEMMA NewTableFacts ==
  ASSUME TablesOK, NEW capacity,
         hashes' = Append(hashes, [capacity |-> capacity, entries |-> <<>>])
  PROVE  /\ TablesOK' /\ DOMAIN hashes \subseteq DOMAIN hashes'
         /\ Len(hashes) + 1 \in DOMAIN hashes' /\ Len(hashes) + 1 \in Nat
         /\ \A u, h : HasKey(u, h)' <=> HasKey(u, h)
         /\ \A h \in DOMAIN hashes : \A u : Entry(h, u)' = Entry(h, u)
<1> DEFINE table == [capacity |-> capacity, entries |-> <<>>]
           S == {hashes[h] : h \in DOMAIN hashes}
<1>1. DOMAIN table = {"capacity", "entries"} /\ DOMAIN table.entries = {}
  OBVIOUS
<1> HIDE DEF table
<1>2. hashes' = Append(hashes, table)
  BY DEF table
<1>3. hashes \in Seq(S) /\ Len(hashes) \in Nat /\ DOMAIN hashes = 1 .. Len(hashes)
  BY DEF TablesOK
<1> HIDE DEF S
<1>4. hashes \in Seq(S \union {table})
  BY <1>3
<1>5. /\ Len(hashes') = Len(hashes) + 1 /\ DOMAIN hashes' = 1 .. (Len(hashes) + 1)
      /\ hashes' \in Seq(S \union {table})
  BY <1>2, <1>3, <1>4
<1>6. \A h \in 1 .. Len(hashes) : hashes'[h] = hashes[h]
  BY <1>2, <1>3, <1>4
<1>7. hashes'[Len(hashes) + 1] = table
  BY <1>2, <1>3, <1>4
<1>8. hashes' \in Seq({hashes'[h] : h \in DOMAIN hashes'})
  <2>1. hashes' = [h \in 1 .. Len(hashes') |-> hashes'[h]] /\ Len(hashes') \in Nat
    BY <1>5
  <2> QED BY <2>1, IsSequence
<1>9. \A h \in DOMAIN hashes' : h \in DOMAIN hashes \/ h = Len(hashes) + 1
  BY <1>3, <1>5
<1>10. TablesOK'
  <2>1. \A h \in DOMAIN hashes' : DOMAIN hashes'[h] = {"capacity", "entries"}
    BY <1>1, <1>3, <1>6, <1>7, <1>9 DEF TablesOK
  <2>2. Len(hashes') \in DOMAIN hashes'
    BY <1>3, <1>5
  <2> QED BY <1>8, <2>1, <2>2 DEF TablesOK
<1>11. DOMAIN hashes \subseteq DOMAIN hashes' /\ Len(hashes) + 1 \in DOMAIN hashes'
  BY <1>3, <1>5
<1>12. \A u, h : HasKey(u, h)' <=> HasKey(u, h)
  BY <1>1, <1>3, <1>6, <1>7, <1>9, <1>11 DEF HasKey
<1>13. \A h \in DOMAIN hashes : \A u : Entry(h, u)' = Entry(h, u)
  BY <1>3, <1>6 DEF Entry
<1> QED BY <1>3, <1>10, <1>11, <1>12, <1>13

(* Who is about to be given a producer owns that one.                      *)
LEMMA OwnedByLinking ==
  ASSUME NEW a, call[a].pc \in LinkPcs
  PROVE  OwnedBy(a) = {call[a].ptr}
  BY DEF OwnedBy, LinkPcs

(* Otherwise a token owns the producer it holds,                           *)
LEMMA OwnedByToken ==
  ASSUME NEW k \in Tokens, call[k].pc \notin LinkPcs
  PROVE  OwnedBy(k) = {token[k]} \ {NoProducer}
  BY DEF OwnedBy, LinkPcs

(* and a thread the one its keys lead to.                                  *)
LEMMA OwnedByThread ==
  ASSUME NEW t \in Threads, call[t].pc \notin LinkPcs, NEW p
  PROVE  p \in OwnedBy(t) <=> \E h \in DOMAIN hashes : HasKey(t, h) /\ p = Entry(h, t)
<1>1. t \notin Tokens
  BY ProducersAssumption
<1>2. OwnedBy(t) = {hashes[h].entries[t] : h \in {g \in DOMAIN hashes : t \in DOMAIN hashes[g].entries}}
  BY <1>1 DEF OwnedBy, LinkPcs
<1> QED BY <1>2 DEF HasKey, Entry

(* Who neither moves nor loses its token keeps its producer.               *)
LEMMA SameOwner ==
  ASSUME NEW b, call'[b] = call[b], hashes' = hashes, token'[b] = token[b]
  PROVE  OwnedBy(b)' = OwnedBy(b)
  BY DEF OwnedBy

(* A step that only moves the call of one actor and leaves it the producer *)
(* it has or is about to be given.                                         *)
LEMMA CallMoves ==
  ASSUME OwnersInv, NEW a \in Actors, NEW c, Goto(a, c), ListOK',
         UNCHANGED <<hashes, token, created, isExplicit, inactive>>,
         CallOK(c),
         c.pc \in LinkPcs <=> call[a].pc \in LinkPcs,
         c.pc \in LinkPcs => c.ptr = call[a].ptr,
         a \in Threads => ThreadCall(a, c),
         a \in Tokens => TokenCall(a, c),
         c.pc = "enqueue" => c.producer \in OwnedBy(a)
  PROVE  OwnersInv'
<1>1. /\ call' = [b \in Actors |-> call'[b]] /\ call'[a] = c
      /\ \A b \in Actors : b # a => call'[b] = call[b]
  BY DEF OwnersInv, CallsOK, Goto
<1>2. CallsOK'
  <2>1. \A b \in Actors : CallOK(call'[b])
    BY <1>1 DEF OwnersInv, CallsOK
  <2> QED BY <1>1, <2>1 DEF CallsOK, CallOK
<1>3. TablesOK'
  BY DEF OwnersInv, TablesOK
<1>4. KeysOK'
  <2>1. \A t \in Threads : ThreadCall(t, call'[t])
    BY <1>1 DEF OwnersInv, KeysOK, Actors
  <2>2. \A t \in Threads : ThreadCall(t, call[t])'
    BY <2>1 DEF ThreadCall, HasKey
  <2>3. \A t \in Threads : \A g, h \in DOMAIN hashes :
           HasKey(t, g) /\ HasKey(t, h) => Entry(g, t) = Entry(h, t)
    BY DEF OwnersInv, KeysOK
  <2> QED BY <2>2, <2>3 DEF KeysOK, HasKey, Entry
<1>5. TokensOK'
  <2>1. \A k \in Tokens : TokenCall(k, call'[k])
    BY <1>1 DEF OwnersInv, TokensOK, Actors
  <2> QED BY <2>1 DEF TokensOK, TokenCall
<1>6. \A b \in Actors : OwnedBy(b)' = OwnedBy(b)
  <2>1. \A b \in Actors : b # a => OwnedBy(b)' = OwnedBy(b)
    BY <1>1 DEF OwnedBy
  <2>2. OwnedBy(a)' = OwnedBy(a)
    BY <1>1 DEF OwnedBy, LinkPcs
  <2> QED BY <2>1, <2>2
<1>7. OwnersOK'
  BY <1>6 DEF OwnersInv, OwnersOK
<1>8. PutsIntoItsOwn'
  BY <1>1, <1>6 DEF OwnersInv, PutsIntoItsOwn
<1> QED BY <1>2, <1>3, <1>4, <1>5, <1>7, <1>8 DEF OwnersInv

(* A call that goes on in the producer list keeps what it knows.           *)
LEMMA GoesOnInList ==
  ASSUME OwnersInv, NEW a \in Actors, call[a].pc \in ListPcs,
         NEW c \in ListCall, c.main = call[a].main,
         c.pc \in LinkPcs \union {"recycle"} => c.ptr # NoProducer
  PROVE  /\ CallOK(c)
         /\ a \in Threads => ThreadCall(a, c)
         /\ a \in Tokens => TokenCall(a, c)
         /\ c.pc # "enqueue"
<1>1. c.pc \in ListPcs
  BY DEF ListCall
<1>2. c.pc \notin HashPcs /\ c.pc # "lookUp" /\ c.pc # "enqueue"
  BY <1>1 DEF ListPcs, LinkPcs, HashPcs
<1>3. CallOK(c)
  BY <1>1, <1>2 DEF CallOK
<1>4. a \in Threads => ThreadCall(a, c)
  BY <1>1, <1>2 DEF OwnersInv, KeysOK, ThreadCall
<1>5. a \in Tokens => TokenCall(a, c)
  BY <1>1 DEF OwnersInv, TokensOK, TokenCall
<1> QED BY <1>2, <1>3, <1>4, <1>5

(* recycle_or_create_producer: one producer of the list is looked at.      *)
LEMMA VisitKeeps == ASSUME OwnersInv, NEW a \in Actors, Visit(a) PROVE OwnersInv'
<1> DEFINE p == call[a].ptr
           c == IF p = NoProducer THEN With(a, "create")
                ELSE IF inactive[p] /\ isExplicit[p] = (a \in Tokens) THEN With(a, "recycle")
                ELSE [call[a] EXCEPT !.ptr = next[p]]
<1>1. call[a].pc = "visit" /\ call[a] \in ListCall
  BY DEF Visit, OwnersInv, CallsOK, CallOK, ListPcs
<1>2. Goto(a, c) /\ UNCHANGED <<listVars, hashVars, token>>
  BY DEF Visit
<1>3. p # NoProducer => next[p] \in 0 .. MaxProducers
  BY <1>1 DEF ListCall, NoProducer, AllProducers, OwnersInv, ListOK
<1>4. /\ c \in ListCall /\ c.main = call[a].main /\ c.pc \in {"create", "recycle", "visit"}
      /\ c.pc = "recycle" => c.ptr # NoProducer
  <2>1. With(a, "create") \in ListCall /\ With(a, "create").main = call[a].main
        /\ With(a, "create").pc = "create"
    BY <1>1 DEF With, ListCall, ListPcs
  <2>2. With(a, "recycle") \in ListCall /\ With(a, "recycle").main = call[a].main
        /\ With(a, "recycle").pc = "recycle" /\ With(a, "recycle").ptr = p
    BY <1>1 DEF With, ListCall, ListPcs
  <2>3. p # NoProducer => /\ [call[a] EXCEPT !.ptr = next[p]] \in ListCall
                          /\ [call[a] EXCEPT !.ptr = next[p]].main = call[a].main
                          /\ [call[a] EXCEPT !.ptr = next[p]].pc = "visit"
    BY <1>1, <1>3 DEF ListCall, ListPcs
  <2> QED BY <2>1, <2>2, <2>3
<1> HIDE DEF c
<1>5. c.pc \notin LinkPcs /\ call[a].pc \notin LinkPcs /\ call[a].pc \in ListPcs
  BY <1>1, <1>4 DEF LinkPcs, ListPcs
<1>6. CallOK(c) /\ (a \in Threads => ThreadCall(a, c)) /\ (a \in Tokens => TokenCall(a, c))
      /\ c.pc # "enqueue"
  BY <1>4, <1>5, GoesOnInList
<1>7. ListOK' /\ UNCHANGED <<hashes, token, created, isExplicit, inactive>>
  BY <1>2 DEF OwnersInv, ListOK, listVars, hashVars
<1> QED BY <1>2, <1>5, <1>6, <1>7, CallMoves

(* The new producer's next pointer is set, and the tail is compared and    *)
(* exchanged.                                                              *)
LEMMA LinkKeeps == ASSUME OwnersInv, NEW a \in Actors, LinkNext(a) \/ Push(a) PROVE OwnersInv'
<1> DEFINE p == call[a].ptr
<1>1. call[a].pc \in {"link", "push"} /\ call[a] \in ListCall /\ p # NoProducer
  BY DEF LinkNext, Push, OwnersInv, CallsOK, CallOK, ListPcs, LinkPcs
<1>2. p \in AllProducers
  BY <1>1 DEF ListCall, NoProducer, AllProducers
<1>3. /\ UNCHANGED <<hashes, token, created, isExplicit, inactive>> /\ ListOK'
  <2>1. UNCHANGED <<hashes, token, created, isExplicit, inactive, implicitProducerHashCount>>
    BY DEF LinkNext, Push, hashVars
  <2>2. /\ producerListTail' \in 0 .. MaxProducers
        /\ next' \in [AllProducers -> 0 .. MaxProducers]
    BY <1>1, <1>2 DEF LinkNext, Push, OwnersInv, ListOK, ListCall
  <2> QED BY <2>1, <2>2 DEF OwnersInv, ListOK
<1>4. \E c \in ListCall : /\ Goto(a, c) /\ c.main = call[a].main /\ c.ptr = p
                          /\ c.pc \in {"push", "made"}
  <2>1. ASSUME NEW pc \in {"push", "made"}
        PROVE  /\ With(a, pc) \in ListCall /\ With(a, pc).main = call[a].main
               /\ With(a, pc).ptr = p /\ With(a, pc).pc = pc
    BY <1>1 DEF With, ListCall, ListPcs, LinkPcs
  <2>2. CASE Goto(a, With(a, "push"))
    BY <2>1, <2>2
  <2>3. CASE Goto(a, With(a, "made"))
    BY <2>1, <2>3
  <2>4. CASE call[a].pc = "push" /\ call' = call
    <3>1. Goto(a, call[a])
      BY <2>4 DEF Goto, OwnersInv, CallsOK
    <3> QED BY <1>1, <2>4, <3>1
  <2> QED BY <2>2, <2>3, <2>4 DEF LinkNext, Push
<1>5. PICK c \in ListCall : /\ Goto(a, c) /\ c.main = call[a].main /\ c.ptr = p
                           /\ c.pc \in {"push", "made"}
  BY <1>4
<1>6. c.pc \in LinkPcs /\ call[a].pc \in LinkPcs /\ call[a].pc \in ListPcs
  BY <1>1, <1>5 DEF LinkPcs, ListPcs
<1>7. CallOK(c) /\ (a \in Threads => ThreadCall(a, c)) /\ (a \in Tokens => TokenCall(a, c))
      /\ c.pc # "enqueue"
  BY <1>1, <1>5, <1>6, GoesOnInList
<1> QED BY <1>3, <1>5, <1>6, <1>7, CallMoves

(* A call that ends, with what it has.                                     *)
LEMMA IdleKeeps ==
  ASSUME OwnersInv, NEW a \in Actors, call[a].pc \notin LinkPcs, Goto(a, Idle),
         UNCHANGED <<listVars, hashes, token>>, implicitProducerHashCount' \in Int
  PROVE  OwnersInv'
<1>1. Idle.pc = "idle"
  BY DEF Idle
<1>2. CallOK(Idle) /\ Idle.pc \notin LinkPcs
  BY <1>1 DEF CallOK, HashPcs, ListPcs, LinkPcs
<1>3. ThreadCall(a, Idle) /\ TokenCall(a, Idle)
  BY <1>1 DEF ThreadCall, TokenCall, HashPcs, ListPcs, LinkPcs
<1>4. ListOK' /\ UNCHANGED <<hashes, token, created, isExplicit, inactive>>
  BY DEF OwnersInv, ListOK, listVars
<1> QED BY <1>1, <1>2, <1>3, <1>4, CallMoves

(* The element is put into the sub-queue, or there is no memory.           *)
LEMMA PutKeeps == ASSUME OwnersInv, NEW a \in Actors, Put(a) PROVE OwnersInv'
<1>1. call[a].pc \notin LinkPcs /\ implicitProducerHashCount' \in Int
  BY DEF Put, LinkPcs, hashVars, OwnersInv, ListOK
<1> QED BY <1>1, IdleKeeps DEF Put, hashVars

(* There was no memory for a producer.                                     *)
LEMMA NotMadeKeeps == ASSUME OwnersInv, NEW t \in Threads, NotMade(t) PROVE OwnersInv'
<1>1. call[t].pc \notin LinkPcs /\ implicitProducerHashCount' \in Int /\ t \in Actors
  BY DEF NotMade, LinkPcs, OwnersInv, ListOK, Actors
<1> QED BY <1>1, IdleKeeps DEF NotMade

(* enqueue of a thread begins: it reads implicitProducerHash.              *)
LEMMA EnqueueKeeps == ASSUME OwnersInv, NEW t \in Threads, Enqueue(t) PROVE OwnersInv'
<1> DEFINE c == [pc |-> "lookUp", main |-> Len(hashes)]
<1>1. t \in Actors /\ t \notin Tokens
  BY ProducersAssumption DEF Actors
<1>2. /\ Len(hashes) \in DOMAIN hashes /\ Len(hashes) \in Nat
      /\ \A h \in DOMAIN hashes : h <= Len(hashes)
  BY DEF OwnersInv, TablesOK
<1>3. c \in LookCall /\ c.pc = "lookUp" /\ c.main = Len(hashes)
  BY <1>2 DEF LookCall
<1>4. Goto(t, c) /\ call[t].pc = "idle" /\ UNCHANGED <<listVars, hashVars, token>>
  BY DEF Enqueue
<1> HIDE DEF c
<1>5. CallOK(c) /\ c.pc \notin LinkPcs /\ call[t].pc \notin LinkPcs
  BY <1>3, <1>4 DEF CallOK, HashPcs, ListPcs, LinkPcs
<1>6. ThreadCall(t, c)
  BY <1>2, <1>3 DEF ThreadCall, HashPcs, ListPcs, LinkPcs
<1>7. ListOK' /\ UNCHANGED <<hashes, token, created, isExplicit, inactive>>
  BY <1>4 DEF OwnersInv, ListOK, listVars, hashVars
<1> QED BY <1>1, <1>3, <1>4, <1>5, <1>6, <1>7, CallMoves

(* A thread that waits for a table, or is to allocate one, goes on.        *)
LEMMA HashCallMoves ==
  ASSUME OwnersInv, NEW t \in Threads, call[t].pc \in HashPcs,
         NEW c, c \in HashCall \/ c \in ListCall, c.main \in DOMAIN hashes,
         c.pc \notin LinkPcs \union {"recycle"},
         Goto(t, c), UNCHANGED <<listVars, hashes, implicitProducerHashCount, token>>
  PROVE  OwnersInv'
<1>1. t \in Actors /\ t \notin Tokens
  BY ProducersAssumption DEF Actors
<1>2. call[t].pc \notin LinkPcs
  BY DEF HashPcs, LinkPcs
<1>3. c.pc \in HashPcs \union ListPcs /\ c.pc # "lookUp" /\ c.pc # "enqueue"
      /\ (c.pc \in HashPcs => c \in HashCall) /\ (c.pc \in ListPcs => c \in ListCall)
  BY DEF HashCall, ListCall, HashPcs, ListPcs, LinkPcs
<1>4. CallOK(c)
  BY <1>3 DEF CallOK
<1>5. ThreadCall(t, c)
  BY <1>3 DEF OwnersInv, KeysOK, ThreadCall
<1>6. ListOK' /\ UNCHANGED <<hashes, token, created, isExplicit, inactive>>
  BY DEF OwnersInv, ListOK, listVars
<1> QED BY <1>1, <1>2, <1>3, <1>4, <1>5, <1>6, CallMoves

(* The resize lock is tried.                                               *)
LEMMA GrowKeeps == ASSUME OwnersInv, NEW t \in Threads, Grow(t) PROVE OwnersInv'
<1>1. t \in Actors /\ call[t].pc = "grow" /\ call[t].pc \in HashPcs
  BY DEF Actors, Grow, HashPcs
<1>2. call[t] \in HashCall /\ call[t].main \in DOMAIN hashes
  BY <1>1 DEF OwnersInv, CallsOK, CallOK, KeysOK, ThreadCall
<1>3. ASSUME NEW pc \in {"resize", "room"}
      PROVE  With(t, pc) \in HashCall /\ With(t, pc).main = call[t].main /\ With(t, pc).pc = pc
  BY <1>2 DEF With, HashCall, HashPcs
<1>4. PICK pc \in {"resize", "room"} : Goto(t, With(t, pc))
  BY DEF Grow
<1>5. With(t, pc).pc \notin LinkPcs \union {"recycle"}
  BY <1>3, <1>4 DEF LinkPcs
<1> QED BY <1>1, <1>2, <1>3, <1>4, <1>5, HashCallMoves DEF Grow

(* The table has room, or the thread tries again with the newest one.      *)
LEMMA RoomKeeps == ASSUME OwnersInv, NEW t \in Threads, Room(t) PROVE OwnersInv'
<1>1. t \in Actors /\ call[t].pc = "room" /\ call[t].pc \in HashPcs
  BY DEF Actors, Room, HashPcs
<1>2. call[t] \in HashCall /\ call[t].main \in DOMAIN hashes
  BY <1>1 DEF OwnersInv, CallsOK, CallOK, KeysOK, ThreadCall
<1>3. producerListTail \in 0 .. MaxProducers /\ Len(hashes) \in Nat /\ Len(hashes) \in DOMAIN hashes
  BY DEF OwnersInv, ListOK, TablesOK
<1>4. CASE Goto(t, Search(call[t].main, call[t].newCount))
  <2> DEFINE c == Search(call[t].main, call[t].newCount)
  <2>1. c \in ListCall /\ c.main = call[t].main /\ c.pc = "visit"
    BY <1>2, <1>3 DEF Search, ListCall, HashCall, ListPcs
  <2> HIDE DEF c
  <2>2. c.pc \notin LinkPcs \union {"recycle"}
    BY <2>1 DEF LinkPcs
  <2>3. Goto(t, c)
    BY <1>4 DEF c
  <2> QED BY <1>1, <1>2, <2>1, <2>2, <2>3, HashCallMoves DEF Room, hashVars
<1>5. CASE Goto(t, [call[t] EXCEPT !.pc = "grow", !.main = Len(hashes)])
  <2> DEFINE c == [call[t] EXCEPT !.pc = "grow", !.main = Len(hashes)]
  <2>1. c \in HashCall /\ c.main = Len(hashes) /\ c.pc = "grow"
    BY <1>2, <1>3 DEF HashCall, HashPcs
  <2> HIDE DEF c
  <2>2. c.pc \notin LinkPcs \union {"recycle"}
    BY <2>1 DEF LinkPcs
  <2>3. Goto(t, c)
    BY <1>5 DEF c
  <2> QED BY <1>1, <1>3, <2>1, <2>2, <2>3, HashCallMoves DEF Room, hashVars
<1> QED BY <1>4, <1>5 DEF Room

(* A token's construction begins with a search of the list.                *)
LEMMA ConstructKeeps == ASSUME OwnersInv, NEW k \in Tokens, Construct(k) PROVE OwnersInv'
<1> DEFINE c == Search(0, 0)
<1>1. k \in Actors /\ k \notin Threads /\ call[k].pc = "idle" /\ token[k] = NoProducer
  BY ProducersAssumption DEF Actors, Construct
<1>2. producerListTail \in 0 .. MaxProducers
  BY DEF OwnersInv, ListOK
<1>3. c \in ListCall /\ c.pc = "visit" /\ Goto(k, c)
  BY <1>2 DEF Construct, Search, ListCall, ListPcs
<1> HIDE DEF c
<1>4. CallOK(c) /\ TokenCall(k, c) /\ c.pc \notin LinkPcs /\ call[k].pc \notin LinkPcs
  BY <1>1, <1>3 DEF CallOK, TokenCall, HashPcs, ListPcs, LinkPcs
<1>5. ListOK' /\ UNCHANGED <<hashes, token, created, isExplicit, inactive>>
  BY DEF Construct, OwnersInv, ListOK, listVars, hashVars
<1> QED BY <1>1, <1>3, <1>4, <1>5, CallMoves

(* enqueue with a token: the token's producer is used.                     *)
LEMMA TokenEnqueueKeeps == ASSUME OwnersInv, NEW k \in Tokens, TokenEnqueue(k) PROVE OwnersInv'
<1> DEFINE c == [pc |-> "enqueue", producer |-> token[k]]
<1>1. k \in Actors /\ k \notin Threads /\ call[k].pc = "idle" /\ token[k] # NoProducer
  BY ProducersAssumption DEF Actors, TokenEnqueue
<1>2. token[k] \in AllProducers
  BY <1>1 DEF OwnersInv, ListOK, AllProducers, NoProducer
<1>3. c \in PutCall /\ c.pc = "enqueue" /\ c.producer = token[k] /\ Goto(k, c)
  BY <1>2 DEF TokenEnqueue, PutCall
<1> HIDE DEF c
<1>4. CallOK(c) /\ TokenCall(k, c) /\ c.pc \notin LinkPcs /\ call[k].pc \notin LinkPcs
  BY <1>1, <1>3 DEF CallOK, TokenCall, HashPcs, ListPcs, LinkPcs
<1>5. ListOK' /\ UNCHANGED <<hashes, token, created, isExplicit, inactive>>
  BY DEF TokenEnqueue, OwnersInv, ListOK, listVars, hashVars
<1>6. c.producer \in OwnedBy(k)
  BY <1>1, <1>3, <1>4, OwnedByToken
<1> QED BY <1>1, <1>3, <1>4, <1>5, <1>6, CallMoves

(* An actor is given a producer that nobody has.                           *)
LEMMA Acquires ==
  ASSUME OwnersInv, NEW a \in Actors, call[a].pc \in ListPcs \ LinkPcs,
         NEW p \in AllProducers, NEW c \in ListCall, Goto(a, c), c.pc \in LinkPcs,
         c.ptr = p, c.main = call[a].main,
         UNCHANGED <<hashes, token>>, ListOK', created <= created', p <= created',
         \A b \in Actors : p \notin OwnedBy(b),
         isExplicit'[p] <=> a \in Tokens, ~inactive'[p],
         \A q \in AllProducers \ {p} :
           isExplicit'[q] = isExplicit[q] /\ inactive'[q] = inactive[q]
  PROVE  OwnersInv'
<1>1. /\ call' = [b \in Actors |-> call'[b]] /\ call'[a] = c
      /\ \A b \in Actors : b # a => call'[b] = call[b]
  BY DEF OwnersInv, CallsOK, Goto
<1>2. CallOK(c) /\ (a \in Threads => ThreadCall(a, c)) /\ (a \in Tokens => TokenCall(a, c))
      /\ c.pc # "enqueue"
  <2>1. c.ptr # NoProducer
    BY DEF AllProducers, NoProducer
  <2> QED BY <2>1, GoesOnInList
<1>3. CallsOK'
  <2>1. \A b \in Actors : CallOK(call'[b])
    BY <1>1, <1>2 DEF OwnersInv, CallsOK
  <2> QED BY <1>1, <2>1 DEF CallsOK, CallOK
<1>4. TablesOK'
  BY DEF OwnersInv, TablesOK
<1>5. KeysOK'
  <2>1. \A t \in Threads : ThreadCall(t, call'[t])
    BY <1>1, <1>2 DEF OwnersInv, KeysOK, Actors
  <2>2. \A t \in Threads : ThreadCall(t, call[t])'
    BY <2>1 DEF ThreadCall, HasKey
  <2>3. \A t \in Threads : \A g, h \in DOMAIN hashes :
           HasKey(t, g) /\ HasKey(t, h) => Entry(g, t) = Entry(h, t)
    BY DEF OwnersInv, KeysOK
  <2> QED BY <2>2, <2>3 DEF KeysOK, HasKey, Entry
<1>6. TokensOK'
  <2>1. \A k \in Tokens : TokenCall(k, call'[k])
    BY <1>1, <1>2 DEF OwnersInv, TokensOK, Actors
  <2> QED BY <2>1 DEF TokensOK, TokenCall
<1>7. OwnedBy(a)' = {p}
  BY <1>1 DEF OwnedBy, LinkPcs
<1>8. \A b \in Actors : b # a => OwnedBy(b)' = OwnedBy(b)
  BY <1>1, SameOwner
<1>9. created \in Nat /\ created' \in Nat /\ created' <= MaxProducers /\ MaxProducers \in Nat
  BY ProducersAssumption DEF OwnersInv, ListOK
<1>10. OwnersOK'
  <2>1. ASSUME NEW q \in AllProducers, inactive'[q] PROVE isExplicit'[q] /\ q <= created'
    <3>1. q # p
      BY <2>1
    <3>2. inactive[q] /\ isExplicit'[q] = isExplicit[q]
      BY <2>1, <3>1
    <3>3. isExplicit[q] /\ q <= created
      BY <3>2 DEF OwnersInv, OwnersOK
    <3> QED BY <1>9, <3>2, <3>3 DEF AllProducers
  <2>2. ASSUME NEW b \in Actors, NEW q \in OwnedBy(b)'
        PROVE  q \in 1 .. created' /\ (isExplicit'[q] <=> b \in Tokens) /\ ~inactive'[q]
    <3>1. CASE b = a
      BY <1>7, <1>9, <2>2, <3>1 DEF AllProducers
    <3>2. CASE b # a
      <4>1. q \in OwnedBy(b) /\ q # p
        BY <1>8, <2>2, <3>2
      <4>2. q \in 1 .. created /\ (isExplicit[q] <=> b \in Tokens) /\ ~inactive[q]
        BY <4>1 DEF OwnersInv, OwnersOK
      <4>3. q \in AllProducers \ {p}
        BY <1>9, <4>1, <4>2 DEF AllProducers, OwnersInv, ListOK
      <4> QED BY <1>9, <4>2, <4>3
    <3> QED BY <3>1, <3>2
  <2>3. \A b \in Actors : \A q, r \in OwnedBy(b)' : q = r
    BY <1>7, <1>8 DEF OwnersInv, OwnersOK
  <2>4. \A b, d \in Actors : \A q \in OwnedBy(b)' : q \in OwnedBy(d)' => b = d
    BY <1>7, <1>8 DEF OwnersInv, OwnersOK
  <2> QED BY <2>1, <2>2, <2>3, <2>4 DEF OwnersOK
<1>11. PutsIntoItsOwn'
  BY <1>1, <1>2, <1>8 DEF OwnersInv, PutsIntoItsOwn
<1> QED BY <1>3, <1>4, <1>5, <1>6, <1>10, <1>11 DEF OwnersInv

(* A producer is created, or there is no memory for it.                    *)
LEMMA CreateKeeps == ASSUME OwnersInv, NEW a \in Actors, Create(a) PROVE OwnersInv'
<1>1. call[a].pc = "create" /\ call[a] \in ListCall /\ call[a].pc \in ListPcs \ LinkPcs
  BY DEF Create, OwnersInv, CallsOK, CallOK, ListPcs, LinkPcs
<1>2. created \in Nat /\ created <= MaxProducers /\ MaxProducers \in Nat
  BY ProducersAssumption DEF OwnersInv, ListOK
<1>3. /\ UNCHANGED <<hashes, token, inactive, implicitProducerHashCount>>
      /\ UNCHANGED <<producerListTail, next>>
  BY DEF Create, hashVars
<1>4. CASE created' = created /\ isExplicit' = isExplicit /\ Goto(a, With(a, "none"))
  <2> DEFINE c == With(a, "none")
  <2>1. c \in ListCall /\ c.main = call[a].main /\ c.pc = "none"
    BY <1>1 DEF With, ListCall, ListPcs
  <2> HIDE DEF c
  <2>2. c.pc \notin LinkPcs \union {"recycle"}
    BY <2>1 DEF LinkPcs
  <2>3. Goto(a, c)
    BY <1>4 DEF c
  <2>4. CallOK(c) /\ (a \in Threads => ThreadCall(a, c)) /\ (a \in Tokens => TokenCall(a, c))
        /\ c.pc # "enqueue"
    BY <1>1, <2>1, <2>2, GoesOnInList
  <2>5. ListOK'
    BY <1>3, <1>4 DEF OwnersInv, ListOK
  <2> QED BY <1>1, <1>3, <1>4, <2>2, <2>3, <2>4, <2>5, CallMoves
<1>5. CASE /\ created < MaxProducers /\ created' = created + 1
           /\ isExplicit' = [isExplicit EXCEPT ![created + 1] = (a \in Tokens)]
           /\ Goto(a, [call[a] EXCEPT !.pc = "link", !.ptr = created + 1])
  <2>0. PICK p : p = created + 1
    OBVIOUS
  <2> DEFINE c == [call[a] EXCEPT !.pc = "link", !.ptr = p]
  <2>1. p \in AllProducers /\ p \in 0 .. MaxProducers
    BY <1>2, <1>5, <2>0 DEF AllProducers
  <2>2. c \in ListCall /\ c.main = call[a].main /\ c.pc = "link" /\ c.ptr = p
    BY <1>1, <2>1 DEF ListCall, ListPcs, LinkPcs
  <2> HIDE DEF c
  <2>3. c.pc \in LinkPcs
    BY <2>2 DEF LinkPcs
  <2>4. Goto(a, c)
    BY <1>5, <2>0 DEF c
  <2>5. /\ isExplicit' \in [AllProducers -> BOOLEAN]
        /\ isExplicit'[p] <=> a \in Tokens
        /\ \A q \in AllProducers \ {p} : isExplicit'[q] = isExplicit[q]
    <3>1. isExplicit \in [AllProducers -> BOOLEAN]
          /\ isExplicit' = [isExplicit EXCEPT ![p] = (a \in Tokens)]
      BY <1>5, <2>0 DEF OwnersInv, ListOK
    <3>2. PICK e \in BOOLEAN : e = (a \in Tokens)
      <4>1. (a \in Tokens) \in BOOLEAN
        OBVIOUS
      <4> QED BY <4>1, Zenon
    <3>3. isExplicit' = [isExplicit EXCEPT ![p] = e]
      BY <3>1, <3>2, Zenon
    <3>4. /\ isExplicit' \in [AllProducers -> BOOLEAN] /\ isExplicit'[p] = e
          /\ \A q \in AllProducers \ {p} : isExplicit'[q] = isExplicit[q]
      BY <2>1, <3>1, <3>3
    <3> QED BY <3>2, <3>4, Zenon
  <2>6. ListOK'
    BY <1>2, <1>3, <1>5, <2>5 DEF OwnersInv, ListOK
  <2>7. ~inactive'[p] /\ \A q \in AllProducers \ {p} : inactive'[q] = inactive[q]
    BY <1>2, <1>3, <2>0, <2>1 DEF OwnersInv, OwnersOK
  <2>8. \A b \in Actors : p \notin OwnedBy(b)
    BY <1>2, <2>0 DEF OwnersInv, OwnersOK
  <2>9. created <= created' /\ p <= created'
    BY <1>2, <1>5, <2>0
  <2> QED BY <1>1, <1>3, <2>1, <2>2, <2>3, <2>4, <2>5, <2>6, <2>7, <2>8, <2>9, Acquires
<1> QED BY <1>4, <1>5 DEF Create

(* compare_exchange of inactive: the token gets the producer, or another   *)
(* one had it first.                                                       *)
LEMMA RecycleKeeps == ASSUME OwnersInv, NEW k \in Tokens, Recycle(k) PROVE OwnersInv'
<1>1. k \in Actors /\ call[k].pc = "recycle" /\ call[k].pc \in ListPcs \ LinkPcs
  BY DEF Actors, Recycle, ListPcs, LinkPcs
<1>2. call[k] \in ListCall /\ call[k].ptr # NoProducer
  BY <1>1 DEF OwnersInv, CallsOK, CallOK
<1>3. PICK p : p = call[k].ptr
  OBVIOUS
<1>4. p \in AllProducers /\ p \in 0 .. MaxProducers
  BY <1>2, <1>3 DEF ListCall, AllProducers, NoProducer
<1>5. /\ inactive' = [inactive EXCEPT ![p] = FALSE]
      /\ UNCHANGED <<producerListTail, next, isExplicit, created, hashes, token,
                     implicitProducerHashCount>>
  BY <1>3 DEF Recycle, hashVars
<1>6. /\ inactive' \in [AllProducers -> BOOLEAN] /\ ~inactive'[p]
      /\ \A q \in AllProducers \ {p} : inactive'[q] = inactive[q]
  BY <1>4, <1>5 DEF OwnersInv, ListOK
<1>7. ListOK'
  BY <1>5, <1>6 DEF OwnersInv, ListOK
<1>8. CASE inactive[p]
  <2> DEFINE c == [call[k] EXCEPT !.pc = "made", !.recycled = TRUE]
  <2>1. c \in ListCall /\ c.main = call[k].main /\ c.pc = "made" /\ c.ptr = p
    BY <1>2, <1>3 DEF ListCall, ListPcs, LinkPcs
  <2>2. Goto(k, c)
    BY <1>3, <1>8 DEF Recycle
  <2> HIDE DEF c
  <2>3. c.pc \in LinkPcs
    BY <2>1 DEF LinkPcs
  <2>4. isExplicit[p] /\ p <= created
    BY <1>4, <1>8 DEF OwnersInv, OwnersOK
  <2>5. \A b \in Actors : p \notin OwnedBy(b)
    BY <1>8 DEF OwnersInv, OwnersOK
  <2>6. created <= created' /\ p <= created'
    BY <1>5, <2>4 DEF OwnersInv, ListOK
  <2>7. (isExplicit'[p] <=> k \in Tokens)
        /\ \A q \in AllProducers \ {p} : isExplicit'[q] = isExplicit[q]
    BY <1>5, <2>4
  <2> QED BY <1>1, <1>4, <1>5, <1>6, <1>7, <2>1, <2>2, <2>3, <2>5, <2>6, <2>7, Acquires
<1>9. CASE ~inactive[p]
  <2> DEFINE c == [call[k] EXCEPT !.pc = "visit", !.ptr = next[p]]
  <2>1. next[p] \in 0 .. MaxProducers
    BY <1>4 DEF OwnersInv, ListOK
  <2>2. c \in ListCall /\ c.main = call[k].main /\ c.pc = "visit"
    BY <1>2, <2>1 DEF ListCall, ListPcs
  <2>3. Goto(k, c)
    BY <1>3, <1>9 DEF Recycle
  <2> HIDE DEF c
  <2>4. c.pc \notin LinkPcs \union {"recycle"}
    BY <2>2 DEF LinkPcs
  <2>5. CallOK(c) /\ (k \in Threads => ThreadCall(k, c)) /\ (k \in Tokens => TokenCall(k, c))
        /\ c.pc # "enqueue"
    BY <1>1, <2>2, <2>4, GoesOnInList
  <2>6. inactive' = inactive
    <3>1. inactive \in [AllProducers -> BOOLEAN]
      BY DEF OwnersInv, ListOK
    <3>2. inactive[p] = FALSE
      BY <1>4, <1>9, <3>1
    <3> QED BY <1>4, <1>5, <3>1, <3>2
  <2> QED BY <1>1, <1>5, <1>7, <2>3, <2>4, <2>5, <2>6, CallMoves
<1> QED BY <1>8, <1>9

(* A change of the tables that leaves the other threads' keys as they were *)
(* leaves them their producers.                                            *)
LEMMA TablesChange ==
  ASSUME OwnersInv, NEW u \in Actors, call'[u] = call[u], token' = token,
         DOMAIN hashes \subseteq DOMAIN hashes',
         \A h : HasKey(u, h)' <=> HasKey(u, h),
         \A h \in DOMAIN hashes : HasKey(u, h) => Entry(h, u)' = Entry(h, u)
  PROVE  /\ OwnedBy(u)' = OwnedBy(u)
         /\ u \in Threads =>
              /\ \A g, h \in DOMAIN hashes' :
                   HasKey(u, g)' /\ HasKey(u, h)' => Entry(g, u)' = Entry(h, u)'
              /\ ThreadCall(u, call[u])'
<1>1. \A h : HasKey(u, h) => h \in DOMAIN hashes
  BY DEF HasKey
<1>2. CASE u \in Tokens
  <2>1. OwnedBy(u)' = OwnedBy(u)
    BY <1>2 DEF OwnedBy
  <2> QED BY <1>2, <2>1, ProducersAssumption
<1>3. CASE u \in Threads
  <2>1. ASSUME call[u].pc \in LinkPcs PROVE OwnedBy(u)' = OwnedBy(u)
    BY <2>1 DEF OwnedBy, LinkPcs
  <2>2. ASSUME call[u].pc \notin LinkPcs PROVE OwnedBy(u)' = OwnedBy(u)
    <3>1. \A p : p \in OwnedBy(u) <=> \E h \in DOMAIN hashes : HasKey(u, h) /\ p = Entry(h, u)
      BY <1>3, <2>2, OwnedByThread
    <3>2. \A p : p \in OwnedBy(u)' <=> \E h \in DOMAIN hashes' : HasKey(u, h)' /\ p = Entry(h, u)'
      <4>1. u \notin Tokens
        BY <1>3, ProducersAssumption
      <4>2. OwnedBy(u)' = {hashes'[h].entries[u] : h \in {g \in DOMAIN hashes' : u \in DOMAIN hashes'[g].entries}}
        BY <2>2, <4>1 DEF OwnedBy, LinkPcs
      <4> QED BY <4>2 DEF HasKey, Entry
    <3>3. \A p : p \in OwnedBy(u)' <=> p \in OwnedBy(u)
      BY <1>1, <3>1, <3>2
    <3> QED BY <3>3
  <2>3. OwnedBy(u)' = OwnedBy(u)
    BY <2>1, <2>2
  <2>4. \A g, h \in DOMAIN hashes' :
          HasKey(u, g)' /\ HasKey(u, h)' => Entry(g, u)' = Entry(h, u)'
    BY <1>1, <1>3 DEF OwnersInv, KeysOK
  <2>5. ThreadCall(u, call[u])'
    <3>1. ThreadCall(u, call[u])
      BY <1>3 DEF OwnersInv, KeysOK
    <3> QED BY <1>1, <3>1 DEF ThreadCall
  <2> QED BY <2>3, <2>4, <2>5
<1> QED BY <1>2, <1>3 DEF Actors

(* A thread's own producer gets the thread's key in the table it read as   *)
(* implicitProducerHash.                                                   *)
LEMMA KeyAdded ==
  ASSUME OwnersInv, NEW t \in Threads, NEW m \in DOMAIN hashes, NEW p \in OwnedBy(t),
         AddKey(m, t, p), Goto(t, [pc |-> "enqueue", producer |-> p]),
         \A h \in DOMAIN hashes : HasKey(t, h) => Entry(h, t) = p,
         UNCHANGED <<listVars, token>>, implicitProducerHashCount' \in Int
  PROVE  OwnersInv'
<1> DEFINE c == [pc |-> "enqueue", producer |-> p]
<1>1. t \in Actors /\ t \notin Tokens
  BY ProducersAssumption DEF Actors
<1>2. p \in AllProducers /\ \A q \in OwnedBy(t) : q = p
  <2>1. p \in 1 .. created /\ created \in 0 .. MaxProducers
    BY <1>1 DEF OwnersInv, OwnersOK, ListOK
  <2>2. \A q \in OwnedBy(t) : q = p
    BY <1>1 DEF OwnersInv, OwnersOK
  <2> QED BY <2>1, <2>2, ProducersAssumption DEF AllProducers
<1>3. c.pc = "enqueue" /\ c.producer = p /\ c \in PutCall
  BY <1>2 DEF PutCall
<1>4. CallOK(c) /\ c.pc \notin LinkPcs
  BY <1>3 DEF CallOK, HashPcs, ListPcs, LinkPcs
<1>5. Goto(t, c)
  OBVIOUS
<1> HIDE DEF c
<1>6. /\ call' = [b \in Actors |-> call'[b]] /\ call'[t] = c
      /\ \A b \in Actors : b # t => call'[b] = call[b]
  BY <1>1, <1>5 DEF OwnersInv, CallsOK, Goto
<1>7. /\ TablesOK' /\ DOMAIN hashes' = DOMAIN hashes
      /\ \A u, h : HasKey(u, h)' <=> HasKey(u, h) \/ (u = t /\ h = m)
      /\ \A h \in DOMAIN hashes : \A u :
           Entry(h, u)' = IF u = t /\ h = m THEN p ELSE
                          IF HasKey(u, h) THEN Entry(h, u) ELSE Entry(h, u)'
  <2>1. TablesOK
    BY DEF OwnersInv
  <2> QED BY <2>1, AddKeyFacts
<1>8. ASSUME NEW u \in Actors, u # t
      PROVE  /\ OwnedBy(u)' = OwnedBy(u)
             /\ u \in Threads =>
                  /\ \A g, h \in DOMAIN hashes' :
                       HasKey(u, g)' /\ HasKey(u, h)' => Entry(g, u)' = Entry(h, u)'
                  /\ ThreadCall(u, call[u])'
  <2>1. call'[u] = call[u] /\ token' = token /\ DOMAIN hashes \subseteq DOMAIN hashes'
    BY <1>6, <1>7, <1>8
  <2>2. \A h : HasKey(u, h)' <=> HasKey(u, h)
    BY <1>7, <1>8
  <2>3. \A h \in DOMAIN hashes : HasKey(u, h) => Entry(h, u)' = Entry(h, u)
    BY <1>7, <1>8
  <2> QED BY <2>1, <2>2, <2>3, TablesChange
<1>9. \A h \in DOMAIN hashes' : HasKey(t, h)' => Entry(h, t)' = p
  BY <1>7
<1>10. \A q : q \in OwnedBy(t)' <=> \E h \in DOMAIN hashes' : HasKey(t, h)' /\ q = Entry(h, t)'
  <2>1. OwnedBy(t)' = {hashes'[h].entries[t] : h \in {g \in DOMAIN hashes' : t \in DOMAIN hashes'[g].entries}}
    BY <1>1, <1>3, <1>6 DEF OwnedBy
  <2> QED BY <2>1 DEF HasKey, Entry
<1>11. OwnedBy(t)' = {p} /\ OwnedBy(t) = {p}
  <2>1. HasKey(t, m)' /\ Entry(m, t)' = p /\ m \in DOMAIN hashes'
    BY <1>7
  <2>2. OwnedBy(t)' = {p}
    BY <1>9, <1>10, <2>1
  <2> QED BY <1>2, <2>2
<1>12. \A b \in Actors : OwnedBy(b)' = OwnedBy(b)
  BY <1>8, <1>11
<1>13. CallsOK'
  <2>1. \A b \in Actors : CallOK(call'[b])
    BY <1>4, <1>6 DEF OwnersInv, CallsOK
  <2> QED BY <1>6, <2>1 DEF CallsOK, CallOK
<1>14. KeysOK'
  <2>1. ThreadCall(t, call[t])'
    BY <1>3, <1>6 DEF ThreadCall, HashPcs, ListPcs, LinkPcs
  <2>2. \A g, h \in DOMAIN hashes' :
          HasKey(t, g)' /\ HasKey(t, h)' => Entry(g, t)' = Entry(h, t)'
    BY <1>9
  <2>3. \A u \in Threads : u \in Actors
    BY DEF Actors
  <2> QED BY <1>8, <2>1, <2>2, <2>3 DEF KeysOK
<1>15. TokensOK'
  <2>1. \A k \in Tokens : TokenCall(k, call'[k])
    BY <1>1, <1>6 DEF OwnersInv, TokensOK, Actors
  <2> QED BY <2>1 DEF TokensOK, TokenCall
<1>16. ListOK' /\ UNCHANGED <<created, isExplicit, inactive>>
  BY DEF OwnersInv, ListOK, listVars
<1>17. OwnersOK'
  BY <1>12, <1>16 DEF OwnersInv, OwnersOK
<1>18. PutsIntoItsOwn'
  BY <1>3, <1>6, <1>11, <1>12 DEF OwnersInv, PutsIntoItsOwn
<1> QED BY <1>7, <1>13, <1>14, <1>15, <1>16, <1>17, <1>18 DEF OwnersInv

(* The thread finds its key in the newest table that has it, or in none.   *)
LEMMA LookUpKeeps == ASSUME OwnersInv, NEW t \in Threads, LookUp(t) PROVE OwnersInv'
<1>1. t \in Actors /\ t \notin Tokens
  BY ProducersAssumption DEF Actors
<1>2. call[t].pc = "lookUp" /\ call[t].pc \notin LinkPcs
  BY DEF LookUp, LinkPcs
<1>3. /\ call[t] \in LookCall /\ call[t].main \in DOMAIN hashes /\ call[t].main \in Nat
      /\ \A h \in DOMAIN hashes : HasKey(t, h) => h <= call[t].main
  <2>1. CallOK(call[t]) /\ ThreadCall(t, call[t])
    BY <1>1 DEF OwnersInv, CallsOK, KeysOK
  <2> QED BY <1>2, <2>1 DEF CallOK, ThreadCall, LookCall
<1>4. DOMAIN hashes = 1 .. Len(hashes) /\ Len(hashes) \in Nat
  BY DEF OwnersInv, TablesOK
<1>5. \A h : h \in Known(t) <=> h \in DOMAIN hashes /\ HasKey(t, h)
  <2>1. \A h : h \in Known(t) <=> h \in 1 .. call[t].main /\ t \in DOMAIN hashes[h].entries
    BY DEF Known
  <2>2. 1 .. call[t].main \subseteq DOMAIN hashes
    BY <1>3, <1>4
  <2>3. \A h \in DOMAIN hashes : HasKey(t, h) => h \in 1 .. call[t].main
    BY <1>3, <1>4
  <2> QED BY <2>1, <2>2, <2>3 DEF HasKey
<1>6. CASE \E h \in Known(t) :
             /\ AddKey(call[t].main, t, hashes[h].entries[t])
             /\ Goto(t, [pc |-> "enqueue", producer |-> hashes[h].entries[t]])
             /\ UNCHANGED implicitProducerHashCount
  <2>1. PICK h \in Known(t) :
             /\ AddKey(call[t].main, t, Entry(h, t))
             /\ Goto(t, [pc |-> "enqueue", producer |-> Entry(h, t)])
             /\ UNCHANGED implicitProducerHashCount
    BY <1>6 DEF Entry
  <2>2. PICK p : p = Entry(h, t)
    OBVIOUS
  <2>3. h \in DOMAIN hashes /\ HasKey(t, h)
    BY <1>5, <2>1
  <2>4. p \in OwnedBy(t)
    BY <1>2, <2>2, <2>3, OwnedByThread
  <2>5. \A g \in DOMAIN hashes : HasKey(t, g) => Entry(g, t) = p
    BY <2>2, <2>3 DEF OwnersInv, KeysOK
  <2>6. AddKey(call[t].main, t, p) /\ Goto(t, [pc |-> "enqueue", producer |-> p])
    BY <2>1, <2>2
  <2>7. UNCHANGED <<listVars, token>> /\ implicitProducerHashCount' \in Int
    BY <2>1 DEF LookUp, OwnersInv, ListOK
  <2> QED BY <1>3, <2>4, <2>5, <2>6, <2>7, KeyAdded
<1>7. CASE /\ Known(t) = {}
           /\ implicitProducerHashCount' = implicitProducerHashCount + 1
           /\ Goto(t, [pc |-> "grow", main |-> call[t].main, newCount |-> implicitProducerHashCount + 1])
           /\ UNCHANGED hashes
  <2> DEFINE c == [pc |-> "grow", main |-> call[t].main, newCount |-> implicitProducerHashCount + 1]
  <2>1. implicitProducerHashCount \in Int /\ implicitProducerHashCount + 1 \in Int
    BY DEF OwnersInv, ListOK
  <2>2. c \in HashCall /\ c.pc = "grow" /\ c.main = call[t].main
    BY <1>3, <2>1 DEF HashCall, HashPcs
  <2>3. Goto(t, c)
    BY <1>7
  <2> HIDE DEF c
  <2>4. CallOK(c) /\ c.pc \notin LinkPcs
    BY <2>2 DEF CallOK, HashPcs, ListPcs, LinkPcs
  <2>5. \A h \in DOMAIN hashes : ~HasKey(t, h)
    BY <1>5, <1>7
  <2>6. ThreadCall(t, c)
    BY <1>3, <2>2, <2>5 DEF ThreadCall, HashPcs, ListPcs, LinkPcs
  <2>7. ListOK' /\ UNCHANGED <<hashes, token, created, isExplicit, inactive>>
    BY <1>7, <2>1 DEF LookUp, OwnersInv, ListOK, listVars
  <2> QED BY <1>1, <1>2, <2>2, <2>3, <2>4, <2>6, <2>7, CallMoves
<1> QED BY <1>6, <1>7 DEF LookUp

(* The thread has its producer: its key is added.                          *)
LEMMA InsertKeeps == ASSUME OwnersInv, NEW t \in Threads, Insert(t) PROVE OwnersInv'
<1>1. t \in Actors /\ call[t].pc = "made" /\ call[t].pc \in LinkPcs /\ call[t].pc \in ListPcs
  BY DEF Actors, Insert, LinkPcs, ListPcs
<1>2. /\ call[t].main \in DOMAIN hashes /\ call[t] \in ListCall
      /\ \A h \in DOMAIN hashes : ~HasKey(t, h)
  <2>1. CallOK(call[t]) /\ ThreadCall(t, call[t])
    BY <1>1 DEF OwnersInv, CallsOK, KeysOK
  <2> QED BY <1>1, <2>1 DEF CallOK, ThreadCall
<1>3. call[t].ptr \in OwnedBy(t)
  BY <1>1, OwnedByLinking
<1>4. implicitProducerHashCount' \in Int
  BY DEF Insert, OwnersInv, ListOK
<1>5. PICK p : p = call[t].ptr
  OBVIOUS
<1>6. AddKey(call[t].main, t, p) /\ Goto(t, [pc |-> "enqueue", producer |-> p])
      /\ p \in OwnedBy(t) /\ UNCHANGED <<listVars, token>>
  BY <1>3, <1>5 DEF Insert
<1> QED BY <1>2, <1>4, <1>6, KeyAdded

(* The thread with the resize lock adds a table, or has no memory, or      *)
(* finds that another thread has added one.                                *)
LEMMA ResizeKeeps == ASSUME OwnersInv, NEW t \in Threads, Resize(t) PROVE OwnersInv'
<1>1. t \in Actors /\ call[t].pc = "resize" /\ call[t].pc \in HashPcs /\ t \notin Tokens
  BY ProducersAssumption DEF Actors, Resize, HashPcs
<1>2. /\ call[t] \in HashCall /\ call[t].main \in DOMAIN hashes
      /\ \A h \in DOMAIN hashes : ~HasKey(t, h)
  BY <1>1 DEF OwnersInv, CallsOK, CallOK, KeysOK, ThreadCall
<1>3. UNCHANGED <<listVars, token>> /\ call[t].pc \notin LinkPcs
  BY <1>1 DEF Resize, LinkPcs
<1>4. Len(hashes) \in Nat /\ Len(hashes) \in DOMAIN hashes /\ implicitProducerHashCount \in Int
  BY DEF OwnersInv, TablesOK, ListOK
<1>5. CASE /\ implicitProducerHashCount' = implicitProducerHashCount - 1
           /\ Goto(t, Idle) /\ UNCHANGED hashes
  BY <1>1, <1>3, <1>4, <1>5, IdleKeeps
<1>6. CASE /\ Goto(t, [call[t] EXCEPT !.pc = "room", !.main = Len(hashes)])
           /\ UNCHANGED <<hashes, implicitProducerHashCount>>
  <2> DEFINE c == [call[t] EXCEPT !.pc = "room", !.main = Len(hashes)]
  <2>1. c \in HashCall /\ c.main = Len(hashes) /\ c.pc = "room"
    BY <1>2, <1>4 DEF HashCall, HashPcs
  <2> HIDE DEF c
  <2>2. c.pc \notin LinkPcs \union {"recycle"}
    BY <2>1 DEF LinkPcs
  <2>3. Goto(t, c)
    BY <1>6 DEF c
  <2> QED BY <1>1, <1>3, <1>4, <1>6, <2>1, <2>2, <2>3, HashCallMoves
<1>7. CASE \E capacity :
             /\ hashes' = Append(hashes, [capacity |-> capacity, entries |-> <<>>])
             /\ Goto(t, [call[t] EXCEPT !.pc = "room", !.main = Len(hashes) + 1])
             /\ UNCHANGED implicitProducerHashCount
  <2>1. PICK capacity : hashes' = Append(hashes, [capacity |-> capacity, entries |-> <<>>])
    BY <1>7
  <2>2. PICK m : m = Len(hashes) + 1
    OBVIOUS
  <2> DEFINE c == [call[t] EXCEPT !.pc = "room", !.main = m]
  <2>3. /\ TablesOK' /\ DOMAIN hashes \subseteq DOMAIN hashes'
        /\ m \in DOMAIN hashes' /\ m \in Nat
        /\ \A u, h : HasKey(u, h)' <=> HasKey(u, h)
        /\ \A h \in DOMAIN hashes : \A u : Entry(h, u)' = Entry(h, u)
    <3>1. TablesOK
      BY DEF OwnersInv
    <3> QED BY <2>1, <2>2, <3>1, NewTableFacts
  <2>4. c \in HashCall /\ c.main = m /\ c.pc = "room" /\ Goto(t, c)
    BY <1>2, <1>7, <2>2, <2>3 DEF HashCall, HashPcs
  <2> HIDE DEF c
  <2>5. CallOK(c) /\ c.pc \notin LinkPcs
    BY <2>4 DEF CallOK, HashPcs, ListPcs, LinkPcs
  <2>6. /\ call' = [b \in Actors |-> call'[b]] /\ call'[t] = c
        /\ \A b \in Actors : b # t => call'[b] = call[b]
    BY <1>1, <2>4 DEF OwnersInv, CallsOK, Goto
  <2>7. CallsOK'
    <3>1. \A b \in Actors : CallOK(call'[b])
      BY <2>5, <2>6 DEF OwnersInv, CallsOK
    <3> QED BY <2>6, <3>1 DEF CallsOK, CallOK
  <2>8. ASSUME NEW u \in Actors, u # t
        PROVE  /\ OwnedBy(u)' = OwnedBy(u)
               /\ u \in Threads =>
                    /\ \A g, h \in DOMAIN hashes' :
                         HasKey(u, g)' /\ HasKey(u, h)' => Entry(g, u)' = Entry(h, u)'
                    /\ ThreadCall(u, call[u])'
    <3>1. call'[u] = call[u] /\ token' = token
      BY <1>3, <2>6, <2>8
    <3>2. \A h : HasKey(u, h)' <=> HasKey(u, h)
      BY <2>3
    <3>3. \A h \in DOMAIN hashes : HasKey(u, h) => Entry(h, u)' = Entry(h, u)
      BY <2>3
    <3> QED BY <2>3, <3>1, <3>2, <3>3, TablesChange
  <2>9. \A h \in DOMAIN hashes' : ~HasKey(t, h)'
    BY <1>2, <2>3 DEF HasKey
  <2>10. OwnedBy(t) = {} /\ OwnedBy(t)' = {}
    <3>1. OwnedBy(t)' = {hashes'[h].entries[t] : h \in {g \in DOMAIN hashes' : t \in DOMAIN hashes'[g].entries}}
      BY <1>1, <2>5, <2>6 DEF OwnedBy, LinkPcs
    <3>2. OwnedBy(t)' = {}
      BY <2>9, <3>1 DEF HasKey
    <3>3. OwnedBy(t) = {}
      BY <1>2, <1>3, OwnedByThread
    <3> QED BY <3>2, <3>3
  <2>11. \A b \in Actors : OwnedBy(b)' = OwnedBy(b)
    BY <2>8, <2>10
  <2>12. KeysOK'
    <3>1. ThreadCall(t, call[t])'
      BY <2>3, <2>4, <2>6, <2>9 DEF ThreadCall, HashPcs, ListPcs, LinkPcs
    <3>2. \A u \in Threads : u \in Actors
      BY DEF Actors
    <3> QED BY <2>8, <2>9, <3>1, <3>2 DEF KeysOK
  <2>13. TokensOK'
    <3>1. \A k \in Tokens : TokenCall(k, call'[k])
      BY <1>1, <2>6 DEF OwnersInv, TokensOK, Actors
    <3> QED BY <1>3, <3>1 DEF TokensOK, TokenCall
  <2>14. ListOK' /\ UNCHANGED <<created, isExplicit, inactive>>
    BY <1>3, <1>7 DEF OwnersInv, ListOK, listVars
  <2>15. OwnersOK'
    BY <2>11, <2>14 DEF OwnersInv, OwnersOK
  <2>16. PutsIntoItsOwn'
    BY <2>4, <2>6, <2>11 DEF OwnersInv, PutsIntoItsOwn
  <2> QED BY <2>3, <2>7, <2>12, <2>13, <2>14, <2>15, <2>16 DEF OwnersInv
<1> QED BY <1>5, <1>6, <1>7 DEF Resize

(* A step that changes tokens, while the calls and the tables stay.        *)
LEMMA ThreadsKept ==
  ASSUME OwnersInv, hashes' = hashes, NEW t \in Threads, call'[t] = call[t]
  PROVE  OwnedBy(t)' = OwnedBy(t)
<1>1. t \notin Tokens
  BY ProducersAssumption
<1> QED BY <1>1 DEF OwnedBy

(* The token gets the producer that was made for it, or none.              *)
LEMMA ConstructedKeeps == ASSUME OwnersInv, NEW k \in Tokens, Constructed(k) PROVE OwnersInv'
<1>1. k \in Actors /\ k \notin Threads /\ call[k].pc \in {"made", "none"} /\ call[k].pc \in ListPcs
  BY ProducersAssumption DEF Actors, Constructed, ListPcs, LinkPcs
<1>2. call[k] \in ListCall /\ token[k] = NoProducer
      /\ (call[k].pc = "made" => call[k].ptr # NoProducer)
  BY <1>1 DEF OwnersInv, CallsOK, CallOK, TokensOK, TokenCall, LinkPcs
<1>3. PICK p : p = IF call[k].pc = "made" THEN call[k].ptr ELSE NoProducer
  OBVIOUS
<1>4. token' = [token EXCEPT ![k] = p] /\ p \in 0 .. MaxProducers
  BY <1>2, <1>3, ProducersAssumption DEF Constructed, ListCall, NoProducer
<1>5. /\ token' \in [Tokens -> 0 .. MaxProducers] /\ token'[k] = p
      /\ \A l \in Tokens : l # k => token'[l] = token[l]
  BY <1>4 DEF OwnersInv, ListOK
<1>6. /\ call' = [b \in Actors |-> call'[b]] /\ call'[k] = Idle
      /\ \A b \in Actors : b # k => call'[b] = call[b]
  BY <1>1 DEF Constructed, OwnersInv, CallsOK, Goto
<1>7. UNCHANGED <<listVars, hashVars>>
  BY DEF Constructed
<1>8. OwnedBy(k)' = OwnedBy(k)
  <2>1. OwnedBy(k)' = {p} \ {NoProducer}
    BY <1>5, <1>6 DEF OwnedBy, Idle
  <2>2. CASE call[k].pc = "made"
    <3>1. OwnedBy(k) = {p} /\ p # NoProducer
      BY <1>2, <1>3, <2>2, OwnedByLinking DEF LinkPcs
    <3> QED BY <2>1, <3>1
  <2>3. CASE call[k].pc = "none"
    <3>1. OwnedBy(k) = {} /\ p = NoProducer
      BY <1>2, <1>3, <2>3, OwnedByToken DEF LinkPcs
    <3> QED BY <2>1, <3>1
  <2> QED BY <1>1, <2>2, <2>3
<1>9. \A b \in Actors : OwnedBy(b)' = OwnedBy(b)
  <2>1. ASSUME NEW b \in Actors, b # k PROVE OwnedBy(b)' = OwnedBy(b)
    <3>1. CASE b \in Tokens
      BY <1>5, <1>6, <1>7, <2>1, <3>1, SameOwner DEF hashVars
    <3>2. CASE b \in Threads
      BY <1>6, <1>7, <2>1, <3>2, ThreadsKept DEF hashVars
    <3> QED BY <3>1, <3>2 DEF Actors
  <2> QED BY <1>8, <2>1
<1>10. Idle.pc = "idle" /\ CallOK(Idle)
  BY DEF Idle, CallOK, HashPcs, ListPcs, LinkPcs
<1>11. CallsOK'
  <2>1. \A b \in Actors : CallOK(call'[b])
    BY <1>6, <1>10 DEF OwnersInv, CallsOK
  <2> QED BY <1>6, <2>1 DEF CallsOK, CallOK
<1>12. ListOK' /\ TablesOK'
  BY <1>5, <1>7 DEF OwnersInv, ListOK, TablesOK, listVars, hashVars
<1>13. KeysOK'
  <2>1. \A t \in Threads : call'[t] = call[t]
    BY <1>1, <1>6 DEF Actors
  <2> QED BY <1>7, <2>1 DEF OwnersInv, KeysOK, ThreadCall, HasKey, Entry, hashVars
<1>14. TokensOK'
  <2>1. \A l \in Tokens : TokenCall(l, call[l])
    BY DEF OwnersInv, TokensOK
  <2>2. \A l \in Tokens : l # k => call'[l] = call[l] /\ token'[l] = token[l]
    BY <1>5, <1>6 DEF Actors
  <2>3. TokenCall(k, call[k])'
    BY <1>6, <1>10 DEF TokenCall, ListPcs, LinkPcs
  <2> QED BY <2>1, <2>2, <2>3 DEF TokensOK, TokenCall
<1>15. OwnersOK'
  BY <1>7, <1>9 DEF OwnersInv, OwnersOK, listVars
<1>16. PutsIntoItsOwn'
  BY <1>6, <1>9, <1>10 DEF OwnersInv, PutsIntoItsOwn
<1> QED BY <1>11, <1>12, <1>13, <1>14, <1>15, <1>16 DEF OwnersInv

(* What a step that moves no call and changes no table keeps.              *)
LEMMA TokensMove ==
  ASSUME OwnersInv, UNCHANGED <<call, hashes>>,
         \A k \in Tokens : token'[k] # token[k] => call[k].pc = "idle"
  PROVE  CallsOK' /\ TablesOK' /\ KeysOK' /\ TokensOK'
<1>1. CallsOK' /\ TablesOK'
  BY DEF OwnersInv, CallsOK, CallOK, TablesOK
<1>2. KeysOK'
  BY DEF OwnersInv, KeysOK, ThreadCall, HasKey, Entry
<1>3. TokensOK'
  <2>1. \A k \in Tokens : TokenCall(k, call[k])
    BY DEF OwnersInv, TokensOK
  <2> QED BY <2>1 DEF TokensOK, TokenCall, ListPcs, LinkPcs
<1> QED BY <1>1, <1>2, <1>3

(* A destroyed token's producer becomes inactive.                          *)
LEMMA DestroyKeeps == ASSUME OwnersInv, NEW k \in Tokens, Destroy(k) PROVE OwnersInv'
<1>1. k \in Actors /\ call[k].pc = "idle" /\ call[k].pc \notin LinkPcs
  BY DEF Actors, Destroy, LinkPcs
<1>2. PICK p : p = token[k]
  OBVIOUS
<1>3. p # NoProducer /\ p \in AllProducers /\ OwnedBy(k) = {p}
  <2>1. p # NoProducer
    BY <1>2 DEF Destroy
  <2>2. p \in AllProducers
    BY <1>2, <2>1 DEF OwnersInv, ListOK, AllProducers, NoProducer
  <2> QED BY <1>1, <1>2, <2>1, <2>2, OwnedByToken
<1>4. /\ inactive' = [inactive EXCEPT ![p] = TRUE]
      /\ token' = [token EXCEPT ![k] = NoProducer]
      /\ UNCHANGED <<producerListTail, next, isExplicit, created, hashes, call,
                     implicitProducerHashCount>>
  BY <1>2 DEF Destroy, hashVars
<1>5. /\ token' \in [Tokens -> 0 .. MaxProducers] /\ token'[k] = NoProducer
      /\ \A l \in Tokens : l # k => token'[l] = token[l]
  BY <1>4, ProducersAssumption DEF OwnersInv, ListOK, NoProducer
<1>6. /\ inactive' \in [AllProducers -> BOOLEAN]
      /\ \A q \in AllProducers \ {p} : inactive'[q] = inactive[q]
  BY <1>3, <1>4 DEF OwnersInv, ListOK
<1>7. ListOK'
  BY <1>4, <1>5, <1>6 DEF OwnersInv, ListOK
<1>8. CallsOK' /\ TablesOK' /\ KeysOK' /\ TokensOK'
  BY <1>1, <1>4, <1>5, TokensMove
<1>9. OwnedBy(k)' = {}
  BY <1>1, <1>4, <1>5 DEF OwnedBy, LinkPcs
<1>10. \A b \in Actors : b # k => OwnedBy(b)' = OwnedBy(b)
  <2>1. ASSUME NEW b \in Actors, b # k PROVE OwnedBy(b)' = OwnedBy(b)
    <3>1. CASE b \in Tokens
      BY <1>4, <1>5, <2>1, <3>1, SameOwner
    <3>2. CASE b \in Threads
      BY <1>4, <3>2, ThreadsKept
    <3> QED BY <3>1, <3>2 DEF Actors
  <2> QED BY <2>1
<1>11. OwnersOK'
  <2>1. isExplicit[p] /\ p <= created
    BY <1>1, <1>3 DEF OwnersInv, OwnersOK
  <2>2. \A q \in AllProducers : inactive'[q] => isExplicit'[q] /\ q <= created'
    BY <1>4, <1>6, <2>1 DEF OwnersInv, OwnersOK
  <2>3. ASSUME NEW b \in Actors, NEW q \in OwnedBy(b)'
        PROVE  q \in 1 .. created' /\ (isExplicit'[q] <=> b \in Tokens) /\ ~inactive'[q]
    <3>1. b # k /\ q \in OwnedBy(b)
      BY <1>9, <1>10, <2>3
    <3>2. q # p
      BY <1>1, <1>3, <3>1 DEF OwnersInv, OwnersOK
    <3>3. q \in 1 .. created /\ (isExplicit[q] <=> b \in Tokens) /\ ~inactive[q]
      BY <3>1 DEF OwnersInv, OwnersOK
    <3>4. q \in AllProducers
      BY <3>3, ProducersAssumption DEF OwnersInv, ListOK, AllProducers
    <3> QED BY <1>4, <1>6, <3>2, <3>3, <3>4
  <2>4. \A b \in Actors : \A q, r \in OwnedBy(b)' : q = r
    BY <1>9, <1>10 DEF OwnersInv, OwnersOK
  <2>5. \A b, d \in Actors : \A q \in OwnedBy(b)' : q \in OwnedBy(d)' => b = d
    BY <1>9, <1>10 DEF OwnersInv, OwnersOK
  <2> QED BY <2>2, <2>3, <2>4, <2>5 DEF OwnersOK
<1>12. PutsIntoItsOwn'
  BY <1>1, <1>4, <1>10 DEF OwnersInv, PutsIntoItsOwn
<1> QED BY <1>7, <1>8, <1>11, <1>12 DEF OwnersInv

(* Two tokens exchange their producers.                                    *)
LEMMA SwapKeeps == ASSUME OwnersInv, NEW k \in Tokens, NEW l \in Tokens \ {k}, Swap(k, l)
                   PROVE  OwnersInv'
<1>1. /\ k \in Actors /\ l \in Actors /\ k # l
      /\ call[k].pc = "idle" /\ call[l].pc = "idle"
  BY DEF Actors, Swap
<1>2. /\ token' = [token EXCEPT ![k] = token[l], ![l] = token[k]]
      /\ UNCHANGED <<listVars, hashVars, call>>
  BY DEF Swap
<1>3. /\ token' \in [Tokens -> 0 .. MaxProducers]
      /\ token'[k] = token[l] /\ token'[l] = token[k]
      /\ \A m \in Tokens : m # k /\ m # l => token'[m] = token[m]
  BY <1>1, <1>2 DEF OwnersInv, ListOK
<1>4. ListOK'
  BY <1>2, <1>3 DEF OwnersInv, ListOK, listVars, hashVars
<1>5. CallsOK' /\ TablesOK' /\ KeysOK' /\ TokensOK'
  BY <1>1, <1>2, <1>3, TokensMove DEF hashVars
<1>6. OwnedBy(k)' = OwnedBy(l) /\ OwnedBy(l)' = OwnedBy(k)
  BY <1>1, <1>2, <1>3 DEF OwnedBy
<1>7. \A b \in Actors : b # k /\ b # l => OwnedBy(b)' = OwnedBy(b)
  <2>1. ASSUME NEW b \in Actors, b # k, b # l PROVE OwnedBy(b)' = OwnedBy(b)
    <3>1. CASE b \in Tokens
      BY <1>2, <1>3, <2>1, <3>1, SameOwner DEF hashVars
    <3>2. CASE b \in Threads
      BY <1>2, <3>2, ThreadsKept DEF hashVars
    <3> QED BY <3>1, <3>2 DEF Actors
  <2> QED BY <2>1
<1>8. UNCHANGED <<isExplicit, inactive, created>>
  BY <1>2 DEF listVars
<1>9. OwnersOK'
  <2>1. \A q \in AllProducers : inactive'[q] => isExplicit'[q] /\ q <= created'
    BY <1>8 DEF OwnersInv, OwnersOK
  <2>2. ASSUME NEW b \in Actors, NEW q \in OwnedBy(b)'
        PROVE  q \in 1 .. created' /\ (isExplicit'[q] <=> b \in Tokens) /\ ~inactive'[q]
    <3>1. PICK d \in Actors : q \in OwnedBy(d) /\ (b \in Tokens <=> d \in Tokens)
      BY <1>1, <1>6, <1>7, <2>2
    <3> QED BY <1>8, <3>1 DEF OwnersInv, OwnersOK
  <2>3. \A b \in Actors : \A q, r \in OwnedBy(b)' : q = r
    BY <1>1, <1>6, <1>7 DEF OwnersInv, OwnersOK
  <2>4. \A b, d \in Actors : \A q \in OwnedBy(b)' : q \in OwnedBy(d)' => b = d
    BY <1>1, <1>6, <1>7 DEF OwnersInv, OwnersOK
  <2> QED BY <2>1, <2>2, <2>3, <2>4 DEF OwnersOK
<1>10. PutsIntoItsOwn'
  BY <1>1, <1>2, <1>7 DEF OwnersInv, PutsIntoItsOwn
<1> QED BY <1>4, <1>5, <1>9, <1>10 DEF OwnersInv

(* No step of a consumer touches what the owners know.                     *)
LEMMA ProducersKept ==
  ASSUME OwnersInv, UNCHANGED <<listVars, hashVars, token, call>>
  PROVE  OwnersInv'
<1> USE DEF listVars, hashVars
<1>1. CallsOK' /\ TablesOK' /\ KeysOK' /\ TokensOK'
  BY TokensMove
<1>2. ListOK'
  BY DEF OwnersInv, ListOK
<1>3. \A b \in Actors : OwnedBy(b)' = OwnedBy(b)
  BY SameOwner
<1>4. OwnersOK' /\ PutsIntoItsOwn'
  BY <1>3 DEF OwnersInv, OwnersOK, PutsIntoItsOwn
<1> QED BY <1>1, <1>2, <1>4 DEF OwnersInv

(* Every step of a consumer is such a step.                                *)
LEMMA ConsumersKeep == ASSUME NEW c, Consume(c) PROVE UNCHANGED <<listVars, hashVars, token, call>>
<1>1. CASE NewConsumerToken(c)
  BY <1>1 DEF NewConsumerToken, producerVars
<1>2. CASE TryDequeue(c) \/ \E max \in Maxes : TryDequeueBulk(c, max) \/ TokenDequeue(c, max)
  BY <1>2 DEF TryDequeue, TryDequeueBulk, TokenDequeue, UnchangedElse
<1>3. CASE ConsumerSteps(c)
  BY <1>3 DEF ConsumerSteps, SizeUp, SizedUp, Best, All, AllTried, RotateTail, RotateTo,
              Current, Around, Ring, RingTried, Fail, UnchangedElse
<1> QED BY <1>1, <1>2, <1>3 DEF Consume

(* The initial state: the producers made before have no owner.             *)
LEMMA InitOwnersInv == Init => OwnersInv
<1> SUFFICES ASSUME Init PROVE OwnersInv
  OBVIOUS
<1>1. PICK old \in Casts :
        /\ producerListTail = old.made /\ created = old.made
        /\ next = [p \in AllProducers |-> IF p \in 1 .. old.made THEN p - 1 ELSE NoProducer]
        /\ isExplicit = [p \in AllProducers |-> p \in 1 .. old.made]
        /\ inactive = [p \in AllProducers |-> p \in 1 .. old.made]
        /\ hashes = << [capacity |-> INITIAL_IMPLICIT_PRODUCER_HASH_SIZE, entries |-> <<>>] >>
        /\ implicitProducerHashCount = 0
        /\ token = [k \in Tokens |-> NoProducer]
        /\ call = [a \in Threads \union Tokens |-> Idle]
  BY DEF Init, ProducersInit
<1>2. PICK n \in 0 .. MaxProducers : n = old.made
  BY ProducersAssumption
<1>3. MaxProducers \in Nat /\ n \in Nat
  BY <1>2, ProducersAssumption
<1>4. \A a \in Actors : call[a] = Idle
  BY <1>1 DEF Actors
<1>5. Idle.pc = "idle" /\ CallOK(Idle)
  BY DEF Idle, CallOK, HashPcs, ListPcs, LinkPcs
<1>6. CallsOK
  BY <1>1, <1>4, <1>5 DEF CallsOK, Actors
<1>7. ListOK
  <2>1. next \in [AllProducers -> 0 .. MaxProducers]
    BY <1>1, <1>2, <1>3 DEF AllProducers, NoProducer
  <2>2. isExplicit \in [AllProducers -> BOOLEAN] /\ inactive \in [AllProducers -> BOOLEAN]
    <3>1. \A p \in AllProducers : (p \in 1 .. old.made) \in BOOLEAN
      OBVIOUS
    <3> QED BY <1>1, <3>1
  <2>3. token \in [Tokens -> 0 .. MaxProducers]
    BY <1>1, <1>3 DEF NoProducer
  <2> QED BY <1>1, <1>2, <2>1, <2>2, <2>3 DEF ListOK
<1>8. /\ TablesOK /\ DOMAIN hashes = {1} /\ \A t, h : ~HasKey(t, h)
  <2> DEFINE table == [capacity |-> INITIAL_IMPLICIT_PRODUCER_HASH_SIZE, entries |-> <<>>]
  <2>1. DOMAIN table = {"capacity", "entries"} /\ DOMAIN table.entries = {}
    OBVIOUS
  <2> HIDE DEF table
  <2>2. hashes = <<table>>
    BY <1>1 DEF table
  <2>3. /\ hashes = [h \in 1 .. 1 |-> hashes[h]] /\ hashes[1] = table
        /\ DOMAIN hashes = {1} /\ Len(hashes) = 1
    BY <2>2
  <2>4. hashes \in Seq({hashes[h] : h \in DOMAIN hashes})
    BY <2>3, IsSequence
  <2> QED BY <2>1, <2>3, <2>4 DEF TablesOK, HasKey
<1>9. KeysOK /\ TokensOK /\ PutsIntoItsOwn
  BY <1>4, <1>5, <1>8
     DEF KeysOK, ThreadCall, TokensOK, TokenCall, PutsIntoItsOwn, Actors, HashPcs, ListPcs, LinkPcs
<1>10. \A a \in Actors : OwnedBy(a) = {}
  <2>1. ASSUME NEW t \in Threads PROVE OwnedBy(t) = {}
    BY <1>4, <1>5, <1>8, OwnedByThread DEF Actors, LinkPcs
  <2>2. ASSUME NEW k \in Tokens PROVE OwnedBy(k) = {}
    BY <1>1, <1>4, <1>5, OwnedByToken DEF Actors, LinkPcs
  <2> QED BY <2>1, <2>2 DEF Actors
<1>11. OwnersOK
  <2>1. \A p \in AllProducers : inactive[p] => isExplicit[p] /\ p <= created
    <3>1. \A p \in AllProducers : (inactive[p] <=> p \in 1 .. old.made)
                                  /\ (isExplicit[p] <=> p \in 1 .. old.made)
      BY <1>1, Zenon
    <3>2. \A p \in 1 .. old.made : p <= created
      BY <1>1, <1>2, <1>3
    <3> QED BY <3>1, <3>2
  <2> QED BY <1>10, <2>1 DEF OwnersOK
<1> QED BY <1>6, <1>7, <1>8, <1>9, <1>11 DEF OwnersInv

(* OwnersInv is inductive.                                                 *)
THEOREM OwnersInvariant == Spec => []OwnersInv
<1>1. Init => OwnersInv
  BY InitOwnersInv
<1>2. OwnersInv /\ [Next]_vars => OwnersInv'
  <2> SUFFICES ASSUME OwnersInv, [Next]_vars PROVE OwnersInv'
    OBVIOUS
  <2>1. ASSUME NEW a \in Actors, ProducerSteps(a) PROVE OwnersInv'
    BY <2>1, VisitKeeps, CreateKeeps, LinkKeeps DEF ProducerSteps
  <2>2. ASSUME NEW t \in Threads, Enqueue(t) \/ ThreadSteps(t) PROVE OwnersInv'
    <3>1. t \in Actors
      BY DEF Actors
    <3> QED BY <2>1, <2>2, <3>1, EnqueueKeeps, LookUpKeeps, GrowKeeps, ResizeKeeps, RoomKeeps,
               InsertKeeps, NotMadeKeeps, PutKeeps DEF ThreadSteps
  <2>3. ASSUME NEW k \in Tokens,
               Construct(k) \/ TokenSteps(k) \/ TokenEnqueue(k) \/ Destroy(k)
        PROVE  OwnersInv'
    <3>1. k \in Actors
      BY DEF Actors
    <3> QED BY <2>1, <2>3, <3>1, ConstructKeeps, RecycleKeeps, ConstructedKeeps, PutKeeps,
               TokenEnqueueKeeps, DestroyKeeps DEF TokenSteps
  <2>4. ASSUME NEW k \in Tokens, NEW l \in (Tokens \intersect cast) \ {k}, Swap(k, l)
        PROVE  OwnersInv'
    BY <2>4, SwapKeeps
  <2>5. CASE Produce
    BY <2>2, <2>3, <2>4, <2>5 DEF Produce
  <2>6. CASE \E c \in Consumers \intersect cast : Consume(c)
    BY <2>6, ConsumersKeep, ProducersKept
  <2>7. CASE UNCHANGED vars
    BY <2>7, ProducersKept DEF vars, producerVars
  <2> QED BY <2>5, <2>6, <2>7 DEF Next
<1> QED BY <1>1, <1>2, PTL DEF Spec

(* A sub-queue has at most one producer, of the right kind and active: two *)
(* tokens never recycle the same one, and a thread that meets its key in   *)
(* several hash tables meets the same producer.                            *)
THEOREM SubQueuesAreNotShared == Spec => []OneOwner
<1>1. OwnersInv => OneOwner
  <2> SUFFICES ASSUME OwnersInv PROVE OneOwner
    OBVIOUS
  <2>1. ASSUME NEW a \in Actors PROVE Cardinality(OwnedBy(a)) <= 1
    <3>1. CASE OwnedBy(a) = {}
      BY <3>1, FS_EmptySet
    <3>2. CASE OwnedBy(a) # {}
      <4>1. PICK p : p \in OwnedBy(a)
        BY <3>2
      <4>2. OwnedBy(a) = {p}
        BY <4>1 DEF OwnersInv, OwnersOK
      <4>3. Cardinality({p}) = 1
        BY FS_Singleton
      <4> QED BY <4>2, <4>3
    <3> QED BY <3>1, <3>2
  <2>2. ASSUME NEW a \in Actors, NEW p \in OwnedBy(a)
        PROVE  isExplicit[p] = (a \in Tokens) /\ ~inactive[p]
    <3>1. p \in 1 .. created /\ (isExplicit[p] <=> a \in Tokens) /\ ~inactive[p]
      BY DEF OwnersInv, OwnersOK
    <3>2. p \in AllProducers
      BY <3>1, ProducersAssumption DEF OwnersInv, ListOK, AllProducers
    <3>3. isExplicit[p] \in BOOLEAN
      BY <3>2 DEF OwnersInv, ListOK
    <3> QED BY <3>1, <3>3
  <2>3. ASSUME NEW a \in Actors, NEW b \in Actors, a # b
        PROVE  OwnedBy(a) \intersect OwnedBy(b) = {}
    BY <2>3 DEF OwnersInv, OwnersOK
  <2> QED BY <2>1, <2>2, <2>3 DEF OneOwner, Actors
<1> QED BY <1>1, OwnersInvariant, PTL

(* An element is only ever put into a sub-queue that its thread or token   *)
(* owns at that moment.                                                    *)
THEOREM PutsAreSafe == Spec => []PutsIntoItsOwn
<1>1. OwnersInv => PutsIntoItsOwn
  BY DEF OwnersInv
<1> QED BY <1>1, OwnersInvariant, PTL

-----------------------------------------------------------------------------
(***************************************************************************)
(* The hash tables have room.  A thread that has passed the test of its    *)
(* table, or has its key in it, is in Passed; one that has been counted    *)
(* and waits for room is in Waiting.  The counts of the threads that wait  *)
(* are not distinct, as a thread without memory gives its count back; what *)
(* holds is that any group of them, let in together, either leaves the     *)
(* table a free slot or has a member whose own count forbids it.           *)
(***************************************************************************)
Waiting == {t \in Threads : call[t].pc \in HashPcs}
InList(h) == {t \in Threads : call[t].pc \in ListPcs /\ call[t].main <= h}
KeyedBy(h) == {t \in Threads : \E g \in DOMAIN hashes : g <= h /\ HasKey(t, g)}
Passed(h) == InList(h) \union KeyedBy(h)
Counted == Waiting \union Passed(Len(hashes))

Quota(h) == hashes[h].capacity \div 2 + hashes[h].capacity \div 4

(* The tables hold threads, and each is at least as large as the older     *)
(* ones.                                                                   *)
CapacitiesOK ==
  /\ \A h \in DOMAIN hashes : /\ hashes[h].capacity \in Nat \ {0, 1}
                              /\ DOMAIN hashes[h].entries \subseteq Threads
  /\ \A g, h \in DOMAIN hashes : g <= h => hashes[g].capacity <= hashes[h].capacity

(* implicitProducerHashCount counts the threads that have a key or are on  *)
(* the way to one, and no thread recycles a producer.                      *)
CountsOK ==
  /\ implicitProducerHashCount = Cardinality(Counted)
  /\ \A t \in Threads : call[t].pc \in ListPcs => ~call[t].recycled

RoomOK ==
  \A h \in DOMAIN hashes : \A P \in SUBSET Waiting :
    \/ Cardinality(Passed(h) \union P) < Quota(h)
    \/ \E t \in P : Cardinality(Passed(h) \union P) <= call[t].newCount

HashInv == CapacitiesOK /\ CountsOK /\ RoomOK

(* Sets of threads are finite.                                             *)
LEMMA ThreadSets ==
  ASSUME NEW S, S \subseteq Threads
  PROVE  IsFiniteSet(S) /\ Cardinality(S) \in Nat
<1>1. IsFiniteSet(S)
  BY ProducersAssumption, FS_Subset
<1> QED BY <1>1, FS_CardinalityType

(* The sets of the invariant are sets of threads.                          *)
LEMMA AreThreads == /\ Waiting \subseteq Threads /\ Counted \subseteq Threads
                    /\ \A h : Passed(h) \subseteq Threads
BY DEF Waiting, Passed, InList, KeyedBy, Counted

(* A quota is a natural number, and a larger table has no smaller one.     *)
LEMMA Quotas ==
  ASSUME TablesOK, CapacitiesOK
  PROVE  /\ \A h \in DOMAIN hashes : Quota(h) \in Nat
         /\ \A g, h \in DOMAIN hashes : g <= h => Quota(g) <= Quota(h)
<1>1. \A m, n \in Nat : /\ m \div 2 + m \div 4 \in Nat
                       /\ m <= n => m \div 2 + m \div 4 <= n \div 2 + n \div 4
  OBVIOUS
<1> QED BY <1>1 DEF CapacitiesOK, Quota

(* A table with no more threads in it and before it has room as before.    *)
LEMMA RoomKept ==
  ASSUME HashInv, NEW h \in DOMAIN hashes, NEW A, A \subseteq Passed(h),
         NEW P, P \subseteq Waiting, TablesOK,
         \A t \in Waiting : call[t].newCount \in Int,
         \A t \in P : call'[t].newCount = call[t].newCount,
         NEW q \in Nat, Quota(h) <= q
  PROVE  \/ Cardinality(A \union P) < q
         \/ \E t \in P : Cardinality(A \union P) <= call'[t].newCount
<1>2. \/ Cardinality(Passed(h) \union P) < Quota(h)
      \/ \E t \in P : Cardinality(Passed(h) \union P) <= call[t].newCount
  BY DEF HashInv, RoomOK
<1>3. PICK B, C : B = Passed(h) \union P /\ C = A \union P
  OBVIOUS
<1>4. C \subseteq B /\ B \subseteq Threads
  BY <1>3, AreThreads
<1>5. Cardinality(C) <= Cardinality(B) /\ Cardinality(C) \in Nat /\ Cardinality(B) \in Nat
  BY <1>4, ThreadSets, FS_Subset
<1>6. Quota(h) \in Nat
  BY Quotas DEF HashInv
<1>7. CASE Cardinality(B) < Quota(h)
  BY <1>3, <1>5, <1>6, <1>7
<1>8. CASE \E t \in P : Cardinality(B) <= call[t].newCount
  <2>1. PICK t \in P : Cardinality(B) <= call[t].newCount
    BY <1>8
  <2>2. call'[t].newCount = call[t].newCount /\ call[t].newCount \in Int
    OBVIOUS
  <2>3. Cardinality(C) <= call'[t].newCount
    BY <1>5, <2>1, <2>2
  <2> QED BY <1>3, <2>3
<1> QED BY <1>2, <1>3, <1>7, <1>8

(* The calls of the threads that have been counted.                        *)
LEMMA CountTypes ==
  ASSUME OwnersInv
  PROVE  /\ Len(hashes) \in Nat \ {0} /\ DOMAIN hashes = 1 .. Len(hashes)
         /\ \A t \in Threads : call[t].pc \in HashPcs \union ListPcs =>
              /\ call[t].newCount \in Int /\ call[t].main \in DOMAIN hashes
              /\ \A h : t \notin KeyedBy(h)
<1>1. \A t \in Threads : CallOK(call[t]) /\ ThreadCall(t, call[t])
  BY DEF OwnersInv, CallsOK, KeysOK, Actors
<1>2. \A t \in Threads : call[t].pc \in HashPcs \union ListPcs =>
        call[t].newCount \in Int /\ call[t].main \in DOMAIN hashes
  BY <1>1 DEF CallOK, ThreadCall, HashCall, ListCall
<1>3. \A t \in Threads : call[t].pc \in HashPcs \union ListPcs => \A h : t \notin KeyedBy(h)
  BY <1>1 DEF ThreadCall, KeyedBy
<1>4. Len(hashes) \in Nat \ {0} /\ DOMAIN hashes = 1 .. Len(hashes)
  BY DEF OwnersInv, TablesOK
<1> QED BY <1>2, <1>3, <1>4

(* The places in the hash tables and in the list are not the same.         *)
LEMMA Places == /\ HashPcs \intersect ListPcs = {} /\ Idle.pc \notin HashPcs \union ListPcs
                /\ "lookUp" \notin HashPcs \union ListPcs
                /\ "enqueue" \notin HashPcs \union ListPcs
BY DEF HashPcs, ListPcs, LinkPcs, Idle

(* What depends on the hash tables alone.                                  *)
LEMMA TablesSame ==
  ASSUME hashes' = hashes, CapacitiesOK
  PROVE  CapacitiesOK' /\ \A h : KeyedBy(h)' = KeyedBy(h) /\ Quota(h)' = Quota(h)
<1>1. CapacitiesOK'
  BY DEF CapacitiesOK
<1>2. \A h : Quota(h)' = Quota(h)
  BY DEF Quota
<1>3. ASSUME NEW h PROVE KeyedBy(h)' = KeyedBy(h)
  BY DEF KeyedBy, HasKey
<1> QED BY <1>1, <1>2, <1>3

(* A step in which no thread is counted or let in or gives up: the tables  *)
(* are as full as they were.                                               *)
LEMMA NothingMoves ==
  ASSUME OwnersInv, OwnersInv', HashInv, CapacitiesOK',
         DOMAIN hashes' = DOMAIN hashes, \A h \in DOMAIN hashes : Quota(h)' = Quota(h),
         implicitProducerHashCount' = implicitProducerHashCount,
         Waiting' = Waiting, \A h \in DOMAIN hashes : Passed(h)' = Passed(h),
         \A t \in Waiting : call'[t].newCount = call[t].newCount,
         \A t \in Threads : call'[t].pc \in ListPcs => ~call'[t].recycled
  PROVE  HashInv'
<1>1. Len(hashes') = Len(hashes) /\ Len(hashes) \in DOMAIN hashes
  BY DEF OwnersInv, TablesOK
<1>2. CountsOK'
  BY <1>1 DEF HashInv, CountsOK, Counted
<1>3. \A t \in Waiting : call[t].newCount \in Int
  BY CountTypes DEF Waiting
<1>4. RoomOK'
  <2>1. ASSUME NEW h \in DOMAIN hashes, NEW P \in SUBSET Waiting
        PROVE  \/ Cardinality(Passed(h) \union P) < Quota(h)
               \/ \E t \in P : Cardinality(Passed(h) \union P) <= call'[t].newCount
    <3>1. Quota(h) \in Nat /\ Quota(h) <= Quota(h) /\ TablesOK
      BY Quotas DEF HashInv, OwnersInv
    <3> QED BY <1>3, <3>1, RoomKept
  <2>2. ASSUME NEW h \in DOMAIN hashes', NEW P \in SUBSET Waiting'
        PROVE  \/ Cardinality(Passed(h)' \union P) < Quota(h)'
               \/ \E t \in P : Cardinality(Passed(h)' \union P) <= call'[t].newCount
    <3>1. h \in DOMAIN hashes /\ P \in SUBSET Waiting
      OBVIOUS
    <3>2. Passed(h)' = Passed(h) /\ Quota(h)' = Quota(h)
      BY <3>1
    <3> QED BY <2>1, <3>1, <3>2
  <2> QED BY <2>2 DEF RoomOK
<1> QED BY <1>2, <1>4 DEF HashInv

(* Such a step of a thread, or of others.                                  *)
Stays(t) ==
  \/ call'[t] = call[t]
  \/ /\ call[t].pc \in HashPcs /\ call'[t].pc \in HashPcs
     /\ call'[t].newCount = call[t].newCount
  \/ /\ call[t].pc \in ListPcs /\ call'[t].pc \in ListPcs
     /\ call'[t].main = call[t].main /\ call'[t].recycled = call[t].recycled
  \/ call[t].pc \notin HashPcs \union ListPcs /\ call'[t].pc \notin HashPcs \union ListPcs

(* It leaves the tables as full as they were.                              *)
LEMMA StaysKeeps ==
  ASSUME OwnersInv, OwnersInv', HashInv, UNCHANGED <<hashes, implicitProducerHashCount>>,
         \A t \in Threads : Stays(t)
  PROVE  HashInv'
<1>1. Waiting' = Waiting /\ \A t \in Waiting : call'[t].newCount = call[t].newCount
  BY Places DEF Waiting, Stays
<1>2. ASSUME NEW h PROVE InList(h)' = InList(h)
  BY Places DEF InList, Stays
<1>3. CapacitiesOK' /\ \A h : Passed(h)' = Passed(h) /\ Quota(h)' = Quota(h)
  BY <1>2, TablesSame DEF HashInv, Passed
<1>4. \A t \in Threads : call'[t].pc \in ListPcs => ~call'[t].recycled
  BY Places DEF HashInv, CountsOK, Stays
<1> QED BY <1>1, <1>3, <1>4, NothingMoves

(* A thread gives up: there was no memory for a table or for a producer.   *)
LEMMA GivesUp ==
  ASSUME OwnersInv, OwnersInv', HashInv, NEW t \in Threads, call[t].pc \in HashPcs \union ListPcs,
         Goto(t, Idle), hashes' = hashes,
         implicitProducerHashCount' = implicitProducerHashCount - 1
  PROVE  HashInv'
<1>1. call'[t] = Idle /\ \A u \in Threads : u # t => call'[u] = call[u]
  BY DEF OwnersInv, CallsOK, Actors, Goto
<1>2. Waiting' = Waiting \ {t}
  BY <1>1, Places DEF Waiting
<1>3. ASSUME NEW h PROVE InList(h)' = InList(h) \ {t}
  BY <1>1, Places DEF InList
<1>4. CapacitiesOK' /\ \A h : KeyedBy(h)' = KeyedBy(h) /\ Quota(h)' = Quota(h)
  BY TablesSame DEF HashInv
<1>5. \A h : t \notin KeyedBy(h)
  BY CountTypes
<1>6. \A h : Passed(h)' = Passed(h) \ {t}
  BY <1>3, <1>4, <1>5 DEF Passed
<1>7. Counted' = Counted \ {t}
  BY <1>2, <1>6 DEF Counted
<1>8. t \in Counted
  <2>1. t \in Waiting \/ t \in InList(Len(hashes))
    BY CountTypes DEF Waiting, InList
  <2> QED BY <2>1 DEF Counted, Passed
<1>9. CountsOK'
  <2>1. IsFiniteSet(Counted)
    BY ThreadSets, AreThreads
  <2>2. Cardinality(Counted \ {t}) = Cardinality(Counted) - 1
    BY <1>8, <2>1, FS_RemoveElement
  <2>3. \A u \in Threads : call'[u].pc \in ListPcs => ~call'[u].recycled
    BY <1>1, Places DEF HashInv, CountsOK
  <2> QED BY <1>7, <2>2, <2>3 DEF HashInv, CountsOK
<1>10. RoomOK'
  <2> SUFFICES ASSUME NEW h \in DOMAIN hashes, NEW P \in SUBSET Waiting'
               PROVE  \/ Cardinality(Passed(h)' \union P) < Quota(h)
                      \/ \E u \in P : Cardinality(Passed(h)' \union P) <= call'[u].newCount
    BY <1>4 DEF RoomOK
  <2>1. P \subseteq Waiting /\ \A u \in P : call'[u].newCount = call[u].newCount
    BY <1>1, <1>2 DEF Waiting
  <2>2. \A u \in Waiting : call[u].newCount \in Int
    BY CountTypes DEF Waiting
  <2>3. Quota(h) \in Nat /\ Quota(h) <= Quota(h) /\ TablesOK
    BY Quotas DEF HashInv, OwnersInv
  <2>4. Passed(h)' \subseteq Passed(h)
    BY <1>6
  <2> QED BY <2>1, <2>2, <2>3, <2>4, RoomKept
<1> QED BY <1>4, <1>9, <1>10 DEF HashInv

(* A thread without a key is counted; its count covers all the others.     *)
LEMMA IsCounted ==
  ASSUME OwnersInv, OwnersInv', HashInv, NEW t \in Threads, call[t].pc = "lookUp",
         \A h \in DOMAIN hashes : ~HasKey(t, h), hashes' = hashes,
         implicitProducerHashCount' = implicitProducerHashCount + 1,
         NEW c, Goto(t, c), c.pc \in HashPcs, c.newCount = implicitProducerHashCount'
  PROVE  HashInv'
<1>1. call'[t] = c /\ \A u \in Threads : u # t => call'[u] = call[u]
  BY DEF OwnersInv, CallsOK, Actors, Goto
<1>2. Waiting' = Waiting \union {t} /\ t \notin Waiting
  BY <1>1, Places DEF Waiting
<1>3. ASSUME NEW h PROVE InList(h)' = InList(h) /\ t \notin InList(h)
  BY <1>1, Places DEF InList
<1>4. CapacitiesOK' /\ \A h : KeyedBy(h)' = KeyedBy(h) /\ Quota(h)' = Quota(h)
  BY TablesSame DEF HashInv
<1>5. \A h : t \notin KeyedBy(h)
  BY DEF KeyedBy
<1>6. \A h : Passed(h)' = Passed(h) /\ t \notin Passed(h)
  BY <1>3, <1>4, <1>5 DEF Passed
<1>7. implicitProducerHashCount' = Cardinality(Counted')
  <2>1. Counted' = Counted \union {t} /\ t \notin Counted
    BY <1>2, <1>6 DEF Counted
  <2>2. IsFiniteSet(Counted)
    BY ThreadSets, AreThreads
  <2>3. Cardinality(Counted \union {t}) = Cardinality(Counted) + 1
    BY <2>1, <2>2, FS_AddElement
  <2> QED BY <2>1, <2>3 DEF HashInv, CountsOK
<1>8. CountsOK'
  <2>1. \A u \in Threads : call'[u].pc \in ListPcs => ~call'[u].recycled
    BY <1>1, Places DEF HashInv, CountsOK
  <2> QED BY <1>7, <2>1 DEF CountsOK
<1>9. RoomOK'
  <2> SUFFICES ASSUME NEW h \in DOMAIN hashes, NEW P \in SUBSET Waiting'
               PROVE  \/ Cardinality(Passed(h) \union P) < Quota(h)
                      \/ \E u \in P : Cardinality(Passed(h) \union P) <= call'[u].newCount
    BY <1>4, <1>6 DEF RoomOK
  <2>1. CASE t \in P
    <3>1. Passed(h) \subseteq Passed(Len(hashes))
      BY CountTypes DEF Passed, InList, KeyedBy
    <3>2. Passed(h) \union P \subseteq Counted'
      BY <1>6, <3>1 DEF Counted
    <3>3. Counted' \subseteq Threads
      BY <1>2, <1>6, AreThreads DEF Counted
    <3>4. Cardinality(Passed(h) \union P) <= Cardinality(Counted')
      BY <3>2, <3>3, ThreadSets, FS_Subset
    <3> QED BY <1>1, <1>7, <2>1, <3>4
  <2>2. CASE t \notin P
    <3>1. P \in SUBSET Waiting
      BY <1>2, <2>2
    <3>2. \A u \in P : call'[u] = call[u]
      BY <1>1, <2>2, <3>1 DEF Waiting
    <3> QED BY <3>1, <3>2 DEF HashInv, RoomOK
  <2> QED BY <2>1, <2>2
<1> QED BY <1>4, <1>8, <1>9 DEF HashInv

(* A thread is let into the table it asked.                                *)
LEMMA IsLetIn ==
  ASSUME OwnersInv, OwnersInv', HashInv, NEW t \in Threads, call[t].pc \in HashPcs,
         call[t].newCount < Quota(call[t].main),
         UNCHANGED <<hashes, implicitProducerHashCount>>,
         NEW c, Goto(t, c), c.pc \in ListPcs, c.main = call[t].main, ~c.recycled
  PROVE  HashInv'
<1>1. call'[t] = c /\ \A u \in Threads : u # t => call'[u] = call[u]
  BY DEF OwnersInv, CallsOK, Actors, Goto
<1>2. Waiting' = Waiting \ {t} /\ t \in Waiting
  BY <1>1, Places DEF Waiting
<1>3. call[t].newCount \in Int /\ call[t].main \in DOMAIN hashes
  BY CountTypes
<1>4. CapacitiesOK' /\ \A h : KeyedBy(h)' = KeyedBy(h) /\ Quota(h)' = Quota(h)
  BY TablesSame DEF HashInv
<1>5. ASSUME NEW h, call[t].main <= h PROVE Passed(h)' = Passed(h) \union {t}
  <2>1. InList(h)' = InList(h) \union {t}
    BY <1>1, <1>5, Places DEF InList
  <2> QED BY <1>4, <2>1 DEF Passed
<1>6. ASSUME NEW h, ~(call[t].main <= h) PROVE Passed(h)' = Passed(h)
  <2>1. InList(h)' = InList(h)
    BY <1>1, <1>6, Places DEF InList
  <2> QED BY <1>4, <2>1 DEF Passed
<1>7. CountsOK'
  <2>1. call[t].main <= Len(hashes)
    BY <1>3, CountTypes
  <2>2. Counted' = Counted
    BY <1>2, <1>5, <2>1 DEF Counted
  <2>3. \A u \in Threads : call'[u].pc \in ListPcs => ~call'[u].recycled
    BY <1>1 DEF HashInv, CountsOK
  <2> QED BY <2>2, <2>3 DEF HashInv, CountsOK
<1>8. RoomOK'
  <2> SUFFICES ASSUME NEW h \in DOMAIN hashes, NEW P \in SUBSET Waiting'
               PROVE  \/ Cardinality(Passed(h)' \union P) < Quota(h)
                      \/ \E u \in P : Cardinality(Passed(h)' \union P) <= call'[u].newCount
    BY <1>4 DEF RoomOK
  <2>1. P \in SUBSET Waiting /\ t \notin P /\ \A u \in P : call'[u] = call[u]
    BY <1>1, <1>2 DEF Waiting
  <2>2. CASE call[t].main <= h
    <3>1. PICK Q : Q = P \union {t}
      OBVIOUS
    <3>3. Passed(h)' \union P = Passed(h) \union Q /\ Q \in SUBSET Waiting
      BY <1>2, <1>5, <2>1, <2>2, <3>1
    <3>4. \/ Cardinality(Passed(h) \union Q) < Quota(h)
          \/ \E u \in Q : Cardinality(Passed(h) \union Q) <= call[u].newCount
      BY <3>3 DEF HashInv, RoomOK
    <3>5. ASSUME Cardinality(Passed(h) \union Q) <= call[t].newCount
          PROVE  Cardinality(Passed(h) \union Q) < Quota(h)
      <4>1. Quota(call[t].main) <= Quota(h) /\ Quota(call[t].main) \in Nat /\ Quota(h) \in Nat
        BY <1>3, <2>2, Quotas DEF HashInv, OwnersInv
      <4>2. Cardinality(Passed(h) \union Q) \in Nat
        <5>1. Passed(h) \union Q \subseteq Threads
          BY <3>3, AreThreads
        <5> QED BY <5>1, ThreadSets
      <4> QED BY <1>3, <3>5, <4>1, <4>2
    <3> QED BY <2>1, <3>1, <3>3, <3>4, <3>5
  <2>3. CASE ~(call[t].main <= h)
    <3>1. Passed(h)' = Passed(h)
      BY <1>6, <2>3
    <3> QED BY <2>1, <3>1 DEF HashInv, RoomOK
  <2> QED BY <2>2, <2>3
<1> QED BY <1>4, <1>7, <1>8 DEF HashInv

(* A thread that has been let in, or has its key in an older table, gets   *)
(* its key into the table.                                                 *)
LEMMA IsKeyed ==
  ASSUME OwnersInv, OwnersInv', HashInv, NEW t \in Threads, NEW m \in DOMAIN hashes, NEW p,
         AddKey(m, t, p), implicitProducerHashCount' = implicitProducerHashCount,
         NEW c, Goto(t, c), c.pc = "enqueue", call[t].pc \notin HashPcs,
         call[t].pc \in ListPcs => call[t].main = m,
         \A h \in DOMAIN hashes : m <= h => t \in Passed(h)
  PROVE  HashInv'
<1>1. call'[t] = c /\ \A u \in Threads : u # t => call'[u] = call[u]
  BY DEF OwnersInv, CallsOK, Actors, Goto
<1>2. Waiting' = Waiting /\ \A u \in Waiting : call'[u].newCount = call[u].newCount
  BY <1>1, Places DEF Waiting
<1>3. ASSUME NEW h PROVE InList(h)' = InList(h) \ {t}
  BY <1>1, Places DEF InList
<1>4. /\ DOMAIN hashes' = DOMAIN hashes
      /\ \A u, h : HasKey(u, h)' <=> HasKey(u, h) \/ (u = t /\ h = m)
  BY AddKeyFacts DEF OwnersInv
<1>5. ASSUME NEW h \in DOMAIN hashes
      PROVE  /\ hashes'[h].capacity = hashes[h].capacity
             /\ DOMAIN hashes'[h].entries \subseteq DOMAIN hashes[h].entries \union {t}
  <2> DEFINE T == [u \in DOMAIN hashes[m].entries \union {t} |->
                    IF u = t THEN p ELSE hashes[m].entries[u]]
  <2>1. DOMAIN T = DOMAIN hashes[m].entries \union {t}
    OBVIOUS
  <2>2. hashes' = [hashes EXCEPT ![m].entries = T]
    BY DEF AddKey
  <2>3. DOMAIN hashes[h] = {"capacity", "entries"}
    BY DEF OwnersInv, TablesOK
  <2> HIDE DEF T
  <2> QED BY <2>1, <2>2, <2>3
<1>6. CapacitiesOK'
  BY <1>4, <1>5 DEF HashInv, CapacitiesOK
<1>7. \A h \in DOMAIN hashes : Quota(h)' = Quota(h)
  BY <1>5 DEF Quota
<1>8. ASSUME NEW h \in DOMAIN hashes PROVE Passed(h)' = Passed(h)
  <2>1. CASE m <= h
    <3>1. KeyedBy(h)' = KeyedBy(h) \union {t}
      BY <1>4, <2>1 DEF KeyedBy
    <3> QED BY <1>3, <1>8, <2>1, <3>1 DEF Passed
  <2>2. CASE ~(m <= h)
    <3>1. KeyedBy(h)' = KeyedBy(h)
      BY <1>4, <2>2 DEF KeyedBy
    <3>2. t \notin InList(h)
      BY <2>2 DEF InList
    <3> QED BY <1>3, <3>1, <3>2 DEF Passed
  <2> QED BY <2>1, <2>2
<1>9. \A u \in Threads : call'[u].pc \in ListPcs => ~call'[u].recycled
  BY <1>1, Places DEF HashInv, CountsOK
<1> QED BY <1>2, <1>4, <1>6, <1>7, <1>8, <1>9, NothingMoves

(* A new table is at least as large as the one it replaces.                *)
LEMMA Doubled == ASSUME NEW c \in Nat, NEW n \in Int, NEW d \in NewCapacity(c, n)
                 PROVE  d \in Nat /\ c <= d
BY DEF NewCapacity

(* A table replaces the last one: it is as full, and no smaller.           *)
LEMMA IsReplaced ==
  ASSUME OwnersInv, OwnersInv', HashInv, NEW t \in Threads, call[t].pc \in HashPcs,
         NEW d \in Nat, hashes[Len(hashes)].capacity <= d,
         hashes' = Append(hashes, [capacity |-> d, entries |-> <<>>]),
         implicitProducerHashCount' = implicitProducerHashCount,
         NEW c, Goto(t, c), c.pc \in HashPcs, c.newCount = call[t].newCount
  PROVE  HashInv'
<1>1. call'[t] = c /\ \A u \in Threads : u # t => call'[u] = call[u]
  BY DEF OwnersInv, CallsOK, Actors, Goto
<1>2. Waiting' = Waiting /\ \A u \in Waiting : call'[u].newCount = call[u].newCount
  BY <1>1, Places DEF Waiting
<1>3. ASSUME NEW h PROVE InList(h)' = InList(h)
  BY <1>1, Places DEF InList
<1>4. PICK n \in Nat \ {0} : n = Len(hashes)
  BY CountTypes
<1>5. DOMAIN hashes = 1 .. n
  BY <1>4, CountTypes
<1> DEFINE table == [capacity |-> d, entries |-> <<>>]
<1>6. table.capacity = d /\ DOMAIN table.entries = {}
  OBVIOUS
<1> HIDE DEF table
<1>7. /\ DOMAIN hashes' = 1 .. n + 1 /\ Len(hashes') = n + 1
      /\ hashes'[n + 1] = table /\ \A h \in 1 .. n : hashes'[h] = hashes[h]
  <2>1. hashes' = Append(hashes, table)
    BY DEF table
  <2> QED BY <1>4, <1>5, <2>1 DEF OwnersInv, TablesOK
<1>8. CapacitiesOK'
  <2>1. \A h \in 1 .. n : hashes[h].capacity <= d
    BY <1>4, <1>5 DEF HashInv, CapacitiesOK
  <2>2. d \in Nat \ {0, 1}
    BY <1>4, <1>5 DEF HashInv, CapacitiesOK
  <2>3. \A h \in DOMAIN hashes' : /\ hashes'[h].capacity \in Nat \ {0, 1}
                                 /\ DOMAIN hashes'[h].entries \subseteq Threads
    BY <1>5, <1>6, <1>7, <2>2 DEF HashInv, CapacitiesOK
  <2>4. \A g, h \in DOMAIN hashes' : g <= h => hashes'[g].capacity <= hashes'[h].capacity
    BY <1>5, <1>6, <1>7, <2>1 DEF HashInv, CapacitiesOK
  <2> QED BY <2>3, <2>4 DEF CapacitiesOK
<1>9. \A u, h : HasKey(u, h)' <=> HasKey(u, h)
  BY <1>5, <1>6, <1>7 DEF HasKey
<1>10. ASSUME NEW h \in 1 .. n PROVE Passed(h)' = Passed(h)
  <2>1. KeyedBy(h)' = KeyedBy(h)
    BY <1>5, <1>7, <1>9 DEF KeyedBy
  <2> QED BY <1>3, <2>1 DEF Passed
<1>11. Passed(n + 1)' = Passed(n)
  <2>1. KeyedBy(n + 1)' = KeyedBy(n)
    <3>1. \A u : ~HasKey(u, n + 1)
      BY <1>5 DEF HasKey
    <3> QED BY <1>5, <1>7, <1>9, <3>1 DEF KeyedBy
  <2>2. InList(n + 1) = InList(n)
    BY <1>5, CountTypes DEF InList
  <2>3. InList(n + 1)' = InList(n + 1)
    BY <1>3
  <2> QED BY <2>1, <2>2, <2>3 DEF Passed
<1>12. CountsOK'
  <2>1. Counted' = Counted
    <3>1. Passed(Len(hashes))' = Passed(n + 1)'
      BY <1>7
    <3> QED BY <1>2, <1>4, <1>11, <3>1 DEF Counted
  <2>2. \A u \in Threads : call'[u].pc \in ListPcs => ~call'[u].recycled
    BY <1>1, Places DEF HashInv, CountsOK
  <2> QED BY <2>1, <2>2 DEF HashInv, CountsOK
<1>13. RoomOK'
  <2>1. ASSUME NEW h \in DOMAIN hashes', NEW P \in SUBSET Waiting'
        PROVE  \/ Cardinality(Passed(h)' \union P) < Quota(h)'
               \/ \E u \in P : Cardinality(Passed(h)' \union P) <= call'[u].newCount
    <3>1. PICK g \in DOMAIN hashes : Passed(h)' = Passed(g) /\ (g = h \/ (g = n /\ h = n + 1))
      <4>1. CASE h = n + 1
        BY <1>5, <1>11, <4>1
      <4>2. CASE h # n + 1
        <5>1. h \in 1 .. n
          BY <1>7, <4>2
        <5> QED BY <1>5, <1>10, <5>1
      <4> QED BY <4>1, <4>2
    <3>2. g \in DOMAIN hashes' /\ g <= h /\ Quota(g)' = Quota(g)
      BY <1>5, <1>7, <3>1 DEF Quota
    <3>3. Quota(h)' \in Nat /\ Quota(g)' <= Quota(h)'
      <4>1. \A i, j \in Nat : /\ i \div 2 + i \div 4 \in Nat
                             /\ i <= j => i \div 2 + i \div 4 <= j \div 2 + j \div 4
        OBVIOUS
      <4>2. /\ hashes'[g].capacity \in Nat /\ hashes'[h].capacity \in Nat
            /\ hashes'[g].capacity <= hashes'[h].capacity
        BY <1>8, <3>2 DEF CapacitiesOK
      <4>3. PICK i, j \in Nat : i = hashes'[g].capacity /\ j = hashes'[h].capacity
        BY <4>2
      <4>4. PICK x, y : x = i \div 2 + i \div 4 /\ y = j \div 2 + j \div 4
        OBVIOUS
      <4>5. i <= j
        BY <4>2, <4>3
      <4>6. x \in Nat /\ y \in Nat /\ x <= y
        BY <4>1, <4>4, <4>5
      <4>7. Quota(g)' = x /\ Quota(h)' = y
        BY <4>3, <4>4 DEF Quota
      <4> QED BY <4>6, <4>7
    <3>4. Quota(g) <= Quota(h)'
      BY <3>2, <3>3
    <3>5. P \subseteq Waiting /\ Passed(h)' \subseteq Passed(g) /\ TablesOK
      BY <1>2, <3>1 DEF OwnersInv
    <3>6. \A u \in Waiting : call[u].newCount \in Int
      BY CountTypes DEF Waiting
    <3>7. \A u \in P : call'[u].newCount = call[u].newCount
      BY <1>2, <3>5
    <3>8. PICK A, q : A = Passed(h)' /\ q = Quota(h)'
      OBVIOUS
    <3>9. \/ Cardinality(A \union P) < q
          \/ \E u \in P : Cardinality(A \union P) <= call'[u].newCount
      BY <3>3, <3>4, <3>5, <3>6, <3>7, <3>8, RoomKept
    <3> QED BY <3>8, <3>9
  <2> QED BY <2>1 DEF RoomOK
<1> QED BY <1>8, <1>12, <1>13 DEF HashInv

(* LookUp counts the thread, or adds its key to the main table.            *)
LEMMA LookUpRoom ==
  ASSUME OwnersInv, OwnersInv', HashInv, NEW t \in Threads, LookUp(t) PROVE HashInv'
<1>1. /\ call[t].pc = "lookUp" /\ call[t].main \in DOMAIN hashes
      /\ \A h \in DOMAIN hashes : HasKey(t, h) => h <= call[t].main
      /\ Len(hashes) \in Nat /\ DOMAIN hashes = 1 .. Len(hashes)
  BY DEF LookUp, OwnersInv, KeysOK, ThreadCall, TablesOK
<1>2. \A h : h \in Known(t) <=> h \in DOMAIN hashes /\ HasKey(t, h)
  <2>1. \A h \in DOMAIN hashes : HasKey(t, h) => h \in 1 .. call[t].main
    BY <1>1
  <2>2. 1 .. call[t].main \subseteq DOMAIN hashes
    BY <1>1
  <2> QED BY <2>1, <2>2 DEF Known, HasKey
<1>3. CASE Known(t) = {}
  <2>1. /\ implicitProducerHashCount' = implicitProducerHashCount + 1
        /\ Goto(t, [pc |-> "grow", main |-> call[t].main, newCount |-> implicitProducerHashCount + 1])
        /\ hashes' = hashes
    BY <1>3 DEF LookUp
  <2>2. PICK c : c = [pc |-> "grow", main |-> call[t].main,
                      newCount |-> implicitProducerHashCount + 1]
    OBVIOUS
  <2>3. c.pc \in HashPcs /\ c.newCount = implicitProducerHashCount' /\ Goto(t, c)
    BY <2>1, <2>2 DEF HashPcs
  <2>4. \A h \in DOMAIN hashes : ~HasKey(t, h)
    BY <1>2, <1>3
  <2> QED BY <1>1, <2>1, <2>3, <2>4, IsCounted
<1>4. CASE Known(t) # {}
  <2>1. PICK h \in Known(t) :
          /\ AddKey(call[t].main, t, hashes[h].entries[t])
          /\ Goto(t, [pc |-> "enqueue", producer |-> hashes[h].entries[t]])
          /\ implicitProducerHashCount' = implicitProducerHashCount
    BY <1>4 DEF LookUp
  <2>2. PICK c : c = [pc |-> "enqueue", producer |-> hashes[h].entries[t]]
    OBVIOUS
  <2>3. c.pc = "enqueue" /\ Goto(t, c)
    BY <2>1, <2>2
  <2>4. \A g \in DOMAIN hashes : call[t].main <= g => t \in Passed(g)
    <3>1. h \in DOMAIN hashes /\ HasKey(t, h) /\ h <= call[t].main
      BY <1>1, <1>2
    <3> QED BY <1>1, <3>1 DEF Passed, KeyedBy
  <2> QED BY <1>1, <2>1, <2>3, <2>4, Places, IsKeyed
<1> QED BY <1>3, <1>4

(* A step of one actor that leaves the hash tables alone.                  *)
LEMMA OneMoves ==
  ASSUME OwnersInv, OwnersInv', HashInv, NEW a \in Actors, NEW c,
         Goto(a, c) \/ UNCHANGED call, UNCHANGED <<hashes, implicitProducerHashCount>>,
         a \in Threads => Stays(a)
  PROVE  HashInv'
<1>1. \A u \in Threads : u # a => call'[u] = call[u]
  BY DEF OwnersInv, CallsOK, Actors, Goto
<1>2. \A u \in Threads : Stays(u)
  BY <1>1 DEF Stays
<1> QED BY <1>2, StaysKeeps

(* Grow takes the resize lock or not: the thread still waits.              *)
LEMMA GrowRoom ==
  ASSUME OwnersInv, OwnersInv', HashInv, NEW t \in Threads, Grow(t) PROVE HashInv'
<1>1. PICK pc \in {"resize", "room"} : Goto(t, With(t, pc))
  BY DEF Grow
<1>2. t \in Actors /\ call[t].pc = "grow" /\ call[t] \in HashCall
  BY DEF Grow, OwnersInv, CallsOK, CallOK, Actors, HashPcs
<1>3. call'[t] = With(t, pc) /\ Goto(t, call'[t])
  BY <1>1, <1>2 DEF OwnersInv, CallsOK, Goto
<1>4. Stays(t)
  BY <1>2, <1>3 DEF Stays, With, HashPcs, HashCall
<1>5. UNCHANGED <<hashes, implicitProducerHashCount>>
  BY DEF Grow
<1> QED BY <1>2, <1>3, <1>4, <1>5, OneMoves

(* Resize adds a table, gives up, or finds the table replaced.             *)
LEMMA ResizeRoom ==
  ASSUME OwnersInv, OwnersInv', HashInv, NEW t \in Threads, Resize(t) PROVE HashInv'
<1>1. t \in Actors /\ call[t].pc = "resize" /\ call[t] \in HashCall
  BY DEF Resize, OwnersInv, CallsOK, CallOK, Actors, HashPcs
<1>2. "resize" \in HashPcs /\ "room" \in HashPcs
  BY DEF HashPcs
<1>3. \A m : LET c == [call[t] EXCEPT !.pc = "room", !.main = m]
             IN  c.pc = "room" /\ c.newCount = call[t].newCount
  BY <1>1 DEF HashCall
<1>4. CASE /\ \E d \in NewCapacity(hashes[Len(hashes)].capacity, call[t].newCount) :
                 hashes' = Append(hashes, [capacity |-> d, entries |-> <<>>])
           /\ Goto(t, [call[t] EXCEPT !.pc = "room", !.main = Len(hashes) + 1])
           /\ UNCHANGED implicitProducerHashCount
  <2>1. PICK d \in NewCapacity(hashes[Len(hashes)].capacity, call[t].newCount) :
          hashes' = Append(hashes, [capacity |-> d, entries |-> <<>>])
    BY <1>4
  <2>2. hashes[Len(hashes)].capacity \in Nat /\ call[t].newCount \in Int
    BY <1>1 DEF OwnersInv, TablesOK, HashInv, CapacitiesOK, HashCall
  <2>3. d \in Nat /\ hashes[Len(hashes)].capacity <= d
    BY <2>2, Doubled
  <2>4. PICK c : c = [call[t] EXCEPT !.pc = "room", !.main = Len(hashes) + 1]
    OBVIOUS
  <2>5. Goto(t, c) /\ c.pc \in HashPcs /\ c.newCount = call[t].newCount
    BY <1>2, <1>3, <1>4, <2>4
  <2> QED BY <1>1, <1>2, <1>4, <2>1, <2>3, <2>5, IsReplaced
<1>5. CASE /\ implicitProducerHashCount' = implicitProducerHashCount - 1
           /\ Goto(t, Idle) /\ UNCHANGED hashes
  BY <1>1, <1>2, <1>5, GivesUp
<1>6. CASE /\ Goto(t, [call[t] EXCEPT !.pc = "room", !.main = Len(hashes)])
           /\ UNCHANGED <<hashes, implicitProducerHashCount>>
  <2>1. PICK c : c = [call[t] EXCEPT !.pc = "room", !.main = Len(hashes)]
    OBVIOUS
  <2>2. Goto(t, c) /\ c.pc \in HashPcs /\ c.newCount = call[t].newCount
    BY <1>2, <1>3, <1>6, <2>1
  <2>3. call'[t] = c
    BY <1>1, <2>2 DEF OwnersInv, CallsOK, Goto
  <2>4. Stays(t)
    BY <1>1, <1>2, <2>2, <2>3 DEF Stays
  <2> QED BY <1>1, <1>6, <2>2, <2>4, OneMoves
<1> QED BY <1>4, <1>5, <1>6 DEF Resize

(* Room lets the thread in, or sends it back to look again.                *)
LEMMA RoomRoom ==
  ASSUME OwnersInv, OwnersInv', HashInv, NEW t \in Threads, Room(t) PROVE HashInv'
<1>1. t \in Actors /\ call[t].pc = "room" /\ call[t] \in HashCall
  BY DEF Room, OwnersInv, CallsOK, CallOK, Actors, HashPcs
<1>2. UNCHANGED <<hashes, implicitProducerHashCount>>
  BY DEF Room, hashVars
<1>3. CASE call[t].newCount < Quota(call[t].main)
  <2>1. Goto(t, Search(call[t].main, call[t].newCount))
    BY <1>3 DEF Room, Quota, Capacity
  <2>2. PICK c : c = Search(call[t].main, call[t].newCount)
    OBVIOUS
  <2>3. c.pc \in ListPcs /\ c.main = call[t].main /\ ~c.recycled
    BY <2>2 DEF Search, ListPcs
  <2>4. call[t].pc \in HashPcs
    BY <1>1 DEF HashPcs
  <2> QED BY <1>2, <1>3, <2>1, <2>2, <2>3, <2>4, IsLetIn
<1>4. CASE ~(call[t].newCount < Quota(call[t].main))
  <2>1. Goto(t, [call[t] EXCEPT !.pc = "grow", !.main = Len(hashes)])
    BY <1>4 DEF Room, Quota, Capacity
  <2>2. PICK c : c = [call[t] EXCEPT !.pc = "grow", !.main = Len(hashes)]
    OBVIOUS
  <2>3. c.pc = "grow" /\ c.newCount = call[t].newCount
    BY <1>1, <2>2 DEF HashCall
  <2>4. call'[t] = c
    BY <1>1, <2>1, <2>2 DEF OwnersInv, CallsOK, Goto
  <2>5. Stays(t)
    BY <1>1, <2>3, <2>4 DEF Stays, HashPcs
  <2> QED BY <1>1, <1>2, <2>1, <2>5, OneMoves
<1> QED BY <1>3, <1>4

(* Insert adds the key of a thread that was let in.                        *)
LEMMA InsertRoom ==
  ASSUME OwnersInv, OwnersInv', HashInv, NEW t \in Threads, Insert(t) PROVE HashInv'
<1>1. t \in Actors /\ call[t].pc = "made" /\ "made" \in ListPcs
  BY DEF Insert, Actors, ListPcs, LinkPcs
<1>2. call[t].main \in DOMAIN hashes /\ DOMAIN hashes = 1 .. Len(hashes) /\ Len(hashes) \in Nat
  BY <1>1, CountTypes
<1>3. ~call[t].recycled /\ implicitProducerHashCount \in Int
  BY <1>1 DEF HashInv, CountsOK, OwnersInv, ListOK
<1>4. implicitProducerHashCount' = implicitProducerHashCount
  BY <1>3 DEF Insert
<1>5. PICK c : c = [pc |-> "enqueue", producer |-> call[t].ptr]
  OBVIOUS
<1>6. c.pc = "enqueue" /\ Goto(t, c) /\ AddKey(call[t].main, t, call[t].ptr)
  BY <1>5 DEF Insert
<1>7. call[t].pc \notin HashPcs
  BY <1>1, Places
<1>8. \A h \in DOMAIN hashes : call[t].main <= h => t \in Passed(h)
  BY <1>1 DEF Passed, InList
<1> QED BY <1>2, <1>4, <1>6, <1>7, <1>8, IsKeyed

(* The steps in the list of producers, of threads and of tokens.           *)
LEMMA ListRoom ==
  ASSUME OwnersInv, OwnersInv', HashInv, NEW a \in Actors, ProducerSteps(a) PROVE HashInv'
<1>1. /\ call[a].pc \in {"visit", "create", "link", "push"} /\ call[a] \in ListCall
  <2>1. call[a].pc \in {"visit", "create", "link", "push"}
    BY DEF ProducerSteps, Visit, Create, LinkNext, Push
  <2> QED BY <2>1 DEF OwnersInv, CallsOK, CallOK, ListPcs, LinkPcs
<1>2. UNCHANGED <<hashes, implicitProducerHashCount>>
  BY DEF ProducerSteps, Visit, Create, LinkNext, Push, hashVars
<1>3. ASSUME NEW pc \in ListPcs, NEW ptr
      PROVE  /\ \A c \in {[call[a] EXCEPT !.pc = pc, !.ptr = ptr], [call[a] EXCEPT !.ptr = ptr],
                          With(a, pc)} :
                  /\ c.pc \in ListPcs /\ c.main = call[a].main
                  /\ c.recycled = call[a].recycled
  BY <1>1 DEF With, ListCall, ListPcs, LinkPcs
<1>4. ASSUME NEW c, Goto(a, c), c.pc \in ListPcs, c.main = call[a].main,
             c.recycled = call[a].recycled
      PROVE  HashInv'
  <2>1. call'[a] = c /\ call[a].pc \in ListPcs
    BY <1>1, <1>4 DEF OwnersInv, CallsOK, Goto, ListPcs, LinkPcs
  <2>2. Stays(a)
    BY <1>4, <2>1 DEF Stays
  <2> QED BY <1>2, <1>4, <2>2, OneMoves
<1>5. CASE UNCHANGED call
  BY <1>2, <1>5, OneMoves DEF Stays
<1>6. {"create", "recycle", "link", "none", "push", "made"} \subseteq ListPcs
  BY DEF ListPcs, LinkPcs
<1>7. CASE Visit(a)
  <2>1. \/ Goto(a, With(a, "create")) \/ Goto(a, With(a, "recycle"))
        \/ \E ptr : Goto(a, [call[a] EXCEPT !.ptr = ptr])
    BY <1>7 DEF Visit
  <2>2. CASE Goto(a, With(a, "create")) \/ Goto(a, With(a, "recycle"))
    BY <1>3, <1>4, <1>6, <2>2
  <2>3. CASE \E ptr : Goto(a, [call[a] EXCEPT !.ptr = ptr])
    <3>1. PICK ptr : Goto(a, [call[a] EXCEPT !.ptr = ptr])
      BY <2>3
    <3>2. PICK c : c = [call[a] EXCEPT !.ptr = ptr]
      OBVIOUS
    <3>3. c.pc \in ListPcs /\ c.main = call[a].main /\ c.recycled = call[a].recycled
      BY <1>3, <1>6, <3>2
    <3> QED BY <1>4, <3>1, <3>2, <3>3
  <2> QED BY <2>1, <2>2, <2>3
<1>8. CASE Create(a)
  <2>1. \/ Goto(a, [call[a] EXCEPT !.pc = "link", !.ptr = created + 1])
        \/ Goto(a, With(a, "none"))
    BY <1>8 DEF Create
  <2>2. CASE Goto(a, With(a, "none"))
    BY <1>3, <1>4, <1>6, <2>2
  <2>3. CASE Goto(a, [call[a] EXCEPT !.pc = "link", !.ptr = created + 1])
    <3>1. PICK c : c = [call[a] EXCEPT !.pc = "link", !.ptr = created + 1]
      OBVIOUS
    <3>2. c.pc \in ListPcs /\ c.main = call[a].main /\ c.recycled = call[a].recycled
      BY <1>3, <1>6, <3>1
    <3> QED BY <1>4, <2>3, <3>1, <3>2
  <2> QED BY <2>1, <2>2, <2>3
<1>9. CASE LinkNext(a) \/ Push(a)
  <2>1. UNCHANGED call \/ Goto(a, With(a, "push")) \/ Goto(a, With(a, "made"))
    BY <1>9 DEF LinkNext, Push
  <2> QED BY <1>3, <1>4, <1>5, <1>6, <2>1
<1> QED BY <1>7, <1>8, <1>9 DEF ProducerSteps

(* A call begins, or ends.                                                 *)
LEMMA CallRoom ==
  ASSUME OwnersInv, OwnersInv', HashInv, NEW t \in Threads, Enqueue(t) \/ Put(t) PROVE HashInv'
<1>1. t \in Actors /\ UNCHANGED <<hashes, implicitProducerHashCount>>
      /\ call[t].pc \in {"idle", "enqueue"}
  BY DEF Actors, Enqueue, Put, hashVars
<1>2. Goto(t, [pc |-> "lookUp", main |-> Len(hashes)]) \/ Goto(t, Idle)
  BY DEF Enqueue, Put
<1>3. PICK c : Goto(t, c) /\ c.pc \in {"lookUp", "idle"}
  BY <1>2 DEF Idle
<1>4. call'[t] = c
  BY <1>1, <1>3 DEF OwnersInv, CallsOK, Goto
<1>5. Stays(t)
  BY <1>1, <1>3, <1>4 DEF Stays, HashPcs, ListPcs, LinkPcs
<1> QED BY <1>1, <1>3, <1>5, OneMoves

(* At first one empty table, and no thread is counted.                     *)
LEMMA InitHashInv == ASSUME Init, OwnersInv PROVE HashInv
<1> DEFINE table == [capacity |-> INITIAL_IMPLICIT_PRODUCER_HASH_SIZE, entries |-> <<>>]
<1>1. table.capacity = INITIAL_IMPLICIT_PRODUCER_HASH_SIZE /\ DOMAIN table.entries = {}
  OBVIOUS
<1>2. /\ hashes = <<table>> /\ implicitProducerHashCount = 0
      /\ call = [a \in Threads \union Tokens |-> Idle]
  BY DEF Init, ProducersInit
<1> HIDE DEF table
<1>3. hashes[1] = table /\ DOMAIN hashes = {1} /\ Len(hashes) = 1
  BY <1>2
<1>4. Waiting = {} /\ \A h : Passed(h) = {}
  <2>1. \A t \in Threads : call[t].pc \notin HashPcs \union ListPcs
    BY <1>2, Places
  <2>2. \A t, h : ~HasKey(t, h)
    BY <1>1, <1>3 DEF HasKey
  <2>3. Waiting = {} /\ \A h : InList(h) = {}
    BY <2>1 DEF Waiting, InList
  <2>4. \A h : KeyedBy(h) = {}
    BY <2>2 DEF KeyedBy
  <2> QED BY <2>3, <2>4 DEF Passed
<1>5. CapacitiesOK
  BY <1>1, <1>3, ProducersAssumption DEF CapacitiesOK
<1>6. CountsOK
  <2>1. Counted = {} /\ Cardinality({}) = 0
    BY <1>4, FS_EmptySet DEF Counted
  <2>2. \A t \in Threads : call[t].pc \notin ListPcs
    BY <1>2, Places
  <2> QED BY <1>2, <2>1, <2>2 DEF CountsOK
<1>7. RoomOK
  <2>1. Cardinality({}) = 0
    BY FS_EmptySet
  <2>2. \A m \in Nat \ {0, 1} : 0 < m \div 2 + m \div 4
    OBVIOUS
  <2>3. \A h \in DOMAIN hashes : 0 < Quota(h)
    BY <1>5, <2>2 DEF CapacitiesOK, Quota
  <2>4. \A h \in DOMAIN hashes : \A P \in SUBSET Waiting : Passed(h) \union P = {}
    BY <1>4
  <2> QED BY <2>1, <2>3, <2>4 DEF RoomOK
<1> QED BY <1>5, <1>6, <1>7 DEF HashInv

(* HashInv is inductive, given OwnersInv.                                  *)
THEOREM HashInvariant == Spec => []HashInv
<1>1. Init /\ OwnersInv => HashInv
  BY InitHashInv
<1>2. OwnersInv /\ OwnersInv' /\ HashInv /\ [Next]_vars => HashInv'
  <2> SUFFICES ASSUME OwnersInv, OwnersInv', HashInv, [Next]_vars PROVE HashInv'
    OBVIOUS
  <2>1. ASSUME NEW t \in Threads, Enqueue(t) \/ ThreadSteps(t) PROVE HashInv'
    <3>1. t \in Actors
      BY DEF Actors
    <3>2. CASE NotMade(t)
      <4>1. /\ call[t].pc \in ListPcs /\ Goto(t, Idle) /\ hashes' = hashes
            /\ implicitProducerHashCount' = implicitProducerHashCount - 1
        BY <3>2 DEF NotMade, ListPcs
      <4> QED BY <4>1, GivesUp
    <3> QED BY <2>1, <3>1, <3>2, LookUpRoom, GrowRoom, ResizeRoom, RoomRoom, ListRoom, InsertRoom,
               CallRoom DEF ThreadSteps
  <2>2. ASSUME UNCHANGED <<hashes, implicitProducerHashCount>>,
               \A t \in Threads : call'[t] = call[t]
        PROVE  HashInv'
    <3>1. \A t \in Threads : Stays(t)
      BY <2>2 DEF Stays
    <3> QED BY <2>2, <3>1, StaysKeeps
  <2>3. ASSUME NEW k \in Tokens,
               Construct(k) \/ TokenSteps(k) \/ TokenEnqueue(k) \/ Destroy(k)
                 \/ \E l \in (Tokens \intersect cast) \ {k} : Swap(k, l)
        PROVE  HashInv'
    <3>1. CASE ProducerSteps(k)
      BY <3>1, ListRoom DEF Actors
    <3>2. CASE ~ProducerSteps(k)
      <4>1. /\ UNCHANGED <<hashes, implicitProducerHashCount>>
            /\ UNCHANGED call \/ \E c : Goto(k, c)
        BY <2>3, <3>2 DEF Construct, TokenSteps, TokenEnqueue, Destroy, Swap, Recycle, Constructed,
                          Put, hashVars
      <4>2. \A t \in Threads : call'[t] = call[t]
        BY <4>1, ProducersAssumption DEF OwnersInv, CallsOK, Actors, Goto
      <4> QED BY <2>2, <4>1, <4>2
    <3> QED BY <3>1, <3>2
  <2>4. CASE Produce
    BY <2>1, <2>3, <2>4 DEF Produce
  <2>5. CASE \E c \in Consumers \intersect cast : Consume(c)
    BY <2>2, <2>5, ConsumersKeep DEF hashVars
  <2>6. CASE UNCHANGED vars
    BY <2>2, <2>6 DEF vars, producerVars, hashVars
  <2> QED BY <2>4, <2>5, <2>6 DEF Next
<1> QED BY <1>1, <1>2, OwnersInvariant, PTL DEF Spec

(* A hash table always has a free slot for the next probe to end at, even  *)
(* when several threads have passed the test of the table and have not yet *)
(* added their keys, when threads that had no memory have given their      *)
(* counts back, and when keys come from older tables.                      *)
THEOREM HashTablesHaveRoom == Spec => []FreeSlotInHash
<1>1. OwnersInv /\ HashInv => FreeSlotInHash
  <2> SUFFICES ASSUME OwnersInv, HashInv, NEW h \in DOMAIN hashes
               PROVE  Cardinality(DOMAIN hashes[h].entries) < Quota(h)
    BY DEF FreeSlotInHash, Quota
  <2>1. Cardinality(Passed(h)) < Quota(h)
    <3>1. {} \in SUBSET Waiting /\ Passed(h) \union {} = Passed(h)
      OBVIOUS
    <3> QED BY <3>1 DEF HashInv, RoomOK
  <2>2. DOMAIN hashes[h].entries \subseteq Passed(h)
    <3>1. h <= h
      BY CountTypes
    <3>2. DOMAIN hashes[h].entries \subseteq Threads
      BY DEF HashInv, CapacitiesOK
    <3> QED BY <3>1, <3>2 DEF Passed, KeyedBy, HasKey
  <2>3. /\ Cardinality(DOMAIN hashes[h].entries) <= Cardinality(Passed(h))
        /\ Cardinality(DOMAIN hashes[h].entries) \in Nat /\ Cardinality(Passed(h)) \in Nat
    BY <2>2, AreThreads, ThreadSets, FS_Subset
  <2>4. Quota(h) \in Nat
    BY Quotas DEF OwnersInv, HashInv
  <2> QED BY <2>1, <2>3, <2>4
<1> QED BY <1>1, OwnersInvariant, HashInvariant, PTL

-----------------------------------------------------------------------------
(***************************************************************************)
(* The divisor of a rotation.  update_current_producer_after_rotation      *)
(* divides by producerCount, which it loads after the tail of the list.    *)
(***************************************************************************)

(* A rotation never divides by zero: producerCount counts a producer       *)
(* before it is in the list, and never goes down.                          *)
DivisorNotZero == \A c \in Consumers : scan[c].pc = "rotateTo" => producerCount > 0

TokenFields == {"initialOffset", "lastKnownGlobalOffset", "itemsConsumedFromCurrent",
                "currentProducer", "desiredProducer"}
TokenPcs == {"rotate", "rotateTo", "current", "around", "ring"}

(* The scan c of a dequeue, and the token t it is made with.               *)
ScanOK(c, t) ==
  /\ "pc" \in DOMAIN c
  /\ c.pc \in TokenPcs => DOMAIN t = TokenFields
  /\ c.pc = "rotateTo" => created > 0

(* A token that has a desired producer was made for one that exists.       *)
ConsumerTokenOK(t) ==
  \/ t = NoToken
  \/ DOMAIN t = TokenFields /\ (t.desiredProducer # NoProducer => created > 0)

RotationInv ==
  /\ producerCount = created
  /\ producerListTail # NoProducer => created > 0
  /\ scan = [c \in Consumers |-> scan[c]]
  /\ consumerToken = [c \in Consumers |-> consumerToken[c]]
  /\ \A c \in Consumers : ScanOK(scan[c], consumerToken[c]) /\ ConsumerTokenOK(consumerToken[c])

(* A step of one consumer: its scan and its token are as they should be.   *)
LEMMA ScanStep ==
  ASSUME RotationInv, NEW c \in Consumers, UNCHANGED listVars,
         NEW s, Continue(c, s), NEW t,
         \/ consumerToken' = [consumerToken EXCEPT ![c] = t]
         \/ consumerToken' = consumerToken /\ t = consumerToken[c],
         ScanOK(s, t), ConsumerTokenOK(t)
  PROVE  RotationInv'
<1>1. UNCHANGED <<created, producerCount, producerListTail>>
  BY DEF listVars
<1>2. /\ scan' = [d \in Consumers |-> scan'[d]] /\ scan'[c] = s
      /\ \A d \in Consumers : d # c => scan'[d] = scan[d]
  BY DEF RotationInv, Continue
<1>3. /\ consumerToken' = [d \in Consumers |-> consumerToken'[d]] /\ consumerToken'[c] = t
      /\ \A d \in Consumers : d # c => consumerToken'[d] = consumerToken[d]
  BY DEF RotationInv
<1>4. ASSUME NEW d \in Consumers
      PROVE  /\ ScanOK(scan[d], consumerToken[d])' /\ ConsumerTokenOK(consumerToken[d])'
  <2>1. /\ ScanOK(scan'[d], consumerToken'[d]) /\ ConsumerTokenOK(consumerToken'[d])
    BY <1>2, <1>3 DEF RotationInv
  <2> QED BY <1>1, <2>1 DEF ScanOK, ConsumerTokenOK
<1> QED BY <1>1, <1>2, <1>3, <1>4 DEF RotationInv

(* The dequeues without a token.                                           *)
LEMMA ScanKeeps ==
  ASSUME RotationInv, NEW c \in Consumers,
         \/ TryDequeue(c) \/ \E max \in Maxes : TryDequeueBulk(c, max)
         \/ SizeUp(c) \/ SizedUp(c) \/ Best(c) \/ All(c) \/ AllTried(c) \/ Fail(c)
  PROVE  RotationInv'
<1>1. UNCHANGED <<listVars, consumerToken>>
  BY DEF TryDequeue, TryDequeueBulk, SizeUp, SizedUp, Best, All, AllTried, Fail, UnchangedElse
<1>2. "pc" \in DOMAIN scan[c] /\ ConsumerTokenOK(consumerToken[c])
  BY DEF RotationInv, ScanOK
<1>3. \A r, u : "pc" \in DOMAIN End(r, u) /\ End(r, u).pc \in {"failed", "idle"}
  BY DEF End, Idle
<1>4. "pc" \in DOMAIN Idle /\ Idle.pc = "idle"
  BY DEF Idle
<1>5. ASSUME NEW s, Continue(c, s), "pc" \in DOMAIN s,
             s.pc \in {"idle", "size", "best", "all", "failed"}
      PROVE  RotationInv'
  <2>1. ScanOK(s, consumerToken[c])
    BY <1>5 DEF ScanOK, TokenPcs
  <2> QED BY <1>1, <1>2, <1>5, <2>1, ScanStep
<1>6. CASE TryDequeue(c)
  BY <1>5, <1>6 DEF TryDequeue
<1>7. CASE \E max \in Maxes : TryDequeueBulk(c, max)
  BY <1>5, <1>7 DEF TryDequeueBulk
<1>8. CASE SizeUp(c)
  <2>1. PICK p, b, n, m, u : Continue(c, [scan[c] EXCEPT !.ptr = p, !.best = b, !.bestSize = n,
                                                      !.nonEmptyCount = m, !.unseen = u])
    BY <1>8 DEF SizeUp
  <2>2. scan[c].pc = "size"
    BY <1>8 DEF SizeUp
  <2> QED BY <1>2, <1>5, <2>1, <2>2
<1>9. CASE SizedUp(c)
  BY <1>2, <1>3, <1>5, <1>9 DEF SizedUp
<1>10. CASE Best(c)
  BY <1>2, <1>4, <1>5, <1>10 DEF Best
<1>11. CASE All(c)
  BY <1>2, <1>4, <1>5, <1>11 DEF All
<1>12. CASE AllTried(c) \/ Fail(c)
  BY <1>3, <1>4, <1>5, <1>12 DEF AllTried, Fail
<1> QED BY <1>6, <1>7, <1>8, <1>9, <1>10, <1>11, <1>12

(* The dequeues with a token.  RotateTail goes on only with a tail, or     *)
(* with a producer that the token already wants.                           *)
LEMMA RotationKeeps ==
  ASSUME RotationInv, NEW c \in Consumers,
         \/ \E max \in Maxes : TokenDequeue(c, max)
         \/ RotateTail(c) \/ RotateTo(c) \/ Current(c) \/ Around(c) \/ Ring(c) \/ RingTried(c)
  PROVE  RotationInv'
<1>1. UNCHANGED listVars
  BY DEF TokenDequeue, RotateTail, RotateTo, Current, Around, Ring, RingTried, UnchangedElse
<1>2. /\ "pc" \in DOMAIN scan[c] /\ ConsumerTokenOK(consumerToken[c])
      /\ scan[c].pc \in TokenPcs => DOMAIN consumerToken[c] = TokenFields
      /\ scan[c].pc = "rotateTo" => created > 0
  BY DEF RotationInv, ScanOK
<1>3. \A r, u : "pc" \in DOMAIN End(r, u) /\ End(r, u).pc \notin TokenPcs
  BY DEF End, Idle, TokenPcs
<1>4. "pc" \in DOMAIN Idle /\ Idle.pc \notin TokenPcs
  BY DEF Idle, TokenPcs
<1>5. "rotateTo" \in TokenPcs /\ TokenPcs \ {"rotateTo"} = {"rotate", "current", "around", "ring"}
  BY DEF TokenPcs
<1>6. DOMAIN NoToken # TokenFields
  BY DEF NoToken, TokenFields
<1>7. ASSUME NEW s, Continue(c, s), "pc" \in DOMAIN s, consumerToken' = consumerToken,
             s.pc \in TokenPcs => DOMAIN consumerToken[c] = TokenFields,
             s.pc = "rotateTo" => created > 0
      PROVE  RotationInv'
  <2>1. ScanOK(s, consumerToken[c])
    BY <1>7 DEF ScanOK
  <2> QED BY <1>1, <1>2, <1>7, <2>1, ScanStep
<1>8. CASE \E max \in Maxes : TokenDequeue(c, max)
  <2>1. PICK s : /\ Continue(c, s) /\ "pc" \in DOMAIN s /\ s.pc \in {"rotate", "current"}
                 /\ consumerToken' = consumerToken /\ consumerToken[c] # NoToken
    BY <1>8 DEF TokenDequeue
  <2>2. DOMAIN consumerToken[c] = TokenFields
    BY <1>2, <2>1 DEF ConsumerTokenOK
  <2> QED BY <1>7, <2>1, <2>2
<1>9. CASE RotateTail(c)
  <2>1. scan[c].pc = "rotate" /\ consumerToken' = consumerToken
    BY <1>9 DEF RotateTail
  <2>2. DOMAIN consumerToken[c] = TokenFields /\ consumerToken[c] # NoToken
    BY <1>2, <1>5, <1>6, <2>1
  <2>3. CASE consumerToken[c].desiredProducer = NoProducer /\ producerListTail = NoProducer
    <3>1. Continue(c, End(scan[c], scan[c].unseen))
      BY <1>9, <2>3 DEF RotateTail
    <3> QED BY <1>3, <1>5, <1>7, <2>1, <3>1
  <2>4. CASE ~(consumerToken[c].desiredProducer = NoProducer /\ producerListTail = NoProducer)
    <3>1. Continue(c, [scan[c] EXCEPT !.pc = "rotateTo", !.tail = producerListTail])
      BY <1>9, <2>4 DEF RotateTail
    <3>2. created > 0
      BY <1>2, <2>2, <2>4 DEF ConsumerTokenOK, RotationInv
    <3> QED BY <1>2, <1>7, <2>1, <2>2, <3>1, <3>2
  <2> QED BY <2>3, <2>4
<1>10. CASE RotateTo(c)
  <2>1. scan[c].pc = "rotateTo" /\ Continue(c, [scan[c] EXCEPT !.pc = "current"])
    BY <1>10 DEF RotateTo
  <2>2. created > 0 /\ DOMAIN consumerToken[c] = TokenFields
    BY <1>2, <1>5, <2>1
  <2>3. PICK desired :
          consumerToken' = [consumerToken EXCEPT ![c] =
             [consumerToken[c] EXCEPT !.desiredProducer = desired, !.currentProducer = desired,
                                      !.lastKnownGlobalOffset = globalExplicitConsumerOffset,
                                      !.itemsConsumedFromCurrent = 0]]
    BY <1>10 DEF RotateTo
  <2>4. PICK t : t = [consumerToken[c] EXCEPT
                        !.desiredProducer = desired, !.currentProducer = desired,
                        !.lastKnownGlobalOffset = globalExplicitConsumerOffset,
                        !.itemsConsumedFromCurrent = 0]
    OBVIOUS
  <2>5. DOMAIN t = TokenFields
    BY <2>2, <2>4
  <2>6. PICK s : s = [scan[c] EXCEPT !.pc = "current"]
    OBVIOUS
  <2>7. ScanOK(s, t) /\ ConsumerTokenOK(t)
    BY <1>2, <2>2, <2>5, <2>6 DEF ScanOK, ConsumerTokenOK
  <2> QED BY <1>1, <2>1, <2>3, <2>4, <2>6, <2>7, ScanStep
<1>11. ASSUME NEW t, NEW s, Continue(c, s), DOMAIN consumerToken[c] = TokenFields,
              \/ consumerToken' = [consumerToken EXCEPT ![c] = t]
              \/ consumerToken' = consumerToken /\ t = consumerToken[c],
              DOMAIN t = DOMAIN consumerToken[c],
              t.desiredProducer = consumerToken[c].desiredProducer,
              "pc" \in DOMAIN s, s.pc # "rotateTo"
       PROVE  RotationInv'
  <2>1. ScanOK(s, t) /\ ConsumerTokenOK(t)
    BY <1>2, <1>6, <1>11 DEF ScanOK, ConsumerTokenOK
  <2> QED BY <1>1, <1>11, <2>1, ScanStep
<1>12. CASE Current(c)
  <2>1. scan[c].pc = "current"
    BY <1>12 DEF Current
  <2>2. DOMAIN consumerToken[c] = TokenFields
    BY <1>2, <1>5, <2>1
  <2>3. PICK items :
          consumerToken' = [consumerToken EXCEPT ![c].itemsConsumedFromCurrent = items]
    BY <1>12 DEF Current
  <2>4. PICK t : t = [consumerToken[c] EXCEPT !.itemsConsumedFromCurrent = items]
    OBVIOUS
  <2>5. /\ DOMAIN t = DOMAIN consumerToken[c]
        /\ t.desiredProducer = consumerToken[c].desiredProducer
    BY <2>2, <2>4 DEF TokenFields
  <2>6. consumerToken' = [consumerToken EXCEPT ![c] = t]
    BY <2>3, <2>4
  <2>7. PICK s : Continue(c, s) /\ "pc" \in DOMAIN s /\ s.pc # "rotateTo"
    <3>1. \/ Continue(c, Idle)
          \/ \E n, m, u : Continue(c, [scan[c] EXCEPT !.pc = "around", !.count = n, !.max = m,
                                                     !.unseen = u])
      BY <1>12 DEF Current
    <3>2. CASE Continue(c, Idle)
      BY <1>4, <1>5, <3>2
    <3>3. ASSUME NEW n, NEW m, NEW u,
                 Continue(c, [scan[c] EXCEPT !.pc = "around", !.count = n, !.max = m, !.unseen = u])
          PROVE  \E s : Continue(c, s) /\ "pc" \in DOMAIN s /\ s.pc # "rotateTo"
      <4>1. PICK s : s = [scan[c] EXCEPT !.pc = "around", !.count = n, !.max = m, !.unseen = u]
        OBVIOUS
      <4>2. "pc" \in DOMAIN s /\ s.pc = "around"
        BY <1>2, <4>1
      <4> QED BY <3>3, <4>1, <4>2
    <3> QED BY <3>1, <3>2, <3>3
  <2> QED BY <1>11, <2>2, <2>5, <2>6, <2>7
<1>13. CASE Around(c)
  BY <1>2, <1>5, <1>7, <1>13 DEF Around
<1>14. CASE Ring(c)
  <2>1. scan[c].pc = "ring"
    BY <1>14 DEF Ring
  <2>2. DOMAIN consumerToken[c] = TokenFields
    BY <1>2, <1>5, <2>1
  <2>3. PICK s : Continue(c, s) /\ "pc" \in DOMAIN s /\ s.pc # "rotateTo"
    <3>1. \/ Continue(c, Idle)
          \/ \E p, n, m, u : Continue(c, [scan[c] EXCEPT !.ptr = p, !.count = n, !.max = m,
                                                        !.unseen = u])
      BY <1>14 DEF Ring
    <3>2. CASE Continue(c, Idle)
      BY <1>4, <1>5, <3>2
    <3>3. ASSUME NEW q, NEW n, NEW m, NEW u,
                 Continue(c, [scan[c] EXCEPT !.ptr = q, !.count = n, !.max = m, !.unseen = u])
          PROVE  \E s : Continue(c, s) /\ "pc" \in DOMAIN s /\ s.pc # "rotateTo"
      <4>1. PICK s : s = [scan[c] EXCEPT !.ptr = q, !.count = n, !.max = m, !.unseen = u]
        OBVIOUS
      <4>2. "pc" \in DOMAIN s /\ s.pc = "ring"
        BY <1>2, <2>1, <4>1
      <4> QED BY <3>3, <4>1, <4>2
    <3> QED BY <3>1, <3>2, <3>3
  <2>4. \/ consumerToken' = consumerToken
        \/ \E p, n : consumerToken' = [consumerToken EXCEPT ![c].currentProducer = p,
                                                            ![c].itemsConsumedFromCurrent = n]
    BY <1>14 DEF Ring
  <2>5. CASE consumerToken' = consumerToken
    BY <1>11, <2>2, <2>3, <2>5
  <2>6. CASE \E p, n : consumerToken' = [consumerToken EXCEPT ![c].currentProducer = p,
                                                              ![c].itemsConsumedFromCurrent = n]
    <3>1. PICK p, n : consumerToken' = [consumerToken EXCEPT ![c].currentProducer = p,
                                                             ![c].itemsConsumedFromCurrent = n]
      BY <2>6
    <3>2. PICK t : t = [consumerToken[c] EXCEPT !.currentProducer = p,
                                                !.itemsConsumedFromCurrent = n]
      OBVIOUS
    <3>3. /\ DOMAIN t = DOMAIN consumerToken[c]
          /\ t.desiredProducer = consumerToken[c].desiredProducer
      BY <2>2, <3>2 DEF TokenFields
    <3>4. consumerToken' = [consumerToken EXCEPT ![c] = t]
      BY <3>1, <3>2 DEF RotationInv
    <3> QED BY <1>11, <2>2, <2>3, <3>3, <3>4
  <2> QED BY <2>4, <2>5, <2>6
<1>15. CASE RingTried(c)
  BY <1>3, <1>5, <1>7, <1>15 DEF RingTried
<1> QED BY <1>8, <1>9, <1>10, <1>12, <1>13, <1>14, <1>15

(* A consumer gets a token, which wants no producer yet.                   *)
LEMMA NewTokenKeeps ==
  ASSUME RotationInv, NEW c \in Consumers, NewConsumerToken(c)
  PROVE  RotationInv'
<1>1. UNCHANGED listVars /\ scan' = scan /\ scan[c].pc = "idle"
  BY DEF NewConsumerToken, producerVars
<1>2. PICK i, o : consumerToken' = [consumerToken EXCEPT ![c] =
         [initialOffset |-> i, lastKnownGlobalOffset |-> o, itemsConsumedFromCurrent |-> 0,
          currentProducer |-> NoProducer, desiredProducer |-> NoProducer]]
  BY DEF NewConsumerToken
<1>3. PICK t : t = [initialOffset |-> i, lastKnownGlobalOffset |-> o,
                    itemsConsumedFromCurrent |-> 0,
                    currentProducer |-> NoProducer, desiredProducer |-> NoProducer]
  OBVIOUS
<1>4. DOMAIN t = TokenFields /\ t.desiredProducer = NoProducer
  BY <1>3 DEF TokenFields
<1>5. ScanOK(scan[c], t) /\ ConsumerTokenOK(t)
  BY <1>1, <1>4 DEF ScanOK, ConsumerTokenOK, TokenPcs, RotationInv
<1>6. Continue(c, scan[c])
  BY <1>1 DEF Continue, RotationInv
<1> QED BY <1>1, <1>2, <1>3, <1>5, <1>6, ScanStep

(* A producer is counted before it is in the list.                         *)
LEMMA ProduceRotation ==
  ASSUME OwnersInv, RotationInv, Produce, UNCHANGED consumerVars
  PROVE  RotationInv'
<1>1. created \in Nat
  BY ProducersAssumption DEF OwnersInv, ListOK
<1>2. ASSUME NEW a \in Actors, Push(a) PROVE created > 0
  <2>1. call[a].pc \in LinkPcs
    BY <1>2 DEF Push, LinkPcs
  <2>2. call[a].ptr \in OwnedBy(a)
    BY <2>1, OwnedByLinking
  <2> QED BY <1>1, <2>2 DEF OwnersInv, OwnersOK
<1>3. /\ \/ UNCHANGED <<created, producerCount>>
         \/ created' = created + 1 /\ producerCount' = producerCount + 1
      /\ UNCHANGED producerListTail \/ created > 0
  <2>1. ASSUME NEW a \in Actors, ProducerSteps(a)
        PROVE  /\ \/ UNCHANGED <<created, producerCount>>
                  \/ created' = created + 1 /\ producerCount' = producerCount + 1
               /\ UNCHANGED producerListTail \/ created > 0
    <3>1. CASE Visit(a) \/ LinkNext(a)
      BY <3>1 DEF Visit, LinkNext, listVars
    <3>2. CASE Create(a)
      BY <3>2 DEF Create
    <3>3. CASE Push(a)
      <4>1. UNCHANGED <<created, producerCount>>
        BY <3>3 DEF Push
      <4> QED BY <1>2, <3>3, <4>1
    <3> QED BY <2>1, <3>1, <3>2, <3>3 DEF ProducerSteps
  <2>2. ASSUME NEW t \in Threads, Enqueue(t) \/ ThreadSteps(t), ~ProducerSteps(t)
        PROVE  UNCHANGED <<created, producerCount, producerListTail>>
    BY <2>2 DEF Enqueue, ThreadSteps, LookUp, Grow, Resize, Room, Insert, NotMade, Put, listVars
  <2>3. ASSUME NEW k \in Tokens, ~ProducerSteps(k),
               \/ Construct(k) \/ TokenSteps(k) \/ TokenEnqueue(k) \/ Destroy(k)
               \/ \E l \in (Tokens \intersect cast) \ {k} : Swap(k, l)
        PROVE  UNCHANGED <<created, producerCount, producerListTail>>
    BY <2>3 DEF Construct, TokenSteps, TokenEnqueue, Destroy, Swap, Recycle, Constructed, Put,
                listVars
  <2> QED BY <2>1, <2>2, <2>3 DEF Produce, Actors
<1>4. producerCount' = created' /\ (created > 0 => created' > 0)
  BY <1>1, <1>3 DEF RotationInv
<1>5. UNCHANGED <<scan, consumerToken>>
  BY DEF consumerVars
<1>6. \A c \in Consumers : ScanOK(scan[c], consumerToken[c])' /\ ConsumerTokenOK(consumerToken[c])'
  BY <1>4, <1>5 DEF RotationInv, ScanOK, ConsumerTokenOK
<1> QED BY <1>3, <1>4, <1>5, <1>6 DEF RotationInv

(* RotationInv is inductive, given OwnersInv.                              *)
THEOREM RotationInvariant == Spec => []RotationInv
<1>1. Init => RotationInv
  <2> SUFFICES ASSUME Init PROVE RotationInv
    OBVIOUS
  <2>1. PICK old \in Casts : producerListTail = old.made /\ producerCount = old.made /\ created = old.made
    BY DEF Init, ProducersInit
  <2>2. old.made \in Nat
    BY ProducersAssumption
  <2>3. /\ scan = [c \in Consumers |-> Idle] /\ consumerToken = [c \in Consumers |-> NoToken]
    BY DEF Init
  <2>4. ScanOK(Idle, NoToken) /\ ConsumerTokenOK(NoToken)
    BY DEF ScanOK, ConsumerTokenOK, Idle, TokenPcs
  <2> QED BY <2>1, <2>2, <2>3, <2>4 DEF RotationInv, NoProducer
<1>2. OwnersInv /\ RotationInv /\ [Next]_vars => RotationInv'
  <2> SUFFICES ASSUME OwnersInv, RotationInv, [Next]_vars PROVE RotationInv'
    OBVIOUS
  <2>1. CASE Produce /\ UNCHANGED consumerVars
    BY <2>1, ProduceRotation
  <2>2. ASSUME NEW c \in Consumers, Consume(c) PROVE RotationInv'
    BY <2>2, ScanKeeps, RotationKeeps, NewTokenKeeps DEF Consume, ConsumerSteps
  <2>3. CASE UNCHANGED vars
    <3>1. UNCHANGED <<created, producerCount, producerListTail, scan, consumerToken>>
      BY <2>3 DEF vars, producerVars, listVars, consumerVars
    <3> QED BY <3>1 DEF RotationInv, ScanOK, ConsumerTokenOK
  <2> QED BY <2>1, <2>2, <2>3 DEF Next
<1> QED BY <1>1, <1>2, OwnersInvariant, PTL DEF Spec

(* update_current_producer_after_rotation never divides by zero, although  *)
(* it loads producerCount after it has looked at the list, while producers *)
(* are being added.                                                        *)
THEOREM RotationsAreSafe == Spec => []DivisorNotZero
<1>1. RotationInv => DivisorNotZero
  BY DEF RotationInv, ScanOK, DivisorNotZero
<1> QED BY <1>1, RotationInvariant, PTL

-----------------------------------------------------------------------------
(***************************************************************************)
(* The producer list and the scans of it.  A walk along the list meets the *)
(* members of the list; a scan in progress has still to meet every producer *)
(* that it has not seen empty.  Both are stated with sets that no step along *)
(* the list leaves, so that no induction over the length of a walk is needed *)
(* except for Walk itself, and there it is over the least number at which it *)
(* would leave the list.                                                   *)
(***************************************************************************)

(* The producers that are in the list.                                     *)
Members == (1 .. created) \ Linking

(* The walks of From and of a ring, along next pointers that are given as  *)
(* a function: along the list, and from tail on at its end until cur.      *)
ClosedIn(nx, S) == \A q \in S \ {NoProducer} : nx[q] \in S
Path(nx, p) ==
  {q \in AllProducers : \A S \in SUBSET (0 .. MaxProducers) : p \in S /\ ClosedIn(nx, S) => q \in S}

Onwards(nx, p, tail) == IF nx[p] = NoProducer THEN tail ELSE nx[p]
ArcIn(nx, S, tail, cur) == \A q \in S \ {NoProducer, cur} : Onwards(nx, q, tail) \in S
Arc(nx, p, tail, cur) ==
  {q \in AllProducers :
     \A S \in SUBSET (0 .. MaxProducers) : p \in S /\ ArcIn(nx, S, tail, cur) => q \in S}

(* M is what a walk from tail meets: it leads nowhere else, meets all of   *)
(* it, and comes to an end.                                                *)
Inside(nx, M) == \A q \in M : nx[q] \in M \union {NoProducer}
Ends(nx, M) == \A T \in SUBSET M : T # {} /\ Inside(nx, T) => \E q \in T : nx[q] = NoProducer
Chain(nx, M, tail) ==
  tail \in M \union {NoProducer} /\ Inside(nx, M) /\ M \subseteq Path(nx, tail) /\ Ends(nx, M)

ListInv == Chain(next, Members, producerListTail)

ListFields == {"pc", "ptr", "best", "unseen", "count", "max"}
SizeFields == ListFields \union {"bestSize", "nonEmptyCount"}
RingFields == {"pc", "tail", "ptr", "unseen", "count", "max"}

(* What a scan s has still to see, at each of its places; nx are the next  *)
(* pointers, M the producers in the list, t the token.                     *)
SizeSees(s, nx, M) ==
  /\ SizeFields \subseteq DOMAIN s /\ s.unseen \subseteq M /\ s.ptr \in M \union {NoProducer}
  /\ s.nonEmptyCount \in Nat /\ s.bestSize \in Nat /\ s.count = 0 /\ s.max = 1
  /\ s.nonEmptyCount = 0 => s.bestSize = 0 /\ s.unseen \subseteq Path(nx, s.ptr)
  /\ s.nonEmptyCount > 0 => s.best \in M

BestSees(s, M) ==
  /\ SizeFields \subseteq DOMAIN s /\ s.unseen \subseteq M /\ s.best \in M
  /\ s.count = 0 /\ s.max = 1

AllSees(s, nx, M) ==
  /\ ListFields \subseteq DOMAIN s /\ s.ptr \in M \union {NoProducer}
  /\ s.unseen \subseteq Path(nx, s.ptr) /\ s.max \in Nat /\ s.count \in 0 .. s.max

TokenSees(s, M) ==
  /\ RingFields \subseteq DOMAIN s /\ s.unseen \subseteq M /\ s.count \in Nat /\ s.max \in Nat

RingSees(s, t, nx, M) ==
  /\ s.ptr \in M /\ s.tail \in M
  /\ s.count = 0 => s.unseen \subseteq Arc(nx, s.ptr, s.tail, t.currentProducer) \ {t.currentProducer}

ScanSees(s, t, nx, M) ==
  /\ s.pc \in {"idle", "size", "best", "all", "failed"} \union TokenPcs
  /\ s.pc = "size" => SizeSees(s, nx, M)
  /\ s.pc = "best" => BestSees(s, M)
  /\ s.pc = "all" => AllSees(s, nx, M)
  /\ s.pc \in TokenPcs => TokenSees(s, M)
  /\ s.pc = "rotate" => s.count = 0
  /\ s.pc = "rotateTo" => s.count = 0 /\ s.tail \in M
  /\ s.pc \in {"current", "around", "ring"} => t.desiredProducer # NoProducer
  /\ s.pc = "around" => t.currentProducer \notin s.unseen
  /\ s.pc = "ring" => RingSees(s, t, nx, M)
  /\ s.pc = "failed" => s.unseen = {}

(* A token wants producers of the list.                                    *)
Wants(t, M) ==
  t # NoToken =>
    /\ t.initialOffset \in Nat /\ t.lastKnownGlobalOffset \in Nat
    /\ t.desiredProducer # NoProducer => t.desiredProducer \in M /\ t.currentProducer \in M

ScansInv ==
  /\ size \in [AllProducers -> Nat]
  /\ nextExplicitConsumerId \in Nat /\ globalExplicitConsumerOffset \in Nat
  /\ \A c \in Consumers : /\ ScanSees(scan[c], consumerToken[c], next, Members)
                          /\ Wants(consumerToken[c], Members)

(* A set of numbers has a least one.                                       *)
LEMMA Least == ASSUME NEW T \in SUBSET Nat, T # {} PROVE \E m \in T : \A k \in T : m <= k
<1>1. PICK R : R = OpToRel(<, Nat)
  OBVIOUS
<1>2. IsWellFoundedOn(R, Nat)
  BY <1>1, NatLessThanWellFounded
<1>3. \A x, y \in Nat : <<y, x>> \in R <=> y < x
  BY <1>1 DEF OpToRel
<1>4. PICK x \in T : \A y \in T : ~(<<y, x>> \in R)
  BY <1>2, WFMin
<1>5. \A y \in T : ~(y < x) /\ y \in Nat /\ x \in Nat
  BY <1>3, <1>4
<1> QED BY <1>5

(* A step along the list leaves only the producer it starts from behind.   *)
LEMMA PathStep ==
  ASSUME NEW nx, NEW p \in AllProducers, NEW q \in Path(nx, p), q # p
  PROVE  q \in Path(nx, nx[p])
<1> SUFFICES ASSUME NEW S \in SUBSET (0 .. MaxProducers), nx[p] \in S, ClosedIn(nx, S)
             PROVE  q \in S
  BY DEF Path
<1>1. S \union {p} \in SUBSET (0 .. MaxProducers) /\ ClosedIn(nx, S \union {p})
  BY DEF ClosedIn, AllProducers
<1>2. q \in S \union {p}
  BY <1>1 DEF Path
<1> QED BY <1>2

(* Nothing comes after the end of the list.                                *)
LEMMA PathEnd == ASSUME NEW nx PROVE Path(nx, NoProducer) = {}
<1>1. {NoProducer} \in SUBSET (0 .. MaxProducers) /\ ClosedIn(nx, {NoProducer})
  BY ProducersAssumption DEF NoProducer, ClosedIn
<1> QED BY <1>1 DEF Path, AllProducers, NoProducer

(* A walk inside M does not depend on the pointers of other producers.     *)
LEMMA PathKept ==
  ASSUME NEW M \in SUBSET AllProducers, NEW nx, NEW ny, Inside(nx, M), \A q \in M : ny[q] = nx[q],
         NEW p \in M \union {NoProducer}
  PROVE  Path(nx, p) \subseteq Path(ny, p)
<1> SUFFICES ASSUME NEW q \in Path(nx, p), NEW S \in SUBSET (0 .. MaxProducers), p \in S,
                    ClosedIn(ny, S)
             PROVE  q \in S
  BY DEF Path
<1>1. PICK T : T = S \intersect (M \union {NoProducer})
  OBVIOUS
<1>2. T \in SUBSET (0 .. MaxProducers) /\ p \in T
  BY <1>1
<1>3. ClosedIn(nx, T)
  BY <1>1 DEF ClosedIn, Inside
<1>4. q \in T
  BY <1>2, <1>3 DEF Path
<1> QED BY <1>1, <1>4

(* A step along a ring leaves one producer behind.                         *)
LEMMA ArcStep ==
  ASSUME NEW nx, NEW p \in AllProducers, NEW tail, NEW cur, NEW q \in Arc(nx, p, tail, cur), q # p
  PROVE  q \in Arc(nx, Onwards(nx, p, tail), tail, cur)
<1> SUFFICES ASSUME NEW S \in SUBSET (0 .. MaxProducers), Onwards(nx, p, tail) \in S,
                    ArcIn(nx, S, tail, cur)
             PROVE  q \in S
  BY DEF Arc
<1>1. S \union {p} \in SUBSET (0 .. MaxProducers) /\ ArcIn(nx, S \union {p}, tail, cur)
  BY DEF ArcIn, AllProducers
<1>2. q \in S \union {p}
  BY <1>1 DEF Arc
<1> QED BY <1>2

(* A ring is over at the producer it began after.                          *)
LEMMA ArcEnd == ASSUME NEW nx, NEW tail, NEW cur \in AllProducers, NEW q \in Arc(nx, cur, tail, cur)
                PROVE  q = cur
<1>1. {cur} \in SUBSET (0 .. MaxProducers) /\ ArcIn(nx, {cur}, tail, cur)
  BY DEF ArcIn, AllProducers
<1> QED BY <1>1 DEF Arc

(* A ring inside M does not depend on the pointers of other producers.     *)
LEMMA ArcKept ==
  ASSUME NEW M \in SUBSET AllProducers, NEW nx, NEW ny, Inside(nx, M), \A q \in M : ny[q] = nx[q],
         NEW p \in M, NEW tail \in M, NEW cur
  PROVE  Arc(nx, p, tail, cur) \subseteq Arc(ny, p, tail, cur)
<1> SUFFICES ASSUME NEW q \in Arc(nx, p, tail, cur), NEW S \in SUBSET (0 .. MaxProducers), p \in S,
                    ArcIn(ny, S, tail, cur)
             PROVE  q \in S
  BY DEF Arc
<1>1. PICK T : T = S \intersect M
  OBVIOUS
<1>2. T \in SUBSET (0 .. MaxProducers) /\ p \in T
  BY <1>1
<1>3. ArcIn(nx, T, tail, cur)
  <2> SUFFICES ASSUME NEW r \in T \ {NoProducer, cur} PROVE Onwards(nx, r, tail) \in T
    BY DEF ArcIn
  <2>1. Onwards(ny, r, tail) \in S /\ ny[r] = nx[r] /\ nx[r] \in M \union {NoProducer}
    BY <1>1 DEF ArcIn, Inside
  <2> QED BY <1>1, <2>1 DEF Onwards
<1>4. q \in T
  BY <1>2, <1>3 DEF Arc
<1> QED BY <1>1, <1>4

(* A ring from the producer after cur on meets all the others: the list    *)
(* ends, so that the ring comes to the tail and from there to every        *)
(* producer.                                                               *)
LEMMA ArcStart ==
  ASSUME NEW M \in SUBSET AllProducers, NEW nx, NEW tail \in M, Chain(nx, M, tail),
         NEW cur \in M, NEW q \in M, q # cur
  PROVE  q \in Arc(nx, Onwards(nx, cur, tail), tail, cur)
<1> SUFFICES ASSUME NEW S \in SUBSET (0 .. MaxProducers), Onwards(nx, cur, tail) \in S,
                    ArcIn(nx, S, tail, cur)
             PROVE  q \in S
  BY DEF Arc
<1>0. NoProducer \notin M
  BY DEF AllProducers, NoProducer
<1>1. PICK T : T = (S \union {cur}) \intersect M
  OBVIOUS
<1>2. T \in SUBSET M /\ T # {}
  BY <1>1
<1>3. \A r \in T : Onwards(nx, r, tail) \in T
  <2> SUFFICES ASSUME NEW r \in T PROVE Onwards(nx, r, tail) \in T
    OBVIOUS
  <2>1. Onwards(nx, r, tail) \in S
    BY <1>0, <1>1 DEF ArcIn
  <2>2. Onwards(nx, r, tail) \in M
    BY <1>1 DEF Chain, Inside, Onwards
  <2> QED BY <1>1, <2>1, <2>2
<1>4. Inside(nx, T)
  BY <1>3 DEF Inside, Onwards
<1>5. PICK r \in T : nx[r] = NoProducer
  BY <1>2, <1>4 DEF Chain, Ends
<1>6. tail \in T
  BY <1>3, <1>5 DEF Onwards
<1>7. T \union {NoProducer} \in SUBSET (0 .. MaxProducers)
  BY <1>2, ProducersAssumption DEF AllProducers, NoProducer
<1>8. ClosedIn(nx, T \union {NoProducer})
  BY <1>4 DEF ClosedIn, Inside
<1>9. q \in Path(nx, tail)
  BY DEF Chain
<1>10. q \in T \union {NoProducer}
  BY <1>6, <1>7, <1>8, <1>9 DEF Path
<1> QED BY <1>0, <1>1, <1>10

(* The list is not changed by the pointers of producers outside it.        *)
LEMMA ChainKept ==
  ASSUME NEW M \in SUBSET AllProducers, NEW nx, NEW ny, NEW tail, Chain(nx, M, tail),
         \A q \in M : ny[q] = nx[q]
  PROVE  Chain(ny, M, tail)
<1>1. Inside(ny, M)
  BY DEF Chain, Inside
<1>2. M \subseteq Path(ny, tail)
  BY PathKept DEF Chain
<1>3. Ends(ny, M)
  <2> SUFFICES ASSUME NEW T \in SUBSET M, T # {}, Inside(ny, T)
               PROVE  \E q \in T : ny[q] = NoProducer
    BY DEF Ends
  <2>1. Inside(nx, T)
    BY DEF Inside
  <2> QED BY <2>1 DEF Chain, Ends
<1> QED BY <1>1, <1>2, <1>3 DEF Chain

(* A producer whose next pointer is the tail becomes the tail.             *)
LEMMA ChainPushed ==
  ASSUME NEW M \in SUBSET AllProducers, NEW nx, NEW tail, Chain(nx, M, tail),
         NEW p \in AllProducers, p \notin M, nx[p] = tail
  PROVE  Chain(nx, M \union {p}, p)
<1>0. NoProducer \notin AllProducers
  BY DEF AllProducers, NoProducer
<1>1. Inside(nx, M \union {p})
  BY DEF Chain, Inside
<1>2. M \union {p} \subseteq Path(nx, p)
  <2> SUFFICES ASSUME NEW q \in M \union {p}, NEW S \in SUBSET (0 .. MaxProducers), p \in S,
                      ClosedIn(nx, S)
               PROVE  q \in S
    BY DEF Path
  <2>1. tail \in S
    BY <1>0 DEF ClosedIn
  <2>2. q \in M => q \in Path(nx, tail)
    BY DEF Chain
  <2> QED BY <2>1, <2>2 DEF Path
<1>3. Ends(nx, M \union {p})
  <2> SUFFICES ASSUME NEW T \in SUBSET (M \union {p}), T # {}, Inside(nx, T)
               PROVE  \E q \in T : nx[q] = NoProducer
    BY DEF Ends
  <2>1. CASE T = {p}
    BY <2>1 DEF Inside, Chain
  <2>2. CASE T # {p}
    <3>1. T \ {p} \in SUBSET M /\ T \ {p} # {}
      BY <2>2
    <3>2. Inside(nx, T \ {p})
      BY <1>0 DEF Inside, Chain
    <3> QED BY <3>1, <3>2 DEF Chain, Ends
  <2> QED BY <2>1, <2>2
<1> QED BY <1>1, <1>2, <1>3 DEF Chain

(* The list of the producers 1..n, each after the one before it.           *)
LEMMA ChainMade ==
  ASSUME NEW n \in 0 .. MaxProducers, NEW nx, \A q \in 1 .. n : nx[q] = q - 1
  PROVE  Chain(nx, 1 .. n, n)
<1>0. n \in Nat /\ MaxProducers \in Nat /\ n <= MaxProducers
  BY ProducersAssumption
<1>1. n \in (1 .. n) \union {NoProducer} /\ Inside(nx, 1 .. n)
  BY <1>0 DEF Inside, NoProducer
<1>2. (1 .. n) \subseteq Path(nx, n)
  <2> SUFFICES ASSUME NEW q \in 1 .. n, NEW S \in SUBSET (0 .. MaxProducers), n \in S,
                      ClosedIn(nx, S), q \notin S
               PROVE  FALSE
    BY <1>0 DEF Path, AllProducers
  <2>1. PICK T : T = {k \in Nat : k < n /\ n - k \notin S}
    OBVIOUS
  <2>2. n - q \in T
    BY <1>0, <2>1
  <2>3. PICK m \in T : \A k \in T : m <= k
    BY <2>1, <2>2, Least
  <2>4. m \in Nat /\ m < n /\ n - m \notin S
    BY <2>1
  <2>5. m # 0
    BY <1>0, <2>4
  <2>6. m - 1 \in Nat /\ m - 1 < n /\ m - 1 \notin T
    BY <2>3, <2>4, <2>5
  <2>7. n - (m - 1) \in S
    BY <2>1, <2>6
  <2>8. n - (m - 1) \in 1 .. n
    BY <1>0, <2>4, <2>5
  <2>9. nx[n - (m - 1)] = n - m
    BY <1>0, <2>4, <2>8
  <2>10. nx[n - (m - 1)] \in S
    BY <2>7, <2>8 DEF ClosedIn, NoProducer
  <2> QED BY <2>4, <2>9, <2>10
<1>3. Ends(nx, 1 .. n)
  <2> SUFFICES ASSUME NEW T \in SUBSET (1 .. n), T # {}, Inside(nx, T)
               PROVE  \E q \in T : nx[q] = NoProducer
    BY DEF Ends
  <2>1. T \in SUBSET Nat
    OBVIOUS
  <2>2. PICK m \in T : \A k \in T : m <= k
    BY <2>1, Least
  <2>3. m \in 1 .. n /\ nx[m] = m - 1
    OBVIOUS
  <2>4. m - 1 \notin T
    BY <2>2, <2>3
  <2> QED BY <2>3, <2>4 DEF Inside
<1> QED BY <1>1, <1>2, <1>3 DEF Chain

(* Where a call has a producer that is not yet in the list.                *)
LinkingPcs == {"link", "push"}

(* A producer that is being linked is in Linking, and no other is.         *)
LEMMA LinkingIs == ASSUME NEW p PROVE p \in Linking <=> \E a \in Actors : call[a].pc \in LinkingPcs /\ p = call[a].ptr
  BY DEF Linking, Actors, LinkingPcs

(* A call that moves elsewhere links nothing and unlinks nothing.          *)
LEMMA SameLinking ==
  ASSUME CallsOK, NEW a \in Actors, NEW c, Goto(a, c),
         call[a].pc \notin LinkingPcs, c.pc \notin LinkingPcs
  PROVE  Linking' = Linking
<1>1. call'[a] = c /\ \A b \in Actors : b # a => call'[b] = call[b]
  BY DEF CallsOK, Goto
<1>2. ASSUME NEW p PROVE p \in Linking' <=> p \in Linking
  <2>1. p \in Linking' <=> \E b \in Actors : call'[b].pc \in LinkingPcs /\ p = call'[b].ptr
    BY DEF Linking, Actors, LinkingPcs
  <2> QED BY <1>1, <2>1, LinkingIs
<1> QED BY <1>2

(* The steps outside add_producer leave the list alone.                    *)
LEMMA OutsideList ==
  ASSUME OwnersInv, NEW a \in Actors, ~ProducerSteps(a),
         \/ a \in Threads /\ (Enqueue(a) \/ ThreadSteps(a))
         \/ a \in Tokens /\ (\/ Construct(a) \/ TokenSteps(a) \/ TokenEnqueue(a) \/ Destroy(a)
                             \/ \E l \in (Tokens \intersect cast) \ {a} : Swap(a, l))
  PROVE  UNCHANGED <<created, next, producerListTail>> /\ Linking' = Linking
<1>1. CallsOK /\ CallOK(call[a])
  BY DEF OwnersInv, CallsOK
<1>2. Idle.pc = "idle"
  BY DEF Idle
<1>3. ASSUME NEW c, Goto(a, c), call[a].pc \notin LinkingPcs, c.pc \notin LinkingPcs
      PROVE  Linking' = Linking
  BY <1>1, <1>3, SameLinking
<1>4. CASE Destroy(a) \/ \E l \in (Tokens \intersect cast) \ {a} : Swap(a, l)
  BY <1>4 DEF Destroy, Swap, listVars, Linking
<1>5. CASE Enqueue(a)
  <2>1. PICK c : Goto(a, c) /\ c.pc = "lookUp" /\ call[a].pc = "idle" /\ UNCHANGED listVars
    BY <1>5 DEF Enqueue
  <2> QED BY <1>3, <2>1 DEF listVars, LinkingPcs
<1>6. CASE LookUp(a)
  <2>1. PICK c : Goto(a, c) /\ c.pc \in {"enqueue", "grow"} /\ call[a].pc = "lookUp" /\ UNCHANGED listVars
    BY <1>6 DEF LookUp
  <2> QED BY <1>3, <2>1 DEF listVars, LinkingPcs
<1>7. CASE Grow(a)
  <2>1. call[a].pc = "grow" /\ call[a] \in HashCall
    BY <1>1, <1>7 DEF Grow, CallOK, HashPcs
  <2>2. PICK pc \in {"resize", "room"} : Goto(a, With(a, pc)) /\ UNCHANGED listVars
    BY <1>7 DEF Grow
  <2>3. With(a, pc).pc = pc
    BY <2>1 DEF With, HashCall
  <2> QED BY <1>3, <2>1, <2>2, <2>3 DEF listVars, LinkingPcs
<1>8. CASE Resize(a)
  <2>1. call[a].pc = "resize" /\ call[a] \in HashCall
    BY <1>1, <1>8 DEF Resize, CallOK, HashPcs
  <2>2. PICK m : Goto(a, [call[a] EXCEPT !.pc = "room", !.main = m]) \/ Goto(a, Idle)
    BY <1>8 DEF Resize
  <2>3. [call[a] EXCEPT !.pc = "room", !.main = m].pc = "room"
    BY <2>1 DEF HashCall
  <2>4. UNCHANGED listVars
    BY <1>8 DEF Resize
  <2> QED BY <1>2, <1>3, <2>1, <2>2, <2>3, <2>4 DEF listVars, LinkingPcs
<1>9. CASE Room(a)
  <2>1. call[a].pc = "room" /\ call[a] \in HashCall
    BY <1>1, <1>9 DEF Room, CallOK, HashPcs
  <2>2. \/ Goto(a, Search(call[a].main, call[a].newCount))
        \/ Goto(a, [call[a] EXCEPT !.pc = "grow", !.main = Len(hashes)])
    BY <1>9 DEF Room
  <2>3. /\ Search(call[a].main, call[a].newCount).pc = "visit"
        /\ [call[a] EXCEPT !.pc = "grow", !.main = Len(hashes)].pc = "grow"
    BY <2>1 DEF HashCall, Search
  <2>4. UNCHANGED listVars
    BY <1>9 DEF Room
  <2> QED BY <1>3, <2>1, <2>2, <2>3, <2>4 DEF listVars, LinkingPcs
<1>10. CASE Insert(a)
  <2>1. PICK c : Goto(a, c) /\ c.pc = "enqueue" /\ call[a].pc = "made" /\ UNCHANGED listVars
    BY <1>10 DEF Insert
  <2> QED BY <1>3, <2>1 DEF listVars, LinkingPcs
<1>11. CASE NotMade(a) \/ Put(a) \/ Constructed(a)
  <2>1. Goto(a, Idle) /\ call[a].pc \in {"none", "enqueue", "made"} /\ UNCHANGED listVars
    BY <1>11 DEF NotMade, Put, Constructed
  <2> QED BY <1>2, <1>3, <2>1 DEF listVars, LinkingPcs
<1>12. CASE Construct(a)
  <2>1. Goto(a, Search(0, 0)) /\ Search(0, 0).pc = "visit" /\ call[a].pc = "idle" /\ UNCHANGED listVars
    BY <1>12 DEF Construct, Search
  <2> QED BY <1>3, <2>1 DEF listVars, LinkingPcs
<1>13. CASE TokenEnqueue(a)
  <2>1. PICK c : Goto(a, c) /\ c.pc = "enqueue" /\ call[a].pc = "idle" /\ UNCHANGED listVars
    BY <1>13 DEF TokenEnqueue
  <2> QED BY <1>3, <2>1 DEF listVars, LinkingPcs
<1>14. CASE Recycle(a)
  <2>1. call[a].pc = "recycle" /\ call[a] \in ListCall
    BY <1>1, <1>14 DEF Recycle, CallOK, ListPcs
  <2>2. PICK q : \/ Goto(a, [call[a] EXCEPT !.pc = "made", !.recycled = TRUE])
                 \/ Goto(a, [call[a] EXCEPT !.pc = "visit", !.ptr = q])
    BY <1>14 DEF Recycle
  <2>3. /\ [call[a] EXCEPT !.pc = "made", !.recycled = TRUE].pc = "made"
        /\ [call[a] EXCEPT !.pc = "visit", !.ptr = q].pc = "visit"
    BY <2>1 DEF ListCall
  <2>4. UNCHANGED <<created, next, producerListTail>>
    BY <1>14 DEF Recycle
  <2> QED BY <1>3, <2>1, <2>2, <2>3, <2>4 DEF LinkingPcs
<1> QED BY <1>4, <1>5, <1>6, <1>7, <1>8, <1>9, <1>10, <1>11, <1>12, <1>13, <1>14
        DEF ThreadSteps, TokenSteps

(* Producers join the list and do not leave it, and the pointers in it do  *)
(* not change.                                                             *)
ListGrows == Members \subseteq Members' /\ \A q \in Members : next'[q] = next[q]

(* add_producer.                                                           *)
LEMMA ProducerStepsList ==
  ASSUME OwnersInv, ListInv, NEW a \in Actors, ProducerSteps(a)
  PROVE  ListInv' /\ ListGrows
<1>1. CallsOK /\ CallOK(call[a]) /\ ListOK
  BY DEF OwnersInv, CallsOK
<1>2. created \in Nat /\ MaxProducers \in Nat /\ created <= MaxProducers
  BY <1>1, ProducersAssumption DEF ListOK
<1>3. Members \in SUBSET AllProducers
  BY <1>2 DEF Members, AllProducers
<1>4. ASSUME Linking' = Linking, created' = created, producerListTail' = producerListTail,
             \A q \in Members : next'[q] = next[q]
      PROVE  ListInv' /\ ListGrows
  <2>1. Members' = Members
    BY <1>4 DEF Members
  <2>2. Chain(next', Members, producerListTail)
    BY <1>3, <1>4, ChainKept DEF ListInv
  <2> QED BY <1>4, <2>1, <2>2 DEF ListInv, ListGrows
<1>5. CASE Visit(a)
  <2>1. call[a].pc = "visit" /\ call[a] \in ListCall /\ UNCHANGED listVars
    BY <1>1, <1>5 DEF Visit, CallOK, ListPcs
  <2>2. PICK q : \/ Goto(a, With(a, "create")) \/ Goto(a, With(a, "recycle"))
                 \/ Goto(a, [call[a] EXCEPT !.ptr = q])
    BY <1>5 DEF Visit
  <2>3. /\ With(a, "create").pc = "create" /\ With(a, "recycle").pc = "recycle"
        /\ [call[a] EXCEPT !.ptr = q].pc = "visit"
    BY <2>1 DEF With, ListCall
  <2>4. Linking' = Linking
    BY <1>1, <2>1, <2>2, <2>3, SameLinking DEF LinkingPcs
  <2> QED BY <1>4, <2>1, <2>4 DEF listVars
<1>6. CASE Create(a)
  <2>1. call[a].pc = "create" /\ call[a] \in ListCall /\ UNCHANGED <<producerListTail, next>>
    BY <1>1, <1>6 DEF Create, CallOK, ListPcs
  <2>2. CASE created' = created /\ Goto(a, With(a, "none"))
    <3>1. With(a, "none").pc = "none"
      BY <2>1 DEF With, ListCall
    <3>2. Linking' = Linking
      BY <1>1, <2>1, <2>2, <3>1, SameLinking DEF LinkingPcs
    <3> QED BY <1>4, <2>1, <2>2, <3>2
  <2>3. CASE created' = created + 1 /\ Goto(a, [call[a] EXCEPT !.pc = "link", !.ptr = created + 1])
    <3>1. /\ call'[a].pc = "link" /\ call'[a].ptr = created + 1
          /\ \A b \in Actors : b # a => call'[b] = call[b]
      BY <1>1, <2>1, <2>3 DEF CallsOK, Goto, ListCall
    <3>2. ASSUME NEW p PROVE p \in Linking' <=> p \in Linking \union {created + 1}
      <4>1. p \in Linking' <=> \E b \in Actors : call'[b].pc \in LinkingPcs /\ p = call'[b].ptr
        BY DEF Linking, Actors, LinkingPcs
      <4> QED BY <2>1, <3>1, <4>1, LinkingIs DEF LinkingPcs
    <3>3. ASSUME NEW p PROVE p \in Members' <=> p \in Members
      BY <1>2, <2>3, <3>2 DEF Members
    <3>4. Members' = Members
      BY <3>3
    <3> QED BY <2>1, <3>4 DEF ListInv, ListGrows
  <2> QED BY <1>6, <2>2, <2>3 DEF Create
<1>7. ASSUME call[a].pc \in LinkingPcs
      PROVE  /\ call[a] \in ListCall /\ call[a].ptr \in 1 .. created
             /\ call[a].ptr \in AllProducers /\ call[a].ptr \notin Members
             /\ \A b \in Actors : call[b].pc \in LinkingPcs /\ call[b].ptr = call[a].ptr => b = a
  <2>1. call[a] \in ListCall
    BY <1>1, <1>7 DEF CallOK, ListPcs, LinkPcs, LinkingPcs
  <2>2. \A b \in Actors : call[b].pc \in LinkingPcs => call[b].ptr \in OwnedBy(b)
    BY OwnedByLinking DEF LinkingPcs, LinkPcs
  <2>3. call[a].ptr \in 1 .. created
    BY <1>7, <2>2 DEF OwnersInv, OwnersOK
  <2>4. \A b \in Actors : call[b].pc \in LinkingPcs /\ call[b].ptr = call[a].ptr => b = a
    BY <1>7, <2>2 DEF OwnersInv, OwnersOK
  <2>5. call[a].ptr \notin Members
    BY <1>7, LinkingIs DEF Members
  <2> QED BY <1>2, <2>1, <2>3, <2>4, <2>5 DEF AllProducers
<1>8. CASE LinkNext(a)
  <2>1. /\ call[a].pc = "link" /\ Goto(a, With(a, "push")) /\ UNCHANGED <<created, producerListTail>>
        /\ next' = [next EXCEPT ![call[a].ptr] = producerListTail]
    BY <1>8 DEF LinkNext
  <2>2. call[a] \in ListCall /\ call[a].ptr \notin Members
    BY <1>7, <2>1 DEF LinkingPcs
  <2>3. \A q \in Members : next'[q] = next[q]
    BY <1>1, <1>3, <2>1, <2>2 DEF ListOK
  <2>4. /\ call'[a].pc = "push" /\ call'[a].ptr = call[a].ptr
        /\ \A b \in Actors : b # a => call'[b] = call[b]
    BY <1>1, <2>1, <2>2 DEF CallsOK, Goto, With, ListCall
  <2>5. ASSUME NEW p PROVE p \in Linking' <=> p \in Linking
    <3>1. p \in Linking' <=> \E b \in Actors : call'[b].pc \in LinkingPcs /\ p = call'[b].ptr
      BY DEF Linking, Actors, LinkingPcs
    <3> QED BY <2>1, <2>4, <3>1, LinkingIs DEF LinkingPcs
  <2>6. Linking' = Linking
    BY <2>5
  <2> QED BY <1>4, <2>1, <2>3, <2>6
<1>9. CASE Push(a)
  <2>1. call[a].pc = "push" /\ created' = created
    BY <1>9 DEF Push
  <2>2. PICK p : p = call[a].ptr
    OBVIOUS
  <2>3. /\ call[a] \in ListCall /\ p \in 1 .. created /\ p \in AllProducers /\ p \notin Members
        /\ \A b \in Actors : call[b].pc \in LinkingPcs /\ call[b].ptr = p => b = a
    BY <1>7, <2>1, <2>2 DEF LinkingPcs
  <2>4. CASE producerListTail # next[p]
    <3>1. /\ next' = [next EXCEPT ![p] = producerListTail]
          /\ UNCHANGED <<producerListTail, call>>
      BY <1>9, <2>2, <2>4 DEF Push
    <3>2. \A q \in Members : next'[q] = next[q]
      BY <1>1, <1>3, <2>3, <3>1 DEF ListOK
    <3>3. Linking' = Linking
      BY <3>1 DEF Linking
    <3> QED BY <1>4, <2>1, <3>1, <3>2, <3>3
  <2>5. CASE producerListTail = next[p]
    <3>1. /\ producerListTail' = p /\ Goto(a, With(a, "made")) /\ UNCHANGED next
      BY <1>9, <2>2, <2>5 DEF Push
    <3>2. /\ call'[a].pc = "made" /\ \A b \in Actors : b # a => call'[b] = call[b]
      BY <1>1, <2>3, <3>1 DEF CallsOK, Goto, With, ListCall
    <3>3. ASSUME NEW q PROVE q \in Linking' <=> q \in Linking \ {p}
      <4>1. q \in Linking' <=> \E b \in Actors : call'[b].pc \in LinkingPcs /\ q = call'[b].ptr
        BY DEF Linking, Actors, LinkingPcs
      <4>2. "made" \notin LinkingPcs
        BY DEF LinkingPcs
      <4> QED BY <2>2, <2>3, <3>2, <4>1, <4>2, LinkingIs
    <3>4. ASSUME NEW q PROVE q \in Members' <=> q \in Members \union {p}
      BY <2>1, <2>3, <3>3 DEF Members
    <3>5. Members' = Members \union {p}
      BY <3>4
    <3>6. Chain(next, Members \union {p}, p)
      BY <1>3, <2>3, <2>5, ChainPushed DEF ListInv
    <3> QED BY <3>1, <3>5, <3>6 DEF ListInv, ListGrows
  <2> QED BY <2>4, <2>5
<1> QED BY <1>5, <1>6, <1>8, <1>9 DEF ProducerSteps

(* Every step of a thread or a token keeps the list.                       *)
LEMMA ProduceList ==
  ASSUME OwnersInv, ListInv, Produce
  PROVE  ListInv' /\ ListGrows
<1>1. ASSUME NEW a \in Actors, ~ProducerSteps(a),
             \/ a \in Threads /\ (Enqueue(a) \/ ThreadSteps(a))
             \/ a \in Tokens /\ (\/ Construct(a) \/ TokenSteps(a) \/ TokenEnqueue(a) \/ Destroy(a)
                                 \/ \E l \in (Tokens \intersect cast) \ {a} : Swap(a, l))
      PROVE  ListInv' /\ ListGrows
  <2>1. UNCHANGED <<created, next, producerListTail>> /\ Linking' = Linking
    BY <1>1, OutsideList
  <2>2. Members' = Members
    BY <2>1 DEF Members
  <2> QED BY <2>1, <2>2 DEF ListInv, ListGrows
<1>2. PICK a \in Actors :
        \/ a \in Threads /\ (Enqueue(a) \/ ThreadSteps(a))
        \/ a \in Tokens /\ (\/ Construct(a) \/ TokenSteps(a) \/ TokenEnqueue(a) \/ Destroy(a)
                            \/ \E l \in (Tokens \intersect cast) \ {a} : Swap(a, l))
  BY DEF Produce, Actors
<1> QED BY <1>1, <1>2, ProducerStepsList

(* Consumers do not touch the list.                                        *)
LEMMA ConsumeList ==
  ASSUME ListInv, UNCHANGED <<listVars, call>>
  PROVE  ListInv' /\ ListGrows /\ Members' = Members
<1>1. UNCHANGED <<created, next, producerListTail>> /\ Linking' = Linking
  BY DEF listVars, Linking
<1>2. Members' = Members
  BY <1>1 DEF Members
<1> QED BY <1>1, <1>2 DEF ListInv, ListGrows

(* The producers made before are in the list.                              *)
LEMMA InitListInv == Init => ListInv
<1> SUFFICES ASSUME Init PROVE ListInv
  OBVIOUS
<1>1. PICK old \in Casts :
        /\ producerListTail = old.made /\ created = old.made
        /\ next = [p \in AllProducers |-> IF p \in 1 .. old.made THEN p - 1 ELSE NoProducer]
        /\ call = [a \in Threads \union Tokens |-> Idle]
  BY DEF Init, ProducersInit
<1>2. PICK n : n = old.made
  OBVIOUS
<1>3. n \in 0 .. MaxProducers /\ n \in Nat /\ MaxProducers \in Nat
  BY <1>2, ProducersAssumption
<1>4. \A q \in 1 .. n : next[q] = q - 1
  BY <1>1, <1>2, <1>3 DEF AllProducers
<1>5. Linking = {}
  BY <1>1 DEF Linking, Idle
<1>6. Members = 1 .. n
  BY <1>1, <1>2, <1>5 DEF Members
<1> QED BY <1>1, <1>2, <1>3, <1>4, <1>6, ChainMade DEF ListInv

(* ListInv is inductive, given OwnersInv.                                  *)
THEOREM ListInvariant == Spec => []ListInv
<1>1. OwnersInv /\ ListInv /\ [Next]_vars => ListInv'
  <2> SUFFICES ASSUME OwnersInv, ListInv, [Next]_vars PROVE ListInv'
    OBVIOUS
  <2>1. CASE Produce
    BY <2>1, ProduceList
  <2>2. ASSUME NEW c \in Consumers, Consume(c) PROVE ListInv'
    <3>1. UNCHANGED <<listVars, call>>
      BY <2>2, ConsumersKeep
    <3> QED BY <3>1, ConsumeList
  <2>3. CASE UNCHANGED vars
    <3>1. UNCHANGED <<listVars, call>>
      BY <2>3 DEF vars, producerVars
    <3> QED BY <3>1, ConsumeList
  <2> QED BY <2>1, <2>2, <2>3 DEF Next
<1> QED BY <1>1, InitListInv, OwnersInvariant, PTL DEF Spec

(* What a walk from the tail meets are the members of the list.            *)
LEMMA ListedIs == ASSUME OwnersInv, ListInv PROVE Listed = Members /\ Members \in SUBSET AllProducers
<1>1. created \in Nat /\ MaxProducers \in Nat /\ created <= MaxProducers
  BY ProducersAssumption DEF OwnersInv, ListOK
<1>2. Members \in SUBSET AllProducers
  BY <1>1 DEF Members, AllProducers
<1>3. Listed = Path(next, producerListTail)
  BY DEF Listed, From, Path, Closed, ClosedIn
<1>4. Members \subseteq Path(next, producerListTail)
  BY DEF ListInv, Chain
<1>5. Path(next, producerListTail) \subseteq Members
  <2> SUFFICES ASSUME NEW q \in Path(next, producerListTail) PROVE q \in Members
    OBVIOUS
  <2>1. PICK S : S = Members \union {NoProducer}
    OBVIOUS
  <2>2. S \in SUBSET (0 .. MaxProducers) /\ producerListTail \in S /\ ClosedIn(next, S)
    BY <1>1, <1>2, <2>1 DEF ListInv, Chain, Inside, ClosedIn, AllProducers, NoProducer
  <2>3. q \in S /\ q \in AllProducers
    BY <2>2 DEF Path
  <2> QED BY <2>1, <2>3 DEF AllProducers, NoProducer
<1> QED BY <1>2, <1>3, <1>4, <1>5

(* No producer is lost when several are pushed at once, and producerCount  *)
(* is not behind the list.                                                 *)
THEOREM ProducersAreListed == Spec => []ListComplete
<1>1. OwnersInv /\ ListInv /\ RotationInv => ListComplete
  <2> SUFFICES ASSUME OwnersInv, ListInv, RotationInv PROVE ListComplete
    OBVIOUS
  <2>1. Listed = Members
    BY ListedIs
  <2>2. created \in Nat
    BY ProducersAssumption DEF OwnersInv, ListOK
  <2>3. IsFiniteSet(1 .. created) /\ Cardinality(1 .. created) = created
    BY <2>2, FS_Interval
  <2>4. Cardinality(Members) <= created
    BY <2>3, FS_Subset DEF Members
  <2> QED BY <2>1, <2>4 DEF ListComplete, RotationInv, Members
<1> QED BY <1>1, OwnersInvariant, ListInvariant, RotationInvariant, PTL

(* The places of the calls with a token and of those without one.          *)
LEMMA PcsDiffer ==
  /\ "size" \notin TokenPcs /\ "best" \notin TokenPcs /\ "all" \notin TokenPcs
  /\ "failed" \notin TokenPcs /\ "idle" \notin TokenPcs
  /\ {"rotate", "rotateTo", "current", "around", "ring"} \subseteq TokenPcs
  BY DEF TokenPcs

(* What a scan has still to see does not change while producers are added. *)
LEMMA SeesKept ==
  ASSUME NEW M \in SUBSET AllProducers, NEW N, M \subseteq N, NEW nx, NEW ny, Inside(nx, M),
         \A q \in M : ny[q] = nx[q], NEW s, NEW t
  PROVE  /\ ScanSees(s, t, nx, M) => ScanSees(s, t, ny, N)
         /\ Wants(t, M) => Wants(t, N)
<1>1. \A p \in M \union {NoProducer} : Path(nx, p) \subseteq Path(ny, p)
  BY PathKept
<1>2. \A p, tail \in M : \A cur : Arc(nx, p, tail, cur) \subseteq Arc(ny, p, tail, cur)
  BY ArcKept
<1>3. SizeSees(s, nx, M) => SizeSees(s, ny, N)
  BY <1>1 DEF SizeSees
<1>4. BestSees(s, M) => BestSees(s, N)
  BY DEF BestSees
<1>5. AllSees(s, nx, M) => AllSees(s, ny, N)
  BY <1>1 DEF AllSees
<1>6. TokenSees(s, M) => TokenSees(s, N)
  BY DEF TokenSees
<1>7. RingSees(s, t, nx, M) => RingSees(s, t, ny, N)
  BY <1>2 DEF RingSees
<1>8. ScanSees(s, t, nx, M) => ScanSees(s, t, ny, N)
  BY <1>3, <1>4, <1>5, <1>6, <1>7 DEF ScanSees
<1>9. Wants(t, M) => Wants(t, N)
  BY DEF Wants
<1> QED BY <1>8, <1>9

(* A sub-queue gives at most what it has and what is asked for.            *)
LEMMA Taken ==
  ASSUME size \in [AllProducers -> Nat], NEW c, NEW p \in AllProducers, NEW max \in Nat,
         NEW n \in Dequeued(c, p, max), Take(p, n)
  PROVE  n \in 0 .. max /\ size' \in [AllProducers -> Nat]
<1>1. size[p] \in Nat
  OBVIOUS
<1>2. n \in 0 .. max /\ n <= size[p]
  BY <1>1 DEF Dequeued
<1>3. size[p] - n \in Nat
  BY <1>1, <1>2
<1> QED BY <1>2, <1>3 DEF Take

(* A step of one consumer.                                                 *)
LEMMA SeesStep ==
  ASSUME OwnersInv, ListInv, RotationInv, ScansInv, NEW c \in Consumers, UNCHANGED <<listVars, call>>,
         NEW s, Continue(c, s), NEW t,
         \/ consumerToken' = [consumerToken EXCEPT ![c] = t]
         \/ consumerToken' = consumerToken /\ t = consumerToken[c],
         ScanSees(s, t, next, Members), Wants(t, Members),
         size' \in [AllProducers -> Nat], nextExplicitConsumerId' \in Nat,
         globalExplicitConsumerOffset' \in Nat
  PROVE  ScansInv'
<1>1. next' = next /\ Members' = Members
  BY ConsumeList DEF listVars
<1>2. /\ scan'[c] = s /\ \A d \in Consumers : d # c => scan'[d] = scan[d]
  BY DEF RotationInv, Continue
<1>3. /\ consumerToken'[c] = t /\ \A d \in Consumers : d # c => consumerToken'[d] = consumerToken[d]
  BY DEF RotationInv
<1>4. ASSUME NEW d \in Consumers
      PROVE  ScanSees(scan'[d], consumerToken'[d], next', Members') /\ Wants(consumerToken'[d], Members')
  BY <1>1, <1>2, <1>3 DEF ScansInv
<1> QED BY <1>4 DEF ScansInv

(* The end of a call: with nothing left to see it may fail.                *)
LEMMA EndSees ==
  ASSUME NEW s, NEW t, s.count = 0 => s.unseen = {}
  PROVE  /\ ScanSees(End(s, s.unseen), t, next, Members) /\ ScanSees(Idle, t, next, Members)
<1>1. ScanSees(Idle, t, next, Members)
  BY PcsDiffer DEF ScanSees, Idle
<1>2. CASE s.count = 0
  <2>1. PICK e : e = [pc |-> "failed", unseen |-> s.unseen]
    OBVIOUS
  <2>2. e.pc = "failed" /\ e.unseen = {}
    BY <1>2, <2>1
  <2>3. ScanSees(e, t, next, Members)
    BY <2>2, PcsDiffer DEF ScanSees
  <2> QED BY <1>1, <1>2, <2>1, <2>3 DEF End
<1>3. CASE s.count # 0
  BY <1>1, <1>3 DEF End
<1> QED BY <1>1, <1>2, <1>3

(* The dequeues without a token.                                           *)
LEMMA ListScans ==
  ASSUME OwnersInv, ListInv, RotationInv, ScansInv, NEW c \in Consumers,
         \/ TryDequeue(c) \/ \E max \in Maxes : TryDequeueBulk(c, max)
         \/ SizeUp(c) \/ SizedUp(c) \/ Best(c) \/ All(c) \/ AllTried(c) \/ Fail(c)
  PROVE  ScansInv'
<1>1. /\ UNCHANGED <<listVars, call, consumerToken, nextExplicitConsumerId, globalExplicitConsumerOffset>>
  BY DEF TryDequeue, TryDequeueBulk, SizeUp, SizedUp, Best, All, AllTried, Fail, UnchangedElse
<1>2. PICK s : s = scan[c]
  OBVIOUS
<1>3. PICK t : t = consumerToken[c]
  OBVIOUS
<1>4. /\ ScanSees(s, t, next, Members) /\ Wants(t, Members)
      /\ size \in [AllProducers -> Nat]
      /\ nextExplicitConsumerId' \in Nat /\ globalExplicitConsumerOffset' \in Nat
  BY <1>1, <1>2, <1>3 DEF ScansInv
<1>5. ASSUME NEW r, Continue(c, r), ScanSees(r, t, next, Members), size' \in [AllProducers -> Nat]
      PROVE  ScansInv'
  BY <1>1, <1>3, <1>4, <1>5, SeesStep
<1>6. Members \in SUBSET AllProducers /\ Listed = Members
  BY ListedIs
<1>7. /\ Members \subseteq Path(next, producerListTail) /\ producerListTail \in Members \union {NoProducer}
      /\ \A p \in Members : next[p] \in Members \union {NoProducer}
  BY DEF ListInv, Chain, Inside
<1>8. \A p \in Members : \A u : u \subseteq Path(next, p) => u \ {p} \subseteq Path(next, next[p])
  BY <1>6, PathStep
<1>9. ScanSees(Idle, t, next, Members)
  BY PcsDiffer DEF ScanSees, Idle
<1>10. CASE TryDequeue(c)
  <2>1. PICK r : r = [pc |-> "size", ptr |-> producerListTail, best |-> NoProducer, bestSize |-> 0,
                      nonEmptyCount |-> 0, unseen |-> Members, count |-> 0, max |-> 1]
    OBVIOUS
  <2>2. Continue(c, r) /\ size' = size
    BY <1>6, <1>10, <2>1 DEF TryDequeue
  <2>3. SizeSees(r, next, Members) /\ r.pc = "size"
    BY <1>7, <2>1 DEF SizeSees, SizeFields, ListFields
  <2>4. ScanSees(r, t, next, Members)
    BY <2>3, PcsDiffer DEF ScanSees
  <2> QED BY <1>4, <1>5, <2>2, <2>4
<1>11. CASE \E max \in Maxes : TryDequeueBulk(c, max)
  <2>1. PICK max \in Maxes : TryDequeueBulk(c, max)
    BY <1>11
  <2>2. max \in Nat
    BY ConsumersAssumption
  <2>3. PICK r : r = [pc |-> "all", ptr |-> producerListTail, best |-> NoProducer,
                      unseen |-> Members, count |-> 0, max |-> max]
    OBVIOUS
  <2>4. Continue(c, r) /\ size' = size
    BY <1>6, <2>1, <2>3 DEF TryDequeueBulk
  <2>5. AllSees(r, next, Members) /\ r.pc = "all"
    BY <1>7, <2>2, <2>3 DEF AllSees, ListFields
  <2>6. ScanSees(r, t, next, Members)
    BY <2>5, PcsDiffer DEF ScanSees
  <2> QED BY <1>4, <1>5, <2>4, <2>6
<1>12. CASE SizeUp(c)
  <2>1. s.pc = "size" /\ s.ptr # NoProducer /\ size' = size
    BY <1>2, <1>12 DEF SizeUp
  <2>2. SizeSees(s, next, Members)
    BY <1>4, <2>1 DEF ScanSees
  <2>3. s.ptr \in Members /\ size[s.ptr] \in Nat
    BY <1>4, <1>6, <2>1, <2>2 DEF SizeSees
  <2>4. PICK n : n = size[s.ptr]
    OBVIOUS
  <2>5. PICK r : r = [s EXCEPT !.ptr = next[s.ptr],
                               !.best = IF n > s.bestSize THEN s.ptr ELSE @,
                               !.bestSize = IF n > @ THEN n ELSE @,
                               !.nonEmptyCount = IF n > 0 THEN @ + 1 ELSE @,
                               !.unseen = IF n > 0 THEN @ ELSE @ \ {s.ptr}]
    OBVIOUS
  <2>6. Continue(c, r)
    BY <1>2, <1>12, <2>4, <2>5 DEF SizeUp
  <2>7. /\ DOMAIN r = DOMAIN s /\ r.pc = "size" /\ r.count = s.count /\ r.max = s.max
        /\ r.ptr = next[s.ptr] /\ r.best = (IF n > s.bestSize THEN s.ptr ELSE s.best)
        /\ r.bestSize = (IF n > s.bestSize THEN n ELSE s.bestSize)
        /\ r.nonEmptyCount = (IF n > 0 THEN s.nonEmptyCount + 1 ELSE s.nonEmptyCount)
        /\ r.unseen = (IF n > 0 THEN s.unseen ELSE s.unseen \ {s.ptr})
    BY <2>1, <2>2, <2>5 DEF SizeSees, SizeFields, ListFields
  <2>8. SizeSees(r, next, Members)
    <3>1. /\ SizeFields \subseteq DOMAIN r /\ r.unseen \subseteq Members
          /\ r.ptr \in Members \union {NoProducer} /\ r.count = 0 /\ r.max = 1
          /\ r.nonEmptyCount \in Nat /\ r.bestSize \in Nat
      BY <1>7, <2>2, <2>3, <2>4, <2>7 DEF SizeSees
    <3>2. r.nonEmptyCount > 0 => r.best \in Members
      BY <2>2, <2>3, <2>4, <2>7 DEF SizeSees
    <3>3. r.nonEmptyCount = 0 => n = 0 /\ s.nonEmptyCount = 0
      BY <2>2, <2>3, <2>4, <2>7 DEF SizeSees
    <3>4. r.nonEmptyCount = 0 => r.bestSize = 0 /\ r.unseen \subseteq Path(next, r.ptr)
      BY <1>8, <2>2, <2>3, <2>7, <3>3 DEF SizeSees
    <3> QED BY <3>1, <3>2, <3>4 DEF SizeSees
  <2>9. ScanSees(r, t, next, Members)
    BY <2>7, <2>8, PcsDiffer DEF ScanSees
  <2> QED BY <1>4, <1>5, <2>1, <2>6, <2>9
<1>13. CASE SizedUp(c)
  <2>1. s.pc = "size" /\ (s.nonEmptyCount = 3 \/ s.ptr = NoProducer) /\ size' = size
    BY <1>2, <1>13 DEF SizedUp
  <2>2. SizeSees(s, next, Members)
    BY <1>4, <2>1 DEF ScanSees
  <2>3. CASE s.nonEmptyCount > 0
    <3>1. PICK r : r = [s EXCEPT !.pc = "best"]
      OBVIOUS
    <3>2. Continue(c, r)
      BY <1>2, <1>13, <2>3, <3>1 DEF SizedUp
    <3>3. /\ DOMAIN r = DOMAIN s /\ r.pc = "best" /\ r.best = s.best /\ r.unseen = s.unseen
          /\ r.count = s.count /\ r.max = s.max
      BY <2>2, <3>1 DEF SizeSees, SizeFields, ListFields
    <3>4. BestSees(r, Members)
      BY <2>2, <2>3, <3>3 DEF SizeSees, BestSees
    <3>5. ScanSees(r, t, next, Members)
      BY <3>3, <3>4, PcsDiffer DEF ScanSees
    <3> QED BY <1>4, <1>5, <2>1, <3>2, <3>5
  <2>4. CASE ~(s.nonEmptyCount > 0)
    <3>1. Continue(c, End(s, s.unseen))
      BY <1>2, <1>13, <2>4 DEF SizedUp
    <3>2. s.nonEmptyCount = 0
      BY <2>2, <2>4 DEF SizeSees
    <3>3. s.unseen = {}
      BY <2>1, <2>2, <3>2, PathEnd DEF SizeSees
    <3> QED BY <1>4, <1>5, <2>1, <3>1, <3>3, EndSees
  <2> QED BY <2>3, <2>4
<1>14. CASE Best(c)
  <2>1. s.pc = "best"
    BY <1>2, <1>14 DEF Best
  <2>2. BestSees(s, Members)
    BY <1>4, <2>1 DEF ScanSees
  <2>3. PICK n \in Dequeued(c, s.best, 1) :
          /\ Take(s.best, n)
          /\ Continue(c, IF n = 1 THEN Idle
                         ELSE [s EXCEPT !.pc = "all", !.ptr = producerListTail, !.unseen = @ \ {s.best}])
    BY <1>2, <1>14 DEF Best
  <2>4. size' \in [AllProducers -> Nat]
    BY <1>4, <1>6, <2>2, <2>3, Taken DEF BestSees
  <2>5. CASE n = 1
    BY <1>5, <1>9, <2>3, <2>4, <2>5
  <2>6. CASE n # 1
    <3>1. PICK r : r = [s EXCEPT !.pc = "all", !.ptr = producerListTail, !.unseen = @ \ {s.best}]
      OBVIOUS
    <3>2. /\ DOMAIN r = DOMAIN s /\ r.pc = "all" /\ r.ptr = producerListTail
          /\ r.unseen = s.unseen \ {s.best} /\ r.count = s.count /\ r.max = s.max
      BY <2>2, <3>1 DEF BestSees, SizeFields, ListFields
    <3>3. AllSees(r, next, Members)
      BY <1>7, <2>2, <3>2 DEF BestSees, AllSees, SizeFields
    <3>4. ScanSees(r, t, next, Members)
      BY <3>2, <3>3, PcsDiffer DEF ScanSees
    <3> QED BY <1>5, <2>3, <2>4, <2>6, <3>1, <3>4
  <2> QED BY <2>5, <2>6
<1>15. CASE All(c)
  <2>1. s.pc = "all" /\ s.ptr # NoProducer
    BY <1>2, <1>15 DEF All
  <2>2. AllSees(s, next, Members)
    BY <1>4, <2>1 DEF ScanSees
  <2>3. s.ptr \in Members /\ s.ptr \in AllProducers
    BY <1>6, <2>1, <2>2 DEF AllSees
  <2>4. PICK wanted : wanted = IF s.ptr = s.best THEN 0 ELSE s.max - s.count
    OBVIOUS
  <2>5. wanted \in Nat /\ wanted <= s.max - s.count /\ s.max \in Nat /\ s.count \in Nat
    BY <2>2, <2>4 DEF AllSees
  <2>6. PICK n \in Dequeued(c, s.ptr, wanted) :
          /\ Take(s.ptr, n)
          /\ Continue(c, IF s.count + n = s.max THEN Idle
                         ELSE [s EXCEPT !.ptr = next[s.ptr], !.count = @ + n,
                                        !.unseen = @ \ {s.ptr}])
    BY <1>2, <1>15, <2>4 DEF All
  <2>7. size' \in [AllProducers -> Nat] /\ n \in 0 .. wanted
    BY <1>4, <2>3, <2>5, <2>6, Taken
  <2>8. CASE s.count + n = s.max
    BY <1>5, <1>9, <2>6, <2>7, <2>8
  <2>9. CASE s.count + n # s.max
    <3>1. PICK r : r = [s EXCEPT !.ptr = next[s.ptr], !.count = @ + n, !.unseen = @ \ {s.ptr}]
      OBVIOUS
    <3>2. /\ DOMAIN r = DOMAIN s /\ r.pc = "all" /\ r.ptr = next[s.ptr]
          /\ r.unseen = s.unseen \ {s.ptr} /\ r.count = s.count + n /\ r.max = s.max
      BY <2>1, <2>2, <3>1 DEF AllSees, ListFields
    <3>3. r.count \in 0 .. r.max
      BY <2>5, <2>7, <3>2
    <3>4. AllSees(r, next, Members)
      BY <1>7, <1>8, <2>2, <2>3, <3>2, <3>3 DEF AllSees
    <3>5. ScanSees(r, t, next, Members)
      BY <3>2, <3>4, PcsDiffer DEF ScanSees
    <3> QED BY <1>5, <2>6, <2>7, <2>9, <3>1, <3>5
  <2> QED BY <2>8, <2>9
<1>16. CASE AllTried(c)
  <2>1. s.pc = "all" /\ s.ptr = NoProducer /\ size' = size /\ Continue(c, End(s, s.unseen))
    BY <1>2, <1>16 DEF AllTried
  <2>2. s.unseen = {}
    BY <1>4, <2>1, PathEnd DEF ScanSees, AllSees
  <2> QED BY <1>4, <1>5, <2>1, <2>2, EndSees
<1>17. CASE Fail(c)
  BY <1>4, <1>5, <1>9, <1>17 DEF Fail
<1> QED BY <1>10, <1>11, <1>12, <1>13, <1>14, <1>15, <1>16, <1>17

(* A remainder is less than the divisor.                                   *)
LEMMA Remainder == ASSUME NEW a \in Int, NEW b \in Nat, b > 0 PROVE a % b \in 0 .. (b - 1)
  OBVIOUS

(* A walk that goes on from the tail at the end of the list stays in it.   *)
LEMMA WalkStays ==
  ASSUME NEW M, NEW tail, NEW p \in M, \A q \in M : After(q, tail) \in M, NEW n \in Nat
  PROVE  Walk(p, tail, n) \in M
<1> DEFINE IsWalk(f, k) == \A i \in 0 .. k : f[i] = IF i = 0 THEN p ELSE After(f[i - 1], tail)
           Bad == {k \in Nat : ~\E f : IsWalk(f, k)}
<1>1. Bad = {}
  <2> SUFFICES ASSUME Bad # {} PROVE FALSE
    OBVIOUS
  <2>1. PICK m \in Bad : \A k \in Bad : m <= k
    <3> HIDE DEF Bad
    <3>1. Bad \in SUBSET Nat
      BY DEF Bad
    <3> QED BY <3>1, Least
  <2>2. m \in Nat /\ ~\E f : IsWalk(f, m)
    OBVIOUS
  <2>3. CASE m = 0
    <3>1. PICK f : f = [i \in {0} |-> p]
      OBVIOUS
    <3>2. IsWalk(f, 0)
      BY <3>1
    <3> QED BY <2>2, <2>3, <3>2
  <2>4. CASE m # 0
    <3>1. m - 1 \in Nat /\ m - 1 \notin Bad
      BY <2>1, <2>2, <2>4
    <3>2. PICK f : IsWalk(f, m - 1)
      BY <3>1
    <3>3. PICK g : g = [i \in 0 .. m |-> IF i = m THEN After(f[m - 1], tail) ELSE f[i]]
      OBVIOUS
    <3>4. ASSUME NEW i \in 0 .. m PROVE g[i] = IF i = 0 THEN p ELSE After(g[i - 1], tail)
      <4>1. CASE i = m
        <5>1. g[i] = After(f[m - 1], tail) /\ g[m - 1] = f[m - 1]
          BY <2>2, <2>4, <3>3, <4>1
        <5> QED BY <2>4, <4>1, <5>1
      <4>2. CASE i # m
        <5>1. i \in 0 .. (m - 1) /\ g[i] = f[i]
          BY <2>2, <3>3, <4>2
        <5>2. i # 0 => i - 1 \in 0 .. m /\ i - 1 # m
          BY <2>2
        <5>3. i # 0 => g[i - 1] = f[i - 1]
          BY <3>3, <5>2
        <5> QED BY <3>2, <5>1, <5>3
      <4> QED BY <4>1, <4>2
    <3>5. IsWalk(g, m)
      BY <3>4
    <3> QED BY <2>2, <3>5
  <2> QED BY <2>3, <2>4
<1>2. PICK f : IsWalk(f, n)
  BY <1>1
<1>3. PICK h : h = [i \in 0 .. n |-> f[i]]
  OBVIOUS
<1>4. h = [i \in 0 .. n |-> IF i = 0 THEN p ELSE After(h[i - 1], tail)]
  <2>1. ASSUME NEW i \in 0 .. n PROVE h[i] = IF i = 0 THEN p ELSE After(h[i - 1], tail)
    <3>1. i # 0 => i - 1 \in 0 .. n
      OBVIOUS
    <3>2. i # 0 => h[i - 1] = f[i - 1]
      BY <1>3, <3>1
    <3> QED BY <1>2, <1>3, <3>2
  <2> QED BY <1>3, <2>1
<1> DEFINE at[i \in 0 .. n] == IF i = 0 THEN p ELSE After(at[i - 1], tail)
<1>5. at = [i \in 0 .. n |-> IF i = 0 THEN p ELSE After(at[i - 1], tail)]
  BY <1>4
<1>6. Walk(p, tail, n) = at[n]
  BY DEF Walk
<1> HIDE DEF at
<1>7. PICK T : T = {i \in 0 .. n : at[i] \notin M}
  OBVIOUS
<1>8. T = {}
  <2> SUFFICES ASSUME T # {} PROVE FALSE
    OBVIOUS
  <2>1. PICK i \in T : \A k \in T : i <= k
    BY <1>7, Least
  <2>2. i \in 0 .. n /\ at[i] \notin M
    BY <1>7
  <2>3. at[i] = IF i = 0 THEN p ELSE After(at[i - 1], tail)
    BY <1>5, <2>2
  <2>4. i # 0
    BY <2>2, <2>3
  <2>5. i - 1 \in 0 .. n /\ i - 1 \notin T
    BY <2>1, <2>2, <2>4
  <2>6. at[i - 1] \in M
    BY <1>7, <2>5
  <2> QED BY <2>2, <2>3, <2>4, <2>6
<1> QED BY <1>6, <1>7, <1>8

(* The dequeues with a token, up to the producer they try first.           *)
LEMMA RotationScans ==
  ASSUME OwnersInv, ListInv, RotationInv, ScansInv, NEW c \in Consumers,
         \/ \E max \in Maxes : TokenDequeue(c, max)
         \/ RotateTail(c) \/ RotateTo(c)
  PROVE  ScansInv'
<1>1. /\ UNCHANGED <<listVars, call, size, nextExplicitConsumerId, globalExplicitConsumerOffset>>
  BY DEF TokenDequeue, RotateTail, RotateTo, UnchangedElse
<1>2. PICK s : s = scan[c]
  OBVIOUS
<1>3. PICK t : t = consumerToken[c]
  OBVIOUS
<1>4. /\ ScanSees(s, t, next, Members) /\ Wants(t, Members)
      /\ size' \in [AllProducers -> Nat]
      /\ nextExplicitConsumerId' \in Nat /\ globalExplicitConsumerOffset' \in Nat
      /\ globalExplicitConsumerOffset \in Nat
  BY <1>1, <1>2, <1>3 DEF ScansInv
<1>5. ASSUME NEW r, Continue(c, r), ScanSees(r, t, next, Members), consumerToken' = consumerToken
      PROVE  ScansInv'
  BY <1>1, <1>3, <1>4, <1>5, SeesStep
<1>6. Members \in SUBSET AllProducers /\ Listed = Members
  BY ListedIs
<1>7. /\ Members \subseteq Path(next, producerListTail) /\ producerListTail \in Members \union {NoProducer}
      /\ \A p \in Members : next[p] \in Members \union {NoProducer}
  BY DEF ListInv, Chain, Inside
<1>8. DOMAIN NoToken # TokenFields
  BY DEF NoToken, TokenFields
<1>9. /\ s.pc \in TokenPcs => DOMAIN t = TokenFields
      /\ s.pc = "rotateTo" => created > 0
      /\ t # NoToken => DOMAIN t = TokenFields
  BY <1>2, <1>3 DEF RotationInv, ScanOK, ConsumerTokenOK
<1>10. CASE \E max \in Maxes : TokenDequeue(c, max)
  <2>1. PICK max \in Maxes : TokenDequeue(c, max)
    BY <1>10
  <2>2. max \in Nat
    BY ConsumersAssumption
  <2>3. PICK pc : pc = IF t.desiredProducer = NoProducer \/ t.lastKnownGlobalOffset # globalExplicitConsumerOffset
                         THEN "rotate" ELSE "current"
    OBVIOUS
  <2>4. PICK r : r = [pc |-> pc, tail |-> NoProducer, ptr |-> NoProducer, unseen |-> Members,
                      count |-> 0, max |-> max]
    OBVIOUS
  <2>5. Continue(c, r) /\ consumerToken' = consumerToken
    BY <1>3, <1>6, <2>1, <2>3, <2>4 DEF TokenDequeue
  <2>6. /\ r.pc = pc /\ r.count = 0 /\ TokenSees(r, Members)
    BY <2>2, <2>4 DEF TokenSees, RingFields
  <2>7. ScanSees(r, t, next, Members)
    BY <2>3, <2>6, PcsDiffer DEF ScanSees
  <2> QED BY <1>5, <2>5, <2>7
<1>11. CASE RotateTail(c)
  <2>1. s.pc = "rotate" /\ consumerToken' = consumerToken
    BY <1>2, <1>11 DEF RotateTail
  <2>2. TokenSees(s, Members) /\ s.count = 0
    BY <1>4, <2>1, PcsDiffer DEF ScanSees
  <2>3. CASE t.desiredProducer = NoProducer /\ producerListTail = NoProducer
    <3>1. Continue(c, End(s, s.unseen))
      BY <1>2, <1>3, <1>11, <2>3 DEF RotateTail
    <3>2. s.unseen = {}
      BY <1>7, <2>2, <2>3, PathEnd DEF TokenSees
    <3> QED BY <1>5, <2>1, <3>1, <3>2, EndSees
  <2>4. CASE ~(t.desiredProducer = NoProducer /\ producerListTail = NoProducer)
    <3>1. PICK r : r = [s EXCEPT !.pc = "rotateTo", !.tail = producerListTail]
      OBVIOUS
    <3>2. Continue(c, r)
      BY <1>2, <1>3, <1>11, <2>4, <3>1 DEF RotateTail
    <3>3. producerListTail \in Members
      <4>1. CASE producerListTail # NoProducer
        BY <1>7, <4>1
      <4>2. CASE t.desiredProducer # NoProducer
        <5>1. t # NoToken
          BY <1>8, <1>9, <2>1, PcsDiffer
        <5>2. t.desiredProducer \in Members
          BY <1>4, <4>2, <5>1 DEF Wants
        <5> QED BY <1>7, <5>2, PathEnd
      <4> QED BY <2>4, <4>1, <4>2
    <3>4. /\ DOMAIN r = DOMAIN s /\ r.pc = "rotateTo" /\ r.tail = producerListTail
          /\ r.count = s.count /\ r.max = s.max /\ r.unseen = s.unseen
      BY <2>2, <3>1 DEF TokenSees, RingFields
    <3>5. TokenSees(r, Members)
      BY <2>2, <3>4 DEF TokenSees
    <3>6. ScanSees(r, t, next, Members)
      BY <2>2, <3>3, <3>4, <3>5, PcsDiffer DEF ScanSees
    <3> QED BY <1>5, <2>1, <3>2, <3>6
  <2> QED BY <2>3, <2>4
<1>12. CASE RotateTo(c)
  <2>1. s.pc = "rotateTo"
    BY <1>2, <1>12 DEF RotateTo
  <2>2. TokenSees(s, Members) /\ s.count = 0 /\ s.tail \in Members
    BY <1>4, <2>1, PcsDiffer DEF ScanSees
  <2>3. DOMAIN t = TokenFields /\ t # NoToken /\ producerCount > 0 /\ producerCount \in Nat
    <3>1. created > 0 /\ created \in Nat
      BY <1>9, <2>1, ProducersAssumption DEF OwnersInv, ListOK
    <3> QED BY <1>8, <1>9, <2>1, <3>1, PcsDiffer DEF RotationInv
  <2>4. /\ t.initialOffset \in Nat /\ t.lastKnownGlobalOffset \in Nat
        /\ t.desiredProducer # NoProducer => t.desiredProducer \in Members
    BY <1>4, <2>3 DEF Wants
  <2>5. PICK delta : delta = (globalExplicitConsumerOffset - t.lastKnownGlobalOffset) % OffsetModulus
    OBVIOUS
  <2>6. PICK first : first = IF t.desiredProducer # NoProducer THEN t.desiredProducer
                             ELSE Walk(s.tail, s.tail, producerCount - 1 - (t.initialOffset % producerCount))
    OBVIOUS
  <2>7. PICK desired : desired = Walk(first, s.tail, IF delta >= producerCount THEN delta % producerCount
                                                     ELSE delta)
    OBVIOUS
  <2>8. /\ consumerToken' = [consumerToken EXCEPT ![c] =
             [t EXCEPT !.desiredProducer = desired, !.currentProducer = desired,
                       !.lastKnownGlobalOffset = globalExplicitConsumerOffset,
                       !.itemsConsumedFromCurrent = 0]]
        /\ Continue(c, [s EXCEPT !.pc = "current"])
    BY <1>2, <1>3, <1>12, <2>5, <2>6, <2>7 DEF RotateTo
  <2>9. \A q \in Members : After(q, s.tail) \in Members
    BY <1>7, <2>2 DEF After
  <2>10. first \in Members
    <3>1. t.initialOffset % producerCount \in 0 .. (producerCount - 1)
      BY <2>3, <2>4, Remainder
    <3>2. producerCount - 1 - (t.initialOffset % producerCount) \in Nat
      BY <2>3, <3>1
    <3>3. Walk(s.tail, s.tail, producerCount - 1 - (t.initialOffset % producerCount)) \in Members
      BY <2>2, <2>9, <3>2, WalkStays
    <3> QED BY <2>4, <2>6, <3>3
  <2>11. desired \in Members
    <3>1. delta \in Nat
      <4>1. globalExplicitConsumerOffset - t.lastKnownGlobalOffset \in Int
        BY <1>4, <2>4
      <4>2. OffsetModulus \in Nat /\ OffsetModulus > 0
        BY ConsumersAssumption
      <4> QED BY <2>5, <4>1, <4>2, Remainder
    <3>2. delta % producerCount \in Nat
      BY <2>3, <3>1, Remainder
    <3>3. PICK n : n = IF delta >= producerCount THEN delta % producerCount ELSE delta
      OBVIOUS
    <3>4. n \in Nat
      BY <3>1, <3>2, <3>3
    <3>5. Walk(first, s.tail, n) \in Members
      BY <2>9, <2>10, <3>4, WalkStays
    <3> QED BY <2>7, <3>3, <3>5
  <2>12. PICK u : u = [t EXCEPT !.desiredProducer = desired, !.currentProducer = desired,
                                !.lastKnownGlobalOffset = globalExplicitConsumerOffset,
                                !.itemsConsumedFromCurrent = 0]
    OBVIOUS
  <2>13. /\ u.desiredProducer = desired /\ u.currentProducer = desired
         /\ u.lastKnownGlobalOffset = globalExplicitConsumerOffset
         /\ u.initialOffset = t.initialOffset
    BY <2>3, <2>12 DEF TokenFields
  <2>14. Wants(u, Members)
    BY <1>4, <2>4, <2>11, <2>13 DEF Wants
  <2>15. PICK r : r = [s EXCEPT !.pc = "current"]
    OBVIOUS
  <2>16. /\ DOMAIN r = DOMAIN s /\ r.pc = "current" /\ r.count = s.count /\ r.max = s.max
         /\ r.unseen = s.unseen
    BY <2>2, <2>15 DEF TokenSees, RingFields
  <2>17. TokenSees(r, Members)
    BY <2>2, <2>16 DEF TokenSees
  <2>18. u.desiredProducer # NoProducer
    BY <1>6, <2>11, <2>13 DEF AllProducers, NoProducer
  <2>19. ScanSees(r, u, next, Members)
    BY <2>16, <2>17, <2>18, PcsDiffer DEF ScanSees
  <2> QED BY <1>1, <1>4, <2>8, <2>12, <2>14, <2>15, <2>19, SeesStep
<1> QED BY <1>10, <1>11, <1>12

(* The dequeues with a token, from there around the others.                *)
LEMMA RingScans ==
  ASSUME OwnersInv, ListInv, RotationInv, ScansInv, NEW c \in Consumers,
         Current(c) \/ Around(c) \/ Ring(c) \/ RingTried(c)
  PROVE  ScansInv'
<1>1. /\ UNCHANGED <<listVars, call, nextExplicitConsumerId>>
  BY DEF Current, Around, Ring, RingTried, UnchangedElse
<1>2. PICK s : s = scan[c]
  OBVIOUS
<1>3. PICK t : t = consumerToken[c]
  OBVIOUS
<1>4. /\ ScanSees(s, t, next, Members) /\ Wants(t, Members)
      /\ size \in [AllProducers -> Nat] /\ nextExplicitConsumerId' \in Nat
      /\ globalExplicitConsumerOffset \in Nat
  BY <1>1, <1>2, <1>3 DEF ScansInv
<1>5. s.pc \in {"current", "around", "ring"} /\ s.pc \in TokenPcs
  BY <1>2, PcsDiffer DEF Current, Around, Ring, RingTried
<1>6. TokenSees(s, Members) /\ t.desiredProducer # NoProducer
  BY <1>4, <1>5 DEF ScanSees
<1>7. Members \in SUBSET AllProducers /\ NoProducer \notin AllProducers
  BY ListedIs DEF AllProducers, NoProducer
<1>8. /\ DOMAIN t = TokenFields /\ t # NoToken
  <2>1. DOMAIN NoToken # TokenFields
    BY DEF NoToken, TokenFields
  <2> QED BY <1>2, <1>3, <1>5, <2>1 DEF RotationInv, ScanOK
<1>9. PICK p : p = t.currentProducer
  OBVIOUS
<1>10. p \in Members /\ t.desiredProducer \in Members /\ t.initialOffset \in Nat /\ t.lastKnownGlobalOffset \in Nat
  BY <1>4, <1>6, <1>8, <1>9 DEF Wants
<1>11. ASSUME NEW r, Continue(c, r), ScanSees(r, t, next, Members), consumerToken' = consumerToken,
              size' \in [AllProducers -> Nat], globalExplicitConsumerOffset' \in Nat
       PROVE  ScansInv'
  BY <1>1, <1>3, <1>4, <1>11, SeesStep
<1>12. \A q, tail \in Members : After(q, tail) \in Members /\ After(q, tail) = Onwards(next, q, tail)
  BY DEF ListInv, Chain, Inside, After, Onwards
<1>13. \A u : ScanSees(Idle, u, next, Members)
  BY PcsDiffer DEF ScanSees, Idle
<1>14. CASE Current(c)
  <2>1. PICK n, items :
          /\ n \in Dequeued(c, p, s.max) /\ Take(p, n)
          /\ consumerToken' = [consumerToken EXCEPT ![c].itemsConsumedFromCurrent = items]
          /\ \/ globalExplicitConsumerOffset' = globalExplicitConsumerOffset
             \/ globalExplicitConsumerOffset' = (globalExplicitConsumerOffset + 1) % OffsetModulus
          /\ Continue(c, IF n = s.max THEN Idle
                         ELSE [s EXCEPT !.pc = "around", !.count = n, !.max = @ - n,
                                        !.unseen = @ \ {p}])
    BY <1>2, <1>3, <1>9, <1>14 DEF Current
  <2>2. n \in 0 .. s.max /\ size' \in [AllProducers -> Nat]
    BY <1>4, <1>6, <1>7, <1>10, <2>1, Taken DEF TokenSees
  <2>3. globalExplicitConsumerOffset' \in Nat
    <3>1. OffsetModulus \in Nat /\ OffsetModulus > 0 /\ globalExplicitConsumerOffset + 1 \in Int
      BY <1>4, ConsumersAssumption
    <3>2. (globalExplicitConsumerOffset + 1) % OffsetModulus \in Nat
      BY <3>1, Remainder
    <3> QED BY <1>4, <2>1, <3>2
  <2>4. PICK u : u = [t EXCEPT !.itemsConsumedFromCurrent = items]
    OBVIOUS
  <2>5. /\ u.desiredProducer = t.desiredProducer /\ u.currentProducer = p
        /\ u.initialOffset = t.initialOffset /\ u.lastKnownGlobalOffset = t.lastKnownGlobalOffset
    BY <1>8, <1>9, <2>4 DEF TokenFields
  <2>6. Wants(u, Members)
    BY <1>10, <2>5 DEF Wants
  <2>7. consumerToken' = [consumerToken EXCEPT ![c] = u]
    BY <1>3, <2>1, <2>4
  <2>8. PICK r : r = [s EXCEPT !.pc = "around", !.count = n, !.max = @ - n, !.unseen = @ \ {p}]
    OBVIOUS
  <2>9. /\ DOMAIN r = DOMAIN s /\ r.pc = "around" /\ r.count = n /\ r.max = s.max - n
        /\ r.unseen = s.unseen \ {p}
    BY <1>6, <2>8 DEF TokenSees, RingFields
  <2>10. TokenSees(r, Members)
    BY <1>6, <2>2, <2>9 DEF TokenSees
  <2>11. ScanSees(r, u, next, Members)
    BY <1>6, <2>5, <2>9, <2>10, PcsDiffer DEF ScanSees
  <2>12. PICK e : Continue(c, e) /\ ScanSees(e, u, next, Members)
    BY <1>13, <2>1, <2>8, <2>11
  <2> QED BY <1>1, <1>4, <2>2, <2>3, <2>6, <2>7, <2>12, SeesStep
<1>15. CASE Around(c)
  <2>1. PICK r : r = [s EXCEPT !.pc = "ring", !.tail = producerListTail,
                               !.ptr = After(p, producerListTail)]
    OBVIOUS
  <2>2. /\ s.pc = "around" /\ Continue(c, r) /\ consumerToken' = consumerToken
        /\ size' = size /\ globalExplicitConsumerOffset' = globalExplicitConsumerOffset
    BY <1>2, <1>3, <1>9, <1>15, <2>1 DEF Around
  <2>3. p \notin s.unseen
    BY <1>4, <1>9, <2>2 DEF ScanSees
  <2>4. Chain(next, Members, producerListTail)
    BY DEF ListInv
  <2>5. producerListTail \in Members
    BY <1>10, <2>4, PathEnd DEF Chain
  <2>6. After(p, producerListTail) \in Members
        /\ After(p, producerListTail) = Onwards(next, p, producerListTail)
    BY <1>10, <1>12, <2>5
  <2>7. \A q \in Members : q # p => q \in Arc(next, After(p, producerListTail), producerListTail, p)
    BY <1>7, <1>10, <2>4, <2>5, <2>6, ArcStart
  <2>8. /\ DOMAIN r = DOMAIN s /\ r.pc = "ring" /\ r.tail = producerListTail
        /\ r.ptr = After(p, producerListTail)
        /\ r.count = s.count /\ r.max = s.max /\ r.unseen = s.unseen
    BY <1>6, <2>1 DEF TokenSees, RingFields
  <2>9. TokenSees(r, Members)
    BY <1>6, <2>8 DEF TokenSees
  <2>10. RingSees(r, t, next, Members)
    BY <1>6, <1>9, <2>3, <2>5, <2>6, <2>7, <2>8 DEF TokenSees, RingSees
  <2>11. ScanSees(r, t, next, Members)
    BY <1>6, <2>8, <2>9, <2>10, PcsDiffer DEF ScanSees
  <2> QED BY <1>4, <1>11, <2>2, <2>11
<1>16. CASE Ring(c)
  <2>1. s.pc = "ring" /\ s.ptr # p /\ globalExplicitConsumerOffset' = globalExplicitConsumerOffset
    BY <1>2, <1>3, <1>9, <1>16 DEF Ring
  <2>2. RingSees(s, t, next, Members)
    BY <1>4, <2>1 DEF ScanSees
  <2>3. s.ptr \in Members /\ s.tail \in Members
    BY <2>2 DEF RingSees
  <2>4. PICK n \in Dequeued(c, s.ptr, s.max) :
          /\ Take(s.ptr, n)
          /\ consumerToken' = IF n = 0 THEN consumerToken
                              ELSE [consumerToken EXCEPT ![c].currentProducer = s.ptr,
                                                         ![c].itemsConsumedFromCurrent = n]
          /\ Continue(c, IF n = s.max THEN Idle
                         ELSE [s EXCEPT !.ptr = After(s.ptr, s.tail), !.count = @ + n,
                                        !.max = @ - n, !.unseen = @ \ {s.ptr}])
    BY <1>2, <1>16 DEF Ring
  <2>5. n \in 0 .. s.max /\ size' \in [AllProducers -> Nat]
    BY <1>4, <1>6, <1>7, <2>3, <2>4, Taken DEF TokenSees
  <2>6. PICK r : r = [s EXCEPT !.ptr = After(s.ptr, s.tail), !.count = @ + n,
                               !.max = @ - n, !.unseen = @ \ {s.ptr}]
    OBVIOUS
  <2>7. /\ DOMAIN r = DOMAIN s /\ r.pc = "ring" /\ r.tail = s.tail /\ r.ptr = After(s.ptr, s.tail)
        /\ r.count = s.count + n /\ r.max = s.max - n /\ r.unseen = s.unseen \ {s.ptr}
    BY <1>6, <2>1, <2>6 DEF TokenSees, RingFields
  <2>8. TokenSees(r, Members) /\ s.count \in Nat
    BY <1>6, <2>5, <2>7 DEF TokenSees
  <2>9. r.ptr \in Members /\ r.tail \in Members /\ r.ptr = Onwards(next, s.ptr, s.tail)
    BY <1>12, <2>3, <2>7
  <2>10. CASE n = 0
    <3>1. RingSees(r, t, next, Members)
      <4>1. SUFFICES ASSUME r.count = 0, NEW q \in r.unseen
                     PROVE  q \in Arc(next, r.ptr, r.tail, p) /\ q # p
        BY <1>9, <2>9 DEF RingSees
      <4>2. s.count = 0 /\ q \in s.unseen /\ q # s.ptr
        BY <2>7, <2>8, <2>10, <4>1
      <4>3. q \in Arc(next, s.ptr, s.tail, p) /\ q # p
        BY <1>9, <2>2, <4>2 DEF RingSees
      <4>4. q \in Arc(next, Onwards(next, s.ptr, s.tail), s.tail, p)
        BY <1>7, <2>3, <4>2, <4>3, ArcStep
      <4> QED BY <2>7, <2>9, <4>3, <4>4
    <3>2. ScanSees(r, t, next, Members)
      BY <1>6, <2>7, <2>8, <3>1, PcsDiffer DEF ScanSees
    <3>3. PICK e : Continue(c, e) /\ ScanSees(e, t, next, Members)
      BY <1>13, <2>4, <2>6, <3>2
    <3> QED BY <1>4, <1>11, <2>1, <2>4, <2>5, <2>10, <3>3
  <2>11. CASE n # 0
    <3>1. PICK u : u = [t EXCEPT !.currentProducer = s.ptr, !.itemsConsumedFromCurrent = n]
      OBVIOUS
    <3>2. /\ u.desiredProducer = t.desiredProducer /\ u.currentProducer = s.ptr
          /\ u.initialOffset = t.initialOffset /\ u.lastKnownGlobalOffset = t.lastKnownGlobalOffset
      BY <1>8, <3>1 DEF TokenFields
    <3>3. Wants(u, Members)
      BY <1>10, <2>3, <3>2 DEF Wants
    <3>4. consumerToken' = [consumerToken EXCEPT ![c] = u]
      BY <1>3, <2>4, <2>11, <3>1 DEF RotationInv
    <3>5. r.count # 0
      BY <2>5, <2>7, <2>8, <2>11
    <3>6. RingSees(r, u, next, Members)
      BY <2>9, <3>5 DEF RingSees
    <3>7. ScanSees(r, u, next, Members)
      BY <1>6, <2>7, <2>8, <3>2, <3>6, PcsDiffer DEF ScanSees
    <3>8. PICK e : Continue(c, e) /\ ScanSees(e, u, next, Members)
      BY <1>13, <2>4, <2>6, <3>7
    <3> QED BY <1>1, <1>4, <2>1, <2>5, <3>3, <3>4, <3>8, SeesStep
  <2> QED BY <2>10, <2>11
<1>17. CASE RingTried(c)
  <2>1. /\ s.pc = "ring" /\ s.ptr = p /\ Continue(c, End(s, s.unseen)) /\ size' = size
        /\ consumerToken' = consumerToken
        /\ globalExplicitConsumerOffset' = globalExplicitConsumerOffset
    BY <1>2, <1>3, <1>9, <1>17 DEF RingTried
  <2>2. RingSees(s, t, next, Members)
    BY <1>4, <2>1 DEF ScanSees
  <2>3. p \in AllProducers
    BY <1>7, <1>10
  <2>4. s.count = 0 => s.unseen = {}
    <3> SUFFICES ASSUME s.count = 0, NEW q \in s.unseen PROVE FALSE
      OBVIOUS
    <3>1. q \in Arc(next, p, s.tail, p) /\ q # p
      BY <1>9, <2>1, <2>2 DEF RingSees
    <3> QED BY <2>3, <3>1, ArcEnd
  <2> QED BY <1>4, <1>11, <2>1, <2>4, EndSees
<1> QED BY <1>14, <1>15, <1>16, <1>17

(* A new token wants no producer yet.                                      *)
LEMMA NewTokenScans ==
  ASSUME OwnersInv, ListInv, RotationInv, ScansInv, NEW c \in Consumers, NewConsumerToken(c)
  PROVE  ScansInv'
<1>1. /\ UNCHANGED <<listVars, call, size, globalExplicitConsumerOffset, scan>>
      /\ scan[c].pc = "idle" /\ nextExplicitConsumerId' = nextExplicitConsumerId + 1
  BY DEF NewConsumerToken, producerVars
<1>2. PICK t : t = [initialOffset |-> nextExplicitConsumerId,
                    lastKnownGlobalOffset |-> OffsetModulus - 1, itemsConsumedFromCurrent |-> 0,
                    currentProducer |-> NoProducer, desiredProducer |-> NoProducer]
  OBVIOUS
<1>3. consumerToken' = [consumerToken EXCEPT ![c] = t]
  BY <1>2 DEF NewConsumerToken
<1>4. nextExplicitConsumerId \in Nat /\ OffsetModulus - 1 \in Nat
  BY ConsumersAssumption DEF ScansInv
<1>5. Wants(t, Members)
  BY <1>2, <1>4 DEF Wants
<1>6. PICK s : s = scan[c]
  OBVIOUS
<1>7. Continue(c, s) /\ s.pc = "idle"
  BY <1>1, <1>6 DEF Continue, RotationInv
<1>8. ScanSees(s, t, next, Members)
  BY <1>7, PcsDiffer DEF ScanSees
<1>9. /\ size' \in [AllProducers -> Nat] /\ nextExplicitConsumerId' \in Nat
      /\ globalExplicitConsumerOffset' \in Nat
  BY <1>1 DEF ScansInv
<1> QED BY <1>1, <1>3, <1>5, <1>7, <1>8, <1>9, SeesStep

(* Scans go on while threads and tokens add producers and elements.        *)
LEMMA ProduceScans ==
  ASSUME OwnersInv, ListInv, ScansInv, Produce, UNCHANGED consumerVars
  PROVE  ScansInv'
<1>1. Members \subseteq Members' /\ \A q \in Members : next'[q] = next[q]
  BY ProduceList DEF ListGrows
<1>2. Members \in SUBSET AllProducers /\ Inside(next, Members)
  BY ListedIs DEF ListInv, Chain
<1>3. UNCHANGED <<scan, consumerToken, nextExplicitConsumerId, globalExplicitConsumerOffset>>
  BY DEF consumerVars
<1>4. ASSUME NEW c \in Consumers
      PROVE  ScanSees(scan[c], consumerToken[c], next', Members') /\ Wants(consumerToken[c], Members')
  <2>1. PICK s : s = scan[c]
    OBVIOUS
  <2>2. PICK t : t = consumerToken[c]
    OBVIOUS
  <2>3. ScanSees(s, t, next, Members) /\ Wants(t, Members)
    BY <2>1, <2>2 DEF ScansInv
  <2>4. ScanSees(s, t, next', Members') /\ Wants(t, Members')
    BY <1>1, <1>2, <2>3, SeesKept
  <2> QED BY <2>1, <2>2, <2>4
<1>5. size' \in [AllProducers -> Nat]
  <2>1. size \in [AllProducers -> Nat]
    BY DEF ScansInv
  <2>2. ASSUME NEW a, Put(a) PROVE size' \in [AllProducers -> Nat]
    <3>1. PICK p : size' = [size EXCEPT ![p] = @ + 1] \/ size' = size
      BY <2>2 DEF Put
    <3>2. \A q \in AllProducers : size[q] + 1 \in Nat
      BY <2>1
    <3> QED BY <2>1, <3>1, <3>2
  <2>3. ASSUME NEW a, ProducerSteps(a) PROVE size' = size
    BY <2>3 DEF ProducerSteps, Visit, Create, LinkNext, Push
  <2>4. ASSUME NEW t, Enqueue(t) \/ ThreadSteps(t), ~Put(t) PROVE size' = size
    BY <2>3, <2>4 DEF Enqueue, ThreadSteps, LookUp, Grow, Resize, Room, Insert, NotMade
  <2>5. ASSUME NEW k, ~Put(k),
               \/ Construct(k) \/ TokenSteps(k) \/ TokenEnqueue(k) \/ Destroy(k)
               \/ \E l \in (Tokens \intersect cast) \ {k} : Swap(k, l)
        PROVE  size' = size
    BY <2>3, <2>5 DEF Construct, TokenSteps, TokenEnqueue, Destroy, Swap, Recycle, Constructed
  <2> QED BY <2>1, <2>2, <2>4, <2>5 DEF Produce
<1> QED BY <1>3, <1>4, <1>5 DEF ScansInv

(* ScansInv is inductive, given the invariants of the list.                *)
THEOREM ScansInvariant == Spec => []ScansInv
<1>1. Init => ScansInv
  <2> SUFFICES ASSUME Init PROVE ScansInv
    OBVIOUS
  <2>1. /\ nextExplicitConsumerId = 0 /\ globalExplicitConsumerOffset = 0
        /\ consumerToken = [c \in Consumers |-> NoToken] /\ scan = [c \in Consumers |-> Idle]
        /\ size \in [AllProducers -> 0 .. MaxElements]
    BY DEF Init, ProducersInit
  <2>2. size \in [AllProducers -> Nat]
    BY <2>1, ProducersAssumption
  <2>3. ScanSees(Idle, NoToken, next, Members) /\ Wants(NoToken, Members)
    BY PcsDiffer DEF ScanSees, Wants, Idle
  <2> QED BY <2>1, <2>2, <2>3 DEF ScansInv
<1>2. OwnersInv /\ ListInv /\ RotationInv /\ ScansInv /\ [Next]_vars => ScansInv'
  <2> SUFFICES ASSUME OwnersInv, ListInv, RotationInv, ScansInv, [Next]_vars PROVE ScansInv'
    OBVIOUS
  <2>1. CASE Produce /\ UNCHANGED consumerVars
    BY <2>1, ProduceScans
  <2>2. ASSUME NEW c \in Consumers, Consume(c) PROVE ScansInv'
    BY <2>2, ListScans, RotationScans, RingScans, NewTokenScans DEF Consume, ConsumerSteps
  <2>3. CASE UNCHANGED vars
    <3>1. UNCHANGED <<listVars, call, size, scan, consumerToken, nextExplicitConsumerId,
                      globalExplicitConsumerOffset>>
      BY <2>3 DEF vars, producerVars, consumerVars
    <3>2. next' = next /\ Members' = Members
      BY <3>1, ConsumeList DEF listVars
    <3> QED BY <3>1, <3>2 DEF ScansInv
  <2> QED BY <2>1, <2>2, <2>3 DEF Next
<1> QED BY <1>1, <1>2, OwnersInvariant, ListInvariant, RotationInvariant, PTL DEF Spec

(* A dequeue fails only after it has seen every sub-queue empty that was   *)
(* in the list when it began, however many producers were added meanwhile  *)
(* and wherever on the ring a token stood.                                 *)
THEOREM FailuresAreEmpty == Spec => []FailsOnlyIfAllEmpty
<1>1. ScansInv => FailsOnlyIfAllEmpty
  BY DEF ScansInv, ScanSees, FailsOnlyIfAllEmpty
<1> QED BY <1>1, ScansInvariant, PTL

(* The sub-queue that a dequeue is about to be called on is in the list:   *)
(* the pointer is never null, and neither is the one a token rotates to.   *)
DequeuesFromListed ==
  \A c \in Consumers :
    LET s == scan[c]
    IN /\ s.pc = "best" => s.best \in Listed
       /\ s.pc = "all" /\ s.ptr # NoProducer => s.ptr \in Listed
       /\ s.pc = "current" => consumerToken[c].currentProducer \in Listed
       /\ s.pc = "ring" => s.ptr \in Listed

(* No dequeue follows a null or stale pointer: best is set whenever a      *)
(* sub-queue was not empty, a rotation ends at a producer of the list, and *)
(* a ring never leaves it.                                                 *)
THEOREM DequeuesAreSafe == Spec => []DequeuesFromListed
<1>1. OwnersInv /\ ListInv /\ RotationInv /\ ScansInv => DequeuesFromListed
  <2> SUFFICES ASSUME OwnersInv, ListInv, RotationInv, ScansInv, NEW c \in Consumers
               PROVE  LET s == scan[c]
                      IN /\ s.pc = "best" => s.best \in Listed
                         /\ s.pc = "all" /\ s.ptr # NoProducer => s.ptr \in Listed
                         /\ s.pc = "current" => consumerToken[c].currentProducer \in Listed
                         /\ s.pc = "ring" => s.ptr \in Listed
    BY DEF DequeuesFromListed
  <2>1. Listed = Members
    BY ListedIs
  <2>2. PICK s : s = scan[c]
    OBVIOUS
  <2>3. PICK t : t = consumerToken[c]
    OBVIOUS
  <2>4. ScanSees(s, t, next, Members) /\ Wants(t, Members)
    BY <2>2, <2>3 DEF ScansInv
  <2>5. s.pc = "best" => s.best \in Members
    BY <2>4 DEF ScanSees, BestSees
  <2>6. s.pc = "all" /\ s.ptr # NoProducer => s.ptr \in Members
    BY <2>4 DEF ScanSees, AllSees
  <2>7. s.pc = "ring" => s.ptr \in Members
    BY <2>4 DEF ScanSees, RingSees
  <2>8. s.pc = "current" => t.currentProducer \in Members
    <3> SUFFICES ASSUME s.pc = "current" PROVE t.currentProducer \in Members
      OBVIOUS
    <3>1. DOMAIN t = TokenFields
      BY <2>2, <2>3, PcsDiffer DEF RotationInv, ScanOK
    <3>2. t # NoToken
      BY <3>1 DEF NoToken, TokenFields
    <3>3. t.desiredProducer # NoProducer
      BY <2>4 DEF ScanSees
    <3> QED BY <2>4, <3>2, <3>3 DEF Wants
  <2> QED BY <2>1, <2>2, <2>3, <2>5, <2>6, <2>7, <2>8
<1> QED BY <1>1, OwnersInvariant, ListInvariant, RotationInvariant, ScansInvariant, PTL

=============================================================================
