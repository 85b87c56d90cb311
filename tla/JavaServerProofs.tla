--------------------------- MODULE JavaServerProofs ---------------------------
(***************************************************************************)
(* What JavaServer guarantees for every number of DataProcess threads,     *)
(* every set of names and files and every number of Interests: no race on  *)
(* pending_interest or pending_files loses an Interest, leaves a key in    *)
(* the map or opens a file without bound.  ServerInv is the inductive      *)
(* invariant.                                                              *)
(*                                                                         *)
(* And of the queue between its threads: no consumer of LFBQ parks out of  *)
(* the producer's sight, for any number of consumers, offers and spurious  *)
(* returns of park.  QueueInv is its inductive invariant.                  *)
(***************************************************************************)
EXTENDS JavaServer, LFBQ, FiniteSetTheorems, SequenceTheorems, TLAPS

(* A thread that is past take has a name, and one that is inside the       *)
(* segment case of doDownload the name of a segment; it opens a channel    *)
(* only for a file that exists, and it reads from a file that exists only  *)
(* after a channel was put into the map.                                   *)
ThreadsOK ==
  \A w \in Workers :
    /\ pc[w] \in {"get"} \cup Working => name[w] \in Names
    /\ pc[w] \in {"lookup", "open", "unopened", "read"} => name[w] \in Segment
    /\ pc[w] = "open" => FileOf[name[w]] \in Existing
    /\ pc[w] = "read" /\ FileOf[name[w]] \in Existing =>
         FileOf[name[w]] \in pending_files

ServerInv == /\ TypeOK
             /\ ThreadsOK
             /\ NameNotLost
             /\ NoKeyLeft

(* What stands in the queue after take has removed its head.               *)
LEMMA TakeLeaves ==
  ASSUME NEW q \in Seq(Names), q # << >>, NEW n, NEW k \in DOMAIN q, q[k] = n
  PROVE  n = Head(q) \/ \E j \in DOMAIN Tail(q) : Tail(q)[j] = n
<1>1. CASE k = 1
  BY <1>1
<1>2. CASE k # 1
  <2>1. k - 1 \in DOMAIN Tail(q) /\ Tail(q)[k - 1] = q[k]
    BY <1>2
  <2> QED BY <2>1
<1> QED BY <1>1, <1>2

(* What stands in the queue after onInterest has offered a name.           *)
LEMMA OfferKeepsQueued ==
  ASSUME NEW q \in Seq(Names), NEW x \in Names
  PROVE  /\ \A k \in DOMAIN q : k \in DOMAIN Append(q, x) /\ Append(q, x)[k] = q[k]
         /\ Len(q) + 1 \in DOMAIN Append(q, x) /\ Append(q, x)[Len(q) + 1] = x
  OBVIOUS

(* A file named by a segment.                                              *)
LEMMA FileOfSegment == \A n \in Segment : FileOf[n] \in Files /\ n \in Names
  BY DEF Files, Names

(* The server before the first Interest.                                   *)
LEMMA InitServerInv == Init => ServerInv
<1> SUFFICES ASSUME Init PROVE ServerInv
  OBVIOUS
<1> USE DEF Init
<1>1. TypeOK
  <2>1. << >> \in Seq(Names) /\ 0 \in 0..Arrivals
    BY ArrivalsAssumption
  <2>2. pc \in [Workers -> {"take", "register", "parked", "get"} \cup Working]
    OBVIOUS
  <2> QED BY <2>1, <2>2 DEF TypeOK
<1>2. ThreadsOK
  BY DEF ThreadsOK, Working
<1>3. NameNotLost /\ NoKeyLeft
  BY DEF NameNotLost, NoKeyLeft
<1> QED BY <1>1, <1>2, <1>3 DEF ServerInv

(* Server.onInterest: the key is in the map before the name is offered.    *)
LEMMA PutKeeps ==
  ASSUME ServerInv, NEW n \in Names, onInterestPut(n)
  PROVE  ServerInv'
<1> USE DEF ServerInv, onInterestPut, threadVars
<1>1. TypeOK'
  BY ArrivalsAssumption DEF TypeOK
<1>2. ThreadsOK'
  BY DEF ThreadsOK
<1>3. face' = n /\ queue' = queue /\ face = NoName
  OBVIOUS
<1>4. \A m \in Names : Queued(m) => Queued(m)'
  BY <1>3, NamesAssumption DEF Queued
<1>5. Queued(n)'
  BY <1>3 DEF Queued
<1>6. waiting \subseteq Names /\ pending_interest \subseteq Names
  BY DEF TypeOK
<1>7. NameNotLost'
  BY <1>4, <1>5, <1>6 DEF NameNotLost
<1>8. NoKeyLeft'
  BY <1>4, <1>5, <1>6 DEF NoKeyLeft
<1> QED BY <1>1, <1>2, <1>7, <1>8

(* What is left of NameNotLost and NoKeyLeft when the threads only move in *)
(* and out of take.                                                        *)
LEMMA TakingKeeps ==
  ASSUME ServerInv, TypeOK',
         \A v \in Workers : \/ pc'[v] = pc[v]
                            \/ /\ pc[v] \notin {"get"} \cup Working
                               /\ pc'[v] \notin {"get"} \cup Working,
         UNCHANGED <<pending_interest, name, pending_files, waiting>>,
         \A m : Queued(m) => Queued(m)'
  PROVE  ServerInv'
<1>1. ThreadsOK'
  BY DEF ServerInv, ThreadsOK, Working
<1>2. \A v \in Workers : pc[v] \in {"get"} \cup Working => pc'[v] = pc[v]
  OBVIOUS
<1>3. NameNotLost'
  BY <1>2 DEF ServerInv, NameNotLost
<1>4. NoKeyLeft'
  BY <1>2 DEF ServerInv, NoKeyLeft, Working
<1> QED BY <1>1, <1>3, <1>4 DEF ServerInv

(* Server.onInterest: queue.offer.                                         *)
LEMMA OfferKeeps == ServerInv /\ onInterestOffer => ServerInv'
<1> SUFFICES ASSUME ServerInv, onInterestOffer PROVE ServerInv'
  OBVIOUS
<1>0. queue \in Seq(Names) /\ face \in Names /\ Append(queue, face) \in Seq(Names)
  BY DEF ServerInv, TypeOK, onInterestOffer
<1>1. \A v \in Workers : pc'[v] = pc[v] \/ (pc[v] = "parked" /\ pc'[v] = "take")
  BY DEF onInterestOffer
<1>2. TypeOK'
  <2>1. pc' \in [Workers -> {"take", "register", "parked", "get"} \cup Working]
    BY DEF ServerInv, TypeOK, onInterestOffer
  <2> QED BY <1>0, <2>1 DEF ServerInv, TypeOK, onInterestOffer
<1>3. \A m : Queued(m) => Queued(m)'
  BY <1>0, OfferKeepsQueued DEF Queued, onInterestOffer
<1>4. UNCHANGED <<pending_interest, name, pending_files, waiting>>
  BY DEF onInterestOffer
<1>5. "parked" \notin {"get"} \cup Working /\ "take" \notin {"get"} \cup Working
  BY DEF Working
<1> QED BY <1>1, <1>2, <1>3, <1>4, <1>5, TakingKeeps

(* DataProcess.run: queue.take finds nothing, parks and returns.           *)
LEMMA ParkKeeps ==
  ASSUME ServerInv, NEW w \in Workers, takeEmpty(w) \/ takeRegisters(w) \/ takeReturns(w)
  PROVE  ServerInv'
<1> USE DEF takeEmpty, takeRegisters, takeReturns, Goto
<1>1. /\ pc[w] \in {"take", "register", "parked"} /\ pc'[w] \in {"take", "register", "parked"}
      /\ \A v \in Workers \ {w} : pc'[v] = pc[v]
  BY DEF ServerInv, TypeOK
<1>2. TypeOK'
  <2>1. pc' \in [Workers -> {"take", "register", "parked", "get"} \cup Working]
    BY DEF ServerInv, TypeOK
  <2> QED BY <2>1 DEF ServerInv, TypeOK
<1>3. \A m : Queued(m) => Queued(m)'
  BY DEF Queued
<1>4. UNCHANGED <<pending_interest, name, pending_files, waiting>>
  OBVIOUS
<1>5. {"take", "register", "parked"} \cap ({"get"} \cup Working) = {}
  BY DEF Working
<1> HIDE DEF takeEmpty, takeRegisters, takeReturns
<1> QED BY <1>1, <1>2, <1>3, <1>4, <1>5, TakingKeeps

(* DataProcess.run: queue.take.                                            *)
LEMMA TakeKeeps == ASSUME ServerInv, NEW w \in Workers, take(w)
                   PROVE  ServerInv'
<1> USE DEF ServerInv, take, Goto, Working
<1>0. queue \in Seq(Names) /\ queue # << >> /\ Head(queue) \in Names
      /\ Tail(queue) \in Seq(Names)
  BY DEF TypeOK
<1>1. TypeOK'
  BY <1>0 DEF TypeOK
<1>2. /\ pc[w] = "take" /\ pc'[w] = "get" /\ name'[w] = Head(queue)
      /\ \A v \in Workers \ {w} : pc'[v] = pc[v] /\ name'[v] = name[v]
  BY DEF TypeOK
<1>3. ThreadsOK'
  BY <1>0, <1>2 DEF ThreadsOK
<1>4. \A m : Queued(m) => Queued(m)' \/ (name'[w] = m /\ pc'[w] = "get")
  BY <1>0, <1>2, TakeLeaves DEF Queued
<1>5. NameNotLost'
  <2> SUFFICES ASSUME NEW n \in waiting \cap Answerable
               PROVE  \/ \E v \in Workers : /\ name'[v] = n
                                            /\ pc'[v] \in Working
                      \/ /\ n \in pending_interest
                         /\ \/ Queued(n)'
                            \/ \E v \in Workers : name'[v] = n /\ pc'[v] = "get"
    BY DEF NameNotLost
  <2> QED BY <1>2, <1>4 DEF NameNotLost
<1>6. NoKeyLeft'
  BY <1>2, <1>4 DEF NoKeyLeft
<1> QED BY <1>1, <1>3, <1>5, <1>6

(* DataProcess.run: pending_interest.get.  When the key is gone, a thread  *)
(* that is past its own get answers the name.                              *)
LEMMA GetKeeps == ASSUME ServerInv, NEW w \in Workers, get(w)
                  PROVE  ServerInv'
<1> USE DEF ServerInv, get, Goto, Working
<1>1. TypeOK'
  BY DEF TypeOK
<1>2. /\ pc[w] = "get" /\ name' = name
      /\ pc'[w] = IF name[w] \in pending_interest THEN "remove" ELSE "take"
      /\ \A v \in Workers \ {w} : pc'[v] = pc[v]
  BY DEF TypeOK
<1>3. ThreadsOK'
  BY <1>2 DEF ThreadsOK
<1>4. \A m : Queued(m)' <=> Queued(m)
  BY DEF Queued
<1>5. NameNotLost'
  <2> SUFFICES ASSUME NEW n \in waiting \cap Answerable
               PROVE  \/ \E v \in Workers : /\ name[v] = n
                                            /\ pc'[v] \in Working
                      \/ /\ n \in pending_interest
                         /\ \/ Queued(n)
                            \/ \E v \in Workers : name[v] = n /\ pc'[v] = "get"
    BY <1>2, <1>4 DEF NameNotLost
  <2> QED BY <1>2 DEF NameNotLost
<1>6. NoKeyLeft'
  BY <1>2, <1>4 DEF NoKeyLeft
<1> QED BY <1>1, <1>3, <1>5, <1>6

(* DataProcess.run: pending_interest.remove.  The thread that removes the  *)
(* key is the one that answers.                                            *)
LEMMA RemoveKeeps == ASSUME ServerInv, NEW w \in Workers, remove(w)
                     PROVE  ServerInv'
<1> USE DEF ServerInv, remove, Goto, Working
<1>0. name[w] \in Names
  BY DEF ThreadsOK
<1>1. /\ pc[w] = "remove" /\ name' = name
      /\ pc'[w] \in {"put", "lookup", "take"}
      /\ pc'[w] = "lookup" => name[w] \in Segment
      /\ pc'[w] = "take" => name[w] \in Other
      /\ \A v \in Workers \ {w} : pc'[v] = pc[v]
  BY <1>0 DEF TypeOK, Names
<1>2. TypeOK'
  <2>1. pc' \in [Workers -> {"take", "register", "parked", "get"} \cup Working]
    BY <1>1 DEF TypeOK, Working
  <2> QED BY <2>1 DEF TypeOK
<1>3. ThreadsOK'
  BY <1>0, <1>1 DEF ThreadsOK
<1>4. \A m : Queued(m)' <=> Queued(m)
  BY DEF Queued
<1>5. waiting' = waiting /\ pending_interest' = pending_interest \ {name[w]}
  OBVIOUS
<1> HIDE DEF remove
<1>6. NameNotLost'
  <2> SUFFICES ASSUME NEW n \in waiting \cap Answerable
               PROVE  \/ \E v \in Workers : /\ name[v] = n
                                            /\ pc'[v] \in Working
                      \/ /\ n \in pending_interest \ {name[w]}
                         /\ \/ Queued(n)
                            \/ \E v \in Workers : name[v] = n /\ pc'[v] = "get"
    BY <1>1, <1>4, <1>5 DEF NameNotLost
  <2>1. n \notin Other
    BY NamesAssumption DEF Answerable
  <2>2. CASE name[w] = n
    BY <1>1, <2>1, <2>2
  <2>3. CASE name[w] # n
    BY <1>1, <2>3 DEF NameNotLost
  <2> QED BY <2>2, <2>3
<1>7. NoKeyLeft'
  BY <1>1, <1>4, <1>5 DEF NoKeyLeft
<1> QED BY <1>2, <1>3, <1>6, <1>7

(* Server.doDownload: pending_files.get.                                   *)
LEMMA LookupKeeps == ASSUME ServerInv, NEW w \in Workers, lookup(w)
                     PROVE  ServerInv'
<1> USE DEF ServerInv, lookup, Goto, Working
<1>1. TypeOK'
  BY DEF TypeOK
<1>2. /\ pc[w] = "lookup" /\ name' = name
      /\ pc'[w] = IF FileOf[name[w]] \notin pending_files /\ FileOf[name[w]] \in Existing
                    THEN "open" ELSE "read"
      /\ \A v \in Workers \ {w} : pc'[v] = pc[v]
  BY DEF TypeOK
<1>3. ThreadsOK'
  BY <1>2 DEF ThreadsOK
<1>4. \A m : Queued(m)' <=> Queued(m)
  BY DEF Queued
<1>5. \A v \in Workers :
        /\ pc[v] \in Working =>
             pc'[v] \in Working
        /\ pc[v] \in {"get", "remove"} => pc'[v] = pc[v]
  BY <1>2
<1>6. NameNotLost'
  BY <1>4, <1>5 DEF NameNotLost
<1>7. NoKeyLeft'
  BY <1>4, <1>5 DEF NoKeyLeft
<1> QED BY <1>1, <1>3, <1>6, <1>7

(* Server.doDownload: pending_files.put.                                   *)
LEMMA OpenKeeps == ASSUME ServerInv, NEW w \in Workers, open(w)
                   PROVE  ServerInv'
<1> USE DEF ServerInv, open, Goto, Working
<1>0. FileOf[name[w]] \in Files \cap Existing
  BY FileOfSegment DEF ThreadsOK
<1>1. TypeOK'
  BY <1>0 DEF TypeOK
<1>2. /\ pc[w] = "open" /\ name' = name /\ pc'[w] = "read"
      /\ \A v \in Workers \ {w} : pc'[v] = pc[v]
      /\ pending_files' = pending_files \cup {FileOf[name[w]]}
  BY DEF TypeOK
<1>3. ThreadsOK'
  BY <1>2 DEF ThreadsOK
<1>4. \A m : Queued(m)' <=> Queued(m)
  BY DEF Queued
<1>5. \A v \in Workers :
        /\ pc[v] \in Working =>
             pc'[v] \in Working
        /\ pc[v] \in {"get", "remove"} => pc'[v] = pc[v]
  BY <1>2
<1>6. NameNotLost'
  BY <1>4, <1>5 DEF NameNotLost
<1>7. NoKeyLeft'
  BY <1>4, <1>5 DEF NoKeyLeft
<1> QED BY <1>1, <1>3, <1>6, <1>7

(* Server.doDownload: the file cannot be opened.                           *)
LEMMA OpenFailsKeeps == ASSUME ServerInv, NEW w \in Workers, openFails(w)
                        PROVE  ServerInv'
<1> USE DEF ServerInv, openFails, Goto, Working
<1>1. TypeOK'
  BY DEF TypeOK
<1>2. /\ pc[w] = "open" /\ name' = name /\ pc'[w] = "unopened"
      /\ \A v \in Workers \ {w} : pc'[v] = pc[v]
  BY DEF TypeOK
<1>3. ThreadsOK'
  BY <1>2 DEF ThreadsOK
<1>4. \A m : Queued(m)' <=> Queued(m)
  BY DEF Queued
<1>5. \A v \in Workers :
        /\ pc[v] \in Working => pc'[v] \in Working
        /\ pc[v] \in {"get", "remove"} => pc'[v] = pc[v]
  BY <1>2
<1>6. NameNotLost'
  BY <1>4, <1>5 DEF NameNotLost
<1>7. NoKeyLeft'
  BY <1>4, <1>5 DEF NoKeyLeft
<1> QED BY <1>1, <1>3, <1>6, <1>7

(* A thread that gives its name up to an exception: if the name arrived    *)
(* since, its key is there and a thread will come for it, and if another   *)
(* thread works on it, that one answers.                                   *)
LEMMA GivingUpKeeps ==
  ASSUME ServerInv, NEW w \in Workers, pc[w] \in Working \ {"remove"}, TypeOK',
         pc' = [pc EXCEPT ![w] = "take"], waiting' = waiting \ GivenUp(w),
         UNCHANGED <<face, queue, pending_interest, name, pending_files>>
  PROVE  ServerInv'
<1> USE DEF ServerInv
<1>1. pc'[w] = "take" /\ \A v \in Workers \ {w} : pc'[v] = pc[v]
  BY DEF TypeOK
<1>2. ThreadsOK'
  BY <1>1 DEF ThreadsOK, Working
<1>3. \A m : Queued(m)' <=> Queued(m)
  BY DEF Queued
<1>4. NoKeyLeft'
  BY <1>1, <1>3 DEF NoKeyLeft, Working
<1>5. NameNotLost'
  <2> SUFFICES ASSUME NEW n \in waiting \cap Answerable, n \notin GivenUp(w)
               PROVE  \/ \E v \in Workers : name[v] = n /\ pc'[v] \in Working
                      \/ /\ n \in pending_interest
                         /\ \/ Queued(n)
                            \/ \E v \in Workers : name[v] = n /\ pc'[v] = "get"
    BY <1>3 DEF NameNotLost
  <2>1. CASE name[w] # n
    BY <1>1, <2>1 DEF NameNotLost, Working
  <2>2. CASE name[w] = n /\ n \in pending_interest
    <3>1. Queued(n) \/ \E v \in Workers : name[v] = n /\ pc[v] \in {"get", "remove"}
      BY <2>2 DEF NoKeyLeft
    <3>2. \A v \in Workers : pc[v] \in {"get", "remove"} => pc'[v] = pc[v]
      BY <1>1 DEF Working
    <3> QED BY <2>2, <3>1, <3>2 DEF Working
  <2>3. CASE name[w] = n /\ n \notin pending_interest
    <3>1. PICK v \in Workers \ {w} : name[v] = n /\ pc[v] \in Working
      BY <2>3 DEF GivenUp
    <3> QED BY <1>1, <3>1
  <2> QED BY <2>1, <2>2, <2>3
<1> QED BY <1>2, <1>4, <1>5

(* Server.doDownload: reading from the channel in the map.  It is missing  *)
(* for a file that does not exist or could not be opened.                  *)
LEMMA ReadKeeps == ASSUME ServerInv, NEW w \in Workers, read(w)
                   PROVE  ServerInv'
<1> USE DEF ServerInv, Goto
<1>1. /\ pc[w] \in {"read", "unopened"}
      /\ UNCHANGED <<arrived, face, pending_interest, queue, name, pending_files, opened>>
  BY DEF read
<1>2. CASE pc[w] = "unopened" /\ FileOf[name[w]] \notin pending_files
  <2>1. pc' = [pc EXCEPT ![w] = "take"] /\ waiting' = waiting \ GivenUp(w)
    BY <1>2 DEF read
  <2>2. TypeOK'
    BY <1>1, <2>1 DEF TypeOK
  <2> QED BY <1>1, <1>2, <2>1, <2>2, GivingUpKeeps DEF Working
<1>3. CASE ~(pc[w] = "unopened" /\ FileOf[name[w]] \notin pending_files)
  <2>1. /\ pc'[w] = (IF FileOf[name[w]] \in pending_files THEN "put" ELSE "take")
        /\ \A v \in Workers \ {w} : pc'[v] = pc[v]
        /\ waiting' = waiting
    BY <1>3 DEF read, TypeOK
  <2>2. TypeOK'
    <3>1. pc' \in [Workers -> {"take", "register", "parked", "get"} \cup Working]
      BY DEF read, TypeOK, Working
    <3> QED BY <1>1, <2>1, <3>1 DEF TypeOK
  <2>3. ThreadsOK'
    BY <1>1, <2>1 DEF ThreadsOK, Working
  <2>4. \A m : Queued(m)' <=> Queued(m)
    BY <1>1 DEF Queued
  <2>5. name[w] \in Segment /\ (FileOf[name[w]] \in Existing => pc'[w] = "put")
    BY <1>1, <1>3, <2>1 DEF ThreadsOK
  <2>6. name[w] \in Answerable => pc'[w] = "put"
    BY <2>5, NamesAssumption DEF Answerable
  <2>7. NameNotLost'
    BY <1>1, <2>1, <2>4, <2>6 DEF NameNotLost, Working
  <2>8. NoKeyLeft'
    BY <1>1, <2>1, <2>4 DEF NoKeyLeft
  <2> QED BY <2>2, <2>3, <2>7, <2>8
<1> QED BY <1>2, <1>3

(* Server.doBenchmark and doDownload: an exception in sign or putData.     *)
LEMMA PutFailsKeeps == ASSUME ServerInv, NEW w \in Workers, putFails(w)
                       PROVE  ServerInv'
<1>1. /\ pc[w] \in Working \ {"remove"}
      /\ pc' = [pc EXCEPT ![w] = "take"] /\ waiting' = waiting \ GivenUp(w)
      /\ UNCHANGED <<face, queue, pending_interest, name, pending_files>>
  BY DEF putFails, Goto, Working
<1>2. TypeOK'
  BY DEF ServerInv, TypeOK, putFails, Goto
<1> QED BY <1>1, <1>2, GivingUpKeeps

(* Server.doBenchmark and doDownload: face.putData.                        *)
LEMMA AnswerKeeps == ASSUME ServerInv, NEW w \in Workers, putData(w)
                     PROVE  ServerInv'
<1> USE DEF ServerInv, putData, Goto, Working
<1>1. TypeOK'
  BY DEF TypeOK
<1>2. /\ pc[w] = "put" /\ name' = name /\ pc'[w] = "take"
      /\ \A v \in Workers \ {w} : pc'[v] = pc[v]
      /\ waiting' = waiting \ {name[w]}
  BY DEF TypeOK
<1>3. ThreadsOK'
  BY <1>2 DEF ThreadsOK
<1>4. \A m : Queued(m)' <=> Queued(m)
  BY DEF Queued
<1>5. NameNotLost'
  BY <1>2, <1>4 DEF NameNotLost
<1>6. NoKeyLeft'
  BY <1>2, <1>4 DEF NoKeyLeft
<1> QED BY <1>1, <1>3, <1>5, <1>6

(* ServerInv is inductive.                                                 *)
THEOREM ServerInvariant == Spec => []ServerInv
<1>1. Init => ServerInv
  BY InitServerInv
<1>2. ServerInv /\ [Next]_vars => ServerInv'
  <2> SUFFICES ASSUME ServerInv, [Next]_vars PROVE ServerInv'
    OBVIOUS
  <2>1. CASE \E n \in Names : onInterestPut(n)
    BY <2>1, PutKeeps
  <2>2. CASE onInterestOffer
    BY <2>2, OfferKeeps
  <2>3. CASE \E w \in Workers : DataProcess(w) \/ takeReturns(w)
    BY <2>3, TakeKeeps, ParkKeeps, GetKeeps, RemoveKeeps, LookupKeeps, OpenKeeps,
       OpenFailsKeeps, ReadKeeps, AnswerKeeps, PutFailsKeeps DEF DataProcess
  <2>4. CASE UNCHANGED vars
    <3>1. TypeOK' /\ ThreadsOK'
      BY <2>4 DEF vars, ServerInv, TypeOK, ThreadsOK
    <3>2. NameNotLost' /\ NoKeyLeft'
      BY <2>4 DEF vars, ServerInv, NameNotLost, NoKeyLeft, Queued
    <3> QED BY <3>1, <3>2 DEF ServerInv
  <2> QED BY <2>1, <2>2, <2>3, <2>4 DEF Next
<1> QED BY <1>1, <1>2, PTL DEF Spec

(* Every field of Server and DataProcess keeps its type; in particular the *)
(* map of channels only holds files that exist.                            *)
THEOREM TypeCorrect == Spec => []TypeOK
<1>1. ServerInv => TypeOK
  BY DEF ServerInv
<1> QED BY <1>1, ServerInvariant, PTL

(* DataProcess.run: the NullPointerException that drops a name when its    *)
(* key is gone never drops the last chance of an Interest to be answered.  *)
THEOREM InterestsAreKept == Spec => []NameNotLost
<1>1. ServerInv => NameNotLost
  BY DEF ServerInv
<1> QED BY <1>1, ServerInvariant, PTL

(* Server.onInterest and DataProcess.run: a key of pending_interest is     *)
(* always followed by a thread that will remove it.                        *)
THEOREM KeysAreRemoved == Spec => []NoKeyLeft
<1>1. ServerInv => NoKeyLeft
  BY DEF ServerInv
<1> QED BY <1>1, ServerInvariant, PTL
-----------------------------------------------------------------------------
(* The channels.  While the map has no channel for a file none was opened; *)
(* from then on a thread that opens one was already on its way.            *)
Opening(f) == {w \in Workers : pc[w] = "open" /\ FileOf[name[w]] = f}
ChannelInv == /\ \A f \in Files : f \notin pending_files => opened[f] = 0
              /\ ChannelsBounded

(* The threads about to open a file can be counted.                        *)
LEMMA OpeningFinite ==
  ASSUME NEW f
  PROVE  /\ IsFiniteSet(Opening(f)) /\ Cardinality(Opening(f)) \in Nat
         /\ Cardinality(Opening(f)) <= Cardinality(Workers)
         /\ IsFiniteSet(Opening(f)') /\ Cardinality(Opening(f)') \in Nat
         /\ Cardinality(Opening(f)') <= Cardinality(Workers)
<1>1. Opening(f) \subseteq Workers /\ Opening(f)' \subseteq Workers
  BY DEF Opening
<1> QED BY <1>1, WorkersAssumption, FS_Subset, FS_CardinalityType

(* A step after which no more threads are about to open a file.            *)
LEMMA ChannelsStay ==
  ASSUME TypeOK, ChannelInv, UNCHANGED <<pending_files, opened>>,
         \A f \in Files : Opening(f)' \subseteq Opening(f)
  PROVE  ChannelInv'
<1> SUFFICES ASSUME NEW f \in Files
             PROVE  opened[f] + Cardinality(Opening(f)') <= Cardinality(Workers)
  BY DEF ChannelInv, ChannelsBounded, Opening
<1>1. opened[f] \in Nat /\ opened[f] + Cardinality(Opening(f)) <= Cardinality(Workers)
  BY DEF TypeOK, ChannelInv, ChannelsBounded, Opening
<1>2. Cardinality(Opening(f)') <= Cardinality(Opening(f))
  BY OpeningFinite, FS_Subset
<1>3. Cardinality(Workers) \in Nat
  BY WorkersAssumption, FS_CardinalityType
<1> QED BY <1>1, <1>2, <1>3, OpeningFinite

(* Server.doDownload: a thread sets out to open a file only while no       *)
(* channel was ever opened for it.                                         *)
LEMMA LookupBounds ==
  ASSUME TypeOK, ThreadsOK, ChannelInv, NEW w \in Workers, lookup(w)
  PROVE  ChannelInv'
<1> DEFINE g == FileOf[name[w]]
<1>1. /\ pc[w] = "lookup" /\ name' = name /\ UNCHANGED <<pending_files, opened>>
      /\ pc'[w] = IF g \notin pending_files /\ g \in Existing THEN "open" ELSE "read"
      /\ \A v \in Workers \ {w} : pc'[v] = pc[v]
  BY DEF TypeOK, lookup, Goto
<1>2. CASE g \in pending_files \/ g \notin Existing
  <2>1. \A f \in Files : Opening(f)' \subseteq Opening(f)
    BY <1>1, <1>2 DEF Opening
  <2> QED BY <1>1, <2>1, ChannelsStay
<1>3. CASE g \notin pending_files
  <2>1. g \in Files
    BY <1>1, FileOfSegment DEF ThreadsOK
  <2>2. opened[g] = 0
    BY <1>3, <2>1 DEF ChannelInv
  <2>3. Cardinality(Workers) \in Nat
    BY WorkersAssumption, FS_CardinalityType
  <2>4. \A f \in Files : f # g => Opening(f)' = Opening(f)
    BY <1>1 DEF Opening
  <2>5. ASSUME NEW f \in Files
        PROVE  opened[f] + Cardinality(Opening(f)') <= Cardinality(Workers)
    <3>1. CASE f = g
      BY <2>2, <2>3, <3>1, OpeningFinite
    <3>2. CASE f # g
      BY <2>4, <3>2 DEF ChannelInv, ChannelsBounded, Opening
    <3> QED BY <3>1, <3>2
  <2> QED BY <1>1, <2>5 DEF ChannelInv, ChannelsBounded, Opening
<1> QED BY <1>2, <1>3

(* Server.doDownload: a thread that opens a channel was about to.          *)
LEMMA OpenBounds ==
  ASSUME TypeOK, ThreadsOK, ChannelInv, NEW w \in Workers, open(w)
  PROVE  ChannelInv'
<1>0. PICK g : g = FileOf[name[w]]
  OBVIOUS
<1>1. /\ pc[w] = "open" /\ name' = name /\ pc'[w] = "read"
      /\ pending_files' = pending_files \cup {g}
      /\ \A v \in Workers \ {w} : pc'[v] = pc[v]
  BY <1>0 DEF TypeOK, open, Goto
<1>2. g \in Files
  BY <1>0, <1>1, FileOfSegment DEF ThreadsOK
<1>3. /\ opened'[g] = opened[g] + 1 /\ opened[g] \in Nat
      /\ \A f \in Files \ {g} : opened'[f] = opened[f]
  BY <1>0, <1>2 DEF TypeOK, open
<1>4. w \in Opening(g) /\ Opening(g)' = Opening(g) \ {w}
  BY <1>0, <1>1 DEF Opening
<1>5. Cardinality(Opening(g)') = Cardinality(Opening(g)) - 1
  BY <1>4, OpeningFinite, FS_RemoveElement
<1>6. \A f \in Files \ {g} : Opening(f)' = Opening(f)
  BY <1>0, <1>1 DEF Opening
<1>7. ASSUME NEW f \in Files
      PROVE  opened'[f] + Cardinality(Opening(f)') <= Cardinality(Workers)
  <2>1. opened[f] + Cardinality(Opening(f)) <= Cardinality(Workers)
    BY DEF ChannelInv, ChannelsBounded, Opening
  <2>2. CASE f = g
    <3>1. Cardinality(Workers) \in Nat /\ Cardinality(Opening(g)) \in Nat
      BY WorkersAssumption, FS_CardinalityType, OpeningFinite
    <3> QED BY <1>3, <1>5, <2>1, <2>2, <3>1
  <2>3. CASE f # g
    BY <1>3, <1>6, <2>1, <2>3
  <2> QED BY <2>2, <2>3
<1>8. \A f \in Files : f \notin pending_files' => opened'[f] = 0
  BY <1>1, <1>3 DEF ChannelInv
<1> QED BY <1>7, <1>8 DEF ChannelInv, ChannelsBounded, Opening

(* Server.doDownload: the race between get and put on pending_files opens  *)
(* a file at most once per DataProcess thread, however many Interests for  *)
(* it arrive.                                                              *)
THEOREM ChannelsAreBounded == Spec => []ChannelsBounded
<1>1. Init => ChannelInv
  <2> SUFFICES ASSUME Init PROVE ChannelInv
    OBVIOUS
  <2>1. \A f : Opening(f) = {}
    BY DEF Init, Opening
  <2>2. Cardinality(Workers) \in Nat
    BY WorkersAssumption, FS_CardinalityType
  <2>3. \A f \in Files : opened[f] + Cardinality(Opening(f)) <= Cardinality(Workers)
    BY <2>1, <2>2, FS_EmptySet DEF Init
  <2> QED BY <2>3 DEF Init, ChannelInv, ChannelsBounded, Opening
<1>2. ServerInv /\ ChannelInv /\ [Next]_vars => ChannelInv'
  <2> SUFFICES ASSUME ServerInv, ChannelInv, [Next]_vars PROVE ChannelInv'
    OBVIOUS
  <2>0. TypeOK /\ ThreadsOK
    BY DEF ServerInv
  <2>1. CASE \E w \in Workers : lookup(w)
    BY <2>0, <2>1, LookupBounds
  <2>2. CASE \E w \in Workers : open(w)
    BY <2>0, <2>2, OpenBounds
  <2>3. CASE \E w \in Workers : \/ take(w) \/ takeEmpty(w) \/ takeRegisters(w) \/ takeReturns(w)
                               \/ get(w) \/ remove(w) \/ openFails(w) \/ read(w)
                               \/ putData(w) \/ putFails(w)
    <3> PICK w \in Workers : \/ take(w) \/ takeEmpty(w) \/ takeRegisters(w) \/ takeReturns(w)
                             \/ get(w) \/ remove(w) \/ openFails(w) \/ read(w)
                             \/ putData(w) \/ putFails(w)
      BY <2>3
    <3>1. UNCHANGED <<pending_files, opened>>
      BY DEF take, takeEmpty, takeRegisters, takeReturns, get, remove, openFails, read, putData,
             putFails
    <3>2. /\ pc'[w] # "open"
          /\ \A v \in Workers \ {w} : pc'[v] = pc[v] /\ name'[v] = name[v]
      <4>1. CASE take(w)
        BY <2>0, <4>1 DEF take, Goto, TypeOK
      <4>2. CASE get(w) \/ openFails(w) \/ read(w) \/ putData(w) \/ putFails(w)
        BY <2>0, <4>2 DEF get, openFails, read, putData, putFails, Goto, TypeOK
      <4>3. CASE remove(w)
        <5>1. name[w] \in Names
          BY <2>0, <4>3 DEF ThreadsOK, remove, Working
        <5> QED BY <2>0, <4>3, <5>1 DEF remove, Goto, TypeOK, Names
      <4>4. CASE takeEmpty(w) \/ takeRegisters(w) \/ takeReturns(w)
        BY <2>0, <4>4 DEF takeEmpty, takeRegisters, takeReturns, Goto, TypeOK
      <4> QED BY <4>1, <4>2, <4>3, <4>4
    <3>3. \A f \in Files : Opening(f)' \subseteq Opening(f)
      BY <3>2 DEF Opening
    <3> QED BY <2>0, <3>1, <3>3, ChannelsStay
  <2>4. CASE (\E n \in Names : onInterestPut(n)) \/ onInterestOffer \/ UNCHANGED vars
    <3>1. /\ UNCHANGED <<pending_files, opened, name>>
          /\ \A v \in Workers : pc'[v] = "open" => pc[v] = "open"
      BY <2>4 DEF onInterestPut, onInterestOffer, threadVars, vars
    <3>2. \A f \in Files : Opening(f)' \subseteq Opening(f)
      BY <3>1 DEF Opening
    <3> QED BY <2>0, <3>1, <3>2, ChannelsStay
  <2> QED BY <2>1, <2>2, <2>3, <2>4 DEF Next, DataProcess
<1>3. ChannelInv => ChannelsBounded
  BY DEF ChannelInv
<1> QED BY <1>1, <1>2, <1>3, ServerInvariant, PTL DEF Spec
-----------------------------------------------------------------------------
(* Between get and set the slot still holds the thread offer has read: a   *)
(* consumer only fills empty slots, and there is one producer.             *)
SlotStable == producer = "clear" => consumerWorker[pindex] = threadToNotify

QueueInv == QueueTypeOK /\ SlotStable /\ ParkedIsFindable

(* The length of consumerWorker is a number.                               *)
LEMMA SlotCount == consumer \in Nat
  BY ConsumersAssumption, FS_CardinalityType DEF consumer

(* The constructor: all slots are empty and nobody is parked.              *)
LEMMA InitQueueInv == QueueInit => QueueInv
<1> SUFFICES ASSUME QueueInit PROVE QueueInv
  OBVIOUS
<1>1. deque \in Seq(Nat)
  BY EmptySeq DEF QueueInit
<1>2. QueueTypeOK
  BY <1>1, SlotCount, BoundsAssumption DEF QueueInit, QueueTypeOK
<1> QED BY <1>2 DEF QueueInit, QueueInv, SlotStable, ParkedIsFindable

(* LFBQ.offer                                                              *)
LEMMA QueueOfferKeeps == QueueInv /\ offer => QueueInv'
<1> SUFFICES ASSUME QueueInv, offer PROVE QueueInv'
  OBVIOUS
<1> USE SlotCount, BoundsAssumption DEF QueueInv, consumerVars
<1>1. CASE offerLast
  <2>1. deque' \in Seq(Nat)
    BY <1>1 DEF offerLast, QueueTypeOK
  <2>2. offered \in Nat /\ offered' \in 0..Offers /\ covered' \subseteq 1..(offered')
    BY <1>1 DEF offerLast, QueueTypeOK
  <2>3. QueueTypeOK'
    BY <1>1, <2>1, <2>2 DEF offerLast, QueueTypeOK
  <2> QED BY <1>1, <2>3 DEF offerLast, SlotStable, ParkedIsFindable
<1>2. CASE offerGet
  <2>1. CASE pindex < consumer
    <3>1. pindex \in Slots
      BY <2>1 DEF QueueTypeOK, Slots
    <3>2. QueueTypeOK'
      BY <1>2, <2>1, <3>1 DEF offerGet, QueueTypeOK
    <3> QED BY <1>2, <2>1, <3>2 DEF offerGet, SlotStable, ParkedIsFindable
  <2>2. CASE ~(pindex < consumer)
    BY <1>2, <2>2 DEF offerGet, QueueTypeOK, SlotStable, ParkedIsFindable
  <2> QED BY <2>1, <2>2
<1>3. CASE offerClear
  <2>1. QueueTypeOK'
    BY <1>3 DEF offerClear, QueueTypeOK
  <2>2. ParkedIsFindable'
    <3> SUFFICES ASSUME NEW c \in Consumers, place[c] = "park", ~permit[c],
                        threadToNotify # c
                 PROVE  \E k \in Slots : consumerWorker'[k] = c
      BY <1>3 DEF offerClear, ParkedIsFindable
    <3>1. PICK k \in Slots : consumerWorker[k] = c
      BY DEF ParkedIsFindable
    <3>2. k # pindex
      BY <1>3, <3>1 DEF offerClear, SlotStable
    <3> QED BY <1>3, <3>1, <3>2 DEF offerClear, QueueTypeOK
  <2> QED BY <1>3, <2>1, <2>2 DEF offerClear, SlotStable
<1>4. CASE offerUnpark
  <2>1. threadToNotify \in Consumers /\ pindex \in Slots /\ pindex + 1 \in 0..consumer
    BY <1>4 DEF offerUnpark, QueueTypeOK, Slots
  <2>2. QueueTypeOK'
    BY <1>4, <2>1 DEF offerUnpark, QueueTypeOK
  <2>3. ParkedIsFindable'
    BY <1>4, <2>1 DEF offerUnpark, QueueTypeOK, ParkedIsFindable
  <2> QED BY <1>4, <2>2, <2>3 DEF offerUnpark, SlotStable
<1> QED BY <1>1, <1>2, <1>3, <1>4 DEF offer

(* LFBQ.take, and park returning for no reason.                            *)
LEMMA QueueTakeKeeps == ASSUME QueueInv, NEW c \in Consumers, takeStep(c) \/ parkSpurious(c)
                   PROVE  QueueInv'
<1> USE SlotCount, BoundsAssumption DEF QueueInv, producerVars
<1>1. CASE pollFirst(c)
  <2>1. deque' \in Seq(Nat)
    <3>1. deque # << >> => Tail(deque) \in Seq(Nat)
      BY HeadTailProperties DEF QueueTypeOK
    <3> QED BY <1>1, <3>1 DEF pollFirst, QueueTypeOK
  <2>2. /\ place' \in [Consumers -> {"poll", "busy", "register", "park", "parkNanos"}]
        /\ cindex' \in [Consumers -> 0..consumer]
    <3>1. CASE deque # << >>
      BY <1>1, <3>1 DEF pollFirst, QueueTypeOK
    <3>2. CASE deque = << >>
      BY <1>1, <3>2 DEF pollFirst, QueueTypeOK
    <3> QED BY <3>1, <3>2
  <2>3. QueueTypeOK'
    BY <1>1, <2>1, <2>2 DEF pollFirst, QueueTypeOK
  <2> QED BY <1>1, <2>3 DEF pollFirst, QueueTypeOK, SlotStable, ParkedIsFindable
<1>2. CASE process(c)
  BY <1>2 DEF process, QueueTypeOK, SlotStable, ParkedIsFindable
<1>3. CASE register(c)
  <2>1. CASE cindex[c] = consumer
    BY <1>3, <2>1 DEF register, QueueTypeOK, SlotStable, ParkedIsFindable
  <2>2. CASE cindex[c] # consumer
    <3>1. cindex[c] \in Slots /\ cindex[c] + 1 \in 0..consumer
      BY <2>2 DEF QueueTypeOK, Slots
    <3>2. CASE consumerWorker[cindex[c]] = NoThread
      <4>1. QueueTypeOK'
        BY <1>3, <2>2, <3>1, <3>2 DEF register, QueueTypeOK
      <4>2. SlotStable'
        BY <1>3, <2>2, <3>1, <3>2 DEF register, QueueTypeOK, SlotStable
      <4>3. ParkedIsFindable'
        BY <1>3, <2>2, <3>1, <3>2, ConsumersAssumption
           DEF register, QueueTypeOK, ParkedIsFindable
      <4> QED BY <4>1, <4>2, <4>3
    <3>3. CASE consumerWorker[cindex[c]] # NoThread
      BY <1>3, <2>2, <3>1, <3>3 DEF register, QueueTypeOK, SlotStable, ParkedIsFindable
    <3> QED BY <3>2, <3>3
  <2> QED BY <2>1, <2>2
<1>4. CASE park(c)
  BY <1>4 DEF park, QueueTypeOK, SlotStable, ParkedIsFindable
<1>5. CASE parkSpurious(c)
  BY <1>5 DEF parkSpurious, QueueTypeOK, SlotStable, ParkedIsFindable
<1>6. CASE parkNanos(c)
  BY <1>6 DEF parkNanos, QueueTypeOK, SlotStable, ParkedIsFindable
<1> QED BY <1>1, <1>2, <1>3, <1>4, <1>5, <1>6 DEF takeStep

(* LFBQ: the types, and where a parked thread can be found, hold in every  *)
(* reachable state.                                                        *)
THEOREM QueueInvariant == QueueSpec => []QueueInv
<1>1. QueueInit => QueueInv
  BY InitQueueInv
<1>2. QueueInv /\ [QueueNext]_queueVars => QueueInv'
  <2> SUFFICES ASSUME QueueInv, [QueueNext]_queueVars PROVE QueueInv'
    OBVIOUS
  <2>1. CASE offer
    BY <2>1, QueueOfferKeeps
  <2>2. CASE \E c \in Consumers : takeStep(c) \/ parkSpurious(c)
    BY <2>2, QueueTakeKeeps
  <2>3. CASE UNCHANGED queueVars
    BY <2>3 DEF queueVars, producerVars, consumerVars, QueueInv, QueueTypeOK, SlotStable,
                ParkedIsFindable
  <2> QED BY <2>1, <2>2, <2>3 DEF QueueNext, offer
<1> QED BY <1>1, <1>2, PTL DEF QueueSpec

(* LFBQ: the loop indexes stay within consumerWorker, and offer never      *)
(* calls unpark with null.                                                 *)
THEOREM QueueTypeCorrect == QueueSpec => []QueueTypeOK
<1>1. QueueInv => QueueTypeOK
  BY DEF QueueInv
<1> QED BY <1>1, QueueInvariant, PTL

(* LFBQ: a thread blocked in take can always be found by the next offer,   *)
(* or is about to be unparked by the current one.                          *)
THEOREM ParkedThreadsAreFindable == QueueSpec => []ParkedIsFindable
<1>1. QueueInv => ParkedIsFindable
  BY DEF QueueInv
<1> QED BY <1>1, QueueInvariant, PTL
=============================================================================
