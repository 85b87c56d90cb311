------------------------------ MODULE JavaServer ------------------------------
(***************************************************************************)
(* The Java server (java/server/src/Server.java): the Face thread puts the *)
(* arrival time of each Interest in pending_interest, keyed by the name,   *)
(* and offers the name to the DataProcess threads, which look the time up, *)
(* remove it and answer.  The same name may arrive again while it is being *)
(* processed (a consumer retries, or another one asks for the same Data),  *)
(* so that several threads can work on one key.                            *)
(*                                                                         *)
(* The queue behaves as module ParkingQueue says, which LFBQ implements: a *)
(* thread that found it empty parks a step later, whatever was offered in  *)
(* between, and an offer wakes up the threads that are parked.  Exceptions *)
(* are caught, by doBenchmark, doDownload or the loop of run; the thread   *)
(* goes on with the next name.                                             *)
(***************************************************************************)
EXTENDS Naturals, Sequences, FiniteSets

CONSTANTS Workers,    \* the DataProcess threads
          Benchmark,  \* names whose second component is "benchmark"
          Segment,    \* names "download" / file / segment
          Length,     \* names "download" / file: the number of segments
          Other,      \* every other name under the prefix
          FileOf,     \* name in Segment -> file
          Existing,   \* the files that exist
          NoName,
          Arrivals    \* bound on the Interests that arrive

Names == Benchmark \cup Segment \cup Length \cup Other
Files == {FileOf[n] : n \in Segment}

ASSUME WorkersAssumption == IsFiniteSet(Workers)
ASSUME NamesAssumption ==
  /\ NoName \notin Names
  /\ Benchmark \cap Segment = {} /\ Length \cap (Benchmark \cup Segment) = {}
  /\ Other \cap (Benchmark \cup Segment \cup Length) = {}
  /\ DOMAIN FileOf = Segment
ASSUME ArrivalsAssumption == Arrivals \in Nat

VARIABLES
  arrived,           \* Interests that arrived so far
  face,              \* the name onInterest is working on, or NoName
  pending_interest,  \* the keys of the map
  queue,
  pc,                \* where each DataProcess thread is
  name,              \* its name field
  pending_files,     \* the files with an open channel in the map
  opened,            \* file -> channels opened for it so far
  waiting            \* auxiliary: names with an Interest not answered since,
                     \* unless an exception of a library call gave it up

vars == <<arrived, face, pending_interest, queue, pc, name, pending_files, opened, waiting>>
threadVars == <<pc, name, pending_files, opened>>

Init ==
  /\ arrived = 0
  /\ face = NoName
  /\ pending_interest = {}
  /\ queue = << >>
  /\ pc = [w \in Workers |-> "take"]
  /\ name = [w \in Workers |-> NoName]
  /\ pending_files = {}
  /\ opened = [f \in Files |-> 0]
  /\ waiting = {}
-----------------------------------------------------------------------------
(* onInterest: pending_interest.put, then queue.offer.                     *)
onInterestPut(n) ==
  /\ face = NoName /\ arrived < Arrivals
  /\ arrived' = arrived + 1
  /\ face' = n
  /\ pending_interest' = pending_interest \cup {n}
  /\ waiting' = waiting \cup {n}
  /\ UNCHANGED <<queue, threadVars>>

onInterestOffer ==
  /\ face # NoName
  /\ queue' = Append(queue, face)
  /\ pc' = [w \in Workers |-> IF pc[w] = "parked" THEN "take" ELSE pc[w]]
  /\ face' = NoName
  /\ UNCHANGED <<arrived, pending_interest, name, pending_files, opened, waiting>>
-----------------------------------------------------------------------------
Goto(w, l) == pc' = [pc EXCEPT ![w] = l]

(* DataProcess.run: queue.take() returns a name ...                        *)
take(w) ==
  /\ pc[w] = "take" /\ queue # << >>
  /\ name' = [name EXCEPT ![w] = Head(queue)]
  /\ queue' = Tail(queue)
  /\ Goto(w, "get")
  /\ UNCHANGED <<arrived, face, pending_interest, pending_files, opened, waiting>>

(* ... or finds the queue empty, and then parks, or is woken up at once    *)
(* because it is seen by an offer or has no slot to park in ...            *)
takeEmpty(w) ==
  /\ pc[w] = "take" /\ queue = << >>
  /\ Goto(w, "register")
  /\ UNCHANGED <<arrived, face, pending_interest, queue, name, pending_files, opened,
                 waiting>>

takeRegisters(w) ==
  /\ pc[w] = "register"
  /\ Goto(w, "parked") \/ Goto(w, "take")
  /\ UNCHANGED <<arrived, face, pending_interest, queue, name, pending_files, opened,
                 waiting>>

(* ... and park may return for no reason.                                  *)
takeReturns(w) ==
  /\ pc[w] = "parked"
  /\ Goto(w, "take")
  /\ UNCHANGED <<arrived, face, pending_interest, queue, name, pending_files, opened,
                 waiting>>

(* pending_interest.get: null when another thread has removed the key; the *)
(* NullPointerException drops the name.                                    *)
get(w) ==
  /\ pc[w] = "get"
  /\ Goto(w, IF name[w] \in pending_interest THEN "remove" ELSE "take")
  /\ UNCHANGED <<arrived, face, pending_interest, queue, name, pending_files, opened,
                 waiting>>

(* Fault: the key is left in the map.                                      *)
removeForgotten(w) ==
  /\ pc[w] = "remove"
  /\ Goto(w, CASE name[w] \in Benchmark \cup Length -> "put"
               [] name[w] \in Segment               -> "lookup"
               [] name[w] \in Other                 -> "take")
  /\ UNCHANGED <<arrived, face, pending_interest, queue, name, pending_files, opened,
                 waiting>>

(* Fault: the whole map is cleared, not only the key.                      *)
removeClears(w) ==
  /\ pc[w] = "remove"
  /\ pending_interest' = {}
  /\ Goto(w, CASE name[w] \in Benchmark \cup Length -> "put"
               [] name[w] \in Segment               -> "lookup"
               [] name[w] \in Other                 -> "take")
  /\ UNCHANGED <<arrived, face, queue, name, pending_files, opened, waiting>>

(* pending_interest.remove, then the switch on the second component.       *)
remove(w) ==
  /\ pc[w] = "remove"
  /\ pending_interest' = pending_interest \ {name[w]}
  /\ Goto(w, CASE name[w] \in Benchmark \cup Length -> "put"
               [] name[w] \in Segment               -> "lookup"
               [] name[w] \in Other                 -> "take")
  /\ UNCHANGED <<arrived, face, queue, name, pending_files, opened, waiting>>

(* Fault: a channel is opened whether the map has one or not.              *)
lookupAlwaysOpens(w) ==
  /\ pc[w] = "lookup"
  /\ Goto(w, IF FileOf[name[w]] \in Existing THEN "open" ELSE "read")
  /\ UNCHANGED <<arrived, face, pending_interest, queue, name, pending_files, opened,
                 waiting>>

(* doDownload, a segment: pending_files.get(file) == null && file exists   *)
lookup(w) ==
  /\ pc[w] = "lookup"
  /\ LET f == FileOf[name[w]]
     IN  Goto(w, IF f \notin pending_files /\ f \in Existing THEN "open" ELSE "read")
  /\ UNCHANGED <<arrived, face, pending_interest, queue, name, pending_files, opened,
                 waiting>>

(* Fault: the channel is opened and not put into the map.                  *)
openNotKept(w) ==
  /\ pc[w] = "open"
  /\ opened' = [opened EXCEPT ![FileOf[name[w]]] = @ + 1]
  /\ Goto(w, "read")
  /\ UNCHANGED <<arrived, face, pending_interest, queue, name, pending_files, waiting>>

(* pending_files.put(file, new channel): an older channel is forgotten and *)
(* not closed.                                                             *)
open(w) ==
  /\ pc[w] = "open"
  /\ pending_files' = pending_files \cup {FileOf[name[w]]}
  /\ opened' = [opened EXCEPT ![FileOf[name[w]]] = @ + 1]
  /\ Goto(w, "read")
  /\ UNCHANGED <<arrived, face, pending_interest, queue, name, waiting>>

(* ... or the file cannot be opened, and doDownload goes on without it.    *)
openFails(w) ==
  /\ pc[w] = "open"
  /\ Goto(w, "unopened")
  /\ UNCHANGED <<arrived, face, pending_interest, queue, name, pending_files, opened,
                 waiting>>

(* The thread works on its name and nobody else will have to.              *)
Working == {"remove", "lookup", "open", "unopened", "read", "put"}

(* The name of a thread that gives up, unless it arrived again or another  *)
(* thread works on it too.                                                 *)
GivenUp(w) == {n \in {name[w]} :
                 /\ n \notin pending_interest
                 /\ \A v \in Workers \ {w} : ~(name[v] = n /\ pc[v] \in Working)}

(* pending_files.get(file).read: a NullPointerException when the file is   *)
(* not in the map, and the name is dropped.                                *)
read(w) ==
  /\ pc[w] \in {"read", "unopened"}
  /\ IF FileOf[name[w]] \in pending_files
       THEN Goto(w, "put") /\ UNCHANGED waiting
       ELSE Goto(w, "take") /\ waiting' = IF pc[w] = "unopened" THEN waiting \ GivenUp(w)
                                                                ELSE waiting
  /\ UNCHANGED <<arrived, face, pending_interest, queue, name, pending_files, opened>>

(* Signature and face.putData, in doBenchmark and both cases of doDownload.*)
putData(w) ==
  /\ pc[w] = "put"
  /\ waiting' = waiting \ {name[w]}
  /\ Goto(w, "take")
  /\ UNCHANGED <<arrived, face, pending_interest, queue, name, pending_files, opened>>

(* ... or an exception in read, sign or putData: nothing is answered.      *)
putFails(w) ==
  /\ pc[w] = "put"
  /\ waiting' = waiting \ GivenUp(w)
  /\ Goto(w, "take")
  /\ UNCHANGED <<arrived, face, pending_interest, queue, name, pending_files, opened>>
-----------------------------------------------------------------------------
DataProcess(w) == \/ take(w) \/ takeEmpty(w) \/ takeRegisters(w)
                  \/ get(w) \/ remove(w) \/ lookup(w) \/ open(w) \/ openFails(w)
                  \/ read(w) \/ putData(w) \/ putFails(w)

Next == \/ \E n \in Names : onInterestPut(n)
        \/ onInterestOffer
        \/ \E w \in Workers : DataProcess(w) \/ takeReturns(w)

(* onInterest returns, and every thread that is not parked runs.           *)
Fairness == /\ WF_vars(onInterestOffer)
            /\ \A w \in Workers : WF_vars(DataProcess(w))

Spec == Init /\ [][Next]_vars
FairSpec == Spec /\ Fairness
-----------------------------------------------------------------------------
(* Every variable keeps its type.                                          *)
TypeOK ==
  /\ arrived \in 0..Arrivals
  /\ face \in Names \cup {NoName}
  /\ pending_interest \in SUBSET Names
  /\ queue \in Seq(Names)
  /\ pc \in [Workers -> {"take", "register", "parked", "get"} \cup Working]
  /\ name \in [Workers -> Names \cup {NoName}]
  /\ pending_files \in SUBSET (Files \cap Existing)
  /\ opened \in [Files -> Nat]
  /\ waiting \in SUBSET Names

(* The names the server is able to answer.                                 *)
Answerable == Benchmark \cup Length \cup {n \in Segment : FileOf[n] \in Existing}

Queued(n) == face = n \/ \E k \in DOMAIN queue : queue[k] = n

(* An exception never loses an Interest: as long as a name is unanswered,  *)
(* a thread is already past the lookup of its key, or the key is there and *)
(* a thread has taken the name or will.                                    *)
NameNotLost ==
  \A n \in waiting \cap Answerable :
    \/ \E w \in Workers : name[w] = n /\ pc[w] \in Working
    \/ /\ n \in pending_interest
       /\ \/ Queued(n)
          \/ \E w \in Workers : name[w] = n /\ pc[w] = "get"

(* The map never keeps a key that no thread will remove.                   *)
NoKeyLeft ==
  \A n \in pending_interest :
    Queued(n) \/ \E w \in Workers : name[w] = n /\ pc[w] \in {"get", "remove"}

(* The race between get and put on pending_files opens a file more than    *)
(* once, at most once per thread: later channels are not leaked.           *)
ChannelsBounded ==
  \A f \in Files :
    opened[f] + Cardinality({w \in Workers : pc[w] = "open" /\ FileOf[name[w]] = f})
      <= Cardinality(Workers)

(* Whatever the interleaving of the threads on one key, a name that can be *)
(* answered is answered after each of its arrivals, or given up to an      *)
(* exception -- unless the threads are all left parked for good, the       *)
(* wake-up that LFBQ may lose.                                             *)
AllParked == \A w \in Workers : pc[w] = "parked"
EveryNameAnswered ==
  ~<>[]AllParked =>
    \A n \in Names : (n \in waiting /\ n \in Answerable) ~> n \notin waiting
=============================================================================
