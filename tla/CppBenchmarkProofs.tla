-------------------------- MODULE CppBenchmarkProofs --------------------------
(***************************************************************************)
(* What CppBenchmark guarantees for every window, every retry budget and   *)
(* every length of the run.  BenchmarkInv is the inductive invariant.      *)
(***************************************************************************)
EXTENDS CppBenchmark, FiniteSetTheorems, TLAPS

(* A name is awaited by one Interest at a time.                            *)
OneInterestPerName == \A i, j \in interests : i.name = j.name => i = j

(* Before run nothing was requested.                                       *)
NothingYet == status = "starting" => interests = {} /\ received = {}

(* The Data counted are the names received: no Data is counted twice.      *)
Counted ==
  /\ IsFiniteSet(received)
  /\ pkt_count <= Cardinality(received)
  /\ RatesAddUp

BenchmarkInv == /\ TypeOK
                /\ NothingYet
                /\ OneInterestPerName
                /\ EveryNameOnce
                /\ Counted

(* An Interest that is sent again keeps its name and its place.            *)
LEMMA SentAgain ==
  ASSUME BenchmarkInv, NEW i \in interests, NEW n \in Nat,
         interests' = (interests \ {i}) \cup {Interest(i.name, n)}
  PROVE  /\ interests' \in SUBSET [name : Nat, n : Nat]
         /\ Outstanding' = Outstanding
         /\ OneInterestPerName'
<1>1. i \in [name : Nat, n : Nat]
  BY DEF BenchmarkInv, TypeOK
<1>2. PICK new : new = Interest(i.name, n)
  OBVIOUS
<1>3. new \in [name : Nat, n : Nat] /\ new.name = i.name
  BY <1>1, <1>2 DEF Interest
<1>4. interests' = (interests \ {i}) \cup {new}
  BY <1>2
<1>5. interests' \in SUBSET [name : Nat, n : Nat]
  BY <1>3, <1>4 DEF BenchmarkInv, TypeOK
<1>6. Outstanding' = Outstanding
  BY <1>3, <1>4 DEF Outstanding
<1>7. OneInterestPerName'
  BY <1>3, <1>4 DEF BenchmarkInv, OneInterestPerName
<1> QED BY <1>5, <1>6, <1>7

(* The initial state.                                                      *)
LEMMA InitBenchmarkInv == Init => BenchmarkInv
<1> SUFFICES ASSUME Init PROVE BenchmarkInv
  OBVIOUS
<1>1. IsFiniteSet(received) /\ Cardinality(received) = 0
  BY FS_EmptySet DEF Init
<1>2. TypeOK /\ NothingYet /\ OneInterestPerName /\ EveryNameOnce
  BY DEF Init, TypeOK, NothingYet, OneInterestPerName, EveryNameOnce
<1>3. Counted
  BY <1>1 DEF Init, Counted, RatesAddUp
<1> QED BY <1>2, <1>3 DEF BenchmarkInv

(* Client::run sends the first Window names.                               *)
LEMMA RunKeeps == BenchmarkInv /\ run => BenchmarkInv'
<1> SUFFICES ASSUME BenchmarkInv, run PROVE BenchmarkInv'
  OBVIOUS
<1>1. received = {} /\ received' = received
  BY DEF BenchmarkInv, NothingYet, run
<1>2. interests' \in SUBSET [name : Nat, n : Nat]
  BY WindowAssumption, RetriesAssumption DEF run, Interest
<1>3. TypeOK'
  BY <1>2, WindowAssumption DEF BenchmarkInv, TypeOK, run, reportVars
<1>4. NothingYet' /\ OneInterestPerName'
  BY DEF run, NothingYet, OneInterestPerName, Interest
<1>5. Outstanding' = 0..(Window - 1)
  <2>1. \A i \in interests' : i.name \in 0..(Window - 1)
    BY DEF run, Interest
  <2>2. ASSUME NEW k \in 0..(Window - 1) PROVE \E i \in interests' : i.name = k
    <3>1. Interest(k, Retries) \in interests' /\ Interest(k, Retries).name = k
      BY DEF run, Interest
    <3> QED BY <3>1
  <2> QED BY <2>1, <2>2 DEF Outstanding
<1>6. EveryNameOnce'
  BY <1>1, <1>5 DEF run, EveryNameOnce
<1>7. Counted'
  BY DEF BenchmarkInv, Counted, RatesAddUp, run, reportVars
<1> QED BY <1>3, <1>4, <1>6, <1>7 DEF BenchmarkInv

(* onData: the name answered is a new one of received, the name sent was   *)
(* never used.                                                             *)
LEMMA DataKeeps ==
  ASSUME BenchmarkInv, NEW i \in interests, NEW r \in Rtts, onData(i, r)
  PROVE  BenchmarkInv'
<1>1. /\ status = "running" /\ status' = "running"
      /\ i \in [name : Nat, n : Nat] /\ i.name \in Outstanding
      /\ current_packet \in Nat /\ r \in Nat
  BY RttsAssumption DEF BenchmarkInv, TypeOK, onData, Outstanding
<1>2. /\ Outstanding \cap received = {}
      /\ Outstanding \cup received = 0..(current_packet - 1)
  BY <1>1 DEF BenchmarkInv, EveryNameOnce
<1>3. PICK new : new = Interest(current_packet, Retries)
  OBVIOUS
<1>4. new \in [name : Nat, n : Nat] /\ new.name = current_packet
  BY <1>1, <1>3, RetriesAssumption DEF Interest
<1>5. interests' = (interests \ {i}) \cup {new}
  BY <1>3 DEF onData
<1>6. current_packet \notin Outstanding /\ current_packet \notin received
  BY <1>1, <1>2
<1>7. TypeOK'
  <2>1. interests' \in SUBSET [name : Nat, n : Nat]
    BY <1>4, <1>5 DEF BenchmarkInv, TypeOK
  <2>2. rtt' \in Nat /\ current_packet' \in Nat /\ pkt_count' \in Nat
    BY <1>1 DEF BenchmarkInv, TypeOK, onData
  <2>3. received' \in SUBSET Nat
    BY <1>1 DEF BenchmarkInv, TypeOK, onData
  <2> QED BY <2>1, <2>2, <2>3 DEF BenchmarkInv, TypeOK, onData, reportVars
<1>8. NothingYet'
  BY <1>1 DEF NothingYet
<1>9. \A j \in interests \ {i} : j.name # i.name /\ j.name # current_packet
  BY <1>6 DEF BenchmarkInv, OneInterestPerName, Outstanding
<1>10. OneInterestPerName'
  BY <1>4, <1>5, <1>9 DEF BenchmarkInv, OneInterestPerName
<1>11. Outstanding' = (Outstanding \ {i.name}) \cup {current_packet}
  BY <1>4, <1>5, <1>9 DEF Outstanding
<1>12. EveryNameOnce'
  <2>1. received' = received \cup {i.name} /\ current_packet' = current_packet + 1
    BY DEF onData
  <2>2. 0..(current_packet' - 1) = 0..(current_packet - 1) \cup {current_packet}
    BY <1>1, <2>1
  <2> QED BY <1>1, <1>2, <1>6, <1>11, <2>1, <2>2 DEF EveryNameOnce
<1>13. Counted'
  <2>1. IsFiniteSet(received) /\ i.name \notin received
    BY <1>1, <1>2 DEF BenchmarkInv, Counted
  <2>2. /\ IsFiniteSet(received')
        /\ Cardinality(received') = Cardinality(received) + 1
    BY <2>1, FS_AddElement DEF onData
  <2>3. Cardinality(received) \in Nat
    BY <2>1, FS_CardinalityType
  <2> QED BY <2>2, <2>3
          DEF BenchmarkInv, TypeOK, Counted, RatesAddUp, onData, reportVars
<1> QED BY <1>7, <1>8, <1>10, <1>12, <1>13 DEF BenchmarkInv

(* onTimeout.                                                              *)
LEMMA TimeoutKeeps ==
  ASSUME BenchmarkInv, NEW i \in interests, onTimeout(i)
  PROVE  BenchmarkInv'
<1>0. i \in [name : Nat, n : Nat] /\ status = "running"
  BY DEF BenchmarkInv, TypeOK, onTimeout
<1>1. Counted'
  BY DEF BenchmarkInv, Counted, RatesAddUp, onTimeout, reportVars
<1>2. CASE i.n > 0
  <2>1. /\ i.n - 1 \in Nat
        /\ interests' = (interests \ {i}) \cup {Interest(i.name, i.n - 1)}
        /\ status' = "running"
    BY <1>0, <1>2 DEF onTimeout
  <2>2. /\ interests' \in SUBSET [name : Nat, n : Nat]
        /\ Outstanding' = Outstanding
        /\ OneInterestPerName'
    BY <2>1, SentAgain
  <2>3. TypeOK' /\ NothingYet'
    BY <2>1, <2>2 DEF BenchmarkInv, TypeOK, NothingYet, onTimeout, reportVars
  <2>4. EveryNameOnce'
    BY <1>0, <2>2 DEF BenchmarkInv, EveryNameOnce, onTimeout
  <2> QED BY <1>1, <2>2, <2>3, <2>4 DEF BenchmarkInv
<1>3. CASE ~(i.n > 0)
  <2>1. interests' = interests \ {i} /\ status' = "timeout"
    BY <1>3 DEF onTimeout
  <2> QED BY <1>1, <2>1 DEF BenchmarkInv, TypeOK, NothingYet, OneInterestPerName,
                            EveryNameOnce, onTimeout, reportVars
<1> QED BY <1>2, <1>3

(* onNack.                                                                 *)
LEMMA NackKeeps ==
  ASSUME BenchmarkInv, NEW i \in interests, onNack(i)
  PROVE  BenchmarkInv'
<1>0. i \in [name : Nat, n : Nat] /\ status = "running"
  BY DEF BenchmarkInv, TypeOK, onNack
<1>1. Counted'
  BY DEF BenchmarkInv, Counted, RatesAddUp, onNack, reportVars
<1>2. CASE ~exit_on_nack
  <2>1. /\ interests' = (interests \ {i}) \cup {Interest(i.name, Retries)}
        /\ status' = "running"
    BY <1>0, <1>2 DEF onNack
  <2>2. /\ interests' \in SUBSET [name : Nat, n : Nat]
        /\ Outstanding' = Outstanding
        /\ OneInterestPerName'
    BY <2>1, SentAgain, RetriesAssumption
  <2>3. TypeOK' /\ NothingYet'
    BY <2>1, <2>2 DEF BenchmarkInv, TypeOK, NothingYet, onNack, reportVars
  <2>4. EveryNameOnce'
    BY <1>0, <2>2 DEF BenchmarkInv, EveryNameOnce, onNack
  <2> QED BY <1>1, <2>2, <2>3, <2>4 DEF BenchmarkInv
<1>3. CASE exit_on_nack
  <2>1. interests' = interests \ {i} /\ status' = "nack"
    BY <1>3 DEF onNack
  <2> QED BY <1>1, <2>1 DEF BenchmarkInv, TypeOK, NothingYet, OneInterestPerName,
                            EveryNameOnce, onNack, reportVars
<1> QED BY <1>2, <1>3

(* display: what the halving cuts off is at most one packet.               *)
LEMMA DisplayKeeps == BenchmarkInv /\ display => BenchmarkInv'
<1> SUFFICES ASSUME BenchmarkInv, display PROVE BenchmarkInv'
  OBVIOUS
<1>1. /\ pkt_count \in Nat /\ rtt \in Nat /\ shown \in Nat /\ reports \in Nat
      /\ IsFiniteSet(received)
  BY DEF BenchmarkInv, TypeOK, Counted
<1>2. Cardinality(received) \in Nat
  BY <1>1, FS_CardinalityType
<1>3. PICK half \in Nat : half = pkt_count \div 2
  BY <1>1
<1>4. 2 * half <= pkt_count /\ pkt_count <= 2 * half + 1
  BY <1>1, <1>3
<1>5. \A d \in Nat : Latency(d) \in Nat
  <2> SUFFICES ASSUME NEW d \in Nat, d # 0 PROVE rtt \div d \in Nat
    BY DEF Latency
  <2> QED BY <1>1
<1>6. report' \in [packets : Nat, latency : Nat]
  BY <1>1, <1>3, <1>5 DEF display
<1>7. TypeOK'
  BY <1>1, <1>3, <1>6 DEF BenchmarkInv, TypeOK, display
<1>8. NothingYet' /\ OneInterestPerName' /\ EveryNameOnce'
  BY DEF BenchmarkInv, NothingYet, OneInterestPerName, EveryNameOnce, Outstanding, display
<1>9. Counted'
  <2>1. /\ received' = received /\ pkt_count' = 0
        /\ shown' = shown + half /\ reports' = reports + 1
    BY <1>3 DEF display
  <2>2. /\ 2 * shown <= Cardinality(received) - pkt_count
        /\ Cardinality(received) - pkt_count <= 2 * shown + reports
    BY DEF BenchmarkInv, Counted, RatesAddUp
  <2> QED BY <1>1, <1>2, <1>4, <2>1, <2>2 DEF Counted, RatesAddUp
<1> QED BY <1>7, <1>8, <1>9 DEF BenchmarkInv

(* stop and the stuttering step.                                           *)
LEMMA OthersKeep == BenchmarkInv /\ (stop \/ UNCHANGED vars) => BenchmarkInv'
  BY DEF BenchmarkInv, TypeOK, NothingYet, OneInterestPerName, EveryNameOnce, Outstanding,
         Counted, RatesAddUp, stop, vars, reportVars

(* The inductive invariant of the benchmark.                               *)
THEOREM BenchmarkInvariant == Spec => []BenchmarkInv
<1>1. Init => BenchmarkInv
  BY InitBenchmarkInv
<1>2. BenchmarkInv /\ [Next]_vars => BenchmarkInv'
  BY RunKeeps, DataKeeps, TimeoutKeeps, NackKeeps, DisplayKeeps, OthersKeep DEF Next
<1> QED BY <1>1, <1>2, PTL DEF Spec

(* The counters of the benchmark keep their types; the mean latency is a   *)
(* number whichever way the compiler orders the expression of display.     *)
THEOREM TypeCorrect == Spec => []TypeOK
<1>1. BenchmarkInv => TypeOK
  BY DEF BenchmarkInv
<1> QED BY <1>1, BenchmarkInvariant, PTL

(* Client::onData never asks for a name that was answered, and no name is  *)
(* dropped on the way, for any run of any length.                          *)
THEOREM NamesAreUsedOnce == Spec => []EveryNameOnce
<1>1. BenchmarkInv => EveryNameOnce
  BY DEF BenchmarkInv
<1> QED BY <1>1, BenchmarkInvariant, PTL

(* The rates printed by display account for every Data, up to one packet   *)
(* for each report.                                                        *)
THEOREM RatesAreExact == Spec => []RatesAddUp
<1>1. BenchmarkInv => RatesAddUp
  BY DEF BenchmarkInv, Counted
<1> QED BY <1>1, BenchmarkInvariant, PTL
=============================================================================
