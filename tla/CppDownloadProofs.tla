-------------------------- MODULE CppDownloadProofs ---------------------------
(***************************************************************************)
(* What CppDownload guarantees for every window, every file length, every  *)
(* retry budget and every number of Nacks.  DownloadInv is the inductive   *)
(* invariant; the properties of the runs follow from it.                   *)
(***************************************************************************)
EXTENDS CppDownload, FiniteSetTheorems, SequenceTheorems, TLAPS

(* The callbacks are bound to the segment the name asks for, and what is   *)
(* kept under a segment is the Data of that segment.                       *)
Bound == /\ \A i \in interests : i.name = i.segment
         /\ \A s \in DOMAIN pending_segments : pending_segments[s] = s

(* The write loop always runs to the first missing segment.                *)
LoopDone == current_segment \notin DOMAIN pending_segments

Progress ==
  /\ status = "starting" => /\ interests = {}
                            /\ current_packet = 0
                            /\ current_segment = 0
                            /\ DOMAIN pending_segments = {}
  /\ status \in {"starting", "running"} => current_segment <= LastSegment
  /\ status = "running" => current_segment < current_packet

DownloadInv == /\ TypeOK
               /\ Bound
               /\ LoopDone
               /\ Progress
               /\ FileCorrect
               /\ NoSegmentLost

(* A prefix of the file followed by the next segments is a longer prefix.  *)
LEMMA PrefixGrows ==
  ASSUME NEW a \in Nat, NEW b \in Nat, a <= b, NEW tail,
         tail = [k \in 1..(b - a) |-> a + k - 1]
  PROVE  [k \in 1..a |-> k - 1] \o tail = [k \in 1..b |-> k - 1]
<1> DEFINE head == [k \in 1..a |-> k - 1]
           all  == [k \in 1..b |-> k - 1]
<1>1. head \in Seq(Nat) /\ Len(head) = a
  OBVIOUS
<1>2. tail \in Seq(Nat) /\ Len(tail) = b - a
  OBVIOUS
<1>3. all \in Seq(Nat) /\ Len(all) = b
  OBVIOUS
<1> HIDE DEF head, all
<1>0. /\ head \o tail \in Seq(Nat)
      /\ Len(head \o tail) = Len(head) + Len(tail)
      /\ \A i \in 1..(Len(head) + Len(tail)) :
           (head \o tail)[i] = IF i <= Len(head) THEN head[i] ELSE tail[i - Len(head)]
  BY <1>1, <1>2, ConcatProperties, Zenon
<1>4. /\ head \o tail \in Seq(Nat)
      /\ Len(head \o tail) = b
      /\ \A i \in 1..b : (head \o tail)[i] = IF i <= a THEN head[i] ELSE tail[i - a]
  BY <1>0, <1>1, <1>2
<1>5. \A i \in 1..b : (head \o tail)[i] = all[i]
  BY <1>4 DEF head, all
<1>6. head \o tail = all
  BY <1>3, <1>4, <1>5, SeqEqual
<1> QED BY <1>6 DEF head, all

(* The initial state.                                                      *)
LEMMA InitDownloadInv == Init => DownloadInv
<1> SUFFICES ASSUME Init PROVE DownloadInv
  OBVIOUS
<1> USE DEF Init
<1>1. DOMAIN pending_segments = {}
  OBVIOUS
<1>2. TypeOK
  BY <1>1 DEF TypeOK, Statuses, InterestType
<1>3. Bound /\ LoopDone
  BY <1>1 DEF Bound, LoopDone
<1>4. Progress
  BY <1>1, SegmentAssumption DEF Progress
<1>5. FileCorrect
  BY DEF FileCorrect
<1>6. NoSegmentLost
  BY DEF NoSegmentLost
<1> QED BY <1>2, <1>3, <1>4, <1>5, <1>6 DEF DownloadInv

(* Client::run.                                                            *)
LEMMA RunKeeps == DownloadInv /\ run => DownloadInv'
<1> SUFFICES ASSUME DownloadInv, run PROVE DownloadInv'
  OBVIOUS
<1> USE WindowAssumption, RetriesAssumption, SegmentAssumption DEF DownloadInv, run, Interest
<1>1. TypeOK'
  BY DEF TypeOK, Statuses, InterestType
<1>2. Bound' /\ LoopDone'
  BY DEF Bound, LoopDone
<1>3. Progress'
  BY DEF Progress
<1>4. FileCorrect'
  BY DEF FileCorrect
<1>5. Outstanding' = 0..(Window - 1)
  <2>1. \A s \in 0..(Window - 1) : Interest(s, s, Retries).segment = s
    OBVIOUS
  <2>2. Outstanding' = {Interest(s, s, Retries).segment : s \in 0..(Window - 1)}
    BY DEF Outstanding
  <2> QED BY <2>1, <2>2
<1>6. current_segment' = 0 /\ DOMAIN pending_segments' = {}
  BY DEF Progress
<1>7. NoSegmentLost'
  BY <1>5, <1>6 DEF NoSegmentLost
<1> QED BY <1>1, <1>2, <1>3, <1>4, <1>7

(* Client::onDataFile: what Store keeps, and how far the write loop runs.  *)
LEMMA StoreFacts ==
  ASSUME DownloadInv, status = "running", NEW i \in interests
  PROVE  /\ i.segment \in Nat /\ i.name = i.segment
         /\ current_segment <= i.segment /\ i.segment < current_packet
         /\ i.segment \notin DOMAIN pending_segments
         /\ DOMAIN Store(i) = DOMAIN pending_segments \cup {i.segment}
         /\ \A s \in DOMAIN Store(i) : Store(i)[s] = s
         /\ DOMAIN Store(i) \subseteq current_segment..(current_packet - 1)
<1>1. i \in InterestType /\ i.name = i.segment
  BY DEF DownloadInv, TypeOK, Bound
<1>2. i.segment \in Nat
  BY <1>1 DEF InterestType
<1>3. i.segment \in Outstanding
  BY DEF Outstanding
<1>4. /\ Outstanding \cap DOMAIN pending_segments = {}
      /\ Outstanding \cup DOMAIN pending_segments = current_segment..(current_packet - 1)
  BY DEF DownloadInv, NoSegmentLost
<1>5. current_segment \in Nat /\ current_packet \in Nat
  BY DEF DownloadInv, TypeOK
<1>6. /\ DOMAIN Store(i) = DOMAIN pending_segments \cup {i.segment}
      /\ \A s \in DOMAIN Store(i) : Store(i)[s] = s
  BY <1>1 DEF Store, DownloadInv, Bound
<1> QED BY <1>1, <1>2, <1>3, <1>4, <1>5, <1>6

(* What the write loop leaves behind.                                      *)
LEMMA WriteFacts ==
  ASSUME DownloadInv, status = "running", NEW i \in interests, NEW written \in Nat,
         WriteReceived(Store(i), current_segment + written)
  PROVE  /\ current_segment' \in Nat
         /\ current_segment <= current_segment' /\ current_segment' <= current_packet
         /\ file' = [k \in 1..(current_segment') |-> k - 1]
         /\ DOMAIN pending_segments' =
              DOMAIN Store(i) \ (current_segment..(current_segment' - 1))
         /\ \A s \in DOMAIN pending_segments' : pending_segments'[s] = s
         /\ pending_segments' \in [DOMAIN pending_segments' -> Nat]
         /\ DOMAIN pending_segments' \subseteq Nat
         /\ current_segment..(current_segment' - 1) \subseteq DOMAIN Store(i)
         /\ current_segment' \notin DOMAIN Store(i)
<1> DEFINE next == current_segment + written
           tail == [k \in 1..(next - current_segment) |-> Store(i)[current_segment + k - 1]]
<1>1. current_segment \in Nat /\ current_packet \in Nat /\ next \in Nat
      /\ current_segment <= next /\ next - current_segment = written
  BY DEF DownloadInv, TypeOK
<1>2. current_segment' = next
  BY DEF WriteReceived
<1>3. /\ \A s \in current_segment..(next - 1) : s \in DOMAIN Store(i)
      /\ next \notin DOMAIN Store(i)
      /\ file' = file \o tail
      /\ pending_segments' = [s \in DOMAIN Store(i) \ (current_segment..(next - 1)) |->
                                Store(i)[s]]
  BY DEF WriteReceived
<1>4. /\ \A s \in DOMAIN Store(i) : Store(i)[s] = s
      /\ DOMAIN Store(i) \subseteq current_segment..(current_packet - 1)
      /\ current_segment < current_packet
  BY StoreFacts DEF DownloadInv, Progress
<1> HIDE DEF next
<1>5. next <= current_packet
  <2> SUFFICES ASSUME next > current_packet PROVE FALSE
    BY <1>1
  <2>1. current_packet \in current_segment..(next - 1)
    BY <1>1, <1>4
  <2> QED BY <2>1, <1>1, <1>3, <1>4
<1>6. tail = [k \in 1..(next - current_segment) |-> current_segment + k - 1]
  <2> SUFFICES ASSUME NEW k \in 1..(next - current_segment)
               PROVE  Store(i)[current_segment + k - 1] = current_segment + k - 1
    OBVIOUS
  <2>1. current_segment + k - 1 \in current_segment..(next - 1)
    BY <1>1
  <2> QED BY <2>1, <1>3, <1>4
<1>7. file = [k \in 1..current_segment |-> k - 1]
  BY DEF DownloadInv, FileCorrect
<1> HIDE DEF tail
<1>8. file' = [k \in 1..next |-> k - 1]
  <2>1. [k \in 1..current_segment |-> k - 1] \o tail = [k \in 1..next |-> k - 1]
    BY <1>1, <1>6, PrefixGrows, Zenon
  <2> QED BY <2>1, <1>3, <1>7
<1>9. DOMAIN Store(i) \subseteq Nat
  BY <1>1, <1>4
<1> QED BY <1>1, <1>2, <1>3, <1>4, <1>5, <1>8, <1>9
(* Client::onDataFile.                                                     *)
LEMMA DataKeeps == ASSUME DownloadInv, NEW i \in interests, onDataFile(i)
                   PROVE  DownloadInv'
<1>1. status = "running" /\ max_segment' = LastSegment
  BY DEF onDataFile
<1>2. PICK written \in 0..Cardinality(DOMAIN Store(i)) :
        WriteReceived(Store(i), current_segment + written)
  BY DEF onDataFile
<1>3. written \in Nat
  BY <1>2
<1> DEFINE written_now == current_segment..(current_segment' - 1)
<1>4. /\ current_segment' \in Nat
      /\ current_segment <= current_segment' /\ current_segment' <= current_packet
      /\ file' = [k \in 1..(current_segment') |-> k - 1]
      /\ DOMAIN pending_segments' = DOMAIN Store(i) \ written_now
      /\ \A s \in DOMAIN pending_segments' : pending_segments'[s] = s
      /\ pending_segments' \in [DOMAIN pending_segments' -> Nat]
      /\ DOMAIN pending_segments' \subseteq Nat
      /\ written_now \subseteq DOMAIN Store(i)
      /\ current_segment' \notin DOMAIN Store(i)
  BY <1>1, <1>2, <1>3, WriteFacts
<1>5. /\ i.segment \in Nat /\ i.name = i.segment
      /\ current_segment <= i.segment /\ i.segment < current_packet
      /\ i.segment \notin DOMAIN pending_segments
      /\ DOMAIN Store(i) = DOMAIN pending_segments \cup {i.segment}
      /\ DOMAIN Store(i) \subseteq current_segment..(current_packet - 1)
  BY <1>1, StoreFacts
<1>6. /\ interests \in SUBSET InterestType
      /\ current_segment \in Nat /\ current_packet \in Nat
      /\ \A j \in interests : j.name = j.segment
      /\ exit_on_nack \in BOOLEAN /\ payload_size \in Nat
      /\ reported \in Nat /\ nacks \in Nat
  BY DEF DownloadInv, TypeOK, Bound
<1>7. \/ /\ current_segment' > LastSegment
         /\ status' = "completed"
         /\ interests' = interests \ {i}
         /\ current_packet' = current_packet
      \/ /\ current_segment' <= LastSegment
         /\ status' = "running"
         /\ current_packet <= LastSegment
         /\ interests' = (interests \ {i}) \cup
                           {Interest(current_packet, current_packet, Retries)}
         /\ current_packet' = current_packet + 1
      \/ /\ current_segment' <= LastSegment
         /\ status' = "running"
         /\ current_packet > LastSegment
         /\ interests' = interests \ {i}
         /\ current_packet' = current_packet
  BY <1>1, <1>4, <1>6, SegmentAssumption DEF onDataFile, RequestNext
<1>8. UNCHANGED <<exit_on_nack, reported, nacks>> /\ payload_size' \in Nat
  BY <1>6 DEF onDataFile, Size
<1>9. Interest(current_packet, current_packet, Retries) \in InterestType
  BY <1>6, RetriesAssumption DEF Interest, InterestType
<1>10. interests' \in SUBSET InterestType /\ current_packet' \in Nat
       /\ status' \in Statuses
  BY <1>6, <1>7, <1>9 DEF Statuses
<1>11. TypeOK'
  <2>1. file' \in Seq(Nat)
    BY <1>4
  <2> QED BY <2>1, <1>1, <1>4, <1>6, <1>8, <1>10, SegmentAssumption DEF TypeOK
<1>12. Bound'
  BY <1>4, <1>6, <1>7 DEF Bound, Interest
<1>13. LoopDone'
  BY <1>4 DEF LoopDone
<1>14. FileCorrect'
  BY <1>4, <1>7 DEF FileCorrect
<1>15. Outstanding \cap DOMAIN pending_segments = {}
       /\ Outstanding \cup DOMAIN pending_segments =
            current_segment..(current_packet - 1)
       /\ \A j, k \in interests : j.segment = k.segment => j = k
  BY <1>1 DEF DownloadInv, NoSegmentLost
<1>16. {j.segment : j \in interests \ {i}} = Outstanding \ {i.segment}
  BY <1>15 DEF Outstanding
<1>17. ASSUME status' = "running"
       PROVE  /\ Progress'
              /\ NoSegmentLost'
  <2>1. CASE current_packet' = current_packet
    <3>1. interests' = interests \ {i} /\ current_segment' <= LastSegment
          /\ LastSegment < current_packet
      BY <1>6, <1>7, <1>17, <2>1
    <3>2. Outstanding' = Outstanding \ {i.segment}
      BY <1>16, <3>1 DEF Outstanding
    <3>3. Outstanding' \cap DOMAIN pending_segments' = {}
      BY <3>2, <1>4, <1>5, <1>15
    <3>4. Outstanding' \cup DOMAIN pending_segments' =
            current_segment'..(current_packet' - 1)
      BY <3>2, <2>1, <1>4, <1>5, <1>6, <1>15
    <3>5. NoSegmentLost'
      BY <3>1, <3>3, <3>4, <1>15 DEF NoSegmentLost
    <3>6. Progress'
      BY <3>1, <2>1, <1>4, <1>6, <1>17, SegmentAssumption DEF Progress
    <3> QED BY <3>5, <3>6
  <2>2. CASE current_packet' = current_packet + 1
    <3> DEFINE new == Interest(current_packet, current_packet, Retries)
    <3>1. interests' = (interests \ {i}) \cup {new} /\ current_segment' <= LastSegment
      BY <1>6, <1>7, <1>17, <2>2
    <3>2. new.segment = current_packet
      BY DEF Interest
    <3>3. Outstanding' = (Outstanding \ {i.segment}) \cup {current_packet}
      <4>1. Outstanding' = {j.segment : j \in interests \ {i}} \cup {new.segment}
        BY <3>1 DEF Outstanding
      <4> QED BY <4>1, <3>2, <1>16
    <3>4. current_packet \notin Outstanding /\ current_packet \notin DOMAIN Store(i)
      BY <1>5, <1>6, <1>15
    <3>5. Outstanding' \cap DOMAIN pending_segments' = {}
      BY <3>3, <3>4, <1>4, <1>5, <1>15
    <3>6. Outstanding' \cup DOMAIN pending_segments' =
            current_segment'..(current_packet' - 1)
      BY <3>3, <3>4, <2>2, <1>4, <1>5, <1>6, <1>15
    <3>7. \A j \in interests : j.segment # current_packet
      BY <3>4 DEF Outstanding
    <3>8. \A j, k \in interests' : j.segment = k.segment => j = k
      BY <3>1, <3>2, <3>7, <1>15
    <3>9. NoSegmentLost'
      BY <3>5, <3>6, <3>8 DEF NoSegmentLost
    <3>10. Progress'
      BY <3>1, <2>2, <1>4, <1>6, <1>17, SegmentAssumption DEF Progress
    <3> QED BY <3>9, <3>10
  <2> QED BY <2>1, <2>2, <1>7
<1>18. ASSUME status' # "running" PROVE Progress' /\ NoSegmentLost'
  BY <1>7, <1>18 DEF Progress, NoSegmentLost
<1> QED BY <1>11, <1>12, <1>13, <1>14, <1>17, <1>18 DEF DownloadInv
(* Replacing an Interest by a re-expressed one for the same segment, which *)
(* is what onTimeoutFile and onNack do.                                    *)
LEMMA ReexpressKeeps ==
  ASSUME DownloadInv, status = "running", NEW i \in interests,
         NEW n \in Nat, NEW name, name = i.name,
         interests' = (interests \ {i}) \cup {Interest(name, i.segment, n)},
         nacks' \in Nat,
         UNCHANGED <<exit_on_nack, status, clientVars, payload_size, reported>>
  PROVE  DownloadInv'
<1> DEFINE new == Interest(name, i.segment, n)
<1>1. i \in InterestType /\ interests \in SUBSET InterestType /\ i.name = i.segment
  BY DEF DownloadInv, TypeOK, Bound
<1>2. new \in InterestType /\ new.segment = i.segment /\ new.name = new.segment
  BY <1>1 DEF Interest, InterestType
<1> HIDE DEF new
<1>3. interests' = (interests \ {i}) \cup {new}
  BY DEF new
<1> USE DEF clientVars
<1>4. TypeOK'
  BY <1>1, <1>2, <1>3 DEF DownloadInv, TypeOK
<1>5. Bound' /\ LoopDone'
  BY <1>2, <1>3 DEF DownloadInv, Bound, LoopDone
<1>6. Progress' /\ FileCorrect'
  BY DEF DownloadInv, Progress, FileCorrect
<1>7. Outstanding' = Outstanding
  BY <1>2, <1>3 DEF Outstanding
<1>8. NoSegmentLost'
  BY <1>2, <1>3, <1>7 DEF DownloadInv, NoSegmentLost
<1> QED BY <1>4, <1>5, <1>6, <1>8 DEF DownloadInv

(* A step that ends the process on an error, or stops it.                  *)
LEMMA EndKeeps ==
  ASSUME DownloadInv, interests' \subseteq interests,
         status' \in {"timeout", "nack", "stopped"}, nacks' \in Nat,
         UNCHANGED <<exit_on_nack, clientVars, payload_size, reported>>
  PROVE  DownloadInv'
<1> USE DEF clientVars, DownloadInv
<1>1. TypeOK'
  BY DEF TypeOK, Statuses
<1>2. Bound' /\ LoopDone' /\ Progress' /\ FileCorrect' /\ NoSegmentLost'
  BY DEF Bound, LoopDone, Progress, FileCorrect, NoSegmentLost
<1> QED BY <1>1, <1>2

(* Client::onTimeoutFile.                                                  *)
LEMMA TimeoutKeeps == ASSUME DownloadInv, NEW i \in interests, onTimeoutFile(i)
                      PROVE  DownloadInv'
<1>1. i.n \in Nat /\ nacks' \in Nat
  BY DEF DownloadInv, TypeOK, InterestType, onTimeoutFile
<1>2. CASE i.n > 0
  <2>1. i.n - 1 \in Nat
    BY <1>1, <1>2
  <2> QED BY <2>1, <1>1, <1>2, ReexpressKeeps DEF onTimeoutFile
<1>3. CASE ~(i.n > 0)
  BY <1>1, <1>3, EndKeeps DEF onTimeoutFile
<1> QED BY <1>2, <1>3

(* Client::onNack.                                                         *)
LEMMA NackKeeps == ASSUME DownloadInv, NEW i \in interests, onNack(i)
                   PROVE  DownloadInv'
<1>1. nacks' \in Nat /\ i.name = i.segment
  BY DEF DownloadInv, TypeOK, Bound, onNack
<1>2. CASE exit_on_nack
  BY <1>1, <1>2, EndKeeps DEF onNack
<1>3. CASE ~exit_on_nack
  BY <1>1, <1>3, RetriesAssumption, ReexpressKeeps DEF onNack
<1> QED BY <1>2, <1>3

(* Client::displayFile.                                                    *)
LEMMA DisplayKeeps == DownloadInv /\ displayFile => DownloadInv'
<1> SUFFICES ASSUME DownloadInv, displayFile PROVE DownloadInv'
  OBVIOUS
<1> USE DEF DownloadInv, displayFile, clientVars
<1>1. TypeOK'
  BY DEF TypeOK
<1>2. Bound' /\ LoopDone' /\ Progress' /\ FileCorrect'
  BY DEF Bound, LoopDone, Progress, FileCorrect
<1>3. NoSegmentLost'
  BY DEF NoSegmentLost, Outstanding
<1> QED BY <1>1, <1>2, <1>3

(* A step that changes nothing.                                            *)
LEMMA StutterKeeps == DownloadInv /\ UNCHANGED vars => DownloadInv'
  BY DEF DownloadInv, vars, clientVars, TypeOK, Bound, LoopDone, Progress,
         FileCorrect, NoSegmentLost, Outstanding

(* DownloadInv is inductive.                                               *)
THEOREM DownloadInvariant == Spec => []DownloadInv
<1>1. Init => DownloadInv
  BY InitDownloadInv
<1>2. DownloadInv /\ [Next]_vars => DownloadInv'
  <2> SUFFICES ASSUME DownloadInv, [Next]_vars PROVE DownloadInv'
    OBVIOUS
  <2>1. CASE run
    BY <2>1, RunKeeps
  <2>2. CASE \E i \in interests : onDataFile(i)
    BY <2>2, DataKeeps
  <2>3. CASE \E i \in interests : onTimeoutFile(i)
    BY <2>3, TimeoutKeeps
  <2>4. CASE \E i \in interests : onNack(i)
    BY <2>4, NackKeeps
  <2>5. CASE displayFile
    BY <2>5, DisplayKeeps
  <2>6. CASE stop
    <3>1. nacks' \in Nat
      BY <2>6 DEF stop, DownloadInv, TypeOK
    <3> QED BY <2>6, <3>1, EndKeeps DEF stop
  <2>7. CASE UNCHANGED vars
    BY <2>7, StutterKeeps
  <2> QED BY <2>1, <2>2, <2>3, <2>4, <2>5, <2>6, <2>7 DEF Next
<1> QED BY <1>1, <1>2, PTL DEF Spec

(* Client: every member keeps its type; in particular n, _current_packet   *)
(* and _current_segment never go below zero.                               *)
THEOREM TypeCorrect == Spec => []TypeOK
<1>1. DownloadInv => TypeOK
  BY DEF DownloadInv
<1> QED BY <1>1, DownloadInvariant, PTL

(* Client::onDataFile: whatever the order of Data, timeouts and Nacks, the *)
(* file is written in order, without gaps and without repetition, and      *)
(* completion is announced only when the last segment is in it.            *)
THEOREM FileIsCorrect == Spec => []FileCorrect
<1>1. DownloadInv => FileCorrect
  BY DEF DownloadInv
<1> QED BY <1>1, DownloadInvariant, PTL

(* Client: no requested segment is forgotten and none is asked for twice   *)
(* at a time.                                                              *)
THEOREM SegmentsAreKept == Spec => []NoSegmentLost
<1>1. DownloadInv => NoSegmentLost
  BY DEF DownloadInv
<1> QED BY <1>1, DownloadInvariant, PTL
-----------------------------------------------------------------------------
(* The window.  Counting the Interests needs their set to be finite.       *)
WindowInv == IsFiniteSet(interests) /\ WindowKept

(* As many Interests leave the Face as segments are named in run.          *)
LEMMA FirstWindow ==
  /\ IsFiniteSet({Interest(s, s, Retries) : s \in 0..(Window - 1)})
  /\ Cardinality({Interest(s, s, Retries) : s \in 0..(Window - 1)}) = Window
<1> DEFINE S == 0..(Window - 1)
           T == {Interest(s, s, Retries) : s \in S}
           f == [s \in S |-> Interest(s, s, Retries)]
<1>1. IsFiniteSet(S) /\ Cardinality(S) = Window
  BY FS_Interval, WindowAssumption
<1>2. \A s, t \in S : Interest(s, s, Retries) = Interest(t, t, Retries) => s = t
  BY DEF Interest
<1>3. f \in Bijection(S, T)
  BY <1>2 DEF Bijection, Injection, Surjection, IsInjective
<1>4. ExistsBijection(S, T)
  BY <1>3 DEF ExistsBijection
<1> QED BY <1>1, <1>4, FS_Bijection

(* Exchanging one Interest for another keeps their number.                 *)
LEMMA Exchange ==
  ASSUME NEW S, IsFiniteSet(S), NEW x \in S, NEW y, y \notin S \ {x}
  PROVE  /\ IsFiniteSet((S \ {x}) \cup {y})
         /\ Cardinality((S \ {x}) \cup {y}) = Cardinality(S)
<1>1. Cardinality(S) \in Nat
  BY FS_CardinalityType
<1>2. IsFiniteSet(S \ {x}) /\ Cardinality(S \ {x}) = Cardinality(S) - 1
  BY FS_RemoveElement
<1>3. /\ IsFiniteSet((S \ {x}) \cup {y})
      /\ Cardinality((S \ {x}) \cup {y}) = Cardinality(S \ {x}) + 1
  BY <1>2, FS_AddElement
<1> QED BY <1>1, <1>2, <1>3

(* The window in a state that is no longer running.                        *)
LEMMA WindowShrinks ==
  ASSUME WindowInv, interests' \subseteq interests,
         status' = "running" => /\ interests' = interests \/ current_packet' > LastSegment
                                /\ current_packet' = current_packet
                                /\ status = "running",
         current_packet' \in Nat
  PROVE  WindowInv'
<1>1. Cardinality(interests) \in Nat /\ IsFiniteSet(interests)
      /\ Cardinality(interests) <= Window
  BY FS_CardinalityType DEF WindowInv, WindowKept
<1>2. IsFiniteSet(interests') /\ Cardinality(interests') <= Cardinality(interests)
      /\ Cardinality(interests') \in Nat
  BY <1>1, FS_Subset, FS_CardinalityType
<1>3. Cardinality(interests') <= Window
  BY <1>1, <1>2, WindowAssumption
<1>4. ASSUME status' = "running", current_packet' <= LastSegment
      PROVE  Cardinality(interests') = Window
  BY <1>4, SegmentAssumption DEF WindowInv, WindowKept
<1> QED BY <1>2, <1>3, <1>4 DEF WindowInv, WindowKept

(* The window when an Interest is exchanged for another one.               *)
LEMMA WindowExchange ==
  ASSUME WindowInv, NEW i \in interests, NEW new, new \notin interests \ {i},
         interests' = (interests \ {i}) \cup {new},
         status = "running", current_packet' >= current_packet,
         current_packet' \in Nat, current_packet \in Nat
  PROVE  WindowInv'
<1>1. IsFiniteSet(interests') /\ Cardinality(interests') = Cardinality(interests)
  BY Exchange DEF WindowInv
<1> QED BY <1>1, SegmentAssumption DEF WindowInv, WindowKept

(* A re-expressed Interest is not in the table yet.                        *)
LEMMA ReexpressedIsNew ==
  ASSUME DownloadInv, status = "running", NEW i \in interests, NEW name, NEW n
  PROVE  Interest(name, i.segment, n) \notin interests \ {i}
<1>1. Interest(name, i.segment, n).segment = i.segment
  BY DEF Interest
<1> QED BY <1>1 DEF DownloadInv, NoSegmentLost

(* Client::onDataFile keeps the window full.                               *)
LEMMA WindowData ==
  ASSUME DownloadInv, WindowInv, NEW i \in interests, onDataFile(i), DownloadInv'
  PROVE  WindowInv'
<1>1. current_packet \in Nat /\ current_packet' \in Nat /\ status = "running"
      /\ current_segment' \in Nat /\ max_segment' = LastSegment
  BY DEF DownloadInv, TypeOK, onDataFile
<1>2. CASE current_segment' > max_segment'
  BY <1>1, <1>2, WindowShrinks DEF onDataFile, RequestNext
<1>3. CASE ~(current_segment' > max_segment') /\ current_packet <= max_segment'
  <2> DEFINE new == Interest(current_packet, current_packet, Retries)
  <2>1. interests' = (interests \ {i}) \cup {new} /\ current_packet' = current_packet + 1
    BY <1>3 DEF onDataFile, RequestNext
  <2>2. new.segment = current_packet
    BY DEF Interest
  <2>3. current_packet \notin Outstanding
    BY <1>1 DEF DownloadInv, NoSegmentLost, TypeOK
  <2>4. new \notin interests
    BY <2>2, <2>3 DEF Outstanding
  <2> HIDE DEF new
  <2> QED BY <1>1, <2>1, <2>4, WindowExchange
<1>4. CASE ~(current_segment' > max_segment') /\ ~(current_packet <= max_segment')
  <2>1. interests' = interests \ {i} /\ current_packet' = current_packet
        /\ current_packet > LastSegment
    BY <1>1, <1>4, SegmentAssumption DEF onDataFile, RequestNext
  <2> QED BY <1>1, <2>1, WindowShrinks
<1> QED BY <1>2, <1>3, <1>4

(* Client::onDataFile asks for one more segment for each one it receives:  *)
(* at most -w Interests are outstanding, and exactly -w as long as the     *)
(* file has segments that were not requested.                              *)
THEOREM WindowIsKept == Spec => []WindowKept
<1>1. Init => WindowInv
  <2> SUFFICES ASSUME Init PROVE WindowInv
    OBVIOUS
  <2> QED BY FS_EmptySet, WindowAssumption DEF Init, WindowInv, WindowKept
<1>2. DownloadInv /\ DownloadInv' /\ WindowInv /\ [Next]_vars => WindowInv'
  <2> SUFFICES ASSUME DownloadInv, DownloadInv', WindowInv, [Next]_vars PROVE WindowInv'
    OBVIOUS
  <2>0. current_packet \in Nat /\ current_packet' \in Nat
    BY DEF DownloadInv, TypeOK
  <2>1. CASE run
    BY <2>1, FirstWindow, WindowAssumption DEF run, WindowInv, WindowKept
  <2>2. CASE \E i \in interests : onDataFile(i)
    BY <2>2, WindowData
  <2>3. CASE \E i \in interests : onTimeoutFile(i)
    <3> SUFFICES ASSUME NEW i \in interests, onTimeoutFile(i) PROVE WindowInv'
      BY <2>3
    <3>1. CASE i.n > 0
      <4> DEFINE new == Interest(i.name, i.segment, i.n - 1)
      <4>1. interests' = (interests \ {i}) \cup {new} /\ current_packet' = current_packet
            /\ status = "running"
        BY <3>1 DEF onTimeoutFile, clientVars
      <4>2. new \notin interests \ {i}
        BY <4>1, ReexpressedIsNew
      <4> HIDE DEF new
      <4> QED BY <2>0, <4>1, <4>2, WindowExchange
    <3>2. CASE ~(i.n > 0)
      BY <2>0, <3>2, WindowShrinks DEF onTimeoutFile
    <3> QED BY <3>1, <3>2
  <2>4. CASE \E i \in interests : onNack(i)
    <3> SUFFICES ASSUME NEW i \in interests, onNack(i) PROVE WindowInv'
      BY <2>4
    <3>1. CASE ~exit_on_nack
      <4> DEFINE new == Interest(i.name, i.name, Retries)
      <4>1. interests' = (interests \ {i}) \cup {new} /\ current_packet' = current_packet
            /\ status = "running"
        BY <3>1 DEF onNack, clientVars
      <4>2. i.name = i.segment
        BY DEF DownloadInv, Bound
      <4>3. new \notin interests \ {i}
        BY <4>1, <4>2, ReexpressedIsNew
      <4> HIDE DEF new
      <4> QED BY <2>0, <4>1, <4>3, WindowExchange
    <3>2. CASE exit_on_nack
      BY <2>0, <3>2, WindowShrinks DEF onNack
    <3> QED BY <3>1, <3>2
  <2>5. CASE displayFile
    BY <2>5 DEF displayFile, clientVars, WindowInv, WindowKept
  <2>6. CASE stop
    BY <2>0, <2>6, WindowShrinks DEF stop
  <2>7. CASE UNCHANGED vars
    BY <2>7 DEF vars, clientVars, WindowInv, WindowKept
  <2> QED BY <2>1, <2>2, <2>3, <2>4, <2>5, <2>6, <2>7 DEF Next
<1>3. WindowInv => WindowKept
  BY DEF WindowInv
<1> QED BY <1>1, <1>2, <1>3, DownloadInvariant, PTL DEF Spec
-----------------------------------------------------------------------------
(* The periodic report.  In every state, running or not, the bytes         *)
(* reported and the bytes to report are the segments of the file that were *)
(* received.                                                               *)
Received == {s \in 0..LastSegment :
               s < current_segment \/ s \in DOMAIN pending_segments}
ReportInv == reported + payload_size = Cardinality(Received)

(* Received is finite, so that it can be counted.                          *)
LEMMA ReceivedFinite == IsFiniteSet(Received) /\ Cardinality(Received) \in Nat
<1>1. IsFiniteSet(0..LastSegment)
  BY SegmentAssumption, FS_Interval
<1>2. Received \subseteq 0..LastSegment
  BY DEF Received
<1>3. IsFiniteSet(Received)
  BY <1>1, <1>2, FS_Subset
<1> QED BY <1>3, FS_CardinalityType

(* Client::onDataFile adds its own segment to those received, if it is one *)
(* of the file: the write loop only moves segments to the file.            *)
LEMMA DataAddsItsSegment ==
  ASSUME DownloadInv, NEW i \in interests, onDataFile(i)
  PROVE  /\ i.segment \notin Received
         /\ Received' = Received \cup {s \in {i.segment} : s <= LastSegment}
<1>1. status = "running"
  BY DEF onDataFile
<1>2. PICK written \in 0..Cardinality(DOMAIN Store(i)) :
        WriteReceived(Store(i), current_segment + written)
  BY DEF onDataFile
<1>3. written \in Nat
  BY <1>2
<1>4. /\ current_segment' \in Nat /\ current_segment <= current_segment'
      /\ DOMAIN pending_segments' =
           DOMAIN Store(i) \ (current_segment..(current_segment' - 1))
      /\ current_segment..(current_segment' - 1) \subseteq DOMAIN Store(i)
  BY <1>1, <1>2, <1>3, WriteFacts
<1>5. /\ i.segment \in Nat /\ current_segment <= i.segment
      /\ i.segment \notin DOMAIN pending_segments
      /\ DOMAIN Store(i) = DOMAIN pending_segments \cup {i.segment}
  BY <1>1, StoreFacts
<1>6. current_segment \in Nat
  BY DEF DownloadInv, TypeOK
<1>7. i.segment \notin Received
  BY <1>5, <1>6 DEF Received
<1>8. \A s \in 0..LastSegment :
        (s < current_segment' \/ s \in DOMAIN pending_segments')
          <=> (s < current_segment \/ s \in DOMAIN pending_segments \/ s = i.segment)
  <2> SUFFICES ASSUME NEW s \in 0..LastSegment
               PROVE  (s < current_segment' \/ s \in DOMAIN pending_segments')
                        <=> (s < current_segment \/ s \in DOMAIN Store(i))
    BY <1>5
  <2>1. s \in Int /\ current_segment \in Int /\ current_segment' \in Int
    BY <1>4, <1>6, SegmentAssumption
  <2>2. s \in current_segment..(current_segment' - 1)
          <=> current_segment <= s /\ s < current_segment'
    <3>1. \A a, b, k \in Int : k \in a..(b - 1) <=> a <= k /\ k < b
      OBVIOUS
    <3> QED BY <2>1, <3>1
  <2>3. s \in DOMAIN pending_segments'
          <=> s \in DOMAIN Store(i) /\ s \notin current_segment..(current_segment' - 1)
    BY <1>4
  <2>4. s \in current_segment..(current_segment' - 1) => s \in DOMAIN Store(i)
    BY <1>4
  <2>5. s < current_segment'
          <=> s < current_segment \/ (current_segment <= s /\ s < current_segment')
    BY <2>1, <1>4, <1>6
  <2> QED BY <2>2, <2>3, <2>4, <2>5
<1>9. Received' = Received \cup {s \in {i.segment} : s <= LastSegment}
  BY <1>5, <1>8, SegmentAssumption DEF Received
<1> QED BY <1>7, <1>9

(* Client::displayFile prints _payload_size and sets it to zero: every     *)
(* segment of the file that was received is counted in one report, or is   *)
(* still to be reported, and none is counted twice.                        *)
THEOREM ReportsAreExact == Spec => []ReportedOnce
<1>1. Init => ReportInv
  <2> SUFFICES ASSUME Init PROVE ReportInv
    OBVIOUS
  <2>1. Received = {}
    BY SegmentAssumption DEF Init, Received
  <2> QED BY <2>1, FS_EmptySet DEF Init, ReportInv
<1>2. DownloadInv /\ ReportInv /\ [Next]_vars => ReportInv'
  <2> SUFFICES ASSUME DownloadInv, ReportInv, [Next]_vars PROVE ReportInv'
    OBVIOUS
  <2>0. payload_size \in Nat /\ reported \in Nat
    BY DEF DownloadInv, TypeOK
  <2>1. CASE \E i \in interests : onDataFile(i)
    <3> PICK i \in interests : onDataFile(i)
      BY <2>1
    <3>1. /\ i.segment \notin Received
          /\ Received' = Received \cup {s \in {i.segment} : s <= LastSegment}
      BY DataAddsItsSegment
    <3>2. reported' = reported /\ payload_size' = payload_size + Size(i.segment)
      BY DEF onDataFile, DownloadInv, Bound
    <3>3. CASE i.segment <= LastSegment
      <4>1. Received' = Received \cup {i.segment}
        BY <3>1, <3>3
      <4>2. Cardinality(Received') = Cardinality(Received) + 1
        BY <3>1, <4>1, ReceivedFinite, FS_AddElement
      <4> QED BY <2>0, <3>2, <3>3, <4>2, ReceivedFinite DEF ReportInv, Size
    <3>4. CASE ~(i.segment <= LastSegment)
      <4>1. Received' = Received
        BY <3>1, <3>4
      <4> QED BY <2>0, <3>2, <3>4, <4>1 DEF ReportInv, Size
    <3> QED BY <3>3, <3>4
  <2>2. CASE displayFile
    <3>1. Received' = Received
      BY <2>2 DEF displayFile, clientVars, Received
    <3> QED BY <2>0, <2>2, <3>1 DEF displayFile, ReportInv
  <2>3. CASE \/ run \/ stop \/ UNCHANGED vars
             \/ \E i \in interests : onTimeoutFile(i) \/ onNack(i)
    <3>1. UNCHANGED <<current_segment, pending_segments, reported, payload_size>>
      BY <2>3 DEF run, stop, vars, onTimeoutFile, onNack, clientVars
    <3>2. Received' = Received
      BY <3>1 DEF Received
    <3> QED BY <3>1, <3>2 DEF ReportInv
  <2> QED BY <2>1, <2>2, <2>3 DEF Next
<1>3. ReportInv => ReportedOnce
  BY DEF ReportInv, ReportedOnce, Received
<1> QED BY <1>1, <1>2, <1>3, DownloadInvariant, PTL DEF Spec
-----------------------------------------------------------------------------
(* The refinement: the first Written elements of file are the output of    *)
(* the abstract transfer.                                                  *)
Output == SubSeq(file, 1, Written)

(* The first segments of the first segments of the file.                   *)
LEMMA PrefixOfPrefix ==
  ASSUME NEW a \in Nat, NEW w \in Nat, w <= a
  PROVE  SubSeq([k \in 1..a |-> k - 1], 1, w) = [k \in 1..w |-> k - 1]
<1> DEFINE s == [k \in 1..a |-> k - 1]
           t == [k \in 1..w |-> k - 1]
<1>1. \A k \in 1..w : s[k] \in Nat /\ s[k] = t[k]
  OBVIOUS
<1>2. t \in Seq(Nat) /\ Len(t) = w
  OBVIOUS
<1> HIDE DEF s, t
<1>3. /\ SubSeq(s, 1, w) \in Seq(Nat)
      /\ Len(SubSeq(s, 1, w)) = IF 1 <= w THEN w - 1 + 1 ELSE 0
      /\ \A k \in 1..(w - 1 + 1) : SubSeq(s, 1, w)[k] = s[1 + k - 1]
  BY <1>1, SubSeqProperties
<1>4. Len(SubSeq(s, 1, w)) = w /\ \A k \in 1..w : SubSeq(s, 1, w)[k] = s[k]
  BY <1>3
<1>5. SubSeq(s, 1, w) = t
  BY <1>1, <1>2, <1>3, <1>4, SeqEqual
<1> QED BY <1>5 DEF s, t

(* The output of the abstract transfer: the first Written segments.        *)
LEMMA OutputIsPrefix ==
  ASSUME DownloadInv
  PROVE  /\ Written \in 0..(LastSegment + 1)
         /\ Output = Transfer!FirstSegments(Written)
         /\ Len(Output) = Written
<1>1. current_segment \in Nat /\ file = [k \in 1..current_segment |-> k - 1]
  BY DEF DownloadInv, TypeOK, FileCorrect
<1>2. Written \in Nat /\ Written <= current_segment /\ Written <= LastSegment + 1
  BY <1>1, SegmentAssumption DEF Written
<1>3. Output = [k \in 1..Written |-> k - 1]
  BY <1>1, <1>2, PrefixOfPrefix DEF Output
<1>4. Len(Output) = Written
  BY <1>2, <1>3
<1> QED BY <1>2, <1>3, <1>4, SegmentAssumption DEF Transfer!FirstSegments

(* One step of the client is one step of the transfer, or none.            *)
LEMMA StepRefines ==
  ASSUME DownloadInv, DownloadInv', [Next]_vars
  PROVE  [Transfer!Next]_(Transfer!vars)
<1> USE DEF Transfer!vars
<1>1. CASE run
  BY <1>1 DEF run, Outcome, Written
<1>2. CASE \E i \in interests : onDataFile(i)
  <2> PICK i \in interests : onDataFile(i)
    BY <1>2
  <2>1. status = "running" /\ max_segment' = LastSegment
    BY DEF onDataFile
  <2>2. PICK written \in 0..Cardinality(DOMAIN Store(i)) :
          WriteReceived(Store(i), current_segment + written)
    BY DEF onDataFile
  <2>3. current_segment <= current_segment'
    <3>1. written \in Nat
      BY <2>2
    <3> QED BY <2>1, <2>2, <3>1, WriteFacts
  <2>4. current_segment \in Nat /\ current_segment' \in Nat
    BY DEF DownloadInv, TypeOK
  <2>5. /\ Written \in 0..(LastSegment + 1)
        /\ Len(SubSeq(file, 1, Written)) = Written
    BY OutputIsPrefix DEF Output
  <2>6. /\ Written' \in 0..(LastSegment + 1)
        /\ SubSeq(file, 1, Written)' = Transfer!FirstSegments(Written')
    <3>1. (DownloadInv => /\ Written \in 0..(LastSegment + 1)
                          /\ Output = Transfer!FirstSegments(Written))'
      BY OutputIsPrefix, PTL
    <3> QED BY <3>1 DEF Output, Transfer!FirstSegments
  <2>7. Written <= Written'
    BY <2>3, <2>4, SegmentAssumption DEF Written
  <2>8. Written' \in Len(SubSeq(file, 1, Written))..(LastSegment + 1)
    BY <2>5, <2>6, <2>7, SegmentAssumption
  <2>9. Outcome = "pending"
    BY <2>1 DEF Outcome
  <2>10. \/ Outcome' = "pending"
         \/ Written' = LastSegment + 1 /\ Outcome' = "complete"
    <3>1. CASE current_segment' > max_segment'
      BY <3>1, <2>1, <2>4, SegmentAssumption DEF onDataFile, RequestNext, Outcome, Written
    <3>2. CASE ~(current_segment' > max_segment')
      BY <3>2, <2>1 DEF onDataFile, RequestNext, Outcome
    <3> QED BY <3>1, <3>2
  <2> QED BY <2>6, <2>8, <2>9, <2>10 DEF Transfer!Next, Transfer!Write
<1>3. CASE \E i \in interests : onTimeoutFile(i)
  BY <1>3 DEF onTimeoutFile, clientVars, Outcome, Written, Transfer!Next, Transfer!Abandon
<1>4. CASE \E i \in interests : onNack(i)
  BY <1>4 DEF onNack, clientVars, Outcome, Written, Transfer!Next, Transfer!Abandon
<1>5. CASE displayFile
  BY <1>5 DEF displayFile, clientVars, Outcome, Written
<1>6. CASE stop
  BY <1>6 DEF stop, clientVars, Outcome, Written, Transfer!Next, Transfer!Abandon
<1>7. CASE UNCHANGED vars
  BY <1>7 DEF vars, clientVars, Outcome, Written
<1> QED BY <1>1, <1>2, <1>3, <1>4, <1>5, <1>6, <1>7 DEF Next

(* The download of client.cpp implements the abstract transfer: whole      *)
(* segments in order, complete only when everything is written, nothing    *)
(* more once it is over.                                                   *)
THEOREM DownloadIsTransfer == Spec => ImplementsTransfer
<1>1. Init => Transfer!Init
  <2> SUFFICES ASSUME Init PROVE Transfer!Init
    OBVIOUS
  <2>1. Written = 0 /\ file = << >>
    BY SegmentAssumption DEF Init, Written
  <2>2. SubSeq(file, 1, Written) = << >>
    BY <2>1, SubSeqEmpty
  <2> QED BY <2>2 DEF Init, Transfer!Init, Outcome
<1>2. DownloadInv /\ DownloadInv' /\ [Next]_vars => [Transfer!Next]_(Transfer!vars)
  BY StepRefines
<1> QED BY <1>1, <1>2, DownloadInvariant, PTL DEF Spec, ImplementsTransfer, Transfer!Spec
=============================================================================
