----------------------------- MODULE CppDownload ------------------------------
(***************************************************************************)
(* The C++ client in download mode (c++/client/client.cpp, -d option).     *)
(*                                                                         *)
(* Every handler runs on the single io_service thread of the Module base   *)
(* class, so a handler is one atomic step.  The Face is external: for an   *)
(* Interest in its table it eventually calls exactly one of the three      *)
(* bound callbacks (Data, Nack, timeout) after removing the entry, in any  *)
(* order across Interests; a lost Interest or Data shows up as a timeout.  *)
(* The file exists on the server, so that every Data names LastSegment in  *)
(* its FinalBlockId and a segment beyond it has an empty content.          *)
(***************************************************************************)
EXTENDS Integers, Sequences, FiniteSets

CONSTANTS Window,       \* -w option
          LastSegment,  \* FinalBlockId the server puts in each Data
          Retries,      \* re-expressions after a timeout; 5 in the code
          NackBound     \* bound on the Nacks the network sends

ASSUME WindowAssumption == Window \in Nat \ {0}
ASSUME SegmentAssumption == LastSegment \in Nat
\* onTimeoutFile takes the segment number, a size_t, as an int: it holds every
\* number the client asks for.
ASSUME IntAssumption == Window + LastSegment <= 2147483647
ASSUME RetriesAssumption == Retries \in Nat
ASSUME NackAssumption == NackBound \in Nat

VARIABLES
  exit_on_nack,      \* set by setExitOnNack before the client starts (--eon)
  status,            \* of the process: "starting", "running" or how it ended
  interests,         \* the Face's table of pending Interests
  current_packet,    \* next segment to request
  current_segment,   \* next segment to write
  max_segment,       \* last FinalBlockId seen
  pending_segments,  \* received, not yet written: segment -> Data (its name)
  file,              \* the Data whose content was written to _file, in order
  payload_size,      \* segments with content received since the last display
  reported,          \* auxiliary: sum of the payload_size displayed so far
  nacks              \* Nacks received so far

clientVars == <<current_packet, current_segment, max_segment, pending_segments, file>>
vars == <<exit_on_nack, status, interests, clientVars, payload_size, reported, nacks>>

(* An entry of the Face's table: the segment its name asks for, the one    *)
(* bound into the callbacks, and the re-expressions left.                  *)
Interest(name, segment, n) == [name |-> name, segment |-> segment, n |-> n]

Size(name) == IF name <= LastSegment THEN 1 ELSE 0
-----------------------------------------------------------------------------
Init ==
  /\ exit_on_nack \in BOOLEAN
  /\ status = "starting"
  /\ interests = {}
  /\ current_packet = 0
  /\ current_segment = 0
  /\ max_segment = 0
  /\ pending_segments = [s \in {} |-> s]
  /\ file = << >>
  /\ payload_size = 0
  /\ reported = 0
  /\ nacks = 0

(* Client::run: the first Window segments are requested at once, before    *)
(* the length of the file is known.                                        *)
run ==
  /\ status = "starting"
  /\ status' = "running"
  /\ interests' = {Interest(s, s, Retries) : s \in 0..(Window - 1)}
  /\ current_packet' = Window
  /\ UNCHANGED <<exit_on_nack, current_segment, max_segment, pending_segments, file,
                 payload_size, reported, nacks>>

(* The write loop of onDataFile: writes received[current_segment], erases  *)
(* it and advances, until the segment to write next is missing.            *)
WriteReceived(received, next) ==
  /\ \A s \in current_segment..(next - 1) : s \in DOMAIN received
  /\ next \notin DOMAIN received
  /\ current_segment' = next
  /\ file' = file \o [k \in 1..(next - current_segment) |->
                        received[current_segment + k - 1]]
  /\ pending_segments' = [s \in DOMAIN received \ (current_segment..(next - 1)) |->
                            received[s]]

(* Fault: onDataFile does not advance _current_packet.                     *)
RequestNextNoAdvance(i) ==
  /\ interests' = (interests \ {i}) \cup
       (IF current_packet <= max_segment'
          THEN {Interest(current_packet, current_packet, Retries)} ELSE {})
  /\ status' = IF current_segment' > max_segment' THEN "completed" ELSE status
  /\ UNCHANGED current_packet

(* Fault: the test for completion is >= instead of >.                      *)
RequestNextEarlyEnd(i) ==
  LET new == {s \in {current_packet} : s <= max_segment'}
  IN  /\ interests' = (interests \ {i}) \cup {Interest(s, s, Retries) : s \in new}
      /\ status' = IF current_segment' >= max_segment' THEN "completed" ELSE status
      /\ current_packet' = current_packet + Cardinality(new)

(* The end of onDataFile: exit(0) once everything is written, otherwise    *)
(* one new Interest if a segment is still to be requested.                 *)
RequestNext(i) ==
  IF current_segment' > max_segment'
    THEN /\ status' = "completed"
         /\ interests' = interests \ {i}
         /\ UNCHANGED current_packet
    ELSE /\ UNCHANGED status
         /\ IF current_packet <= max_segment'
              THEN /\ interests' = (interests \ {i}) \cup
                        {Interest(current_packet, current_packet, Retries)}
                   /\ current_packet' = current_packet + 1
              ELSE /\ interests' = interests \ {i}
                   /\ UNCHANGED current_packet

(* _pending_segments[segment] = data                                       *)
Store(i) == [s \in DOMAIN pending_segments \cup {i.segment} |->
               IF s = i.segment THEN i.name ELSE pending_segments[s]]

onDataFile(i) ==
  /\ status = "running"
  /\ max_segment' = LastSegment
  /\ payload_size' = payload_size + Size(i.name)
  /\ \E written \in 0..Cardinality(DOMAIN Store(i)) :
       WriteReceived(Store(i), current_segment + written)
  /\ RequestNext(i)
  /\ UNCHANGED <<exit_on_nack, reported, nacks>>

(* Fault: the copy of the Interest is made and not sent.                   *)
onTimeoutFileDrops(i) ==
  /\ status = "running"
  /\ interests' = interests \ {i}
  /\ status' = IF i.n > 0 THEN status ELSE "timeout"
  /\ UNCHANGED <<exit_on_nack, clientVars, payload_size, reported, nacks>>

onTimeoutFile(i) ==
  /\ status = "running"
  /\ IF i.n > 0
       THEN /\ interests' = (interests \ {i}) \cup
                 {Interest(i.name, i.segment, i.n - 1)}
            /\ UNCHANGED status
       ELSE /\ interests' = interests \ {i}
            /\ status' = "timeout"
  /\ UNCHANGED <<exit_on_nack, clientVars, payload_size, reported, nacks>>

(* Fault: onNack drops the Interest when it does not exit.                 *)
onNackDrops(i) ==
  /\ status = "running"
  /\ nacks < NackBound
  /\ nacks' = nacks + 1
  /\ interests' = interests \ {i}
  /\ status' = IF exit_on_nack THEN "nack" ELSE status
  /\ UNCHANGED <<exit_on_nack, clientVars, payload_size, reported>>

(* The segment is read back from the name, and the retries start over.     *)
onNack(i) ==
  /\ status = "running"
  /\ nacks < NackBound
  /\ nacks' = nacks + 1
  /\ IF exit_on_nack
       THEN /\ interests' = interests \ {i}
            /\ status' = "nack"
       ELSE /\ interests' = (interests \ {i}) \cup
                 {Interest(i.name, i.name, Retries)}
            /\ UNCHANGED status
  /\ UNCHANGED <<exit_on_nack, clientVars, payload_size, reported>>

(* Client::displayFile, every two seconds.                                 *)
displayFile ==
  /\ status = "running"
  /\ reported' = reported + payload_size
  /\ payload_size' = 0
  /\ UNCHANGED <<exit_on_nack, status, interests, clientVars, nacks>>

(* SIGINT: main leaves its loop and Module::stop ends the io_service; no   *)
(* handler runs any more.                                                  *)
stop ==
  /\ status \in {"starting", "running"}
  /\ status' = "stopped"
  /\ UNCHANGED <<exit_on_nack, interests, clientVars, payload_size, reported, nacks>>

FaceEvent(i) == onDataFile(i) \/ onTimeoutFile(i) \/ onNack(i)

Next == \/ run
        \/ \E i \in interests : onDataFile(i)
        \/ \E i \in interests : onTimeoutFile(i)
        \/ \E i \in interests : onNack(i)
        \/ displayFile
        \/ stop

(* The Face resolves every pending Interest (an Interest has a lifetime),  *)
(* and the io_service thread runs what is posted to it.                    *)
Segments == 0..(Window + LastSegment)
Fairness ==
  /\ WF_vars(run)
  /\ \A s \in Segments : WF_vars(\E i \in interests : i.name = s /\ FaceEvent(i))

Spec == Init /\ [][Next]_vars
FairSpec == Spec /\ Fairness
-----------------------------------------------------------------------------
InterestType == [name : Nat, segment : Nat, n : Nat]
Statuses == {"starting", "running", "completed", "timeout", "nack", "stopped"}

(* Every variable keeps the type its C++ member has; a size_t never goes   *)
(* below zero.                                                             *)
TypeOK ==
  /\ exit_on_nack \in BOOLEAN
  /\ status \in Statuses
  /\ interests \in SUBSET InterestType
  /\ current_packet \in Nat
  /\ current_segment \in Nat
  /\ max_segment \in Nat
  /\ DOMAIN pending_segments \subseteq Nat
  /\ pending_segments \in [DOMAIN pending_segments -> Nat]
  /\ file \in Seq(Nat)
  /\ payload_size \in Nat
  /\ reported \in Nat
  /\ nacks \in Nat

Outstanding == {i.segment : i \in interests}

(* What was written is the first segments of the file, in order, each one  *)
(* once, whatever the order of the Data, the timeouts and the Nacks; and   *)
(* "download completed!" is printed only when the last one is written.     *)
FileCorrect ==
  /\ file = [k \in 1..current_segment |-> k - 1]
  /\ status = "completed" => current_segment > LastSegment

(* Each segment requested so far is in exactly one place: awaited by one   *)
(* Interest, received and kept in _pending_segments, or written.           *)
NoSegmentLost ==
  status = "running" =>
    /\ Outstanding \cap DOMAIN pending_segments = {}
    /\ Outstanding \cup DOMAIN pending_segments =
         current_segment..(current_packet - 1)
    /\ \A i, j \in interests : i.segment = j.segment => i = j

(* The window: never more than Window Interests are outstanding, and as    *)
(* long as a segment is still to be requested exactly Window are.          *)
WindowKept ==
  /\ Cardinality(interests) <= Window
  /\ status = "running" /\ current_packet <= LastSegment =>
       Cardinality(interests) = Window

(* Every received byte is counted in one periodic report and in no other.  *)
(* A segment received but not yet displayed is still in _payload_size.     *)
ReportedOnce ==
  status = "running" =>
    reported + payload_size =
      Cardinality({s \in 0..LastSegment :
                     s < current_segment \/ s \in DOMAIN pending_segments})

(* The client implements the abstract transfer.                            *)
Outcome == CASE status \in {"starting", "running"} -> "pending"
             [] status = "completed"               -> "complete"
             [] OTHER                              -> "abandoned"
Written == IF current_segment <= LastSegment THEN current_segment
                                             ELSE LastSegment + 1
Transfer == INSTANCE FileTransfer WITH output <- SubSeq(file, 1, Written),
                                       outcome <- Outcome
ImplementsTransfer == Transfer!Spec

(* The process always ends: the file is complete, or an Interest ran out   *)
(* of retries, or a Nack or the user stopped it.  It never sits with       *)
(* nothing outstanding and something missing.                              *)
Termination == <>(status \notin {"starting", "running"})
=============================================================================
