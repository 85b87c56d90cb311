----------------------------- MODULE CppBenchmark -----------------------------
(***************************************************************************)
(* The C++ client in benchmark mode (c++/client/client.cpp without -d): a  *)
(* constant number of Interests is outstanding, each Data is replaced by   *)
(* an Interest with a new name, and every two seconds display prints the   *)
(* packets per second and the mean latency.                                *)
(*                                                                         *)
(* As in CppDownload, all handlers run on one thread and the external Face *)
(* calls one of the callbacks for each Interest.  A name is the number at  *)
(* its end; the first Window ones are written as segments, the others in   *)
(* decimal, so that two numbers never give one name.  Time is abstracted   *)
(* to the latency measured for each Data, in units of Rtts.                *)
(***************************************************************************)
EXTENDS Integers, FiniteSets

CONSTANTS Window,     \* -w option
          Retries,    \* re-expressions after a timeout; 5 in the code
          Rtts,       \* the latencies that occur
          Packets,    \* bound on the names requested
          NackBound,  \* bound on the Nacks the network sends
          Reports     \* bound on the calls of display

ASSUME WindowAssumption == Window \in Nat \ {0}
ASSUME RetriesAssumption == Retries \in Nat
ASSUME RttsAssumption == Rtts \subseteq Nat /\ Rtts # {}
ASSUME BoundsAssumption == Packets \in Nat /\ NackBound \in Nat /\ Reports \in Nat

VARIABLES
  exit_on_nack,    \* set by setExitOnNack before the client starts (--eon)
  status,          \* of the process: "starting", "running" or how it ended
  interests,       \* the Face's table of pending Interests
  current_packet,  \* number of the next name
  pkt_count,       \* Data since the last display
  rtt,             \* sum of their latencies
  received,        \* auxiliary: names whose Data was received
  nacks,           \* Nacks received so far
  reports,         \* displays so far
  shown,           \* auxiliary: sum of the packets per second displayed
  report           \* auxiliary: packets and latency of the last display

reportVars == <<reports, shown, report>>
vars == <<exit_on_nack, status, interests, current_packet, pkt_count, rtt, received,
          nacks, reportVars>>

(* An entry of the Face's table: a name, and the re-expressions left.      *)
Interest(name, n) == [name |-> name, n |-> n]
-----------------------------------------------------------------------------
Init ==
  /\ exit_on_nack \in BOOLEAN
  /\ status = "starting"
  /\ interests = {}
  /\ current_packet = 0
  /\ pkt_count = 0
  /\ rtt = 0
  /\ received = {}
  /\ nacks = 0
  /\ reports = 0
  /\ shown = 0
  /\ report = [packets |-> 0, latency |-> 0]

run ==
  /\ status = "starting"
  /\ status' = "running"
  /\ interests' = {Interest(k, Retries) : k \in 0..(Window - 1)}
  /\ current_packet' = Window
  /\ UNCHANGED <<exit_on_nack, pkt_count, rtt, received, nacks, reportVars>>

(* Fault: _current_packet is not advanced.                                 *)
onDataSameName(i, r) ==
  /\ status = "running" /\ current_packet < Packets
  /\ interests' = (interests \ {i}) \cup {Interest(current_packet, Retries)}
  /\ pkt_count' = pkt_count + 1
  /\ rtt' = rtt + r
  /\ received' = received \cup {i.name}
  /\ UNCHANGED <<exit_on_nack, status, current_packet, nacks, reportVars>>

(* The latency is added and a new name takes the place of the answered one.*)
onData(i, r) ==
  /\ status = "running" /\ current_packet < Packets
  /\ rtt' = rtt + r
  /\ interests' = (interests \ {i}) \cup {Interest(current_packet, Retries)}
  /\ current_packet' = current_packet + 1
  /\ pkt_count' = pkt_count + 1
  /\ received' = received \cup {i.name}
  /\ UNCHANGED <<exit_on_nack, status, nacks, reportVars>>

onTimeout(i) ==
  /\ status = "running"
  /\ IF i.n > 0
       THEN /\ interests' = (interests \ {i}) \cup {Interest(i.name, i.n - 1)}
            /\ UNCHANGED status
       ELSE /\ interests' = interests \ {i}
            /\ status' = "timeout"
  /\ UNCHANGED <<exit_on_nack, current_packet, pkt_count, rtt, received, nacks, reportVars>>

(* The Interest is sent again and its retries start over.                  *)
onNack(i) ==
  /\ status = "running" /\ nacks < NackBound
  /\ nacks' = nacks + 1
  /\ IF exit_on_nack
       THEN /\ interests' = interests \ {i}
            /\ status' = "nack"
       ELSE /\ interests' = (interests \ {i}) \cup {Interest(i.name, Retries)}
            /\ UNCHANGED status
  /\ UNCHANGED <<exit_on_nack, current_packet, pkt_count, rtt, received, reportVars>>

(* _rtt /= divisor != 0 ? divisor : -1; the type is unsigned, and dividing *)
(* by its largest value gives 0.                                           *)
Latency(divisor) == IF divisor # 0 THEN rtt \div divisor ELSE 0

(* Fault: _pkt_count is not reset.                                         *)
displayNoReset ==
  /\ status = "running" /\ reports < Reports
  /\ reports' = reports + 1
  /\ shown' = shown + pkt_count \div 2
  /\ report' = [packets |-> pkt_count, latency |-> Latency(pkt_count)]
  /\ rtt' = 0
  /\ UNCHANGED <<exit_on_nack, status, interests, current_packet, pkt_count, received, nacks>>

(* display halves _pkt_count and divides _rtt by _pkt_count in one output  *)
(* expression.  The compiler may do either first.                          *)
display ==
  /\ status = "running" /\ reports < Reports
  /\ reports' = reports + 1
  /\ shown' = shown + pkt_count \div 2
  /\ \E divisor \in {pkt_count, pkt_count \div 2} :
       report' = [packets |-> pkt_count, latency |-> Latency(divisor)]
  /\ rtt' = 0
  /\ pkt_count' = 0
  /\ UNCHANGED <<exit_on_nack, status, interests, current_packet, received, nacks>>

(* SIGINT, as in CppDownload.                                              *)
stop ==
  /\ status \in {"starting", "running"}
  /\ status' = "stopped"
  /\ UNCHANGED <<exit_on_nack, interests, current_packet, pkt_count, rtt, received, nacks,
                 reportVars>>

Next == \/ run
        \/ \E i \in interests, r \in Rtts : onData(i, r)
        \/ \E i \in interests : onTimeout(i)
        \/ \E i \in interests : onNack(i)
        \/ display
        \/ stop

Spec == Init /\ [][Next]_vars
-----------------------------------------------------------------------------
(* Every variable keeps its type; the unsigned ones do not go below zero.  *)
TypeOK ==
  /\ exit_on_nack \in BOOLEAN
  /\ status \in {"starting", "running", "timeout", "nack", "stopped"}
  /\ interests \in SUBSET [name : Nat, n : Nat]
  /\ current_packet \in Nat /\ pkt_count \in Nat /\ rtt \in Nat
  /\ received \in SUBSET Nat
  /\ nacks \in Nat /\ reports \in Nat /\ shown \in Nat
  /\ report \in [packets : Nat, latency : Nat]

(* No name is asked for again once its Data was received, so that a Data   *)
(* from a cache is never measured: every name handed out is outstanding    *)
(* once or received.                                                       *)
Outstanding == {i.name : i \in interests}
EveryNameOnce ==
  status = "running" =>
    /\ Outstanding \cap received = {}
    /\ Outstanding \cup received = 0..(current_packet - 1)

(* The packets per second that were displayed, times two seconds, are the  *)
(* Data received up to the last display, less what the halving cuts off.   *)
RatesAddUp ==
  LET displayed == Cardinality(received) - pkt_count
  IN  2 * shown <= displayed /\ displayed <= 2 * shown + reports

(* The latency in a report is a mean: it lies between the smallest and the *)
(* largest latency measured.                                               *)
LatencyIsMean ==
  report.packets > 0 => \E a, b \in Rtts : a <= report.latency /\ report.latency <= b
=============================================================================
