----------------------------- MODULE JavaDownload -----------------------------
(***************************************************************************)
(* The Java client in download mode (java/client/src/Client.java and       *)
(* PendingFile.java).  The Face thread runs the callbacks and keeps the    *)
(* received segments in pendingFile; the FileManager thread writes them in *)
(* order; the semaphore file_pass and the flag Main.cont connect the two.  *)
(*                                                                         *)
(* The Face is external: expressInterest throws an IOException or makes an *)
(* Interest pending, and for each of these the Face calls onData or        *)
(* onTimeout once.  The server answers the Interest for the file with its  *)
(* number of segments, 0 when it does not exist.  The client is taken to   *)
(* use the prefix of the command line where Client.java names an           *)
(* undeclared variable.                                                    *)
(*                                                                         *)
(* Main.cont is a plain static field: a thread sees its own writes, and    *)
(* those of the other thread perhaps never.                                *)
(***************************************************************************)
EXTENDS Integers, Sequences, FiniteSets

CONSTANTS Window,    \* -w option
          Segments,  \* number of segments of the file on the server
          Retries    \* initial value in retry_table; 2 in the code

ASSUME WindowAssumption == Window \in Nat \ {0}
ASSUME SegmentsAssumption == Segments \in Nat
ASSUME RetriesAssumption == Retries \in Nat

FileName == -1                        \* the Interest without a segment
Names == {FileName} \cup 0..(Segments - 1)

VARIABLES
  cont,         \* Main.cont
  face,         \* the Face thread: "loop", "release" (in onData), "left", "exit"
  interests,    \* names the Face has a pending Interest for
  retry_table,  \* name -> retries left, for the names that timed out
  failed,       \* auxiliary: names that an IOException left without an Interest
  next,
  max,
  pendingFile,  \* segments received and not written
  position,     \* next segment to write
  permits,      \* of file_pass
  manager,      \* the FileManager thread: where it is
  wanted,       \* the permits it asks for
  file          \* segments written, in order

faceVars == <<interests, retry_table, failed, next, max>>
managerVars == <<position, manager, wanted, file>>
vars == <<cont, face, faceVars, managerVars, pendingFile, permits>>

(* The constructor, Main, and the first loop of run: the file is asked     *)
(* for, or expressInterest throws and the client waits for nothing.        *)
Init ==
  /\ cont = TRUE
  /\ face = "loop"
  /\ interests \in {{}, {FileName}}
  /\ failed = {FileName} \ interests
  /\ retry_table = [n \in {} |-> 0]
  /\ next = Window
  /\ max = 0
  /\ pendingFile = {}
  /\ position = 0
  /\ permits = 0
  /\ manager = "check"
  /\ wanted = 0
  /\ file = << >>
-----------------------------------------------------------------------------
Forget(n) == [m \in DOMAIN retry_table \ {n} |-> retry_table[m]]

(* onData for the file: the number of segments, and the first window.  The *)
(* file cannot be created or segment k cannot be requested: the IOException*)
(* leaves the loop, and segment k and those after it are not requested.    *)
onDataLength ==
  /\ face = "loop" /\ FileName \in interests
  /\ retry_table' = Forget(FileName)
  /\ max' = Segments
  /\ cont' = (cont /\ Segments > 0)
  /\ LET limit == IF next < Segments THEN next ELSE Segments
     IN  \E k \in 0..limit :
           /\ interests' = (interests \ {FileName}) \cup 0..(k - 1)
           /\ failed' = failed \cup k..(limit - 1)
  /\ UNCHANGED <<face, next, pendingFile, permits, managerVars>>

(* onData for a segment: pendingFile.put.                                  *)
onDataPut(s) ==
  /\ face = "loop" /\ s \in interests \ {FileName}
  /\ retry_table' = Forget(s)
  /\ pendingFile' = pendingFile \cup {s}
  /\ interests' = interests \ {s}
  /\ face' = "release"
  /\ UNCHANGED <<cont, failed, next, max, permits, managerVars>>

(* ... then file_pass.release, and the next segment if there is one; next  *)
(* has moved on when expressInterest throws.                               *)
onDataRelease ==
  /\ face = "release"
  /\ permits' = permits + 1
  /\ next' = next + 1
  /\ LET new == {s \in {next} : s + 1 <= max}
     IN  \E sent \in {{}, new} : /\ interests' = interests \cup sent
                                 /\ failed' = failed \cup (new \ sent)
  /\ face' = "loop"
  /\ UNCHANGED <<cont, retry_table, max, pendingFile, managerVars>>

RetriesLeft(n) == IF n \in DOMAIN retry_table THEN retry_table[n] ELSE Retries
SetRetries(n, r) ==
  retry_table' = [m \in DOMAIN retry_table \cup {n} |-> IF m = n THEN r ELSE retry_table[m]]

(* Fault: a timeout is counted and the Interest is not sent again.         *)
onTimeoutDrops(n) ==
  /\ face = "loop" /\ n \in interests /\ RetriesLeft(n) > 0
  /\ SetRetries(n, RetriesLeft(n) - 1)
  /\ interests' = interests \ {n}
  /\ UNCHANGED <<cont, face, failed, next, max, pendingFile, permits, managerVars>>

(* onTimeout: the Interest is expressed again ...                          *)
onTimeoutAgain(n) ==
  /\ face = "loop" /\ n \in interests /\ RetriesLeft(n) > 0
  /\ SetRetries(n, RetriesLeft(n) - 1)
  /\ UNCHANGED <<cont, face, interests, failed, next, max, pendingFile, permits, managerVars>>

(* ... or expressInterest throws: no retry is counted and nobody waits for *)
(* the name any more ...                                                   *)
onTimeoutThrows(n) ==
  /\ face = "loop" /\ n \in interests /\ RetriesLeft(n) > 0
  /\ SetRetries(n, RetriesLeft(n))
  /\ interests' = interests \ {n}
  /\ failed' = failed \cup {n}
  /\ UNCHANGED <<cont, face, next, max, pendingFile, permits, managerVars>>

(* ... or no retry is left and the process exits.                          *)
onTimeoutExits(n) ==
  /\ face = "loop" /\ n \in interests /\ ~(RetriesLeft(n) > 0)
  /\ SetRetries(n, RetriesLeft(n))
  /\ interests' = interests \ {n}
  /\ cont' = FALSE
  /\ face' = "exit"
  /\ UNCHANGED <<failed, next, max, pendingFile, permits, managerVars>>

onTimeout(n) == onTimeoutAgain(n) \/ onTimeoutThrows(n) \/ onTimeoutExits(n)

(* The main loop sees Main.cont, which it may also miss, and run returns.  *)
runReturns ==
  /\ ~cont /\ face = "loop"
  /\ face' = "left"
  /\ UNCHANGED <<cont, faceVars, pendingFile, permits, managerVars>>
-----------------------------------------------------------------------------
Alive == face # "exit"

(* FileManager.run: the loop condition.  The write of onData for a missing *)
(* file may be missed, its own may not.                                    *)
MayMissCont == cont \/ max <= 0

managerCheck ==
  /\ Alive /\ manager = "check"
  /\ \/ ~cont /\ manager' = "done"
     \/ MayMissCont /\ manager' = "look"
  /\ UNCHANGED <<cont, face, faceVars, pendingFile, permits, position, wanted, file>>

(* The argument of acquire: availablePermits, or 1 when there is none.     *)
managerLook ==
  /\ Alive /\ manager = "look"
  /\ wanted' = IF permits > 0 THEN permits ELSE 1
  /\ manager' = "acquire"
  /\ UNCHANGED <<cont, face, faceVars, pendingFile, permits, position, file>>

(* file_pass.acquire, which blocks.                                        *)
managerAcquire ==
  /\ Alive /\ manager = "acquire" /\ permits >= wanted
  /\ permits' = permits - wanted
  /\ manager' = "write"
  /\ UNCHANGED <<cont, face, faceVars, pendingFile, position, wanted, file>>

(* PendingFile.nextSegment and write, until the next segment is missing.   *)
managerWrite ==
  /\ Alive /\ manager = "write"
  /\ IF position \in pendingFile
       THEN /\ file' = Append(file, position)
            /\ pendingFile' = pendingFile \ {position}
            /\ position' = position + 1
            /\ UNCHANGED manager
       ELSE /\ manager' = "test"
            /\ UNCHANGED <<pendingFile, position, file>>
  /\ UNCHANGED <<cont, face, faceVars, permits, wanted>>

(* Fault: isPending compares with <=.                                      *)
isPendingOffByOne == position <= max

(* Fault: isPending looks for received segments.                           *)
isPendingEmpty == pendingFile # {}

isPending == position < max

managerTest ==
  /\ Alive /\ manager = "test"
  /\ cont' = (cont /\ isPending)
  /\ manager' = "check"
  /\ UNCHANGED <<face, faceVars, pendingFile, permits, position, wanted, file>>
-----------------------------------------------------------------------------
FaceThread == \/ onDataLength
              \/ \E s \in Names \ {FileName} : onDataPut(s)
              \/ onDataRelease
              \/ \E n \in Names : onTimeout(n)
              \/ runReturns
FileManager == managerCheck \/ managerLook \/ managerAcquire \/ managerWrite \/ managerTest

Next == FaceThread \/ FileManager

(* Both threads run, and the Face resolves every Interest it has.  That    *)
(* the main loop sees Main.cont is not assumed.                            *)
Fairness == /\ WF_vars(onDataRelease) /\ WF_vars(FileManager)
            /\ \A n \in Names : WF_vars(onTimeout(n) \/ onDataPut(n)
                                          \/ (n = FileName /\ onDataLength))

Spec == Init /\ [][Next]_vars
FairSpec == Spec /\ Fairness
-----------------------------------------------------------------------------
(* Every variable keeps its type.                                          *)
TypeOK ==
  /\ cont \in BOOLEAN
  /\ face \in {"loop", "release", "left", "exit"}
  /\ interests \in SUBSET Names
  /\ DOMAIN retry_table \subseteq Names
  /\ \A n \in DOMAIN retry_table : retry_table[n] \in 0..Retries
  /\ failed \in SUBSET Names
  /\ next \in Nat /\ max \in 0..Segments
  /\ pendingFile \in SUBSET (0..(Segments - 1))
  /\ position \in 0..Segments
  /\ permits \in Nat
  /\ manager \in {"check", "look", "acquire", "write", "test", "done"}
  /\ wanted \in Nat
  /\ file \in Seq(Nat)

(* Each segment whose turn has come is in one place: awaited, received,    *)
(* written, or given up because its Interest could not be sent.  A timeout,*)
(* a late segment or an IOException for another one loses none.            *)
Awaited == interests \ {FileName}
Missing == failed \ {FileName}
Due == {s \in 0..(max - 1) : s < next}
NoSegmentLost ==
  /\ Awaited \cap pendingFile = {}
  /\ (Awaited \cup pendingFile) \cap 0..(position - 1) = {}
  /\ Missing \cap (Awaited \cup pendingFile \cup 0..(position - 1)) = {}
  /\ Alive => Awaited \cup pendingFile \cup 0..(position - 1) \cup Missing = Due

(* The client implements the abstract transfer.                            *)
Outcome == CASE face = "exit" \/ (~cont /\ max = 0)     -> "abandoned"
             [] ~cont /\ face # "exit" /\ max > 0       -> "complete"
             [] OTHER                                   -> "pending"
Transfer == INSTANCE FileTransfer WITH LastSegment <- Segments - 1,
                                       output <- file, outcome <- Outcome
ImplementsTransfer == Transfer!Spec

(* No wake-up of FileManager is lost: of a file that exists, and unless an *)
(* Interest runs out of retries, it writes all the segments before the     *)
(* first that could not be requested, and it ends when there is none.      *)
AllIsWritten ==
  <>(\/ Segments = 0
     \/ face = "exit"
     \/ FileName \in failed
     \/ position \in failed
     \/ failed = {} /\ manager = "done")
=============================================================================
