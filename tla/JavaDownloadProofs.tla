------------------------- MODULE JavaDownloadProofs ---------------------------
(***************************************************************************)
(* What JavaDownload guarantees for every window, every file length and    *)
(* every retry budget.  DownloadInv is the inductive invariant; that no    *)
(* segment is lost and that the client implements FileTransfer follow from *)
(* it.                                                                     *)
(***************************************************************************)
EXTENDS JavaDownload, SequenceTheorems, TLAPS

(* Until the length is known no segment was asked for and FileManager has  *)
(* not got past acquire.                                                   *)
BeforeLength ==
  max = 0 => /\ Awaited = {} /\ pendingFile = {} /\ Missing = {}
             /\ position = 0 /\ permits = 0 /\ next = Window
             /\ face # "release" /\ manager \notin {"write", "test"}

(* Afterwards the file is not asked for again.                             *)
AfterLength == max > 0 => max = Segments /\ FileName \notin interests

(* The file on disk is the written prefix, and cont is only taken down     *)
(* when the prefix is the file, when there is no file, or on the way out.  *)
Written ==
  /\ file = [k \in 1..position |-> k - 1]
  /\ manager = "acquire" => wanted >= 1
  /\ ~cont /\ Alive => IF max > 0 THEN position = Segments ELSE Segments = 0

DownloadInv == TypeOK /\ NoSegmentLost /\ BeforeLength /\ AfterLength /\ Written

(* The names other than the file's are its segments.                       *)
LEMMA SegmentNames == /\ Names \ {FileName} = 0..(Segments - 1)
                      /\ FileName \notin 0..(Segments - 1)
  BY SegmentsAssumption DEF Names, FileName

(* The initial state.                                                      *)
LEMMA InitDownloadInv == Init => DownloadInv
<1> SUFFICES ASSUME Init PROVE DownloadInv
  OBVIOUS
<1> USE WindowAssumption, SegmentsAssumption, RetriesAssumption, SegmentNames DEF Init
<1>1. TypeOK
  BY DEF TypeOK, Names
<1>2. Awaited = {} /\ Missing = {} /\ Due = {}
  BY DEF Awaited, Missing, Due
<1>3. NoSegmentLost
  BY <1>2 DEF NoSegmentLost
<1>4. BeforeLength /\ AfterLength
  BY <1>2 DEF BeforeLength, AfterLength
<1>5. Written
  BY DEF Written
<1> QED BY <1>1, <1>3, <1>4, <1>5 DEF DownloadInv

(* onData for the file.                                                    *)
LEMMA LengthKeeps == DownloadInv /\ onDataLength => DownloadInv'
<1> SUFFICES ASSUME DownloadInv, onDataLength PROVE DownloadInv'
  OBVIOUS
<1> USE SegmentsAssumption, SegmentNames DEF managerVars
<1>1. /\ max = 0 /\ Awaited = {} /\ pendingFile = {} /\ Missing = {}
      /\ position = 0 /\ face = "loop" /\ Alive /\ next = Window /\ Window \in Nat
  BY WindowAssumption DEF DownloadInv, TypeOK, AfterLength, BeforeLength, onDataLength, Alive
<1>2. /\ DOMAIN retry_table' \subseteq Names
      /\ \A n \in DOMAIN retry_table' : retry_table'[n] \in 0..Retries
  BY DEF DownloadInv, TypeOK, onDataLength, Forget
<1>3. PICK limit : limit = IF next < Segments THEN next ELSE Segments
  OBVIOUS
<1>4. limit \in Nat /\ limit <= Segments /\ limit <= next
  BY <1>1, <1>3
<1>5. PICK k \in 0..limit : /\ interests' = (interests \ {FileName}) \cup 0..(k - 1)
                            /\ failed' = failed \cup k..(limit - 1)
  BY <1>3 DEF onDataLength
<1>6. /\ max' = Segments /\ cont' = (cont /\ Segments > 0)
      /\ UNCHANGED <<face, next, pendingFile, permits, position, manager, wanted, file>>
  BY DEF onDataLength
<1>7. 0..(k - 1) \subseteq 0..(Segments - 1) /\ k..(limit - 1) \subseteq 0..(Segments - 1)
  BY <1>4
<1>8. Awaited' = 0..(k - 1) /\ Missing' = k..(limit - 1) /\ Alive'
  BY <1>1, <1>5, <1>6, <1>7 DEF Awaited, Missing, Alive
<1>9. Due' = 0..(k - 1) \cup k..(limit - 1)
  <2>1. Due' = {s \in 0..(Segments - 1) : s < next}
    BY <1>6 DEF Due
  <2>2. {s \in 0..(Segments - 1) : s < next} = 0..(limit - 1)
    BY <1>1, <1>3
  <2>3. 0..(limit - 1) = 0..(k - 1) \cup k..(limit - 1)
    BY <1>4
  <2> QED BY <2>1, <2>2, <2>3
<1>10. TypeOK'
  <2>1. cont' \in BOOLEAN
    BY <1>6
  <2>2. interests' \in SUBSET Names /\ failed' \in SUBSET Names
    BY <1>5, <1>7 DEF DownloadInv, TypeOK
  <2>3. max' \in 0..Segments
    BY <1>6
  <2> QED BY <1>2, <1>6, <2>1, <2>2, <2>3 DEF DownloadInv, TypeOK
<1>11. NoSegmentLost'
  <2>1. 0..(k - 1) \cap k..(limit - 1) = {}
    BY <1>4
  <2>2. pendingFile' = {} /\ 0..(position' - 1) = {}
    BY <1>1, <1>6
  <2> QED BY <1>8, <1>9, <2>1, <2>2 DEF NoSegmentLost
<1>12. BeforeLength'
  <2>1. Segments = 0 => Awaited' = {} /\ Missing' = {}
    BY <1>4, <1>8
  <2> QED BY <1>1, <1>6, <2>1 DEF DownloadInv, BeforeLength
<1>13. AfterLength'
  BY <1>5, <1>6, <1>7 DEF AfterLength
<1>14. Written'
  <2>1. cont \/ Segments = 0
    BY <1>1 DEF DownloadInv, Written
  <2>2. ~cont' => Segments = 0
    <3> SUFFICES ASSUME ~(Segments = 0) PROVE cont'
      OBVIOUS
    <3>1. Segments > 0
      OBVIOUS
    <3>2. cont' = (cont /\ Segments > 0)
      BY <1>6
    <3> QED BY <2>1, <3>1, <3>2, Zenon
  <2> QED BY <1>1, <1>6, <2>2 DEF DownloadInv, Written
<1> QED BY <1>10, <1>11, <1>12, <1>13, <1>14 DEF DownloadInv

(* onData for a segment: pendingFile.put.                                  *)
LEMMA PutKeeps == ASSUME DownloadInv, NEW s \in Names \ {FileName}, onDataPut(s)
                  PROVE  DownloadInv'
<1> USE SegmentsAssumption, SegmentNames DEF managerVars
<1>1. s \in Awaited /\ s \in 0..(Segments - 1)
  BY DEF onDataPut, Awaited
<1>2. max \in Nat /\ max > 0 /\ Alive /\ Alive'
  BY <1>1 DEF DownloadInv, TypeOK, BeforeLength, Alive, onDataPut
<1>3. Awaited' = Awaited \ {s} /\ pendingFile' = pendingFile \cup {s}
      /\ Missing' = Missing /\ Due' = Due
  BY DEF Awaited, Missing, Due, onDataPut
<1>4. TypeOK'
  <2>1. /\ DOMAIN retry_table' \subseteq Names
        /\ \A n \in DOMAIN retry_table' : retry_table'[n] \in 0..Retries
    BY DEF DownloadInv, TypeOK, onDataPut, Forget
  <2> QED BY <1>1, <2>1 DEF DownloadInv, TypeOK, onDataPut
<1>5. NoSegmentLost'
  BY <1>1, <1>2, <1>3 DEF DownloadInv, NoSegmentLost, onDataPut
<1>6. BeforeLength' /\ AfterLength'
  BY <1>2, <1>3 DEF DownloadInv, BeforeLength, AfterLength, onDataPut
<1>7. Written'
  BY <1>2 DEF DownloadInv, Written, onDataPut
<1> QED BY <1>4, <1>5, <1>6, <1>7 DEF DownloadInv

(* onData for a segment: the permit and the next Interest.                 *)
LEMMA ReleaseKeeps == DownloadInv /\ onDataRelease => DownloadInv'
<1> SUFFICES ASSUME DownloadInv, onDataRelease PROVE DownloadInv'
  OBVIOUS
<1> USE SegmentsAssumption, SegmentNames DEF managerVars
<1>1. /\ max = Segments /\ max > 0 /\ Alive /\ Alive' /\ next \in Nat
      /\ FileName \notin interests
  BY DEF DownloadInv, TypeOK, BeforeLength, AfterLength, Alive, onDataRelease
<1>2. PICK new : new = {s \in {next} : s + 1 <= max}
  OBVIOUS
<1>3. PICK sent \in {{}, new} : /\ interests' = interests \cup sent
                                /\ failed' = failed \cup (new \ sent)
  BY <1>2 DEF onDataRelease
<1>4. sent \subseteq new /\ new \subseteq 0..(Segments - 1) /\ FileName \notin new
  BY <1>1, <1>2, <1>3
<1>5. /\ permits' = permits + 1 /\ next' = next + 1 /\ face' = "loop"
      /\ UNCHANGED <<cont, retry_table, max, pendingFile, position, manager, wanted, file>>
  BY DEF onDataRelease
<1>6. Awaited' = Awaited \cup sent /\ Missing' = Missing \cup (new \ sent)
  BY <1>3, <1>4 DEF Awaited, Missing
<1>7. Due' = Due \cup new /\ new \cap Due = {}
  BY <1>1, <1>2, <1>5 DEF Due
<1>8. TypeOK'
  <2>1. interests' \in SUBSET Names /\ failed' \in SUBSET Names
    BY <1>3, <1>4 DEF DownloadInv, TypeOK
  <2>2. permits' \in Nat /\ next' \in Nat
    BY <1>1, <1>5 DEF DownloadInv, TypeOK
  <2> QED BY <1>5, <2>1, <2>2 DEF DownloadInv, TypeOK
<1>9. NoSegmentLost'
  <2>1. /\ Awaited \cap pendingFile = {}
        /\ (Awaited \cup pendingFile) \cap 0..(position - 1) = {}
        /\ Missing \cap (Awaited \cup pendingFile \cup 0..(position - 1)) = {}
        /\ Awaited \cup pendingFile \cup 0..(position - 1) \cup Missing = Due
    BY <1>1 DEF DownloadInv, NoSegmentLost
  <2>2. PICK done : done = 0..(position - 1)
    OBVIOUS
  <2>3. 0..(position' - 1) = done /\ pendingFile' = pendingFile
    BY <1>5, <2>2
  <2> QED BY <1>4, <1>6, <1>7, <2>1, <2>2, <2>3 DEF NoSegmentLost
<1>10. AfterLength' /\ BeforeLength'
  <2>1. FileName \notin interests'
    BY <1>1, <1>3, <1>4
  <2>2. max' = Segments /\ max' > 0 /\ max' # 0
    BY <1>1, <1>5
  <2> QED BY <2>1, <2>2 DEF AfterLength, BeforeLength
<1>11. Written'
  BY <1>1, <1>5 DEF DownloadInv, Written
<1> QED BY <1>8, <1>9, <1>10, <1>11 DEF DownloadInv

(* What the three ways through onTimeout do to the retry table.            *)
LEMMA RetriesKept ==
  ASSUME DownloadInv, NEW n \in Names, NEW r \in 0..Retries, SetRetries(n, r)
  PROVE  /\ DOMAIN retry_table' \subseteq Names
         /\ \A m \in DOMAIN retry_table' : retry_table'[m] \in 0..Retries
  BY DEF DownloadInv, TypeOK, SetRetries

(* onTimeout: the same Interest again, none, or the process ends.          *)
LEMMA TimeoutKeeps == ASSUME DownloadInv, NEW n \in Names, onTimeout(n)
                      PROVE  DownloadInv'
<1> USE SegmentsAssumption, RetriesAssumption, SegmentNames DEF managerVars
<1>1. n \in interests /\ Alive /\ RetriesLeft(n) \in 0..Retries
  BY DEF DownloadInv, TypeOK, onTimeout, onTimeoutAgain, onTimeoutThrows, onTimeoutExits,
         Alive, RetriesLeft
<1>2. /\ UNCHANGED <<next, max, pendingFile, permits, position, manager, wanted, file>>
      /\ Due' = Due
  BY DEF onTimeout, onTimeoutAgain, onTimeoutThrows, onTimeoutExits, Due
<1>3. CASE onTimeoutAgain(n)
  <2>1. UNCHANGED <<cont, face, interests, failed>> /\ SetRetries(n, RetriesLeft(n) - 1)
    BY <1>3 DEF onTimeoutAgain
  <2>2. RetriesLeft(n) - 1 \in 0..Retries
    BY <1>1, <1>3 DEF onTimeoutAgain
  <2>3. Awaited' = Awaited /\ Missing' = Missing /\ Alive' = Alive
    BY <2>1 DEF Awaited, Missing, Alive
  <2>4. TypeOK'
    <3>1. /\ DOMAIN retry_table' \subseteq Names
          /\ \A m \in DOMAIN retry_table' : retry_table'[m] \in 0..Retries
      BY <2>1, <2>2, RetriesKept
    <3> QED BY <1>2, <2>1, <3>1 DEF DownloadInv, TypeOK
  <2>5. NoSegmentLost'
    BY <1>2, <2>1, <2>3 DEF DownloadInv, NoSegmentLost
  <2>6. BeforeLength' /\ AfterLength' /\ Written'
    BY <1>2, <2>1, <2>3 DEF DownloadInv, BeforeLength, AfterLength, Written
  <2> QED BY <2>4, <2>5, <2>6 DEF DownloadInv
<1>4. CASE onTimeoutThrows(n)
  <2>1. /\ UNCHANGED <<cont, face>> /\ SetRetries(n, RetriesLeft(n))
        /\ interests' = interests \ {n} /\ failed' = failed \cup {n}
    BY <1>4 DEF onTimeoutThrows
  <2>2. PICK gone : gone = {n} \ {FileName}
    OBVIOUS
  <2>3. /\ Awaited' = Awaited \ gone /\ Missing' = Missing \cup gone /\ Alive' = Alive
        /\ gone \subseteq Awaited
    BY <1>1, <2>1, <2>2 DEF Awaited, Missing, Alive
  <2>4. TypeOK'
    <3>1. /\ DOMAIN retry_table' \subseteq Names
          /\ \A m \in DOMAIN retry_table' : retry_table'[m] \in 0..Retries
      BY <1>1, <2>1, RetriesKept
    <3> QED BY <1>2, <2>1, <3>1 DEF DownloadInv, TypeOK
  <2>5. NoSegmentLost'
    <3>1. /\ Awaited \cap pendingFile = {}
          /\ (Awaited \cup pendingFile) \cap 0..(position - 1) = {}
          /\ Missing \cap (Awaited \cup pendingFile \cup 0..(position - 1)) = {}
          /\ Awaited \cup pendingFile \cup 0..(position - 1) \cup Missing = Due
      BY <1>1 DEF DownloadInv, NoSegmentLost
    <3>2. PICK done : done = 0..(position - 1)
      OBVIOUS
    <3>3. 0..(position' - 1) = done /\ pendingFile' = pendingFile
      BY <1>2, <3>2
    <3> QED BY <1>2, <2>3, <3>1, <3>2, <3>3 DEF NoSegmentLost
  <2>6. BeforeLength' /\ AfterLength' /\ Written'
    BY <1>1, <1>2, <2>1, <2>3 DEF DownloadInv, BeforeLength, AfterLength, Written
  <2> QED BY <2>4, <2>5, <2>6 DEF DownloadInv
<1>5. CASE onTimeoutExits(n)
  <2>1. /\ interests' = interests \ {n} /\ face' = "exit" /\ ~cont' /\ cont' \in BOOLEAN
        /\ failed' = failed /\ SetRetries(n, RetriesLeft(n))
    BY <1>5 DEF onTimeoutExits
  <2>2. Awaited' \subseteq Awaited /\ ~Alive' /\ Missing' = Missing
    BY <2>1 DEF Awaited, Alive, Missing
  <2>3. TypeOK'
    <3>1. /\ DOMAIN retry_table' \subseteq Names
          /\ \A m \in DOMAIN retry_table' : retry_table'[m] \in 0..Retries
      BY <1>1, <2>1, RetriesKept
    <3> QED BY <1>2, <2>1, <3>1 DEF DownloadInv, TypeOK
  <2>4. NoSegmentLost'
    BY <1>2, <2>2 DEF DownloadInv, NoSegmentLost
  <2>5. BeforeLength' /\ AfterLength' /\ Written'
    BY <1>2, <2>1, <2>2 DEF DownloadInv, BeforeLength, AfterLength, Written
  <2> QED BY <2>3, <2>4, <2>5 DEF DownloadInv
<1> QED BY <1>3, <1>4, <1>5 DEF onTimeout

(* run returns.                                                            *)
LEMMA ReturnKeeps == DownloadInv /\ runReturns => DownloadInv'
<1> SUFFICES ASSUME DownloadInv, runReturns PROVE DownloadInv'
  OBVIOUS
<1>1. /\ face = "loop" /\ face' = "left"
      /\ UNCHANGED <<cont, interests, retry_table, failed, next, max, position,
                     manager, wanted, file, pendingFile, permits>>
  BY DEF runReturns, faceVars, managerVars
<1>2. Awaited' = Awaited /\ Missing' = Missing /\ Due' = Due /\ Alive /\ Alive'
  BY <1>1 DEF Awaited, Missing, Due, Alive
<1>3. TypeOK' /\ NoSegmentLost'
  BY <1>1, <1>2 DEF DownloadInv, TypeOK, NoSegmentLost
<1>4. BeforeLength' /\ AfterLength' /\ Written'
  BY <1>1, <1>2 DEF DownloadInv, BeforeLength, AfterLength, Written
<1> QED BY <1>3, <1>4 DEF DownloadInv

(* FileManager: the loop condition, the argument of acquire, and acquire.  *)
LEMMA WaitKeeps == DownloadInv /\ (managerCheck \/ managerLook \/ managerAcquire) => DownloadInv'
<1> SUFFICES ASSUME DownloadInv, managerCheck \/ managerLook \/ managerAcquire
             PROVE  DownloadInv'
  OBVIOUS
<1>1. UNCHANGED <<cont, face, interests, retry_table, failed, next, max, position,
                  file, pendingFile>>
  BY DEF managerCheck, managerLook, managerAcquire, faceVars
<1>2. permits \in Nat /\ wanted \in Nat /\ max \in Nat
      /\ (max = 0 => permits = 0) /\ (manager = "acquire" => wanted >= 1)
  BY SegmentsAssumption DEF DownloadInv, TypeOK, BeforeLength, Written
<1>3. /\ permits' \in Nat /\ wanted' \in Nat
      /\ manager' \in {"check", "look", "acquire", "write", "test", "done"}
      /\ max = 0 => permits' = 0 /\ manager' \notin {"write", "test"}
      /\ manager' = "acquire" => wanted' >= 1
  <2>1. CASE managerCheck
    BY <1>2, <2>1 DEF managerCheck
  <2>2. CASE managerLook
    BY <1>2, <2>2 DEF managerLook
  <2>3. CASE managerAcquire
    BY <1>2, <2>3 DEF managerAcquire
  <2> QED BY <2>1, <2>2, <2>3
<1>4. Awaited' = Awaited /\ Missing' = Missing /\ Due' = Due /\ Alive' = Alive
  BY <1>1 DEF Awaited, Missing, Due, Alive
<1>5. TypeOK' /\ NoSegmentLost'
  BY <1>1, <1>3, <1>4 DEF DownloadInv, TypeOK, NoSegmentLost
<1>6. BeforeLength' /\ AfterLength' /\ Written'
  BY <1>1, <1>3, <1>4 DEF DownloadInv, BeforeLength, AfterLength, Written
<1> QED BY <1>5, <1>6 DEF DownloadInv

(* A written prefix grows by the segment at its end.                       *)
LEMMA PrefixGrows ==
  ASSUME NEW n \in Nat
  PROVE  Append([k \in 1..n |-> k - 1], n) = [k \in 1..(n + 1) |-> k - 1]
<1> DEFINE old == [k \in 1..n |-> k - 1]
           all == [k \in 1..(n + 1) |-> k - 1]
<1>1. old \in Seq(Nat) /\ Len(old) = n
  OBVIOUS
<1>2. all \in Seq(Nat) /\ Len(all) = n + 1
  OBVIOUS
<1>3. \A i \in 1..(n + 1) : all[i] = IF i <= n THEN old[i] ELSE n
  OBVIOUS
<1> HIDE DEF old, all
<1>4. /\ Append(old, n) \in Seq(Nat)
      /\ Len(Append(old, n)) = n + 1
      /\ \A i \in 1..(n + 1) : Append(old, n)[i] = IF i <= n THEN old[i] ELSE n
  <2>1. Append(old, n) \in Seq(Nat) /\ Len(Append(old, n)) = n + 1
    BY <1>1
  <2>2. \A i \in 1..n : Append(old, n)[i] = old[i]
    BY <1>1
  <2>3. Append(old, n)[n + 1] = n
    BY <1>1
  <2> QED BY <2>1, <2>2, <2>3
<1>5. Append(old, n) = all
  BY <1>2, <1>3, <1>4, SeqEqual
<1> QED BY <1>5 DEF old, all

(* FileManager: one round of the write loop.                               *)
LEMMA WriteKeeps == DownloadInv /\ managerWrite => DownloadInv'
<1> SUFFICES ASSUME DownloadInv, managerWrite PROVE DownloadInv'
  OBVIOUS
<1> USE SegmentsAssumption
<1>1. /\ Alive /\ manager = "write"
      /\ UNCHANGED <<cont, face, interests, retry_table, failed, next, max, permits, wanted>>
  BY DEF managerWrite, faceVars
<1>2. Awaited' = Awaited /\ Missing' = Missing /\ Due' = Due /\ Alive'
  BY <1>1 DEF Awaited, Missing, Due, Alive
<1>3. /\ max \in Nat /\ max > 0 /\ position \in 0..Segments
      /\ pendingFile \subseteq 0..(Segments - 1)
  BY <1>1 DEF DownloadInv, TypeOK, BeforeLength
<1>4. CASE position \in pendingFile
  <2>1. /\ file' = Append(file, position)
        /\ pendingFile' = pendingFile \ {position}
        /\ position' = position + 1
        /\ manager' = manager
    BY <1>4 DEF managerWrite
  <2>2. position \in Nat /\ position + 1 \in 0..Segments /\ position < Segments
    BY <1>3, <1>4
  <2>3. cont
    BY <1>1, <1>3, <2>2 DEF DownloadInv, Written
  <2>4. file' = [k \in 1..(position + 1) |-> k - 1]
    BY <2>1, <2>2, PrefixGrows DEF DownloadInv, Written
  <2>5. TypeOK'
    <3>1. file' \in Seq(Nat)
      BY <2>2, <2>4
    <3> QED BY <1>1, <2>1, <2>2, <3>1 DEF DownloadInv, TypeOK
  <2>6. 0..(position' - 1) = 0..(position - 1) \cup {position}
    BY <2>1, <2>2
  <2>7. NoSegmentLost'
    <3>1. /\ Awaited \cap pendingFile = {}
          /\ (Awaited \cup pendingFile) \cap 0..(position - 1) = {}
          /\ Missing \cap (Awaited \cup pendingFile \cup 0..(position - 1)) = {}
          /\ Awaited \cup pendingFile \cup 0..(position - 1) \cup Missing = Due
      BY <1>1 DEF DownloadInv, NoSegmentLost
    <3>2. position \notin 0..(position - 1)
      BY <2>2
    <3> QED BY <1>2, <1>4, <2>1, <2>6, <3>1, <3>2 DEF NoSegmentLost
  <2>8. BeforeLength' /\ AfterLength'
    BY <1>1, <1>2, <1>3 DEF DownloadInv, BeforeLength, AfterLength
  <2>9. Written'
    BY <1>1, <2>1, <2>3, <2>4 DEF Written
  <2> QED BY <2>5, <2>7, <2>8, <2>9 DEF DownloadInv
<1>5. CASE position \notin pendingFile
  <2>1. manager' = "test" /\ UNCHANGED <<pendingFile, position, file>>
    BY <1>5 DEF managerWrite
  <2>2. TypeOK' /\ NoSegmentLost'
    BY <1>1, <1>2, <2>1 DEF DownloadInv, TypeOK, NoSegmentLost
  <2>3. BeforeLength' /\ AfterLength' /\ Written'
    BY <1>1, <1>2, <1>3, <2>1 DEF DownloadInv, BeforeLength, AfterLength, Written
  <2> QED BY <2>2, <2>3 DEF DownloadInv
<1> QED BY <1>4, <1>5

(* FileManager: isPending decides on Main.cont.                            *)
LEMMA TestKeeps == DownloadInv /\ managerTest => DownloadInv'
<1> SUFFICES ASSUME DownloadInv, managerTest PROVE DownloadInv'
  OBVIOUS
<1> USE SegmentsAssumption
<1>1. /\ Alive /\ manager = "test" /\ manager' = "check"
      /\ cont' = (cont /\ position < max)
      /\ UNCHANGED <<face, interests, retry_table, failed, next, max, permits, wanted,
                     pendingFile, position, file>>
  BY DEF managerTest, faceVars, isPending
<1>2. Awaited' = Awaited /\ Missing' = Missing /\ Due' = Due /\ Alive'
  BY <1>1 DEF Awaited, Missing, Due, Alive
<1>3. max > 0 /\ max = Segments /\ position \in 0..Segments
  BY <1>1 DEF DownloadInv, TypeOK, BeforeLength, AfterLength
<1>4. TypeOK' /\ NoSegmentLost'
  <2>1. cont' \in BOOLEAN
    BY <1>1
  <2> QED BY <1>1, <1>2, <2>1 DEF DownloadInv, TypeOK, NoSegmentLost
<1>5. BeforeLength' /\ AfterLength'
  BY <1>1, <1>2, <1>3 DEF DownloadInv, BeforeLength, AfterLength
<1>6. Written'
  <2>1. ~cont' => position = Segments
    <3>1. CASE cont
      <4>1. ~cont' => ~(position < max)
        BY <1>1, <3>1
      <4> QED BY <1>3, <4>1
    <3>2. CASE ~cont
      BY <1>1, <1>3, <3>2 DEF DownloadInv, Written
    <3> QED BY <3>1, <3>2
  <2> QED BY <1>1, <1>3, <2>1 DEF DownloadInv, Written
<1> QED BY <1>4, <1>5, <1>6 DEF DownloadInv

(* A step that changes nothing.                                            *)
LEMMA StutterKeeps == DownloadInv /\ UNCHANGED vars => DownloadInv'
<1> SUFFICES ASSUME DownloadInv, UNCHANGED vars PROVE DownloadInv'
  OBVIOUS
<1> USE DEF vars, faceVars, managerVars
<1>1. Awaited' = Awaited /\ Missing' = Missing /\ Due' = Due /\ Alive' = Alive
  BY DEF Awaited, Missing, Due, Alive
<1> QED BY <1>1 DEF DownloadInv, TypeOK, NoSegmentLost, BeforeLength, AfterLength, Written

(* DownloadInv is inductive.                                               *)
THEOREM DownloadInvariant == Spec => []DownloadInv
<1>1. Init => DownloadInv
  BY InitDownloadInv
<1>2. DownloadInv /\ [Next]_vars => DownloadInv'
  <2> SUFFICES ASSUME DownloadInv, [Next]_vars PROVE DownloadInv'
    OBVIOUS
  <2>1. CASE FaceThread
    BY <2>1, LengthKeeps, PutKeeps, ReleaseKeeps, TimeoutKeeps, ReturnKeeps DEF FaceThread
  <2>2. CASE FileManager
    BY <2>2, WaitKeeps, WriteKeeps, TestKeeps DEF FileManager
  <2>3. CASE UNCHANGED vars
    BY <2>3, StutterKeeps
  <2> QED BY <2>1, <2>2, <2>3 DEF Next
<1> QED BY <1>1, <1>2, PTL DEF Spec

(* Every variable of the Java client keeps its type.                       *)
THEOREM TypeCorrect == Spec => []TypeOK
<1>1. DownloadInv => TypeOK
  BY DEF DownloadInv
<1> QED BY <1>1, DownloadInvariant, PTL

(* Each segment whose turn has come is awaited, received, written or given *)
(* up for an IOException, and only one of these, whatever the order of     *)
(* onData, onTimeout, their exceptions and FileManager's steps.            *)
THEOREM SegmentsAreKept == Spec => []NoSegmentLost
<1>1. DownloadInv => NoSegmentLost
  BY DEF DownloadInv
<1> QED BY <1>1, DownloadInvariant, PTL
-----------------------------------------------------------------------------
(* How the outcome of the abstract transfer reads off the client's state.  *)
LEMMA OutcomeIs ==
  ASSUME max \in Nat
  PROVE  /\ face = "exit" \/ (~cont /\ max = 0) => Outcome = "abandoned"
         /\ ~cont /\ Alive /\ max > 0 => Outcome = "complete"
         /\ cont /\ Alive => Outcome = "pending"
  BY DEF Outcome, Alive

(* The client starts as a transfer does.                                   *)
LEMMA InitImplements == Init => Transfer!Init
<1> SUFFICES ASSUME Init PROVE Transfer!Init
  OBVIOUS
<1>1. Outcome = "pending" /\ file = << >>
  BY OutcomeIs DEF Init, Alive
<1> QED BY <1>1 DEF Transfer!Init

(* After the length is known, a client that cleared cont has written the   *)
(* whole file and awaits no Interest, so that no timeout can end it early. *)
LEMMA NothingAwaitedAtTheEnd ==
  ASSUME DownloadInv, Alive, ~cont, max > 0
  PROVE  interests = {} /\ pendingFile = {}
<1>1. position = Segments /\ FileName \notin interests
  BY DEF DownloadInv, Written, AfterLength
<1>2. interests \subseteq 0..(Segments - 1) /\ pendingFile \subseteq 0..(Segments - 1)
  BY <1>1, SegmentNames DEF DownloadInv, TypeOK
<1>3. (Awaited \cup pendingFile) \cap 0..(Segments - 1) = {}
  BY <1>1 DEF DownloadInv, NoSegmentLost
<1> QED BY <1>1, <1>2, <1>3 DEF Awaited

(* Every step of the client is a step of the transfer, or none.            *)
LEMMA NextImplements ==
  DownloadInv /\ DownloadInv' /\ [Next]_vars => [Transfer!Next]_(Transfer!vars)
<1> SUFFICES ASSUME DownloadInv, DownloadInv', [Next]_vars
             PROVE  [Transfer!Next]_(Transfer!vars)
  OBVIOUS
<1> USE SegmentsAssumption
<1>1. max \in Nat /\ max' \in Nat /\ cont \in BOOLEAN /\ cont' \in BOOLEAN
  BY DEF DownloadInv, TypeOK
<1>2. /\ face = "exit" \/ (~cont /\ max = 0) => Outcome = "abandoned"
      /\ ~cont /\ Alive /\ max > 0 => Outcome = "complete"
      /\ cont /\ Alive => Outcome = "pending"
  BY <1>1, OutcomeIs
<1>3. /\ face' = "exit" \/ (~cont' /\ max' = 0) => Outcome' = "abandoned"
      /\ ~cont' /\ Alive' /\ max' > 0 => Outcome' = "complete"
      /\ cont' /\ Alive' => Outcome' = "pending"
  BY <1>1 DEF Outcome, Alive
<1>4. ASSUME file' = file, Outcome' = Outcome PROVE [Transfer!Next]_(Transfer!vars)
  BY <1>4 DEF Transfer!vars
<1>5. ASSUME file' = file, cont' = cont, max' = max, face' # "exit", face # "exit"
      PROVE  [Transfer!Next]_(Transfer!vars)
  BY <1>1, <1>2, <1>3, <1>4, <1>5 DEF Alive
<1>6. ASSUME file' = file, Outcome = "pending", Outcome' = "abandoned"
      PROVE  [Transfer!Next]_(Transfer!vars)
  BY <1>6 DEF Transfer!Next, Transfer!Abandon
<1>7. CASE onDataLength
  <2>1. file' = file /\ Alive /\ Alive' /\ max' = Segments /\ max = 0
    BY <1>1, <1>7 DEF onDataLength, managerVars, Alive, DownloadInv, AfterLength
  <2>2. CASE Segments = 0
    BY <1>1, <1>2, <1>3, <1>4, <1>6, <1>7, <2>1, <2>2 DEF onDataLength
  <2>3. CASE Segments > 0
    <3>1. cont
      BY <1>1, <2>1, <2>3 DEF DownloadInv, Written
    <3>2. cont' = (cont /\ Segments > 0)
      BY <1>7 DEF onDataLength
    <3>3. cont'
      BY <2>3, <3>1, <3>2, Zenon
    <3> QED BY <1>2, <1>3, <1>4, <2>1, <3>1, <3>3
  <2> QED BY <2>2, <2>3
<1>8. CASE \E s \in Names \ {FileName} : onDataPut(s)
  BY <1>5, <1>8 DEF onDataPut, managerVars
<1>9. CASE onDataRelease \/ runReturns
  BY <1>5, <1>9 DEF onDataRelease, runReturns, managerVars, faceVars
<1>10. CASE \E n \in Names : onTimeout(n)
  <2> PICK n \in Names : onTimeout(n)
    BY <1>10
  <2>1. face = "loop" /\ Alive /\ n \in interests /\ file' = file /\ max' = max
    BY DEF onTimeout, onTimeoutAgain, onTimeoutThrows, onTimeoutExits, managerVars, Alive
  <2>2. CASE onTimeoutAgain(n) \/ onTimeoutThrows(n)
    BY <1>5, <2>1, <2>2 DEF onTimeoutAgain, onTimeoutThrows
  <2>3. CASE onTimeoutExits(n)
    <3>1. Outcome' = "abandoned"
      BY <1>3, <2>3 DEF onTimeoutExits
    <3>2. cont \/ max = 0
      BY <1>1, <2>1, NothingAwaitedAtTheEnd
    <3>3. CASE cont
      BY <1>2, <1>6, <2>1, <3>1, <3>3
    <3>4. CASE ~cont /\ max = 0
      BY <1>2, <1>4, <2>1, <3>1, <3>4
    <3> QED BY <1>1, <3>2, <3>3, <3>4
  <2> QED BY <2>2, <2>3 DEF onTimeout
<1>11. CASE managerCheck \/ managerLook \/ managerAcquire
  BY <1>5, <1>11 DEF managerCheck, managerLook, managerAcquire, faceVars, Alive
<1>12. CASE managerWrite
  <2>1. Alive /\ Alive' /\ cont' = cont /\ max' = max
    BY <1>12 DEF managerWrite, faceVars, Alive
  <2>2. CASE position \notin pendingFile
    BY <1>5, <1>12, <2>1, <2>2 DEF managerWrite, Alive
  <2>3. CASE position \in pendingFile
    <3>1. position' = position + 1 /\ position \in Nat /\ position' \in 0..Segments
      BY <1>12, <2>3 DEF managerWrite, DownloadInv, TypeOK
    <3>2. max > 0
      BY <1>1, <2>3 DEF DownloadInv, BeforeLength
    <3>3. cont
      BY <2>1, <2>3, <3>2, NothingAwaitedAtTheEnd
    <3>4. Outcome = "pending" /\ Outcome' = "pending"
      BY <1>2, <1>3, <2>1, <3>3
    <3>5. Len(file) = position /\ file' = Transfer!FirstSegments(position')
      BY <3>1 DEF DownloadInv, Written, Transfer!FirstSegments
    <3>6. position' \in Len(file)..((Segments - 1) + 1)
      BY <3>1, <3>5
    <3> QED BY <3>4, <3>5, <3>6 DEF Transfer!Next, Transfer!Write
  <2> QED BY <2>2, <2>3
<1>13. CASE managerTest
  <2>1. /\ Alive /\ Alive' /\ max' = max /\ face' = face /\ file' = file
        /\ position' = position /\ manager = "test" /\ (cont' => cont)
    BY <1>13 DEF managerTest, faceVars, Alive
  <2>2. max > 0 /\ position \in Nat
    BY <1>1, <2>1 DEF DownloadInv, BeforeLength, TypeOK
  <2>3. CASE cont' = cont
    BY <1>5, <2>1, <2>3 DEF Alive
  <2>4. CASE cont /\ ~cont'
    <3>1. Outcome = "pending" /\ Outcome' = "complete"
      BY <1>2, <1>3, <2>1, <2>2, <2>4
    <3>2. position = Segments
      BY <2>1, <2>2, <2>4 DEF DownloadInv, Written
    <3>3. Len(file) = Segments /\ file' = Transfer!FirstSegments(Segments)
      BY <2>1, <3>2 DEF DownloadInv, Written, Transfer!FirstSegments
    <3>4. Segments \in Len(file)..((Segments - 1) + 1) /\ Segments = (Segments - 1) + 1
      BY <3>3
    <3>5. Transfer!Write
      BY <3>1, <3>3, <3>4 DEF Transfer!Write
    <3> QED BY <3>5 DEF Transfer!Next
  <2> QED BY <1>1, <2>1, <2>3, <2>4
<1>14. CASE UNCHANGED vars
  <2>1. file' = file /\ Outcome' = Outcome
    BY <1>14 DEF vars, faceVars, managerVars, Outcome
  <2> QED BY <1>4, <2>1
<1> QED BY <1>7, <1>8, <1>9, <1>10, <1>11, <1>12, <1>13, <1>14
        DEF Next, FaceThread, FileManager

(* The Java client implements the abstract transfer: the output is always  *)
(* a prefix of the file, and Main.cont falls with nothing given up only    *)
(* when the prefix is the whole file.                                      *)
THEOREM TransferIsImplemented == Spec => ImplementsTransfer
<1>1. Init => Transfer!Init
  BY InitImplements
<1>2. DownloadInv /\ DownloadInv' /\ [Next]_vars => [Transfer!Next]_(Transfer!vars)
  BY NextImplements
<1> QED BY <1>1, <1>2, DownloadInvariant, PTL DEF Spec, ImplementsTransfer, Transfer!Spec
===============================================================================
