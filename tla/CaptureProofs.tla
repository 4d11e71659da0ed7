---------------------------- MODULE CaptureProofs ----------------------------
(***************************************************************************)
(* Proofs about Capture, for every set of block values, every number of    *)
(* retries and files and runs of every length, under the assumption that   *)
(* each write moves the mtime (~SameTick).                                 *)
(***************************************************************************)
EXTENDS Capture, TLAPS

(***************************************************************************)
(* The reader holds a stamp taken in the current attempt.                  *)
(***************************************************************************)
Stamped == pc \in {"open", "read", "restamp"}

(***************************************************************************)
(* Stamps and the recorded mtime lie in the past, and an mtime that has    *)
(* not moved since the stamp means that the size has not either.           *)
(***************************************************************************)
StampsInPast ==
    /\ mtime = writes
    /\ entry <= mtime
    /\ Stamped => /\ before[2] <= mtime
                  /\ entry <= before[2]
                  /\ before[2] = mtime => before[1] = Len(data)

(***************************************************************************)
(* While the path still carries the stamp of this attempt, the descriptor  *)
(* is the file at the path and what was read so far is its beginning; at   *)
(* the second stamp it is all of it.                                       *)
(***************************************************************************)
ReadMatches ==
    pc \in {"read", "restamp"} /\ exists /\ before[2] = mtime =>
        /\ ~detached
        /\ Len(buf) <= Len(data)
        /\ \A i \in 1..Len(buf) : buf[i] = data[i]
        /\ pc = "restamp" => Len(buf) = Len(data)

(***************************************************************************)
(* Every attempt after the first was caused by a write of its own.         *)
(***************************************************************************)
AttemptsPaid ==
    /\ pc = "stamp" => attempt <= mtime
    /\ Stamped => attempt <= before[2]
    /\ pc = "walk" => attempt = 0

CInv ==
    /\ TypeOK
    /\ data \in seen
    /\ StampsInPast
    /\ ReadMatches
    /\ AttemptsPaid
    /\ unstable => pc = "done"
    /\ StableIsExact
    /\ FastPathSound
    /\ FlaggedWasBusy

(***************************************************************************)
(* Two block sequences that agree on length and elements are equal: used   *)
(* when the second stamp matches.                                          *)
(***************************************************************************)
LEMMA SameBlocks ==
    ASSUME NEW s \in Seq(Blocks), NEW t \in Seq(Blocks),
           Len(s) = Len(t), \A i \in 1..Len(s) : s[i] = t[i]
    PROVE  s = t
  OBVIOUS

(***************************************************************************)
(* What a write through the path does to the file, when it moves the clock *)
(* (Wrote).                                                                *)
(***************************************************************************)
LEMMA WriteKeeps ==
    ASSUME CInv, ~SameTick, NEW new \in Seq(Blocks), Wrote(new),
           UNCHANGED <<pc, entry, before, buf, attempt, unstable>>,
           detached' \in BOOLEAN, old' \in Seq(Blocks)
    PROVE  CInv'
  <1>1. mtime' = mtime + 1 /\ writes' = writes + 1 /\ data' = new /\ exists' = exists
    BY DEF Wrote, Tick
  <1>2. TypeOK'
    BY <1>1 DEF CInv, TypeOK
  <1>3. data' \in seen' /\ seen \subseteq seen'
    BY DEF Wrote
  <1>4. StampsInPast'
    BY <1>1 DEF CInv, TypeOK, StampsInPast, Stamped
  <1>5. ReadMatches'
    BY <1>1 DEF CInv, TypeOK, StampsInPast, Stamped, ReadMatches
  <1>6. AttemptsPaid'
    BY <1>1 DEF CInv, TypeOK, AttemptsPaid, Stamped
  <1>7. StableIsExact'
    BY <1>3 DEF CInv, StableIsExact
  <1>8. FastPathSound'
    BY <1>1 DEF CInv, TypeOK, FastPathSound, StampsInPast
  <1>9. FlaggedWasBusy'
    BY <1>1, RetriesAssumption DEF CInv, TypeOK, FlaggedWasBusy
  <1> QED
    BY <1>2, <1>3, <1>4, <1>5, <1>6, <1>7, <1>8, <1>9 DEF CInv

LEMMA CInit == Init => CInv
  <1> SUFFICES ASSUME Init PROVE CInv
    OBVIOUS
  <1>1. data \in Seq(Blocks)
    BY MaxLenAssumption DEF Init
  <1>a. <<>> \in Seq(Blocks) /\ <<0, 0>> \in Nat \X Nat
    OBVIOUS
  <1>b. /\ mtime \in Nat /\ writes \in Nat /\ entry \in Nat
        /\ attempt \in 0..Retries
    BY RetriesAssumption DEF Init
  <1>c. /\ before \in Nat \X Nat /\ old \in Seq(Blocks) /\ buf \in Seq(Blocks)
    BY <1>a, Zenon DEF Init
  <1>d. exists \in BOOLEAN /\ detached \in BOOLEAN /\ unstable \in BOOLEAN /\ pc \in PCs
    BY DEF Init, PCs
  <1>2. TypeOK
    BY <1>1, <1>b, <1>c, <1>d DEF TypeOK
  <1> QED
    BY <1>1, <1>2, RetriesAssumption
    DEF Init, CInv, StampsInPast, Stamped, ReadMatches, AttemptsPaid,
        StableIsExact, FastPathSound, FlaggedWasBusy

(***************************************************************************)
(* Every step of the snapshot and of the other programs preserves CInv.    *)
(***************************************************************************)
LEMMA CStep == ~SameTick /\ CInv /\ [Next]_vars => CInv'
  <1> SUFFICES ASSUME ~SameTick, CInv, [Next]_vars PROVE CInv'
    OBVIOUS
  <1> USE RetriesAssumption
  <1>a. TypeOK /\ StampsInPast /\ ReadMatches /\ AttemptsPaid
    BY DEF CInv
  <1>1. CASE Walk
    BY <1>1, <1>a DEF CInv, Walk, fileVars, TypeOK, PCs, StampsInPast, Stamped, ReadMatches,
       AttemptsPaid, StableIsExact, FastPathSound, FlaggedWasBusy
  <1>2. CASE Stamp
    <2>1. FileStamp \in Nat \X Nat /\ FileStamp[1] = Len(data) /\ FileStamp[2] = mtime
      BY <1>a DEF FileStamp, TypeOK
    <2>2. before' \in Nat \X Nat /\ pc' \in {"open", "aborted"}
          /\ (pc' = "open" => before'[1] = Len(data) /\ before'[2] = mtime)
      BY <1>2, <1>a, <2>1 DEF Stamp, TypeOK
    <2>3. TypeOK'
      BY <1>2, <1>a, <2>2 DEF Stamp, fileVars, TypeOK, PCs
    <2>4. StampsInPast' /\ ReadMatches' /\ AttemptsPaid'
      BY <1>2, <1>a, <2>2 DEF Stamp, fileVars, TypeOK, StampsInPast, Stamped, ReadMatches,
         AttemptsPaid
    <2> QED
      BY <1>2, <2>2, <2>3, <2>4 DEF CInv, Stamp, fileVars, StableIsExact, FastPathSound,
         FlaggedWasBusy
  <1>3. CASE Open
    <2>1. buf' \in Seq(Blocks) /\ old' \in Seq(Blocks) /\ Len(buf') = 0
      BY <1>3 DEF Open
    <2>2. TypeOK'
      BY <1>3, <1>a, <2>1 DEF Open, fileVars, TypeOK, PCs
    <2>3. StampsInPast' /\ AttemptsPaid'
      BY <1>3, <1>a DEF Open, fileVars, StampsInPast, Stamped, AttemptsPaid
    <2>4. ReadMatches'
      BY <1>3, <1>a, <2>1 DEF Open, fileVars, TypeOK, ReadMatches
    <2> QED
      BY <1>3, <2>2, <2>3, <2>4 DEF CInv, Open, fileVars, StableIsExact, FastPathSound,
         FlaggedWasBusy
  <1>4. CASE ReadBlock
    <2>1. Source \in Seq(Blocks) /\ Len(buf) + 1 \in 1..Len(Source)
      BY <1>4, <1>a DEF ReadBlock, Source, TypeOK
    <2>2. buf' \in Seq(Blocks) /\ Len(buf') = Len(buf) + 1
          /\ \A i \in 1..Len(buf) : buf'[i] = buf[i]
          /\ buf'[Len(buf) + 1] = Source[Len(buf) + 1]
      BY <1>4, <1>a, <2>1 DEF ReadBlock, TypeOK
    <2>3. TypeOK'
      BY <1>4, <1>a, <2>2 DEF ReadBlock, fileVars, TypeOK
    <2>4. ReadMatches'
      BY <1>4, <1>a, <2>1, <2>2 DEF ReadBlock, fileVars, Source, TypeOK, ReadMatches
    <2> QED
      BY <1>4, <1>a, <2>3, <2>4 DEF CInv, ReadBlock, fileVars, StampsInPast, Stamped,
         AttemptsPaid, StableIsExact, FastPathSound, FlaggedWasBusy
  <1>5. CASE EndOfFile
    BY <1>5, <1>a DEF CInv, EndOfFile, Source, fileVars, TypeOK, PCs, StampsInPast, Stamped,
       ReadMatches, AttemptsPaid, StableIsExact, FastPathSound, FlaggedWasBusy
  <1>6. CASE Restamp
    <2> DEFINE ok == Accepted(before, FileStamp, attempt)
    <2>1. before = FileStamp <=> before[2] = mtime
      BY <1>6, <1>a DEF Restamp, FileStamp, TypeOK, StampsInPast, Stamped
    <2>2. before[2] = mtime => buf = data
      BY <1>6, <1>a, SameBlocks DEF Restamp, TypeOK, ReadMatches
    <2>3. before[2] # mtime => attempt + 1 <= mtime
      BY <1>6, <1>a DEF Restamp, TypeOK, StampsInPast, AttemptsPaid, Stamped
    <2>4. CASE ok
      <3>1. TypeOK' /\ StampsInPast' /\ ReadMatches' /\ AttemptsPaid'
        BY <1>6, <1>a, <2>4 DEF Restamp, EntryMtime, fileVars, TypeOK, PCs, StampsInPast,
           Stamped, ReadMatches, AttemptsPaid, Flagged
      <3>2. StableIsExact'
        BY <1>6, <2>1, <2>2, <2>4 DEF CInv, Restamp, fileVars, Flagged, StableIsExact
      <3>3. FastPathSound'
        BY <1>6, <1>a, <2>2, <2>4 DEF Restamp, EntryMtime, fileVars, TypeOK, FastPathSound,
           StampsInPast, Stamped
      <3>4. FlaggedWasBusy'
        <4>1. unstable' => before # FileStamp
          BY <1>6 DEF Restamp, Flagged
        <4>2. before # FileStamp => attempt = Retries
          BY <2>4 DEF Accepted
        <4>3. before # FileStamp => writes > Retries
          BY <1>a, <2>1, <2>3, <4>2 DEF TypeOK, StampsInPast
        <4> QED
          BY <1>6, <4>1, <4>3 DEF Restamp, fileVars, FlaggedWasBusy
      <3> QED
        BY <1>6, <2>4, <3>1, <3>2, <3>3, <3>4 DEF CInv, Restamp, fileVars
    <2>5. CASE ~ok
      <3>1. before[2] # mtime /\ attempt < Retries
        BY <1>a, <2>1, <2>5 DEF Accepted, TypeOK
      <3> QED
        BY <1>6, <1>a, <2>3, <2>5, <3>1 DEF CInv, Restamp, EntryMtime, fileVars, TypeOK, PCs,
           StampsInPast, Stamped, ReadMatches, AttemptsPaid, Flagged, StableIsExact,
           FastPathSound, FlaggedWasBusy
    <2> QED
      BY <2>4, <2>5
  <1>7. CASE RestampGone
    BY <1>7, <1>a DEF CInv, RestampGone, fileVars, TypeOK, PCs, StampsInPast, Stamped,
       ReadMatches, AttemptsPaid, StableIsExact, FastPathSound, FlaggedWasBusy
  <1>8. CASE Overwrite
    <2>1. PICK i \in 1..Len(data), b \in Blocks : Wrote([data EXCEPT ![i] = b])
      BY <1>8 DEF Overwrite
    <2>2. [data EXCEPT ![i] = b] \in Seq(Blocks)
      BY <1>a DEF TypeOK
    <2> QED
      BY <1>8, <1>a, <2>1, <2>2, WriteKeeps DEF Overwrite, readerVars, TypeOK
  <1>9. CASE Extend
    <2>1. PICK b \in Blocks : Wrote(Append(data, b))
      BY <1>9 DEF Extend
    <2>2. Append(data, b) \in Seq(Blocks)
      BY <1>a DEF TypeOK
    <2> QED
      BY <1>9, <1>a, <2>1, <2>2, WriteKeeps DEF Extend, readerVars, TypeOK
  <1>10. CASE Truncate
    <2>1. SubSeq(data, 1, Len(data) - 1) \in Seq(Blocks)
      BY <1>10, <1>a DEF Truncate, TypeOK
    <2> QED
      BY <1>10, <1>a, <2>1, WriteKeeps DEF Truncate, readerVars, TypeOK
  <1>11. CASE Replace
    <2>1. PICK n \in 0..MaxLen : \E new \in [1..n -> Blocks] : Wrote(new)
      BY <1>11 DEF Replace
    <2>2. PICK new \in [1..n -> Blocks] : Wrote(new)
      BY <2>1
    <2>3. new \in Seq(Blocks)
      BY <2>2, MaxLenAssumption
    <2> QED
      BY <1>11, <1>a, <2>2, <2>3, WriteKeeps DEF Replace, Detach, TypeOK
  <1>12. CASE Unlink
    BY <1>12, <1>a DEF CInv, Unlink, Detach, TypeOK, PCs, StampsInPast, Stamped, ReadMatches,
       AttemptsPaid, StableIsExact, FastPathSound, FlaggedWasBusy
  <1>13. CASE UNCHANGED vars
    BY <1>13 DEF CInv, vars, fileVars, readerVars, TypeOK, StampsInPast, Stamped, ReadMatches,
       AttemptsPaid, StableIsExact, FastPathSound, FlaggedWasBusy
  <1> QED
    BY <1>1, <1>2, <1>3, <1>4, <1>5, <1>6, <1>7, <1>8, <1>9, <1>10, <1>11, <1>12, <1>13
    DEF Next, Reader, Writer

LEMMA CInvariant == ASSUME ~SameTick PROVE Spec => []CInv
  BY CInit, CStep, PTL DEF Spec

(***************************************************************************)
(* With a clock that moves at every write, whatever chunk_file_stable      *)
(* captures without flagging it is a content the file really had, for any  *)
(* number of retries and any interleaving with writers.                    *)
(***************************************************************************)
THEOREM StableCaptureIsExact == ASSUME ~SameTick PROVE Spec => []StableIsExact
  <1>1. CInv => StableIsExact
    BY DEF CInv
  <1> QED
    BY <1>1, CInvariant, PTL

(***************************************************************************)
(* Under the same clock the (size, mtime) fast path of drift::detect never *)
(* takes a changed file for an untouched one, even for entries on the      *)
(* unstable list.                                                          *)
(***************************************************************************)
THEOREM FastPathIsSound == ASSUME ~SameTick PROVE Spec => []FastPathSound
  <1>1. CInv => FastPathSound
    BY DEF CInv
  <1> QED
    BY <1>1, CInvariant, PTL

(***************************************************************************)
(* The loop is bounded by QUIESCE_RETRIES and flags only files that were   *)
(* written to in every attempt.                                            *)
(***************************************************************************)
THEOREM RetriesAreBounded == ASSUME ~SameTick PROVE Spec => [](TypeOK /\ FlaggedWasBusy)
  <1>1. CInv => TypeOK /\ FlaggedWasBusy
    BY DEF CInv
  <1> QED
    BY <1>1, CInvariant, PTL
=============================================================================
