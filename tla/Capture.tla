------------------------------- MODULE Capture -------------------------------
(***************************************************************************)
(* The capture of one worktree file by a snapshot, racing the programs     *)
(* that write the file: the stamp / read / re-stamp loop of                *)
(* chunk_file_stable in src/src/snapshot.rs, the metadata the manifest     *)
(* entry takes, and the (size, mtime) fast path of src/src/drift.rs that   *)
(* later trusts that metadata.                                             *)
(*                                                                         *)
(* A file is a sequence of blocks with a modification time.  The reader    *)
(* takes one block per step, so a writer can get between any two reads.    *)
(* The clock is abstract: every write gives the file a larger mtime, or,   *)
(* when SameTick holds, it may leave the mtime alone, as a file system     *)
(* does for two writes within one tick of its clock.                       *)
(***************************************************************************)
EXTENDS Integers, Sequences

CONSTANTS
    Blocks,     \* the values a block of the file can hold
    Retries,    \* QUIESCE_RETRIES: extra attempts after the first
    SameTick,   \* TRUE when two writes may fall into one clock tick
    MaxLen,     \* bound: longest file, in blocks
    MaxWrites   \* bound: writes by other programs

ASSUME RetriesAssumption   == Retries \in Nat
ASSUME SameTickAssumption  == SameTick \in BOOLEAN
ASSUME MaxLenAssumption    == MaxLen \in Nat \ {0}
ASSUME MaxWritesAssumption == MaxWrites \in Nat

VARIABLES
    data,       \* content at the path
    mtime,      \* modification time at the path
    exists,     \* whether the path still names a regular file
    writes,     \* writes so far (bounds the run)
    seen,       \* history: every content the file has had
    pc,         \* where the snapshot is with this file
    entry,      \* mtime the manifest entry will carry
    before,     \* stamp taken before the current read
    detached,   \* the open descriptor no longer is the file at the path
    old,        \* content of the descriptor when detached
    buf,        \* blocks read in the current attempt
    attempt,    \* current attempt
    unstable    \* the file is on the manifest's unstable list

fileVars   == <<data, mtime, exists, writes, seen>>
readerVars == <<pc, entry, before, detached, old, buf, attempt, unstable>>
vars       == <<fileVars, readerVars>>

PCs == {"walk", "stamp", "open", "read", "restamp", "done", "aborted"}

(***************************************************************************)
(* (len, mtime) of the file at the path: what two stamps are compared by.  *)
(***************************************************************************)
SizeOnly  == <<Len(data), 0>>
FileStamp == <<Len(data), mtime>>

(***************************************************************************)
(* What the open descriptor reads: the file, unless another file was       *)
(* renamed over it or it was unlinked after the open.                      *)
(***************************************************************************)
Source == IF detached THEN old ELSE data

Init ==
    /\ data \in UNION {[1..n -> Blocks] : n \in 0..MaxLen}
    /\ mtime = 0
    /\ exists = TRUE
    /\ writes = 0
    /\ seen = {data}
    /\ pc = "walk"
    /\ entry = 0
    /\ before = <<0, 0>>
    /\ detached = FALSE
    /\ old = <<>>
    /\ buf = <<>>
    /\ attempt = 0
    /\ unstable = FALSE

-----------------------------------------------------------------------------
(* The snapshot.                                                           *)

(***************************************************************************)
(* The walk has listed the file; entry.metadata() is read once, before     *)
(* the first stamp, and its mtime is the one the manifest entry gets.  A   *)
(* path that is gone by now fails the metadata call, and `?` aborts the    *)
(* whole snapshot.                                                         *)
(***************************************************************************)
Walk ==
    /\ pc = "walk"
    /\ pc' = IF exists THEN "stamp" ELSE "aborted"
    /\ entry' = IF exists THEN mtime ELSE entry
    /\ UNCHANGED <<fileVars, before, detached, old, buf, attempt, unstable>>

Stamp ==
    /\ pc = "stamp"
    /\ pc' = IF exists THEN "open" ELSE "aborted"
    /\ before' = IF exists THEN FileStamp ELSE before
    /\ UNCHANGED <<fileVars, entry, detached, old, buf, attempt, unstable>>

Open ==
    /\ pc = "open"
    /\ pc' = IF exists THEN "read" ELSE "aborted"
    /\ buf' = <<>>
    /\ detached' = FALSE
    /\ old' = <<>>
    /\ UNCHANGED <<fileVars, entry, before, attempt, unstable>>

ReadBlock ==
    /\ pc = "read"
    /\ Len(buf) < Len(Source)
    /\ buf' = Append(buf, Source[Len(buf) + 1])
    /\ UNCHANGED <<fileVars, pc, entry, before, detached, old, attempt, unstable>>

EndOfFile ==
    /\ pc = "read"
    /\ Len(buf) >= Len(Source)
    /\ pc' = "restamp"
    /\ UNCHANGED <<fileVars, entry, before, detached, old, buf, attempt, unstable>>

(***************************************************************************)
(* The verdict on an attempt whose stamps are b and a.                     *)
(***************************************************************************)
GiveUpEarly(b, a, n)  == b = a \/ n + 1 >= Retries
Accepted(b, a, n)     == b = a \/ n = Retries

Flagged(b, a)         == b # a

(***************************************************************************)
(* The mtime of the manifest entry is the one entry.metadata() returned    *)
(* before the first attempt, whatever the later stamps say.                *)
(***************************************************************************)
LateMtime(m)          == mtime
EntryMtime(m)         == m

Restamp ==
    /\ pc = "restamp"
    /\ exists
    /\ pc' = IF Accepted(before, FileStamp, attempt) THEN "done" ELSE "stamp"
    /\ attempt' = IF Accepted(before, FileStamp, attempt) THEN attempt ELSE attempt + 1
    /\ unstable' = (Accepted(before, FileStamp, attempt) /\ Flagged(before, FileStamp))
    /\ entry' = EntryMtime(entry)
    /\ UNCHANGED <<fileVars, before, detached, old, buf>>

RestampGone ==
    /\ pc = "restamp"
    /\ ~exists
    /\ pc' = "aborted"
    /\ UNCHANGED <<fileVars, entry, before, detached, old, buf, attempt, unstable>>

Reader == Walk \/ Stamp \/ Open \/ ReadBlock \/ EndOfFile \/ Restamp \/ RestampGone

-----------------------------------------------------------------------------
(* Other programs.                                                         *)

Tick == IF SameTick THEN {mtime, mtime + 1} ELSE {mtime + 1}

(***************************************************************************)
(* A write through the path leaves the file `new`.                         *)
(***************************************************************************)
Wrote(new) ==
    /\ exists
    /\ writes < MaxWrites
    /\ data' = new
    /\ mtime' \in Tick
    /\ writes' = writes + 1
    /\ seen' = seen \cup {new}
    /\ UNCHANGED exists

Overwrite ==
    /\ \E i \in 1..Len(data), b \in Blocks : Wrote([data EXCEPT ![i] = b])
    /\ UNCHANGED readerVars

Extend ==
    /\ Len(data) < MaxLen
    /\ \E b \in Blocks : Wrote(Append(data, b))
    /\ UNCHANGED readerVars

Truncate ==
    /\ data # <<>>
    /\ Wrote(SubSeq(data, 1, Len(data) - 1))
    /\ UNCHANGED readerVars

(***************************************************************************)
(* A new file is renamed over the path, the way editors save: a reader     *)
(* that has the old one open keeps reading the old one.                    *)
(***************************************************************************)
Detach ==
    /\ detached' = (detached \/ pc \in {"read", "restamp"})
    /\ old' = IF ~detached /\ pc \in {"read", "restamp"} THEN data ELSE old
    /\ UNCHANGED <<pc, entry, before, buf, attempt, unstable>>

Replace ==
    /\ \E n \in 0..MaxLen : \E new \in [1..n -> Blocks] : Wrote(new)
    /\ Detach

Unlink ==
    /\ exists
    /\ exists' = FALSE
    /\ Detach
    /\ UNCHANGED <<data, mtime, writes, seen>>

Writer == Overwrite \/ Extend \/ Truncate \/ Replace \/ Unlink

Next == Reader \/ Writer

Spec == Init /\ [][Next]_vars

-----------------------------------------------------------------------------
(* Properties.                                                             *)

(***************************************************************************)
(* Types.  The bound on attempt is the code's: the loop of                 *)
(* chunk_file_stable runs at most QUIESCE_RETRIES + 1 times, so a file     *)
(* under permanent write cannot hold a snapshot up.                        *)
(***************************************************************************)
TypeOK ==
    /\ data \in Seq(Blocks)
    /\ mtime \in Nat
    /\ exists \in BOOLEAN
    /\ writes \in Nat
    /\ pc \in PCs
    /\ entry \in Nat
    /\ before \in Nat \X Nat
    /\ detached \in BOOLEAN
    /\ old \in Seq(Blocks)
    /\ buf \in Seq(Blocks)
    /\ attempt \in 0..Retries
    /\ unstable \in BOOLEAN

(***************************************************************************)
(* A capture that is not on the unstable list is exact: the blocks stored  *)
(* for the file are a content the file had at one instant, never a mix of  *)
(* two versions, however writes, truncations and renames fell between the  *)
(* reads (chunk_file_stable).                                              *)
(***************************************************************************)
StableIsExact == pc = "done" /\ ~unstable => buf \in seen

(***************************************************************************)
(* The drift fast path is sound for every entry a snapshot can record,     *)
(* unstable ones included: when the size and mtime of the live file equal  *)
(* the recorded ones, its content equals the recorded content.             *)
(***************************************************************************)
FastPathSound ==
    pc = "done" /\ exists /\ Len(data) = Len(buf) /\ mtime = entry => data = buf

(***************************************************************************)
(* No false alarm: a file lands on the unstable list only if other         *)
(* programs wrote to it in every one of the QUIESCE_RETRIES + 1 attempts.  *)
(***************************************************************************)
FlaggedWasBusy == unstable => writes > Retries

(***************************************************************************)
(* A listed file that cannot be read any more is skipped "rather than      *)
(* aborting the whole snapshot" (comment at snapshot.rs 302-303).          *)
(***************************************************************************)
NeverAborts == pc # "aborted"
=============================================================================
