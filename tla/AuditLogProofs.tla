--------------------------- MODULE AuditLogProofs ----------------------------
(***************************************************************************)
(* Proofs about AuditLog, for any number of processes, entries, anchors,   *)
(* `init` runs and crashes.                                                *)
(***************************************************************************)
EXTENDS AuditLog, FiniteSetTheorems, WellFoundedInduction, TLAPS

(***************************************************************************)
(* The lock invariant: without `init`, only the holder is in a command.    *)
(***************************************************************************)
OnlyHolder ==
    inits = 0 => /\ ~overlapped
                 /\ \A p \in Procs : pc[p] # "idle" => lock = p

(***************************************************************************)
(* What `overlapped` records: while it is false, at most one process is    *)
(* between reading the file and ending its line.                           *)
(***************************************************************************)
OneRecorder ==
    ~overlapped => \A p, q \in Procs : Recording(p) /\ Recording(q) => p = q

(***************************************************************************)
(* (seq, prev) that continues a log that verifies.                         *)
(***************************************************************************)
LastHash(l) == IF Len(l) = 0 THEN Empty ELSE l[Len(l)].hash

(***************************************************************************)
(* The strengthening of LogIntact and AnchorsHold: an unfinished line      *)
(* belongs to a process about to end it, the (seq, prev) a process holds   *)
(* still continues the log, and the checkpoint it is about to sign still   *)
(* is one.                                                                 *)
(***************************************************************************)
Healthy ==
    /\ VerifyOk(log)
    /\ open => \E p \in Procs : pc[p] = "feed"
    /\ \A p \in Procs : pc[p] = "text" =>
          tail[p].seq = Len(log) /\ tail[p].prev = LastHash(log)
    /\ \A p \in Procs : pc[p] = "mint" => TipIsPrefix(log, point[p].len, point[p].tip)
    /\ \A i \in 1..Len(anchors) : TipIsPrefix(log, anchors[i].len, anchors[i].tip)

AInv ==
    /\ TypeOK
    /\ OnlyHolder
    /\ OneRecorder
    /\ ~overlapped /\ ~torn => Healthy

-----------------------------------------------------------------------------
(* The readers of the log.                                                 *)

(***************************************************************************)
(* Text that is no entry never parses, whether it is UTF-8 or not.         *)
(***************************************************************************)
LEMMA GarbageNeverParses == ~Garbage.ok /\ ~Cut.ok
  BY Zenon DEF Garbage, Cut

LEMMA JoinedIsGarbage == \A a, b : Joined(a, b) \in {Garbage, Cut}
  BY DEF Joined

LEMMA EntryParses ==
    ASSUME NEW seq, NEW b, NEW prev
    PROVE  Entry(seq, b, prev) # Cut
  <1>1. Entry(seq, b, prev).ok
    BY DEF Entry
  <1> QED
    BY <1>1, GarbageNeverParses

(***************************************************************************)
(* On a log that verifies, the last entry record() reads is the last line, *)
(* and it continues from it.                                               *)
(***************************************************************************)
LEMMA TailOfVerified ==
    ASSUME NEW l \in Seq(LineType), VerifyOk(l)
    PROVE  TailOf(l).seq = Len(l) /\ TailOf(l).prev = LastHash(l)
  <1>1. \A i \in 1..Len(l) : l[i].ok /\ l[i].seq = i - 1
    BY DEF VerifyOk, ChainedAt
  <1>a. Len(l) \in Nat
    OBVIOUS
  <1>b. \A i \in 1..Len(l) : Reached(l, i)
    BY <1>1, <1>a, GarbageNeverParses DEF Reached
  <1>c. EntriesRead(l, Len(l)) = 1..Len(l)
    BY <1>1, <1>b DEF EntriesRead
  <1>2. \A i \in 1..Len(l) : IsLastRead(l, i) => i = Len(l)
    BY <1>a, <1>c DEF IsLastRead
  <1>3. CASE Len(l) = 0
    BY <1>3 DEF TailOf, LastHash, Genesis
  <1>4. CASE Len(l) # 0
    <2>1. Len(l) \in 1..Len(l)
      BY <1>4
    <2>2. IsLastRead(l, Len(l))
      BY <1>a, <1>c, <2>1 DEF IsLastRead
    <2>3. (CHOOSE i \in 1..Len(l) : IsLastRead(l, i)) = Len(l)
      BY <1>2, <2>1, <2>2
    <2>4. TailOf(l) = After(l[Len(l)])
      BY <2>1, <2>2, <2>3 DEF TailOf
    <2>5. l[Len(l)].seq = Len(l) - 1
      BY <1>1, <2>1
    <2> QED
      BY <1>4, <2>4, <2>5 DEF LastHash, After
  <1> QED
    BY <1>3, <1>4

(***************************************************************************)
(* tip() of a log that verifies is a checkpoint that log satisfies.        *)
(***************************************************************************)
LEMMA TipOfVerified ==
    ASSUME NEW l \in Seq(LineType), VerifyOk(l)
    PROVE  TipIsPrefix(l, TipOf(l).len, TipOf(l).tip)
  <1>1. CASE l = <<>>
    BY <1>1 DEF TipOf, TipIsPrefix
  <1>2. CASE l # <<>>
    <2>1. Len(l) \in Nat /\ Len(l) \in 1..Len(l)
      BY <1>2
    <2>2. TipOf(l).len = Len(l) /\ TipOf(l).tip = l[Len(l)].hash
      BY <1>2, <2>1 DEF TipOf, VerifyOk, ChainedAt
    <2> QED
      BY <2>1, <2>2 DEF TipIsPrefix, VerifyOk
  <1> QED
    BY <1>1, <1>2

(***************************************************************************)
(* A checkpoint survives an entry appended after it.                       *)
(***************************************************************************)
LEMMA PrefixGrows ==
    ASSUME NEW l \in Seq(LineType), NEW line \in LineType, line # Cut, NEW n \in Nat, NEW t,
           TipIsPrefix(l, n, t)
    PROVE  TipIsPrefix(Append(l, line), n, t)
  <1> DEFINE m == Append(l, line)
  <1>1. Len(m) = Len(l) + 1 /\ m[Len(l) + 1] = line /\ \A i \in 1..Len(l) : m[i] = l[i]
    OBVIOUS
  <1> HIDE DEF m
  <1>2. ASSUME n > 0
        PROVE  /\ n <= Len(m) /\ (\A i \in 1..n : ChainedAt(m, i)) /\ m[n].hash = t
               /\ n < Len(m) => m[n + 1] # Cut
    <2>1. n \in Nat /\ n <= Len(l) /\ Len(l) \in Nat /\ \A i \in 1..n : ChainedAt(l, i)
      BY <1>2 DEF TipIsPrefix
    <2>2. \A i \in 1..n : m[i] = l[i] /\ (i # 1 => m[i - 1] = l[i - 1])
      BY <1>1, <2>1
    <2>3. \A i \in 1..n : ChainedAt(m, i)
      BY <2>1, <2>2 DEF ChainedAt
    <2>4. n \in 1..n
      BY <1>2
    <2>5. m[n + 1] # Cut
      <3>1. CASE n = Len(l)
        BY <1>1, <3>1
      <3>2. CASE n < Len(l)
        <4>1. n + 1 \in 1..Len(l) /\ l[n + 1] # Cut
          BY <1>2, <2>1, <3>2 DEF TipIsPrefix
        <4> QED
          BY <1>1, <4>1
      <3> QED
        BY <2>1, <3>1, <3>2
    <2> QED
      BY <1>1, <1>2, <2>1, <2>2, <2>3, <2>4, <2>5 DEF TipIsPrefix
  <1>3. TipIsPrefix(m, n, t)
    BY <1>2 DEF TipIsPrefix
  <1> QED
    BY <1>3 DEF m

(***************************************************************************)
(* The entry record() builds from the tail of a log that verifies keeps    *)
(* the log verifiable.                                                     *)
(***************************************************************************)
LEMMA EntryContinues ==
    ASSUME NEW l \in Seq(LineType), NEW b \in Bodies, VerifyOk(l),
           NEW prev, prev = LastHash(l),
           Entry(Len(l), b, prev) \in LineType
    PROVE  VerifyOk(Append(l, Entry(Len(l), b, prev)))
  <1> DEFINE e == Entry(Len(l), b, prev)
             m == Append(l, e)
  <1>1. Len(m) = Len(l) + 1 /\ m[Len(l) + 1] = e /\ \A i \in 1..Len(l) : m[i] = l[i]
    OBVIOUS
  <1>2. /\ e.ok /\ e.seq = Len(l) /\ e.prev = prev
        /\ e.hash = EntryHash(e.seq, e.body, e.prev)
    BY DEF Entry
  <1>a. Len(l) \in Nat
    OBVIOUS
  <1> HIDE DEF m, e
  <1>3. \A i \in 1..Len(l) : ChainedAt(m, i)
    <2> SUFFICES ASSUME NEW i \in 1..Len(l) PROVE ChainedAt(m, i)
      OBVIOUS
    <2>1. ChainedAt(l, i)
      BY DEF VerifyOk
    <2>2. m[i] = l[i] /\ (i # 1 => m[i - 1] = l[i - 1])
      BY <1>1, <1>a
    <2> QED
      BY <2>1, <2>2 DEF ChainedAt
  <1>4. ChainedAt(m, Len(l) + 1)
    <2>1. CASE Len(l) = 0
      BY <1>1, <1>2, <2>1 DEF ChainedAt, LastHash
    <2>2. CASE Len(l) # 0
      <3>1. m[Len(l)] = l[Len(l)]
        BY <1>1, <1>a, <2>2
      <3> QED
        BY <1>1, <1>2, <1>a, <2>2, <3>1 DEF ChainedAt, LastHash
    <2> QED
      BY <2>1, <2>2
  <1>5. VerifyOk(m)
    BY <1>1, <1>3, <1>4, <1>a DEF VerifyOk
  <1> QED
    BY <1>5 DEF m, e

-----------------------------------------------------------------------------
(* Types.                                                                  *)

LEMMA ElementOfSeq ==
    ASSUME NEW S, NEW f \in Seq(S), NEW i \in 1..Len(f)
    PROVE  f[i] \in S
  OBVIOUS

LEMMA ExceptInSeq ==
    ASSUME NEW S, NEW f \in Seq(S), NEW i, NEW x \in S
    PROVE  [f EXCEPT ![i] = x] \in Seq(S)
  <1>1. f \in [1..Len(f) -> S] /\ Len(f) \in Nat
    OBVIOUS
  <1>2. [f EXCEPT ![i] = x] \in [1..Len(f) -> S]
    BY <1>1, Zenon
  <1> QED
    BY <1>1, <1>2

LEMMA EntryType ==
    ASSUME NEW seq \in Nat, NEW b \in Bodies, NEW prev \in Chain
    PROVE  Entry(seq, b, prev) \in LineType
  <1>1. EntryHash(seq, b, prev) \in Chain
    BY DEF EntryHash, Chain
  <1> QED
    BY <1>1 DEF Entry, LineType

(***************************************************************************)
(* (seq, prev) and (len, tip) read from a well-typed log are well typed.   *)
(***************************************************************************)
LEMMA ReadersTyped ==
    ASSUME NEW l \in Seq(LineType)
    PROVE  /\ TailOf(l) \in [seq : Nat, prev : Chain]
           /\ TipDefined(l) => TipOf(l) \in [len : Nat, tip : Chain]
  <1>1. Empty \in Chain
    BY DEF Empty, Chain
  <1>2. \A x \in LineType : x.ok => x.seq \in Nat /\ x.hash \in Chain
    <2>1. \A x \in LineType : x \in {Garbage, Cut} \/ (x.seq \in Nat /\ x.hash \in Chain)
      BY DEF LineType
    <2> QED
      BY <2>1, GarbageNeverParses
  <1>3. TailOf(l) \in [seq : Nat, prev : Chain]
    <2>1. CASE \E i \in 1..Len(l) : IsLastRead(l, i)
      <3>1. PICK i \in 1..Len(l) : IsLastRead(l, i) /\ TailOf(l) = After(l[i])
        BY <2>1 DEF TailOf
      <3>2. l[i] \in LineType /\ l[i].ok
        BY <3>1 DEF IsLastRead, EntriesRead
      <3> QED
        BY <1>2, <3>1, <3>2 DEF After
    <2>2. CASE ~\E i \in 1..Len(l) : IsLastRead(l, i)
      BY <1>1, <2>2 DEF TailOf, Genesis
    <2> QED
      BY <2>1, <2>2
  <1>4. ASSUME TipDefined(l) PROVE TipOf(l) \in [len : Nat, tip : Chain]
    <2>1. CASE l = <<>>
      BY <1>1, <2>1 DEF TipOf
    <2>2. CASE l # <<>>
      <3>1. Len(l) \in 1..Len(l)
        BY <2>2
      <3>2. l[Len(l)] \in LineType /\ l[Len(l)].ok
        BY <1>4, <3>1 DEF TipDefined, Parsable
      <3> QED
        BY <1>2, <2>2, <3>2 DEF TipOf
    <2> QED
      BY <2>1, <2>2
  <1> QED
    BY <1>3, <1>4

(***************************************************************************)
(* Every step keeps the types.                                             *)
(***************************************************************************)
LEMMA TypeStep == TypeOK /\ [Next]_vars => TypeOK'
  <1> SUFFICES ASSUME TypeOK, [Next]_vars PROVE TypeOK'
    OBVIOUS
  <1> USE NoProcAssumption DEF TypeOK
  <1>1. ASSUME NEW p \in Procs, NEW first \in {"read", "child", "tip", "keygen"}, Command(p, first)
        PROVE  TypeOK'
    BY <1>1 DEF Command, TakeLock, Goto, logVars, anchorVars, histVars, PCs
  <1>2. ASSUME NEW p \in Procs, InitAgain(p) PROVE TypeOK'
    BY <1>2 DEF InitAgain, Goto, logVars, anchorVars, PCs
  <1>3. ASSUME NEW p \in Procs, Keygen(p) PROVE TypeOK'
    BY <1>3 DEF Keygen, Leave, Unlock, Goto, logVars, histVars, PCs
  <1>4. ASSUME NEW p \in Procs, AnchorTip(p) PROVE TypeOK'
    <2>1. point' \in [Procs -> [len : Nat, tip : Chain]]
      BY <1>4, ReadersTyped DEF AnchorTip
    <2> QED
      BY <1>4, <2>1 DEF AnchorTip, Leave, Unlock, Goto, logVars, anchorVars, histVars, PCs
  <1>5. ASSUME NEW p \in Procs, AnchorMint(p) PROVE TypeOK'
    <2>1. [len |-> point[p].len, tip |-> point[p].tip, prev |-> lastAnchor]
            \in [len : Nat, tip : Chain, prev : Nat]
      OBVIOUS
    <2>2. anchors' \in Seq([len : Nat, tip : Chain, prev : Nat])
          /\ Len(anchors') = Len(anchors) + 1
      BY <1>5, <2>1 DEF AnchorMint
    <2>3. lastAnchor' \in 0..Len(anchors')
      BY <1>5, <2>2 DEF AnchorMint
    <2> QED
      BY <1>5, <2>2, <2>3 DEF AnchorMint, Goto, logVars, histVars, PCs
  <1>6. ASSUME NEW p \in Procs, AnchorLink(p) PROVE TypeOK'
    BY <1>6 DEF AnchorLink, NewLast, Goto, logVars, histVars, PCs
  <1>7. ASSUME NEW p \in Procs, ReadTail(p) PROVE TypeOK'
    <2>1. tail' \in [Procs -> [seq : Nat, prev : Chain]]
      BY <1>7, ReadersTyped DEF ReadTail
    <2> QED
      BY <1>7, <2>1 DEF ReadTail, Goto, logVars, anchorVars, PCs
  <1>8. ASSUME NEW line \in LineType PROVE Appended(log, line) \in Seq(LineType)
    <2>1. Joined(log[Len(log)], line) \in LineType
      BY JoinedIsGarbage DEF LineType
    <2>2. CASE open
      BY <2>1, <2>2, ExceptInSeq DEF Appended
    <2>3. CASE ~open
      BY <1>8, <2>3 DEF Appended
    <2> QED
      BY <2>2, <2>3
  <1>9. ASSUME NEW p \in Procs, WriteText(p) PROVE TypeOK'
    <2>1. PICK b \in Bodies : log' = Appended(log, Entry(tail[p].seq, b, tail[p].prev))
      BY <1>9 DEF WriteText
    <2>2. tail[p].seq \in Nat /\ tail[p].prev \in Chain
      OBVIOUS
    <2>3. log' \in Seq(LineType)
      BY <1>8, <2>1, <2>2, EntryType
    <2> QED
      BY <1>9, <2>3 DEF WriteText, Goto, anchorVars, histVars, PCs
  <1>10. ASSUME NEW p \in Procs, WritePart(p) PROVE TypeOK'
    <2>a. PICK part \in {Garbage, Cut} : log' = Appended(log, part)
      BY <1>10 DEF WritePart
    <2>1. log' \in Seq(LineType)
      BY <1>8, <2>a DEF LineType
    <2> QED
      BY <1>10, <2>1 DEF WritePart, Leave, Unlock, Goto, anchorVars, PCs
  <1>11. ASSUME NEW p \in Procs, WriteFeed(p) PROVE TypeOK'
    BY <1>11 DEF WriteFeed, Leave, Unlock, Goto, anchorVars, histVars, PCs
  <1>12. ASSUME NEW p \in Procs, Crash(p) PROVE TypeOK'
    BY <1>12 DEF Crash, DropLock, Unlock, Goto, logVars, anchorVars, PCs
  <1>13. ASSUME NEW p \in Procs, ChildEnds(p) PROVE TypeOK'
    BY <1>13 DEF ChildEnds, Leave, Unlock, Goto, logVars, anchorVars, histVars, PCs
  <1>14. CASE UNCHANGED vars
    BY <1>14 DEF vars, logVars, anchorVars, histVars
  <1> QED
    BY <1>1, <1>2, <1>3, <1>4, <1>5, <1>6, <1>7, <1>9, <1>10, <1>11, <1>12, <1>13, <1>14
    DEF Next, Step, Mutate, Guard, AnchorCreate, AnchorKeygen

LEMMA TypeInit == Init => TypeOK
  <1> SUFFICES ASSUME Init PROVE TypeOK
    OBVIOUS
  <1>1. Empty \in Chain /\ <<>> \in Seq(LineType)
        /\ <<>> \in Seq([len : Nat, tip : Chain, prev : Nat])
    BY DEF Empty, Chain
  <1>2. Genesis \in [seq : Nat, prev : Chain] /\ [len |-> 0, tip |-> Empty] \in [len : Nat, tip : Chain]
    BY <1>1 DEF Genesis
  <1>3. lastAnchor \in 0..Len(anchors)
    BY DEF Init
  <1> QED
    BY <1>1, <1>2, <1>3 DEF Init, TypeOK, PCs

-----------------------------------------------------------------------------
(* The lock.                                                               *)

(***************************************************************************)
(* A step lets at most one more process into record(), and marks it in     *)
(* `overlapped` when another one is there.                                 *)
(***************************************************************************)
LEMMA LockStep ==
    TypeOK /\ OnlyHolder /\ OneRecorder /\ [Next]_vars => OnlyHolder' /\ OneRecorder'
  <1> SUFFICES ASSUME TypeOK, OnlyHolder, OneRecorder, [Next]_vars
               PROVE  OnlyHolder' /\ OneRecorder'
    OBVIOUS
  <1> USE NoProcAssumption DEF OnlyHolder, OneRecorder, Recording
  <1>a. pc \in [Procs -> PCs] /\ inits \in Nat
    BY DEF TypeOK
  <1>1. ASSUME NEW p \in Procs, NEW first \in {"read", "child", "tip", "keygen"}, Command(p, first)
        PROVE  OnlyHolder' /\ OneRecorder'
    BY <1>a, <1>1 DEF Command, TakeLock, Goto, histVars
  <1>2. ASSUME NEW p \in Procs, InitAgain(p) PROVE OnlyHolder' /\ OneRecorder'
    BY <1>a, <1>2 DEF InitAgain, Goto
  <1>3. ASSUME NEW p \in Procs, Keygen(p) PROVE OnlyHolder' /\ OneRecorder'
    BY <1>a, <1>3 DEF Keygen, Leave, Unlock, Goto, histVars
  <1>4. ASSUME NEW p \in Procs, AnchorTip(p) PROVE OnlyHolder' /\ OneRecorder'
    BY <1>a, <1>4 DEF AnchorTip, Leave, Unlock, Goto, histVars
  <1>5. ASSUME NEW p \in Procs, AnchorMint(p) \/ AnchorLink(p) PROVE OnlyHolder' /\ OneRecorder'
    BY <1>a, <1>5 DEF AnchorMint, AnchorLink, Goto, histVars
  <1>6. ASSUME NEW p \in Procs, ReadTail(p) PROVE OnlyHolder' /\ OneRecorder'
    <2>1. ~overlapped' => ~overlapped /\ \A q \in Procs \ {p} : ~Recording(q)
      BY <1>6 DEF ReadTail
    <2>2. inits' = inits /\ lock' = lock /\ pc' = [pc EXCEPT ![p] = "text"]
      BY <1>6 DEF ReadTail, Goto
    <2>3. OneRecorder'
      BY <1>a, <2>1, <2>2
    <2>4. ASSUME inits = 0 PROVE ~overlapped'
      <3>1. \A q \in Procs : pc[q] # "idle" => lock = q
        BY <2>4
      <3>2. pc[p] = "read"
        BY <1>6 DEF ReadTail
      <3>3. \A q \in Procs \ {p} : ~Recording(q)
        BY <3>1, <3>2
      <3> QED
        BY <1>6, <2>4, <3>3 DEF ReadTail
    <2>5. OnlyHolder'
      BY <1>a, <1>6, <2>2, <2>4 DEF ReadTail
    <2> QED
      BY <2>3, <2>5
  <1>7. ASSUME NEW p \in Procs, WriteText(p) PROVE OnlyHolder' /\ OneRecorder'
    BY <1>a, <1>7 DEF WriteText, Goto, histVars
  <1>8. ASSUME NEW p \in Procs, WritePart(p) PROVE OnlyHolder' /\ OneRecorder'
    BY <1>a, <1>8 DEF WritePart, Leave, Unlock, Goto
  <1>9. ASSUME NEW p \in Procs, WriteFeed(p) PROVE OnlyHolder' /\ OneRecorder'
    BY <1>a, <1>9 DEF WriteFeed, Leave, Unlock, Goto, histVars
  <1>10. ASSUME NEW p \in Procs, Crash(p) PROVE OnlyHolder' /\ OneRecorder'
    BY <1>a, <1>10 DEF Crash, DropLock, Unlock, Goto
  <1>11. ASSUME NEW p \in Procs, ChildEnds(p) PROVE OnlyHolder' /\ OneRecorder'
    BY <1>a, <1>11 DEF ChildEnds, Leave, Unlock, Goto, histVars
  <1>12. CASE UNCHANGED vars
    BY <1>12 DEF vars, histVars
  <1> QED
    BY <1>1, <1>2, <1>3, <1>4, <1>5, <1>6, <1>7, <1>8, <1>9, <1>10, <1>11, <1>12
    DEF Next, Step, Mutate, Guard, AnchorCreate, AnchorKeygen

-----------------------------------------------------------------------------
(* The chain and the anchors.                                              *)

Sane == ~overlapped /\ ~torn

(***************************************************************************)
(* A step that leaves the file alone and moves one process, not into       *)
(* "text" or "mint", keeps the log healthy.                                *)
(***************************************************************************)
LEMMA QuietStep ==
    ASSUME TypeOK, Healthy, NEW p \in Procs, NEW where, where \notin {"text", "mint"},
           UNCHANGED <<log, open, tail, point, anchors>>,
           pc' = [pc EXCEPT ![p] = where], pc[p] # "feed"
    PROVE  Healthy'
  <1>1. \A q \in Procs : q # p => pc'[q] = pc[q]
    BY DEF TypeOK
  <1>2. pc'[p] = where
    BY DEF TypeOK
  <1> QED
    BY <1>1, <1>2 DEF Healthy

LEMMA HealthStep ==
    TypeOK /\ OneRecorder /\ (Sane => Healthy) /\ [Next]_vars => (Sane' => Healthy')
  <1> SUFFICES ASSUME TypeOK, OneRecorder, Sane => Healthy, [Next]_vars, Sane'
               PROVE  Healthy'
    OBVIOUS
  <1>a. pc \in [Procs -> PCs] /\ tail \in [Procs -> [seq : Nat, prev : Chain]]
        /\ point \in [Procs -> [len : Nat, tip : Chain]] /\ log \in Seq(LineType)
        /\ anchors \in Seq([len : Nat, tip : Chain, prev : Nat])
    BY DEF TypeOK
  <1>1. ASSUME NEW p \in Procs, NEW first \in {"read", "child", "tip", "keygen"}, Command(p, first)
        PROVE  Healthy'
    BY <1>1, QuietStep DEF Command, Goto, logVars, anchorVars, histVars, Sane
  <1>2. ASSUME NEW p \in Procs, InitAgain(p) PROVE Healthy'
    BY <1>2, QuietStep DEF InitAgain, Goto, logVars, anchorVars, Sane
  <1>3. ASSUME NEW p \in Procs, Keygen(p) PROVE Healthy'
    BY <1>3, QuietStep DEF Keygen, Leave, Goto, logVars, histVars, Sane
  <1>4. ASSUME NEW p \in Procs, AnchorTip(p) PROVE Healthy'
    <2>1. Healthy
      BY <1>4 DEF AnchorTip, histVars, Sane
    <2>2. CASE pc'[p] = "mint"
      <3>1. point' = [point EXCEPT ![p] = TipOf(log)] /\ pc' = [pc EXCEPT ![p] = "mint"]
            /\ UNCHANGED <<log, open, tail, anchors>>
        BY <1>a, <1>4, <2>2 DEF AnchorTip, Leave, Goto, logVars, anchorVars
      <3>2. TipIsPrefix(log, point'[p].len, point'[p].tip)
        BY <1>a, <2>1, <3>1, TipOfVerified DEF Healthy
      <3> QED
        BY <1>a, <1>4, <2>1, <3>1, <3>2 DEF Healthy, AnchorTip
    <2>3. CASE pc'[p] # "mint"
      BY <1>a, <1>4, <2>1, <2>3, QuietStep DEF AnchorTip, Leave, Goto, logVars, anchorVars
    <2> QED
      BY <2>2, <2>3
  <1>5. ASSUME NEW p \in Procs, AnchorMint(p) PROVE Healthy'
    <2> DEFINE a == [len |-> point[p].len, tip |-> point[p].tip, prev |-> lastAnchor]
    <2>1. Healthy
      BY <1>5 DEF AnchorMint, histVars, Sane
    <2>2. anchors' = Append(anchors, a) /\ a.len = point[p].len /\ a.tip = point[p].tip
          /\ UNCHANGED <<log, open, tail, point>> /\ pc' = [pc EXCEPT ![p] = "link"]
      BY <1>5 DEF AnchorMint, logVars, Goto
    <2>3. TipIsPrefix(log, a.len, a.tip)
      BY <1>5, <2>1, <2>2 DEF AnchorMint, Healthy
    <2> HIDE DEF a
    <2>4. Len(anchors') = Len(anchors) + 1 /\ anchors'[Len(anchors) + 1] = a
          /\ \A i \in 1..Len(anchors) : anchors'[i] = anchors[i]
      BY <1>a, <2>2
    <2>5. \A i \in 1..Len(anchors') : TipIsPrefix(log, anchors'[i].len, anchors'[i].tip)
      <3> SUFFICES ASSUME NEW i \in 1..Len(anchors')
                   PROVE  TipIsPrefix(log, anchors'[i].len, anchors'[i].tip)
        OBVIOUS
      <3>1. CASE i = Len(anchors) + 1
        BY <2>3, <2>4, <3>1
      <3>2. CASE i \in 1..Len(anchors)
        BY <2>1, <2>4, <3>2 DEF Healthy
      <3> QED
        BY <1>a, <2>4, <3>1, <3>2
    <2> QED
      BY <1>a, <1>5, <2>1, <2>2, <2>5 DEF Healthy, AnchorMint
  <1>6. ASSUME NEW p \in Procs, AnchorLink(p) PROVE Healthy'
    BY <1>6, QuietStep DEF AnchorLink, Goto, logVars, histVars, Sane
  <1>7. ASSUME NEW p \in Procs, ReadTail(p) PROVE Healthy'
    <2>1. Healthy
      BY <1>7 DEF ReadTail, Sane
    <2>2. UNCHANGED <<log, open, point, anchors>> /\ pc' = [pc EXCEPT ![p] = "text"]
          /\ tail' = [tail EXCEPT ![p] = TailOf(log)]
      BY <1>7 DEF ReadTail, Goto, logVars, anchorVars
    <2>3. tail'[p].seq = Len(log) /\ tail'[p].prev = LastHash(log)
      BY <1>a, <2>1, <2>2, TailOfVerified DEF Healthy
    <2> QED
      BY <1>a, <1>7, <2>1, <2>2, <2>3 DEF Healthy, ReadTail
  <1>8. ASSUME NEW p \in Procs, WriteText(p) PROVE Healthy'
    <2>1. Healthy /\ ~overlapped
      BY <1>8 DEF WriteText, histVars, Sane
    <2>2. PICK b \in Bodies : log' = Appended(log, Entry(tail[p].seq, b, tail[p].prev))
      BY <1>8 DEF WriteText
    <2>3. UNCHANGED <<tail, point, anchors>> /\ pc' = [pc EXCEPT ![p] = "feed"] /\ pc[p] = "text"
      BY <1>8 DEF WriteText, Goto, anchorVars
    <2>4. \A q \in Procs : q # p => pc[q] \notin {"text", "feed"}
      BY <2>1, <2>3 DEF OneRecorder, Recording
    <2>5. ~open
      BY <2>1, <2>3, <2>4 DEF Healthy
    <2>6. tail[p].seq = Len(log) /\ tail[p].prev = LastHash(log)
      BY <2>1, <2>3 DEF Healthy
    <2> DEFINE e == Entry(Len(log), b, tail[p].prev)
    <2>7. e \in LineType /\ e # Cut
      BY <1>a, EntryType, EntryParses
    <2>8. log' = Append(log, e)
      BY <2>2, <2>5, <2>6 DEF Appended
    <2>9. VerifyOk(log')
      BY <1>a, <2>1, <2>6, <2>7, <2>8, EntryContinues DEF Healthy
    <2> HIDE DEF e
    <2>10. \A q \in Procs : pc[q] = "mint" => TipIsPrefix(log', point[q].len, point[q].tip)
      BY <1>a, <2>1, <2>7, <2>8, PrefixGrows DEF Healthy
    <2>11. \A i \in 1..Len(anchors) : TipIsPrefix(log', anchors[i].len, anchors[i].tip)
      <3> SUFFICES ASSUME NEW i \in 1..Len(anchors)
                   PROVE  TipIsPrefix(log', anchors[i].len, anchors[i].tip)
        OBVIOUS
      <3>a. anchors[i] \in [len : Nat, tip : Chain, prev : Nat]
        BY <1>a, ElementOfSeq, Zenon
      <3>1. anchors[i].len \in Nat
        BY <3>a
      <3>2. TipIsPrefix(log, anchors[i].len, anchors[i].tip)
        BY <2>1 DEF Healthy
      <3> QED
        BY <1>a, <2>7, <2>8, <3>1, <3>2, PrefixGrows
    <2> QED
      BY <1>a, <2>3, <2>4, <2>9, <2>10, <2>11 DEF Healthy
  <1>9. ASSUME NEW p \in Procs, WritePart(p) PROVE Healthy'
    BY <1>9 DEF WritePart, Sane
  <1>10. ASSUME NEW p \in Procs, WriteFeed(p) PROVE Healthy'
    <2>1. Healthy
      BY <1>10 DEF WriteFeed, histVars, Sane
    <2>2. UNCHANGED <<log, tail, point, anchors>> /\ pc' = [pc EXCEPT ![p] = "idle"] /\ ~open'
      BY <1>10 DEF WriteFeed, Leave, Goto, anchorVars
    <2> QED
      BY <1>a, <2>1, <2>2 DEF Healthy
  <1>11. ASSUME NEW p \in Procs, Crash(p) PROVE Healthy'
    <2>1. Healthy /\ pc[p] # "feed"
      BY <1>11 DEF Crash, Sane
    <2> QED
      BY <1>11, <2>1, QuietStep DEF Crash, Goto, logVars, anchorVars
  <1>12. ASSUME NEW p \in Procs, ChildEnds(p) PROVE Healthy'
    BY <1>12, QuietStep DEF ChildEnds, Leave, Goto, logVars, anchorVars, histVars, Sane
  <1>13. CASE UNCHANGED vars
    BY <1>13 DEF vars, logVars, anchorVars, histVars, Healthy, Sane
  <1> QED
    BY <1>1, <1>2, <1>3, <1>4, <1>5, <1>6, <1>7, <1>8, <1>9, <1>10, <1>11, <1>12, <1>13
    DEF Next, Step, Mutate, Guard, AnchorCreate, AnchorKeygen

LEMMA AInvInit == Init => AInv
  <1> SUFFICES ASSUME Init PROVE AInv
    OBVIOUS
  <1>1. TypeOK
    BY TypeInit
  <1>2. OnlyHolder /\ OneRecorder
    BY DEF Init, OnlyHolder, OneRecorder, Recording
  <1>3. Healthy
    BY DEF Init, Healthy, VerifyOk
  <1> QED
    BY <1>1, <1>2, <1>3 DEF AInv

LEMMA AInvariant == Spec => []AInv
  <1>1. AInv /\ [Next]_vars => AInv'
    BY TypeStep, LockStep, HealthStep DEF AInv, Sane
  <1> QED
    BY <1>1, AInvInit, PTL DEF Spec

(***************************************************************************)
(* try_lock excludes: without `init`, no two processes ever are inside     *)
(* record() at once, however many run and die.                             *)
(***************************************************************************)
THEOREM LockProtectsLog == Spec => [](TypeOK /\ LockExcludes)
  <1>1. AInv => TypeOK /\ LockExcludes
    BY DEF AInv, OnlyHolder, LockExcludes
  <1> QED
    BY <1>1, AInvariant, PTL

(***************************************************************************)
(* verify() accepts the log at every moment, unless record() calls         *)
(* overlapped or a process died on an unfinished line.                     *)
(***************************************************************************)
THEOREM LogStaysIntact == Spec => []LogIntact
  <1>1. AInv => LogIntact
    BY DEF AInv, Healthy, LogIntact
  <1> QED
    BY <1>1, AInvariant, PTL

(***************************************************************************)
(* Under the same conditions every anchor keeps verifying, for any number  *)
(* of anchors and of entries appended after them.                          *)
(***************************************************************************)
THEOREM AnchorsStayValid == Spec => []AnchorsHold
  <1>1. AInv => AnchorsHold
    BY DEF AInv, Healthy, AnchorsHold
  <1> QED
    BY <1>1, AInvariant, PTL

-----------------------------------------------------------------------------
(* A damaged log: the entries record() reads.                              *)

AllRead(l)   == EntriesRead(l, Len(l))
Before(l, i) == EntriesRead(l, i - 1)

(***************************************************************************)
(* (seq, prev) continues the entries whose lines are in S.                 *)
(***************************************************************************)
Follows(l, S, seq, prev) ==
    /\ seq = Cardinality(S)
    /\ S = {} => prev = Empty
    /\ \A j \in S : (\A k \in S : k <= j) => prev = l[j].hash

Linked(l) ==
    \A i \in 1..Len(l) : l[i].ok => Follows(l, Before(l, i), l[i].seq, l[i].prev)

(***************************************************************************)
(* The strengthening of ReadChain: the (seq, prev) that the one process    *)
(* inside record() holds still continues the entries that can be read.     *)
(***************************************************************************)
ChainInv ==
    ~overlapped =>
        /\ Linked(log)
        /\ \A p \in Procs : pc[p] = "text" => Follows(log, AllRead(log), tail[p].seq, tail[p].prev)

(***************************************************************************)
(* The strengthening of AnchorsSound: what the file, the tails read from   *)
(* it and the checkpoints about to be signed hold are sound tips.          *)
(***************************************************************************)
SoundInv ==
    /\ \A i \in 1..Len(log) : log[i].ok => SoundTip(log[i].seq + 1, log[i].hash)
    /\ \A p \in Procs : pc[p] = "text" => SoundTip(tail[p].seq, tail[p].prev)
    /\ \A p \in Procs : pc[p] = "mint" => SoundTip(point[p].len, point[p].tip)
    /\ AnchorsSound

(***************************************************************************)
(* The strengthening of LinksPaid: an anchor is minted and linked under    *)
(* the lock, and an anchor that last_anchor does not name while nobody is  *)
(* about to write it there is a crash not yet charged for.                 *)
(***************************************************************************)
AnchorSteps == {"keygen", "tip", "mint", "link"}
MintsLocked == \A p \in Procs : pc[p] \in AnchorSteps => lock = p

Unlinked == {i \in 1..Len(anchors) : ~LinkOk(i)}
Linking  == \E p \in Procs : pc[p] = "link"
Owed     == lastAnchor # Len(anchors) /\ ~Linking

Paid ==
    /\ Cardinality(Unlinked) <= crashes
    /\ Owed => Cardinality(Unlinked) + 1 <= crashes

(***************************************************************************)
(* A nonempty set of line numbers has a last one.                          *)
(***************************************************************************)
LEMMA LargestLine ==
    ASSUME NEW n \in Nat, NEW S, S \subseteq 1..n, S # {}
    PROVE  \E i \in S : \A j \in S : j <= i
  <1> DEFINE T == {n - j : j \in S}
  <1>1. T \subseteq Nat
    OBVIOUS
  <1>2. T # {}
    <2>1. PICK j : j \in S
      OBVIOUS
    <2>2. n - j \in T
      BY <2>1
    <2> QED
      BY <2>2
  <1>3. \A j \in S : n - j \in T
    OBVIOUS
  <1>4. \A x \in T : \E j \in S : x = n - j
    OBVIOUS
  <1> HIDE DEF T
  <1>5. PICK x \in T : \A y \in T : ~(<<y, x>> \in OpToRel(<, Nat))
    BY <1>1, <1>2, NatLessThanWellFounded, WFMin
  <1>6. \A y \in T : x <= y
    <2> TAKE y \in T
    <2>1. x \in Nat /\ y \in Nat
      BY <1>1
    <2>2. y < x => <<y, x>> \in OpToRel(<, Nat)
      BY <2>1 DEF OpToRel
    <2>3. ~(y < x)
      BY <1>5, <2>2, Zenon
    <2> QED
      BY <2>1, <2>3
  <1>7. PICK i \in S : x = n - i
    BY <1>4
  <1>8. \A j \in S : j <= i
    <2> TAKE j \in S
    <2>1. n - i <= n - j
      BY <1>3, <1>6, <1>7
    <2> QED
      BY <2>1
  <1> QED
    BY <1>8

(***************************************************************************)
(* Which entries are read depends only on the lines up to the last of      *)
(* them.                                                                   *)
(***************************************************************************)
LEMMA ReadUpTo ==
    ASSUME NEW l, NEW m, NEW n \in Nat, \A j \in 1..n : m[j] = l[j]
    PROVE  EntriesRead(m, n) = EntriesRead(l, n)
  <1>1. \A j \in 1..n : Reached(m, j) <=> Reached(l, j)
    <2> SUFFICES ASSUME NEW j \in 1..n PROVE Reached(m, j) <=> Reached(l, j)
      OBVIOUS
    <2>1. \A k \in 1..j : m[k] = l[k]
      OBVIOUS
    <2> QED
      BY <2>1 DEF Reached
  <1> QED
    BY <1>1 DEF EntriesRead

(***************************************************************************)
(* record() resumes from the last entry it reads, whatever follows it.     *)
(***************************************************************************)
LEMMA TailFollows ==
    ASSUME NEW l \in Seq(LineType), Linked(l)
    PROVE  Follows(l, AllRead(l), TailOf(l).seq, TailOf(l).prev)
  <1>1. Len(l) \in Nat /\ AllRead(l) \subseteq 1..Len(l)
    BY DEF AllRead, EntriesRead
  <1>a. \A i : IsLastRead(l, i) <=> i \in AllRead(l) /\ \A j \in AllRead(l) : j <= i
    BY DEF IsLastRead, AllRead
  <1>2. CASE AllRead(l) = {}
    <2>1. ~\E i \in 1..Len(l) : IsLastRead(l, i)
      BY <1>2, <1>a
    <2>2. TailOf(l) = Genesis
      BY <2>1 DEF TailOf
    <2> QED
      BY <1>2, <2>2, FS_EmptySet DEF Follows, Genesis
  <1>3. CASE AllRead(l) # {}
    <2>1. PICK i \in AllRead(l) : \A j \in AllRead(l) : j <= i
      BY <1>1, <1>3, LargestLine
    <2>2. i \in 1..Len(l) /\ l[i].ok /\ IsLastRead(l, i)
      BY <1>a, <2>1 DEF AllRead, EntriesRead
    <2>3. \A j \in AllRead(l) : (\A k \in AllRead(l) : k <= j) => j = i
      BY <1>1, <2>1
    <2>4. (CHOOSE j \in 1..Len(l) : IsLastRead(l, j)) = i
      BY <1>a, <2>2, <2>3
    <2>5. TailOf(l) = After(l[i])
      BY <2>2, <2>4 DEF TailOf
    <2>6. AllRead(l) = Before(l, i) \cup {i} /\ i \notin Before(l, i)
      BY <1>1, <2>1, <2>2 DEF AllRead, Before, EntriesRead
    <2>7. IsFiniteSet(Before(l, i))
      <3>1. i - 1 \in Int /\ Before(l, i) \in SUBSET (1..(i - 1))
        BY <2>2 DEF Before, EntriesRead
      <3> QED
        BY <3>1, FS_Interval, FS_Subset
    <2>8. Cardinality(AllRead(l)) = Cardinality(Before(l, i)) + 1
      BY <2>6, <2>7, FS_AddElement
    <2>9. l[i].seq = Cardinality(Before(l, i))
      BY <2>2 DEF Linked, Follows
    <2>10. TailOf(l).seq = Cardinality(AllRead(l)) /\ TailOf(l).prev = l[i].hash
      BY <2>5, <2>8, <2>9 DEF After
    <2> QED
      BY <1>3, <2>3, <2>10 DEF Follows
  <1> QED
    BY <1>2, <1>3

(***************************************************************************)
(* What follows lines of a log still does in a log that has them.          *)
(***************************************************************************)
LEMMA FollowsKept ==
    ASSUME NEW l, NEW m, NEW S, NEW seq, NEW prev, \A j \in S : m[j] = l[j],
           Follows(l, S, seq, prev)
    PROVE  Follows(m, S, seq, prev)
  BY DEF Follows

(***************************************************************************)
(* Changing what comes after line n leaves the lines up to n linked.       *)
(***************************************************************************)
LEMMA LinkedUpTo ==
    ASSUME NEW l \in Seq(LineType), NEW m, Linked(l), NEW n \in 0..Len(l),
           \A j \in 1..n : m[j] = l[j]
    PROVE  \A i \in 1..n : m[i].ok => Follows(m, Before(m, i), m[i].seq, m[i].prev)
  <1> SUFFICES ASSUME NEW i \in 1..n, m[i].ok
               PROVE  Follows(m, Before(m, i), m[i].seq, m[i].prev)
    OBVIOUS
  <1>1. Len(l) \in Nat /\ i \in 1..Len(l) /\ m[i] = l[i]
    OBVIOUS
  <1>2. Before(m, i) = Before(l, i) /\ \A j \in Before(l, i) : m[j] = l[j]
    <2>1. i - 1 \in Nat /\ \A j \in 1..(i - 1) : m[j] = l[j]
      OBVIOUS
    <2>2. Before(l, i) \subseteq 1..(i - 1)
      BY DEF Before, EntriesRead
    <2> QED
      BY <2>1, <2>2, ReadUpTo DEF Before
  <1>3. Follows(l, Before(l, i), l[i].seq, l[i].prev)
    BY <1>1 DEF Linked
  <1> QED
    BY <1>1, <1>2, <1>3, FollowsKept

(***************************************************************************)
(* Appending keeps the entries linked, when what is appended does not      *)
(* parse or continues those that are read.                                 *)
(***************************************************************************)
LEMMA AppendLinked ==
    ASSUME NEW l \in Seq(LineType), NEW line \in LineType, Linked(l),
           line.ok => Follows(l, AllRead(l), line.seq, line.prev)
    PROVE  Linked(Append(l, line))
  <1> DEFINE m == Append(l, line)
  <1>1. /\ Len(l) \in Nat /\ Len(m) = Len(l) + 1 /\ m[Len(l) + 1] = line
        /\ \A i \in 1..Len(l) : m[i] = l[i]
    OBVIOUS
  <1> HIDE DEF m
  <1>2. \A i \in 1..Len(l) : m[i].ok => Follows(m, Before(m, i), m[i].seq, m[i].prev)
    BY <1>1, LinkedUpTo
  <1>3. Before(m, Len(l) + 1) = AllRead(l) /\ \A j \in AllRead(l) : m[j] = l[j]
    <2>1. (Len(l) + 1) - 1 = Len(l) /\ AllRead(l) \subseteq 1..Len(l)
      BY <1>1 DEF AllRead, EntriesRead
    <2> QED
      BY <1>1, <2>1, ReadUpTo DEF Before, AllRead
  <1>4. line.ok => Follows(m, Before(m, Len(l) + 1), line.seq, line.prev)
    BY <1>3, FollowsKept
  <1>5. \A i \in 1..Len(m) : i \in 1..Len(l) \/ i = Len(l) + 1
    BY <1>1
  <1>6. Linked(m)
    BY <1>1, <1>2, <1>4, <1>5 DEF Linked
  <1> QED
    BY <1>6 DEF m

(***************************************************************************)
(* So does text that lands on the last line and spoils it.                 *)
(***************************************************************************)
LEMMA SpoilLinked ==
    ASSUME NEW l \in Seq(LineType), Linked(l), NEW part \in {Garbage, Cut}
    PROVE  Linked([l EXCEPT ![Len(l)] = part])
  <1> DEFINE m == [l EXCEPT ![Len(l)] = part]
  <1>1. CASE Len(l) = 0
    BY <1>1 DEF Linked
  <1>2. CASE Len(l) # 0
    <2>1. /\ Len(l) \in Nat /\ Len(l) - 1 \in 0..Len(l)
          /\ Len(m) = Len(l) /\ m[Len(l)] = part
          /\ \A i \in 1..(Len(l) - 1) : m[i] = l[i]
      BY <1>2
    <2> HIDE DEF m
    <2>2. \A i \in 1..(Len(l) - 1) : m[i].ok => Follows(m, Before(m, i), m[i].seq, m[i].prev)
      BY <2>1, LinkedUpTo
    <2>3. \A i \in 1..Len(m) : i \in 1..(Len(l) - 1) \/ i = Len(l)
      BY <2>1
    <2>4. Linked(m)
      BY <2>1, <2>2, <2>3, GarbageNeverParses DEF Linked
    <2> QED
      BY <2>4 DEF m
  <1> QED
    BY <1>1, <1>2

(***************************************************************************)
(* A step that leaves the file and the tails alone and moves one process,  *)
(* not into "text", keeps the chain.                                       *)
(***************************************************************************)
LEMMA ChainQuiet ==
    ASSUME TypeOK, ChainInv, NEW p \in Procs, NEW where, where # "text",
           UNCHANGED <<log, tail, overlapped>>, pc' = [pc EXCEPT ![p] = where]
    PROVE  ChainInv'
  <1>1. \A q \in Procs : pc'[q] = "text" => pc[q] = "text"
    BY DEF TypeOK
  <1>2. AllRead(log)' = AllRead(log)
    BY DEF AllRead
  <1> QED
    BY <1>1, <1>2 DEF ChainInv

(***************************************************************************)
(* Text written by the one process inside record() keeps the chain when it *)
(* does not parse or continues the entries that are read.                  *)
(***************************************************************************)
LEMMA ChainText ==
    ASSUME TypeOK, OneRecorder, ChainInv, NEW p \in Procs, pc[p] = "text",
           NEW line \in LineType, log' = Appended(log, line),
           ~overlapped /\ line.ok => Follows(log, AllRead(log), line.seq, line.prev),
           NEW where, where # "text", pc' = [pc EXCEPT ![p] = where],
           overlapped' = overlapped
    PROVE  ChainInv'
  <1> SUFFICES ASSUME ~overlapped
               PROVE  Linked(log') /\ \A q \in Procs : pc'[q] # "text"
    BY DEF ChainInv
  <1>a. log \in Seq(LineType) /\ pc \in [Procs -> PCs]
    BY DEF TypeOK
  <1>1. \A q \in Procs : pc'[q] # "text"
    BY <1>a DEF OneRecorder, Recording
  <1>2. Linked(log)
    BY DEF ChainInv
  <1>3. CASE open
    BY <1>a, <1>1, <1>2, <1>3, SpoilLinked, JoinedIsGarbage DEF Appended
  <1>4. CASE ~open
    BY <1>a, <1>1, <1>2, <1>4, AppendLinked DEF Appended
  <1> QED
    BY <1>1, <1>3, <1>4

LEMMA ChainStep ==
    TypeOK /\ OneRecorder /\ ChainInv /\ [Next]_vars => ChainInv'
  <1> SUFFICES ASSUME TypeOK, OneRecorder, ChainInv, [Next]_vars PROVE ChainInv'
    OBVIOUS
  <1>a. pc \in [Procs -> PCs] /\ tail \in [Procs -> [seq : Nat, prev : Chain]]
        /\ log \in Seq(LineType)
    BY DEF TypeOK
  <1>1. ASSUME NEW p \in Procs, NEW first \in {"read", "child", "tip", "keygen"}, Command(p, first)
        PROVE  ChainInv'
    BY <1>1, ChainQuiet DEF Command, Goto, logVars, histVars
  <1>2. ASSUME NEW p \in Procs, InitAgain(p) PROVE ChainInv'
    BY <1>2, ChainQuiet DEF InitAgain, Goto, logVars
  <1>3. ASSUME NEW p \in Procs, Keygen(p) PROVE ChainInv'
    BY <1>3, ChainQuiet DEF Keygen, Leave, Goto, logVars, histVars
  <1>4. ASSUME NEW p \in Procs, AnchorTip(p) PROVE ChainInv'
    BY <1>4, ChainQuiet DEF AnchorTip, Leave, Goto, logVars, histVars
  <1>5. ASSUME NEW p \in Procs, AnchorMint(p) PROVE ChainInv'
    BY <1>5, ChainQuiet DEF AnchorMint, Goto, logVars, histVars
  <1>6. ASSUME NEW p \in Procs, AnchorLink(p) PROVE ChainInv'
    BY <1>6, ChainQuiet DEF AnchorLink, Goto, logVars, histVars
  <1>7. ASSUME NEW p \in Procs, ReadTail(p) PROVE ChainInv'
    <2>1. log' = log /\ tail' = [tail EXCEPT ![p] = TailOf(log)]
          /\ pc' = [pc EXCEPT ![p] = "text"] /\ (~overlapped' => ~overlapped)
      BY <1>7 DEF ReadTail, Goto, logVars
    <2> SUFFICES ASSUME ~overlapped'
                 PROVE  /\ Linked(log)
                        /\ \A q \in Procs : pc'[q] = "text" =>
                              Follows(log, AllRead(log), tail'[q].seq, tail'[q].prev)
      BY <2>1 DEF ChainInv
    <2>2. Linked(log) /\ \A q \in Procs : pc[q] = "text" =>
                            Follows(log, AllRead(log), tail[q].seq, tail[q].prev)
      BY <2>1 DEF ChainInv
    <2>3. tail'[p] = TailOf(log) /\ \A q \in Procs \ {p} : tail'[q] = tail[q] /\ pc'[q] = pc[q]
      BY <1>a, <2>1
    <2>4. Follows(log, AllRead(log), tail'[p].seq, tail'[p].prev)
      BY <1>a, <2>2, <2>3, TailFollows
    <2> QED
      BY <2>2, <2>3, <2>4
  <1>8. ASSUME NEW p \in Procs, WriteText(p) PROVE ChainInv'
    <2>1. PICK b \in Bodies : log' = Appended(log, Entry(tail[p].seq, b, tail[p].prev))
      BY <1>8 DEF WriteText
    <2> DEFINE e == Entry(tail[p].seq, b, tail[p].prev)
    <2>2. e \in LineType /\ e.seq = tail[p].seq /\ e.prev = tail[p].prev
      BY <1>a, EntryType DEF Entry
    <2>3. pc[p] = "text" /\ pc' = [pc EXCEPT ![p] = "feed"] /\ overlapped' = overlapped
      BY <1>8 DEF WriteText, Goto, histVars
    <2> HIDE DEF e
    <2>4. log' = Appended(log, e)
      BY <2>1 DEF e
    <2>5. ~overlapped => Follows(log, AllRead(log), e.seq, e.prev)
      BY <2>2, <2>3 DEF ChainInv
    <2> QED
      BY <2>2, <2>3, <2>4, <2>5, ChainText
  <1>9. ASSUME NEW p \in Procs, WritePart(p) PROVE ChainInv'
    <2>1. pc[p] = "text" /\ pc' = [pc EXCEPT ![p] = "idle"] /\ overlapped' = overlapped
      BY <1>9 DEF WritePart, Leave, Goto
    <2>a. PICK part \in {Garbage, Cut} : log' = Appended(log, part)
      BY <1>9 DEF WritePart
    <2>2. part \in LineType
      BY DEF LineType
    <2> QED
      BY <2>a, <2>1, <2>2, GarbageNeverParses, ChainText
  <1>10. ASSUME NEW p \in Procs, WriteFeed(p) PROVE ChainInv'
    BY <1>10, ChainQuiet DEF WriteFeed, Leave, Goto, histVars
  <1>11. ASSUME NEW p \in Procs, Crash(p) PROVE ChainInv'
    BY <1>11, ChainQuiet DEF Crash, Goto, logVars
  <1>12. ASSUME NEW p \in Procs, ChildEnds(p) PROVE ChainInv'
    BY <1>12, ChainQuiet DEF ChildEnds, Leave, Goto, logVars, histVars
  <1>13. CASE UNCHANGED vars
    BY <1>13 DEF vars, logVars, histVars, ChainInv, AllRead
  <1> QED
    BY <1>1, <1>2, <1>3, <1>4, <1>5, <1>6, <1>7, <1>8, <1>9, <1>10, <1>11, <1>12, <1>13
    DEF Next, Step, Mutate, Guard, AnchorCreate, AnchorKeygen

-----------------------------------------------------------------------------
(* What an anchor signs.                                                   *)

LEMMA SoundEntry ==
    ASSUME NEW n \in Nat, NEW t \in Chain, NEW b \in Bodies, SoundTip(n, t)
    PROVE  SoundTip(n + 1, EntryHash(n, b, t))
  <1> DEFINE h == EntryHash(n, b, t)
  <1>1. Len(t) = n /\ \A k \in 1..n : t[k][1] = k - 1
    BY DEF SoundTip
  <1>2. Len(h) = n + 1 /\ h[n + 1] = <<n, b>> /\ \A k \in 1..n : h[k] = t[k]
    BY <1>1 DEF EntryHash, Chain
  <1> HIDE DEF h
  <1>3. \A k \in 1..(n + 1) : k \in 1..n \/ k = n + 1
    OBVIOUS
  <1>4. \A k \in 1..(n + 1) : h[k][1] = k - 1
    BY <1>1, <1>2, <1>3
  <1>5. SoundTip(n + 1, h)
    BY <1>2, <1>4 DEF SoundTip
  <1> QED
    BY <1>5 DEF h

LEMMA SoundEmpty == SoundTip(0, Empty)
  BY DEF SoundTip, Empty

(***************************************************************************)
(* What record() and tip() derive from a sound file is sound.              *)
(***************************************************************************)
LEMMA SoundReaders ==
    ASSUME NEW l \in Seq(LineType),
           \A i \in 1..Len(l) : l[i].ok => SoundTip(l[i].seq + 1, l[i].hash)
    PROVE  /\ SoundTip(TailOf(l).seq, TailOf(l).prev)
           /\ TipDefined(l) => SoundTip(TipOf(l).len, TipOf(l).tip)
  <1>1. ASSUME \E i \in 1..Len(l) : IsLastRead(l, i)
        PROVE  SoundTip(TailOf(l).seq, TailOf(l).prev)
    <2>1. PICK i \in 1..Len(l) : IsLastRead(l, i) /\ TailOf(l) = After(l[i])
      BY <1>1 DEF TailOf
    <2> QED
      BY <2>1 DEF After, IsLastRead, EntriesRead
  <1>2. ASSUME ~\E i \in 1..Len(l) : IsLastRead(l, i)
        PROVE  SoundTip(TailOf(l).seq, TailOf(l).prev)
    BY <1>2, SoundEmpty DEF TailOf, Genesis
  <1>3. ASSUME l = <<>> PROVE SoundTip(TipOf(l).len, TipOf(l).tip)
    BY <1>3, SoundEmpty DEF TipOf
  <1>4. ASSUME l # <<>>, TipDefined(l) PROVE SoundTip(TipOf(l).len, TipOf(l).tip)
    <2>1. Len(l) \in 1..Len(l)
      BY <1>4
    <2> QED
      BY <1>4, <2>1 DEF TipOf, TipDefined, Parsable
  <1> QED
    BY <1>1, <1>2, <1>3, <1>4

LEMMA SoundQuiet ==
    ASSUME TypeOK, SoundInv, NEW p \in Procs, NEW where, where \notin {"text", "mint"},
           UNCHANGED <<log, tail, point, anchors>>, pc' = [pc EXCEPT ![p] = where]
    PROVE  SoundInv'
  <1>1. \A q \in Procs : pc'[q] \in {"text", "mint"} => pc'[q] = pc[q]
    BY DEF TypeOK
  <1> QED
    BY <1>1 DEF SoundInv, AnchorsSound

(***************************************************************************)
(* A line that does not parse, or is sound, keeps the file sound.          *)
(***************************************************************************)
LEMMA SoundText ==
    ASSUME TypeOK, SoundInv, NEW p \in Procs,
           NEW line \in LineType, log' = Appended(log, line),
           line.ok => SoundTip(line.seq + 1, line.hash),
           UNCHANGED <<tail, point, anchors>>,
           NEW where, where \notin {"text", "mint"}, pc' = [pc EXCEPT ![p] = where]
    PROVE  SoundInv'
  <1>1. \A q \in Procs : pc'[q] \in {"text", "mint"} => pc'[q] = pc[q]
    BY DEF TypeOK
  <1>2. log \in Seq(LineType) /\ Len(log) \in Nat
    BY DEF TypeOK
  <1>3. \A i \in 1..Len(log) : log[i].ok => SoundTip(log[i].seq + 1, log[i].hash)
    BY DEF SoundInv
  <1>4. \A i \in 1..Len(log') : log'[i].ok => SoundTip(log'[i].seq + 1, log'[i].hash)
    <2>1. CASE open
      <3>1. Len(log') = Len(log) /\ \A i \in 1..Len(log) : log'[i] = log[i] \/ log'[i] \in {Garbage, Cut}
        BY <1>2, <2>1, JoinedIsGarbage DEF Appended
      <3> QED
        BY <1>3, <3>1, GarbageNeverParses
    <2>2. CASE ~open
      <3>1. /\ Len(log') = Len(log) + 1 /\ log'[Len(log) + 1] = line
            /\ \A i \in 1..Len(log) : log'[i] = log[i]
        BY <1>2, <2>2 DEF Appended
      <3>2. \A i \in 1..Len(log') : i \in 1..Len(log) \/ i = Len(log) + 1
        BY <1>2, <3>1
      <3> QED
        BY <1>3, <3>1, <3>2
    <2> QED
      BY <2>1, <2>2
  <1> QED
    BY <1>1, <1>4 DEF SoundInv, AnchorsSound

LEMMA SoundStep == TypeOK /\ SoundInv /\ [Next]_vars => SoundInv'
  <1> SUFFICES ASSUME TypeOK, SoundInv, [Next]_vars PROVE SoundInv'
    OBVIOUS
  <1>a. pc \in [Procs -> PCs] /\ tail \in [Procs -> [seq : Nat, prev : Chain]]
        /\ point \in [Procs -> [len : Nat, tip : Chain]] /\ log \in Seq(LineType)
        /\ anchors \in Seq([len : Nat, tip : Chain, prev : Nat])
    BY DEF TypeOK
  <1>b. \A i \in 1..Len(log) : log[i].ok => SoundTip(log[i].seq + 1, log[i].hash)
    BY DEF SoundInv
  <1>1. ASSUME NEW p \in Procs, NEW first \in {"read", "child", "tip", "keygen"}, Command(p, first)
        PROVE  SoundInv'
    BY <1>1, SoundQuiet DEF Command, Goto, logVars, anchorVars
  <1>2. ASSUME NEW p \in Procs, InitAgain(p) PROVE SoundInv'
    BY <1>2, SoundQuiet DEF InitAgain, Goto, logVars, anchorVars
  <1>3. ASSUME NEW p \in Procs, Keygen(p) PROVE SoundInv'
    BY <1>3, SoundQuiet DEF Keygen, Leave, Goto, logVars
  <1>4. ASSUME NEW p \in Procs, AnchorTip(p) PROVE SoundInv'
    <2>1. CASE pc'[p] = "mint"
      <3>1. point' = [point EXCEPT ![p] = TipOf(log)] /\ pc' = [pc EXCEPT ![p] = "mint"]
            /\ UNCHANGED <<log, tail, anchors>> /\ TipDefined(log)
        BY <1>a, <1>4, <2>1 DEF AnchorTip, Leave, Goto, logVars, anchorVars
      <3>2. /\ point'[p] = TipOf(log) /\ pc'[p] = "mint"
            /\ \A q \in Procs \ {p} : point'[q] = point[q] /\ pc'[q] = pc[q]
        BY <1>a, <3>1
      <3>3. SoundTip(point'[p].len, point'[p].tip)
        BY <1>a, <1>b, <3>1, <3>2, SoundReaders
      <3> QED
        BY <3>1, <3>2, <3>3 DEF SoundInv, AnchorsSound
    <2>2. CASE pc'[p] # "mint"
      BY <1>a, <1>4, <2>2, SoundQuiet DEF AnchorTip, Leave, Goto, logVars, anchorVars
    <2> QED
      BY <2>1, <2>2
  <1>5. ASSUME NEW p \in Procs, AnchorMint(p) PROVE SoundInv'
    <2> DEFINE a == [len |-> point[p].len, tip |-> point[p].tip, prev |-> lastAnchor]
    <2>1. anchors' = Append(anchors, a) /\ a.len = point[p].len /\ a.tip = point[p].tip
          /\ UNCHANGED <<log, tail, point>> /\ pc' = [pc EXCEPT ![p] = "link"]
      BY <1>5 DEF AnchorMint, logVars, Goto
    <2>2. SoundTip(a.len, a.tip)
      BY <1>5, <2>1 DEF AnchorMint, SoundInv
    <2> HIDE DEF a
    <2>3. /\ Len(anchors') = Len(anchors) + 1 /\ anchors'[Len(anchors) + 1] = a
          /\ \A i \in 1..Len(anchors) : anchors'[i] = anchors[i]
          /\ \A i \in 1..Len(anchors') : i \in 1..Len(anchors) \/ i = Len(anchors) + 1
      BY <1>a, <2>1
    <2>4. AnchorsSound'
      BY <2>2, <2>3 DEF SoundInv, AnchorsSound
    <2>5. \A q \in Procs : pc'[q] \in {"text", "mint"} => pc'[q] = pc[q]
      BY <1>a, <2>1
    <2> QED
      BY <2>1, <2>4, <2>5 DEF SoundInv
  <1>6. ASSUME NEW p \in Procs, AnchorLink(p) PROVE SoundInv'
    BY <1>6, SoundQuiet DEF AnchorLink, Goto, logVars
  <1>7. ASSUME NEW p \in Procs, ReadTail(p) PROVE SoundInv'
    <2>1. tail' = [tail EXCEPT ![p] = TailOf(log)] /\ pc' = [pc EXCEPT ![p] = "text"]
          /\ UNCHANGED <<log, point, anchors>>
      BY <1>7 DEF ReadTail, Goto, logVars, anchorVars
    <2>2. /\ tail'[p] = TailOf(log) /\ pc'[p] = "text"
          /\ \A q \in Procs \ {p} : tail'[q] = tail[q] /\ pc'[q] = pc[q]
      BY <1>a, <2>1
    <2>3. SoundTip(tail'[p].seq, tail'[p].prev)
      BY <1>a, <1>b, <2>2, SoundReaders
    <2> QED
      BY <2>1, <2>2, <2>3 DEF SoundInv, AnchorsSound
  <1>8. ASSUME NEW p \in Procs, WriteText(p) PROVE SoundInv'
    <2>1. PICK b \in Bodies : log' = Appended(log, Entry(tail[p].seq, b, tail[p].prev))
      BY <1>8 DEF WriteText
    <2> DEFINE e == Entry(tail[p].seq, b, tail[p].prev)
    <2>2. pc[p] = "text" /\ pc' = [pc EXCEPT ![p] = "feed"] /\ UNCHANGED <<tail, point, anchors>>
      BY <1>8 DEF WriteText, Goto, anchorVars
    <2>3. tail[p].seq \in Nat /\ tail[p].prev \in Chain /\ SoundTip(tail[p].seq, tail[p].prev)
      BY <1>a, <2>2 DEF SoundInv
    <2>4. e \in LineType /\ e.seq = tail[p].seq /\ e.hash = EntryHash(tail[p].seq, b, tail[p].prev)
      BY <2>3, EntryType DEF Entry
    <2> HIDE DEF e
    <2>5. log' = Appended(log, e)
      BY <2>1 DEF e
    <2>6. SoundTip(e.seq + 1, e.hash)
      BY <2>3, <2>4, SoundEntry
    <2> QED
      BY <2>2, <2>4, <2>5, <2>6, SoundText
  <1>9. ASSUME NEW p \in Procs, WritePart(p) PROVE SoundInv'
    <2>1. pc' = [pc EXCEPT ![p] = "idle"] /\ UNCHANGED <<tail, point, anchors>>
      BY <1>9 DEF WritePart, Leave, Goto, anchorVars
    <2>a. PICK part \in {Garbage, Cut} : log' = Appended(log, part)
      BY <1>9 DEF WritePart
    <2>2. part \in LineType
      BY DEF LineType
    <2> QED
      BY <2>a, <2>1, <2>2, GarbageNeverParses, SoundText
  <1>10. ASSUME NEW p \in Procs, WriteFeed(p) PROVE SoundInv'
    BY <1>10, SoundQuiet DEF WriteFeed, Leave, Goto, anchorVars
  <1>11. ASSUME NEW p \in Procs, Crash(p) PROVE SoundInv'
    BY <1>11, SoundQuiet DEF Crash, Goto, logVars, anchorVars
  <1>12. ASSUME NEW p \in Procs, ChildEnds(p) PROVE SoundInv'
    BY <1>12, SoundQuiet DEF ChildEnds, Leave, Goto, logVars, anchorVars
  <1>13. CASE UNCHANGED vars
    BY <1>13 DEF vars, logVars, anchorVars, SoundInv, AnchorsSound
  <1> QED
    BY <1>1, <1>2, <1>3, <1>4, <1>5, <1>6, <1>7, <1>8, <1>9, <1>10, <1>11, <1>12, <1>13
    DEF Next, Step, Mutate, Guard, AnchorCreate, AnchorKeygen

(***************************************************************************)
(* Whatever died half way, in a short write that cuts a character too:     *)
(* unless record() calls overlapped, every entry continues the last one    *)
(* that record() reads above it, and every anchor signs a sound chain.     *)
(***************************************************************************)
THEOREM DamageStaysBounded == Spec => []DamageBounded
  <1>1. Init => ChainInv /\ SoundInv
    BY DEF Init, ChainInv, SoundInv, Linked, AnchorsSound
  <1>2. AInv /\ ChainInv /\ SoundInv /\ [Next]_vars => ChainInv' /\ SoundInv'
    BY ChainStep, SoundStep DEF AInv
  <1>3. ChainInv /\ SoundInv => DamageBounded
    BY DEF ChainInv, SoundInv, Linked, Follows, Before, DamageBounded, ReadChain, Continues
  <1> QED
    BY <1>1, <1>2, <1>3, AInvariant, PTL DEF Spec

-----------------------------------------------------------------------------
(* The links between anchors.                                              *)

LEMMA UnlinkedFinite ==
    ASSUME TypeOK
    PROVE  IsFiniteSet(Unlinked) /\ Cardinality(Unlinked) \in Nat
  <1>1. 1 \in Int /\ Len(anchors) \in Int /\ Unlinked \in SUBSET (1..Len(anchors))
    BY DEF TypeOK, Unlinked
  <1>a. IsFiniteSet(1..Len(anchors))
    BY <1>1, FS_Interval
  <1>2. IsFiniteSet(Unlinked)
    BY <1>1, <1>a, FS_Subset
  <1> QED
    BY <1>2, FS_CardinalityType

(***************************************************************************)
(* Only a command that holds the lock goes through the steps of            *)
(* anchor::keygen and anchor::create.                                      *)
(***************************************************************************)
LEMMA MintsLockedStep == TypeOK /\ MintsLocked /\ [Next]_vars => MintsLocked'
  <1> SUFFICES ASSUME TypeOK, MintsLocked, [Next]_vars PROVE MintsLocked'
    OBVIOUS
  <1> USE NoProcAssumption DEF MintsLocked, AnchorSteps
  <1>a. pc \in [Procs -> PCs]
    BY DEF TypeOK
  <1>1. ASSUME NEW p \in Procs, NEW first \in {"read", "child", "tip", "keygen"}, Command(p, first)
        PROVE  MintsLocked'
    BY <1>a, <1>1 DEF Command, TakeLock, Goto
  <1>2. ASSUME NEW p \in Procs, InitAgain(p) PROVE MintsLocked'
    BY <1>a, <1>2 DEF InitAgain, Goto
  <1>3. ASSUME NEW p \in Procs, Keygen(p) PROVE MintsLocked'
    BY <1>a, <1>3 DEF Keygen, Leave, Unlock, Goto
  <1>4. ASSUME NEW p \in Procs, AnchorTip(p) PROVE MintsLocked'
    BY <1>a, <1>4 DEF AnchorTip, Leave, Unlock, Goto
  <1>5. ASSUME NEW p \in Procs, AnchorMint(p) \/ AnchorLink(p) PROVE MintsLocked'
    BY <1>a, <1>5 DEF AnchorMint, AnchorLink, Goto
  <1>6. ASSUME NEW p \in Procs, ReadTail(p) \/ WriteText(p) PROVE MintsLocked'
    BY <1>a, <1>6 DEF ReadTail, WriteText, Goto
  <1>7. ASSUME NEW p \in Procs, WritePart(p) \/ WriteFeed(p) PROVE MintsLocked'
    BY <1>a, <1>7 DEF WritePart, WriteFeed, Leave, Unlock, Goto
  <1>8. ASSUME NEW p \in Procs, Crash(p) PROVE MintsLocked'
    BY <1>a, <1>8 DEF Crash, DropLock, Unlock, Goto
  <1>9. ASSUME NEW p \in Procs, ChildEnds(p) PROVE MintsLocked'
    BY <1>a, <1>9 DEF ChildEnds, Leave, Unlock, Goto
  <1>10. CASE UNCHANGED vars
    BY <1>10 DEF vars
  <1> QED
    BY <1>1, <1>2, <1>3, <1>4, <1>5, <1>6, <1>7, <1>8, <1>9, <1>10
    DEF Next, Step, Mutate, Guard, AnchorCreate, AnchorKeygen

(***************************************************************************)
(* The account of links and crashes.                                       *)
(***************************************************************************)
LEMMA PaidQuiet ==
    ASSUME TypeOK, Paid, UNCHANGED <<anchors, lastAnchor, crashes>>,
           NEW p \in Procs, NEW where, pc[p] # "link", pc' = [pc EXCEPT ![p] = where]
    PROVE  Paid'
  <1>1. Linking => Linking'
    BY DEF TypeOK, Linking
  <1>2. Unlinked' = Unlinked
    BY DEF Unlinked, LinkOk
  <1> QED
    BY <1>1, <1>2 DEF Paid, Owed

LEMMA PaidCrash ==
    ASSUME TypeOK, Paid, UNCHANGED <<anchors, lastAnchor>>, crashes' = crashes + 1
    PROVE  Paid'
  <1>1. Unlinked' = Unlinked
    BY DEF Unlinked, LinkOk
  <1>2. Cardinality(Unlinked) \in Nat /\ crashes \in Nat
    BY UnlinkedFinite DEF TypeOK
  <1> QED
    BY <1>1, <1>2 DEF Paid

LEMMA PaidMint ==
    ASSUME TypeOK, MintsLocked, Paid, NEW p \in Procs, AnchorMint(p)
    PROVE  Paid'
  <1> DEFINE a == [len |-> point[p].len, tip |-> point[p].tip, prev |-> lastAnchor]
             n == Len(anchors) + 1
  <1>1. /\ anchors' = Append(anchors, a) /\ a.prev = lastAnchor /\ pc[p] = "mint"
        /\ pc' = [pc EXCEPT ![p] = "link"] /\ crashes' = crashes
    BY DEF AnchorMint, Goto, histVars
  <1> HIDE DEF a
  <1>2. /\ Len(anchors) \in Nat /\ Len(anchors') = n /\ anchors'[n] = a
        /\ \A i \in 1..Len(anchors) : anchors'[i] = anchors[i]
    BY <1>1 DEF TypeOK
  <1>3. Linking'
    BY <1>1 DEF TypeOK, Linking
  <1>4. ~Linking
    BY <1>1 DEF MintsLocked, AnchorSteps, Linking
  <1>5. anchors'[n].prev = n - 1 <=> lastAnchor = Len(anchors)
    BY <1>1, <1>2 DEF TypeOK
  <1>6. \A i \in 1..n : i \in 1..Len(anchors) \/ i = n
    BY <1>2
  <1>7. Unlinked' = {i \in 1..n : anchors'[i].prev # i - 1}
    BY <1>2 DEF Unlinked, LinkOk
  <1>8. crashes \in Nat /\ Cardinality(Unlinked) \in Nat /\ IsFiniteSet(Unlinked) /\ n \notin Unlinked
    BY <1>2, UnlinkedFinite DEF TypeOK, Unlinked
  <1>9. CASE lastAnchor = Len(anchors)
    <2>1. Unlinked' = Unlinked
      BY <1>2, <1>5, <1>6, <1>7, <1>9 DEF Unlinked, LinkOk
    <2> QED
      BY <1>1, <1>3, <2>1 DEF Paid, Owed
  <1>10. CASE lastAnchor # Len(anchors)
    <2>1. Unlinked' = Unlinked \cup {n}
      BY <1>2, <1>5, <1>6, <1>7, <1>10 DEF Unlinked, LinkOk
    <2>2. Cardinality(Unlinked \cup {n}) = Cardinality(Unlinked) + 1
      BY <1>8, FS_AddElement
    <2> QED
      BY <1>1, <1>3, <1>4, <1>10, <2>1, <2>2 DEF Paid, Owed
  <1> QED
    BY <1>9, <1>10

LEMMA PaidLink ==
    ASSUME TypeOK, Paid, NEW p \in Procs, AnchorLink(p)
    PROVE  Paid'
  <1>1. UNCHANGED <<anchors, crashes>> /\ lastAnchor' = Len(anchors)
    BY DEF AnchorLink, NewLast, histVars
  <1>2. Unlinked' = Unlinked
    BY <1>1 DEF Unlinked, LinkOk
  <1> QED
    BY <1>1, <1>2 DEF Paid, Owed

LEMMA PaidStep == TypeOK /\ MintsLocked /\ Paid /\ [Next]_vars => Paid'
  <1> SUFFICES ASSUME TypeOK, MintsLocked, Paid, [Next]_vars PROVE Paid'
    OBVIOUS
  <1>1. ASSUME NEW p \in Procs, NEW first \in {"read", "child", "tip", "keygen"}, Command(p, first)
        PROVE  Paid'
    BY <1>1, PaidQuiet DEF Command, Goto, anchorVars, histVars
  <1>2. ASSUME NEW p \in Procs, InitAgain(p) PROVE Paid'
    BY <1>2, PaidQuiet DEF InitAgain, Goto, anchorVars
  <1>3. ASSUME NEW p \in Procs, Keygen(p) PROVE Paid'
    BY <1>3, PaidQuiet DEF Keygen, Leave, Goto, histVars
  <1>4. ASSUME NEW p \in Procs, AnchorTip(p) PROVE Paid'
    BY <1>4, PaidQuiet DEF AnchorTip, Leave, Goto, anchorVars, histVars
  <1>5. ASSUME NEW p \in Procs, ReadTail(p) PROVE Paid'
    BY <1>5, PaidQuiet DEF ReadTail, Goto, anchorVars
  <1>6. ASSUME NEW p \in Procs, WriteText(p) PROVE Paid'
    BY <1>6, PaidQuiet DEF WriteText, Goto, anchorVars, histVars
  <1>7. ASSUME NEW p \in Procs, WriteFeed(p) PROVE Paid'
    BY <1>7, PaidQuiet DEF WriteFeed, Leave, Goto, anchorVars, histVars
  <1>8. ASSUME NEW p \in Procs, WritePart(p) \/ Crash(p) PROVE Paid'
    BY <1>8, PaidCrash DEF WritePart, Crash, anchorVars
  <1>9. ASSUME NEW p \in Procs, ChildEnds(p) PROVE Paid'
    BY <1>9, PaidQuiet DEF ChildEnds, Leave, Goto, anchorVars, histVars
  <1>10. CASE UNCHANGED vars
    BY <1>10 DEF vars, anchorVars, histVars, Paid, Owed, Unlinked, LinkOk, Linking
  <1> QED
    BY <1>1, <1>2, <1>3, <1>4, <1>5, <1>6, <1>7, <1>8, <1>9, <1>10, PaidMint, PaidLink
    DEF Next, Step, Mutate, Guard, AnchorCreate, AnchorKeygen

(***************************************************************************)
(* Every gap in the series of anchors is the mark of a process that died   *)
(* between the anchor file and last_anchor.                                *)
(***************************************************************************)
THEOREM GapsPaidByCrashes == Spec => []LinksPaid
  <1>1. Init => MintsLocked /\ Paid
    <2> SUFFICES ASSUME Init PROVE MintsLocked /\ Paid
      OBVIOUS
    <2>1. Unlinked = {} /\ ~Owed /\ crashes = 0
      BY DEF Init, Unlinked, Owed
    <2> QED
      BY <2>1, FS_EmptySet DEF Init, MintsLocked, AnchorSteps, Paid
  <1>2. Paid => LinksPaid
    BY DEF Paid, LinksPaid, Unlinked
  <1> QED
    BY <1>1, <1>2, AInvariant, MintsLockedStep, PaidStep, PTL DEF Spec, AInv
=============================================================================
