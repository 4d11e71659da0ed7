---------------------------- MODULE SurgicalProofs ----------------------------
(***************************************************************************)
(* Theorems about Surgical, for any number of paths, contents, actors and  *)
(* snapshots: what an undo of one actor leaves, keeps and equals.          *)
(***************************************************************************)
EXTENDS Surgical, WellFoundedInduction, TLAPS

(***************************************************************************)
(* The strengthening: while an undo is under way the chain it was computed *)
(* from stands still, and the worktree is what its passes so far make of   *)
(* the one it found.                                                       *)
(***************************************************************************)
Filled(p) == IF op.files[p] # Absent THEN op.files[p] ELSE op.pre[p]

Halfway ==
    op.pc # "idle" =>
        \E actor \in Actors :
            /\ op.actor = actor
            /\ op.files = SurgicalManifest(actor)
            /\ op.touched = Touched(actor)

Passes ==
    /\ op.pc = "remove" => \A p \in Paths : worktree[p] = Filled(p)
    /\ op.pc = "snap" => \A p \in Paths : worktree[p] = IF ActorOnly(p) THEN Absent ELSE Filled(p)

SInv == TypeOK /\ Halfway /\ Passes

-----------------------------------------------------------------------------
(* First and last positions.                                               *)

LEMMA SmallestPosition ==
    ASSUME NEW S, S \subseteq Nat, S # {}
    PROVE  \E i \in S : \A j \in S : i <= j
  <1>1. PICK x \in S : \A y \in S : ~(<<y, x>> \in OpToRel(<, Nat))
    BY NatLessThanWellFounded, WFMin
  <1>2. \A y \in S : x <= y
    <2> TAKE y \in S
    <2>1. x \in Nat /\ y \in Nat
      OBVIOUS
    <2>2. y < x => <<y, x>> \in OpToRel(<, Nat)
      BY <2>1 DEF OpToRel
    <2>3. ~(y < x)
      BY <1>1, <2>2, Zenon
    <2> QED
      BY <2>1, <2>3
  <1> QED
    BY <1>2

LEMMA LargestPosition ==
    ASSUME NEW n \in Nat, NEW S, S \subseteq 1..n, S # {}
    PROVE  \E i \in S : \A j \in S : j <= i
  <1> DEFINE T == {n - j : j \in S}
  <1>1. T \subseteq Nat
    OBVIOUS
  <1>2. T # {}
    <2>1. PICK j : j \in S
      OBVIOUS
    <2>2. n - j \in T
      BY <2>1
    <2> QED
      BY <2>2
  <1>3. \A j \in S : n - j \in T
    OBVIOUS
  <1>4. \A x \in T : \E j \in S : x = n - j
    OBVIOUS
  <1> HIDE DEF T
  <1>5. PICK x \in T : \A y \in T : x <= y
    BY <1>1, <1>2, SmallestPosition
  <1>6. PICK i \in S : x = n - i
    BY <1>4
  <1>7. \A j \in S : j <= i
    <2> TAKE j \in S
    <2>1. n - i <= n - j
      BY <1>3, <1>5, <1>6
    <2> QED
      BY <2>1
  <1> QED
    BY <1>7

LEMMA NewestIs ==
    ASSUME NEW n \in Nat, NEW S, S \subseteq 1..n, S # {}
    PROVE  /\ Newest(S) \in S /\ \A j \in S : j <= Newest(S)
           /\ \A k \in S : (\A j \in S : j <= k) => Newest(S) = k
  <1>1. PICK i \in S : \A j \in S : j <= i
    BY LargestPosition
  <1>2. Newest(S) \in S /\ \A j \in S : j <= Newest(S)
    BY <1>1 DEF Newest
  <1>3. \A k \in S : (\A j \in S : j <= k) => Newest(S) = k
    <2> SUFFICES ASSUME NEW k \in S, \A j \in S : j <= k PROVE Newest(S) = k
      OBVIOUS
    <2>0. S \subseteq Int
      OBVIOUS
    <2>1. Newest(S) <= k /\ k <= Newest(S) /\ Newest(S) \in Int /\ k \in Int
      BY <1>2, <2>0
    <2> QED
      BY <2>1
  <1> QED
    BY <1>2, <1>3

LEMMA OldestIs ==
    ASSUME NEW n \in Nat, NEW S, S \subseteq 1..n, S # {}
    PROVE  Oldest(S) \in S /\ \A j \in S : Oldest(S) <= j
  <1>0. S \subseteq Nat
    OBVIOUS
  <1>1. PICK i \in S : \A j \in S : i <= j
    BY <1>0, SmallestPosition
  <1> QED
    BY <1>1 DEF Oldest

-----------------------------------------------------------------------------
(* surgical_manifest.                                                      *)

(***************************************************************************)
(* A content that is in a snapshot came in at some position: it is         *)
(* recorded there, and not in the snapshot before.                         *)
(***************************************************************************)
LEMMA CameIn ==
    ASSUME TypeOK, NEW p \in Paths, NEW i \in Positions, Content(i, p) # Absent
    PROVE  \E k \in 1..i : /\ Content(k, p) = Content(i, p) /\ Changes(k, p)
                           /\ \A j \in 1..(k - 1) : Content(j, p) # Content(i, p)
  <1> DEFINE S == {k \in 1..i : Content(k, p) = Content(i, p)}
  <1>1. i \in Nat /\ i \in 1..i /\ Len(chain) \in Nat /\ i <= Len(chain)
    BY DEF TypeOK, Positions
  <1>2. S \subseteq Nat /\ S # {}
    BY <1>1
  <1>3. PICK k \in S : \A j \in S : k <= j
    BY <1>2, SmallestPosition
  <1>4. k \in 1..i /\ Content(k, p) = Content(i, p)
    BY <1>3
  <1>5. \A j \in 1..(k - 1) : Content(j, p) # Content(i, p)
    <2> SUFFICES ASSUME NEW j \in 1..(k - 1), Content(j, p) = Content(i, p) PROVE FALSE
      OBVIOUS
    <2>1. j \in S
      BY <1>1, <1>4
    <2>2. k <= j
      BY <1>3, <2>1
    <2> QED
      BY <1>1, <1>4, <2>2
  <1>6. Changes(k, p)
    <2>1. CASE k = 1
      BY <1>4, <2>1 DEF Changes, Before
    <2>2. CASE k # 1
      <3>1. k - 1 \in 1..(k - 1)
        BY <1>1, <1>4, <2>2
      <3> QED
        BY <1>4, <1>5, <2>2, <3>1 DEF Changes, Before
    <2> QED
      BY <2>1, <2>2
  <1> QED
    BY <1>4, <1>5, <1>6

(***************************************************************************)
(* If no content of others counts, there was no file before the actor's    *)
(* first touch: a file would have come in by somebody else.                *)
(***************************************************************************)
LEMMA NothingBefore ==
    ASSUME TypeOK, NEW actor, NEW p \in Touched(actor), Candidates(actor, p) = {}
    PROVE  Resolve(actor, p) = Absent
  <1> DEFINE S == {i \in Positions : By(i, actor) /\ Changes(i, p)}
             f == FirstTouch(actor, p)
  <1>1. Len(chain) \in Nat /\ S \subseteq 1..Len(chain) /\ S # {} /\ p \in Paths
    BY DEF TypeOK, Touched, Positions
  <1>2. f \in S /\ \A j \in S : f <= j
    BY <1>1, OldestIs DEF FirstTouch
  <1>3. f \in 1..Len(chain)
    BY <1>1, <1>2
  <1> HIDE DEF f
  <1>4. Resolve(actor, p) = Before(f, p)
    BY DEF Resolve, f
  <1>5. CASE f = 1
    BY <1>4, <1>5 DEF Before
  <1>6. CASE f # 1
    <2> SUFFICES ASSUME Content(f - 1, p) # Absent PROVE FALSE
      BY <1>4, <1>6 DEF Before
    <2>1. f - 1 \in Positions /\ f - 1 \in Nat
      BY <1>1, <1>3, <1>6 DEF Positions
    <2>2. PICK k \in 1..(f - 1) :
              /\ Content(k, p) = Content(f - 1, p) /\ Changes(k, p)
              /\ \A j \in 1..(k - 1) : Content(j, p) # Content(f - 1, p)
      BY <1>1, <2>1, CameIn
    <2>3. k \in Positions /\ k \in 1..k /\ k < f
      BY <1>1, <1>3, <2>2 DEF Positions
    <2>4. ~By(k, actor)
      <3> SUFFICES ASSUME By(k, actor) PROVE FALSE
        OBVIOUS
      <3>1. k \in S
        BY <2>2, <2>3
      <3>2. f <= k
        BY <1>2, <3>1
      <3> QED
        BY <1>3, <2>3, <3>2 DEF Positions
    <2>5. ~ActorBytes(actor, p, k)
      <3> SUFFICES ASSUME NEW j \in 1..k, By(j, actor), Content(j, p) = Content(k, p) PROVE FALSE
        BY DEF ActorBytes
      <3>1. j = k \/ j \in 1..(k - 1)
        BY <1>1, <2>3 DEF Positions
      <3> QED
        BY <2>2, <2>4, <3>1
    <2>6. k \in Candidates(actor, p)
      BY <2>2, <2>3, <2>4, <2>5 DEF Candidates
    <2> QED
      BY <2>6
  <1> QED
    BY <1>5, <1>6

(***************************************************************************)
(* The newest content of others that counts.                               *)
(***************************************************************************)
LEMMA NewestCandidate ==
    ASSUME TypeOK, NEW actor, NEW p \in Paths, Candidates(actor, p) # {}
    PROVE  \E i \in Candidates(actor, p) :
              /\ Resolve(actor, p) = Content(i, p)
              /\ \A j \in Candidates(actor, p) : j <= i
  <1>1. Len(chain) \in Nat /\ Candidates(actor, p) \subseteq 1..Len(chain)
    BY DEF TypeOK, Candidates, Positions
  <1>2. /\ Newest(Candidates(actor, p)) \in Candidates(actor, p)
        /\ \A j \in Candidates(actor, p) : j <= Newest(Candidates(actor, p))
    BY <1>1, NewestIs
  <1> QED
    BY <1>2 DEF Resolve

(***************************************************************************)
(* If all that others changed counts, the newest of it is what the newest  *)
(* content that counts goes back to.                                       *)
(***************************************************************************)
LEMMA ResolveIsReplay ==
    ASSUME TypeOK, NEW actor, NEW p \in Touched(actor),
           \A i \in OthersChanges(actor, p) : Content(i, p) # Absent /\ ~ActorBytes(actor, p, i)
    PROVE  Resolve(actor, p) = Replayed(actor, p)
  <1> DEFINE OC == OthersChanges(actor, p)
             CA == Candidates(actor, p)
  <1>1. Len(chain) \in Nat /\ OC \subseteq 1..Len(chain) /\ OC \subseteq CA /\ p \in Paths
        /\ CA \subseteq 1..Len(chain)
    BY DEF TypeOK, Touched, OthersChanges, Candidates, Positions
  <1>a. OC # {} => Replayed(actor, p) = Content(Newest(OC), p)
    BY DEF Replayed, Newest
  <1>2. CASE CA = {}
    <2>1. OC = {}
      BY <1>1, <1>2
    <2>2. Replayed(actor, p) = Absent
      BY <2>1 DEF Replayed
    <2> QED
      BY <1>2, <2>2, NothingBefore
  <1>3. CASE CA # {}
    <2>1. PICK i \in CA : Resolve(actor, p) = Content(i, p) /\ \A j \in CA : j <= i
      BY <1>1, <1>3, NewestCandidate
    <2>2. i \in Positions /\ Content(i, p) # Absent /\ ~ActorBytes(actor, p, i)
      BY <2>1 DEF Candidates
    <2>3. i \in 1..Len(chain)
      BY <2>2 DEF Positions
    \* the last position up to i with another content, and the one after it
    <2> DEFINE D == {m \in 1..i : Content(m, p) # Content(i, p)}
    <2>4. PICK k \in 1..i : /\ \A j \in k..i : Content(j, p) = Content(i, p)
                            /\ k = 1 \/ Content(k - 1, p) # Content(i, p)
      <3>1. CASE D = {}
        <4>1. 1 \in 1..i /\ \A j \in 1..i : Content(j, p) = Content(i, p)
          BY <1>1, <2>3, <3>1
        <4> QED
          BY <4>1
      <3>2. CASE D # {}
        <4>1. i \in Nat /\ D \subseteq 1..i
          BY <1>1, <2>3
        <4>2. PICK m \in D : \A j \in D : j <= m
          BY <3>2, <4>1, LargestPosition
        <4>3. m \in 1..i /\ Content(m, p) # Content(i, p) /\ m # i
          BY <4>2
        <4>4. m + 1 \in 1..i /\ (m + 1) - 1 = m
          BY <4>1, <4>3
        <4>5. \A j \in (m + 1)..i : Content(j, p) = Content(i, p)
          <5> SUFFICES ASSUME NEW j \in (m + 1)..i, Content(j, p) # Content(i, p) PROVE FALSE
            OBVIOUS
          <5>1. j \in D
            BY <4>1, <4>3
          <5>2. j <= m
            BY <4>2, <5>1
          <5> QED
            BY <4>1, <4>3, <5>2
        <4> QED
          BY <4>3, <4>4, <4>5
      <3> QED
        BY <3>1, <3>2
    <2>5. k \in Positions /\ Content(k, p) = Content(i, p) /\ k \in Nat /\ i \in Nat
      BY <1>1, <2>3, <2>4 DEF Positions
    <2>6. Changes(k, p)
      BY <2>2, <2>4, <2>5 DEF Changes, Before
    <2>7. ~By(k, actor)
      BY <2>2, <2>4, <2>5 DEF ActorBytes
    <2>8. k \in OC
      BY <2>5, <2>6, <2>7 DEF OthersChanges
    <2>9. \A j \in OC : j <= k
      <3> SUFFICES ASSUME NEW j \in OC, k < j PROVE FALSE
        BY <1>1, <2>5
      <3>1. j <= i /\ j \in Nat
        BY <1>1, <2>1
      <3>2. j \in k..i /\ j - 1 \in k..i /\ j # 1
        BY <2>4, <2>5, <3>1
      <3>3. Content(j, p) = Content(j - 1, p)
        BY <2>4, <3>2
      <3> QED
        BY <3>2, <3>3 DEF OthersChanges, Changes, Before
    <2>10. Newest(OC) = k
      BY <1>1, <2>8, <2>9, NewestIs
    <2> QED
      BY <1>a, <2>1, <2>5, <2>8, <2>10
  <1> QED
    BY <1>2, <1>3

-----------------------------------------------------------------------------
(* The invariant.                                                          *)

LEMMA ElementOfSeq ==
    ASSUME NEW S, NEW f \in Seq(S), NEW i \in 1..Len(f)
    PROVE  f[i] \in S
  OBVIOUS

LEMMA ResolveType ==
    ASSUME TypeOK, NEW actor, NEW p \in Touched(actor)
    PROVE  Resolve(actor, p) \in Contents \cup {Absent}
  <1>1. p \in Paths
    BY DEF Touched
  <1>2. \A i \in Positions : Content(i, p) \in Contents \cup {Absent}
    <2> SUFFICES ASSUME NEW i \in Positions PROVE Content(i, p) \in Contents \cup {Absent}
      OBVIOUS
    <2>1. chain[i] \in [actor : Actors \cup {NoActor}, files : Files]
      BY ElementOfSeq, Zenon DEF TypeOK, Positions
    <2>2. chain[i].files \in Files
      BY <2>1
    <2> QED
      BY <1>1, <2>2 DEF Content, Files
  <1>3. CASE Candidates(actor, p) = {}
    BY <1>3, NothingBefore
  <1>4. CASE Candidates(actor, p) # {}
    BY <1>1, <1>2, <1>4, NewestCandidate DEF Candidates
  <1> QED
    BY <1>3, <1>4

LEMMA HeadType == TypeOK => HeadFiles \in Files
  <1> SUFFICES ASSUME TypeOK PROVE HeadFiles \in Files
    OBVIOUS
  <1>1. CASE chain = <<>>
    BY <1>1 DEF HeadFiles, NoFile, Files
  <1>2. CASE chain # <<>>
    <2>1. Len(chain) \in 1..Len(chain)
      BY <1>2 DEF TypeOK
    <2>2. chain[Len(chain)] \in [actor : Actors \cup {NoActor}, files : Files]
      BY <2>1, ElementOfSeq, Zenon DEF TypeOK
    <2> QED
      BY <1>2, <2>2 DEF HeadFiles
  <1> QED
    BY <1>1, <1>2

LEMMA ManifestType ==
    ASSUME TypeOK, NEW actor
    PROVE  SurgicalManifest(actor) \in Files
  BY ResolveType, HeadType DEF SurgicalManifest, Files

LEMMA IdleType ==
    Idle \in [pc : {"idle", "remove", "snap"}, actor : Actors \cup {NoActor},
              files : Files, touched : SUBSET Paths, pre : Files] /\ Idle.pc = "idle"
  <1>1. NoFile \in Files
    BY DEF NoFile, Files
  <1> QED
    BY <1>1 DEF Idle

(***************************************************************************)
(* A step outside an undo, or that ends one.                               *)
(***************************************************************************)
LEMMA IdleStep ==
    ASSUME TypeOK, op'.pc = "idle",
           op' \in [pc : {"idle", "remove", "snap"}, actor : Actors \cup {NoActor},
                    files : Files, touched : SUBSET Paths, pre : Files],
           worktree' \in Files,
           chain' \in Seq([actor : Actors \cup {NoActor}, files : Files])
    PROVE  SInv'
  BY DEF SInv, TypeOK, Halfway, Passes

LEMMA AppendType ==
    ASSUME TypeOK, NEW actor \in Actors \cup {NoActor},
           chain' = Append(chain, [actor |-> actor, files |-> worktree])
    PROVE  chain' \in Seq([actor : Actors \cup {NoActor}, files : Files])
  <1>1. [actor |-> actor, files |-> worktree] \in [actor : Actors \cup {NoActor}, files : Files]
    BY DEF TypeOK
  <1> QED
    BY <1>1 DEF TypeOK

(***************************************************************************)
(* The manifest and the touched paths are those of the chain.              *)
(***************************************************************************)
LEMMA ManifestKept ==
    ASSUME chain' = chain
    PROVE  \A actor : SurgicalManifest(actor)' = SurgicalManifest(actor)
                      /\ Touched(actor)' = Touched(actor)
  BY DEF SurgicalManifest, Touched, Resolve, Candidates, ActorBytes, FirstTouch, HeadFiles,
         Positions, By, Changes, Content, Before

LEMMA UndoApplyStep ==
    ASSUME SInv, NEW actor \in Actors, NEW force, UndoApply(actor, force)
    PROVE  SInv'
  <1> DEFINE files == SurgicalManifest(actor)
             t == Touched(actor)
  <1>1. TypeOK /\ files \in Files /\ t \in SUBSET Paths /\ t # {}
    BY ManifestType DEF SInv, UndoApply, KnownActor, Touched
  <1>2. /\ worktree' = [p \in Paths |-> IF files[p] # Absent THEN files[p] ELSE worktree[p]]
        /\ op' = [pc |-> "remove", actor |-> actor, files |-> files, touched |-> t,
                  pre |-> worktree]
        /\ chain' = chain
    BY DEF UndoApply
  <1>4. SurgicalManifest(actor)' = files /\ Touched(actor)' = t
    BY <1>2, ManifestKept
  <1> HIDE DEF files, t
  <1>5. worktree' \in Files
    BY <1>1, <1>2 DEF TypeOK, Files
  <1>6. op' \in [pc : {"idle", "remove", "snap"}, actor : Actors \cup {NoActor},
                 files : Files, touched : SUBSET Paths, pre : Files]
    BY <1>1, <1>2 DEF TypeOK
  <1>7. op'.pc = "remove" /\ op'.actor = actor /\ op'.files = files /\ op'.touched = t
        /\ op'.pre = worktree
    BY <1>2
  <1>8. TypeOK'
    BY <1>1, <1>2, <1>5, <1>6, <1>7 DEF TypeOK
  <1>9. Halfway'
    BY <1>4, <1>7 DEF Halfway
  <1>10. Passes'
    BY <1>2, <1>7 DEF Passes, Filled
  <1> QED
    BY <1>8, <1>9, <1>10 DEF SInv

LEMMA UndoRemoveStep ==
    ASSUME SInv, UndoRemove
    PROVE  SInv'
  <1>a. TypeOK /\ Halfway /\ Passes
    BY DEF SInv
  <1>1. /\ op.pc = "remove" /\ op' = [op EXCEPT !.pc = "snap"] /\ chain' = chain
        /\ worktree' = [p \in Paths |-> IF ActorOnly(p) THEN Absent ELSE worktree[p]]
    BY DEF UndoRemove
  <1>2. op' \in [pc : {"idle", "remove", "snap"}, actor : Actors \cup {NoActor},
                 files : Files, touched : SUBSET Paths, pre : Files]
    BY <1>a, <1>1 DEF TypeOK
  <1>3. op'.pc = "snap" /\ op'.actor = op.actor /\ op'.files = op.files
        /\ op'.touched = op.touched /\ op'.pre = op.pre
    BY <1>a, <1>1 DEF TypeOK
  <1>4. worktree' \in Files
    BY <1>a, <1>1 DEF TypeOK, Files
  <1>5. TypeOK'
    BY <1>a, <1>1, <1>2, <1>3, <1>4 DEF TypeOK
  <1>7. Halfway'
    <2>1. PICK actor \in Actors :
              /\ op.actor = actor /\ op.files = SurgicalManifest(actor)
              /\ op.touched = Touched(actor)
      BY <1>a, <1>1 DEF Halfway
    <2>2. SurgicalManifest(actor)' = op.files /\ Touched(actor)' = op.touched
      BY <1>1, <2>1, ManifestKept
    <2> QED
      BY <1>3, <2>1, <2>2 DEF Halfway
  <1>8. Passes'
    BY <1>a, <1>1, <1>3 DEF Passes, Filled, ActorOnly
  <1> QED
    BY <1>5, <1>7, <1>8 DEF SInv

LEMMA SInvStep == SInv /\ [Next]_vars => SInv'
  <1> SUFFICES ASSUME SInv, [Next]_vars PROVE SInv'
    OBVIOUS
  <1>a. TypeOK
    BY DEF SInv
  <1>1. CASE UndoSnap
    BY <1>a, <1>1, IdleType, IdleStep, AppendType DEF UndoSnap, TypeOK
  <1>2. CASE Crash
    BY <1>a, <1>2, IdleType, IdleStep DEF Crash, TypeOK
  <1>3. ASSUME NEW actor \in Actors \cup {NoActor}, Snap(actor) PROVE SInv'
    BY <1>a, <1>3, IdleStep, AppendType DEF Snap, TypeOK
  <1>4. ASSUME NEW p \in Paths, NEW c \in Contents \cup {Absent}, Edit(p, c) PROVE SInv'
    <2>1. worktree' \in Files
      BY <1>a, <1>4 DEF Edit, TypeOK, Files
    <2> QED
      BY <1>a, <1>4, <2>1, IdleStep DEF Edit, TypeOK
  <1>5. CASE UNCHANGED vars
    <2>1. TypeOK' /\ Passes'
      BY <1>5 DEF vars, SInv, TypeOK, Passes, Filled, ActorOnly
    <2>2. ASSUME op.pc # "idle" PROVE Halfway'
      <3>1. PICK actor \in Actors :
                /\ op.actor = actor /\ op.files = SurgicalManifest(actor)
                /\ op.touched = Touched(actor)
        BY <2>2 DEF SInv, Halfway
      <3>2. SurgicalManifest(actor)' = op.files /\ Touched(actor)' = op.touched
        BY <1>5, <3>1, ManifestKept DEF vars
      <3> QED
        BY <1>5, <3>1, <3>2 DEF Halfway, vars
    <2>3. op.pc = "idle" => Halfway'
      BY <1>5 DEF vars, Halfway
    <2> QED
      BY <2>1, <2>2, <2>3 DEF SInv
  <1> QED
    BY <1>1, <1>2, <1>3, <1>4, <1>5, UndoApplyStep, UndoRemoveStep DEF Next

LEMMA SInvHolds == Spec => []SInv
  <1>1. Init => SInv
    <2> SUFFICES ASSUME Init PROVE SInv
      OBVIOUS
    <2>1. NoFile \in Files
      BY DEF NoFile, Files
    <2> QED
      BY <2>1, IdleType DEF Init, SInv, TypeOK, Halfway, Passes
  <1> QED
    BY <1>1, SInvStep, PTL DEF Spec

-----------------------------------------------------------------------------
(* The theorems.                                                           *)

(***************************************************************************)
(* What an undo makes of a path.                                           *)
(***************************************************************************)
LEMMA UndoneFiles ==
    ASSUME SInv, Undone, NEW p \in Paths
    PROVE  /\ p \in op.touched => p \in Touched(op.actor) /\ worktree[p] = Resolve(op.actor, p)
           /\ p \notin op.touched =>
                 worktree[p] = IF HeadFiles[p] = Absent THEN op.pre[p] ELSE HeadFiles[p]
  <1>1. /\ worktree[p] = (IF ActorOnly(p) THEN Absent ELSE Filled(p))
        /\ op.files = SurgicalManifest(op.actor) /\ op.touched = Touched(op.actor)
    BY DEF SInv, Undone, Passes, Halfway
  <1>2. op.files[p] = IF p \in op.touched THEN Resolve(op.actor, p) ELSE HeadFiles[p]
    BY <1>1 DEF SurgicalManifest
  <1> QED
    BY <1>1, <1>2 DEF ActorOnly, Filled

(***************************************************************************)
(* Paths the actor never touched are as HEAD has them, and a file HEAD     *)
(* does not have is left as it was (revert.rs, keep_extra).                *)
(***************************************************************************)
THEOREM UndoKeepsOthers == Spec => [](TypeOK /\ OthersKept)
  <1>1. SInv => TypeOK /\ OthersKept
    BY UndoneFiles DEF SInv, OthersKept
  <1> QED
    BY <1>1, SInvHolds, PTL

(***************************************************************************)
(* After an undo a path the actor touched has no file, or one another had  *)
(* recorded before any snapshot of the actor had it.                       *)
(***************************************************************************)
THEOREM UndoRemovesActor == Spec => []ActorGone
  <1>1. SInv => ActorGone
    <2> SUFFICES ASSUME SInv, Undone, NEW p \in op.touched, worktree[p] # Absent
                 PROVE  \E i \in Positions :
                           /\ ~By(i, op.actor)
                           /\ Content(i, p) = worktree[p]
                           /\ \A j \in 1..i : By(j, op.actor) => Content(j, p) # worktree[p]
      BY DEF ActorGone
    <2>1. TypeOK /\ p \in Paths
      BY DEF SInv, TypeOK
    <2>2. p \in Touched(op.actor) /\ worktree[p] = Resolve(op.actor, p)
      BY <2>1, UndoneFiles
    <2>3. Candidates(op.actor, p) # {}
      BY <2>1, <2>2, NothingBefore
    <2>4. PICK i \in Candidates(op.actor, p) : Resolve(op.actor, p) = Content(i, p)
      BY <2>1, <2>3, NewestCandidate
    <2> QED
      BY <2>2, <2>4 DEF Candidates, ActorBytes
  <1> QED
    BY <1>1, SInvHolds, PTL

(***************************************************************************)
(* Where others neither deleted the path nor went back to a content of the *)
(* actor's snapshots, the undo is the history replayed without the actor.  *)
(***************************************************************************)
THEOREM UndoReplaysOthers == Spec => []UndoIsReplay
  <1>1. SInv => UndoIsReplay
    <2> SUFFICES ASSUME SInv, Undone, NEW p \in op.touched,
                        \A i \in OthersChanges(op.actor, p) :
                            Content(i, p) # Absent /\ ~ActorBytes(op.actor, p, i)
                 PROVE  worktree[p] = Replayed(op.actor, p)
      BY DEF UndoIsReplay
    <2>1. TypeOK /\ p \in Paths
      BY DEF SInv, TypeOK
    <2> QED
      BY <2>1, UndoneFiles, ResolveIsReplay
  <1> QED
    BY <1>1, SInvHolds, PTL
=============================================================================
