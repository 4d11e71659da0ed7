----------------------------- MODULE FabricProofs -----------------------------
(***************************************************************************)
(* Proofs about Fabric, for every set of paths, contents, chunks, ignored  *)
(* paths and commands, every chunking and every bound.                     *)
(***************************************************************************)
EXTENDS Fabric, TLAPS

(***************************************************************************)
(* What a command in flight refers to exists: the snapshot it created or   *)
(* applies, the HEAD a guard goes back to, and the path and content a      *)
(* purge is after.                                                         *)
(***************************************************************************)
OpTargets ==
    /\ op.pc \in {"head", "spawn", "child", "write", "remove", "swap"} => op.id \in Ids
    /\ op.prev \in 0..Len(manifests)
    /\ op.pc \in {"sweep", "feed", "unlink", "sign"} =>
          op.path \in Paths /\ op.content \in Contents

TInv == TypeOK /\ HistoryClosed /\ OpTargets

-----------------------------------------------------------------------------
(* Facts about the operators.                                              *)

LEMMA IdleType == Idle \in OpType /\ NoFile \in Files
<1>1. NoFile \in Files
  BY DEF NoFile, Files
<1> QED
  BY <1>1 DEF Idle, OpType, PCs, Policies

LEMMA ElementOfSeq ==
    ASSUME NEW S, NEW f \in Seq(S), NEW i \in 1..Len(f)
    PROVE  f[i] \in S
  OBVIOUS

LEMMA ManifestType ==
    ASSUME manifests \in Seq(Manifest), NEW i \in Ids
    PROVE  manifests[i].files \in Files /\ manifests[i].parent \in Nat
<1>1. manifests[i] \in Manifest
  BY ElementOfSeq DEF Ids
<1> QED
  BY <1>1 DEF Manifest

LEMMA ApplyingType ==
    ASSUME NEW o \in OpType
    PROVE  Applying(o) \in OpType
<1>1. Removing(o) \in OpType
  BY DEF Removing, OpType, PCs
<1>2. Writing(o) \in OpType
  <2>1. Wanted(o.files) \subseteq Paths
    BY DEF Wanted
  <2>2. [o EXCEPT !.pc = "write", !.todo = Wanted(o.files)] \in OpType
    BY <2>1 DEF OpType, PCs
  <2> QED
    BY <1>1, <2>2 DEF Writing
<1> QED
  BY <1>2, IdleType DEF Applying

-----------------------------------------------------------------------------
(* Types.                                                                  *)

LEMMA TypeInit == Init => TInv
<1> SUFFICES ASSUME Init PROVE TInv
  OBVIOUS
<1>1. TypeOK
  <2>1. manifests \in Seq(Manifest)
    BY DEF Init
  <2> QED
    BY <2>1, IdleType DEF Init, TypeOK
<1>2. HistoryClosed /\ OpTargets
  BY DEF Init, HistoryClosed, OpTargets, Ids, Idle
<1> QED
  BY <1>1, <1>2 DEF TInv

(***************************************************************************)
(* The type of the command in flight, one step per action.                 *)
(***************************************************************************)
LEMMA OpTypeStep ==
    ASSUME TInv, Next
    PROVE  op' \in OpType
<1> USE DEF TInv
<1>0. /\ op \in OpType /\ worktree \in Files /\ head \in Nat /\ objects \subseteq Chunks
      /\ manifests \in Seq(Manifest)
  BY DEF TypeOK
<1>a. \A pc \in PCs : [op EXCEPT !.pc = pc] \in OpType
  BY <1>0 DEF OpType
<1>b. \A pc \in PCs : Goto(pc) \in OpType
  BY <1>a DEF Goto
<1>1. CASE SnapBegin \/ \E policy \in Policies : GuardBegin(policy)
  <2>1. ASSUME NEW cmd \in {"snap", "guard"}, NEW policy \in Policies
        PROVE  Scanning(cmd, policy) \in OpType
    BY <1>0, IdleType DEF Scanning, OpType, PCs
  <2> QED
    BY <1>1, <2>1 DEF SnapBegin, GuardBegin, Policies
<1>2. ASSUME NEW id \in Ids, NEW keep \in BOOLEAN, NEW force \in BOOLEAN,
             RevertBegin(id, keep, force)
      PROVE  op' \in OpType
  <2>1. manifests[id].files \in Files /\ id \in Nat
    BY <1>0, ManifestType DEF Ids
  <2>2. [Idle EXCEPT !.cmd = "revert", !.id = id, !.keep = keep, !.force = force,
                     !.files = manifests[id].files, !.prev = head, !.pre = worktree] \in OpType
    BY <1>0, <2>1, IdleType DEF OpType
  <2> QED
    BY <1>2, <2>2, ApplyingType DEF RevertBegin
<1>3. ASSUME NEW p \in Paths, PurgeBegin(p) PROVE op' \in OpType
  <2>1. PICK c \in PurgeContent(p) :
          op' = [Idle EXCEPT !.pc = "sweep", !.cmd = "purge", !.path = p, !.content = c,
                             !.pre = worktree, !.sweep = PurgeChunks(p) \ ElsewhereChunks(p)]
    BY <1>3 DEF PurgeBegin
  <2>2. c \in Contents
    <3>1. \A i \in EntriesOf(p) : manifests[i].files \in Files
      BY <1>0, ManifestType DEF EntriesOf
    <3> QED
      BY <1>0, <3>1 DEF PurgeContent, Files, EntriesOf
  <2>3. PurgeChunks(p) \subseteq Chunks
    <3>1. \A i \in Ids : ChunksAt(manifests[i].files, p) \subseteq Chunks
      BY <1>0, ManifestType, ContentAssumption DEF ChunksAt, Files
    <3> QED
      BY <3>1 DEF PurgeChunks
  <2>4. p \in Nat
    BY PathsAssumption
  <2> QED
    BY <1>0, <2>1, <2>2, <2>3, <2>4, IdleType DEF OpType, PCs
<1>4. CASE Keygen
  BY <1>4, IdleType DEF Keygen, OpType, PCs
<1>5. ASSUME NEW p \in Paths, ScanPath(p) PROVE op' \in OpType
  <2>1. ~Skipped(p) => [op.files EXCEPT ![p] = EntryFor(worktree[p])] \in Files
    BY <1>0 DEF Files, OpType, EntryFor
  <2> DEFINE f == IF Skipped(p) THEN op.files ELSE [op.files EXCEPT ![p] = EntryFor(worktree[p])]
             l == IF op.todo = {p} THEN "manifest" ELSE op.pc
  <2>2. f \in Files /\ l \in PCs
    BY <1>0, <2>1 DEF OpType, PCs
  <2>3. op' = [op EXCEPT !.todo = @ \ {p}, !.files = f, !.pc = l]
    BY <1>5 DEF ScanPath
  <2> HIDE DEF f, l
  <2> QED
    BY <1>0, <2>2, <2>3 DEF OpType
<1>6. CASE PutManifest
  <2>1. PICK id \in Nat : op' = [op EXCEPT !.pc = "head", !.id = id]
    <3>1. Len(manifests) + 1 \in Nat /\ Ids \subseteq Nat
      BY <1>0 DEF Ids
    <3> QED
      BY <1>6, <3>1 DEF PutManifest
  <2> QED
    BY <1>0, <2>1 DEF OpType, PCs
<1>7. CASE CreateSetHead \/ SwapHead \/ Spawn \/ Tombstone \/ TombstoneFeed \/ UnlinkLive
  BY <1>7, <1>b DEF CreateSetHead, SwapHead, Spawn, Tombstone, TombstoneFeed, UnlinkLive, PCs
<1>8. CASE SpawnFails \/ Record \/ Crash \/ Sign
  BY <1>8, <1>b, IdleType DEF SpawnFails, Record, Crash, Sign, PCs
<1>9. ASSUME NEW p \in Paths, WriteFile(p) \/ WriteFails(p) PROVE op' \in OpType
  <2>1. Removing(op) \in OpType
    BY <1>0 DEF Removing, OpType, PCs
  <2>2. [op EXCEPT !.todo = @ \ {p}] \in OpType
    BY <1>0 DEF OpType
  <2> QED
    BY <1>9, <2>1, <2>2, IdleType DEF WriteFile, WriteFails
<1>10. ASSUME NEW p \in Paths, RemoveFile(p) PROVE op' \in OpType
  BY <1>0, <1>10 DEF RemoveFile, OpType, PCs
<1>11. ASSUME NEW failed \in BOOLEAN, ChildExit(failed) PROVE op' \in OpType
  <2>1. manifests[op.id].files \in Files
    BY <1>0, <1>11, ManifestType DEF ChildExit, OpTargets
  <2>2. [op EXCEPT !.files = manifests[op.id].files] \in OpType
    BY <1>0, <2>1 DEF OpType
  <2> QED
    BY <1>11, <1>b, <2>2, ApplyingType DEF ChildExit, PCs
<1>12. ASSUME NEW ch \in Chunks, SweepChunk(ch) PROVE op' \in OpType
  BY <1>0, <1>12 DEF SweepChunk, OpType
<1>13. ASSUME NEW p \in Paths, NEW c \in Contents \cup {Absent}, Edit(p, c) PROVE op' \in OpType
  BY <1>0, <1>13 DEF Edit, OpType
<1> QED
  BY <1>1, <1>2, <1>3, <1>4, <1>5, <1>6, <1>7, <1>8, <1>9, <1>10, <1>11, <1>12, <1>13
     DEF Next, Begin, Step

(***************************************************************************)
(* What a step of a command does to the snapshot graph: nothing, or it     *)
(* appends a manifest on top of HEAD, or it moves HEAD to one that exists. *)
(***************************************************************************)
LEMMA GraphStep ==
    ASSUME TInv, Next
    PROVE  \/ UNCHANGED <<manifests, head>>
           \/ /\ manifests' = Append(manifests, NewManifest)
              /\ head' = head /\ op.pc = "manifest"
              /\ op' = [op EXCEPT !.pc = "head", !.id = Len(manifests) + 1]
           \/ manifests' = manifests /\ head' \in 0..Len(manifests)
<1> USE DEF TInv, storeVars
<1>1. CASE SnapBegin \/ Keygen \/ (\E policy \in Policies : GuardBegin(policy))
  BY <1>1 DEF SnapBegin, Keygen, GuardBegin
<1>2. CASE (\E id \in Ids, keep, force \in BOOLEAN : RevertBegin(id, keep, force))
           \/ (\E p \in Paths : PurgeBegin(p))
  BY <1>2 DEF RevertBegin, PurgeBegin
<1>3. CASE \E p \in Paths : ScanPath(p) \/ WriteFile(p) \/ WriteFails(p) \/ RemoveFile(p)
  BY <1>3 DEF ScanPath, WriteFile, WriteFails, RemoveFile
<1>4. CASE PutManifest
  BY <1>4 DEF PutManifest
<1>5. CASE CreateSetHead \/ SwapHead
  BY <1>5 DEF CreateSetHead, SwapHead, OpTargets, Ids
<1>6. CASE SpawnFails
  BY <1>6 DEF SpawnFails, OpTargets
<1>7. CASE Spawn \/ Tombstone \/ TombstoneFeed \/ UnlinkLive \/ Sign \/ Record \/ Crash
  BY <1>7 DEF Spawn, Tombstone, TombstoneFeed, UnlinkLive, Sign, Record, Crash
<1>8. CASE (\E ch \in Chunks : SweepChunk(ch)) \/ (\E failed \in BOOLEAN : ChildExit(failed))
           \/ (\E p \in Paths, c \in Contents \cup {Absent} : Edit(p, c))
  BY <1>8 DEF SweepChunk, ChildExit, Edit
<1> QED
  BY <1>1, <1>2, <1>3, <1>4, <1>5, <1>6, <1>7, <1>8 DEF Next, Begin, Step

LEMMA AppendedManifests ==
    ASSUME TypeOK
    PROVE  LET m == Append(manifests, NewManifest)
           IN  /\ m \in Seq(Manifest)
               /\ Len(m) = Len(manifests) + 1
               /\ m[Len(manifests) + 1] = NewManifest
               /\ \A i \in Ids : m[i] = manifests[i]
<1>1. manifests \in Seq(Manifest) /\ head \in Nat /\ op \in OpType
  BY DEF TypeOK
<1>2. op.files \in Files
  BY <1>1 DEF OpType
<1>3. NewManifest \in Manifest
  BY <1>1, <1>2 DEF NewManifest, Manifest
<1> QED
  BY <1>1, <1>3 DEF Ids

(***************************************************************************)
(* The variables other than the command in flight.                         *)
(***************************************************************************)
LEMMA TypeStep ==
    ASSUME TInv, Next
    PROVE  TypeOK'
<1> USE DEF TInv, storeVars, purgeVars, histVars
<1>0. op \in OpType /\ op' \in OpType
  BY OpTypeStep DEF TypeOK
<1>1. manifests' \in Seq(Manifest) /\ head' \in Nat
  <2>1. manifests \in Seq(Manifest) /\ head \in Nat /\ 0..Len(manifests) \subseteq Nat
    BY DEF TypeOK
  <2> QED
    BY <2>1, GraphStep, AppendedManifests
<1>2. worktree' \in Files /\ edits' \in Nat /\ crashes' \in Nat
  <2>1. worktree \in Files /\ edits \in Nat /\ crashes \in Nat
    BY DEF TypeOK
  <2>2. \A p, c : c \in Contents \cup {Absent} => [worktree EXCEPT ![p] = c] \in Files
    BY <2>1 DEF Files
  <2>3. ASSUME NEW p \in Paths, WriteFile(p) PROVE worktree' \in Files
    BY <1>0, <2>1, <2>2, <2>3 DEF WriteFile, OpType, Files
  <2>4. ASSUME NEW p \in Paths, RemoveFile(p) PROVE worktree' \in Files
    BY <2>1, <2>2, <2>4 DEF RemoveFile
  <2>5. CASE UnlinkLive
    BY <2>1, <2>2, <2>5 DEF UnlinkLive
  <2>6. ASSUME NEW p \in Paths, NEW c \in Contents \cup {Absent}, Edit(p, c)
        PROVE  worktree' \in Files /\ edits' \in Nat /\ crashes' \in Nat
    <3>1. worktree' = [worktree EXCEPT ![p] = c] /\ edits' = edits + 1 /\ crashes' = crashes
      BY <2>6, Zenon DEF Edit
    <3>2. worktree' \in Files
      BY <2>2, <3>1, Zenon
    <3> QED
      BY <2>1, <3>1, <3>2
  <2>7. CASE Crash
    BY <2>1, <2>7 DEF Crash
  <2> QED
    BY <2>1, <2>3, <2>4, <2>5, <2>6, <2>7
       DEF Next, Begin, Step, SnapBegin, GuardBegin, RevertBegin, PurgeBegin, Keygen, ScanPath,
           WriteFile, WriteFails, RemoveFile, PutManifest, CreateSetHead, SwapHead, SpawnFails,
           Spawn, SweepChunk, Tombstone, TombstoneFeed, UnlinkLive, Sign, Record, ChildExit
<1>3. objects' \subseteq Chunks /\ swept' \subseteq Paths
  <2>1. objects \subseteq Chunks /\ swept \subseteq Paths /\ worktree \in Files
    BY DEF TypeOK
  <2>2. ASSUME NEW p \in Paths, ScanPath(p) PROVE objects' \subseteq Chunks
    <3>1. ~Skipped(p) => worktree[p] \in Contents
      BY <2>1 DEF Files, Skipped
    <3>2. ~Skipped(p) => ChunksOf[worktree[p]] \subseteq Chunks
      BY <3>1, ContentAssumption
    <3> QED
      BY <2>1, <2>2, <3>2 DEF ScanPath
  <2>3. ASSUME NEW ch \in Chunks, SweepChunk(ch)
        PROVE  objects' \subseteq Chunks /\ swept' \subseteq Paths
    BY <2>1, <2>3 DEF SweepChunk, OpTargets
  <2> QED
    BY <2>1, <2>2, <2>3
       DEF Next, Begin, Step, SnapBegin, GuardBegin, RevertBegin, PurgeBegin, Keygen, ScanPath,
           WriteFile, WriteFails, RemoveFile, PutManifest, CreateSetHead, SwapHead, SpawnFails,
           Spawn, Tombstone, TombstoneFeed, UnlinkLive, Sign, Record, ChildExit, Edit, Crash
<1>4. /\ tombs' \subseteq [path : Paths, content : Contents]
      /\ tombTail' \in {"clean", "open", "bad"}
  <2>1. /\ tombs \subseteq [path : Paths, content : Contents]
        /\ tombTail \in {"clean", "open", "bad"}
    BY DEF TypeOK
  <2>2. CASE Tombstone
    BY <2>1, <2>2 DEF Tombstone, OpTargets
  <2>3. CASE TombstoneFeed
    BY <2>1, <2>3 DEF TombstoneFeed
  <2> QED
    BY <2>1, <2>2, <2>3
       DEF Next, Begin, Step, SnapBegin, GuardBegin, RevertBegin, PurgeBegin, Keygen, ScanPath,
           WriteFile, WriteFails, RemoveFile, PutManifest, CreateSetHead, SwapHead, SpawnFails,
           Spawn, SweepChunk, UnlinkLive, Sign, Record, ChildExit, Edit, Crash
<1>5. key' \in BOOLEAN /\ certs' \subseteq [path : Paths, content : Contents, gone : SUBSET Chunks]
  <2>1. key \in BOOLEAN /\ certs \subseteq [path : Paths, content : Contents, gone : SUBSET Chunks]
    BY DEF TypeOK
  <2>2. CASE Sign
    <3>1. op.gone \subseteq Chunks
      BY <1>0 DEF OpType
    <3>2. certs' \subseteq [path : Paths, content : Contents, gone : SUBSET Chunks]
      BY <2>1, <2>2, <3>1 DEF Sign, OpTargets
    <3> QED
      BY <2>1, <2>2, <3>2 DEF Sign
  <2>3. CASE Keygen
    BY <2>1, <2>3 DEF Keygen
  <2> QED
    BY <2>1, <2>2, <2>3
       DEF Next, Begin, Step, SnapBegin, GuardBegin, RevertBegin, PurgeBegin, ScanPath,
           WriteFile, WriteFails, RemoveFile, PutManifest, CreateSetHead, SwapHead, SpawnFails,
           Spawn, SweepChunk, Tombstone, TombstoneFeed, UnlinkLive, Record, ChildExit, Edit, Crash
<1> QED
  BY <1>0, <1>1, <1>2, <1>3, <1>4, <1>5 DEF TypeOK

LEMMA TargetsStep ==
    ASSUME TInv, Next
    PROVE  HistoryClosed' /\ OpTargets'
<1> USE DEF TInv, storeVars, purgeVars, histVars
<1>0. /\ manifests \in Seq(Manifest) /\ Len(manifests) \in Nat /\ op \in OpType
      /\ head \in 0..Len(manifests) /\ Idle.prev = 0 /\ Idle.pc = "idle"
  BY DEF TypeOK, HistoryClosed, Idle
<1>1. HistoryClosed'
  <2>1. CASE UNCHANGED <<manifests, head>>
    BY <2>1 DEF HistoryClosed, Ids
  <2>2. CASE manifests' = manifests /\ head' \in 0..Len(manifests)
    BY <2>2 DEF HistoryClosed, Ids
  <2>3. CASE manifests' = Append(manifests, NewManifest) /\ head' = head
    BY <1>0, <2>3, AppendedManifests DEF HistoryClosed, Ids, NewManifest
  <2> QED
    BY <2>1, <2>2, <2>3, GraphStep
<1>2. CASE manifests' = Append(manifests, NewManifest)
           /\ op' = [op EXCEPT !.pc = "head", !.id = Len(manifests) + 1]
  <2>1. Len(manifests') = Len(manifests) + 1
    BY <1>2, AppendedManifests
  <2>2. op'.pc = "head" /\ op'.id = Len(manifests) + 1 /\ op'.prev = op.prev
    BY <1>0, <1>2 DEF OpType
  <2> QED
    BY <1>0, <1>1, <2>1, <2>2 DEF OpTargets, Ids
<1>3. CASE manifests' = manifests
  <2> DEFINE Good(o) ==
        /\ o.pc \in {"head", "spawn", "child", "write", "remove", "swap"} => o.id \in Ids
        /\ o.prev \in 0..Len(manifests)
        /\ o.pc \in {"sweep", "feed", "unlink", "sign"} => o.path \in Paths /\ o.content \in Contents
  <2>1. Good(op) /\ Good(Idle)
    BY <1>0 DEF OpTargets
  <2>2. SUFFICES Good(op')
    BY <1>1, <1>3 DEF OpTargets, Ids
  <2>3. \A pc : Goto(pc).pc = pc /\ Goto(pc).id = op.id /\ Goto(pc).prev = op.prev
                /\ Goto(pc).path = op.path /\ Goto(pc).content = op.content
    BY <1>0 DEF Goto, OpType
  <2>4. ASSUME NEW o \in OpType, o.id \in Ids, o.prev \in 0..Len(manifests)
        PROVE  Good(Applying(o)) /\ Good(Removing(o))
    <3>1. /\ Removing(o).id = o.id /\ Removing(o).prev = o.prev
          /\ Removing(o).pc \in {"swap", "remove"}
      BY DEF Removing, OpType
    <3>2. /\ Writing(o).id = o.id /\ Writing(o).prev = o.prev
          /\ Writing(o).pc \in {"swap", "remove", "write"}
      BY <3>1 DEF Writing, OpType
    <3> QED
      BY <2>1, <2>4, <3>1, <3>2 DEF Applying
  <2>5. ASSUME NEW cmd, NEW policy PROVE Good(Scanning(cmd, policy))
    BY <1>0 DEF Scanning, Idle
  <2>6. CASE SnapBegin \/ \E policy \in Policies : GuardBegin(policy)
    BY <2>5, <2>6 DEF SnapBegin, GuardBegin
  <2>7. ASSUME NEW id \in Ids, NEW keep \in BOOLEAN, NEW force \in BOOLEAN,
               RevertBegin(id, keep, force)
        PROVE  Good(op')
    <3> DEFINE o == [Idle EXCEPT !.cmd = "revert", !.id = id, !.keep = keep, !.force = force,
                       !.files = manifests[id].files, !.prev = head, !.pre = worktree]
    <3>1. /\ manifests[id].files \in Files /\ id \in Nat /\ head \in Nat
          /\ worktree \in Files
      BY <1>0, ManifestType DEF Ids, TypeOK
    <3>2. o \in OpType /\ o.id = id /\ o.prev = head
      BY <3>1, IdleType DEF OpType
    <3> QED
      BY <1>0, <3>2, <2>4, <2>7, <3>1 DEF RevertBegin
  <2>8. ASSUME NEW p \in Paths, PurgeBegin(p) PROVE Good(op')
    <3>1. op'.path = p /\ op'.prev = 0 /\ op'.pc = "sweep"
      BY <2>8 DEF PurgeBegin, Idle
    <3>2. op'.content \in Contents
      BY <2>8, ManifestType DEF PurgeBegin, Idle, PurgeContent, EntriesOf, Files, TypeOK
    <3> QED
      BY <1>0, <3>1, <3>2
  <2>9. CASE Keygen
    BY <1>0, <2>9 DEF Keygen, Idle
  <2>10. ASSUME NEW p \in Paths, ScanPath(p) PROVE Good(op')
    <3>1. op'.pc \in {"scan", "manifest"} /\ op'.prev = op.prev
      BY <1>0, <2>10 DEF ScanPath, OpType
    <3> QED
      BY <2>1, <3>1
  <2>11. CASE PutManifest
    <3>1. PICK i \in Ids : op' = [op EXCEPT !.pc = "head", !.id = i]
      <4>1. manifests # Append(manifests, NewManifest)
        BY <1>0, AppendedManifests
      <4> QED
        BY <1>3, <2>11, <4>1 DEF PutManifest
    <3>2. op'.pc = "head" /\ op'.id = i /\ op'.prev = op.prev
      BY <1>0, <3>1 DEF OpType
    <3> QED
      BY <2>1, <3>2
  <2>12. CASE CreateSetHead \/ SwapHead \/ Spawn \/ Tombstone \/ TombstoneFeed \/ UnlinkLive
    BY <2>1, <2>3, <2>12
       DEF CreateSetHead, SwapHead, Spawn, Tombstone, TombstoneFeed, UnlinkLive
  <2>13. CASE SpawnFails \/ Record \/ Crash \/ Sign
    BY <2>1, <2>3, <2>13 DEF SpawnFails, Record, Crash, Sign
  <2>14. ASSUME NEW p \in Paths, WriteFile(p) \/ WriteFails(p) PROVE Good(op')
    <3>1. CASE WriteFails(p)
      BY <2>1, <3>1 DEF WriteFails
    <3>2. CASE WriteFile(p)
      <4>1. op.id \in Ids /\ op.prev \in 0..Len(manifests)
        BY <2>1, <3>2 DEF WriteFile
      <4>2. Good(Removing(op))
        BY <1>0, <2>4, <4>1
      <4>3. /\ [op EXCEPT !.todo = @ \ {p}].pc = op.pc
            /\ [op EXCEPT !.todo = @ \ {p}].id = op.id
            /\ [op EXCEPT !.todo = @ \ {p}].prev = op.prev
        BY <1>0 DEF OpType
      <4> QED
        BY <2>1, <3>2, <4>2, <4>3 DEF WriteFile
    <3> QED
      BY <2>14, <3>1, <3>2
  <2>15. ASSUME NEW p \in Paths, RemoveFile(p) PROVE Good(op')
    <3>1. op'.pc \in {"remove", "swap"} /\ op'.id = op.id /\ op'.prev = op.prev
      BY <1>0, <2>15 DEF RemoveFile, OpType
    <3> QED
      BY <2>1, <2>15, <3>1 DEF RemoveFile
  <2>16. ASSUME NEW failed \in BOOLEAN, ChildExit(failed) PROVE Good(op')
    <3> DEFINE o == [op EXCEPT !.files = manifests[op.id].files]
    <3>1. op.id \in Ids /\ op.prev \in 0..Len(manifests)
      BY <2>1, <2>16 DEF ChildExit
    <3>2. o \in OpType /\ o.id = op.id /\ o.prev = op.prev
      BY <1>0, <3>1, ManifestType DEF OpType
    <3> QED
      BY <2>1, <2>3, <2>4, <2>16, <3>1, <3>2 DEF ChildExit
  <2>17. ASSUME NEW ch \in Chunks, SweepChunk(ch) PROVE Good(op')
    <3>1. /\ op'.pc = op.pc /\ op'.id = op.id /\ op'.prev = op.prev /\ op'.path = op.path
          /\ op'.content = op.content
      BY <1>0, <2>17 DEF SweepChunk, OpType
    <3> QED
      BY <2>1, <3>1
  <2>18. ASSUME NEW p \in Paths, NEW c \in Contents \cup {Absent}, Edit(p, c) PROVE Good(op')
    <3>1. /\ op'.pc = op.pc /\ op'.id = op.id /\ op'.prev = op.prev /\ op'.path = op.path
          /\ op'.content = op.content
      BY <1>0, <2>18 DEF Edit, OpType
    <3> QED
      BY <2>1, <3>1
  <2> QED
    BY <2>6, <2>7, <2>8, <2>9, <2>10, <2>11, <2>12, <2>13, <2>14, <2>15, <2>16, <2>17, <2>18
       DEF Next, Begin, Step
<1> QED
  BY <1>2, <1>3, GraphStep

LEMMA TInvStep == TInv /\ [Next]_vars => TInv'
<1>1. ASSUME TInv, Next PROVE TInv'
  BY <1>1, TypeStep, TargetsStep DEF TInv
<1>2. ASSUME TInv, UNCHANGED vars PROVE TInv'
  BY <1>2 DEF TInv, TypeOK, HistoryClosed, OpTargets, Ids, vars, storeVars, purgeVars, histVars
<1> QED
  BY <1>1, <1>2

LEMMA TInvHolds == Spec => []TInv
  BY TypeInit, TInvStep, PTL DEF Spec

(***************************************************************************)
(* The variables keep their types and the snapshot graph stays closed,     *)
(* wherever a command dies: put_manifest comes before set_head, and the    *)
(* HEAD a guard puts back is one it found.                                 *)
(***************************************************************************)
THEOREM GraphStaysClosed == Spec => [](TypeOK /\ HistoryClosed)
<1>1. TInv => TypeOK /\ HistoryClosed
  BY DEF TInv
<1> QED
  BY <1>1, TInvHolds, PTL

-----------------------------------------------------------------------------
(* The store implements History.                                           *)

(***************************************************************************)
(* Every step of every command is a commit, a move of HEAD, or nothing to  *)
(* the abstract history.                                                   *)
(***************************************************************************)
THEOREM ImplementsHistory == Spec => HistorySpec
<1>1. Init => Hist!Init
  BY DEF Init, Hist!Init
<1>2. ASSUME TInv, Next PROVE [Hist!Next]_<<manifests, head>>
  <2>1. CASE UNCHANGED <<manifests, head>>
    BY <2>1
  <2>2. CASE manifests' = Append(manifests, NewManifest) /\ head' = head
    <3>1. op.files \in Files
      BY <1>2 DEF TInv, TypeOK, OpType
    <3> QED
      BY <2>2, <3>1 DEF Hist!Next, Hist!Commit, NewManifest
  <2>3. CASE manifests' = manifests /\ head' \in 0..Len(manifests)
    BY <2>3 DEF Hist!Next, Hist!Checkout
  <2> QED
    BY <1>2, <2>1, <2>2, <2>3, GraphStep
<1>3. TInv /\ [Next]_vars => [Hist!Next]_<<manifests, head>>
  BY <1>2 DEF vars, storeVars
<1> QED
  BY <1>1, <1>3, TInvHolds, PTL DEF Spec, HistorySpec, Hist!Spec

-----------------------------------------------------------------------------
(* Snapshots stay restorable.                                              *)

(***************************************************************************)
(* What a snapshot under construction has listed is in the store already.  *)
(***************************************************************************)
ScanStored ==
    op.pc \in {"scan", "manifest"} => \A p \in Paths : ChunksAt(op.files, p) \subseteq objects

(***************************************************************************)
(* What a purge is about to delete belongs to no other path.               *)
(***************************************************************************)
SweepUnshared ==
    op.pc = "sweep" =>
        \A i \in Ids, q \in Paths \ {op.path} : \A ch \in op.sweep :
            ch \notin ChunksAt(manifests[i].files, q)

RInv == Restorable /\ ScanStored /\ SweepUnshared

LEMMA ApplyingPc ==
    ASSUME NEW o \in OpType
    PROVE  /\ Applying(o).pc \in {"idle", "write", "remove", "swap"}
           /\ Removing(o).pc \in {"remove", "swap"}
<1>1. Removing(o).pc \in {"remove", "swap"}
  BY DEF Removing, OpType
<1>2. Writing(o).pc \in {"write", "remove", "swap"}
  BY <1>1 DEF Writing, OpType
<1> QED
  BY <1>1, <1>2 DEF Applying, Idle

LEMMA ScanFrom ==
    ASSUME NEW cmd, NEW policy
    PROVE  Scanning(cmd, policy).pc = "scan" /\ Scanning(cmd, policy).files = NoFile
  BY DEF Scanning, Idle

LEMMA RInvInit == Init => RInv
  BY DEF Init, RInv, Restorable, ScanStored, SweepUnshared, Ids, Idle

(***************************************************************************)
(* Steps that touch neither store nor manifests and leave the command      *)
(* neither scanning nor sweeping.                                          *)
(***************************************************************************)
LEMMA QuietStep ==
    ASSUME RInv, UNCHANGED <<objects, manifests, swept>>,
           op'.pc \notin {"scan", "manifest", "sweep"}
    PROVE  RInv'
  BY DEF RInv, Restorable, ScanStored, SweepUnshared, Ids

LEMMA RInvStep ==
    ASSUME TInv, RInv, Next
    PROVE  RInv'
<1> USE DEF TInv, storeVars, purgeVars, histVars
<1>0. op \in OpType /\ worktree \in Files /\ manifests \in Seq(Manifest) /\ Idle.pc = "idle"
  BY DEF TypeOK, Idle
<1>1. CASE SnapBegin \/ \E policy \in Policies : GuardBegin(policy)
  <2>1. op'.pc = "scan" /\ op'.files = NoFile
    BY <1>1, ScanFrom DEF SnapBegin, GuardBegin
  <2>2. UNCHANGED <<objects, manifests, swept>>
    BY <1>1 DEF SnapBegin, GuardBegin
  <2>3. \A p \in Paths : ChunksAt(NoFile, p) = {}
    BY DEF ChunksAt, NoFile
  <2> QED
    BY <2>1, <2>2, <2>3 DEF RInv, Restorable, ScanStored, SweepUnshared, Ids
<1>2. ASSUME NEW id \in Ids, NEW keep \in BOOLEAN, NEW force \in BOOLEAN,
             RevertBegin(id, keep, force)
      PROVE  RInv'
  <2>1. op'.pc \in {"idle", "write", "remove", "swap"}
    <3> DEFINE o == [Idle EXCEPT !.cmd = "revert", !.id = id, !.keep = keep, !.force = force,
                       !.files = manifests[id].files, !.prev = head, !.pre = worktree]
    <3>1. /\ manifests[id].files \in Files /\ id \in Nat /\ head \in Nat
      BY <1>0, ManifestType DEF Ids, TypeOK
    <3>2. o \in OpType
      BY <1>0, <3>1, IdleType DEF OpType
    <3> QED
      BY <1>2, <3>2, ApplyingPc DEF RevertBegin
  <2> QED
    BY <1>2, <2>1, QuietStep DEF RevertBegin
<1>3. ASSUME NEW p \in Paths, PurgeBegin(p) PROVE RInv'
  <2>1. op'.pc = "sweep" /\ op'.path = p /\ op'.sweep = PurgeChunks(p) \ ElsewhereChunks(p)
    BY <1>3 DEF PurgeBegin, Idle
  <2>2. \A i \in Ids, q \in Paths \ {p} :
          ChunksAt(manifests[i].files, q) \subseteq ElsewhereChunks(p)
    BY DEF ElsewhereChunks
  <2>3. UNCHANGED <<objects, manifests, swept>>
    BY <1>3 DEF PurgeBegin
  <2> QED
    BY <2>1, <2>2, <2>3 DEF RInv, Restorable, ScanStored, SweepUnshared, Ids
<1>4. CASE Keygen
  <2>1. op'.pc = "record"
    BY <1>4 DEF Keygen, Idle
  <2> QED
    BY <1>4, <2>1, QuietStep DEF Keygen
<1>5. ASSUME NEW p \in Paths, ScanPath(p) PROVE RInv'
  <2>1. objects \subseteq objects' /\ UNCHANGED <<manifests, swept>>
    BY <1>5 DEF ScanPath
  <2>2. op.pc = "scan" /\ op'.pc \in {"scan", "manifest"}
    BY <1>0, <1>5 DEF ScanPath, OpType
  <2>3. ASSUME NEW q \in Paths PROVE ChunksAt(op'.files, q) \subseteq objects'
    <3>1. CASE Skipped(p)
      <4>1. op'.files = op.files
        BY <1>0, <1>5, <3>1 DEF ScanPath, OpType
      <4> QED
        BY <2>1, <2>2, <4>1 DEF RInv, ScanStored
    <3>2. CASE ~Skipped(p)
      <4>1. op'.files = [op.files EXCEPT ![p] = EntryFor(worktree[p])]
        BY <1>0, <1>5, <3>2 DEF ScanPath, OpType
      <4>2. objects' = objects \cup ChunksOf[worktree[p]]
        BY <1>5, <3>2 DEF ScanPath
      <4>3. op'.files[q] = IF q = p THEN EntryFor(worktree[p]) ELSE op.files[q]
        BY <1>0, <4>1 DEF OpType, Files
      <4> QED
        BY <2>2, <4>2, <4>3 DEF RInv, ScanStored, ChunksAt, EntryFor
    <3> QED
      BY <3>1, <3>2
  <2> QED
    BY <2>1, <2>2, <2>3 DEF RInv, Restorable, ScanStored, SweepUnshared, Ids
<1>6. CASE PutManifest
  <2>1. op'.pc = "head" /\ UNCHANGED <<objects, swept>> /\ op.pc = "manifest"
    BY <1>0, <1>6 DEF PutManifest, OpType
  <2>2. CASE manifests' = manifests
    BY <2>1, <2>2, QuietStep
  <2>3. CASE manifests' = Append(manifests, NewManifest)
    <3>1. ASSUME NEW i \in Ids', NEW p \in Paths, p \notin swept
          PROVE  ChunksAt(manifests'[i].files, p) \subseteq objects
      <4>1. i \in Ids \/ manifests'[i].files = op.files
        BY <1>0, <2>3, AppendedManifests DEF Ids, NewManifest
      <4>2. i \in Ids => manifests'[i] = manifests[i]
        BY <2>3, AppendedManifests
      <4> QED
        BY <2>1, <3>1, <4>1, <4>2 DEF RInv, Restorable, ScanStored
    <3> QED
      BY <2>1, <3>1 DEF RInv, Restorable, ScanStored, SweepUnshared
  <2> QED
    BY <1>6, <2>2, <2>3 DEF PutManifest
<1>7. CASE CreateSetHead \/ SwapHead \/ Spawn \/ SpawnFails \/ Record \/ Crash
  <2>1. op'.pc \in {"record", "spawn", "child", "idle"}
    BY <1>0, <1>7 DEF CreateSetHead, SwapHead, Spawn, SpawnFails, Record, Crash, Goto, OpType
  <2> QED
    BY <1>7, <2>1, QuietStep DEF CreateSetHead, SwapHead, Spawn, SpawnFails, Record, Crash
<1>8. CASE Tombstone \/ TombstoneFeed \/ UnlinkLive \/ Sign
  <2>1. op'.pc \in {"feed", "unlink", "sign", "record", "idle"}
    BY <1>0, <1>8 DEF Tombstone, TombstoneFeed, UnlinkLive, Sign, Goto, OpType
  <2> QED
    BY <1>8, <2>1, QuietStep DEF Tombstone, TombstoneFeed, UnlinkLive, Sign
<1>9. ASSUME NEW p \in Paths, WriteFile(p) \/ WriteFails(p) \/ RemoveFile(p) PROVE RInv'
  <2>1. Removing(op).pc \in {"remove", "swap"}
    BY <1>0, ApplyingPc
  <2>2. op'.pc \in {"write", "remove", "swap", "idle"}
    BY <1>0, <1>9, <2>1 DEF WriteFile, WriteFails, RemoveFile, OpType
  <2> QED
    BY <1>9, <2>2, QuietStep DEF WriteFile, WriteFails, RemoveFile
<1>10. ASSUME NEW failed \in BOOLEAN, ChildExit(failed) PROVE RInv'
  <2>1. [op EXCEPT !.files = manifests[op.id].files] \in OpType
    <3>1. manifests[op.id].files \in Files
      BY <1>0, <1>10, ManifestType DEF ChildExit, OpTargets
    <3> QED
      BY <1>0, <3>1 DEF OpType
  <2>2. op'.pc \in {"idle", "write", "remove", "swap", "record"}
    BY <1>0, <1>10, <2>1, ApplyingPc DEF ChildExit, Goto, OpType
  <2> QED
    BY <1>10, <2>2, QuietStep DEF ChildExit
<1>11. ASSUME NEW ch \in Chunks, SweepChunk(ch) PROVE RInv'
  <2>1. /\ op.pc = "sweep" /\ op'.pc = "sweep" /\ op'.path = op.path
        /\ op'.sweep \subseteq op.sweep /\ ch \in op.sweep
    BY <1>0, <1>11 DEF SweepChunk, OpType
  <2>2. manifests' = manifests /\ objects' = objects \ {ch}
    BY <1>11 DEF SweepChunk
  <2>3. swept \subseteq swept' /\ (ch \in objects => op.path \in swept')
    BY <1>11 DEF SweepChunk
  <2>4. Restorable'
    <3> SUFFICES ASSUME NEW i \in Ids, NEW p \in Paths, p \notin swept'
                 PROVE  ChunksAt(manifests[i].files, p) \subseteq objects'
      BY <2>2 DEF Restorable, Ids
    <3>1. ChunksAt(manifests[i].files, p) \subseteq objects
      BY <2>3 DEF RInv, Restorable
    <3>2. ch \in objects => ch \notin ChunksAt(manifests[i].files, p)
      BY <2>1, <2>3 DEF RInv, SweepUnshared
    <3> QED
      BY <2>2, <3>1, <3>2
  <2> QED
    BY <2>1, <2>2, <2>4 DEF RInv, ScanStored, SweepUnshared, Ids
<1>12. ASSUME NEW p \in Paths, NEW c \in Contents \cup {Absent}, Edit(p, c) PROVE RInv'
  <2>1. op'.pc = op.pc /\ op'.files = op.files /\ op'.path = op.path /\ op'.sweep = op.sweep
    BY <1>0, <1>12 DEF Edit, OpType
  <2>2. UNCHANGED <<objects, manifests, swept>>
    BY <1>12 DEF Edit
  <2> QED
    BY <2>1, <2>2 DEF RInv, Restorable, ScanStored, SweepUnshared, Ids
<1> QED
  BY <1>1, <1>2, <1>3, <1>4, <1>5, <1>6, <1>7, <1>8, <1>9, <1>10, <1>11, <1>12
     DEF Next, Begin, Step

LEMMA RInvHolds == Spec => []RInv
<1>1. RInv /\ UNCHANGED vars => RInv'
  BY DEF RInv, Restorable, ScanStored, SweepUnshared, Ids, vars, storeVars, histVars
<1>2. TInv /\ RInv /\ [Next]_vars => RInv'
  BY <1>1, RInvStep
<1> QED
  BY <1>2, RInvInit, TInvHolds, PTL DEF Spec

(***************************************************************************)
(* Every snapshot stays restorable, but for the paths purged from it:      *)
(* chunks are stored before the manifest that names them, and a purge      *)
(* deletes only what no other path of any manifest uses.                   *)
(***************************************************************************)
THEOREM SnapshotsRestorable == Spec => []Restorable
<1>1. RInv => Restorable
  BY DEF RInv
<1> QED
  BY <1>1, RInvHolds, PTL

-----------------------------------------------------------------------------
(* A revert that goes through is exact.                                    *)

(***************************************************************************)
(* In the first pass, what the manifest has and the pass has done is in    *)
(* place.                                                                  *)
(***************************************************************************)
WriteDone ==
    op.pc = "write" =>
        \A p \in (Paths \ op.raced) \ op.todo : op.files[p] # Absent => worktree[p] = op.files[p]

(***************************************************************************)
(* In the second, all of it is, and what the manifest does not have is     *)
(* gone from the part of the tree that was walked, or kept on purpose.     *)
(***************************************************************************)
RemoveDone ==
    op.pc = "remove" =>
        /\ \A p \in Paths \ op.raced : op.files[p] # Absent => worktree[p] = op.files[p]
        /\ \A p \in (Paths \ op.raced) \ op.todo :
              op.files[p] = Absent => worktree[p] = Absent \/ op.keep

AInv == WriteDone /\ RemoveDone /\ RevertExact

LEMMA ApplyingStarts ==
    ASSUME NEW o \in OpType
    PROVE  /\ Applying(o).pc = "write" => Applying(o).todo = Wanted(Applying(o).files)
           /\ Applying(o).pc = "remove" => /\ Applying(o).todo = Paths
                                           /\ Wanted(Applying(o).files) = {}
           /\ Applying(o).pc = "swap" => Paths = {}
<1>1. /\ Removing(o).files = o.files
      /\ Removing(o).pc = "remove" => Removing(o).todo = Paths
      /\ Removing(o).pc = "swap" => Paths = {}
      /\ Removing(o).pc \in {"remove", "swap"}
  BY DEF Removing, OpType
<1>2. CASE ~Allowed(o.files)
  BY <1>2 DEF Applying, Idle
<1>3. CASE Allowed(o.files) /\ Wanted(o.files) = {}
  BY <1>1, <1>3 DEF Applying, Writing
<1>4. CASE Allowed(o.files) /\ Wanted(o.files) # {}
  <2> DEFINE r == [o EXCEPT !.pc = "write", !.todo = Wanted(o.files)]
  <2>1. r.pc = "write" /\ r.todo = Wanted(o.files) /\ r.files = o.files
    BY DEF OpType
  <2>2. Applying(o) = r
    BY <1>4 DEF Applying, Writing
  <2> QED
    BY <2>1, <2>2
<1> QED
  BY <1>2, <1>3, <1>4

LEMMA AppliedElsewhere ==
    ASSUME op'.pc \notin {"write", "remove", "swap"}
    PROVE  AInv'
  BY DEF AInv, WriteDone, RemoveDone, RevertExact, Applied

LEMMA AppliedBegin ==
    ASSUME NEW o \in OpType, op' = Applying(o)
    PROVE  AInv'
  BY ApplyingStarts
     DEF AInv, WriteDone, RemoveDone, RevertExact, Applied, Wanted

LEMMA AInvStep ==
    ASSUME TInv, AInv, Next
    PROVE  AInv'
<1> USE DEF TInv, storeVars, purgeVars, histVars
<1>0. op \in OpType /\ worktree \in Files /\ manifests \in Seq(Manifest) /\ Idle.pc = "idle"
  BY DEF TypeOK, Idle
<1>1. CASE SnapBegin \/ Keygen \/ (\E policy \in Policies : GuardBegin(policy))
  <2>1. op'.pc \in {"scan", "record"}
    <3>1. CASE Keygen
      BY <3>1 DEF Keygen, Idle
    <3>2. CASE SnapBegin \/ \E policy \in Policies : GuardBegin(policy)
      BY <3>2, ScanFrom DEF SnapBegin, GuardBegin
    <3> QED
      BY <1>1, <3>1, <3>2
  <2> QED
    BY <2>1, AppliedElsewhere
<1>2. ASSUME NEW id \in Ids, NEW keep \in BOOLEAN, NEW force \in BOOLEAN,
             RevertBegin(id, keep, force)
      PROVE  AInv'
  <2> DEFINE o == [Idle EXCEPT !.cmd = "revert", !.id = id, !.keep = keep, !.force = force,
                     !.files = manifests[id].files, !.prev = head, !.pre = worktree]
  <2>1. manifests[id].files \in Files /\ id \in Nat /\ head \in Nat
    BY <1>0, ManifestType DEF Ids, TypeOK
  <2>2. o \in OpType
    BY <1>0, <2>1, IdleType DEF OpType
  <2> QED
    BY <1>2, <2>2, AppliedBegin DEF RevertBegin
<1>3. CASE \E p \in Paths : PurgeBegin(p) \/ ScanPath(p)
  <2>1. ASSUME NEW p \in Paths, PurgeBegin(p) PROVE op'.pc = "sweep"
    BY <2>1 DEF PurgeBegin, Idle
  <2>2. ASSUME NEW p \in Paths, ScanPath(p) PROVE op'.pc \in {"scan", "manifest"}
    BY <1>0, <2>2 DEF ScanPath, OpType
  <2> QED
    BY <1>3, <2>1, <2>2, AppliedElsewhere
<1>4. CASE PutManifest \/ CreateSetHead \/ SwapHead \/ Spawn \/ SpawnFails \/ Record \/ Crash
  <2>1. op'.pc \in {"head", "record", "spawn", "child", "idle"}
    BY <1>0, <1>4
       DEF PutManifest, CreateSetHead, SwapHead, Spawn, SpawnFails, Record, Crash, Goto, OpType
  <2> QED
    BY <2>1, AppliedElsewhere
<1>5. CASE Tombstone \/ TombstoneFeed \/ UnlinkLive \/ Sign
           \/ (\E ch \in Chunks : SweepChunk(ch)) \/ (\E p \in Paths : WriteFails(p))
  <2>1. op'.pc \in {"sweep", "feed", "unlink", "sign", "record", "idle"}
    BY <1>0, <1>5
       DEF Tombstone, TombstoneFeed, UnlinkLive, Sign, SweepChunk, WriteFails, Goto, OpType
  <2> QED
    BY <2>1, AppliedElsewhere
<1>6. ASSUME NEW p \in Paths, WriteFile(p) PROVE AInv'
  <2>1. /\ op.pc = "write" /\ p \in op.todo
        /\ worktree'[p] = op.files[p]
        /\ \A q \in Paths \ {p} : worktree'[q] = worktree[q]
    BY <1>0, <1>6 DEF WriteFile, First, NeedsWrite, Files
  <2>2. /\ op'.files = op.files /\ op'.raced = op.raced
        /\ \/ op'.pc = "write" /\ op'.todo = op.todo \ {p}
           \/ op'.pc = "remove" /\ op'.todo = Paths /\ op.todo = {p}
    <3>1. CASE op.todo # {p}
      BY <1>0, <1>6, <2>1, <3>1 DEF WriteFile, OpType
    <3>2. CASE op.todo = {p}
      BY <1>0, <1>6, <3>2 DEF WriteFile, Removing, OpType
    <3> QED
      BY <3>1, <3>2
  <2> QED
    BY <2>1, <2>2 DEF AInv, WriteDone, RemoveDone, RevertExact, Applied
<1>7. ASSUME NEW p \in Paths, RemoveFile(p) PROVE AInv'
  <2>1. /\ op.pc = "remove" /\ p \in op.todo
        /\ op.files[p] # Absent => worktree'[p] = worktree[p]
        /\ op.files[p] = Absent => worktree'[p] = Absent \/ op.keep
        /\ \A q \in Paths \ {p} : worktree'[q] = worktree[q]
    BY <1>0, <1>7 DEF RemoveFile, First, Extra, Files
  <2> DEFINE where == IF op.todo = {p} THEN "swap" ELSE op.pc
  <2>2. op' = [op EXCEPT !.todo = @ \ {p}, !.pc = where]
    BY <1>7 DEF RemoveFile
  <2>3. (where = "remove") \/ (where = "swap" /\ op.todo = {p})
    <3>1. CASE op.todo = {p}
      BY <3>1
    <3>2. CASE op.todo # {p}
      <4>1. op.pc = "remove"
        BY <1>7 DEF RemoveFile
      <4> QED
        BY <3>2, <4>1
    <3> QED
      BY <3>1, <3>2
  <2> HIDE DEF where
  <2>4. /\ op'.files = op.files /\ op'.raced = op.raced
        /\ op'.todo = op.todo \ {p} /\ op'.pc = where
    BY <1>0, <2>2 DEF OpType
  <2>5. op'.keep = op.keep
    BY <1>0, <2>2 DEF OpType
  <2> QED
    BY <2>1, <2>3, <2>4, <2>5 DEF AInv, WriteDone, RemoveDone, RevertExact, Applied
<1>8. ASSUME NEW failed \in BOOLEAN, ChildExit(failed) PROVE AInv'
  <2> DEFINE o == [op EXCEPT !.files = manifests[op.id].files]
  <2>1. manifests[op.id].files \in Files
    BY <1>0, <1>8, ManifestType DEF ChildExit, OpTargets
  <2>2. o \in OpType
    BY <1>0, <2>1 DEF OpType
  <2>3. Goto("record").pc = "record"
    BY <1>0 DEF Goto, OpType
  <2> QED
    BY <1>8, <2>2, <2>3, AppliedBegin, AppliedElsewhere DEF ChildExit
<1>9. ASSUME NEW p \in Paths, NEW c \in Contents \cup {Absent}, Edit(p, c) PROVE AInv'
  <2>1. /\ op'.pc = op.pc /\ op'.files = op.files /\ op'.todo = op.todo /\ op'.keep = op.keep
        /\ op.pc \in {"write", "remove", "swap"} => op'.raced = op.raced \cup {p}
    BY <1>0, <1>9 DEF Edit, OpType
  <2>2. \A q \in Paths \ {p} : worktree'[q] = worktree[q]
    BY <1>0, <1>9 DEF Edit, Files
  <2> QED
    BY <2>1, <2>2 DEF AInv, WriteDone, RemoveDone, RevertExact, Applied
<1> QED
  BY <1>1, <1>2, <1>3, <1>4, <1>5, <1>6, <1>7, <1>8, <1>9 DEF Next, Begin, Step

LEMMA AInvHolds == Spec => []AInv
<1>1. Init => AInv
  BY DEF Init, Idle, AInv, WriteDone, RemoveDone, RevertExact, Applied
<1>2. AInv /\ UNCHANGED vars => AInv'
  BY DEF vars, AInv, WriteDone, RemoveDone, RevertExact, Applied
<1>3. TInv /\ AInv /\ [Next]_vars => AInv'
  BY <1>2, AInvStep
<1> QED
  BY <1>1, <1>3, TInvHolds, PTL DEF Spec

(***************************************************************************)
(* When apply has gone through, every path that no other program wrote     *)
(* meanwhile is as the manifest has it, for reverts of any size and edits  *)
(* at any moment.                                                          *)
(***************************************************************************)
THEOREM RevertsAreExact == Spec => []RevertExact
<1>1. AInv => RevertExact
  BY DEF AInv
<1> QED
  BY <1>1, AInvHolds, PTL

-----------------------------------------------------------------------------
(* What is purged stays dead.                                              *)

(***************************************************************************)
(* A snapshot under construction lists nothing tombstoned, and nothing     *)
(* tombstoned is being written back.                                       *)
(***************************************************************************)
NoneDead(files) == \A p \in Paths : files[p] # Absent => ~IsPurged(p, files[p])

DInv == op.pc \in {"scan", "manifest", "write"} => NoneDead(op.files)

LEMMA ApplyingAllowed ==
    ASSUME NEW o \in OpType
    PROVE  Applying(o).pc = "write" => NoneDead(Applying(o).files)
<1>1. Removing(o).pc # "write"
  BY ApplyingPc
<1>2. CASE ~Allowed(o.files) \/ Wanted(o.files) = {}
  BY <1>1, <1>2 DEF Applying, Writing, Idle
<1>3. CASE Allowed(o.files) /\ Wanted(o.files) # {}
  <2>1. Applying(o).files = o.files
    BY <1>3 DEF Applying, Writing, OpType
  <2>2. \A p \in Paths : o.files[p] # Absent => ~IsPurged(p, o.files[p])
    BY <1>3 DEF Allowed, Wanted
  <2> QED
    BY <2>1, <2>2 DEF NoneDead
<1> QED
  BY <1>2, <1>3

LEMMA DeadElsewhere ==
    ASSUME op'.pc \notin {"scan", "manifest", "write"}
    PROVE  DInv'
  BY DEF DInv

LEMMA DeadKept ==
    ASSUME DInv, tombs' = tombs, op'.files = op.files, op.pc \in {"scan", "manifest", "write"}
    PROVE  DInv'
  BY DEF DInv, NoneDead, IsPurged, PathPurged, ContentPurged

LEMMA DInvStep ==
    ASSUME TInv, DInv, Next
    PROVE  DInv'
<1> USE DEF TInv, storeVars, purgeVars, histVars
<1>0. op \in OpType /\ worktree \in Files /\ manifests \in Seq(Manifest) /\ Idle.pc = "idle"
  BY DEF TypeOK, Idle
<1>1. CASE SnapBegin \/ \E policy \in Policies : GuardBegin(policy)
  <2>1. op'.files = NoFile
    BY <1>1, ScanFrom DEF SnapBegin, GuardBegin
  <2> QED
    BY <2>1 DEF DInv, NoneDead, NoFile
<1>2. ASSUME NEW o \in OpType, op' = Applying(o), tombs' = tombs PROVE DInv'
  <2>1. op'.pc \in {"idle", "write", "remove", "swap"}
    BY <1>2, ApplyingPc
  <2>2. op'.pc = "write" => NoneDead(op'.files)
    BY <1>2, ApplyingAllowed
  <2> QED
    BY <1>2, <2>1, <2>2 DEF DInv, NoneDead, IsPurged, PathPurged, ContentPurged
<1>3. ASSUME NEW id \in Ids, NEW keep \in BOOLEAN, NEW force \in BOOLEAN,
             RevertBegin(id, keep, force)
      PROVE  DInv'
  <2> DEFINE o == [Idle EXCEPT !.cmd = "revert", !.id = id, !.keep = keep, !.force = force,
                     !.files = manifests[id].files, !.prev = head, !.pre = worktree]
  <2>1. manifests[id].files \in Files /\ id \in Nat /\ head \in Nat
    BY <1>0, ManifestType DEF Ids, TypeOK
  <2>2. o \in OpType
    BY <1>0, <2>1, IdleType DEF OpType
  <2> QED
    BY <1>2, <1>3, <2>2 DEF RevertBegin
<1>4. CASE Keygen \/ \E p \in Paths : PurgeBegin(p)
  <2>1. op'.pc \in {"sweep", "record"}
    BY <1>4 DEF PurgeBegin, Keygen, Idle
  <2> QED
    BY <2>1, DeadElsewhere
<1>5. ASSUME NEW p \in Paths, ScanPath(p) PROVE DInv'
  <2>1. op.pc = "scan" /\ tombs' = tombs
    BY <1>5 DEF ScanPath
  <2>2. CASE Skipped(p)
    <3>1. op'.files = op.files
      BY <1>0, <1>5, <2>2 DEF ScanPath, OpType
    <3> QED
      BY <2>1, <3>1, DeadKept
  <2>3. CASE ~Skipped(p)
    <3>1. op'.files = [op.files EXCEPT ![p] = EntryFor(worktree[p])]
      BY <1>0, <1>5, <2>3 DEF ScanPath, OpType
    <3>2. \A q \in Paths : op'.files[q] = IF q = p THEN EntryFor(worktree[p]) ELSE op.files[q]
      BY <1>0, <3>1 DEF OpType, Files
    <3>3. EntryFor(worktree[p]) # Absent => ~IsPurged(p, EntryFor(worktree[p]))
      BY <2>3 DEF EntryFor, IsPurged, Skipped
    <3>4. NoneDead(op'.files)
      BY <2>1, <3>2, <3>3 DEF DInv, NoneDead
    <3> QED
      BY <2>1, <3>4 DEF DInv, NoneDead, IsPurged, PathPurged, ContentPurged
  <2> QED
    BY <2>2, <2>3
<1>6. CASE PutManifest \/ CreateSetHead \/ SwapHead \/ Spawn \/ SpawnFails \/ Record \/ Crash
  <2>1. op'.pc \in {"head", "record", "spawn", "child", "idle"}
    BY <1>0, <1>6
       DEF PutManifest, CreateSetHead, SwapHead, Spawn, SpawnFails, Record, Crash, Goto, OpType
  <2> QED
    BY <2>1, DeadElsewhere
<1>7. CASE Tombstone \/ TombstoneFeed \/ UnlinkLive \/ Sign
           \/ (\E ch \in Chunks : SweepChunk(ch)) \/ (\E p \in Paths : WriteFails(p))
  <2>1. op'.pc \in {"sweep", "feed", "unlink", "sign", "record", "idle"}
    BY <1>0, <1>7
       DEF Tombstone, TombstoneFeed, UnlinkLive, Sign, SweepChunk, WriteFails, Goto, OpType
  <2> QED
    BY <2>1, DeadElsewhere
<1>8. ASSUME NEW p \in Paths, WriteFile(p) PROVE DInv'
  <2>1. CASE op.todo = {p}
    <3>1. op'.pc \in {"remove", "swap"}
      BY <1>0, <1>8, <2>1, ApplyingPc DEF WriteFile
    <3> QED
      BY <3>1, DeadElsewhere
  <2>2. CASE op.todo # {p}
    <3>1. op'.files = op.files /\ op.pc = "write" /\ tombs' = tombs
      BY <1>0, <1>8, <2>2 DEF WriteFile, OpType
    <3> QED
      BY <3>1, DeadKept
  <2> QED
    BY <2>1, <2>2
<1>9. ASSUME NEW p \in Paths, RemoveFile(p) PROVE DInv'
  <2>1. op'.pc \in {"remove", "swap"}
    BY <1>0, <1>9 DEF RemoveFile, OpType
  <2> QED
    BY <2>1, DeadElsewhere
<1>10. ASSUME NEW failed \in BOOLEAN, ChildExit(failed) PROVE DInv'
  <2> DEFINE o == [op EXCEPT !.files = manifests[op.id].files]
  <2>1. manifests[op.id].files \in Files
    BY <1>0, <1>10, ManifestType DEF ChildExit, OpTargets
  <2>2. o \in OpType
    BY <1>0, <2>1 DEF OpType
  <2>3. Goto("record").pc = "record"
    BY <1>0 DEF Goto, OpType
  <2> QED
    BY <1>2, <1>10, <2>2, <2>3, DeadElsewhere DEF ChildExit
<1>11. ASSUME NEW p \in Paths, NEW c \in Contents \cup {Absent}, Edit(p, c) PROVE DInv'
  <2>1. op'.pc = op.pc /\ op'.files = op.files /\ tombs' = tombs
    BY <1>0, <1>11 DEF Edit, OpType
  <2> QED
    BY <2>1, DeadElsewhere, DeadKept
<1> QED
  BY <1>1, <1>3, <1>4, <1>5, <1>6, <1>7, <1>8, <1>9, <1>10, <1>11 DEF Next, Begin, Step

(***************************************************************************)
(* No command brings a tombstoned path or content back: into the worktree, *)
(* into a manifest, or by losing the tombstone.                            *)
(***************************************************************************)
THEOREM PurgedStaysPurged == Spec => PurgedStaysDead
<1> DEFINE Dead ==
      /\ tombs \subseteq tombs'
      /\ edits' = edits =>
           \A p \in Paths :
              worktree'[p] \notin {worktree[p], Absent} => ~IsPurged(p, worktree'[p])
      /\ \A i \in (Len(manifests) + 1)..Len(manifests') : \A p \in Paths :
           manifests'[i].files[p] # Absent => ~IsPurged(p, manifests'[i].files[p])
<1>1. ASSUME TInv, DInv, Next PROVE Dead
  <2> USE DEF storeVars, purgeVars, histVars
  <2>0. worktree \in Files /\ op \in OpType /\ edits \in Nat /\ manifests \in Seq(Manifest)
    BY <1>1 DEF TInv, TypeOK
  <2>1. tombs \subseteq tombs'
    BY <1>1
       DEF Next, Begin, Step, SnapBegin, GuardBegin, RevertBegin, PurgeBegin, Keygen, ScanPath,
           WriteFile, WriteFails, RemoveFile, PutManifest, CreateSetHead, SwapHead, SpawnFails,
           Spawn, SweepChunk, Tombstone, TombstoneFeed, UnlinkLive, Sign, Record, ChildExit, Edit,
           Crash
  <2>2. ASSUME edits' = edits, NEW p \in Paths, worktree'[p] \notin {worktree[p], Absent}
        PROVE  ~IsPurged(p, worktree'[p])
    <3>1. CASE worktree' = worktree
      BY <2>2, <3>1
    <3>2. ASSUME NEW q \in Paths, WriteFile(q) PROVE ~IsPurged(p, worktree'[p])
      <4>1. op.pc = "write" /\ worktree'[p] = op.files[p]
        BY <2>0, <2>2, <3>2 DEF WriteFile, Files
      <4> QED
        BY <1>1, <2>2, <4>1 DEF DInv, NoneDead
    <3>3. ASSUME NEW q \in Paths, RemoveFile(q) PROVE FALSE
      BY <2>0, <2>2, <3>3 DEF RemoveFile, Files
    <3>4. ASSUME UnlinkLive PROVE FALSE
      BY <2>0, <2>2, <3>4 DEF UnlinkLive, Files
    <3>5. ASSUME NEW q \in Paths, NEW c \in Contents \cup {Absent}, Edit(q, c) PROVE FALSE
      <4>1. edits' = edits + 1
        BY <3>5 DEF Edit
      <4> QED
        BY <2>0, <2>2, <4>1
    <3> QED
      BY <1>1, <3>1, <3>2, <3>3, <3>4, <3>5
         DEF Next, Begin, Step, SnapBegin, GuardBegin, RevertBegin, PurgeBegin, Keygen, ScanPath,
             WriteFails, PutManifest, CreateSetHead, SwapHead, SpawnFails, Spawn, SweepChunk,
             Tombstone, TombstoneFeed, Sign, Record, ChildExit, Crash
  <2>3. ASSUME NEW i \in (Len(manifests) + 1)..Len(manifests'), NEW p \in Paths,
               manifests'[i].files[p] # Absent
        PROVE  ~IsPurged(p, manifests'[i].files[p])
    <3>1. manifests' = Append(manifests, NewManifest) /\ op.pc = "manifest"
      BY <1>1, <2>0, GraphStep
    <3>2. TypeOK
      BY <1>1 DEF TInv
    <3>3. manifests'[i].files = op.files
      BY <2>0, <3>1, <3>2, AppendedManifests DEF NewManifest
    <3> QED
      BY <1>1, <2>3, <3>1, <3>3 DEF DInv, NoneDead
  <2> QED
    BY <2>1, <2>2, <2>3
<1>2. TInv /\ DInv /\ [Next]_vars => [Dead]_vars
  BY <1>1
<1>3. Init => DInv
  BY DEF Init, Idle, DInv
<1>4. DInv /\ UNCHANGED vars => DInv'
  BY DEF vars, purgeVars, DInv, NoneDead, IsPurged, PathPurged, ContentPurged
<1>5. TInv /\ DInv /\ [Next]_vars => DInv'
  BY <1>4, DInvStep
<1>6. Spec => []DInv
  BY <1>3, <1>5, TInvHolds, PTL DEF Spec
<1> QED
  BY <1>2, <1>6, TInvHolds, PTL DEF Spec, PurgedStaysDead

-----------------------------------------------------------------------------
(* Which steps belong to which command.                                    *)

CmdSteps ==
    /\ op.cmd = "purge" => op.pc \in {"sweep", "feed", "unlink", "sign", "record"}
    /\ op.cmd = "revert" => op.pc \in {"write", "remove", "swap", "record"}

LEMMA ApplyingKeeps ==
    ASSUME NEW o \in OpType
    PROVE  /\ Removing(o).cmd = o.cmd /\ Removing(o).files = o.files /\ Removing(o).id = o.id
           /\ Removing(o).raced = o.raced /\ Removing(o).pre = o.pre
           /\ Removing(o).force = o.force
           /\ Removing(o).keep = o.keep
           /\ \/ Applying(o) = Idle
              \/ /\ Applying(o).cmd = o.cmd /\ Applying(o).files = o.files
                 /\ Applying(o).id = o.id /\ Applying(o).raced = o.raced
                 /\ Applying(o).pre = o.pre
                 /\ Applying(o).force = o.force
                 /\ Applying(o).keep = o.keep
<1>1. /\ Removing(o).cmd = o.cmd /\ Removing(o).files = o.files /\ Removing(o).id = o.id
      /\ Removing(o).raced = o.raced /\ Removing(o).pre = o.pre
  BY DEF Removing, OpType
<1>2. Removing(o).force = o.force
  BY DEF Removing, OpType
<1>3. Removing(o).keep = o.keep
  BY DEF Removing, OpType
<1> DEFINE r == [o EXCEPT !.pc = "write", !.todo = Wanted(o.files)]
<1>4. r.cmd = o.cmd /\ r.files = o.files /\ r.id = o.id /\ r.raced = o.raced /\ r.pre = o.pre
  BY DEF OpType
<1>5. r.force = o.force
  BY DEF OpType
<1>6. r.keep = o.keep
  BY DEF OpType
<1>7. Applying(o) \in {Idle, Removing(o), r}
  BY DEF Applying, Writing
<1> HIDE DEF r
<1> QED
  BY <1>1, <1>2, <1>3, <1>4, <1>5, <1>6, <1>7

LEMMA ApplyingStarted ==
    ASSUME NEW o \in OpType, Applying(o) # Idle
    PROVE  Applying(o).pc # "idle"
<1>1. Applying(o) = Writing(o)
  BY DEF Applying
<1>2. Removing(o).pc # "idle"
  BY ApplyingPc
<1> QED
  BY <1>1, <1>2 DEF Writing, OpType

\* The first state of a revert, and that of the undoing part of a guard.
Reverting(id, keep, force) ==
    [Idle EXCEPT !.cmd = "revert", !.id = id, !.keep = keep, !.force = force,
                 !.files = manifests[id].files, !.prev = head, !.pre = worktree]

Undoing == [op EXCEPT !.files = manifests[op.id].files]

LEMMA RevertingType ==
    ASSUME TInv, NEW id \in Ids, NEW keep \in BOOLEAN, NEW force \in BOOLEAN
    PROVE  /\ Reverting(id, keep, force) \in OpType
           /\ Reverting(id, keep, force).cmd = "revert"
           /\ Reverting(id, keep, force).files = manifests[id].files
           /\ Reverting(id, keep, force).raced = {}
           /\ Reverting(id, keep, force).force = force
<1>1. manifests[id].files \in Files /\ id \in Nat /\ head \in Nat /\ worktree \in Files
  BY ManifestType DEF Ids, TInv, TypeOK
<1>2. Reverting(id, keep, force) \in OpType
  BY <1>1, IdleType DEF OpType, Reverting
<1>3. Reverting(id, keep, force).force = force
  BY DEF Reverting, Idle
<1> QED
  BY <1>2, <1>3 DEF Reverting, Idle

LEMMA UndoingType ==
    ASSUME TInv, op.pc = "child"
    PROVE  /\ Undoing \in OpType /\ Undoing.cmd = op.cmd
           /\ Undoing.files = manifests[op.id].files
           /\ Undoing.raced = op.raced /\ Undoing.pre = op.pre
           /\ Undoing.keep = op.keep
<1>1. op \in OpType /\ manifests[op.id].files \in Files
  BY ManifestType DEF TInv, TypeOK, OpTargets
<1>2. Undoing \in OpType
  BY <1>1 DEF OpType, Undoing
<1>3. Undoing.keep = op.keep
  BY <1>1 DEF OpType, Undoing
<1> QED
  BY <1>1, <1>2, <1>3 DEF OpType, Undoing

\* A step that only moves the command on.
LEMMA GotoKeeps ==
    ASSUME op \in OpType, NEW where
    PROVE  /\ Goto(where).pc = where /\ Goto(where).cmd = op.cmd /\ Goto(where).path = op.path
           /\ Goto(where).files = op.files /\ Goto(where).id = op.id
           /\ Goto(where).raced = op.raced /\ Goto(where).pre = op.pre
           /\ Goto(where).todo = op.todo /\ Goto(where).sweep = op.sweep
           /\ Goto(where).keep = op.keep
           /\ Goto(where).force = op.force
<1>1. Goto(where).keep = op.keep
  BY DEF Goto, OpType
<1>2. Goto(where).force = op.force
  BY DEF Goto, OpType
<1> QED
  BY <1>1, <1>2 DEF Goto, OpType

LEMMA EditKeeps ==
    ASSUME op \in OpType, NEW p \in Paths, NEW c, Edit(p, c)
    PROVE  /\ op'.pc = op.pc /\ op'.cmd = op.cmd /\ op'.path = op.path /\ op'.files = op.files
           /\ op'.id = op.id /\ op'.pre = op.pre /\ op'.todo = op.todo /\ op'.sweep = op.sweep
           /\ op'.raced = IF op.pc \in {"idle", "child"} THEN op.raced ELSE op.raced \cup {p}
           /\ op'.keep = op.keep
           /\ op'.force = op.force
<1>1. op' = op \/ op' = [op EXCEPT !.raced = @ \cup {p}]
  BY DEF Edit
<1>2. op'.keep = op.keep
  BY <1>1 DEF OpType
<1>3. op'.force = op.force
  BY <1>1 DEF OpType
<1>4. op'.raced = IF op.pc \in {"idle", "child"} THEN op.raced ELSE op.raced \cup {p}
  BY DEF Edit, OpType
<1> QED
  BY <1>1, <1>2, <1>3, <1>4 DEF OpType

LEMMA ScanKeeps ==
    ASSUME op \in OpType, NEW p \in Paths, ScanPath(p)
    PROVE  /\ op.pc = "scan" /\ p \in op.todo /\ op'.todo = op.todo \ {p}
           /\ op'.pc = IF op.todo = {p} THEN "manifest" ELSE "scan"
           /\ op'.files = IF Skipped(p) THEN op.files
                          ELSE [op.files EXCEPT ![p] = EntryFor(worktree[p])]
           /\ op'.cmd = op.cmd /\ op'.raced = op.raced /\ op'.pre = op.pre
           /\ op'.keep = op.keep
<1> DEFINE where == IF op.todo = {p} THEN "manifest" ELSE op.pc
           listed == IF Skipped(p) THEN op.files ELSE [op.files EXCEPT ![p] = EntryFor(worktree[p])]
<1>1. op' = [op EXCEPT !.todo = @ \ {p}, !.files = listed, !.pc = where]
  BY DEF ScanPath
<1>2. op.pc = "scan" /\ p \in op.todo
  BY DEF ScanPath, First
<1>3. where = IF op.todo = {p} THEN "manifest" ELSE "scan"
  BY <1>2
<1> HIDE DEF where, listed
<1>4. op'.keep = op.keep
  BY <1>1 DEF OpType
<1>5. /\ op'.todo = op.todo \ {p} /\ op'.pc = where /\ op'.files = listed
      /\ op'.cmd = op.cmd /\ op'.raced = op.raced /\ op'.pre = op.pre
  BY <1>1 DEF OpType
<1> QED
  BY <1>2, <1>3, <1>4, <1>5 DEF listed

LEMMA PutKeeps ==
    ASSUME TInv, PutManifest
    PROVE  /\ op.pc = "manifest" /\ op'.pc = "head"
           /\ op'.cmd = op.cmd /\ op'.raced = op.raced /\ op'.pre = op.pre
           /\ op'.keep = op.keep
           /\ manifests'[op'.id].files = op.files
<1>0. op \in OpType /\ TypeOK /\ manifests \in Seq(Manifest)
  BY DEF TInv, TypeOK
<1>1. PICK id : op' = [op EXCEPT !.pc = "head", !.id = id] /\ manifests'[id].files = op.files
  <2>1. CASE /\ manifests' = Append(manifests, NewManifest)
             /\ op' = [op EXCEPT !.pc = "head", !.id = Len(manifests) + 1]
    <3> DEFINE k == Len(manifests) + 1
    <3>1. manifests'[k] = NewManifest
      BY <1>0, <2>1, AppendedManifests
    <3>2. manifests'[k].files = op.files
      BY <3>1 DEF NewManifest
    <3>3. op' = [op EXCEPT !.pc = "head", !.id = k]
      BY <2>1
    <3> HIDE DEF k
    <3> QED
      BY <3>2, <3>3
  <2>2. CASE \E i \in Ids : /\ manifests[i] = NewManifest
                            /\ op' = [op EXCEPT !.pc = "head", !.id = i]
                            /\ UNCHANGED manifests
    <3>1. PICK i \in Ids : /\ manifests[i] = NewManifest
                           /\ op' = [op EXCEPT !.pc = "head", !.id = i]
                           /\ UNCHANGED manifests
      BY <2>2
    <3>2. manifests'[i].files = op.files
      BY <3>1 DEF NewManifest
    <3> QED
      BY <3>1, <3>2
  <2> QED
    BY <2>1, <2>2 DEF PutManifest
<1>2. op'.keep = op.keep
  BY <1>0, <1>1 DEF OpType
<1>3. op.pc = "manifest"
  BY DEF PutManifest
<1> QED
  BY <1>0, <1>1, <1>2, <1>3 DEF OpType

LEMMA WriteKeeps ==
    ASSUME op \in OpType, worktree \in Files, NEW p \in Paths, WriteFile(p)
    PROVE  /\ op.pc = "write" /\ p \in op.todo
           /\ \/ op'.pc = "write" /\ op'.todo = op.todo \ {p}
              \/ op'.pc \in {"remove", "swap"} /\ op.todo = {p}
           /\ op'.cmd = op.cmd /\ op'.files = op.files /\ op'.raced = op.raced
           /\ op'.pre = op.pre
           /\ op'.keep = op.keep
           /\ op'.force = op.force
           /\ \A q \in Paths \ {p} : worktree'[q] = worktree[q]
<1>1. /\ op.pc = "write" /\ p \in op.todo
      /\ \A q \in Paths \ {p} : worktree'[q] = worktree[q]
  BY DEF WriteFile, First, Files
<1>2. CASE op.todo = {p} /\ op' = Removing(op)
  BY <1>1, <1>2, ApplyingKeeps, ApplyingPc
<1>3. CASE op' = [op EXCEPT !.todo = @ \ {p}]
  <2>1. op'.keep = op.keep
    BY <1>3 DEF OpType
  <2>2. op'.force = op.force
    BY <1>3 DEF OpType
  <2>3. /\ op'.pc = op.pc /\ op'.todo = op.todo \ {p}
        /\ op'.cmd = op.cmd /\ op'.files = op.files /\ op'.raced = op.raced
        /\ op'.pre = op.pre
    BY <1>3 DEF OpType
  <2> QED
    BY <1>1, <2>1, <2>2, <2>3
<1> QED
  BY <1>2, <1>3 DEF WriteFile

LEMMA RemoveKeeps ==
    ASSUME op \in OpType, worktree \in Files, NEW p \in Paths, RemoveFile(p)
    PROVE  /\ op.pc = "remove" /\ p \in op.todo /\ op'.todo = op.todo \ {p}
           /\ op'.pc \in {"remove", "swap"}
           /\ op'.cmd = op.cmd /\ op'.files = op.files /\ op'.raced = op.raced
           /\ op'.pre = op.pre
           /\ op'.keep = op.keep
           /\ op'.force = op.force
           /\ \A q \in Paths \ {p} : worktree'[q] = worktree[q]
           /\ worktree'[p] # worktree[p] => op.files[p] = Absent
<1> DEFINE where == IF op.todo = {p} THEN "swap" ELSE op.pc
<1>1. op' = [op EXCEPT !.todo = @ \ {p}, !.pc = where]
  BY DEF RemoveFile
<1>2. op.pc = "remove" /\ p \in op.todo
  BY DEF RemoveFile, First
<1>3. where \in {"remove", "swap"}
  BY <1>2
<1>4. /\ \A q \in Paths \ {p} : worktree'[q] = worktree[q]
      /\ worktree'[p] # worktree[p] => op.files[p] = Absent
  BY DEF RemoveFile, Extra, Files
<1> HIDE DEF where
<1>5. op'.keep = op.keep
  BY <1>1 DEF OpType
<1>6. op'.force = op.force
  BY <1>1 DEF OpType
<1>7. /\ op'.todo = op.todo \ {p} /\ op'.pc = where
      /\ op'.cmd = op.cmd /\ op'.files = op.files /\ op'.raced = op.raced
      /\ op'.pre = op.pre
  BY <1>1 DEF OpType
<1> QED
  BY <1>2, <1>3, <1>4, <1>5, <1>6, <1>7

LEMMA SweepKeeps ==
    ASSUME op \in OpType, NEW ch \in Chunks, SweepChunk(ch)
    PROVE  /\ op.pc = "sweep" /\ op'.pc = "sweep" /\ op'.cmd = op.cmd /\ op'.path = op.path
           /\ op'.sweep = op.sweep \ {ch}
           /\ op'.keep = op.keep
<1>1. op'.keep = op.keep
  BY DEF SweepChunk, OpType
<1> QED
  BY <1>1 DEF SweepChunk, OpType

LEMMA CmdStepsStep ==
    ASSUME TInv, CmdSteps, Next
    PROVE  CmdSteps'
<1>0. op \in OpType /\ worktree \in Files /\ Idle.cmd = "none"
  BY DEF TInv, TypeOK, Idle
<1>1. CASE SnapBegin \/ Keygen \/ (\E policy \in Policies : GuardBegin(policy))
  <2>1. op'.cmd \in {"snap", "guard", "keygen"}
    BY <1>1 DEF SnapBegin, GuardBegin, Keygen, Scanning, Idle
  <2> QED
    BY <2>1 DEF CmdSteps
<1>2. ASSUME NEW o \in OpType, op' = Applying(o), o.cmd # "purge" PROVE CmdSteps'
  <2>1. CASE op' = Idle
    BY <1>0, <2>1 DEF CmdSteps
  <2>2. CASE op' # Idle
    <3>1. op'.cmd = o.cmd /\ op'.pc \in {"idle", "write", "remove", "swap"}
      BY <1>2, <2>2, ApplyingKeeps, ApplyingPc
    <3>2. op'.pc # "idle"
      BY <1>2, <2>2, ApplyingStarted
    <3> QED
      BY <1>2, <3>1, <3>2 DEF CmdSteps
  <2> QED
    BY <2>1, <2>2
<1>3. ASSUME NEW id \in Ids, NEW keep \in BOOLEAN, NEW force \in BOOLEAN,
             RevertBegin(id, keep, force)
      PROVE  CmdSteps'
  BY <1>2, <1>3, RevertingType DEF RevertBegin, Reverting
<1>4. ASSUME NEW p \in Paths, PurgeBegin(p) PROVE CmdSteps'
  <2>1. op'.cmd = "purge" /\ op'.pc = "sweep"
    BY <1>4 DEF PurgeBegin, Idle
  <2> QED
    BY <2>1 DEF CmdSteps
<1>5. ASSUME NEW p \in Paths, ScanPath(p) PROVE CmdSteps'
  BY <1>0, <1>5, ScanKeeps DEF CmdSteps
<1>6. ASSUME NEW p \in Paths, WriteFile(p) PROVE CmdSteps'
  BY <1>0, <1>6, WriteKeeps DEF CmdSteps
<1>7. ASSUME NEW p \in Paths, RemoveFile(p) PROVE CmdSteps'
  BY <1>0, <1>7, RemoveKeeps DEF CmdSteps
<1>8. CASE op' = Idle
  BY <1>0, <1>8 DEF CmdSteps
<1>9. CASE PutManifest
  BY <1>9, PutKeeps DEF CmdSteps
<1>10. CASE CreateSetHead \/ SwapHead \/ Spawn
  BY <1>0, <1>10, GotoKeeps DEF CmdSteps, CreateSetHead, SwapHead, Spawn
<1>11. CASE Tombstone \/ TombstoneFeed \/ UnlinkLive \/ Sign
  BY <1>0, <1>8, <1>11, GotoKeeps DEF CmdSteps, Tombstone, TombstoneFeed, UnlinkLive, Sign
<1>12. ASSUME NEW ch \in Chunks, SweepChunk(ch) PROVE CmdSteps'
  BY <1>0, <1>12, SweepKeeps DEF CmdSteps
<1>13. ASSUME NEW failed \in BOOLEAN, ChildExit(failed) PROVE CmdSteps'
  <2>1. op.pc = "child" /\ op.cmd # "purge" /\ op.cmd # "revert"
    BY <1>13 DEF ChildExit, CmdSteps
  <2>2. CASE op' = Applying(Undoing)
    BY <1>2, <2>1, <2>2, UndoingType
  <2>3. CASE op' = Goto("record")
    BY <1>0, <2>1, <2>3, GotoKeeps DEF CmdSteps
  <2> QED
    BY <1>13, <2>2, <2>3 DEF ChildExit, Undoing
<1>14. ASSUME NEW p \in Paths, NEW c \in Contents \cup {Absent}, Edit(p, c) PROVE CmdSteps'
  BY <1>0, <1>14, EditKeeps DEF CmdSteps
<1> QED
  BY <1>1, <1>3, <1>4, <1>5, <1>6, <1>7, <1>8, <1>9, <1>10, <1>11, <1>12, <1>13, <1>14
     DEF Next, Begin, Step, WriteFails, SpawnFails, Record, Crash

LEMMA CmdStepsHold == Spec => []CmdSteps
<1>1. Init => CmdSteps
  BY DEF Init, Idle, CmdSteps
<1>2. CmdSteps /\ UNCHANGED vars => CmdSteps'
  BY DEF vars, CmdSteps
<1> QED
  BY <1>1, <1>2, CmdStepsStep, TInvHolds, PTL DEF Spec

-----------------------------------------------------------------------------
(* A purge is complete.                                                    *)

(***************************************************************************)
(* What is left of the path in the store is on the list of the sweep, or   *)
(* is another path's too.                                                  *)
(***************************************************************************)
PurgeLeft ==
    op.cmd = "purge" =>
        \A i \in Ids : \A ch \in ChunksAt(manifests[i].files, op.path) \cap objects :
            ch \in ElsewhereChunks(op.path) \/ (op.pc = "sweep" /\ ch \in op.sweep)

LEMMA PurgeLeftStep ==
    ASSUME TInv, CmdSteps, PurgeLeft, Next
    PROVE  PurgeLeft'
<1> USE DEF storeVars
<1>0. op \in OpType /\ worktree \in Files /\ Idle.cmd = "none"
  BY DEF TInv, TypeOK, Idle
<1>1. CASE op'.cmd # "purge"
  BY <1>1 DEF PurgeLeft
<1>2. ASSUME NEW p \in Paths, PurgeBegin(p) PROVE PurgeLeft'
  <2>1. /\ op'.pc = "sweep" /\ op'.path = p /\ op'.sweep = PurgeChunks(p) \ ElsewhereChunks(p)
        /\ UNCHANGED <<objects, manifests>>
    BY <1>2 DEF PurgeBegin, Idle
  <2>2. \A i \in Ids : ChunksAt(manifests[i].files, p) \subseteq PurgeChunks(p)
    BY DEF PurgeChunks
  <2>3. ElsewhereChunks(p)' = ElsewhereChunks(p) /\ Ids' = Ids
    BY <2>1 DEF ElsewhereChunks, Ids
  <2> QED
    BY <2>1, <2>2, <2>3 DEF PurgeLeft
<1>3. ASSUME op'.cmd = op.cmd, op'.path = op.path, objects' \subseteq objects, manifests' = manifests,
             \A ch \in objects' : op.pc = "sweep" /\ ch \in op.sweep =>
                                      op'.pc = "sweep" /\ ch \in op'.sweep
      PROVE  PurgeLeft'
  <2>1. ElsewhereChunks(op.path)' = ElsewhereChunks(op.path) /\ Ids' = Ids
    BY <1>3 DEF ElsewhereChunks, Ids
  <2> QED
    BY <1>3, <2>1 DEF PurgeLeft
<1>4. ASSUME NEW ch \in Chunks, SweepChunk(ch) PROVE PurgeLeft'
  <2>1. objects' = objects \ {ch} /\ manifests' = manifests
    BY <1>4 DEF SweepChunk
  <2> QED
    BY <1>0, <1>3, <1>4, <2>1, SweepKeeps
<1>5. CASE Tombstone
  BY <1>0, <1>3, <1>5, GotoKeeps DEF Tombstone
<1>6. CASE TombstoneFeed \/ UnlinkLive \/ Sign
  BY <1>0, <1>1, <1>3, <1>6, GotoKeeps DEF TombstoneFeed, UnlinkLive, Sign
<1>7. ASSUME NEW p \in Paths, NEW c \in Contents \cup {Absent}, Edit(p, c) PROVE PurgeLeft'
  <2>1. UNCHANGED <<objects, manifests>>
    BY <1>7 DEF Edit
  <2> QED
    BY <1>0, <1>3, <1>7, <2>1, EditKeeps
<1>8. CASE SnapBegin \/ Keygen \/ (\E policy \in Policies : GuardBegin(policy))
  <2>1. op'.cmd \in {"snap", "guard", "keygen"}
    BY <1>8 DEF SnapBegin, GuardBegin, Keygen, Scanning, Idle
  <2> QED
    BY <1>1, <2>1
<1>9. ASSUME NEW id \in Ids, NEW keep \in BOOLEAN, NEW force \in BOOLEAN,
             RevertBegin(id, keep, force)
      PROVE  PurgeLeft'
  <2>1. op' = Applying(Reverting(id, keep, force))
    BY <1>9 DEF RevertBegin, Reverting
  <2>2. op'.cmd \in {"none", "revert"}
    BY <1>0, <2>1, RevertingType, ApplyingKeeps
  <2> QED
    BY <1>1, <2>2
<1>10. ASSUME NEW p \in Paths, ScanPath(p) \/ WriteFile(p) \/ RemoveFile(p) PROVE PurgeLeft'
  BY <1>0, <1>1, <1>10, ScanKeeps, WriteKeeps, RemoveKeeps DEF CmdSteps
<1>11. CASE PutManifest
  BY <1>1, <1>11, PutKeeps DEF CmdSteps
<1>12. CASE CreateSetHead \/ SwapHead \/ Spawn
  BY <1>0, <1>1, <1>12, GotoKeeps DEF CmdSteps, CreateSetHead, SwapHead, Spawn
<1>13. ASSUME NEW failed \in BOOLEAN, ChildExit(failed) PROVE PurgeLeft'
  <2>1. op.pc = "child" /\ op.cmd # "purge"
    BY <1>13 DEF ChildExit, CmdSteps
  <2>2. op'.cmd # "purge"
    BY <1>0, <1>13, <2>1, UndoingType, ApplyingKeeps, GotoKeeps DEF ChildExit, Undoing
  <2> QED
    BY <1>1, <2>2
<1>14. CASE op' = Idle
  BY <1>0, <1>1, <1>14
<1> QED
  BY <1>2, <1>4, <1>5, <1>6, <1>7, <1>8, <1>9, <1>10, <1>11, <1>12, <1>13, <1>14
     DEF Next, Begin, Step, WriteFails, SpawnFails, Record, Crash

(***************************************************************************)
(* A purge that comes to its tombstone (purge.rs 190-212) has deleted all  *)
(* chunks of all versions of the path that no other path refers to,        *)
(* whatever other programs write meanwhile and whatever earlier purges     *)
(* left undone.                                                            *)
(***************************************************************************)
THEOREM ErasureIsComplete == Spec => []ErasureComplete
<1>1. Init => PurgeLeft
  BY DEF Init, Idle, PurgeLeft
<1>2. PurgeLeft /\ UNCHANGED vars => PurgeLeft'
  BY DEF vars, storeVars, PurgeLeft, ElsewhereChunks, Ids
<1>3. PurgeLeft => ErasureComplete
  BY DEF PurgeLeft, ErasureComplete, ElsewhereChunks
<1> QED
  BY <1>1, <1>2, <1>3, PurgeLeftStep, CmdStepsHold, TInvHolds, PTL DEF Spec

-----------------------------------------------------------------------------
(* The gate of a revert.                                                   *)

(***************************************************************************)
(* The paths a revert may still replace or remove, and what the gate found *)
(* of them: they are as the manifest at HEAD has them.  What is to be      *)
(* written is in the target.                                               *)
(***************************************************************************)
Ahead == {p \in Paths : \/ op.pc = "write" /\ (p \in op.todo \/ op.files[p] = Absent)
                        \/ op.pc = "remove" /\ p \in op.todo /\ op.files[p] = Absent}

GateHeld ==
    op.cmd = "revert" /\ ~op.force =>
        /\ op.pc = "write" => op.todo \subseteq Wanted(op.files)
        /\ \A p \in Ahead \ (op.raced \cup Ignored) : worktree[p] = HeadFiles[p]

LEMMA HeadFilesType == ASSUME TInv PROVE HeadFiles \in Files
<1>1. head # 0 => head \in Ids
  BY DEF TInv, TypeOK, HistoryClosed, Ids
<1> QED
  BY <1>1, IdleType, ManifestType DEF HeadFiles, TInv, TypeOK

LEMMA CleanMeansHead ==
    ASSUME TInv, ~Dirty(HeadFiles), NEW p \in Paths \ Ignored
    PROVE  worktree[p] = HeadFiles[p]
  BY HeadFilesType DEF Dirty, Added, Modified, Deleted, TInv, TypeOK, Files

\* Nothing comes back among the paths ahead, and HEAD stays while some are.
LEMMA GateKept ==
    ASSUME GateHeld, op'.cmd = op.cmd, op'.force = op.force, op.raced \subseteq op'.raced,
           UNCHANGED <<manifests, head>>, Ahead' \subseteq Ahead,
           op'.pc = "write" => op.pc = "write" /\ op'.todo \subseteq op.todo /\ op'.files = op.files,
           GateHeld /\ op.cmd = "revert" /\ ~op.force =>
              \A p \in Ahead' \ op'.raced : worktree'[p] = worktree[p]
    PROVE  GateHeld'
<1>1. HeadFiles' = HeadFiles
  BY DEF HeadFiles
<1> QED
  BY <1>1 DEF GateHeld, Wanted

LEMMA GateElsewhere ==
    ASSUME op'.pc \notin {"write", "remove"} \/ op'.cmd # "revert"
    PROVE  GateHeld'
  BY DEF GateHeld, Ahead

LEMMA GateHeldStep ==
    ASSUME TInv, CmdSteps, GateHeld, Next
    PROVE  GateHeld'
<1> USE DEF storeVars
<1>0. op \in OpType /\ worktree \in Files /\ Idle.pc = "idle"
  BY DEF TInv, TypeOK, Idle
<1>1. CASE SnapBegin \/ Keygen \/ (\E policy \in Policies : GuardBegin(policy))
           \/ (\E p \in Paths : PurgeBegin(p))
  <2>1. op'.cmd \in {"snap", "guard", "keygen", "purge"}
    BY <1>1 DEF SnapBegin, GuardBegin, Keygen, PurgeBegin, Scanning, Idle
  <2> QED
    BY <2>1, GateElsewhere
<1>2. ASSUME NEW id \in Ids, NEW keep \in BOOLEAN, NEW force \in BOOLEAN,
             RevertBegin(id, keep, force)
      PROVE  GateHeld'
  <2>1. /\ op' = Applying(Reverting(id, keep, force)) /\ GatePasses(force)
        /\ UNCHANGED <<worktree, manifests, head>>
    BY <1>2 DEF RevertBegin, Reverting
  <2>2. HeadFiles' = HeadFiles
    BY <2>1 DEF HeadFiles
  <2>3. CASE op' = Idle
    BY <1>0, <2>3, GateElsewhere
  <2>4. CASE op' # Idle
    <3>1. op'.force = force
      BY <2>1, <2>4, RevertingType, ApplyingKeeps
    <3>2. ~force => \A p \in Paths \ Ignored : worktree[p] = HeadFiles[p]
      BY <2>1, CleanMeansHead DEF GatePasses
    <3>3. op'.pc = "write" => op'.todo = Wanted(op'.files)
      BY <2>1, RevertingType, ApplyingStarts
    <3> QED
      BY <2>1, <2>2, <3>1, <3>2, <3>3 DEF GateHeld, Ahead, Wanted
  <2> QED
    BY <2>3, <2>4
<1>3. ASSUME NEW p \in Paths, WriteFile(p) PROVE GateHeld'
  <2>1. UNCHANGED <<manifests, head>>
    BY <1>3 DEF WriteFile
  <2>2. /\ op.pc = "write" /\ p \in op.todo
        /\ \/ op'.pc = "write" /\ op'.todo = op.todo \ {p}
           \/ op'.pc \in {"remove", "swap"} /\ op.todo = {p}
        /\ op'.cmd = op.cmd /\ op'.files = op.files /\ op'.raced = op.raced
        /\ op'.force = op.force
        /\ \A q \in Paths \ {p} : worktree'[q] = worktree[q]
    BY <1>0, <1>3, WriteKeeps
  <2>3. Ahead' \subseteq Ahead
    BY <2>2 DEF Ahead
  <2>4. op.cmd = "revert" /\ ~op.force => p \notin Ahead'
    BY <2>2 DEF GateHeld, Ahead, Wanted
  <2>5. op.cmd = "revert" /\ ~op.force => \A q \in Ahead' : worktree'[q] = worktree[q]
    BY <2>2, <2>4 DEF Ahead
  <2> QED
    BY <2>1, <2>2, <2>3, <2>5, GateKept
<1>4. ASSUME NEW p \in Paths, RemoveFile(p) PROVE GateHeld'
  <2>1. UNCHANGED <<manifests, head>>
    BY <1>4 DEF RemoveFile
  <2> QED
    BY <1>0, <1>4, <2>1, RemoveKeeps, GateKept DEF Ahead
<1>5. CASE op' = Idle
  BY <1>0, <1>5, GateElsewhere
<1>6. CASE PutManifest \/ (\E p \in Paths : ScanPath(p)) \/ (\E ch \in Chunks : SweepChunk(ch))
  <2>1. op'.pc \in {"scan", "manifest", "head", "sweep"}
    BY <1>0, <1>6, PutKeeps, ScanKeeps, SweepKeeps
  <2> QED
    BY <2>1, GateElsewhere
<1>7. CASE CreateSetHead \/ SwapHead \/ Spawn \/ Tombstone \/ TombstoneFeed \/ UnlinkLive \/ Sign
  <2>1. op'.pc \in {"record", "spawn", "child", "feed", "unlink", "sign", "idle"}
    BY <1>0, <1>7, GotoKeeps
       DEF CreateSetHead, SwapHead, Spawn, Tombstone, TombstoneFeed, UnlinkLive, Sign
  <2> QED
    BY <2>1, GateElsewhere
<1>8. ASSUME NEW failed \in BOOLEAN, ChildExit(failed) PROVE GateHeld'
  <2>1. op.pc = "child" /\ op.cmd # "revert"
    BY <1>8 DEF ChildExit, CmdSteps
  <2>2. op'.cmd # "revert"
    <3>1. op' = Applying(Undoing) \/ op' = Goto("record")
      BY <1>8 DEF ChildExit, Undoing
    <3>2. Idle.cmd # "revert"
      BY DEF Idle
    <3> QED
      BY <1>0, <2>1, <3>1, <3>2, UndoingType, ApplyingKeeps, GotoKeeps
  <2> QED
    BY <2>2, GateElsewhere
<1>9. ASSUME NEW p \in Paths, NEW c \in Contents \cup {Absent}, Edit(p, c) PROVE GateHeld'
  <2>1. UNCHANGED <<manifests, head>> /\ \A q \in Paths \ {p} : worktree'[q] = worktree[q]
    BY <1>0, <1>9 DEF Edit, Files
  <2>2. Ahead' = Ahead /\ (Ahead # {} => p \in op'.raced)
    BY <1>0, <1>9, EditKeeps DEF Ahead
  <2> QED
    BY <1>0, <1>9, <2>1, <2>2, EditKeeps, GateKept DEF Ahead
<1> QED
  BY <1>1, <1>2, <1>3, <1>4, <1>5, <1>6, <1>7, <1>8, <1>9
     DEF Next, Begin, Step, WriteFails, SpawnFails, Record, Crash

(***************************************************************************)
(* check_then_apply (revert.rs 237-275): without --force, no step of a     *)
(* revert replaces or removes a file that HEAD does not hold and the store *)
(* cannot give back, except ignored, purged and raced ones.                *)
(***************************************************************************)
THEOREM GateKeepsWork == Spec => GateProtects
<1> DEFINE Kept ==
      op.cmd = "revert" /\ ~op.force /\ edits' = edits =>
         \A p \in Paths \ (op.raced \cup Ignored) :
            Destroyed(p) =>
                /\ HeadFiles[p] = worktree[p]
                /\ p \notin swept => ChunksAt(worktree, p) \subseteq objects
<1>1. ASSUME TInv, RInv, CmdSteps, GateHeld, Next PROVE Kept
  <2> SUFFICES ASSUME op.cmd = "revert", ~op.force, edits' = edits,
                      NEW p \in Paths \ (op.raced \cup Ignored), Destroyed(p)
               PROVE  /\ HeadFiles[p] = worktree[p]
                      /\ p \notin swept => ChunksAt(worktree, p) \subseteq objects
    OBVIOUS
  <2>0. worktree \in Files /\ op \in OpType /\ edits \in Nat
    BY <1>1 DEF TInv, TypeOK
  <2>1. p \in Ahead
    <3>1. ASSUME NEW q \in Paths, WriteFile(q) PROVE p \in Ahead
      BY <2>0, <3>1, WriteKeeps DEF Destroyed, Ahead
    <3>2. ASSUME NEW q \in Paths, RemoveFile(q) PROVE p \in Ahead
      BY <2>0, <3>2, RemoveKeeps DEF Destroyed, Ahead
    <3>3. ASSUME UnlinkLive PROVE FALSE
      BY <1>1, <3>3 DEF UnlinkLive, CmdSteps
    <3>4. ASSUME NEW q \in Paths, NEW c \in Contents \cup {Absent}, Edit(q, c) PROVE FALSE
      <4>1. edits' = edits + 1
        BY <3>4 DEF Edit
      <4> QED
        BY <2>0, <4>1
    <3>5. worktree' # worktree
      BY DEF Destroyed
    <3> QED
      BY <1>1, <3>1, <3>2, <3>3, <3>4, <3>5
         DEF Next, Begin, Step, SnapBegin, GuardBegin, RevertBegin, PurgeBegin, Keygen, ScanPath,
             WriteFails, PutManifest, CreateSetHead, SwapHead, SpawnFails, Spawn, SweepChunk,
             Tombstone, TombstoneFeed, Sign, Record, ChildExit, Crash
  <2>2. HeadFiles[p] = worktree[p] /\ worktree[p] # Absent
    BY <1>1, <2>1 DEF GateHeld, Destroyed
  <2>3. head \in Ids /\ manifests[head].files[p] = worktree[p]
    BY <1>1, <2>2 DEF HeadFiles, NoFile, TInv, HistoryClosed, TypeOK, Ids
  <2>4. p \notin swept => ChunksAt(worktree, p) \subseteq objects
    <3>1. ChunksAt(worktree, p) = ChunksAt(manifests[head].files, p)
      BY <2>3 DEF ChunksAt
    <3> QED
      BY <1>1, <2>3, <3>1 DEF RInv, Restorable
  <2> QED
    BY <2>2, <2>4
<1>2. TInv /\ RInv /\ CmdSteps /\ GateHeld /\ [Next]_vars => [Kept]_vars
  BY <1>1
<1>3. Init => GateHeld
  BY DEF Init, Idle, GateHeld
<1>4. GateHeld /\ UNCHANGED vars => GateHeld'
  BY DEF vars, storeVars, GateHeld, Ahead, HeadFiles, Wanted
<1>5. Spec => []GateHeld
  BY <1>3, <1>4, GateHeldStep, CmdStepsHold, TInvHolds, PTL DEF Spec
<1> QED
  BY <1>2, <1>5, RInvHolds, CmdStepsHold, TInvHolds, PTL DEF Spec, GateProtects

-----------------------------------------------------------------------------
(* A guard gives back what it found.                                       *)

\* What a path was when the command began, if a snapshot may hold it.
AsFound(c, p) == c = op.pre[p] \/ (op.pre[p] # Absent /\ IsPurged(p, op.pre[p]))

Found(p) ==
    /\ op.pc = "scan" => worktree[p] = op.pre[p]
    /\ op.pc = "scan" /\ p \in op.todo => op.files[p] = Absent
    /\ op.pc = "scan" /\ p \notin op.todo => AsFound(op.files[p], p)
    /\ op.pc \in {"manifest", "write", "remove", "swap"} => AsFound(op.files[p], p)
    /\ op.pc \in {"head", "spawn", "child"} => AsFound(manifests[op.id].files[p], p)

(***************************************************************************)
(* The worktree is as found until it is scanned, then the list is, then    *)
(* the manifest, then what is applied; an undo keeps no extra files.       *)
(***************************************************************************)
GuardHeld ==
    op.cmd = "guard" =>
        /\ op.keep = FALSE
        /\ \A p \in Paths \ (op.raced \cup Ignored) : Found(p)

\* Steps that only move the guard on.
LEMMA GuardKept ==
    ASSUME GuardHeld, UNCHANGED tombs, op'.cmd = op.cmd, op'.raced = op.raced,
           op'.pre = op.pre, op'.keep = op.keep, op'.pc # "scan",
           \A p \in Paths \ (op.raced \cup Ignored) :
              Found(p) => /\ op'.pc \in {"manifest", "write", "remove", "swap"} =>
                                AsFound(op'.files[p], p)
                          /\ op'.pc \in {"head", "spawn", "child"} =>
                                AsFound(manifests'[op'.id].files[p], p)
    PROVE  GuardHeld'
<1> SUFFICES ASSUME op.cmd = "guard", NEW p \in Paths \ (op.raced \cup Ignored) PROVE Found(p)'
  BY DEF GuardHeld
<1>1. Found(p)
  BY DEF GuardHeld
<1>2. \A c : AsFound(c, p) =>
              c = op'.pre[p] \/ (op'.pre[p] # Absent /\ \E t \in tombs' : t.path = p \/ t.content = op'.pre[p])
  BY DEF AsFound, IsPurged, PathPurged, ContentPurged
<1> QED
  BY <1>1, <1>2 DEF Found, AsFound, IsPurged, PathPurged, ContentPurged

\* No guard, or a guard past its undo.
LEMMA GuardOver ==
    ASSUME GuardHeld,
           \/ op'.cmd # "guard"
           \/ /\ op'.pc \in {"sweep", "feed", "unlink", "sign", "record"}
              /\ op'.cmd = op.cmd
              /\ op'.keep = op.keep
    PROVE  GuardHeld'
  BY DEF GuardHeld, Found

LEMMA GuardScan ==
    ASSUME TInv, GuardHeld, NEW p \in Paths, ScanPath(p)
    PROVE  GuardHeld'
<1> USE DEF purgeVars
<1>0. op \in OpType /\ worktree \in Files
  BY DEF TInv, TypeOK
<1>1. /\ op.pc = "scan" /\ p \in op.todo /\ op'.todo = op.todo \ {p}
      /\ op'.pc = IF op.todo = {p} THEN "manifest" ELSE "scan"
      /\ op'.files = IF Skipped(p) THEN op.files
                     ELSE [op.files EXCEPT ![p] = EntryFor(worktree[p])]
      /\ op'.cmd = op.cmd /\ op'.raced = op.raced /\ op'.pre = op.pre
      /\ op'.keep = op.keep
  BY <1>0, ScanKeeps
<1>2. worktree' = worktree /\ tombs' = tombs
  BY DEF ScanPath
<1>3. \A q \in Paths : op'.files[q] = IF q = p /\ ~Skipped(p) THEN EntryFor(worktree[p])
                                     ELSE op.files[q]
  BY <1>0, <1>1 DEF OpType, Files
<1> SUFFICES ASSUME op.cmd = "guard", NEW q \in Paths \ (op.raced \cup Ignored) PROVE Found(q)'
  BY <1>1 DEF GuardHeld
<1>4. Found(q) /\ worktree[q] = op.pre[q]
  BY <1>1 DEF GuardHeld, Found
<1>5. q # p => \/ q \in op'.todo /\ op'.files[q] = Absent
               \/ q \notin op'.todo /\ AsFound(op'.files[q], q)
  BY <1>1, <1>3, <1>4 DEF Found
<1>6. q = p => AsFound(op'.files[q], q)
  BY <1>1, <1>3, <1>4 DEF Found, AsFound, Skipped, EntryFor, IsPurged
<1>7. AsFound(op'.files[q], q) =>
        \/ op'.files[q] = op'.pre[q]
        \/ op'.pre[q] # Absent /\ \E t \in tombs' : t.path = q \/ t.content = op'.pre[q]
  BY <1>1, <1>2 DEF AsFound, IsPurged, PathPurged, ContentPurged
<1> QED
  BY <1>1, <1>2, <1>4, <1>5, <1>6, <1>7 DEF Found, AsFound, IsPurged, PathPurged, ContentPurged

LEMMA GuardHeldStep ==
    ASSUME TInv, GuardHeld, Next
    PROVE  GuardHeld'
<1> USE DEF storeVars, purgeVars
<1>0. op \in OpType /\ worktree \in Files /\ Idle.cmd = "none"
  BY DEF TInv, TypeOK, Idle
<1>1. CASE SnapBegin \/ Keygen \/ (\E p \in Paths : PurgeBegin(p))
  <2>1. op'.cmd \in {"snap", "keygen", "purge"}
    BY <1>1 DEF SnapBegin, Keygen, PurgeBegin, Scanning, Idle
  <2> QED
    BY <2>1, GuardOver
<1>2. ASSUME NEW policy \in Policies, GuardBegin(policy) PROVE GuardHeld'
  <2>1. /\ op'.pc = "scan" /\ op'.todo = Paths /\ op'.files = NoFile /\ op'.pre = worktree
        /\ worktree' = worktree
    BY <1>2 DEF GuardBegin, Scanning, Idle
  <2>2. op'.keep = FALSE
    BY <1>2 DEF GuardBegin, Scanning, Idle
  <2> QED
    BY <2>1, <2>2 DEF GuardHeld, Found, NoFile
<1>3. ASSUME NEW id \in Ids, NEW keep \in BOOLEAN, NEW force \in BOOLEAN,
             RevertBegin(id, keep, force)
      PROVE  GuardHeld'
  <2>1. op' = Applying(Reverting(id, keep, force))
    BY <1>3 DEF RevertBegin, Reverting
  <2>2. op'.cmd \in {"none", "revert"}
    BY <1>0, <2>1, RevertingType, ApplyingKeeps
  <2> QED
    BY <2>2, GuardOver
<1>4. ASSUME NEW p \in Paths, ScanPath(p) PROVE GuardHeld'
  BY <1>4, GuardScan
<1>5. CASE PutManifest
  <2>1. tombs' = tombs
    BY <1>5 DEF PutManifest
  <2> QED
    BY <1>5, <2>1, PutKeeps, GuardKept DEF Found
<1>6. CASE CreateSetHead \/ Spawn
  <2>1. UNCHANGED <<tombs, manifests>> /\ op.pc \in {"head", "spawn"}
    BY <1>6 DEF CreateSetHead, Spawn
  <2>2. PICK where \in {"record", "spawn", "child"} : op' = Goto(where)
    BY <1>6 DEF CreateSetHead, Spawn
  <2> QED
    BY <1>0, <2>1, <2>2, GotoKeeps, GuardKept DEF Found
<1>7. CASE SwapHead \/ Tombstone \/ TombstoneFeed \/ UnlinkLive \/ (Sign /\ op' # Idle)
  <2>1. PICK where \in {"record", "feed", "unlink", "sign"} : op' = Goto(where)
    BY <1>7 DEF SwapHead, Tombstone, TombstoneFeed, UnlinkLive, Sign
  <2> QED
    BY <1>0, <2>1, GotoKeeps, GuardOver
<1>8. ASSUME NEW ch \in Chunks, SweepChunk(ch) PROVE GuardHeld'
  BY <1>0, <1>8, SweepKeeps, GuardOver
<1>9. ASSUME NEW p \in Paths, WriteFile(p) PROVE GuardHeld'
  <2>1. UNCHANGED tombs
    BY <1>9 DEF WriteFile
  <2> QED
    BY <1>0, <1>9, <2>1, WriteKeeps, GuardKept DEF Found
<1>10. ASSUME NEW p \in Paths, RemoveFile(p) PROVE GuardHeld'
  <2>1. UNCHANGED tombs
    BY <1>10 DEF RemoveFile
  <2> QED
    BY <1>0, <1>10, <2>1, RemoveKeeps, GuardKept DEF Found
<1>11. ASSUME NEW failed \in BOOLEAN, ChildExit(failed) PROVE GuardHeld'
  <2>1. UNCHANGED <<tombs, manifests>> /\ op.pc = "child"
    BY <1>11 DEF ChildExit
  <2>2. CASE op' = Goto("record")
    BY <1>0, <2>2, GotoKeeps, GuardOver
  <2>3. CASE op' = Idle
    BY <1>0, <2>3, GuardOver
  <2>4. CASE op' = Applying(Undoing) /\ op' # Idle
    <3>1. /\ op'.cmd = op.cmd /\ op'.files = manifests[op.id].files /\ op'.raced = op.raced
          /\ op'.pre = op.pre
          /\ op'.keep = op.keep
          /\ op'.pc \in {"idle", "write", "remove", "swap"}
      BY <2>1, <2>4, UndoingType, ApplyingKeeps, ApplyingPc
    <3> QED
      BY <2>1, <3>1, GuardKept DEF Found
  <2> QED
    BY <1>11, <2>2, <2>3, <2>4 DEF ChildExit, Undoing
<1>12. ASSUME NEW p \in Paths, NEW c \in Contents \cup {Absent}, Edit(p, c) PROVE GuardHeld'
  <2>1. UNCHANGED <<tombs, manifests>> /\ \A q \in Paths \ {p} : worktree'[q] = worktree[q]
    BY <1>0, <1>12 DEF Edit, Files
  <2>2. /\ op'.pc = op.pc /\ op'.cmd = op.cmd /\ op'.files = op.files
        /\ op'.id = op.id /\ op'.pre = op.pre /\ op'.todo = op.todo
        /\ op'.raced = IF op.pc \in {"idle", "child"} THEN op.raced ELSE op.raced \cup {p}
        /\ op'.keep = op.keep
    BY <1>0, <1>12, EditKeeps
  <2>3. ASSUME op.cmd = "guard", NEW q \in Paths \ (op'.raced \cup Ignored) PROVE Found(q)'
    <3>1. Found(q) /\ (op.pc # "child" /\ op.pc # "idle" => worktree'[q] = worktree[q])
      BY <2>1, <2>2, <2>3 DEF GuardHeld
    <3> QED
      BY <2>1, <2>2, <3>1 DEF Found, AsFound, IsPurged, PathPurged, ContentPurged
  <2> QED
    BY <2>2, <2>3 DEF GuardHeld
<1>13. CASE op' = Idle
  BY <1>0, <1>13, GuardOver
<1> QED
  BY <1>1, <1>2, <1>3, <1>4, <1>5, <1>6, <1>7, <1>8, <1>9, <1>10, <1>11, <1>12, <1>13
     DEF Next, Begin, Step, WriteFails, SpawnFails, Record, Crash

(***************************************************************************)
(* guard --revert (guard.rs 92-104): when its snapshot is applied, every    *)
(* path is as guard found it, whatever the command wrote, except paths     *)
(* other programs wrote and those no snapshot holds.                       *)
(***************************************************************************)
THEOREM GuardGivesBack == Spec => []GuardUndoes
<1>1. Init => GuardHeld
  BY DEF Init, Idle, GuardHeld
<1>2. GuardHeld /\ UNCHANGED vars => GuardHeld'
  BY DEF vars, storeVars, purgeVars, GuardHeld, Found, AsFound, IsPurged, PathPurged, ContentPurged
<1>3. GuardHeld /\ RevertExact => GuardUndoes
  BY DEF GuardHeld, Found, AsFound, RevertExact, GuardUndoes, Applied
<1> QED
  BY <1>1, <1>2, <1>3, GuardHeldStep, RevertsAreExact, TInvHolds, PTL DEF Spec
=============================================================================
