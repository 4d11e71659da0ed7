----------------------------- MODULE FrozenProofs -----------------------------
(***************************************************************************)
(* Theorems about Frozen, for any number of commands, files, contents and  *)
(* cuts: a snapshot made with --apfs is of one instant, and a command      *)
(* whose tools worked leaves nothing behind.                               *)
(***************************************************************************)
EXTENDS Frozen, TLAPS

\* The command works with a cut of its own: from its name to its deletion.
Viewing(p) ==
    \/ pc[p] \in {"mkdir", "mount", "view", "umount", "rmdir", "delete"}
    \/ pc[p] = "read" /\ Apfs(p)

\* The cut is mounted.
Looking(p) == pc[p] \in {"view", "umount"} \/ (pc[p] = "read" /\ Apfs(p))

(***************************************************************************)
(* What a command has at each of its steps: a plain one never has a cut,   *)
(* the cut it names and mounts is its own, and a mount or a temp dir is    *)
(* left behind only by a command that was killed or one of whose tools     *)
(* failed.                                                                 *)
(***************************************************************************)
Stage(p) ==
    /\ pc[p] = "idle" => kind[p] = "plain"
    /\ kind[p] = "plain" =>
          pc[p] \in Ended \cup {"idle", "lock", "read", "record"} /\ own[p] = 0
    /\ pc[p] \in {"idle", "auth", "lock", "cut"} => own[p] = 0 /\ snap[p] = None
    /\ own[p] = 0 => mounted[p] = 0 /\ p \notin dirs
    /\ pc[p] = "resolve" \/ Viewing(p) => own[p] # 0
    /\ Viewing(p) => name[p] = own[p]
    /\ mounted[p] # 0 => mounted[p] = own[p]
    /\ Looking(p) => mounted[p] # 0
    /\ mounted[p] # 0 => Looking(p) \/ pc[p] = "dead" \/ p \in broken
    /\ p \in dirs => Looking(p) \/ pc[p] \in {"mount", "rmdir", "dead"} \/ p \in broken

(***************************************************************************)
(* The cut of a command, while it exists, holds the tree of the moment it  *)
(* was made, it exists while it is mounted, and it is gone when the        *)
(* command is over.                                                        *)
(***************************************************************************)
Held(p) ==
    /\ mounted[p] # 0 => mounted[p] \in DOMAIN cuts
    /\ own[p] # 0 => want[p] \in Trees
    /\ own[p] \in DOMAIN cuts => cuts[own[p]] = want[p]
    /\ pc[p] \in {"record", "chown", "done", "failed"} /\ own[p] \in DOMAIN cuts => p \in broken

(***************************************************************************)
(* What a command has read and saved is the tree of that moment.           *)
(***************************************************************************)
Taken(p) ==
    /\ Apfs(p) /\ snap[p] # None => snap[p].files = want[p]
    /\ Apfs(p) /\ pc[p] = "read" => \A i \in 1..Len(seen[p]) : seen[p][i] = want[p][i]
    /\ pc[p] # "read" => seen[p] = <<>>

\* No two commands share a cut.
Apart == \A p, q \in Procs : own[p] = own[q] /\ own[p] # 0 => p = q

\* What belongs to root is there because of a root command not yet over.
Owned ==
    (\A p \in Procs : Root(p) => kind[p] = "admin" /\ pc[p] = "done")
        => \A f \in Guarded : owner[f] # "root"

FInv ==
    /\ TypeOK
    /\ \A p \in Procs : Stage(p) /\ Held(p) /\ Taken(p)
    /\ Apart
    /\ robbed = {}
    /\ Owned

-----------------------------------------------------------------------------
(* Types.                                                                  *)

(***************************************************************************)
(* A new cut is added under a number no cut ever had.                      *)
(***************************************************************************)
LEMMA CutAdded ==
    ASSUME TypeOK, FreezeTree
    PROVE  /\ minted \in Nat /\ minted' = minted + 1 /\ minted' \in 0..MaxCuts
           /\ DOMAIN cuts' = DOMAIN cuts \cup {minted + 1}
           /\ minted + 1 \notin DOMAIN cuts
           /\ cuts'[minted + 1] = tree
           /\ \A c \in DOMAIN cuts : cuts'[c] = cuts[c]
  <1>1. minted \in Nat /\ minted + 1 \notin DOMAIN cuts
    BY FrozenAssumption DEF TypeOK
  <1> QED
    BY <1>1, FrozenAssumption DEF FreezeTree

LEMMA CutRemoved ==
    ASSUME NEW c, cuts' = [d \in DOMAIN cuts \ {c} |-> cuts[d]]
    PROVE  /\ DOMAIN cuts' = DOMAIN cuts \ {c}
           /\ \A d \in DOMAIN cuts' : cuts'[d] = cuts[d]
  OBVIOUS

Steps == Ended \cup {"idle", "auth", "lock", "cut", "resolve", "mkdir", "mount", "view",
                     "read", "umount", "rmdir", "delete", "record", "chown"}

(***************************************************************************)
(* The fields of TypeOK, in groups that the actions change together.       *)
(***************************************************************************)
EnvType ==
    /\ tree \in Trees
    /\ minted \in 0..MaxCuts
    /\ DOMAIN cuts \subseteq 1..minted
    /\ \A c \in DOMAIN cuts : cuts[c] \in Trees
    /\ dotLocal \in BOOLEAN /\ mountable \in BOOLEAN

FabType ==
    /\ lock \in Procs \cup {None}
    /\ owner \in [Guarded -> {"user", "root", None}]
    /\ kind \in [Procs -> Kinds]
    /\ pc \in [Procs -> Steps]
    /\ snap \in [Procs -> [files : Trees, tagged : BOOLEAN] \cup {None}]

ViewType ==
    /\ name \in [Procs -> 0..minted]
    /\ mounted \in [Procs -> 0..minted]
    /\ own \in [Procs -> 0..minted]
    /\ robbed \subseteq 1..minted

ReadType ==
    /\ dirs \subseteq Procs
    /\ seen \in [Procs -> Seq(Vals)]
    /\ \A p \in Procs : Len(seen[p]) <= NumPaths
    /\ want \in [Procs -> Trees \cup {<<>>}]
    /\ broken \subseteq Procs

LEMMA TypeParts == TypeOK <=> EnvType /\ FabType /\ ViewType /\ ReadType
  BY DEF TypeOK, EnvType, FabType, ViewType, ReadType, Steps

LEMMA TypePartsNext == EnvType' /\ FabType' /\ ViewType' /\ ReadType' => TypeOK'
  BY DEF TypeOK, EnvType, FabType, ViewType, ReadType, Steps

LEMMA EnvTypeKept == EnvType /\ UNCHANGED envVars => EnvType'
  BY DEF EnvType, envVars

LEMMA ViewTypeKept ==
    ViewType /\ UNCHANGED <<name, mounted, own, robbed, minted>> => ViewType'
  BY DEF ViewType

LEMMA ReadTypeKept ==
    ReadType /\ UNCHANGED <<dirs, seen, want, broken>> => ReadType'
  BY DEF ReadType

(***************************************************************************)
(* A new cut leaves every number in range.                                 *)
(***************************************************************************)
LEMMA FreezeTypes ==
    ASSUME TypeOK, FreezeTree, tree' = tree, dotLocal' = dotLocal, mountable' = mountable
    PROVE  EnvType' /\ 0..minted \subseteq 0..minted' /\ 1..minted \subseteq 1..minted'
           /\ minted + 1 \in 0..minted'
  <1>1. EnvType
    BY TypeParts
  <1>2. 1..minted' = 1..minted \cup {minted + 1} /\ 0..minted \subseteq 0..minted'
        /\ minted + 1 \in 0..minted'
    BY CutAdded
  <1>3. DOMAIN cuts' \subseteq 1..minted'
    BY <1>1, <1>2, CutAdded DEF EnvType
  <1>4. \A c \in DOMAIN cuts' : cuts'[c] \in Trees
    BY <1>1, CutAdded DEF EnvType
  <1> QED
    BY <1>1, <1>2, <1>3, <1>4, CutAdded DEF EnvType

LEMMA StoredType ==
    ASSUME FabType, NEW p \in Procs, owner' \in Stored(p)
    PROVE  owner' \in [Guarded -> {"user", "root", None}]
  BY DEF FabType, Stored

(***************************************************************************)
(* What a scan reads is a whole tree: the live one, or a cut that cannot   *)
(* go away while it is mounted.                                            *)
(***************************************************************************)
LEMMA ReadsATree ==
    ASSUME TypeOK, NEW p \in Procs, Stage(p), Held(p), pc[p] = "read"
    PROVE  ScanRoot(p) \in Trees
  <1>1. CASE Apfs(p)
    <2>1. mounted[p] \in DOMAIN cuts
      BY <1>1 DEF Stage, Held, Looking
    <2> QED
      BY <1>1, <2>1 DEF ScanRoot, TypeOK
  <1>2. CASE ~Apfs(p)
    BY <1>2 DEF ScanRoot, TypeOK
  <1> QED
    BY <1>1, <1>2

LEMMA TypeCommand ==
    ASSUME TypeOK, NEW p \in Procs, Stage(p), Held(p), Command(p)
    PROVE  TypeOK'
  <1> USE DEF Goto, Fail, Leave, fabVars, viewVars, histVars
  <1>a. EnvType /\ FabType /\ ViewType /\ ReadType
    BY TypeParts
  <1> SUFFICES EnvType' /\ FabType' /\ ViewType' /\ ReadType'
    BY TypePartsNext
  <1>1. ASSUME NEW k \in Kinds, Begin(p, k) PROVE EnvType' /\ FabType' /\ ViewType' /\ ReadType'
    <2>1. FabType'
      BY <1>a, <1>1 DEF FabType, Begin, Steps
    <2> QED
      BY <1>a, <1>1, <2>1, EnvTypeKept, ViewTypeKept, ReadTypeKept DEF Begin, envVars
  <1>2. ASSUME Authorize(p) \/ NoCut(p) \/ MountRefused(p) \/ View(p) \/ Record(p) \/ Chown(p)
               \/ TryLock(p)
        PROVE EnvType' /\ FabType' /\ ViewType' /\ ReadType'
    <2>1. UNCHANGED <<envVars, kind, snap, viewVars, histVars>>
      BY <1>2 DEF Authorize, NoCut, MountRefused, View, Record, Chown, TryLock
    <2>2. lock' \in Procs \cup {None}
      BY <1>a, <1>2 DEF Authorize, NoCut, MountRefused, View, Record, Chown, TryLock, FabType
    <2>3. pc' \in [Procs -> Steps]
      BY <1>a, <1>2 DEF Authorize, NoCut, MountRefused, View, Record, Chown, TryLock, FabType, Steps,
                        DropFrozen, Ended
    <2>4. owner' \in [Guarded -> {"user", "root", None}]
      <3>1. CASE TryLock(p)
        BY <1>a, <3>1 DEF TryLock, FabType, Touched, Guarded
      <3>2. CASE Chown(p)
        BY <1>a, <3>2 DEF Chown, FabType
      <3>3. CASE owner' = owner
        BY <1>a, <3>3 DEF FabType
      <3> QED
        BY <1>2, <3>1, <3>2, <3>3 DEF Authorize, NoCut, MountRefused, View, Record
    <2>5. FabType'
      BY <1>a, <2>1, <2>2, <2>3, <2>4 DEF FabType
    <2> QED
      BY <1>a, <2>1, <2>5, EnvTypeKept, ViewTypeKept, ReadTypeKept DEF envVars
  <1>3. ASSUME Cut(p) PROVE EnvType' /\ FabType' /\ ViewType' /\ ReadType'
    <2>1. EnvType' /\ 0..minted \subseteq 0..minted' /\ 1..minted \subseteq 1..minted'
          /\ minted + 1 \in 0..minted'
      BY <1>3, FreezeTypes DEF Cut
    <2>2. FabType'
      BY <1>a, <1>3 DEF Cut, FabType, Steps
    <2>3. ViewType'
      BY <1>a, <1>3, <2>1 DEF Cut, ViewType
    <2>4. ReadType'
      BY <1>a, <1>3 DEF Cut, ReadType, EnvType
    <2> QED
      BY <2>1, <2>2, <2>3, <2>4
  <1>4. ASSUME Resolve(p) PROVE EnvType' /\ FabType' /\ ViewType' /\ ReadType'
    <2>1. FabType'
      BY <1>a, <1>4 DEF Resolve, FabType, Steps, Ended
    <2>2. ViewType'
      BY <1>a, <1>4 DEF Resolve, ViewType, Candidate, envVars
    <2> QED
      BY <1>a, <1>4, <2>1, <2>2, EnvTypeKept, ReadTypeKept DEF Resolve
  <1>5. ASSUME EarlyReturn(p) PROVE EnvType' /\ FabType' /\ ViewType' /\ ReadType'
    <2>1. FabType'
      BY <1>a, <1>5 DEF EarlyReturn, FabType, Steps, Ended
    <2>2. ReadType'
      BY <1>a, <1>5 DEF EarlyReturn, ReadType
    <2> QED
      BY <1>a, <1>5, <2>1, <2>2, EnvTypeKept, ViewTypeKept DEF EarlyReturn, envVars
  <1>6. ASSUME MakeDir(p) \/ RemoveDir(p) PROVE EnvType' /\ FabType' /\ ViewType' /\ ReadType'
    <2>1. FabType'
      BY <1>a, <1>6 DEF MakeDir, RemoveDir, FabType, Steps
    <2>2. ReadType'
      BY <1>a, <1>6 DEF MakeDir, RemoveDir, ReadType
    <2> QED
      BY <1>a, <1>6, <2>1, <2>2, EnvTypeKept, ViewTypeKept DEF MakeDir, RemoveDir, envVars
  <1>7. ASSUME Mount(p) \/ Unmount(p) PROVE EnvType' /\ FabType' /\ ViewType' /\ ReadType'
    <2>1. FabType'
      BY <1>a, <1>7 DEF Mount, Unmount, FabType, Steps
    <2>2. 0 \in 0..minted
      BY <1>a DEF EnvType
    <2>3. ViewType'
      BY <1>a, <1>7, <2>2 DEF Mount, Unmount, ViewType, envVars
    <2>4. ReadType'
      BY <1>a, <1>7 DEF Mount, Unmount, ReadType
    <2> QED
      BY <1>a, <1>7, <2>1, <2>3, <2>4, EnvTypeKept DEF Mount, Unmount
  <1>8. ASSUME Read(p) PROVE EnvType' /\ FabType' /\ ViewType' /\ ReadType'
    <2>1. FabType'
      BY <1>a, <1>8, StoredType DEF Read, FabType
    <2>2. ScanRoot(p)[Len(seen[p]) + 1] \in Vals
      <3>1. Len(seen[p]) + 1 \in 1..NumPaths
        BY <1>a, <1>8, FrozenAssumption DEF Read, ReadType
      <3>2. ScanRoot(p) \in Trees
        BY <1>8, ReadsATree DEF Read
      <3> QED
        BY <3>1, <3>2 DEF Trees
    <2>3. seen' = [seen EXCEPT ![p] = Append(seen[p], ScanRoot(p)[Len(seen[p]) + 1])]
          /\ Len(seen[p]) < NumPaths /\ seen[p] \in Seq(Vals) /\ Len(seen[p]) \in Nat
      BY <1>a, <1>8 DEF Read, ReadType
    <2>4. /\ Append(seen[p], ScanRoot(p)[Len(seen[p]) + 1]) \in Seq(Vals)
          /\ Len(Append(seen[p], ScanRoot(p)[Len(seen[p]) + 1])) <= NumPaths
      BY <2>2, <2>3, FrozenAssumption
    <2>5. seen' \in [Procs -> Seq(Vals)] /\ \A q \in Procs : Len(seen'[q]) <= NumPaths
      BY <1>a, <2>3, <2>4 DEF ReadType
    <2>6. ReadType'
      BY <1>a, <1>8, <2>5 DEF Read, ReadType
    <2> QED
      BY <1>a, <1>8, <2>1, <2>6, EnvTypeKept, ViewTypeKept DEF Read, envVars
  <1>9. ASSUME Commit(p) PROVE EnvType' /\ FabType' /\ ViewType' /\ ReadType'
    <2>1. seen[p] \in Trees
      BY <1>a, <1>9 DEF Commit, ReadType, Trees
    <2>2. [files |-> seen[p], tagged |-> Tagged(p)] \in [files : Trees, tagged : BOOLEAN]
      BY <2>1 DEF Tagged
    <2>3. snap' \in [Procs -> [files : Trees, tagged : BOOLEAN] \cup {None}]
      BY <1>a, <1>9, <2>2 DEF Commit, FabType
    <2>4. FabType'
      BY <1>a, <1>9, <2>3, StoredType DEF Commit, FabType, Steps, DropFrozen
    <2>5. ReadType'
      BY <1>a, <1>9, FrozenAssumption DEF Commit, ReadType
    <2> QED
      BY <1>a, <1>9, <2>4, <2>5, EnvTypeKept, ViewTypeKept DEF Commit, envVars
  <1>10. ASSUME Abort(p) PROVE EnvType' /\ FabType' /\ ViewType' /\ ReadType'
    <2>1. FabType'
      BY <1>a, <1>10 DEF Abort, FabType, Steps, DropFrozen, Ended
    <2>2. ReadType'
      BY <1>a, <1>10, FrozenAssumption DEF Abort, ReadType
    <2> QED
      BY <1>a, <1>10, <2>1, <2>2, EnvTypeKept, ViewTypeKept DEF Abort, envVars
  <1>11. ASSUME DeleteSnapshot(p) PROVE EnvType' /\ FabType' /\ ViewType' /\ ReadType'
    <2>1. EnvType'
      BY <1>a, <1>11 DEF DeleteSnapshot, EnvType
    <2>2. FabType'
      BY <1>a, <1>11 DEF DeleteSnapshot, FabType, Steps, Ended
    <2>3. robbed' \subseteq 1..minted
      BY <1>a, <1>11 DEF DeleteSnapshot, EnvType, ViewType
    <2>4. ViewType'
      BY <1>a, <1>11, <2>3 DEF DeleteSnapshot, ViewType
    <2>5. ReadType'
      BY <1>a, <1>11 DEF DeleteSnapshot, ReadType
    <2> QED
      BY <2>1, <2>2, <2>4, <2>5
  <1> QED
    BY <1>1, <1>2, <1>3, <1>4, <1>5, <1>6, <1>7, <1>8, <1>9, <1>10, <1>11 DEF Command

LEMMA TypeStep ==
    ASSUME TypeOK, \A p \in Procs : Stage(p) /\ Held(p), [Next]_vars
    PROVE  TypeOK'
  <1>a. EnvType /\ FabType /\ ViewType /\ ReadType
    BY TypeParts
  <1>1. ASSUME NEW p \in Procs, Command(p) PROVE TypeOK'
    BY <1>1, TypeCommand
  <1>2. ASSUME NEW p \in Procs, Kill(p) PROVE TypeOK'
    <2>1. FabType'
      BY <1>a, <1>2 DEF Kill, Leave, Goto, FabType, Steps, Ended
    <2>2. ReadType'
      BY <1>a, <1>2, FrozenAssumption DEF Kill, histVars, ReadType
    <2> QED
      BY <1>a, <1>2, <2>1, <2>2, TypePartsNext, EnvTypeKept, ViewTypeKept DEF Kill, envVars, histVars
  <1>3. ASSUME NEW i \in 1..NumPaths, NEW v \in Vals, Edit(i, v) PROVE TypeOK'
    <2>1. EnvType'
      BY <1>a, <1>3 DEF Edit, EnvType, Trees
    <2>2. FabType'
      BY <1>a, <1>3 DEF Edit, FabType, fabVars
    <2> QED
      BY <1>a, <1>3, <2>1, <2>2, TypePartsNext, ViewTypeKept, ReadTypeKept DEF Edit, viewVars, histVars
  <1>4. ASSUME TimeMachine PROVE TypeOK'
    <2>1. EnvType' /\ 0..minted \subseteq 0..minted' /\ 1..minted \subseteq 1..minted'
      BY <1>4, FreezeTypes DEF TimeMachine
    <2>2. FabType'
      BY <1>a, <1>4 DEF TimeMachine, FabType, fabVars
    <2>3. ViewType'
      BY <1>a, <1>4, <2>1 DEF TimeMachine, ViewType, viewVars, histVars
    <2> QED
      BY <1>a, <1>4, <2>1, <2>2, <2>3, TypePartsNext, ReadTypeKept DEF TimeMachine, viewVars, histVars
  <1>5. ASSUME NEW c \in DOMAIN cuts, Thin(c) PROVE TypeOK'
    <2>1. EnvType'
      BY <1>a, <1>5 DEF Thin, EnvType
    <2>2. FabType'
      BY <1>a, <1>5 DEF Thin, FabType, fabVars
    <2> QED
      BY <1>a, <1>5, <2>1, <2>2, TypePartsNext, ViewTypeKept, ReadTypeKept DEF Thin, viewVars, histVars
  <1>6. CASE UNCHANGED vars
    BY <1>6 DEF vars, envVars, fabVars, viewVars, histVars, TypeOK
  <1> QED
    BY <1>1, <1>2, <1>3, <1>4, <1>5, <1>6 DEF Next

-----------------------------------------------------------------------------
(* What a step leaves alone.                                               *)

\* What command q has, but for its step.
Same(q) ==
    /\ kind'[q] = kind[q] /\ name'[q] = name[q] /\ mounted'[q] = mounted[q]
    /\ seen'[q] = seen[q] /\ snap'[q] = snap[q]
    /\ own'[q] = own[q] /\ want'[q] = want[q]
    /\ (q \in dirs' <=> q \in dirs) /\ (q \in broken' <=> q \in broken)

Still(q) == pc'[q] = pc[q] /\ Same(q)

Only(p) == \A q \in Procs \ {p} : Still(q)

(***************************************************************************)
(* No cut changes, a new one has a new number, and none that is mounted    *)
(* goes away.                                                              *)
(***************************************************************************)
CutsKept ==
    /\ \A c \in DOMAIN cuts : c \in DOMAIN cuts' => cuts'[c] = cuts[c]
    /\ \A c \in DOMAIN cuts' : c \in DOMAIN cuts \/ c \notin 0..minted
    /\ \A c \in DOMAIN cuts : c \in DOMAIN cuts' \/ ~Busy(c)

LEMMA CutsSame == cuts' = cuts => CutsKept
  BY DEF CutsKept

LEMMA CutsFrozen ==
    ASSUME TypeOK, FreezeTree
    PROVE  CutsKept
  BY CutAdded DEF CutsKept

LEMMA CutsThinned ==
    ASSUME NEW c, ~Busy(c), cuts' = [d \in DOMAIN cuts \ {c} |-> cuts[d]]
    PROVE  CutsKept
  BY CutRemoved DEF CutsKept

LEMMA StillKept ==
    ASSUME TypeOK, CutsKept, NEW q \in Procs, Still(q), Stage(q) /\ Held(q) /\ Taken(q)
    PROVE  Stage(q)' /\ Held(q)' /\ Taken(q)'
  <1>a. own[q] \in 0..minted
    BY DEF TypeOK
  <1>1. Stage(q)'
    BY DEF Still, Same, Stage, Viewing, Looking, Apfs
  <1>2. mounted[q] # 0 => mounted[q] \in DOMAIN cuts'
    BY DEF Held, CutsKept, Busy
  <1>3. own[q] \in DOMAIN cuts' => own[q] \in DOMAIN cuts /\ cuts'[own[q]] = cuts[own[q]]
    BY <1>a DEF CutsKept
  <1>4. Held(q)'
    BY <1>2, <1>3 DEF Still, Same, Held
  <1>5. Taken(q)'
    BY DEF Still, Same, Taken, Apfs
  <1> QED
    BY <1>1, <1>4, <1>5

(***************************************************************************)
(* A step of one command.                                                  *)
(***************************************************************************)
LEMMA Combine ==
    ASSUME FInv, TypeOK', NEW p \in Procs, Only(p), CutsKept,
           Stage(p)' /\ Held(p)' /\ Taken(p)', own' = own, robbed' = robbed, Owned'
    PROVE  FInv'
  <1>1. \A q \in Procs \ {p} : Stage(q)' /\ Held(q)' /\ Taken(q)'
    BY StillKept DEF FInv, Only
  <1>2. Apart'
    BY DEF FInv, Apart
  <1> QED
    BY <1>1, <1>2 DEF FInv

(***************************************************************************)
(* What belongs to root: nothing changes, or the command is not over.      *)
(***************************************************************************)
LEMMA OwnedQuiet ==
    ASSUME FInv, owner' = owner, kind' = kind, NEW p \in Procs, NEW l,
           pc' = [pc EXCEPT ![p] = l], l = "done" => kind[p] # "admin"
    PROVE  Owned'
  <1>1. pc'[p] = l /\ \A q \in Procs \ {p} : pc'[q] = pc[q]
    BY DEF FInv, TypeOK
  <1>2. kind[p] = "admin" => Root(p)
    BY DEF Root
  <1>3. CASE kind[p] = "admin"
    BY <1>1, <1>2, <1>3 DEF Owned, Root
  <1>4. CASE kind[p] # "admin"
    BY <1>1, <1>4 DEF FInv, Owned, Root
  <1> QED
    BY <1>3, <1>4

LEMMA OwnedWrite ==
    ASSUME FInv, NEW p \in Procs, kind' = kind, owner' \in Stored(p), pc'[p] # "done",
           \A q \in Procs \ {p} : pc'[q] = pc[q], pc[p] # "done"
    PROVE  Owned'
  <1>1. CASE Root(p)
    BY <1>1 DEF Owned, Root
  <1>2. CASE ~Root(p)
    <2>1. owner' = owner
      BY <1>2 DEF Stored
    <2> QED
      BY <1>2, <2>1 DEF FInv, Owned, Root
  <1> QED
    BY <1>1, <1>2

(***************************************************************************)
(* Steps that only move the command: what it has fits where it goes.       *)
(***************************************************************************)
LEMMA Moves ==
    ASSUME FInv, TypeOK', NEW p \in Procs, NEW l, pc' = [pc EXCEPT ![p] = l],
           UNCHANGED <<kind, viewVars, snap, histVars, cuts>>, Owned',
           pc[p] # "read",
           Stage(p)', own[p] \in DOMAIN cuts /\ l \in {"record", "chown", "done", "failed"}
                         => p \in broken
    PROVE  FInv'
  <1>1. pc'[p] = l /\ Same(p) /\ Only(p)
    BY DEF FInv, TypeOK, Same, Only, Still, viewVars, histVars
  <1>2. Held(p)'
    BY <1>1 DEF FInv, Held, Same
  <1>3. Taken(p)'
    BY <1>1 DEF FInv, Taken, Same, Apfs
  <1> QED
    BY <1>1, <1>2, <1>3, CutsSame, Combine DEF histVars

LEMMA AuthorizeStep ==
    ASSUME FInv, TypeOK', NEW p \in Procs, Authorize(p)
    PROVE  FInv'
  <1>1. PICK l \in {"lock", "failed"} : pc' = [pc EXCEPT ![p] = l]
    BY DEF Authorize, Fail, Leave, Goto
  <1>2. UNCHANGED <<kind, viewVars, snap, histVars, cuts, owner>> /\ pc[p] = "auth"
    BY DEF Authorize, envVars
  <1>3. Owned'
    BY <1>1, <1>2, OwnedQuiet
  <1>4. pc'[p] = l /\ Same(p)
    BY <1>1, <1>2 DEF FInv, TypeOK, Same, viewVars, histVars
  <1>a. Stage(p) /\ 0 \notin DOMAIN cuts
    BY DEF FInv, TypeOK
  <1>5. Stage(p)'
    BY <1>a, <1>1, <1>2, <1>4 DEF Stage, Same, Viewing, Looking, Apfs, Ended
  <1>6. own[p] \notin DOMAIN cuts
    BY <1>a, <1>2 DEF Stage
  <1> QED
    BY <1>1, <1>2, <1>3, <1>5, <1>6, Moves

LEMMA TryLockStep ==
    ASSUME FInv, TypeOK', NEW p \in Procs, TryLock(p)
    PROVE  FInv'
  <1>1. PICK l \in {"failed", "cut", "read"} :
            pc' = [pc EXCEPT ![p] = l] /\ (l = "cut" => Apfs(p)) /\ (l = "read" => ~Apfs(p))
    BY DEF TryLock, Fail, Leave, Goto
  <1>2. UNCHANGED <<kind, viewVars, snap, histVars, cuts>> /\ pc[p] = "lock"
    BY DEF TryLock, envVars
  <1>4. pc'[p] = l /\ Same(p) /\ \A q \in Procs \ {p} : pc'[q] = pc[q]
    BY <1>1, <1>2 DEF FInv, TypeOK, Same, viewVars, histVars
  <1>3. Owned'
    <2>1. CASE Root(p)
      BY <1>1, <1>2, <1>4, <2>1 DEF Owned, Root
    <2>2. CASE ~Root(p)
      <3>1. owner \in [Guarded -> {"user", "root", None}]
        BY DEF FInv, TypeOK
      <3>2. \A f \in Guarded : owner'[f] = "root" => owner[f] = "root"
        BY <2>2, <3>1 DEF TryLock, Touched
      <3> QED
        BY <1>1, <1>2, <1>4, <2>2, <3>2 DEF FInv, Owned, Root
    <2> QED
      BY <2>1, <2>2
  <1>a. Stage(p) /\ 0 \notin DOMAIN cuts
    BY DEF FInv, TypeOK
  <1>5. Stage(p)'
    BY <1>a, <1>1, <1>2, <1>4 DEF Stage, Same, Viewing, Looking, Apfs, Ended
  <1>6. own[p] \notin DOMAIN cuts
    BY <1>a, <1>2 DEF Stage
  <1> QED
    BY <1>1, <1>2, <1>3, <1>5, <1>6, Moves

LEMMA NoCutStep ==
    ASSUME FInv, TypeOK', NEW p \in Procs, NoCut(p)
    PROVE  FInv'
  <1>1. UNCHANGED <<kind, viewVars, snap, histVars, cuts, owner>> /\ pc[p] = "cut"
        /\ pc' = [pc EXCEPT ![p] = "failed"]
    BY DEF NoCut, Fail, Leave, Goto, envVars
  <1>2. Owned'
    BY <1>1, OwnedQuiet
  <1>3. pc'[p] = "failed" /\ Same(p)
    BY <1>1 DEF FInv, TypeOK, Same, viewVars, histVars
  <1>a. Stage(p) /\ 0 \notin DOMAIN cuts
    BY DEF FInv, TypeOK
  <1>4. Stage(p)'
    BY <1>a, <1>1, <1>3 DEF Stage, Same, Viewing, Looking, Apfs, Ended
  <1> QED
    BY <1>a, <1>1, <1>2, <1>4, Moves DEF Stage

LEMMA MountRefusedStep ==
    ASSUME FInv, TypeOK', NEW p \in Procs, MountRefused(p)
    PROVE  FInv'
  <1>1. UNCHANGED <<kind, viewVars, snap, histVars, cuts, owner>> /\ pc[p] = "mount"
        /\ pc' = [pc EXCEPT ![p] = "rmdir"]
    BY DEF MountRefused, Goto, envVars, fabVars
  <1>2. Owned'
    BY <1>1, OwnedQuiet
  <1>3. pc'[p] = "rmdir" /\ Same(p)
    BY <1>1 DEF FInv, TypeOK, Same, viewVars, histVars
  <1>4. Stage(p)'
    BY <1>1, <1>3 DEF FInv, Stage, Same, Viewing, Looking, Apfs, Ended
  <1> QED
    BY <1>1, <1>2, <1>4, Moves

LEMMA ViewStep ==
    ASSUME FInv, TypeOK', NEW p \in Procs, View(p)
    PROVE  FInv'
  <1>1. PICK l \in {"read", "umount"} : pc' = [pc EXCEPT ![p] = l]
    BY DEF View, Goto, DropFrozen
  <1>2. UNCHANGED <<kind, viewVars, snap, histVars, cuts, owner>> /\ pc[p] = "view"
    BY DEF View, envVars, fabVars
  <1>3. Owned'
    BY <1>1, <1>2, OwnedQuiet
  <1>4. pc'[p] = l /\ Same(p)
    BY <1>1, <1>2 DEF FInv, TypeOK, Same, viewVars, histVars
  <1>5. Stage(p)'
    BY <1>1, <1>2, <1>4 DEF FInv, Stage, Same, Viewing, Looking, Apfs, Ended
  <1> QED
    BY <1>1, <1>2, <1>3, <1>5, Moves

LEMMA RecordStep ==
    ASSUME FInv, TypeOK', NEW p \in Procs, Record(p)
    PROVE  FInv'
  <1>1. PICK l \in {"failed", "chown", "done"} :
            /\ pc' = [pc EXCEPT ![p] = l] /\ (l = "chown" => kind[p] = "admin")
            /\ l = "done" => kind[p] # "admin"
    BY DEF Record, Fail, Leave, Goto
  <1>2. UNCHANGED <<kind, viewVars, snap, histVars, cuts, owner>> /\ pc[p] = "record"
    BY DEF Record, envVars
  <1>3. Owned'
    BY <1>1, <1>2, OwnedQuiet
  <1>4. pc'[p] = l /\ Same(p)
    BY <1>1, <1>2 DEF FInv, TypeOK, Same, viewVars, histVars
  <1>5. Stage(p)'
    BY <1>1, <1>2, <1>4 DEF FInv, Stage, Same, Viewing, Looking, Apfs, Ended
  <1>6. own[p] \in DOMAIN cuts => p \in broken
    BY <1>2 DEF FInv, Held
  <1> QED
    BY <1>1, <1>2, <1>3, <1>5, <1>6, Moves

LEMMA ChownStep ==
    ASSUME FInv, TypeOK', NEW p \in Procs, Chown(p)
    PROVE  FInv'
  <1>1. PICK l \in {"failed", "done"} :
            /\ pc' = [pc EXCEPT ![p] = l]
            /\ (owner' = owner /\ l = "failed") \/ owner' = [f \in Guarded |-> "user"]
    BY DEF Chown, Goto
  <1>2. UNCHANGED <<kind, viewVars, snap, histVars, cuts>> /\ pc[p] = "chown"
    BY DEF Chown, envVars
  <1>3. Owned'
    <2>1. CASE owner' = owner /\ l = "failed"
      BY <1>1, <1>2, <2>1, OwnedQuiet
    <2>2. CASE owner' = [f \in Guarded |-> "user"]
      BY <2>2 DEF Owned
    <2> QED
      BY <1>1, <2>1, <2>2
  <1>4. pc'[p] = l /\ Same(p)
    BY <1>1, <1>2 DEF FInv, TypeOK, Same, viewVars, histVars
  <1>5. Stage(p)'
    BY <1>1, <1>2, <1>4 DEF FInv, Stage, Same, Viewing, Looking, Apfs, Ended
  <1>6. own[p] \in DOMAIN cuts => p \in broken
    BY <1>2 DEF FInv, Held
  <1> QED
    BY <1>1, <1>2, <1>3, <1>5, <1>6, Moves

LEMMA BeginStep ==
    ASSUME FInv, TypeOK', NEW p \in Procs, NEW k \in Kinds, Begin(p, k)
    PROVE  FInv'
  <1>1. PICK l \in {"auth", "lock"} : pc' = [pc EXCEPT ![p] = l] /\ (l = "auth" => k = "admin")
    BY DEF Begin, Goto
  <1>2. UNCHANGED <<viewVars, snap, histVars, cuts, owner>> /\ pc[p] = "idle"
        /\ kind' = [kind EXCEPT ![p] = k]
    BY DEF Begin, envVars, fabVars
  <1>3. /\ pc'[p] = l /\ kind'[p] = k /\ name'[p] = name[p] /\ mounted'[p] = mounted[p]
        /\ seen' = seen /\ snap' = snap /\ own' = own /\ want' = want /\ dirs' = dirs
        /\ broken' = broken /\ robbed' = robbed /\ Only(p)
    BY <1>1, <1>2 DEF FInv, TypeOK, Only, Still, Same, viewVars, histVars
  <1>a. Stage(p) /\ Held(p) /\ Taken(p)
    BY DEF FInv
  <1>4. Stage(p)'
    BY <1>a, <1>1, <1>2, <1>3 DEF Stage, Viewing, Looking, Apfs, Ended
  <1>5. Held(p)'
    BY <1>a, <1>1, <1>2, <1>3 DEF Held, Stage
  <1>6. Taken(p)'
    BY <1>a, <1>1, <1>2, <1>3 DEF Taken, Stage
  <1>7. Owned'
    <2>1. CASE Root(p)'
      BY <1>1, <1>3, <2>1 DEF Owned
    <2>2. CASE ~Root(p)'
      <3>1. ~Root(p)
        BY <1>a, <1>2 DEF Stage, Root
      <3> QED
        BY <1>2, <1>3, <2>2, <3>1 DEF FInv, Owned, Root, Only, Still, Same
    <2> QED
      BY <2>1, <2>2
  <1> QED
    BY <1>2, <1>3, <1>4, <1>5, <1>6, <1>7, CutsSame, Combine

LEMMA ResolveStep ==
    ASSUME FInv, TypeOK', NEW p \in Procs, Resolve(p)
    PROVE  FInv'
  <1>a. Stage(p) /\ Held(p) /\ Taken(p)
    BY DEF FInv
  <1>1. UNCHANGED <<kind, mounted, dirs, seen, snap, histVars, cuts, owner>> /\ pc[p] = "resolve"
    BY DEF Resolve, envVars
  <1>2. CASE own[p] \in DOMAIN cuts
    <2>1. name' = [name EXCEPT ![p] = own[p]] /\ pc' = [pc EXCEPT ![p] = "mkdir"]
      BY <1>2 DEF Resolve, Candidate, Goto
    <2>2. /\ pc'[p] = "mkdir" /\ name'[p] = own[p] /\ own' = own /\ want' = want
          /\ broken' = broken /\ robbed' = robbed /\ Only(p)
      BY <1>1, <2>1 DEF FInv, TypeOK, Only, Still, Same, histVars
    <2>3. Owned'
      BY <1>1, <2>1, OwnedQuiet
    <2>4. Stage(p)' /\ Held(p)' /\ Taken(p)'
      BY <1>a, <1>1, <2>2 DEF Stage, Held, Taken, Viewing, Looking, Apfs, Ended
    <2> QED
      BY <1>1, <2>2, <2>3, <2>4, CutsSame, Combine
  <1>3. CASE own[p] \notin DOMAIN cuts
    <2>1. name' = name /\ pc' = [pc EXCEPT ![p] = "failed"]
      BY <1>3 DEF Resolve, Candidate, Fail, Leave, Goto
    <2>2. pc'[p] = "failed" /\ Same(p) /\ UNCHANGED viewVars
      BY <1>1, <2>1 DEF FInv, TypeOK, Same, viewVars, histVars
    <2>3. Owned'
      BY <1>1, <2>1, OwnedQuiet
    <2>4. Stage(p)'
      BY <1>a, <1>1, <2>2 DEF Stage, Same, Viewing, Looking, Apfs, Ended
    <2> QED
      BY <1>1, <1>3, <2>1, <2>2, <2>3, <2>4, Moves
  <1> QED
    BY <1>2, <1>3

LEMMA EarlyReturnStep ==
    ASSUME FInv, TypeOK', NEW p \in Procs, EarlyReturn(p)
    PROVE  FInv'
  <1>a. Stage(p) /\ Held(p) /\ Taken(p)
    BY DEF FInv
  <1>1. /\ UNCHANGED <<kind, viewVars, snap, own, want, robbed, cuts, owner>>
        /\ pc[p] \in {"resolve", "mkdir", "view"} /\ pc' = [pc EXCEPT ![p] = "failed"]
        /\ broken' = broken \cup {p}
    BY DEF EarlyReturn, Fail, Leave, Goto, envVars
  <1>2. /\ pc'[p] = "failed" /\ name' = name /\ mounted' = mounted /\ dirs' = dirs /\ seen' = seen
        /\ p \in broken' /\ Only(p)
    BY <1>1 DEF FInv, TypeOK, Only, Still, Same, viewVars
  <1>3. Owned'
    BY <1>1, OwnedQuiet
  <1>4. Stage(p)' /\ Held(p)' /\ Taken(p)'
    BY <1>a, <1>1, <1>2 DEF Stage, Held, Taken, Viewing, Looking, Apfs, Ended
  <1> QED
    BY <1>1, <1>2, <1>3, <1>4, CutsSame, Combine

LEMMA MakeDirStep ==
    ASSUME FInv, TypeOK', NEW p \in Procs, MakeDir(p)
    PROVE  FInv'
  <1>a. Stage(p) /\ Held(p) /\ Taken(p)
    BY DEF FInv
  <1>1. /\ UNCHANGED <<kind, name, mounted, seen, snap, histVars, cuts, owner>>
        /\ pc[p] = "mkdir" /\ pc' = [pc EXCEPT ![p] = "mount"] /\ dirs' = dirs \cup {p}
    BY DEF MakeDir, Goto, envVars, fabVars
  <1>2. /\ pc'[p] = "mount" /\ own' = own /\ want' = want /\ broken' = broken /\ robbed' = robbed
        /\ Only(p)
    BY <1>1 DEF FInv, TypeOK, Only, Still, Same, histVars
  <1>3. Owned'
    BY <1>1, OwnedQuiet
  <1>4. Stage(p)' /\ Held(p)' /\ Taken(p)'
    BY <1>a, <1>1, <1>2 DEF Stage, Held, Taken, Viewing, Looking, Apfs, Ended
  <1> QED
    BY <1>1, <1>2, <1>3, <1>4, CutsSame, Combine

LEMMA RemoveDirStep ==
    ASSUME FInv, TypeOK', NEW p \in Procs, RemoveDir(p)
    PROVE  FInv'
  <1>a. Stage(p) /\ Held(p) /\ Taken(p)
    BY DEF FInv
  <1>1. /\ UNCHANGED <<kind, name, mounted, seen, snap, histVars, cuts, owner>>
        /\ pc[p] = "rmdir" /\ pc' = [pc EXCEPT ![p] = "delete"]
        /\ dirs' = IF mounted[p] = 0 THEN dirs \ {p} ELSE dirs
    BY DEF RemoveDir, Goto, envVars, fabVars
  <1>2. /\ pc'[p] = "delete" /\ own' = own /\ want' = want /\ broken' = broken /\ robbed' = robbed
        /\ Only(p) /\ (p \in dirs' => mounted[p] # 0)
    BY <1>1 DEF FInv, TypeOK, Only, Still, Same, histVars
  <1>3. Owned'
    BY <1>1, OwnedQuiet
  <1>4. mounted[p] # 0 => p \in broken
    BY <1>a, <1>1 DEF Stage, Looking
  <1>5. own[p] # 0 /\ name[p] = own[p]
    BY <1>a, <1>1 DEF Stage, Viewing
  <1>6. Stage(p)'
    BY <1>a, <1>1, <1>2, <1>4, <1>5 DEF Stage, Viewing, Looking, Apfs, Ended
  <1>7. Held(p)' /\ Taken(p)'
    BY <1>a, <1>1, <1>2 DEF Held, Taken, Apfs
  <1> QED
    BY <1>1, <1>2, <1>3, <1>6, <1>7, CutsSame, Combine

LEMMA MountStep ==
    ASSUME FInv, TypeOK', NEW p \in Procs, Mount(p)
    PROVE  FInv'
  <1>a. Stage(p) /\ Held(p) /\ Taken(p)
    BY DEF FInv
  <1>1. /\ UNCHANGED <<kind, name, dirs, seen, snap, histVars, cuts, owner>>
        /\ pc[p] = "mount" /\ pc' = [pc EXCEPT ![p] = "view"]
        /\ mounted' = [mounted EXCEPT ![p] = name[p]] /\ name[p] \in DOMAIN cuts
    BY DEF Mount, Goto, envVars, fabVars
  <1>2. /\ pc'[p] = "view" /\ mounted'[p] = name[p] /\ own' = own /\ want' = want
        /\ broken' = broken /\ robbed' = robbed /\ Only(p)
    BY <1>1 DEF FInv, TypeOK, Only, Still, Same, histVars
  <1>3. Owned'
    BY <1>1, OwnedQuiet
  <1>4. own[p] # 0 /\ name[p] = own[p]
    BY <1>a, <1>1 DEF Stage, Viewing
  <1>5. Stage(p)'
    BY <1>a, <1>1, <1>2, <1>4 DEF Stage, Viewing, Looking, Apfs, Ended
  <1>6. Held(p)' /\ Taken(p)'
    BY <1>a, <1>1, <1>2 DEF Held, Taken, Apfs
  <1> QED
    BY <1>1, <1>2, <1>3, <1>5, <1>6, CutsSame, Combine

LEMMA UnmountStep ==
    ASSUME FInv, TypeOK', NEW p \in Procs, Unmount(p)
    PROVE  FInv'
  <1>a. Stage(p) /\ Held(p) /\ Taken(p)
    BY DEF FInv
  <1>1. /\ UNCHANGED <<kind, name, dirs, seen, snap, own, want, robbed, cuts, owner>>
        /\ pc[p] = "umount" /\ pc' = [pc EXCEPT ![p] = "rmdir"]
        /\ \/ mounted' = [mounted EXCEPT ![p] = 0] /\ broken' = broken
           \/ mounted' = mounted /\ broken' = broken \cup {p}
    BY DEF Unmount, Goto, envVars, fabVars
  <1>2. /\ pc'[p] = "rmdir" /\ Only(p)
        /\ \/ mounted'[p] = 0 /\ broken' = broken
           \/ mounted'[p] = mounted[p] /\ p \in broken'
    BY <1>1 DEF FInv, TypeOK, Only, Still, Same
  <1>3. Owned'
    BY <1>1, OwnedQuiet
  <1>4. own[p] # 0 /\ name[p] = own[p]
    BY <1>a, <1>1 DEF Stage, Viewing
  <1>5. Stage(p)'
    BY <1>a, <1>1, <1>2, <1>4 DEF Stage, Viewing, Looking, Apfs, Ended
  <1>6. Held(p)' /\ Taken(p)'
    BY <1>a, <1>1, <1>2 DEF Held, Taken, Apfs
  <1> QED
    BY <1>1, <1>2, <1>3, <1>5, <1>6, CutsSame, Combine

(***************************************************************************)
(* The cut of a command is new, so it is no other command's, and holds the *)
(* tree as it is now.                                                      *)
(***************************************************************************)
LEMMA CutStep ==
    ASSUME FInv, TypeOK', NEW p \in Procs, Cut(p)
    PROVE  FInv'
  <1>a. TypeOK /\ Stage(p) /\ Held(p) /\ Taken(p)
    BY DEF FInv
  <1>1. /\ UNCHANGED <<kind, name, mounted, dirs, seen, snap, owner, broken, robbed>>
        /\ pc[p] = "cut" /\ pc' = [pc EXCEPT ![p] = "resolve"] /\ FreezeTree
        /\ own' = [own EXCEPT ![p] = minted + 1] /\ want' = [want EXCEPT ![p] = tree]
    BY DEF Cut, Goto, fabVars, viewVars
  <1>2. /\ pc'[p] = "resolve" /\ own'[p] = minted + 1 /\ want'[p] = tree /\ Only(p)
    BY <1>a, <1>1 DEF TypeOK, Only, Still, Same
  <1>3. Owned'
    BY <1>1, OwnedQuiet
  <1>b. minted \in Nat /\ minted + 1 # 0 /\ tree \in Trees /\ cuts'[minted + 1] = tree
        /\ own \in [Procs -> 0..minted]
    <2>1. minted \in Nat /\ cuts'[minted + 1] = tree
      BY <1>a, <1>1, CutAdded
    <2>2. tree \in Trees /\ own \in [Procs -> 0..minted]
      BY <1>a DEF TypeOK
    <2> QED
      BY <2>1, <2>2
  <1>c. own[p] = 0 /\ mounted[p] = 0 /\ p \notin dirs /\ snap[p] = None /\ kind[p] # "plain"
    BY <1>a, <1>1 DEF Stage, Ended
  <1>4. Stage(p)'
    BY <1>1, <1>2, <1>b, <1>c DEF Stage, Viewing, Looking, Apfs, Ended
  <1>5. Held(p)'
    BY <1>1, <1>2, <1>b, <1>c DEF Held
  <1>6. Taken(p)'
    BY <1>a, <1>1, <1>2, <1>c DEF Taken, Apfs
  <1>7. \A q \in Procs \ {p} : Stage(q)' /\ Held(q)' /\ Taken(q)'
    BY <1>1, <1>2, CutsFrozen, StillKept DEF FInv, Only
  <1>8. \A q \in Procs \ {p} : own'[q] = own[q] /\ own[q] # minted + 1
    BY <1>b, <1>1
  <1>9. Apart'
    BY <1>2, <1>8 DEF FInv, Apart
  <1> QED
    BY <1>1, <1>3, <1>4, <1>5, <1>6, <1>7, <1>9 DEF FInv

(***************************************************************************)
(* The next file read from a mounted cut is as it was at the cut.          *)
(***************************************************************************)
LEMMA ReadStep ==
    ASSUME FInv, TypeOK', NEW p \in Procs, Read(p)
    PROVE  FInv'
  <1>a. TypeOK /\ Stage(p) /\ Held(p) /\ Taken(p)
    BY DEF FInv
  <1> DEFINE n == Len(seen[p])
             v == ScanRoot(p)[n + 1]
  <1>1. /\ UNCHANGED <<kind, pc, name, mounted, dirs, snap, histVars, cuts>>
        /\ pc[p] = "read" /\ n < NumPaths
        /\ seen' = [seen EXCEPT ![p] = Append(seen[p], v)] /\ owner' \in Stored(p)
    BY DEF Read, envVars
  <1>b. n \in Nat /\ n + 1 \in 1..NumPaths /\ seen[p] \in Seq(Vals)
    BY <1>a, <1>1, FrozenAssumption DEF TypeOK
  <1>c. v \in Vals
    BY <1>a, <1>b, <1>1, ReadsATree DEF Trees
  <1>2. /\ own' = own /\ want' = want /\ broken' = broken /\ robbed' = robbed
        /\ seen'[p] = Append(seen[p], v) /\ Only(p)
    BY <1>a, <1>1 DEF TypeOK, Only, Still, Same, histVars
  <1>3. Owned'
    BY <1>1, OwnedWrite
  <1>4. Stage(p)' /\ Held(p)'
    BY <1>a, <1>1, <1>2 DEF Stage, Held, Viewing, Looking, Apfs
  <1>5. Apfs(p) => v = want[p][n + 1]
    <2> SUFFICES ASSUME Apfs(p) PROVE v = want[p][n + 1]
      OBVIOUS
    <2>1. mounted[p] # 0 /\ mounted[p] = own[p] /\ own[p] \in DOMAIN cuts
      BY <1>a, <1>1 DEF Stage, Looking, Held
    <2>2. cuts[mounted[p]] = want[p]
      BY <1>a, <2>1 DEF Held
    <2> QED
      BY <2>2 DEF ScanRoot
  <1> HIDE DEF v
  <1>6. Apfs(p) => \A i \in 1..Len(seen'[p]) : seen'[p][i] = want[p][i]
    <2> SUFFICES ASSUME Apfs(p), NEW i \in 1..Len(seen'[p]) PROVE seen'[p][i] = want[p][i]
      OBVIOUS
    <2>1. Len(seen'[p]) = n + 1 /\ seen'[p][n + 1] = v /\ \A j \in 1..n : seen'[p][j] = seen[p][j]
      BY <1>2, <1>b, <1>c
    <2>2. \A j \in 1..n : seen[p][j] = want[p][j]
      BY <1>a, <1>1 DEF Taken
    <2>3. i \in 1..n \/ i = n + 1
      BY <1>b, <2>1
    <2> QED
      BY <1>5, <2>1, <2>2, <2>3
  <1>7. Taken(p)'
    BY <1>a, <1>1, <1>2, <1>6 DEF Taken, Apfs
  <1> QED
    BY <1>1, <1>2, <1>3, <1>4, <1>7, CutsSame, Combine

LEMMA SameFunction ==
    ASSUME NEW S, NEW T, NEW f \in [S -> T], NEW g \in [S -> T], \A x \in S : f[x] = g[x]
    PROVE  f = g
  OBVIOUS

(***************************************************************************)
(* The manifest has every file as it was at the cut.                       *)
(***************************************************************************)
LEMMA CommitStep ==
    ASSUME FInv, TypeOK', NEW p \in Procs, Commit(p)
    PROVE  FInv'
  <1>a. TypeOK /\ Stage(p) /\ Held(p) /\ Taken(p)
    BY DEF FInv
  <1> DEFINE m == [files |-> seen[p], tagged |-> Tagged(p)]
  <1>1. PICK l \in {"umount", "record"} :
            pc' = [pc EXCEPT ![p] = l] /\ (l = "umount" <=> Apfs(p))
    BY DEF Commit, Goto, DropFrozen
  <1>2. /\ UNCHANGED <<kind, name, mounted, dirs, histVars, cuts>>
        /\ pc[p] = "read" /\ Len(seen[p]) = NumPaths
        /\ seen' = [seen EXCEPT ![p] = <<>>] /\ owner' \in Stored(p)
        /\ snap' = [snap EXCEPT ![p] = m]
    BY DEF Commit, envVars
  <1>3. /\ own' = own /\ want' = want /\ broken' = broken /\ robbed' = robbed
        /\ pc'[p] = l /\ seen'[p] = <<>> /\ snap'[p] = m /\ m.files = seen[p] /\ Only(p)
        /\ \A q \in Procs \ {p} : pc'[q] = pc[q]
    BY <1>a, <1>1, <1>2 DEF TypeOK, Only, Still, Same, histVars
  <1> HIDE DEF m
  <1>4. Owned'
    BY <1>1, <1>2, <1>3, OwnedWrite
  <1>5. Apfs(p) => seen[p] = want[p]
    <2> SUFFICES ASSUME Apfs(p) PROVE seen[p] = want[p]
      OBVIOUS
    <2>1. own[p] # 0
      BY <1>a, <1>2 DEF Stage, Viewing
    <2>2. want[p] \in [1..NumPaths -> Vals]
      BY <1>a, <2>1 DEF Held, Trees
    <2>3. seen[p] \in [1..NumPaths -> Vals]
      BY <1>a, <1>2 DEF TypeOK
    <2>4. \A i \in 1..NumPaths : seen[p][i] = want[p][i]
      BY <1>a, <1>2 DEF Taken
    <2> DEFINE S == 1..NumPaths
               f == seen[p]
               g == want[p]
    <2>5. f \in [S -> Vals] /\ g \in [S -> Vals] /\ \A x \in S : f[x] = g[x]
      BY <2>2, <2>3, <2>4
    <2> HIDE DEF S, f, g
    <2>6. f = g
      BY <2>5, SameFunction
    <2> QED
      BY <2>6 DEF f, g
  <1>6. ~Apfs(p) => own[p] = 0 /\ 0 \notin DOMAIN cuts
    BY <1>a DEF Stage, Apfs, TypeOK
  <1>7. Stage(p)'
    BY <1>a, <1>1, <1>2, <1>3 DEF Stage, Viewing, Looking, Apfs, Ended
  <1>8. Held(p)'
    BY <1>a, <1>1, <1>2, <1>3, <1>6 DEF Held
  <1>9. Taken(p)'
    BY <1>1, <1>2, <1>3, <1>5 DEF Taken, Apfs
  <1> QED
    BY <1>2, <1>3, <1>4, <1>7, <1>8, <1>9, CutsSame, Combine

LEMMA AbortStep ==
    ASSUME FInv, TypeOK', NEW p \in Procs, Abort(p)
    PROVE  FInv'
  <1>a. TypeOK /\ Stage(p) /\ Held(p) /\ Taken(p)
    BY DEF FInv
  <1>1. PICK l \in {"umount", "failed"} :
            pc' = [pc EXCEPT ![p] = l] /\ (l = "umount" <=> Apfs(p))
    BY DEF Abort, Goto, Fail, Leave, DropFrozen
  <1>2. /\ UNCHANGED <<kind, name, mounted, dirs, snap, histVars, cuts, owner>>
        /\ pc[p] = "read" /\ seen' = [seen EXCEPT ![p] = <<>>]
    BY DEF Abort, envVars
  <1>3. /\ own' = own /\ want' = want /\ broken' = broken /\ robbed' = robbed
        /\ pc'[p] = l /\ seen'[p] = <<>> /\ Only(p)
    BY <1>a, <1>1, <1>2 DEF TypeOK, Only, Still, Same, histVars
  <1>4. Owned'
    BY <1>1, <1>2, OwnedQuiet
  <1>6. ~Apfs(p) => own[p] = 0 /\ 0 \notin DOMAIN cuts
    BY <1>a DEF Stage, Apfs, TypeOK
  <1>7. Stage(p)'
    BY <1>a, <1>1, <1>2, <1>3 DEF Stage, Viewing, Looking, Apfs, Ended
  <1>8. Held(p)'
    BY <1>a, <1>1, <1>2, <1>3, <1>6 DEF Held
  <1>9. Taken(p)'
    BY <1>a, <1>1, <1>2, <1>3 DEF Taken, Apfs
  <1> QED
    BY <1>2, <1>3, <1>4, <1>7, <1>8, <1>9, CutsSame, Combine

(***************************************************************************)
(* A command deletes its own cut, and only a mount that its own umount     *)
(* left behind can keep it from doing so.                                  *)
(***************************************************************************)
LEMMA DeleteStep ==
    ASSUME FInv, TypeOK', NEW p \in Procs, DeleteSnapshot(p)
    PROVE  FInv'
  <1>a. TypeOK /\ Stage(p) /\ Held(p) /\ Taken(p) /\ robbed = {}
    BY DEF FInv
  <1>1. PICK l \in {"record", "failed"} : pc' = [pc EXCEPT ![p] = l]
    BY DEF DeleteSnapshot, Goto, Fail, Leave
  <1>2. /\ UNCHANGED <<kind, viewVars, snap, own, want, owner>> /\ pc[p] = "delete"
    BY DEF DeleteSnapshot
  <1>3. own[p] # 0 /\ name[p] = own[p] /\ kind[p] # "plain"
    BY <1>a, <1>2 DEF Stage, Viewing, Ended
  <1>b. mounted[p] # 0 \/ p \in dirs => p \in broken
    BY <1>a, <1>2 DEF Stage, Looking
  <1>4. Busy(own[p]) => p \in broken
    <2> SUFFICES ASSUME NEW q \in Procs, mounted[q] = own[p] PROVE p \in broken
      BY DEF Busy
    <2>1. own[q] = own[p]
      BY <1>3 DEF FInv, Stage
    <2>2. q = p
      BY <1>3, <2>1 DEF FInv, Apart
    <2> QED
      BY <1>3, <1>b, <2>2
  <1>5. /\ CutsKept /\ robbed' = {} /\ (own[p] \in DOMAIN cuts' => p \in broken')
        /\ (broken' = broken \/ broken' = broken \cup {p})
    <2>1. CASE /\ ~Busy(own[p]) /\ broken' = broken
               /\ cuts' = [d \in DOMAIN cuts \ {own[p]} |-> cuts[d]]
               /\ robbed' = robbed \cup (({own[p]} \cap DOMAIN cuts) \ {own[p]})
      BY <1>a, <2>1, CutsThinned, CutRemoved
    <2>2. CASE Busy(own[p]) /\ UNCHANGED <<cuts, robbed, broken>>
      BY <1>a, <1>4, <2>2, CutsSame
    <2>3. CASE broken' = broken \cup {p} /\ UNCHANGED <<cuts, robbed>>
      BY <1>a, <2>3, CutsSame
    <2> QED
      BY <1>3, <2>1, <2>2, <2>3 DEF DeleteSnapshot
  <1>6. /\ pc'[p] = l /\ name' = name /\ mounted' = mounted /\ dirs' = dirs /\ seen' = seen
        /\ Only(p) /\ (p \in broken => p \in broken')
    BY <1>a, <1>1, <1>2, <1>5 DEF TypeOK, Only, Still, Same, viewVars
  <1>7. Owned'
    BY <1>1, <1>2, OwnedQuiet
  <1>8. Stage(p)'
    BY <1>a, <1>b, <1>1, <1>2, <1>3, <1>6 DEF Stage, Viewing, Looking, Apfs, Ended
  <1>9. own[p] \in DOMAIN cuts' => own[p] \in DOMAIN cuts /\ cuts'[own[p]] = cuts[own[p]]
    BY <1>a, <1>5 DEF CutsKept, TypeOK
  <1>10. mounted[p] # 0 => mounted[p] \in DOMAIN cuts'
    BY <1>a, <1>5 DEF CutsKept, Held, Busy
  <1>11. Held(p)'
    BY <1>a, <1>1, <1>2, <1>5, <1>6, <1>9, <1>10 DEF Held
  <1>12. Taken(p)'
    BY <1>a, <1>1, <1>2, <1>6 DEF Taken, Apfs
  <1> QED
    BY <1>a, <1>2, <1>5, <1>6, <1>7, <1>8, <1>11, <1>12, Combine

LEMMA KillStep ==
    ASSUME FInv, TypeOK', NEW p \in Procs, Kill(p)
    PROVE  FInv'
  <1>a. TypeOK /\ Stage(p) /\ Held(p) /\ Taken(p)
    BY DEF FInv
  <1>1. /\ UNCHANGED <<kind, name, mounted, dirs, snap, histVars, cuts, owner>>
        /\ pc' = [pc EXCEPT ![p] = "dead"] /\ seen' = [seen EXCEPT ![p] = <<>>]
        /\ pc[p] # "idle"
    BY DEF Kill, Leave, Goto, envVars, Running
  <1>2. /\ own' = own /\ want' = want /\ broken' = broken /\ robbed' = robbed
        /\ pc'[p] = "dead" /\ seen'[p] = <<>> /\ Only(p)
    BY <1>a, <1>1 DEF TypeOK, Only, Still, Same, histVars
  <1>3. Owned'
    BY <1>1, OwnedQuiet
  <1>4. Stage(p)' /\ Held(p)' /\ Taken(p)'
    BY <1>a, <1>1, <1>2 DEF Stage, Held, Taken, Viewing, Looking, Apfs, Ended
  <1> QED
    BY <1>1, <1>2, <1>3, <1>4, CutsSame, Combine

(***************************************************************************)
(* Whatever else happens on the volume.                                    *)
(***************************************************************************)
LEMMA OutsideStep ==
    ASSUME FInv, TypeOK', CutsKept, UNCHANGED <<fabVars, kind, pc, viewVars, histVars>>
    PROVE  FInv'
  <1>1. \A q \in Procs : Still(q)
    BY DEF Still, Same, fabVars, viewVars, histVars
  <1>2. \A q \in Procs : Stage(q)' /\ Held(q)' /\ Taken(q)'
    BY <1>1, StillKept DEF FInv
  <1>3. Apart' /\ robbed' = {} /\ Owned'
    BY DEF FInv, Apart, Owned, Root, fabVars, histVars
  <1> QED
    BY <1>2, <1>3 DEF FInv

LEMMA FInvStep == FInv /\ [Next]_vars => FInv'
  <1> SUFFICES ASSUME FInv, [Next]_vars PROVE FInv'
    OBVIOUS
  <1>a. TypeOK /\ \A p \in Procs : Stage(p) /\ Held(p)
    BY DEF FInv
  <1>b. TypeOK'
    BY <1>a, TypeStep
  <1>1. ASSUME NEW p \in Procs, Command(p) PROVE FInv'
    BY <1>b, <1>1, BeginStep, AuthorizeStep, TryLockStep, NoCutStep, CutStep, ResolveStep,
       EarlyReturnStep, MakeDirStep, MountStep, MountRefusedStep, ViewStep, ReadStep, CommitStep,
       AbortStep, UnmountStep, RemoveDirStep, DeleteStep, RecordStep, ChownStep DEF Command
  <1>2. ASSUME NEW i \in 1..NumPaths, NEW v \in Vals, Edit(i, v) PROVE FInv'
    BY <1>b, <1>2, CutsSame, OutsideStep DEF Edit
  <1>3. ASSUME TimeMachine PROVE FInv'
    BY <1>a, <1>b, <1>3, CutsFrozen, OutsideStep DEF TimeMachine
  <1>4. ASSUME NEW c \in DOMAIN cuts, Thin(c) PROVE FInv'
    BY <1>b, <1>4, CutsThinned, OutsideStep DEF Thin
  <1>5. CASE UNCHANGED vars
    BY <1>b, <1>5, CutsSame, OutsideStep DEF vars, envVars
  <1> QED
    BY <1>b, <1>1, <1>2, <1>3, <1>4, <1>5, KillStep DEF Next

LEMMA FInvInit == Init => FInv
  <1> SUFFICES ASSUME Init PROVE FInv
    OBVIOUS
  <1>1. TypeOK
    BY FrozenAssumption DEF Init, TypeOK, Kinds, Guarded, Ended, Trees
  <1>2. \A p \in Procs : Stage(p) /\ Held(p) /\ Taken(p)
    BY DEF Init, Stage, Held, Taken, Viewing, Looking, Apfs, Ended
  <1>3. Apart /\ robbed = {}
    BY DEF Init, Apart
  <1>4. Owned
    BY FrozenAssumption DEF Init, Owned, Guarded
  <1> QED
    BY <1>1, <1>2, <1>3, <1>4 DEF FInv

LEMMA FInvHolds == Spec => []FInv
  BY FInvInit, FInvStep, PTL DEF Spec

(***************************************************************************)
(* "Every file is captured at the same instant" (apfs.rs 3-5): a manifest  *)
(* made with --apfs is the tree of the moment this command's own cut was   *)
(* made, however many commands, edits, cuts and thinnings there are.       *)
(***************************************************************************)
THEOREM SnapshotIsOneInstant == Spec => [](TypeOK /\ PointInTime)
  <1>1. FInv => TypeOK /\ PointInTime
    BY DEF FInv, Taken, PointInTime
  <1> QED
    BY <1>1, FInvHolds, PTL

(***************************************************************************)
(* "Unmount, remove the temp dir, delete the APFS snapshot" (apfs.rs       *)
(* 23-24): a command that ended and whose tools worked has left nothing    *)
(* behind, none deletes a cut that is not its own, and nothing stays root's*)
(* once every --ask-admin command succeeded.                               *)
(***************************************************************************)
THEOREM ExitsAreClean == Spec => []CleanExit
  <1>1. FInv => CleanExit
    <2> SUFFICES ASSUME FInv PROVE CleanExit
      OBVIOUS
    <2>1. ASSUME NEW p \in Procs, pc[p] \in {"done", "failed"}, p \notin broken
          PROVE  own[p] \notin DOMAIN cuts /\ mounted[p] = 0 /\ p \notin dirs
      BY <2>1 DEF FInv, Stage, Held, Looking
    <2> QED
      BY <2>1 DEF FInv, Owned, CleanExit
  <1> QED
    BY <1>1, FInvHolds, PTL
=============================================================================
