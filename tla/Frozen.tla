-------------------------------- MODULE Frozen --------------------------------
(***************************************************************************)
(* snap --apfs: a snapshot read from a frozen view of the volume, run by   *)
(* the user, under sudo, or through the administrator prompt of            *)
(* --ask-admin (src/src/apfs.rs, src/src/admin.rs and the Snap arm of      *)
(* src/src/main.rs), beside plain snaps of the same fabric.                *)
(*                                                                         *)
(* The tools it calls (tmutil, diskutil, mount_apfs, umount, chown) are    *)
(* external.  While a command runs the user edits the live tree, Time      *)
(* Machine makes cuts of its own and thins old ones, and the command may   *)
(* be killed.  Of the fabric only the owner of what a root process creates *)
(* is kept: the lock file, made by the first command that locks, and the   *)
(* fan-out directories of objects and manifests.                           *)
(***************************************************************************)
EXTENDS Integers, Sequences, FiniteSets

CONSTANTS
    Procs,        \* commands
    NumPaths,     \* files of the worktree, read in order
    Vals,         \* contents of a file
    MaxCuts,      \* bound: APFS cuts ever made
    None

ASSUME FrozenAssumption ==
    NumPaths \in Nat /\ MaxCuts \in Nat /\ None \notin Procs \cup {"user", "root"}

Trees == [1..NumPaths -> Vals]
Kinds == {"plain", "user", "sudo", "admin"}
Guarded == {"lock", "shards"}

VARIABLES
    tree,         \* the live worktree
    cuts,         \* APFS snapshots on the Data volume: number -> frozen tree
    minted,       \* cuts ever made
    dotLocal,     \* the volume names its cuts <date>.local
    mountable,    \* the kernel mounts snapshots of the boot volume for root
    lock,         \* holder of the fabric lock
    owner,        \* who owns the lock file and the fan-out directories
    kind,         \* per command: how it was started (always with --actor)
    pc,           \* per command: what it does next
    name,         \* per command: the cut it resolved
    mounted,      \* per command: the cut mounted on its temp dir, or 0
    dirs,         \* commands whose temp dir exists
    seen,         \* per command: contents read so far
    snap,         \* per command: the manifest it made HEAD, or None
    own, want,    \* history: the cut tmutil made for it, the tree at that moment
    broken,       \* history: commands some tool or call failed under
    robbed        \* history: cuts a command deleted that it had not made

envVars  == <<tree, cuts, minted, dotLocal, mountable>>
fabVars  == <<lock, owner, snap>>
viewVars == <<name, mounted, dirs, seen>>
histVars == <<own, want, broken, robbed>>
vars == <<envVars, fabVars, kind, pc, viewVars, histVars>>

Ended == {"done", "failed", "dead"}

Running(p) == pc[p] \notin Ended \cup {"idle"}

Root(p) == kind[p] \in {"sudo", "admin"}
Apfs(p) == kind[p] # "plain"

Init ==
    /\ tree \in Trees
    /\ cuts = <<>> /\ minted = 0
    /\ dotLocal \in BOOLEAN /\ mountable \in BOOLEAN
    /\ lock = None
    /\ owner = [f \in Guarded |-> IF f = "lock" THEN None ELSE "user"]
    /\ kind = [p \in Procs |-> "plain"]
    /\ pc = [p \in Procs |-> "idle"]
    /\ name = [p \in Procs |-> 0]
    /\ mounted = [p \in Procs |-> 0]
    /\ dirs = {}
    /\ seen = [p \in Procs |-> <<>>]
    /\ snap = [p \in Procs |-> None]
    /\ own = [p \in Procs |-> 0]
    /\ want = [p \in Procs |-> <<>>]
    /\ broken = {} /\ robbed = {}

Goto(p, l) == pc' = [pc EXCEPT ![p] = l]

\* The process returns or dies: flock is gone with it.
Leave(p, how) ==
    /\ Goto(p, how)
    /\ lock' = IF lock = p THEN None ELSE lock

(***************************************************************************)
(* A `?` return.  The shell of admin_script chains with &&: no chown then. *)
(***************************************************************************)
Fail(p) == Leave(p, "failed")

-----------------------------------------------------------------------------
(* Starting: main.rs asks for authorization first, then takes the lock.    *)

Begin(p, k) ==
    /\ pc[p] = "idle"
    /\ kind' = [kind EXCEPT ![p] = k]
    /\ Goto(p, IF k = "admin" THEN "auth" ELSE "lock")
    /\ UNCHANGED <<envVars, fabVars, viewVars, histVars>>

Authorize(p) ==
    /\ pc[p] = "auth"
    /\ \/ Goto(p, "lock") /\ lock' = lock
       \/ Fail(p)
    /\ UNCHANGED <<envVars, owner, snap, kind, viewVars, histVars>>

\* Who owns file f once p has opened it for writing, creating it if needed.
Touched(p, f) == IF owner[f] # None THEN owner[f] ELSE IF Root(p) THEN "root" ELSE "user"

TryLock(p) ==
    /\ pc[p] = "lock"
    /\ \/ /\ owner["lock"] = "root" /\ ~Root(p)
          /\ Fail(p) /\ owner' = owner
       \/ /\ owner["lock"] # "root" \/ Root(p)
          /\ owner' = [owner EXCEPT !["lock"] = Touched(p, "lock")]
          /\ IF lock # None
             THEN Goto(p, "failed") /\ lock' = lock
             ELSE Goto(p, IF Apfs(p) THEN "cut" ELSE "read") /\ lock' = p
    /\ UNCHANGED <<envVars, snap, kind, viewVars, histVars>>

-----------------------------------------------------------------------------
(* apfs::create                                                            *)

\* The worktree is on another volume, or `tmutil snapshot` fails.
NoCut(p) ==
    /\ pc[p] = "cut"
    /\ Fail(p)
    /\ UNCHANGED <<envVars, owner, snap, kind, viewVars, histVars>>

\* The volume as it is now gets a name no cut ever had.
FreezeTree ==
    /\ minted < MaxCuts
    /\ minted' = minted + 1
    /\ cuts' = [c \in DOMAIN cuts \cup {minted + 1} |->
                   IF c = minted + 1 THEN tree ELSE cuts[c]]

Cut(p) ==
    /\ pc[p] = "cut"
    /\ FreezeTree
    /\ own' = [own EXCEPT ![p] = minted + 1]
    /\ want' = [want EXCEPT ![p] = tree]
    /\ Goto(p, "resolve")
    /\ UNCHANGED <<tree, dotLocal, mountable, fabVars, kind, viewVars, broken, robbed>>

\* snapshot_name_from_output: the name in tmutil's own answer.
Newest(p)    == minted
Candidate(p) == own[p]

Resolve(p) ==
    /\ pc[p] = "resolve"
    /\ \/ /\ Candidate(p) \in DOMAIN cuts
          /\ name' = [name EXCEPT ![p] = Candidate(p)]
          /\ Goto(p, "mkdir") /\ lock' = lock
       \/ /\ Candidate(p) \notin DOMAIN cuts
          /\ Fail(p) /\ name' = name
    /\ UNCHANGED <<envVars, owner, snap, kind, mounted, dirs, seen, histVars>>

\* The calls of create whose failure returns before there is an ApfsSnap to
\* drop: parsing and listSnapshots, create_dir_all, canonicalize.
EarlyReturn(p) ==
    /\ pc[p] \in {"resolve", "mkdir", "view"}
    /\ broken' = broken \cup {p}
    /\ Fail(p)
    /\ UNCHANGED <<envVars, owner, snap, kind, viewVars, own, want, robbed>>

MakeDir(p) ==
    /\ pc[p] = "mkdir"
    /\ dirs' = dirs \cup {p}
    /\ Goto(p, "mount")
    /\ UNCHANGED <<envVars, fabVars, kind, name, mounted, seen, histVars>>

Mount(p) ==
    /\ pc[p] = "mount"
    /\ Root(p) /\ mountable /\ name[p] \in DOMAIN cuts
    /\ mounted' = [mounted EXCEPT ![p] = name[p]]
    /\ Goto(p, "view")
    /\ UNCHANGED <<envVars, fabVars, kind, name, dirs, seen, histVars>>

\* Without root, on macOS 26 or later, or for any other reason.
MountRefused(p) ==
    /\ pc[p] = "mount"
    /\ Goto(p, "rmdir")
    /\ UNCHANGED <<envVars, fabVars, kind, viewVars, histVars>>

\* What is left to do with a mounted cut once it is not read any more.
DropUnmounted == "rmdir"
DropFrozen    == "umount"

\* scan_root.is_dir()
View(p) ==
    /\ pc[p] = "view"
    /\ Goto(p, "read") \/ Goto(p, DropFrozen)
    /\ UNCHANGED <<envVars, fabVars, kind, viewVars, histVars>>

-----------------------------------------------------------------------------
(* snapshot::create_from_actor on the frozen or on the live tree           *)

ScanRoot(p) == IF Apfs(p) THEN cuts[mounted[p]] ELSE tree

\* A store write by root leaves new directories to root.
Stored(p) == {owner} \cup IF Root(p) THEN {[owner EXCEPT !["shards"] = "root"]} ELSE {}

Read(p) ==
    /\ pc[p] = "read"
    /\ Len(seen[p]) < NumPaths
    /\ seen' = [seen EXCEPT ![p] = Append(@, ScanRoot(p)[Len(@) + 1])]
    /\ owner' \in Stored(p)
    /\ UNCHANGED <<envVars, lock, snap, kind, pc, name, mounted, dirs, histVars>>

\* The command line of admin_script has -m and no --actor.
Tagged(p) == kind[p] # "admin"

Commit(p) ==
    /\ pc[p] = "read"
    /\ Len(seen[p]) = NumPaths
    /\ snap' = [snap EXCEPT ![p] = [files |-> seen[p], tagged |-> Tagged(p)]]
    /\ owner' \in Stored(p)
    /\ seen' = [seen EXCEPT ![p] = <<>>]
    /\ Goto(p, IF Apfs(p) THEN DropFrozen ELSE "record")
    /\ UNCHANGED <<envVars, lock, kind, name, mounted, dirs, histVars>>

\* A file cannot be read or the store not be written; `frozen` is dropped.
Abort(p) ==
    /\ pc[p] = "read"
    /\ seen' = [seen EXCEPT ![p] = <<>>]
    /\ IF Apfs(p) THEN Goto(p, DropFrozen) /\ lock' = lock ELSE Fail(p)
    /\ UNCHANGED <<envVars, owner, snap, kind, name, mounted, dirs, histVars>>

-----------------------------------------------------------------------------
(* Drop for ApfsSnap, and the two clean-ups of create                      *)

Unmount(p) ==
    /\ pc[p] = "umount"
    /\ \/ mounted' = [mounted EXCEPT ![p] = 0] /\ broken' = broken
       \/ mounted' = mounted /\ broken' = broken \cup {p}
    /\ Goto(p, "rmdir")
    /\ UNCHANGED <<envVars, fabVars, kind, name, dirs, seen, own, want, robbed>>

\* remove_dir fails on a mount point.
RemoveDir(p) ==
    /\ pc[p] = "rmdir"
    /\ dirs' = IF mounted[p] = 0 THEN dirs \ {p} ELSE dirs
    /\ Goto(p, "delete")
    /\ UNCHANGED <<envVars, fabVars, kind, name, mounted, seen, histVars>>

Busy(c) == \E q \in Procs : mounted[q] = c

\* tmutil deletes <date>.local for anyone; diskutil, the fallback, needs root.
Deletes(p) == dotLocal \/ Root(p)

DeleteSnapshot(p) ==
    /\ pc[p] = "delete"
    /\ LET c == name[p]
       IN \/ /\ Deletes(p) /\ ~Busy(c)
             /\ cuts' = [d \in DOMAIN cuts \ {c} |-> cuts[d]]
             /\ robbed' = robbed \cup (({c} \cap DOMAIN cuts) \ {own[p]})
             /\ broken' = broken
          \/ Deletes(p) /\ Busy(c) /\ UNCHANGED <<cuts, robbed, broken>>
          \/ broken' = broken \cup {p} /\ UNCHANGED <<cuts, robbed>>
    /\ IF snap[p] # None THEN Goto(p, "record") /\ lock' = lock ELSE Fail(p)
    /\ UNCHANGED <<tree, minted, dotLocal, mountable, owner, snap, kind, viewVars,
                   own, want>>

-----------------------------------------------------------------------------
(* audit::record, the end of the command, and chown -R of the fabric       *)

Record(p) ==
    /\ pc[p] = "record"
    /\ Fail(p) \/ Leave(p, IF kind[p] = "admin" THEN "chown" ELSE "done")
    /\ UNCHANGED <<envVars, owner, snap, kind, viewVars, histVars>>

Chown(p) ==
    /\ pc[p] = "chown"
    /\ \/ /\ owner' = [f \in Guarded |-> "user"]
          /\ Goto(p, "done")
       \/ Goto(p, "failed") /\ owner' = owner
    /\ UNCHANGED <<envVars, lock, snap, kind, viewVars, histVars>>

-----------------------------------------------------------------------------
(* The environment.                                                        *)

Kill(p) ==
    /\ Running(p)
    /\ Leave(p, "dead")
    /\ seen' = [seen EXCEPT ![p] = <<>>]
    /\ UNCHANGED <<envVars, owner, snap, kind, name, mounted, dirs, histVars>>

Edit(i, v) ==
    /\ tree[i] # v
    /\ tree' = [tree EXCEPT ![i] = v]
    /\ UNCHANGED <<cuts, minted, dotLocal, mountable, fabVars, kind, pc, viewVars,
                   histVars>>

TimeMachine ==
    /\ FreezeTree
    /\ UNCHANGED <<tree, dotLocal, mountable, fabVars, kind, pc, viewVars, histVars>>

Thin(c) ==
    /\ ~Busy(c)
    /\ cuts' = [d \in DOMAIN cuts \ {c} |-> cuts[d]]
    /\ UNCHANGED <<tree, minted, dotLocal, mountable, fabVars, kind, pc, viewVars,
                   histVars>>

Command(p) ==
    \/ \E k \in Kinds : Begin(p, k)
    \/ Authorize(p) \/ TryLock(p)
    \/ NoCut(p) \/ Cut(p) \/ Resolve(p) \/ EarlyReturn(p) \/ MakeDir(p)
    \/ Mount(p) \/ MountRefused(p) \/ View(p)
    \/ Read(p) \/ Commit(p) \/ Abort(p)
    \/ Unmount(p) \/ RemoveDir(p) \/ DeleteSnapshot(p)
    \/ Record(p) \/ Chown(p)

Next ==
    \/ \E p \in Procs : Command(p) \/ Kill(p)
    \/ \E i \in 1..NumPaths, v \in Vals : Edit(i, v)
    \/ TimeMachine
    \/ \E c \in DOMAIN cuts : Thin(c)

Spec == Init /\ [][Next]_vars

-----------------------------------------------------------------------------
TypeOK ==
    /\ tree \in Trees
    /\ minted \in 0..MaxCuts
    /\ DOMAIN cuts \subseteq 1..minted
    /\ \A c \in DOMAIN cuts : cuts[c] \in Trees
    /\ dotLocal \in BOOLEAN /\ mountable \in BOOLEAN
    /\ lock \in Procs \cup {None}
    /\ owner \in [Guarded -> {"user", "root", None}]
    /\ kind \in [Procs -> Kinds]
    /\ pc \in [Procs -> Ended \cup {"idle", "auth", "lock", "cut", "resolve", "mkdir", "mount",
                                    "view", "read", "umount", "rmdir", "delete", "record",
                                    "chown"}]
    /\ name \in [Procs -> 0..minted]
    /\ mounted \in [Procs -> 0..minted]
    /\ dirs \subseteq Procs
    /\ seen \in [Procs -> Seq(Vals)]
    /\ \A p \in Procs : Len(seen[p]) <= NumPaths
    /\ snap \in [Procs -> [files : Trees, tagged : BOOLEAN] \cup {None}]
    /\ own \in [Procs -> 0..minted]
    /\ want \in [Procs -> Trees \cup {<<>>}]
    /\ broken \subseteq Procs
    /\ robbed \subseteq 1..minted

(***************************************************************************)
(* "Every file is captured at the same instant" (apfs.rs 3-5): a manifest  *)
(* made with --apfs holds every file as it was when this command's own cut *)
(* was made, whatever is edited during the scan and whatever cuts Time     *)
(* Machine or another command makes meanwhile.                             *)
(***************************************************************************)
PointInTime ==
    \A p \in Procs : Apfs(p) /\ snap[p] # None => snap[p].files = want[p]

(***************************************************************************)
(* "Unmount, remove the temp dir, delete the APFS snapshot" (apfs.rs       *)
(* 23-24): a command that ended, with success or not, a refused mount      *)
(* included, has left no cut, no mount and no temp dir unless one of its   *)
(* tools failed; none ever deletes a cut it did not make; and once every   *)
(* --ask-admin command has succeeded nothing in the fabric belongs to root.*)
(***************************************************************************)
CleanExit ==
    /\ \A p \in Procs : pc[p] \in {"done", "failed"} /\ p \notin broken =>
          own[p] \notin DOMAIN cuts /\ mounted[p] = 0 /\ p \notin dirs
    /\ robbed = {}
    /\ (\A p \in Procs : Root(p) => kind[p] = "admin" /\ pc[p] = "done")
          => \A f \in Guarded : owner[f] # "root"

-----------------------------------------------------------------------------
(* What the documentation says and the code does not keep to.              *)

(***************************************************************************)
(* "The privileged child chowns .respawn/ back afterward" (README 157-158),*)
(* without which "root-written objects and HEAD would poison every later   *)
(* unprivileged snap" (admin.rs 7-10): an --ask-admin command that ended,  *)
(* with success or not, leaves nothing to root.                            *)
(***************************************************************************)
NoPoison ==
    (\A p \in Procs : Root(p) => kind[p] = "admin" /\ pc[p] \in {"done", "failed"})
        => \A f \in Guarded : owner[f] # "root"

(***************************************************************************)
(* "Tag this snapshot with an actor name" (main.rs 31): the manifest made  *)
(* for a command with --actor carries it.                                  *)
(***************************************************************************)
TagKept == \A p \in Procs : snap[p] # None => snap[p].tagged
=============================================================================
