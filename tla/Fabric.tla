-------------------------------- MODULE Fabric --------------------------------
(***************************************************************************)
(* One fabric and its worktree under the commands snap, revert, guard,     *)
(* purge and anchor keygen: src/src/store.rs, snapshot.rs, drift.rs,       *)
(* revert.rs, guard.rs, purge.rs and the arms of src/src/main.rs that run  *)
(* them.                                                                   *)
(*                                                                         *)
(* The commands hold the fabric lock from start to end, so one is in       *)
(* flight at a time (module AuditLog models the lock itself); `op` is its  *)
(* state.  What interleaves with it is everything else that writes the     *)
(* worktree, editors, builds and the command guard runs, and its own       *)
(* death between any two steps, after which the next command starts from   *)
(* whatever is on disk.                                                    *)
(*                                                                         *)
(* Abstractions.  A path is a number, in the order sort_by_file_name       *)
(* visits.  A content stands for the bytes and their hash; ChunksOf gives  *)
(* its chunks, a function of the content because the chunker is            *)
(* deterministic, and two contents may share chunks.  A snapshot id is the *)
(* position of its manifest in the order of creation.  Modes, mtimes and   *)
(* directories are left out; how a single file is captured is module       *)
(* Capture.  Paths may lie in directories of their own, which the walk     *)
(* lists when it gets there.  drift::detect is one step: it reads each     *)
(* file once and writes nothing, so an edit that falls inside it is as     *)
(* good as one just before or just after it.                               *)
(***************************************************************************)
EXTENDS Integers, Sequences, FiniteSets

CONSTANTS
    Paths,        \* worktree paths that are not .respawn, .git, .DS_Store
    Contents,     \* file contents
    Absent,       \* no file
    Chunks,       \* object hashes
    ChunksOf,     \* chunks a content is split into
    Ignored,      \* paths a .fabricignore pattern matches
    Commands,     \* commands the run issues
    MaxSnaps,     \* bound: manifests in the store
    MaxEdits,     \* bound: writes to the worktree by other programs
    MaxCrashes    \* bound: commands that die

ASSUME PathsAssumption   == Paths \subseteq Nat /\ Ignored \subseteq Paths
ASSUME ContentAssumption == Absent \notin Contents /\ ChunksOf \in [Contents -> SUBSET Chunks]
ASSUME BoundsAssumption  == MaxSnaps \in Nat /\ MaxEdits \in Nat /\ MaxCrashes \in Nat

VARIABLES
    worktree,     \* content of each path
    objects,      \* .respawn/objects
    manifests,    \* .respawn/manifests, in order of creation
    head,         \* .respawn/HEAD, 0 when empty
    tombs,        \* tombstones in .respawn/purged.jsonl
    tombTail,     \* its last line: "clean", "open" (no line feed) or "bad"
    key,          \* the signing key exists
    certs,        \* erasure certificates in .respawn/purges
    op,           \* the command in flight
    swept,        \* history: paths a purge has deleted a chunk of
    edits,        \* writes by other programs so far
    crashes       \* commands that died so far

storeVars == <<objects, manifests, head>>
purgeVars == <<tombs, tombTail, key, certs>>
histVars  == <<swept, edits, crashes>>
vars      == <<worktree, storeVars, purgeVars, op, histVars>>

Files  == [Paths -> Contents \cup {Absent}]
NoFile == [p \in Paths |-> Absent]

ChunksAt(files, p) == IF files[p] = Absent THEN {} ELSE ChunksOf[files[p]]

Policies == {"never", "onfail", "always"}

(***************************************************************************)
(* op.pc: the step the command is about to take; op.raced: history, paths  *)
(* another program wrote while the command was at work (what the command   *)
(* guard runs writes is not a race); op.pre: history, the worktree the     *)
(* command found.                                                          *)
(***************************************************************************)
PCs == {"idle", "scan", "manifest", "head", "spawn", "child", "write", "remove", "swap",
        "sweep", "feed", "unlink", "sign", "record"}

Idle == [pc |-> "idle", cmd |-> "none", todo |-> {}, files |-> NoFile, id |-> 0,
         keep |-> FALSE, force |-> FALSE, policy |-> "never", prev |-> 0,
         path |-> 0, content |-> Absent, sweep |-> {}, gone |-> {},
         raced |-> {}, pre |-> NoFile]

Goto(where) == [op EXCEPT !.pc = where]

Init ==
    /\ worktree \in Files
    /\ objects = {}
    /\ manifests = <<>>
    /\ head = 0
    /\ tombs = {}
    /\ tombTail = "clean"
    /\ key = FALSE
    /\ certs = {}
    /\ op = Idle
    /\ swept = {}
    /\ edits = 0
    /\ crashes = 0

Ids == 1..Len(manifests)

(***************************************************************************)
(* tombstones(): a line that does not parse fails every reader.            *)
(***************************************************************************)
TombsReadable == tombTail # "bad"

PathPurged(p)    == \E t \in tombs : t.path = p
ContentPurged(c) == \E t \in tombs : t.content = c
IsPurged(p, c)   == PathPurged(p) \/ ContentPurged(c)

\* the walk is sorted by file name
First(todo) == {p \in todo : \A q \in todo : p <= q}

-----------------------------------------------------------------------------
(* snapshot::create_from_actor, run by snap and by guard.                  *)

Scanning(cmd, policy) ==
    [Idle EXCEPT !.pc = "scan", !.cmd = cmd, !.todo = Paths, !.policy = policy,
                 !.prev = head, !.pre = worktree]

SnapBegin ==
    /\ "snap" \in Commands
    /\ op.pc = "idle"
    /\ Len(manifests) < MaxSnaps
    /\ TombsReadable
    /\ op' = Scanning("snap", "never")
    /\ UNCHANGED <<worktree, storeVars, purgeVars, histVars>>

GuardBegin(policy) ==
    /\ "guard" \in Commands
    /\ op.pc = "idle"
    /\ Len(manifests) < MaxSnaps
    /\ TombsReadable
    /\ op' = Scanning("guard", policy)
    /\ UNCHANGED <<worktree, storeVars, purgeVars, histVars>>

(***************************************************************************)
(* What the walk passes over before it opens the file.                     *)
(***************************************************************************)
Skipped(p) == worktree[p] = Absent \/ p \in Ignored \/ PathPurged(p)

(***************************************************************************)
(* The manifest entry of a file that was captured: none when the content   *)
(* is tombstoned.                                                          *)
(***************************************************************************)
EntryAlways(c) == c
EntryFor(c)    == IF ContentPurged(c) THEN Absent ELSE c

(***************************************************************************)
(* One file of the walk.  Its chunks go into the store as they are read,   *)
(* before the content is known and checked against the tombstones.         *)
(***************************************************************************)
ScanPath(p) ==
    /\ op.pc = "scan"
    /\ p \in First(op.todo)
    /\ objects' = IF Skipped(p) THEN objects ELSE objects \cup ChunksOf[worktree[p]]
    /\ op' = [op EXCEPT
         !.todo = @ \ {p},
         !.files = IF Skipped(p) THEN @ ELSE [@ EXCEPT ![p] = EntryFor(worktree[p])],
         !.pc = IF op.todo = {p} THEN "manifest" ELSE @]
    /\ UNCHANGED <<worktree, manifests, head, purgeVars, histVars>>

Rootless    == [parent |-> 0, files |-> op.files]
NewManifest == [parent |-> head, files |-> op.files]

PutUnsaved ==
    /\ op.pc = "manifest"
    /\ op' = [op EXCEPT !.pc = "head", !.id = Len(manifests) + 1]
    /\ UNCHANGED <<worktree, storeVars, purgeVars, histVars>>

(***************************************************************************)
(* put_manifest: a manifest equal to a stored one, timestamp included,     *)
(* is that one.                                                            *)
(***************************************************************************)
PutManifest ==
    /\ op.pc = "manifest"
    /\ \/ /\ manifests' = Append(manifests, NewManifest)
          /\ op' = [op EXCEPT !.pc = "head", !.id = Len(manifests) + 1]
       \/ \E i \in Ids :
             /\ manifests[i] = NewManifest
             /\ op' = [op EXCEPT !.pc = "head", !.id = i]
             /\ UNCHANGED manifests
    /\ UNCHANGED <<worktree, objects, head, purgeVars, histVars>>

(***************************************************************************)
(* set_head at the end of create_from_actor; snap then records, guard      *)
(* runs its command.                                                       *)
(***************************************************************************)
CreateSetHead ==
    /\ op.pc = "head"
    /\ head' = op.id
    /\ op' = Goto(IF op.cmd = "snap" THEN "record" ELSE "spawn")
    /\ UNCHANGED <<worktree, objects, manifests, purgeVars, histVars>>

-----------------------------------------------------------------------------
(* drift::detect with a full rehash, and revert::apply.                    *)

HeadFiles == IF head = 0 THEN NoFile ELSE manifests[head].files

Added(files)    == {p \in Paths \ Ignored : worktree[p] # Absent /\ files[p] = Absent}
Modified(files) == {p \in Paths \ Ignored : /\ worktree[p] # Absent /\ files[p] # Absent
                                            /\ worktree[p] # files[p]}
Deleted(files)  == {p \in Paths : files[p] # Absent /\ (worktree[p] = Absent \/ p \in Ignored)}

DirtyButAdded(files) == Modified(files) # {} \/ Deleted(files) # {}
Dirty(files) == Added(files) # {} \/ Modified(files) # {} \/ Deleted(files) # {}

Wanted(files) == {p \in Paths : files[p] # Absent}

(***************************************************************************)
(* apply refuses a manifest that carries anything tombstoned.              *)
(***************************************************************************)
Allowed(files) == TombsReadable /\ \A p \in Wanted(files) : ~IsPurged(p, files[p])

(***************************************************************************)
(* The passes of apply over `files`: write what differs, in manifest       *)
(* order, then walk the tree and remove what the manifest does not have.   *)
(* An empty pass is over at once.                                          *)
(***************************************************************************)
Removing(o) == [o EXCEPT !.pc = IF Paths = {} THEN "swap" ELSE "remove", !.todo = Paths]
Writing(o)  == IF Wanted(o.files) = {} THEN Removing(o)
               ELSE [o EXCEPT !.pc = "write", !.todo = Wanted(o.files)]
Applying(o) == IF Allowed(o.files) THEN Writing(o) ELSE Idle

(***************************************************************************)
(* The gate of check_then_apply: drift against HEAD, not against the       *)
(* target.                                                                 *)
(***************************************************************************)
GatePasses(force) == force \/ ~Dirty(HeadFiles)

RevertBegin(id, keep, force) ==
    /\ "revert" \in Commands
    /\ op.pc = "idle"
    /\ GatePasses(force)
    /\ op' = Applying([Idle EXCEPT !.cmd = "revert", !.id = id, !.keep = keep,
                                   !.force = force, !.files = manifests[id].files,
                                   !.prev = head, !.pre = worktree])
    /\ UNCHANGED <<worktree, storeVars, purgeVars, histVars>>

(***************************************************************************)
(* The live file is left alone only if its content already is the          *)
(* manifest's.                                                             *)
(***************************************************************************)
MissingOnly(p) == worktree[p] = Absent
NeedsWrite(p)  == worktree[p] # op.files[p]

WriteFile(p) ==
    /\ op.pc = "write"
    /\ p \in First(op.todo)
    /\ NeedsWrite(p) => ChunksAt(op.files, p) \subseteq objects
    /\ worktree' = IF NeedsWrite(p) THEN [worktree EXCEPT ![p] = op.files[p]] ELSE worktree
    /\ op' = IF op.todo = {p} THEN Removing(op) ELSE [op EXCEPT !.todo = @ \ {p}]
    /\ UNCHANGED <<storeVars, purgeVars, histVars>>

(***************************************************************************)
(* A chunk is missing: the revert ends in the middle.                      *)
(***************************************************************************)
WriteFails(p) ==
    /\ op.pc = "write"
    /\ p \in First(op.todo)
    /\ NeedsWrite(p)
    /\ ~(ChunksAt(op.files, p) \subseteq objects)
    /\ op' = Idle
    /\ UNCHANGED <<worktree, storeVars, purgeVars, histVars>>

(***************************************************************************)
(* The removal pass consults neither .fabricignore nor the tombstones.     *)
(***************************************************************************)
NothingExtra(p) == FALSE
Extra(p) == worktree[p] # Absent /\ op.files[p] = Absent /\ ~op.keep

RemoveFile(p) ==
    /\ op.pc = "remove"
    /\ p \in First(op.todo)
    /\ worktree' = IF Extra(p) THEN [worktree EXCEPT ![p] = Absent] ELSE worktree
    /\ op' = [op EXCEPT !.todo = @ \ {p}, !.pc = IF op.todo = {p} THEN "swap" ELSE @]
    /\ UNCHANGED <<storeVars, purgeVars, histVars>>

(***************************************************************************)
(* HEAD moves to the target after the files did.                           *)
(***************************************************************************)
SwapHead ==
    /\ op.pc = "swap"
    /\ head' = op.id
    /\ op' = Goto("record")
    /\ UNCHANGED <<worktree, objects, manifests, purgeVars, histVars>>

-----------------------------------------------------------------------------
(* guard::run after its snapshot.                                          *)

(***************************************************************************)
(* The command cannot be started: HEAD goes back, nothing is recorded.     *)
(***************************************************************************)
SpawnFails ==
    /\ op.pc = "spawn"
    /\ head' = op.prev
    /\ op' = Idle
    /\ UNCHANGED <<worktree, objects, manifests, purgeVars, histVars>>

Spawn ==
    /\ op.pc = "spawn"
    /\ op' = Goto("child")
    /\ UNCHANGED <<worktree, storeVars, purgeVars, histVars>>

ShouldRevert(failed) == op.policy = "always" \/ (op.policy = "onfail" /\ failed)

(***************************************************************************)
(* The command ends; its snapshot is applied over what it wrote, without   *)
(* a gate and without keeping extra files.                                 *)
(***************************************************************************)
ChildExit(failed) ==
    /\ op.pc = "child"
    /\ op' = IF ShouldRevert(failed)
             THEN Applying([op EXCEPT !.files = manifests[op.id].files])
             ELSE Goto("record")
    /\ UNCHANGED <<worktree, storeVars, purgeVars, histVars>>

-----------------------------------------------------------------------------
(* purge::run.                                                             *)

EntriesOf(p) == {i \in Ids : manifests[i].files[p] # Absent}

(***************************************************************************)
(* The content a purge tombstones: the live file's, else that of the       *)
(* manifest with the latest timestamp that has the path.  Timestamps are   *)
(* whole seconds of a clock that may tie or be set back, so the latest can *)
(* be any of them; there is none when the path is nowhere.                 *)
(***************************************************************************)
PurgeContent(p) == IF worktree[p] # Absent THEN {worktree[p]}
                   ELSE {manifests[i].files[p] : i \in EntriesOf(p)}

(***************************************************************************)
(* Over every manifest in the store, reachable from HEAD or not: chunks of *)
(* any version of the path, and chunks any other path refers to.           *)
(***************************************************************************)
NewestChunks(p) == UNION {ChunksAt(manifests[i].files, p) : i \in Ids \cap {Len(manifests)}}
PurgeChunks(p)  == UNION {ChunksAt(manifests[i].files, p) : i \in Ids}

ElsewhereInHead(p) == UNION {ChunksAt(HeadFiles, q) : q \in Paths \ {p}}
ElsewhereChunks(p) == UNION {ChunksAt(manifests[i].files, q) : i \in Ids, q \in Paths \ {p}}

PurgeBegin(p) ==
    /\ "purge" \in Commands
    /\ op.pc = "idle"
    /\ TombsReadable
    /\ \E c \in PurgeContent(p) :
         /\ ~IsPurged(p, c)
         /\ op' = [Idle EXCEPT !.pc = "sweep", !.cmd = "purge", !.path = p, !.content = c,
                               !.pre = worktree,
                               !.sweep = PurgeChunks(p) \ ElsewhereChunks(p)]
    /\ UNCHANGED <<worktree, storeVars, purgeVars, histVars>>

(***************************************************************************)
(* Unshared chunks are unlinked one by one, in the order of a HashSet; one *)
(* that is not there is passed over.                                       *)
(***************************************************************************)
SweepChunk(ch) ==
    /\ op.pc = "sweep"
    /\ ch \in op.sweep
    /\ objects' = objects \ {ch}
    /\ op' = [op EXCEPT !.sweep = @ \ {ch},
                        !.gone = IF ch \in objects THEN @ \cup {ch} ELSE @]
    /\ swept' = IF ch \in objects THEN swept \cup {op.path} ELSE swept
    /\ UNCHANGED <<worktree, manifests, head, purgeVars, edits, crashes>>

(***************************************************************************)
(* The tombstone: JSON text, then a line feed.  On a line another purge    *)
(* left without its line feed the two texts run together.                  *)
(***************************************************************************)
Tombstone ==
    /\ op.pc = "sweep"
    /\ op.sweep = {}
    /\ tombs' = IF tombTail = "open" THEN tombs
                ELSE tombs \cup {[path |-> op.path, content |-> op.content]}
    /\ tombTail' = IF tombTail = "open" THEN "bad" ELSE "open"
    /\ op' = Goto("feed")
    /\ UNCHANGED <<worktree, storeVars, key, certs, histVars>>

TombstoneFeed ==
    /\ op.pc = "feed"
    /\ tombTail' = IF tombTail = "open" THEN "clean" ELSE tombTail
    /\ op' = Goto("unlink")
    /\ UNCHANGED <<worktree, storeVars, tombs, key, certs, histVars>>

UnlinkLive ==
    /\ op.pc = "unlink"
    /\ worktree' = [worktree EXCEPT ![op.path] = Absent]
    /\ op' = Goto("sign")
    /\ UNCHANGED <<storeVars, purgeVars, histVars>>

WaitsForKey ==
    /\ op.pc = "sign"
    /\ key
    /\ certs' = certs \cup {[path |-> op.path, content |-> op.content, gone |-> op.gone]}
    /\ op' = Goto("record")
    /\ UNCHANGED <<worktree, storeVars, tombs, tombTail, key, histVars>>

(***************************************************************************)
(* The key is looked up only now; without one the command ends here.       *)
(***************************************************************************)
Sign ==
    /\ op.pc = "sign"
    /\ \/ /\ key
          /\ certs' = certs \cup {[path |-> op.path, content |-> op.content, gone |-> op.gone]}
          /\ op' = Goto("record")
       \/ /\ ~key
          /\ op' = Idle
          /\ UNCHANGED certs
    /\ UNCHANGED <<worktree, storeVars, tombs, tombTail, key, histVars>>

-----------------------------------------------------------------------------

(***************************************************************************)
(* verify_cert: the signature is good, and the tombstone is there.         *)
(***************************************************************************)
VerifyCert(c) ==
    TombsReadable /\ \E t \in tombs : t.path = c.path /\ t.content = c.content

(***************************************************************************)
(* The command's audit::record (module AuditLog) and its return.           *)
(***************************************************************************)
Record ==
    /\ op.pc = "record"
    /\ op' = Idle
    /\ UNCHANGED <<worktree, storeVars, purgeVars, histVars>>

\* anchor keygen; refuses when there is a key
Keygen ==
    /\ "keygen" \in Commands
    /\ op.pc = "idle"
    /\ ~key
    /\ key' = TRUE
    /\ op' = [Idle EXCEPT !.pc = "record", !.cmd = "keygen"]
    /\ UNCHANGED <<worktree, storeVars, tombs, tombTail, certs, histVars>>

(***************************************************************************)
(* Another program writes, creates or deletes a file.                      *)
(***************************************************************************)
Edit(p, c) ==
    /\ edits < MaxEdits
    /\ worktree[p] # c
    /\ worktree' = [worktree EXCEPT ![p] = c]
    /\ edits' = edits + 1
    /\ op' = IF op.pc \in {"idle", "child"} THEN op ELSE [op EXCEPT !.raced = @ \cup {p}]
    /\ UNCHANGED <<storeVars, purgeVars, swept, crashes>>

(***************************************************************************)
(* The command dies, or an I/O error makes it return early; a purge may do *)
(* so in a short write of its tombstone, and that line never parses.       *)
(***************************************************************************)
Tombstoning == op.pc = "sweep" /\ op.sweep = {}

Crash ==
    /\ op.pc # "idle"
    /\ crashes < MaxCrashes
    /\ crashes' = crashes + 1
    /\ op' = Idle
    /\ \/ UNCHANGED tombTail
       \/ Tombstoning /\ tombTail' = "bad"
    /\ UNCHANGED <<worktree, storeVars, tombs, key, certs, swept, edits>>

Begin ==
    \/ SnapBegin
    \/ \E policy \in Policies : GuardBegin(policy)
    \/ \E id \in Ids, keep, force \in BOOLEAN : RevertBegin(id, keep, force)
    \/ \E p \in Paths : PurgeBegin(p)
    \/ Keygen

(***************************************************************************)
(* The steps of a command that wait for nobody.                            *)
(***************************************************************************)
Step ==
    \/ \E p \in Paths : ScanPath(p) \/ WriteFile(p) \/ WriteFails(p) \/ RemoveFile(p)
    \/ PutManifest \/ CreateSetHead \/ SwapHead
    \/ SpawnFails \/ Spawn
    \/ \E ch \in Chunks : SweepChunk(ch)
    \/ Tombstone \/ TombstoneFeed \/ UnlinkLive \/ Sign
    \/ Record

Next ==
    \/ Begin
    \/ Step
    \/ \E failed \in BOOLEAN : ChildExit(failed)
    \/ \E p \in Paths, c \in Contents \cup {Absent} : Edit(p, c)
    \/ Crash

Spec == Init /\ [][Next]_vars

(***************************************************************************)
(* A running command takes its next step.  Nothing is assumed of the       *)
(* command guard runs, which may never end.                                *)
(***************************************************************************)
FairSpec == Spec /\ WF_vars(Step)

-----------------------------------------------------------------------------
(* Properties.                                                             *)

Manifest == [parent : Nat, files : Files]

OpType ==
    [pc : PCs, cmd : {"none", "snap", "revert", "guard", "purge", "keygen"},
     todo : SUBSET Paths,
     files : Files, id : Nat, keep : BOOLEAN, force : BOOLEAN, policy : Policies, prev : Nat,
     path : Nat, content : Contents \cup {Absent}, sweep : SUBSET Chunks,
     gone : SUBSET Chunks, raced : SUBSET Paths, pre : Files]

TypeOK ==
    /\ worktree \in Files
    /\ objects \subseteq Chunks
    /\ manifests \in Seq(Manifest)
    /\ head \in Nat
    /\ tombs \subseteq [path : Paths, content : Contents]
    /\ tombTail \in {"clean", "open", "bad"}
    /\ key \in BOOLEAN
    /\ certs \subseteq [path : Paths, content : Contents, gone : SUBSET Chunks]
    /\ op \in OpType
    /\ swept \subseteq Paths
    /\ edits \in Nat
    /\ crashes \in Nat

(***************************************************************************)
(* The snapshot graph is closed: HEAD and every parent name a manifest     *)
(* that is in the store, older than the one that names it, after every     *)
(* step of every command and wherever it dies (put_manifest before         *)
(* set_head, set_head(prev) of a guard that could not start).              *)
(***************************************************************************)
HistoryClosed ==
    /\ head \in 0..Len(manifests)
    /\ \A i \in Ids : manifests[i].parent \in 0..(i - 1)

(***************************************************************************)
(* The store implements the abstract history of module History: manifests  *)
(* are never changed or dropped, each is committed on top of HEAD, and     *)
(* HEAD only moves to a committed one.                                     *)
(***************************************************************************)
Hist == INSTANCE History WITH Trees <- Files, snaps <- manifests
HistorySpec == Hist!Spec

(***************************************************************************)
(* Every snapshot stays restorable: the chunks of each entry of each       *)
(* manifest are in the store, except for entries of a path that was itself *)
(* purged.  Sharing chunks with a purged path, a crash in the middle of a  *)
(* snapshot or a purge, or being unreachable from HEAD, costs nothing.     *)
(***************************************************************************)
Restorable ==
    \A i \in Ids, p \in Paths :
        p \notin swept => ChunksAt(manifests[i].files, p) \subseteq objects

(***************************************************************************)
(* When apply has gone through, the worktree is the target: every path     *)
(* that no other program wrote meanwhile has the manifest's content, and   *)
(* what the manifest does not have is gone unless --keep-extra.            *)
(***************************************************************************)
Applied == op.pc = "swap"

RevertExact ==
    Applied =>
        \A p \in Paths \ op.raced :
            \/ worktree[p] = op.files[p]
            \/ op.files[p] = Absent /\ op.keep

(***************************************************************************)
(* guard --revert gives the pre-state back: once the snapshot is applied,  *)
(* whatever the guarded command did, each path is as the command found it, *)
(* except paths other programs wrote meanwhile and those a snapshot does   *)
(* not hold, ignored or purged.                                            *)
(***************************************************************************)
GuardUndoes ==
    Applied /\ op.cmd = "guard" =>
        \A p \in Paths \ (op.raced \cup Ignored) :
            \/ worktree[p] = op.pre[p]
            \/ op.pre[p] # Absent /\ IsPurged(p, op.pre[p])

(***************************************************************************)
(* The gate protects work: a step of a revert without --force replaces or  *)
(* removes a file only if the manifest at HEAD holds that very content and *)
(* its chunks are in the store, unless the file is ignored, was written    *)
(* after the gate looked, or is purged.                                    *)
(***************************************************************************)
Destroyed(p) == worktree[p] # Absent /\ worktree'[p] # worktree[p]

GateProtects ==
    [][op.cmd = "revert" /\ ~op.force /\ edits' = edits =>
         \A p \in Paths \ (op.raced \cup Ignored) :
            Destroyed(p) =>
                /\ HeadFiles[p] = worktree[p]
                /\ p \notin swept => ChunksAt(worktree, p) \subseteq objects]_vars

(***************************************************************************)
(* What is tombstoned stays dead: no command writes a tombstoned path or a *)
(* tombstoned content into the worktree, no new manifest has either, and   *)
(* no tombstone is ever dropped.                                           *)
(***************************************************************************)
PurgedStaysDead ==
    [][/\ tombs \subseteq tombs'
       /\ edits' = edits =>
            \A p \in Paths : worktree'[p] \notin {worktree[p], Absent} => ~IsPurged(p, worktree'[p])
       /\ \A i \in (Len(manifests) + 1)..Len(manifests') : \A p \in Paths :
            manifests'[i].files[p] # Absent => ~IsPurged(p, manifests'[i].files[p])]_vars

(***************************************************************************)
(* A purge that reaches its tombstone has erased: of all versions of the   *)
(* path in all manifests, only chunks that another path refers to are left *)
(* in the store.                                                           *)
(***************************************************************************)
ErasureComplete ==
    op.cmd = "purge" /\ op.pc # "sweep" =>
        \A i \in Ids : \A ch \in ChunksAt(manifests[i].files, op.path) \cap objects :
            \E j \in Ids, q \in Paths \ {op.path} : ch \in ChunksAt(manifests[j].files, q)

(***************************************************************************)
(* A command that waits for nobody comes to its end, whatever other        *)
(* programs write and wherever objects are missing.                        *)
(***************************************************************************)
CommandEnds == op.pc \notin {"idle", "child"} ~> op.pc \in {"idle", "child"}

-----------------------------------------------------------------------------
(* What the documentation says and the code does not keep to.              *)

(***************************************************************************)
(* "tombstone it, delete its unshared objects" (purge.rs 116): a path      *)
(* whose chunks are gone has a tombstone, once no command is at work.      *)
(***************************************************************************)
SweptIsTombstoned == op.pc = "idle" => \A p \in swept : PathPurged(p)

(***************************************************************************)
(* purge "issues an ed25519-signed certificate" (README.md 89-92): where   *)
(* nothing died, every tombstone has its certificate.                      *)
(***************************************************************************)
TombstoneCertified ==
    op.pc = "idle" /\ crashes = 0 =>
        \A t \in tombs : \E c \in certs : c.path = t.path /\ c.content = t.content

(***************************************************************************)
(* Of a certificate that verifies, "the chunks it claims to have removed   *)
(* are actually absent from this store" (purge.rs 270-272), unless a       *)
(* snapshot of another path has come to refer to them.                     *)
(***************************************************************************)
CertifiedGone ==
    \A c \in certs : VerifyCert(c) =>
        \A ch \in c.gone \cap objects :
            \E i \in Ids, p \in Paths \ {c.path} : ch \in ChunksAt(manifests[i].files, p)

(***************************************************************************)
(* "the chunks only that content referenced are gone" (README.md 172-174): *)
(* when the certificate is signed, no chunk of the tombstoned content is   *)
(* left that no other path refers to.                                      *)
(***************************************************************************)
ContentErased ==
    op.cmd = "purge" /\ op.pc = "sign" =>
        \A ch \in ChunksOf[op.content] \cap objects :
            \E i \in Ids, p \in Paths \ {op.path} : ch \in ChunksAt(manifests[i].files, p)

(***************************************************************************)
(* purge answers "already purged" (purge.rs 165-167) only for a path whose *)
(* chunks are gone, but for those "shared with live content" (README.md    *)
(* 172-175): where nothing died, what is left of it is referred to by an   *)
(* entry that is not purged.                                               *)
(***************************************************************************)
AlreadyErased ==
    op.pc = "idle" /\ crashes = 0 =>
        \A p \in Paths, i \in Ids :
            manifests[i].files[p] # Absent /\ IsPurged(p, manifests[i].files[p]) =>
                \A ch \in ChunksAt(manifests[i].files, p) \cap objects :
                    \E j \in Ids, q \in Paths :
                        /\ ch \in ChunksAt(manifests[j].files, q)
                        /\ ~IsPurged(q, manifests[j].files[q])

(***************************************************************************)
(* "refuse a revert that would silently destroy un-snapshotted work"       *)
(* (revert.rs 237-238), ignored files included.                            *)
(***************************************************************************)
GateProtectsAll ==
    [][op.cmd = "revert" /\ ~op.force /\ edits' = edits =>
         \A p \in Paths \ op.raced : Destroyed(p) => HeadFiles[p] = worktree[p]]_vars

(***************************************************************************)
(* "--revert on-fail|always restores the pre-state" (README.md 68-69),     *)
(* ignored files included.                                                 *)
(***************************************************************************)
GuardRestoresPreState ==
    Applied /\ op.cmd = "guard" => \A p \in Paths \ op.raced : worktree[p] = op.pre[p]
=============================================================================
