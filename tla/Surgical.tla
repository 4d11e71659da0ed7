------------------------------- MODULE Surgical -------------------------------
(***************************************************************************)
(* `revert --actor`: undo what one actor did and keep everyone else's      *)
(* work.  revert::surgical_manifest (src/src/revert.rs) over the HEAD      *)
(* chain, and the arm of src/src/main.rs that applies what it returns.     *)
(*                                                                         *)
(* The chain is the state: people and agents edit the worktree and         *)
(* snapshot it under their names, undo one another, and an undo may die    *)
(* half way.  A revert to an older snapshot only shortens the chain, to    *)
(* one that is reached without it.                                         *)
(*                                                                         *)
(* Abstractions.  The passes of apply over single files, edits that race   *)
(* with them, missing chunks and tombstones are those of module Fabric;    *)
(* here a pass is one step and edits fall between commands.  The loop over *)
(* the chain is given by what it computes: for each path, the newest entry *)
(* that meets its conditions.                                              *)
(***************************************************************************)
EXTENDS Integers, Sequences

CONSTANTS
    Paths,
    Contents,
    Absent,       \* no file
    Actors,       \* names snapshots are tagged with
    NoActor,      \* an untagged snapshot
    MaxSnaps      \* bound: length of the HEAD chain

ASSUME SurgicalAssumption ==
    /\ Absent \notin Contents
    /\ NoActor \notin Actors
    /\ MaxSnaps \in Nat

VARIABLES
    chain,        \* manifests from the first to HEAD
    worktree,
    op            \* the undo in flight

vars == <<chain, worktree, op>>

Files  == [Paths -> Contents \cup {Absent}]
NoFile == [p \in Paths |-> Absent]

Idle == [pc |-> "idle", actor |-> NoActor, files |-> NoFile, touched |-> {}, pre |-> NoFile]

Init ==
    /\ chain = <<>>
    /\ worktree = NoFile
    /\ op = Idle

Positions == 1..Len(chain)

Content(i, p)   == chain[i].files[p]
Before(i, p)    == IF i = 1 THEN Absent ELSE Content(i - 1, p)
By(i, actor)    == chain[i].actor = actor
Changes(i, p)   == Content(i, p) # Before(i, p)
HeadFiles       == IF chain = <<>> THEN NoFile ELSE chain[Len(chain)].files

-----------------------------------------------------------------------------
(* surgical_manifest.                                                      *)

(***************************************************************************)
(* Paths where a snapshot of the actor disagrees with the one before it.   *)
(***************************************************************************)
Touched(actor) == {p \in Paths : \E i \in Positions : By(i, actor) /\ Changes(i, p)}

(***************************************************************************)
(* actor_content: what the actor's snapshots up to i hold at the path,     *)
(* whoever wrote it.                                                       *)
(***************************************************************************)
NoneOfActors(actor, p, i) == FALSE
ActorBytes(actor, p, i) ==
    \E j \in 1..i : By(j, actor) /\ Content(j, p) = Content(i, p)

(***************************************************************************)
(* effective: snapshots of others that have the path with bytes the        *)
(* actor's snapshots did not have until then.  The newest one counts.      *)
(***************************************************************************)
Candidates(actor, p) ==
    {i \in Positions : ~By(i, actor) /\ Content(i, p) # Absent /\ ~ActorBytes(actor, p, i)}

Oldest(is) == CHOOSE i \in is : \A j \in is : i <= j
Newest(is) == CHOOSE i \in is : \A j \in is : j <= i

(***************************************************************************)
(* pre: the entry before the actor's first touch.                          *)
(***************************************************************************)
FirstTouch(actor, p) == Oldest({i \in Positions : By(i, actor) /\ Changes(i, p)})

Resolve(actor, p) ==
    IF Candidates(actor, p) # {} THEN Content(Newest(Candidates(actor, p)), p)
    ELSE Before(FirstTouch(actor, p), p)

SurgicalManifest(actor) ==
    [p \in Paths |-> IF p \in Touched(actor) THEN Resolve(actor, p) ELSE HeadFiles[p]]

-----------------------------------------------------------------------------
(* The command.                                                            *)

KnownActor(actor) == chain # <<>> /\ Touched(actor) # {}

(***************************************************************************)
(* check_then_apply with keep_extra: the gate, then every file of the      *)
(* surgical manifest is written and nothing is removed.                    *)
(***************************************************************************)
UndoApply(actor, force) ==
    /\ op.pc = "idle"
    /\ Len(chain) < MaxSnaps
    /\ KnownActor(actor)
    /\ force \/ worktree = HeadFiles
    /\ LET files == SurgicalManifest(actor)
       IN  /\ worktree' = [p \in Paths |-> IF files[p] # Absent THEN files[p] ELSE worktree[p]]
           /\ op' = [pc |-> "remove", actor |-> actor, files |-> files,
                     touched |-> Touched(actor), pre |-> worktree]
    /\ UNCHANGED chain

Unlisted(p)   == op.files[p] = Absent
ActorOnly(p)  == p \in op.touched /\ op.files[p] = Absent

(***************************************************************************)
(* Touched paths the surgical manifest does not have are removed.          *)
(***************************************************************************)
UndoRemove ==
    /\ op.pc = "remove"
    /\ worktree' = [p \in Paths |-> IF ActorOnly(p) THEN Absent ELSE worktree[p]]
    /\ op' = [op EXCEPT !.pc = "snap"]
    /\ UNCHANGED chain

(***************************************************************************)
(* The result is snapshotted, untagged.                                    *)
(***************************************************************************)
UndoSnap ==
    /\ op.pc = "snap"
    /\ chain' = Append(chain, [actor |-> NoActor, files |-> worktree])
    /\ op' = Idle
    /\ UNCHANGED worktree

Crash ==
    /\ op.pc # "idle"
    /\ op' = Idle
    /\ UNCHANGED <<chain, worktree>>

Snap(actor) ==
    /\ op.pc = "idle"
    /\ Len(chain) < MaxSnaps
    /\ chain' = Append(chain, [actor |-> actor, files |-> worktree])
    /\ UNCHANGED <<worktree, op>>

Edit(p, c) ==
    /\ op.pc = "idle"
    /\ worktree[p] # c
    /\ worktree' = [worktree EXCEPT ![p] = c]
    /\ UNCHANGED <<chain, op>>

Next ==
    \/ \E actor \in Actors, force \in BOOLEAN : UndoApply(actor, force)
    \/ UndoRemove \/ UndoSnap \/ Crash
    \/ \E actor \in Actors \cup {NoActor} : Snap(actor)
    \/ \E p \in Paths, c \in Contents \cup {Absent} : Edit(p, c)

Spec == Init /\ [][Next]_vars

-----------------------------------------------------------------------------
(* Properties.                                                             *)

(***************************************************************************)
(* The types, and that an undo is only under way for an actor who changed  *)
(* something.                                                              *)
(***************************************************************************)
TypeOK ==
    /\ chain \in Seq([actor : Actors \cup {NoActor}, files : Files])
    /\ worktree \in Files
    /\ op \in [pc : {"idle", "remove", "snap"}, actor : Actors \cup {NoActor},
               files : Files, touched : SUBSET Paths, pre : Files]
    /\ op.pc # "idle" => op.touched # {}

Undone == op.pc = "snap"

(***************************************************************************)
(* The actor's bytes are gone: a path the actor touched ends up without a  *)
(* file, or with a content another one recorded there before any snapshot  *)
(* of the actor had it.  Snapshots by others that merely captured the      *)
(* actor's bytes do not save them, nor do earlier undos.                   *)
(***************************************************************************)
ActorGone ==
    Undone => \A p \in op.touched :
        \/ worktree[p] = Absent
        \/ \E i \in Positions :
              /\ ~By(i, op.actor)
              /\ Content(i, p) = worktree[p]
              /\ \A j \in 1..i : By(j, op.actor) => Content(j, p) # worktree[p]

(***************************************************************************)
(* Paths the actor never touched are as HEAD has them; a file HEAD does    *)
(* not have is left as it was.                                             *)
(***************************************************************************)
OthersKept ==
    Undone => \A p \in Paths \ op.touched :
        worktree[p] = IF HeadFiles[p] = Absent THEN op.pre[p] ELSE HeadFiles[p]

(***************************************************************************)
(* The reference: what the path would be had only the others' changes been *)
(* made, the newest of which decides.                                      *)
(***************************************************************************)
OthersChanges(actor, p) == {i \in Positions : ~By(i, actor) /\ Changes(i, p)}

Replayed(actor, p) ==
    LET is == OthersChanges(actor, p)
    IN  IF is = {} THEN Absent ELSE Content(CHOOSE i \in is : \A j \in is : j <= i, p)

(***************************************************************************)
(* Where others never deleted the path, and never went back to a content a *)
(* snapshot of the actor had recorded, the undo is the replay without the  *)
(* actor.                                                                  *)
(***************************************************************************)
UndoIsReplay ==
    Undone => \A p \in op.touched :
        (\A i \in OthersChanges(op.actor, p) :
            Content(i, p) # Absent /\ ~ActorBytes(op.actor, p, i))
        => worktree[p] = Replayed(op.actor, p)

-----------------------------------------------------------------------------
(* What the documentation says and the code does not keep to.              *)

(***************************************************************************)
(* "undo what one actor did, keep everyone else's work" (revert.rs         *)
(* 278), deletions included.                                               *)
(***************************************************************************)
DeletionKept ==
    Undone => \A p \in op.touched :
        OthersChanges(op.actor, p) # {} /\ Replayed(op.actor, p) = Absent
        => worktree[p] = Absent

(***************************************************************************)
(* actor_content holds "Content hashes the actor actually wrote per path"  *)
(* (revert.rs 314): what another one wrote last, and the actor never did,  *)
(* comes back.                                                             *)
(***************************************************************************)
WroteIt(actor, p, c) == \E i \in Positions : By(i, actor) /\ Changes(i, p) /\ Content(i, p) = c

OwnWorkKept ==
    Undone => \A p \in op.touched :
        LET c == Replayed(op.actor, p)
        IN  c # Absent /\ ~WroteIt(op.actor, p, c) => worktree[p] = c
=============================================================================
