-------------------------------- MODULE Fleet ---------------------------------
(***************************************************************************)
(* Signed revert orders on top of replication: src/src/fleet.rs and its    *)
(* arms in src/src/main.rs, composed with the pulls of module Sync.        *)
(*                                                                         *)
(* An order is a signed (fabric id, target, ts, nonce) that travels by any *)
(* channel, so it may be presented to any node, late, twice, or never.     *)
(* `fleet apply` holds the lock of its fabric from the checks to the last  *)
(* write, through a pull if it needs one, and may die between any two      *)
(* steps.                                                                  *)
(*                                                                         *)
(* Abstractions.  A signing key is named by the node that has it, and a    *)
(* signature is the key in the order: what does not verify is never        *)
(* accepted and is left out.  Of the worktree only `clean` is kept, that   *)
(* it has no changes against HEAD; writing it is one step, since module    *)
(* Fabric has its insides, and other programs edit only while no command   *)
(* runs.  All nodes read one clock of whole seconds.                       *)
(***************************************************************************)
EXTENDS Sync

CONSTANTS
    Signers,      \* nodes that have a signing key
    Fabrics,      \* fabric ids
    NoKey,        \* no fleet.pub
    NoOrder,
    MaxEdits,     \* bound: times other programs make a clean worktree dirty
    MaxTime,      \* bound: seconds that pass
    MaxOrders,    \* bound: orders minted
    MaxDeaths     \* bound: applies that die

ASSUME FleetAssumption == /\ NoKey \notin Nodes /\ Signers \subseteq Nodes
                          /\ MaxEdits \in Nat /\ MaxTime \in Nat
                          /\ MaxOrders \in Nat /\ MaxDeaths \in Nat

VARIABLES
    fabric,       \* fabric id of each node; a clone has that of its original
    clean,        \* the worktree has no changes against HEAD
    edits,        \* edits so far
    now,          \* the clock
    pin,          \* .respawn/fleet.pub
    seen,         \* .respawn/fleet_seen, 0 when absent or not a number
    orders,       \* orders minted so far
    job,          \* the fleet apply each node runs
    landed,       \* history: orders each node's HEAD was moved by
    last,         \* history: the latest of them
    died          \* history: how many applies died at each node

orderVars == <<fabric, now, pin, seen, orders>>
landVars  == <<landed, last, died>>
treeVars  == <<clean, edits>>
fleetVars == <<treeVars, orderVars, job, landVars>>
allVars   == <<vars, fleetVars>>

NoJob == [pc |-> "idle", order |-> NoOrder, from |-> NoKey, force |-> FALSE, lastSeen |-> 0]

FleetInit ==
    /\ Init
    /\ fabric \in [Nodes -> Fabrics]
    /\ clean = [n \in Nodes |-> TRUE]
    /\ edits = 0
    /\ now = 1
    /\ pin = [n \in Nodes |-> NoKey]
    /\ seen = [n \in Nodes |-> 0]
    /\ orders = {}
    /\ job = [n \in Nodes |-> NoJob]
    /\ landed = [n \in Nodes |-> {}]
    /\ last = [n \in Nodes |-> NoOrder]
    /\ died = [n \in Nodes |-> 0]

JobGoto(n, where) == [job EXCEPT ![n].pc = where]

-----------------------------------------------------------------------------
(* fleet trust and fleet order.                                            *)

AlwaysPins(n, key) == TRUE
MayPin(n, key)     == pin[n] = NoKey

Trust(n, key) ==
    /\ lock[n] = "free"
    /\ MayPin(n, key)
    /\ pin' = [pin EXCEPT ![n] = key]
    /\ UNCHANGED <<vars, treeVars, fabric, now, seen, orders, job, landVars>>

Order(n, target) ==
    /\ lock[n] = "free"
    /\ n \in Signers
    /\ Cardinality(orders) < MaxOrders
    /\ target \in mans[n]
    /\ orders' = orders \cup {[key |-> n, fabric |-> fabric[n], target |-> target,
                               ts |-> now, nonce |-> Cardinality(orders) + 1]}
    /\ UNCHANGED <<vars, treeVars, fabric, now, pin, seen, job, landVars>>

-----------------------------------------------------------------------------
(* fleet apply.                                                            *)

AnyAge(n, order) == TRUE
Fresh(n, order)  == order.ts >= seen[n]

(***************************************************************************)
(* The checks, in the code's order; each one refuses and changes nothing.  *)
(***************************************************************************)
Accepts(n, order) ==
    /\ order.key = pin[n]
    /\ order.fabric = fabric[n]
    /\ Fresh(n, order)

TakeOrder(n, order, from, force, where) ==
    job' = [job EXCEPT ![n] = [pc |-> where, order |-> order, from |-> from,
                               force |-> force, lastSeen |-> seen[n]]]

ApplyHere(n, order, force) ==
    /\ lock[n] = "free"
    /\ Accepts(n, order)
    /\ order.target \in mans[n]
    /\ lock' = [lock EXCEPT ![n] = "fleet"]
    /\ TakeOrder(n, order, NoKey, force, "load")
    /\ UNCHANGED <<storeVars, sess, conns, remotes, histVars, treeVars, orderVars, landVars>>

(***************************************************************************)
(* The target is not in the store: --from pulls the HEAD of that peer.     *)
(***************************************************************************)
ApplyFrom(n, order, from, force) ==
    /\ lock[n] = "free"
    /\ Accepts(n, order)
    /\ order.target \notin mans[n]
    /\ lock' = [lock EXCEPT ![n] = "fleet"]
    /\ Open(n, from)
    /\ TakeOrder(n, order, from, force, "pull")
    /\ UNCHANGED <<storeVars, remotes, left, owed, purges, fails, treeVars, orderVars, landVars>>

(***************************************************************************)
(* The command ends, and its lock goes with it.                            *)
(***************************************************************************)
Release(n)  == lock' = [lock EXCEPT ![n] = "free"]

Leave(n) ==
    /\ job' = [job EXCEPT ![n] = NoJob]
    /\ Release(n)

ApplyPulled(n) ==
    /\ job[n].pc = "pull"
    /\ sess[n].pc = "idle"
    /\ \/ sess[n].ok /\ job' = JobGoto(n, "load") /\ UNCHANGED lock
       \/ ~sess[n].ok /\ Leave(n)
    /\ UNCHANGED <<storeVars, sess, conns, remotes, histVars, treeVars, orderVars, landVars>>

(***************************************************************************)
(* snapshot::load and check_then_apply.                                    *)
(***************************************************************************)
ApplyRefused(n) ==
    /\ job[n].pc = "load"
    /\ \/ job[n].order.target \notin mans[n]
       \/ ~clean[n] /\ ~job[n].force
    /\ Leave(n)
    /\ UNCHANGED <<storeVars, sess, conns, remotes, histVars, treeVars, orderVars, landVars>>

(***************************************************************************)
(* What apply must write: files that are right already are skipped, those  *)
(* the target shares with HEAD in a clean worktree, any in a dirty one.    *)
(***************************************************************************)
ChunksOf(id) == IF id = 0 THEN {} ELSE minted[id].chunks
MustRead(n)  == IF clean[n] THEN ChunksOf(job[n].order.target) \ ChunksOf(head[n]) ELSE {}

(***************************************************************************)
(* A chunk is missing: some files may have been written.                   *)
(***************************************************************************)
ApplyStuck(n) ==
    /\ job[n].pc = "load"
    /\ job[n].order.target \in mans[n]
    /\ clean[n] \/ job[n].force
    /\ ~(minted[job[n].order.target].chunks \subseteq objs[n])
    /\ \E c \in {clean[n], FALSE} : clean' = [clean EXCEPT ![n] = c]
    /\ Leave(n)
    /\ UNCHANGED <<storeVars, sess, conns, remotes, histVars, edits, orderVars, landVars>>

\* set_head comes before the write of fleet_seen.
SeenOnly   == "truncate"
AfterFiles == "head"

ApplyFiles(n) ==
    /\ job[n].pc = "load"
    /\ job[n].order.target \in mans[n]
    /\ clean[n] \/ job[n].force
    /\ MustRead(n) \subseteq objs[n]
    /\ clean' = [clean EXCEPT ![n] = job[n].order.target = head[n]]
    /\ job' = JobGoto(n, AfterFiles)
    /\ UNCHANGED <<vars, edits, orderVars, landVars>>

ApplyHead(n) ==
    /\ job[n].pc = "head"
    /\ head' = [head EXCEPT ![n] = job[n].order.target]
    /\ clean' = [clean EXCEPT ![n] = TRUE]
    /\ landed' = [landed EXCEPT ![n] = @ \cup {job[n].order}]
    /\ last' = [last EXCEPT ![n] = job[n].order]
    /\ job' = JobGoto(n, "truncate")
    /\ UNCHANGED <<minted, mans, objs, pullVars, histVars, edits, orderVars, died>>

(***************************************************************************)
(* fs::write of fleet_seen: the file is emptied, then filled.              *)
(***************************************************************************)
ApplyTruncate(n) ==
    /\ job[n].pc = "truncate"
    /\ seen' = [seen EXCEPT ![n] = 0]
    /\ job' = JobGoto(n, "seen")
    /\ UNCHANGED <<vars, treeVars, fabric, now, pin, orders, landVars>>

KeepSeen(j) == j.lastSeen
NewSeen(j)  == IF j.order.ts > j.lastSeen THEN j.order.ts ELSE j.lastSeen

(***************************************************************************)
(* ... and the audit record (module AuditLog).                             *)
(***************************************************************************)
ApplySeen(n) ==
    /\ job[n].pc = "seen"
    /\ seen' = [seen EXCEPT ![n] = NewSeen(job[n])]
    /\ Leave(n)
    /\ UNCHANGED <<storeVars, sess, conns, remotes, histVars, treeVars, fabric, now, pin,
                   orders, landVars>>

(***************************************************************************)
(* The apply dies, and a pull it is in with it.                            *)
(***************************************************************************)
Die(n) ==
    /\ job[n].pc # "idle"
    /\ died[n] < MaxDeaths
    /\ died' = [died EXCEPT ![n] = @ + 1]
    /\ job' = [job EXCEPT ![n] = NoJob]
    /\ lock' = [lock EXCEPT ![n] = "free"]
    /\ sess' = [sess EXCEPT ![n] = NoPull(n, FALSE)]
    /\ LeaveBehind(n)
    /\ UNCHANGED <<storeVars, conns, remotes, pulls, purges, fails, treeVars, orderVars,
                   landed, last>>

ApplyStep(n) ==
    \/ ApplyPulled(n) \/ ApplyRefused(n) \/ ApplyStuck(n) \/ ApplyFiles(n)
    \/ ApplyHead(n) \/ ApplyTruncate(n) \/ ApplySeen(n)

-----------------------------------------------------------------------------

Edit(n) ==
    /\ lock[n] = "free"
    /\ clean[n]
    /\ edits < MaxEdits
    /\ edits' = edits + 1
    /\ clean' = [clean EXCEPT ![n] = FALSE]
    /\ UNCHANGED <<vars, orderVars, job, landVars>>

Tick ==
    /\ now < MaxTime
    /\ now' = now + 1
    /\ UNCHANGED <<vars, treeVars, fabric, pin, seen, orders, job, landVars>>

(***************************************************************************)
(* What a node does besides: a snapshot and a (forced) revert leave a      *)
(* clean worktree, the rest does not touch it.                             *)
(***************************************************************************)
LocalWork(n) ==
    /\ \/ \E chunks \in SUBSET Chunks : Snap(n, chunks)
       \/ \E id \in Ids : Revert(n, id)
    /\ clean' = [clean EXCEPT ![n] = TRUE]
    /\ UNCHANGED <<edits, orderVars, job, landVars>>

Replicate(n) ==
    /\ \/ \E s \in Nodes : PullBegin(n, s)
       \/ PullStep(n) \/ Fail(n) \/ ThreadEnds(n)
       \/ \E ch \in Chunks : PurgeChunk(n, ch)
    /\ UNCHANGED fleetVars

FleetNext ==
    \/ Tick
    \/ \E n \in Nodes :
        \/ LocalWork(n) \/ Replicate(n) \/ Edit(n)
        \/ \E key \in Nodes : Trust(n, key)
        \/ \E target \in Ids : Order(n, target)
        \/ \E order \in orders, force \in BOOLEAN :
            \/ ApplyHere(n, order, force)
            \/ \E from \in Nodes : ApplyFrom(n, order, from, force)
        \/ ApplyStep(n) \/ Die(n)

FleetSpec == FleetInit /\ [][FleetNext]_allVars

-----------------------------------------------------------------------------
(* Properties.                                                             *)

OrderType == [key : Nodes, fabric : Fabrics, target : Nat, ts : Nat, nonce : Nat]

JobType == [pc : {"idle", "pull", "load", "head", "truncate", "seen"},
            order : OrderType \cup {NoOrder}, from : Nodes \cup {NoKey},
            force : BOOLEAN, lastSeen : Nat]

(***************************************************************************)
(* The types, and that a running apply has the lock and a lock it took is  *)
(* given back.                                                             *)
(***************************************************************************)
FleetTypeOK ==
    /\ TypeOK
    /\ fabric \in [Nodes -> Fabrics]
    /\ clean \in [Nodes -> BOOLEAN]
    /\ edits \in Nat
    /\ now \in Nat
    /\ pin \in [Nodes -> Nodes \cup {NoKey}]
    /\ seen \in [Nodes -> Nat]
    /\ orders \subseteq OrderType
    /\ job \in [Nodes -> JobType]
    /\ landed \in [Nodes -> SUBSET OrderType]
    /\ last \in [Nodes -> OrderType \cup {NoOrder}]
    /\ died \in [Nodes -> Nat]
    /\ \A n \in Nodes : lock[n] = "fleet" <=> job[n].pc # "idle"

(***************************************************************************)
(* However an apply ends - refused, stuck, its pull failed, dead before or *)
(* inside the write of fleet_seen - it has let go of the lock, and         *)
(* fleet_seen is not ahead of what has landed: no failure makes a node     *)
(* refuse an order that is newer than every order it has taken.            *)
(***************************************************************************)
ApplySettles ==
    \A n \in Nodes :
        /\ lock[n] = "fleet" => job[n].pc # "idle"
        /\ seen[n] = 0 \/ \E order \in landed[n] : order.ts >= seen[n]

(***************************************************************************)
(* Whatever order ever moved a node's HEAD was signed by the key the node  *)
(* has pinned, today as then, and minted for its own fabric.               *)
(***************************************************************************)
PinnedOnly ==
    \A n \in Nodes : \A order \in landed[n] :
        order.key = pin[n] /\ order.fabric = fabric[n]

(***************************************************************************)
(* At a node where no apply has died, orders land in the order of their    *)
(* timestamps, however late or often they are presented.                   *)
(***************************************************************************)
MonotoneApply ==
    [][\A n \in Nodes : landed[n] # {} /\ died[n] = 0 => last'[n].ts >= last[n].ts]_allVars

(***************************************************************************)
(* "lands the whole fleet on the same state": two nodes that have taken    *)
(* the same orders, minted in different seconds, in whatever sequence      *)
(* they were presented, and whose HEAD has not moved since, have the same  *)
(* HEAD.                                                                   *)
(***************************************************************************)
AtOrder(n) == job[n].pc = "idle" /\ died[n] = 0 /\ landed[n] # {} /\ head[n] = last[n].target

FleetConverges ==
    \A n, m \in Nodes :
        /\ AtOrder(n) /\ AtOrder(m) /\ landed[n] = landed[m]
        /\ \A o, p \in landed[n] : o.ts = p.ts => o = p
        => head[n] = head[m]

-----------------------------------------------------------------------------
(* What the documentation says and the code does not keep to.              *)

(***************************************************************************)
(* "a replayed order older than the newest one already applied must not    *)
(* drag the peer backward again" (fleet.rs 168-169), also after a death.   *)
(***************************************************************************)
ReplayRefused ==
    [][\A n \in Nodes :
         landed[n] # {} => last'[n].ts >= last[n].ts \/ head'[n] = head[n]]_allVars

(***************************************************************************)
(* "a replayed order is a no-op" (THREAT_MODEL.md 31): an order that has   *)
(* landed does not move HEAD again.                                        *)
(***************************************************************************)
ReplayIsNoOp ==
    [][\A n \in Nodes :
         job[n].pc = "head" /\ job'[n].pc = "truncate" /\ job[n].order \in landed[n]
           => head'[n] = head[n]]_allVars

(***************************************************************************)
(* "pulls the target if needed" (SPEC.md 57): after a pull from a peer     *)
(* that has the target, the target is there.                               *)
(***************************************************************************)
TargetPulled ==
    \A n \in Nodes :
        job[n].pc = "load" /\ job[n].from \in Nodes =>
            LET target == job[n].order.target
            IN  target \in mans[job[n].from] => target \in mans[n]
=============================================================================
