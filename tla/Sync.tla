--------------------------------- MODULE Sync ---------------------------------
(***************************************************************************)
(* Peers that replicate each other's history: sync::serve and sync::pull   *)
(* (src/src/sync.rs), with the parts of src/src/store.rs they use.         *)
(*                                                                         *)
(* A pull is a conversation of many requests.  The client holds the lock   *)
(* of its own fabric throughout; the server answers each request from the  *)
(* peer's store without any lock, while the peer snapshots, moves its      *)
(* HEAD, purges and pulls itself.  The connection, or the client, may die  *)
(* between any two requests.                                               *)
(*                                                                         *)
(* Abstractions.  Manifests are content addressed, so one sequence         *)
(* `minted` holds what every id stands for and a store is the set of ids   *)
(* it has; the client checks the hash of what it receives, so an answer is *)
(* either the thing asked for or a failure (Fail).  Two peers never mint   *)
(* byte-identical manifests here.  A snapshot, a HEAD swap and the         *)
(* deletion of one chunk by a purge are one step each (module Fabric has   *)
(* their insides): HEAD moves only after its manifest and its chunks are   *)
(* in the store, and a purge deletes chunk by chunk.                       *)
(***************************************************************************)
EXTENDS Integers, Sequences, FiniteSets

CONSTANTS
    Nodes,        \* fabrics, each served to the others
    Chunks,       \* object hashes
    HaveBatch,    \* hashes in one HAVE request
    MaxConns,     \* connections a server takes at a time
    MaxSnaps,     \* bound: snapshots taken by all nodes
    MaxPulls,     \* bound: pulls begun
    MaxPurges,    \* bound: chunks purges delete
    MaxFails      \* bound: pulls cut short by the network or a death

ASSUME NodesAssumption == IsFiniteSet(Nodes)
ASSUME BatchAssumption == HaveBatch \in Nat \ {0} /\ MaxConns \in Nat \ {0}
ASSUME BoundAssumption ==
    MaxSnaps \in Nat /\ MaxPulls \in Nat /\ MaxPurges \in Nat /\ MaxFails \in Nat

VARIABLES
    minted,       \* what each manifest id stands for
    mans,         \* ids in each node's .respawn/manifests
    objs,         \* each node's .respawn/objects
    head,         \* each node's HEAD, 0 when empty
    lock,         \* who holds each fabric's lock: "free", "pull" or "fleet"
    sess,         \* each node's side of the pull it runs
    conns,        \* connections each server counts
    remotes,      \* .respawn/remotes: head last pulled from each peer
    left,         \* history: ids a pull of this node set out for and did not get
    owed,         \* history: chunks this node was refused, cut off from, or purged
    pulls,        \* pulls begun so far
    purges,       \* chunks purged so far
    fails         \* pulls cut short so far

storeVars == <<minted, mans, objs, head>>
pullVars  == <<lock, sess, conns, remotes>>
histVars  == <<left, owed, pulls, purges, fails>>
vars      == <<storeVars, pullVars, histVars>>

Ids == 1..Len(minted)

PCs == {"idle", "hello", "walk", "have", "fetch", "save"}

\* ok: the last pull returned without an error
NewSession(pc, peer, ok) == [pc |-> pc, peer |-> peer, top |-> 0, cur |-> 0,
                             needed |-> {}, want |-> {}, ok |-> ok]

NoPull(n, ok) == NewSession("idle", n, ok)

Init ==
    /\ minted = <<>>
    /\ mans = [n \in Nodes |-> {}]
    /\ objs = [n \in Nodes |-> {}]
    /\ head = [n \in Nodes |-> 0]
    /\ lock = [n \in Nodes |-> "free"]
    /\ sess = [n \in Nodes |-> NoPull(n, FALSE)]
    /\ conns = [n \in Nodes |-> 0]
    /\ remotes = [n \in Nodes |-> [m \in Nodes |-> 0]]
    /\ left = [n \in Nodes |-> {}]
    /\ owed = [n \in Nodes |-> {}]
    /\ pulls = 0
    /\ purges = 0
    /\ fails = 0

-----------------------------------------------------------------------------
(* What a node does to its own fabric, under its lock.                     *)

Snap(n, chunks) ==
    /\ lock[n] = "free"
    /\ Len(minted) < MaxSnaps
    /\ minted' = Append(minted, [parent |-> head[n], chunks |-> chunks])
    /\ mans' = [mans EXCEPT ![n] = @ \cup {Len(minted) + 1}]
    /\ objs' = [objs EXCEPT ![n] = @ \cup chunks]
    /\ head' = [head EXCEPT ![n] = Len(minted) + 1]
    /\ UNCHANGED <<pullVars, histVars>>

(***************************************************************************)
(* revert; a file that already has its content needs no chunk.             *)
(***************************************************************************)
Revert(n, id) ==
    /\ lock[n] = "free"
    /\ id \in mans[n] \ {head[n]}
    /\ head' = [head EXCEPT ![n] = id]
    /\ UNCHANGED <<minted, mans, objs, pullVars, histVars>>

PurgeChunk(n, ch) ==
    /\ lock[n] = "free"
    /\ purges < MaxPurges
    /\ ch \in objs[n]
    /\ objs' = [objs EXCEPT ![n] = @ \ {ch}]
    /\ owed' = [owed EXCEPT ![n] = @ \cup {ch}]
    /\ purges' = purges + 1
    /\ UNCHANGED <<minted, mans, head, pullVars, left, pulls, fails>>

-----------------------------------------------------------------------------
(* The server.                                                             *)

AlwaysRoom(s) == TRUE
Room(s) == conns[s] < MaxConns

(***************************************************************************)
(* A thread serves its connection until the client is gone; then it gives  *)
(* its place back.                                                         *)
(***************************************************************************)
Sessions(s) == {c \in Nodes : sess[c].pc # "idle" /\ sess[c].peer = s}

NeverLeaves(s) == FALSE

ThreadEnds(s) ==
    /\ conns[s] > Cardinality(Sessions(s))
    /\ conns' = [conns EXCEPT ![s] = @ - 1]
    /\ UNCHANGED <<storeVars, lock, sess, remotes, histVars>>

(***************************************************************************)
(* respond_frame.                                                          *)
(***************************************************************************)
GetHead(s)       == head[s]
HasManifest(s, id) == id \in mans[s]
Have(s, batch)   == batch \cap objs[s]
HasObject(s, ch) == ch \in objs[s]

-----------------------------------------------------------------------------
(* The client: sync::pull.                                                 *)

Goto(c, where) == [sess EXCEPT ![c].pc = where]

(***************************************************************************)
(* connect.  A server over its limit drops the connection, and the pull    *)
(* fails having done nothing.                                              *)
(***************************************************************************)
Open(c, s) ==
    /\ c # s
    /\ pulls < MaxPulls
    /\ pulls' = pulls + 1
    /\ Room(s)
    /\ conns' = [conns EXCEPT ![s] = @ + 1]
    /\ sess' = [sess EXCEPT ![c] = NewSession("hello", s, FALSE)]

PullBegin(c, s) ==
    /\ lock[c] = "free"
    /\ lock' = [lock EXCEPT ![c] = "pull"]
    /\ Open(c, s)
    /\ UNCHANGED <<storeVars, remotes, left, owed, purges, fails>>

(***************************************************************************)
(* pull returns.  Run as a command of its own it gives the lock back.      *)
(***************************************************************************)
Close(c, ok) ==
    /\ sess' = [sess EXCEPT ![c] = NoPull(c, ok)]
    /\ lock' = [lock EXCEPT ![c] = IF @ = "pull" THEN "free" ELSE @]

(***************************************************************************)
(* What is still to come when a pull ends early.                           *)
(***************************************************************************)
LeaveBehind(c) ==
    /\ left' = [left EXCEPT ![c] = IF sess[c].pc = "walk" THEN @ \cup {sess[c].cur} ELSE @]
    /\ owed' = [owed EXCEPT ![c] = @ \cup sess[c].needed \cup sess[c].want]

AwaitsHead(c) ==
    /\ sess[c].pc = "hello"
    /\ GetHead(sess[c].peer) # 0
    /\ sess' = [sess EXCEPT ![c].pc = "walk", ![c].top = GetHead(sess[c].peer),
                            ![c].cur = GetHead(sess[c].peer)]
    /\ UNCHANGED <<storeVars, lock, conns, remotes, histVars>>

AskHead(c) ==
    /\ sess[c].pc = "hello"
    /\ \/ /\ GetHead(sess[c].peer) = 0
          /\ Close(c, TRUE)
       \/ /\ GetHead(sess[c].peer) # 0
          /\ sess' = [sess EXCEPT ![c].pc = "walk", ![c].top = GetHead(sess[c].peer),
                                  ![c].cur = GetHead(sess[c].peer)]
          /\ UNCHANGED lock
    /\ UNCHANGED <<storeVars, conns, remotes, histVars>>

(***************************************************************************)
(* The walk down the parents ends at the first manifest the client has.    *)
(***************************************************************************)
WalkEnds(c) ==
    /\ sess[c].pc = "walk"
    /\ sess[c].cur \in mans[c]
    /\ sess' = Goto(c, "have")
    /\ UNCHANGED <<storeVars, lock, conns, remotes, histVars>>

KeepNewest(needed, m) == m.chunks
Needing(needed, m)    == needed \cup m.chunks

WalkPastRoot(c, m)  == [sess[c] EXCEPT !.cur = m.parent, !.needed = Needing(@, m)]
WalkNoFurther(c, m) == [sess[c] EXCEPT !.pc = "have", !.needed = Needing(@, m)]
Walked(c, m) ==
    [sess[c] EXCEPT !.pc = IF m.parent = 0 THEN "have" ELSE "walk",
                    !.cur = m.parent,
                    !.needed = Needing(@, m)]

(***************************************************************************)
(* A manifest is stored as it arrives, before its parent and its chunks.   *)
(***************************************************************************)
WalkStep(c) ==
    /\ sess[c].pc = "walk"
    /\ sess[c].cur \notin mans[c]
    /\ HasManifest(sess[c].peer, sess[c].cur)
    /\ mans' = [mans EXCEPT ![c] = @ \cup {sess[c].cur}]
    /\ sess' = [sess EXCEPT ![c] = Walked(c, minted[sess[c].cur])]
    /\ UNCHANGED <<minted, objs, head, lock, conns, remotes, histVars>>

WalkMissing(c) ==
    /\ sess[c].pc = "walk"
    /\ sess[c].cur \notin mans[c]
    /\ ~HasManifest(sess[c].peer, sess[c].cur)
    /\ LeaveBehind(c)
    /\ Close(c, FALSE)
    /\ UNCHANGED <<storeVars, conns, remotes, pulls, purges, fails>>

(***************************************************************************)
(* One HAVE request: a full batch, or all that is left.  What the server   *)
(* does not have is passed over.                                           *)
(***************************************************************************)
IsBatch(c, batch) ==
    /\ batch # {}
    /\ \/ Cardinality(batch) = HaveBatch
       \/ batch = sess[c].needed /\ Cardinality(batch) < HaveBatch

AskHave(c, batch) ==
    /\ sess[c].pc = "have"
    /\ IsBatch(c, batch)
    /\ sess' = [sess EXCEPT ![c].pc = "fetch",
                            ![c].needed = @ \ batch,
                            ![c].want = Have(sess[c].peer, batch) \ objs[c]]
    /\ owed' = [owed EXCEPT ![c] = @ \cup ((batch \ Have(sess[c].peer, batch)) \ objs[c])]
    /\ UNCHANGED <<storeVars, lock, conns, remotes, left, pulls, purges, fails>>

HaveEnds(c) ==
    /\ sess[c].pc = "have"
    /\ sess[c].needed = {}
    /\ sess' = Goto(c, "save")
    /\ UNCHANGED <<storeVars, lock, conns, remotes, histVars>>

FetchObject(c, ch) ==
    /\ sess[c].pc = "fetch"
    /\ ch \in sess[c].want
    /\ HasObject(sess[c].peer, ch)
    /\ objs' = [objs EXCEPT ![c] = @ \cup {ch}]
    /\ sess' = [sess EXCEPT ![c].want = @ \ {ch}]
    /\ UNCHANGED <<minted, mans, head, lock, conns, remotes, histVars>>

(***************************************************************************)
(* The peer purged the chunk after it said it had it.                      *)
(***************************************************************************)
FetchMissing(c, ch) ==
    /\ sess[c].pc = "fetch"
    /\ ch \in sess[c].want
    /\ ~HasObject(sess[c].peer, ch)
    /\ LeaveBehind(c)
    /\ Close(c, FALSE)
    /\ UNCHANGED <<storeVars, conns, remotes, pulls, purges, fails>>

FetchEnds(c) ==
    /\ sess[c].pc = "fetch"
    /\ sess[c].want = {}
    /\ sess' = Goto(c, "have")
    /\ UNCHANGED <<storeVars, lock, conns, remotes, histVars>>

(***************************************************************************)
(* The remotes file, and pull returns.                                     *)
(***************************************************************************)
Save(c) ==
    /\ sess[c].pc = "save"
    /\ remotes' = [remotes EXCEPT ![c][sess[c].peer] = sess[c].top]
    /\ Close(c, TRUE)
    /\ UNCHANGED <<storeVars, conns, histVars>>

(***************************************************************************)
(* The connection breaks, a request times out, an answer is malformed, not *)
(* what its hash says or beyond a cap of the pull, or the client dies.     *)
(***************************************************************************)
Fail(c) ==
    /\ sess[c].pc # "idle"
    /\ fails < MaxFails
    /\ fails' = fails + 1
    /\ LeaveBehind(c)
    /\ Close(c, FALSE)
    /\ UNCHANGED <<storeVars, conns, remotes, pulls, purges>>

PullStep(c) ==
    \/ AskHead(c) \/ WalkEnds(c) \/ WalkStep(c) \/ WalkMissing(c)
    \/ \E batch \in SUBSET sess[c].needed : AskHave(c, batch)
    \/ HaveEnds(c)
    \/ \E ch \in Chunks : FetchObject(c, ch) \/ FetchMissing(c, ch)
    \/ FetchEnds(c) \/ Save(c)

Next ==
    \/ \E n \in Nodes, chunks \in SUBSET Chunks : Snap(n, chunks)
    \/ \E n \in Nodes, id \in Ids : Revert(n, id)
    \/ \E n \in Nodes, ch \in Chunks : PurgeChunk(n, ch)
    \/ \E c, s \in Nodes : PullBegin(c, s)
    \/ \E c \in Nodes : PullStep(c) \/ Fail(c) \/ ThreadEnds(c)

Spec == Init /\ [][Next]_vars

(***************************************************************************)
(* The client asks its next question, the server answers it, and a thread  *)
(* whose client is gone sees the end of the connection or times out.       *)
(***************************************************************************)
FairSpec == Spec /\ \A n \in Nodes : WF_vars(PullStep(n)) /\ WF_vars(ThreadEnds(n))

-----------------------------------------------------------------------------
(* Properties.                                                             *)

Manifest == [parent : Nat, chunks : SUBSET Chunks]

Session ==
    [pc : PCs, peer : Nodes, top : Nat, cur : Nat, needed : SUBSET Chunks,
     want : SUBSET Chunks, ok : BOOLEAN]

TypeOK ==
    /\ minted \in Seq(Manifest)
    /\ mans \in [Nodes -> SUBSET Nat]
    /\ objs \in [Nodes -> SUBSET Chunks]
    /\ head \in [Nodes -> Nat]
    /\ lock \in [Nodes -> {"free", "pull", "fleet"}]
    /\ sess \in [Nodes -> Session]
    /\ conns \in [Nodes -> Nat]
    /\ remotes \in [Nodes -> [Nodes -> Nat]]
    /\ left \in [Nodes -> SUBSET Nat]
    /\ owed \in [Nodes -> SUBSET Chunks]
    /\ pulls \in Nat
    /\ purges \in Nat
    /\ fails \in Nat

(***************************************************************************)
(* No request reaches for something nobody made: every id a store, a HEAD, *)
(* a manifest's parent or a pull in progress names has been minted, and    *)
(* what HEAD and the remotes files name is in the node's own store,        *)
(* whatever peers do between the requests.                                 *)
(***************************************************************************)
RefsMinted ==
    /\ \A n \in Nodes :
        /\ mans[n] \subseteq Ids
        /\ head[n] \in mans[n] \cup {0}
        /\ sess[n].pc = "walk" => sess[n].cur \in Ids
        /\ \A m \in Nodes : remotes[n][m] \in mans[n] \cup {0}
    /\ \A i \in Ids : minted[i].parent \in 0..(i - 1)

(***************************************************************************)
(* The history a node holds has a gap only where a pull is at work or was  *)
(* cut short: the parent of every manifest it has is there too, or is the  *)
(* one the pull asks for next, or was set out for and never came.          *)
(***************************************************************************)
GapsAccounted ==
    \A n \in Nodes : \A id \in mans[n] :
        \/ minted[id].parent \in mans[n] \cup left[n] \cup {0}
        \/ sess[n].pc = "walk" /\ sess[n].cur = minted[id].parent

(***************************************************************************)
(* A manifest's chunks are in the node's store, or the pull that brought   *)
(* the manifest still has them on its list, or it was refused them, was    *)
(* cut off before it asked, or they were purged.                           *)
(***************************************************************************)
ChunksAccounted ==
    \A n \in Nodes : \A id \in mans[n] :
        minted[id].chunks \subseteq objs[n] \cup owed[n] \cup sess[n].needed \cup sess[n].want

(***************************************************************************)
(* The server's count covers the sessions it serves and stays within its   *)
(* limit.                                                                  *)
(***************************************************************************)
ConnsCounted ==
    \A s \in Nodes : Cardinality(Sessions(s)) <= conns[s] /\ conns[s] <= MaxConns

(***************************************************************************)
(* Every pull comes to an end, whatever the peer does meanwhile, and also  *)
(* when all nodes pull from one another at the same time: serving takes no *)
(* lock.                                                                   *)
(***************************************************************************)
PullEnds == \A c \in Nodes : sess[c].pc # "idle" ~> sess[c].pc = "idle"

(***************************************************************************)
(* A full server makes room again.                                         *)
(***************************************************************************)
ServerRecovers == \A s \in Nodes : conns[s] = MaxConns ~> conns[s] < MaxConns

-----------------------------------------------------------------------------
(* What the documentation says and the code does not keep to.              *)

(***************************************************************************)
(* A snapshot and all that came before it.                                 *)
(***************************************************************************)
Ancestry[i \in Nat] == IF i = 0 THEN {} ELSE {i} \cup Ancestry[minted[i].parent]

(***************************************************************************)
(* "Pull the remote's HEAD chain + all missing objects into the local      *)
(* store" (sync.rs 275): when a pull is through, the whole chain of the    *)
(* HEAD it was given is there, with every chunk the peer has of it.        *)
(***************************************************************************)
PullCompletes ==
    \A c \in Nodes : sess[c].pc = "save" =>
        \A id \in Ancestry[sess[c].top] :
            /\ id \in mans[c]
            /\ minted[id].chunks \cap objs[sess[c].peer] \subseteq objs[c]
=============================================================================
