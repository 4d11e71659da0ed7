------------------------------ MODULE SyncProofs ------------------------------
(***************************************************************************)
(* Theorems about Sync, for any number of nodes, chunks, snapshots, pulls, *)
(* purges and failures: what a node's store may lack is always something   *)
(* a pull is still after or was denied.                                    *)
(***************************************************************************)
EXTENDS Fleet, FiniteSetTheorems, TLAPS

(***************************************************************************)
(* What a session looks like at each of its steps: the lock is taken       *)
(* before it starts, lists are empty before they are filled and after they *)
(* are worked off, and the head asked for is in the store once the walk is *)
(* over.                                                                   *)
(***************************************************************************)
Shape(n) ==
    /\ lock[n] = "free" => sess[n].pc = "idle"
    /\ sess[n].pc \in {"idle", "hello", "save"} => sess[n].needed = {}
    /\ sess[n].pc # "fetch" => sess[n].want = {}
    /\ sess[n].pc = "walk" => sess[n].cur = sess[n].top \/ sess[n].top \in mans[n]
    /\ sess[n].pc \in {"have", "fetch", "save"} => sess[n].top \in mans[n]

Shapes == \A n \in Nodes : Shape(n)

IInv == TypeOK /\ Shapes /\ RefsMinted /\ GapsAccounted /\ ChunksAccounted

-----------------------------------------------------------------------------

LEMMA InitIInv == Init => IInv
<1> SUFFICES ASSUME Init PROVE IInv
  OBVIOUS
<1>1. TypeOK
  BY DEF Init, TypeOK, NoPull, NewSession, Session, PCs, Manifest
<1>2. Shapes /\ RefsMinted /\ GapsAccounted /\ ChunksAccounted
  BY DEF Init, Shapes, Shape, RefsMinted, GapsAccounted, ChunksAccounted, NoPull,
         NewSession, Ids
<1> QED
  BY <1>1, <1>2 DEF IInv

(***************************************************************************)
(* The steps of a node on its own fabric.                                  *)
(***************************************************************************)
LEMMA SnapIInv ==
    ASSUME IInv, NEW n \in Nodes, NEW chunks \in SUBSET Chunks, Snap(n, chunks)
    PROVE  IInv'
<1> USE DEF IInv
<1>1. /\ minted' = Append(minted, [parent |-> head[n], chunks |-> chunks])
      /\ Len(minted') = Len(minted) + 1 /\ Len(minted) \in Nat
      /\ minted'[Len(minted) + 1] = [parent |-> head[n], chunks |-> chunks]
      /\ \A i \in Ids : minted'[i] = minted[i]
      /\ minted' \in Seq(Manifest)
  <2>1. [parent |-> head[n], chunks |-> chunks] \in Manifest
    BY DEF TypeOK, Manifest
  <2> QED
    BY <2>1 DEF Snap, TypeOK, Ids
<1>2. Ids' = Ids \cup {Len(minted) + 1} /\ Len(minted) + 1 \notin Ids
  BY <1>1 DEF Ids
<1>3. UNCHANGED <<lock, sess, conns, remotes, left, owed, pulls, purges, fails>>
  BY DEF Snap, pullVars, histVars
<1>4. /\ mans' = [mans EXCEPT ![n] = @ \cup {Len(minted) + 1}]
      /\ objs' = [objs EXCEPT ![n] = @ \cup chunks]
      /\ head' = [head EXCEPT ![n] = Len(minted) + 1]
  BY DEF Snap
<1>5. TypeOK'
  BY <1>1, <1>3, <1>4 DEF TypeOK
<1>6. Shapes'
  BY <1>3, <1>4 DEF Shapes, Shape, TypeOK
<1>7. RefsMinted'
  <2>1. \A m \in Nodes : mans'[m] \subseteq Ids' /\ head'[m] \in mans'[m] \cup {0}
    BY <1>2, <1>4 DEF RefsMinted, TypeOK
  <2>2. \A m \in Nodes : sess'[m].pc = "walk" => sess'[m].cur \in Ids'
    BY <1>2, <1>3 DEF RefsMinted
  <2>3. \A m, k \in Nodes : remotes'[m][k] \in mans'[m] \cup {0}
    BY <1>3, <1>4 DEF RefsMinted, TypeOK
  <2>4. ASSUME NEW i \in Ids' PROVE minted'[i].parent \in 0..(i - 1)
    <3>1. CASE i \in Ids
      BY <1>1, <3>1 DEF RefsMinted
    <3>2. CASE i = Len(minted) + 1
      <4>1. minted'[i].parent = head[n]
        BY <1>1, <3>2
      <4>2. head[n] \in 0..Len(minted)
        BY <1>1 DEF RefsMinted, Ids
      <4> QED
        BY <1>1, <3>2, <4>1, <4>2
    <3> QED
      BY <1>2, <3>1, <3>2
  <2> QED
    BY <2>1, <2>2, <2>3, <2>4 DEF RefsMinted
<1>8. ASSUME NEW m \in Nodes, NEW id, id \in mans'[m]
      PROVE  \/ id \in mans[m] /\ minted'[id] = minted[id]
             \/ m = n /\ minted'[id] = [parent |-> head[n], chunks |-> chunks]
  <2>1. id \in mans[m] \/ (m = n /\ id = Len(minted) + 1)
    <3>1. mans'[m] = IF m = n THEN mans[m] \cup {Len(minted) + 1} ELSE mans[m]
      BY <1>4 DEF TypeOK
    <3> QED
      BY <3>1, <1>8
  <2>2. CASE id \in mans[m]
    <3>1. id \in Ids
      BY <2>2 DEF RefsMinted
    <3> QED
      BY <2>2, <3>1, <1>1
  <2>3. CASE m = n /\ id = Len(minted) + 1
    BY <2>3, <1>1
  <2> QED
    BY <2>1, <2>2, <2>3
<1>9. ASSUME NEW m \in Nodes PROVE mans[m] \subseteq mans'[m] /\ objs[m] \subseteq objs'[m]
  BY <1>4 DEF TypeOK
<1>10. GapsAccounted'
  <2> SUFFICES ASSUME NEW m \in Nodes, NEW id \in mans'[m]
               PROVE  \/ minted'[id].parent \in mans'[m] \cup left'[m] \cup {0}
                      \/ sess'[m].pc = "walk" /\ sess'[m].cur = minted'[id].parent
    BY DEF GapsAccounted
  <2>1. CASE id \in mans[m] /\ minted'[id] = minted[id]
    BY <2>1, <1>3, <1>9 DEF GapsAccounted
  <2>2. CASE m = n /\ minted'[id] = [parent |-> head[n], chunks |-> chunks]
    BY <2>2, <1>9 DEF RefsMinted
  <2> QED
    BY <1>8, <2>1, <2>2
<1>11. ChunksAccounted'
  <2> SUFFICES ASSUME NEW m \in Nodes, NEW id \in mans'[m]
               PROVE  minted'[id].chunks \subseteq
                        objs'[m] \cup owed'[m] \cup sess'[m].needed \cup sess'[m].want
    BY DEF ChunksAccounted
  <2>1. CASE id \in mans[m] /\ minted'[id] = minted[id]
    BY <2>1, <1>3, <1>9 DEF ChunksAccounted
  <2>2. CASE m = n /\ minted'[id] = [parent |-> head[n], chunks |-> chunks]
    <3>1. chunks \subseteq objs'[n]
      BY <1>4 DEF TypeOK
    <3> QED
      BY <2>2, <3>1
  <2> QED
    BY <1>8, <2>1, <2>2
<1> QED
  BY <1>5, <1>6, <1>7, <1>10, <1>11

LEMMA OwnStepIInv ==
    ASSUME IInv, NEW n \in Nodes,
           \/ \E id \in Ids : Revert(n, id)
           \/ \E ch \in Chunks : PurgeChunk(n, ch)
           \/ ThreadEnds(n)
    PROVE  IInv'
<1> USE DEF IInv
<1>1. UNCHANGED <<minted, mans, lock, sess, remotes, left>>
  BY DEF Revert, PurgeChunk, ThreadEnds, pullVars, histVars, storeVars
<1>2. CASE \E id \in Ids : Revert(n, id)
  <2>1. PICK id \in Ids : Revert(n, id)
    BY <1>2
  <2>2. UNCHANGED <<objs, conns, owed, pulls, purges, fails>>
    BY <2>1 DEF Revert, pullVars, histVars
  <2>3. id \in mans[n] /\ head' = [head EXCEPT ![n] = id] /\ id \in Nat
    BY <2>1 DEF Revert, Ids
  <2>4. TypeOK'
    BY <1>1, <2>2, <2>3 DEF TypeOK
  <2>5. Shapes' /\ GapsAccounted' /\ ChunksAccounted'
    BY <1>1, <2>2 DEF Shapes, Shape, GapsAccounted, ChunksAccounted
  <2>6. RefsMinted'
    BY <1>1, <2>2, <2>3 DEF RefsMinted, TypeOK, Ids
  <2> QED
    BY <2>4, <2>5, <2>6
<1>3. CASE \E ch \in Chunks : PurgeChunk(n, ch)
  <2>1. PICK ch \in Chunks : PurgeChunk(n, ch)
    BY <1>3
  <2>2. /\ UNCHANGED <<head, conns, pulls, fails>>
        /\ objs' = [objs EXCEPT ![n] = @ \ {ch}]
        /\ owed' = [owed EXCEPT ![n] = @ \cup {ch}]
        /\ purges' = purges + 1
    BY <2>1 DEF PurgeChunk, pullVars
  <2>3. TypeOK'
    BY <1>1, <2>2 DEF TypeOK
  <2>4. Shapes' /\ GapsAccounted' /\ RefsMinted'
    BY <1>1, <2>2 DEF Shapes, Shape, GapsAccounted, RefsMinted, Ids
  <2>5. ChunksAccounted'
    BY <1>1, <2>2 DEF ChunksAccounted, TypeOK
  <2> QED
    BY <2>3, <2>4, <2>5
<1>4. CASE ThreadEnds(n)
  <2>1. /\ UNCHANGED <<objs, head, owed, pulls, purges, fails>>
        /\ conns[n] > Cardinality(Sessions(n))
        /\ conns' = [conns EXCEPT ![n] = @ - 1]
    BY <1>4 DEF ThreadEnds, storeVars, histVars
  <2>2. conns[n] - 1 \in Nat
    <3>1. IsFiniteSet(Sessions(n))
      BY NodesAssumption, FS_Subset DEF Sessions
    <3>2. Cardinality(Sessions(n)) \in Nat
      BY <3>1, FS_CardinalityType
    <3> QED
      BY <2>1, <3>2 DEF TypeOK
  <2>3. TypeOK'
    BY <1>1, <2>1, <2>2 DEF TypeOK
  <2>4. Shapes' /\ GapsAccounted' /\ ChunksAccounted' /\ RefsMinted'
    BY <1>1, <2>1 DEF Shapes, Shape, GapsAccounted, ChunksAccounted, RefsMinted, Ids
  <2> QED
    BY <2>3, <2>4
<1> QED
  BY <1>2, <1>3, <1>4

-----------------------------------------------------------------------------
(* The steps of a pull touch the client alone.                             *)

NodeRefs(n) ==
    /\ mans[n] \subseteq Ids
    /\ head[n] \in mans[n] \cup {0}
    /\ sess[n].pc = "walk" => sess[n].cur \in Ids
    /\ \A m \in Nodes : remotes[n][m] \in mans[n] \cup {0}

NodeGaps(n) ==
    \A id \in mans[n] :
        \/ minted[id].parent \in mans[n] \cup left[n] \cup {0}
        \/ sess[n].pc = "walk" /\ sess[n].cur = minted[id].parent

NodeChunks(n) ==
    \A id \in mans[n] :
        minted[id].chunks \subseteq objs[n] \cup owed[n] \cup sess[n].needed \cup sess[n].want

LEMMA NodeWise ==
    IInv <=> /\ TypeOK
             /\ \A i \in Ids : minted[i].parent \in 0..(i - 1)
             /\ \A n \in Nodes : Shape(n) /\ NodeRefs(n) /\ NodeGaps(n) /\ NodeChunks(n)
  BY DEF IInv, Shapes, RefsMinted, GapsAccounted, ChunksAccounted,
         NodeRefs, NodeGaps, NodeChunks

LEMMA ClientStep ==
    ASSUME IInv, TypeOK', NEW c \in Nodes,
           UNCHANGED <<minted, head>>,
           \A n \in Nodes \ {c} :
              /\ mans'[n] = mans[n] /\ objs'[n] = objs[n] /\ sess'[n] = sess[n]
              /\ lock'[n] = lock[n] /\ left'[n] = left[n] /\ owed'[n] = owed[n]
              /\ remotes'[n] = remotes[n],
           Shape(c)', NodeRefs(c)', NodeGaps(c)', NodeChunks(c)'
    PROVE  IInv'
<1>1. \A i \in Ids' : minted'[i].parent \in 0..(i - 1)
  BY DEF IInv, RefsMinted, Ids
<1>2. ASSUME NEW n \in Nodes
      PROVE  Shape(n)' /\ NodeRefs(n)' /\ NodeGaps(n)' /\ NodeChunks(n)'
  <2>1. CASE n = c
    BY <2>1
  <2>2. CASE n # c
    <3>1. Shape(n) /\ NodeRefs(n) /\ NodeGaps(n) /\ NodeChunks(n)
      BY NodeWise
    <3>2. Ids' = Ids
      BY DEF Ids
    <3>3. Shape(n)'
      BY <2>2, <3>1 DEF Shape
    <3>4. NodeRefs(n)'
      BY <2>2, <3>1, <3>2 DEF NodeRefs
    <3>5. NodeGaps(n)' /\ NodeChunks(n)'
      BY <2>2, <3>1 DEF NodeGaps, NodeChunks
    <3> QED
      BY <3>3, <3>4, <3>5
  <2> QED
    BY <2>1, <2>2
<1>3. IInv' <=> /\ TypeOK'
                /\ \A i \in Ids' : minted'[i].parent \in 0..(i - 1)
                /\ \A n \in Nodes : Shape(n)' /\ NodeRefs(n)' /\ NodeGaps(n)' /\ NodeChunks(n)'
  BY DEF IInv, Shapes, RefsMinted, GapsAccounted, ChunksAccounted,
         NodeRefs, NodeGaps, NodeChunks
<1> QED
  BY <1>1, <1>2, <1>3

(***************************************************************************)
(* A session ends early: what it was after is left and owed.               *)
(***************************************************************************)
LEMMA LeaveIInv ==
    ASSUME IInv, NEW c \in Nodes, LeaveBehind(c),
           NEW l \in {"free", "pull", "fleet"},
           lock' = [lock EXCEPT ![c] = l],
           sess' = [sess EXCEPT ![c] = NoPull(c, FALSE)],
           UNCHANGED <<storeVars, conns, remotes, pulls, purges>>, fails' \in Nat
    PROVE  IInv'
<1> DEFINE s == sess[c]
<1>1. TypeOK /\ Shape(c) /\ NodeRefs(c) /\ NodeGaps(c) /\ NodeChunks(c)
  BY NodeWise
<1>2. UNCHANGED <<minted, mans, objs, head, conns, remotes, pulls, purges>>
  BY DEF storeVars
<1>3. s \in Session
  BY <1>1 DEF TypeOK
<1>4. /\ sess' = [sess EXCEPT ![c] = NoPull(c, FALSE)]
      /\ lock' = [lock EXCEPT ![c] = l]
      /\ left' = [left EXCEPT ![c] = IF sess[c].pc = "walk" THEN @ \cup {sess[c].cur} ELSE @]
      /\ owed' = [owed EXCEPT ![c] = @ \cup sess[c].needed \cup sess[c].want]
  BY DEF LeaveBehind
<1>5. NoPull(c, FALSE) \in Session
  BY DEF NoPull, NewSession, Session, PCs
<1>6. TypeOK'
  <2>1. lock' \in [Nodes -> {"free", "pull", "fleet"}]
    BY <1>1, <1>4 DEF TypeOK
  <2>2. left' \in [Nodes -> SUBSET Nat] /\ owed' \in [Nodes -> SUBSET Chunks]
    BY <1>1, <1>3, <1>4 DEF TypeOK, Session
  <2>3. sess' \in [Nodes -> Session]
    BY <1>1, <1>4, <1>5 DEF TypeOK
  <2> QED
    BY <1>1, <1>2, <2>1, <2>2, <2>3 DEF TypeOK
<1>7. sess'[c].pc = "idle" /\ sess'[c].needed = {} /\ sess'[c].want = {}
  BY <1>1, <1>4 DEF TypeOK, NoPull, NewSession
<1>8. Shape(c)'
  BY <1>7 DEF Shape
<1>9. NodeRefs(c)'
  BY <1>1, <1>2, <1>7 DEF NodeRefs, Ids
<1>10. NodeGaps(c)'
  <2>1. left'[c] = IF s.pc = "walk" THEN left[c] \cup {s.cur} ELSE left[c]
    BY <1>1, <1>4 DEF TypeOK
  <2> QED
    BY <1>1, <1>2, <2>1 DEF NodeGaps
<1>11. NodeChunks(c)'
  <2>1. owed'[c] = owed[c] \cup s.needed \cup s.want
    BY <1>1, <1>4 DEF TypeOK
  <2> QED
    BY <1>1, <1>2, <2>1 DEF NodeChunks
<1>12. \A n \in Nodes \ {c} :
          /\ mans'[n] = mans[n] /\ objs'[n] = objs[n] /\ sess'[n] = sess[n]
          /\ lock'[n] = lock[n] /\ left'[n] = left[n] /\ owed'[n] = owed[n]
          /\ remotes'[n] = remotes[n]
  BY <1>1, <1>2, <1>4 DEF TypeOK
<1> QED
  BY <1>2, <1>6, <1>8, <1>9, <1>10, <1>11, <1>12, ClientStep

LEMMA CloseIInv ==
    ASSUME IInv, NEW c \in Nodes, LeaveBehind(c), Close(c, FALSE),
           UNCHANGED <<storeVars, conns, remotes, pulls, purges>>, fails' \in Nat
    PROVE  IInv'
<1>1. PICK l \in {"free", "pull", "fleet"} : l = IF lock[c] = "pull" THEN "free" ELSE lock[c]
  BY DEF IInv, TypeOK
<1>2. /\ lock' = [lock EXCEPT ![c] = l]
      /\ sess' = [sess EXCEPT ![c] = NoPull(c, FALSE)]
  BY <1>1 DEF Close
<1> QED
  BY <1>2, LeaveIInv

(***************************************************************************)
(* A step that changes the session and no store: what it was after is      *)
(* still on its list, or there, or owed.                                   *)
(***************************************************************************)
LEMMA SessionIInv ==
    ASSUME IInv, NEW c \in Nodes, NEW r \in Session,
           sess' = [sess EXCEPT ![c] = r],
           UNCHANGED <<minted, mans, objs, head, left>>,
           TypeOK',
           \A n \in Nodes \ {c} :
              lock'[n] = lock[n] /\ owed'[n] = owed[n] /\ remotes'[n] = remotes[n],
           \A m \in Nodes : remotes'[c][m] \in mans[c] \cup {0},
           Shape(c)',
           r.pc = "walk" => r.cur \in Ids,
           sess[c].pc = "walk" => \/ r.pc = "walk" /\ r.cur = sess[c].cur
                                  \/ sess[c].cur \in mans[c],
           owed[c] \subseteq owed'[c],
           sess[c].needed \cup sess[c].want \subseteq
              r.needed \cup r.want \cup objs[c] \cup owed'[c]
    PROVE  IInv'
<1>1. TypeOK /\ Shape(c) /\ NodeRefs(c) /\ NodeGaps(c) /\ NodeChunks(c)
  BY NodeWise
<1>2. sess'[c] = r /\ \A n \in Nodes \ {c} : sess'[n] = sess[n]
  BY <1>1 DEF TypeOK
<1>3. NodeRefs(c)'
  BY <1>1, <1>2 DEF NodeRefs, Ids
<1>4. NodeGaps(c)'
  <2> SUFFICES ASSUME NEW id \in mans[c]
               PROVE  \/ minted[id].parent \in mans[c] \cup left[c] \cup {0}
                      \/ r.pc = "walk" /\ r.cur = minted[id].parent
    BY <1>2 DEF NodeGaps
  <2> QED
    BY <1>1 DEF NodeGaps
<1>5. NodeChunks(c)'
  <2> SUFFICES ASSUME NEW id \in mans[c]
               PROVE  minted[id].chunks \subseteq objs[c] \cup owed'[c] \cup r.needed \cup r.want
    BY <1>2 DEF NodeChunks
  <2>1. minted[id].chunks \subseteq objs[c] \cup owed[c] \cup sess[c].needed \cup sess[c].want
    BY <1>1 DEF NodeChunks
  <2> QED
    BY <2>1
<1> QED
  BY <1>2, <1>3, <1>4, <1>5, ClientStep

LEMMA OpenIInv ==
    ASSUME IInv, NEW c \in Nodes, NEW s \in Nodes, NEW l \in {"pull", "fleet"},
           lock[c] = "free", lock' = [lock EXCEPT ![c] = l], Open(c, s),
           UNCHANGED <<storeVars, remotes, left, owed, purges, fails>>
    PROVE  IInv'
<1> DEFINE r == NewSession("hello", s, FALSE)
<1>1. TypeOK /\ Shape(c) /\ NodeRefs(c)
  BY NodeWise
<1>2. r = [pc |-> "hello", peer |-> s, top |-> 0, cur |-> 0,
           needed |-> {}, want |-> {}, ok |-> FALSE]
  BY DEF NewSession
<1>3. r \in Session
  BY DEF NewSession, Session, PCs
<1> HIDE DEF r
<1>4. /\ lock[c] = "free" /\ lock' = [lock EXCEPT ![c] = l]
      /\ conns' = [conns EXCEPT ![s] = @ + 1]
      /\ pulls' = pulls + 1
      /\ sess' = [sess EXCEPT ![c] = r]
      /\ UNCHANGED <<minted, mans, objs, head, remotes, left, owed, purges, fails>>
  BY DEF Open, storeVars, r
<1>5. TypeOK'
  BY <1>1, <1>3, <1>4 DEF TypeOK
<1>6. lock'[c] = l /\ \A n \in Nodes \ {c} : lock'[n] = lock[n]
  BY <1>1, <1>4 DEF TypeOK
<1>7. sess'[c] = r
  BY <1>1, <1>4 DEF TypeOK
<1>8. Shape(c)'
  BY <1>2, <1>6, <1>7 DEF Shape
<1>9. sess[c].pc = "idle" /\ sess[c].needed = {} /\ sess[c].want = {}
  BY <1>1, <1>4 DEF Shape
<1>10. \A m \in Nodes : remotes'[c][m] \in mans[c] \cup {0}
  BY <1>1, <1>4 DEF NodeRefs
<1> QED
  BY <1>2, <1>3, <1>4, <1>5, <1>6, <1>8, <1>9, <1>10, SessionIInv

LEMMA PullBeginIInv ==
    ASSUME IInv, NEW c \in Nodes, NEW s \in Nodes, PullBegin(c, s)
    PROVE  IInv'
  BY OpenIInv DEF PullBegin

LEMMA AskHeadIInv ==
    ASSUME IInv, NEW c \in Nodes, AskHead(c)
    PROVE  IInv'
<1>1. TypeOK /\ Shape(c) /\ NodeRefs(c)
  BY NodeWise
<1>2. /\ sess[c].pc = "hello"
      /\ UNCHANGED <<minted, mans, objs, head, conns, remotes, left, owed, pulls, purges, fails>>
  BY DEF AskHead, storeVars, histVars
<1>3. sess[c].needed = {} /\ sess[c].want = {} /\ lock[c] # "free"
  BY <1>1, <1>2 DEF Shape
<1>4. \A m \in Nodes : remotes'[c][m] \in mans[c] \cup {0}
  BY <1>1, <1>2 DEF NodeRefs
<1>5. CASE Close(c, TRUE)
  <2>1. NoPull(c, TRUE) \in Session
    BY DEF NoPull, NewSession, Session, PCs
  <2>2. /\ sess' = [sess EXCEPT ![c] = NoPull(c, TRUE)]
        /\ lock' = [lock EXCEPT ![c] = IF @ = "pull" THEN "free" ELSE @]
    BY <1>5 DEF Close
  <2>3. lock' \in [Nodes -> {"free", "pull", "fleet"}]
    BY <1>1, <2>2 DEF TypeOK
  <2>4. TypeOK'
    BY <1>1, <1>2, <2>1, <2>2, <2>3 DEF TypeOK
  <2>5. \A n \in Nodes \ {c} : lock'[n] = lock[n]
    BY <1>1, <2>2 DEF TypeOK
  <2>6. sess'[c] = NoPull(c, TRUE)
    BY <1>1, <2>2 DEF TypeOK
  <2>7. Shape(c)'
    BY <2>6 DEF Shape, NoPull, NewSession
  <2>8. NoPull(c, TRUE).pc = "idle"
    BY DEF NoPull, NewSession
  <2> QED
    BY <1>2, <1>3, <1>4, <2>1, <2>2, <2>4, <2>5, <2>7, <2>8, SessionIInv
<1>6. CASE /\ head[sess[c].peer] # 0
           /\ sess' = [sess EXCEPT ![c].pc = "walk", ![c].top = head[sess[c].peer],
                                   ![c].cur = head[sess[c].peer]]
           /\ UNCHANGED lock
  <2> DEFINE h == head[sess[c].peer]
             r == [sess[c] EXCEPT !.pc = "walk", !.top = h, !.cur = h]
  <2>1. sess[c] \in Session /\ sess[c].peer \in Nodes
    BY <1>1 DEF TypeOK, Session
  <2>2. h \in Nat /\ h \in Ids
    <3>1. NodeRefs(sess[c].peer)
      BY <2>1, NodeWise
    <3> QED
      BY <1>1, <1>6, <2>1, <3>1 DEF NodeRefs, TypeOK
  <2>3. r \in Session
    BY <2>1, <2>2 DEF Session, PCs
  <2>4. sess' = [sess EXCEPT ![c] = r]
    BY <1>6
  <2>5. r.pc = "walk" /\ r.cur = h /\ r.top = h
    BY <2>1 DEF Session
  <2>6. r.needed = {} /\ r.want = {}
    BY <1>3, <2>1 DEF Session
  <2>10. UNCHANGED lock
    BY <1>6
  <2> HIDE DEF r
  <2>7. TypeOK'
    BY <1>1, <1>2, <2>3, <2>4, <2>10 DEF TypeOK
  <2>8. sess'[c] = r
    BY <1>1, <2>4 DEF TypeOK
  <2>9. Shape(c)'
    BY <1>3, <1>6, <2>5, <2>6, <2>8 DEF Shape
  <2> QED
    BY <1>2, <1>3, <1>4, <1>6, <2>2, <2>3, <2>4, <2>5, <2>7, <2>9, SessionIInv
<1> QED
  BY <1>5, <1>6 DEF AskHead, GetHead

(***************************************************************************)
(* Steps that only move the session on.                                    *)
(***************************************************************************)
LEMMA MoveOnIInv ==
    ASSUME IInv, NEW c \in Nodes, WalkEnds(c) \/ HaveEnds(c) \/ FetchEnds(c)
    PROVE  IInv'
<1>1. TypeOK /\ Shape(c) /\ NodeRefs(c)
  BY NodeWise
<1>2. UNCHANGED <<minted, mans, objs, head, lock, conns, remotes, left, owed, pulls, purges, fails>>
  BY DEF WalkEnds, HaveEnds, FetchEnds, storeVars, histVars
<1>3. PICK where \in {"have", "save"} :
        /\ sess' = [sess EXCEPT ![c].pc = where]
        /\ where = "save" => sess[c].pc = "have" /\ sess[c].needed = {}
        /\ where = "have" => \/ sess[c].pc = "walk" /\ sess[c].cur \in mans[c]
                             \/ sess[c].pc = "fetch" /\ sess[c].want = {}
  BY DEF WalkEnds, HaveEnds, FetchEnds, Goto
<1> DEFINE r == [sess[c] EXCEPT !.pc = where]
<1>4. sess[c] \in Session
  BY <1>1 DEF TypeOK
<1>5. sess' = [sess EXCEPT ![c] = r]
  BY <1>3
<1>6. r \in Session
  BY <1>4 DEF Session, PCs
<1>7. /\ r.pc = where /\ r.cur = sess[c].cur /\ r.top = sess[c].top
      /\ r.needed = sess[c].needed /\ r.want = sess[c].want
  BY <1>4 DEF Session
<1> HIDE DEF r
<1>8. TypeOK'
  BY <1>1, <1>2, <1>5, <1>6 DEF TypeOK
<1>9. sess'[c] = r
  BY <1>1, <1>5 DEF TypeOK
<1>10. Shape(c)'
  BY <1>1, <1>2, <1>3, <1>7, <1>9 DEF Shape
<1>11. \A m \in Nodes : remotes'[c][m] \in mans[c] \cup {0}
  BY <1>1, <1>2 DEF NodeRefs
<1>12. /\ r.pc = "walk" => r.cur \in Ids
       /\ sess[c].pc = "walk" => \/ r.pc = "walk" /\ r.cur = sess[c].cur
                                 \/ sess[c].cur \in mans[c]
  BY <1>3, <1>7
<1> QED
  BY <1>2, <1>5, <1>6, <1>7, <1>8, <1>10, <1>11, <1>12, SessionIInv

LEMMA AskHaveIInv ==
    ASSUME IInv, NEW c \in Nodes, NEW batch \in SUBSET sess[c].needed, AskHave(c, batch)
    PROVE  IInv'
<1> DEFINE offered == Have(sess[c].peer, batch) \ objs[c]
           r == [sess[c] EXCEPT !.pc = "fetch", !.needed = @ \ batch, !.want = offered]
<1>1. TypeOK /\ Shape(c) /\ NodeRefs(c)
  BY NodeWise
<1>2. /\ sess[c].pc = "have"
      /\ UNCHANGED <<minted, mans, objs, head, lock, conns, remotes, left, pulls, purges, fails>>
      /\ owed' = [owed EXCEPT ![c] = @ \cup ((batch \ Have(sess[c].peer, batch)) \ objs[c])]
  BY DEF AskHave, storeVars
<1>3. sess[c] \in Session /\ sess[c].needed \in SUBSET Chunks
  BY <1>1 DEF TypeOK, Session
<1>4. offered \in SUBSET Chunks /\ offered \subseteq batch
  BY <1>3 DEF Have
<1>5. batch \subseteq offered \cup objs[c] \cup owed'[c]
  <2>1. owed'[c] = owed[c] \cup ((batch \ Have(sess[c].peer, batch)) \ objs[c])
    BY <1>1, <1>2 DEF TypeOK
  <2> QED
    BY <2>1
<1>6. sess' = [sess EXCEPT ![c] = r]
  BY DEF AskHave
<1> HIDE DEF offered
<1>7. r \in Session
  BY <1>3, <1>4 DEF Session, PCs
<1>8. /\ r.pc = "fetch" /\ r.top = sess[c].top
      /\ r.needed = sess[c].needed \ batch /\ r.want = offered
  BY <1>3 DEF Session
<1> HIDE DEF r
<1>9. owed' \in [Nodes -> SUBSET Chunks] /\ owed[c] \subseteq owed'[c]
  BY <1>1, <1>2, <1>3 DEF TypeOK
<1>10. TypeOK'
  BY <1>1, <1>2, <1>6, <1>7, <1>9 DEF TypeOK
<1>11. sess'[c] = r
  BY <1>1, <1>6 DEF TypeOK
<1>12. Shape(c)'
  BY <1>1, <1>2, <1>8, <1>11 DEF Shape
<1>13. \A m \in Nodes : remotes'[c][m] \in mans[c] \cup {0}
  BY <1>1, <1>2 DEF NodeRefs
<1>14. sess[c].needed \cup sess[c].want \subseteq r.needed \cup r.want \cup objs[c] \cup owed'[c]
  BY <1>1, <1>2, <1>5, <1>8 DEF Shape
<1>15. \A n \in Nodes \ {c} :
          lock'[n] = lock[n] /\ owed'[n] = owed[n] /\ remotes'[n] = remotes[n]
  BY <1>1, <1>2 DEF TypeOK
<1>16. r.pc # "walk" /\ sess[c].pc # "walk"
  BY <1>2, <1>8
<1> QED
  BY <1>2, <1>6, <1>7, <1>9, <1>10, <1>12, <1>13, <1>14, <1>15, <1>16, SessionIInv

LEMMA SaveIInv ==
    ASSUME IInv, NEW c \in Nodes, Save(c)
    PROVE  IInv'
<1>1. TypeOK /\ Shape(c) /\ NodeRefs(c)
  BY NodeWise
<1>2. /\ sess[c].pc = "save"
      /\ remotes' = [remotes EXCEPT ![c][sess[c].peer] = sess[c].top]
      /\ UNCHANGED <<minted, mans, objs, head, conns, left, owed, pulls, purges, fails>>
  BY DEF Save, storeVars, histVars
<1>3. sess[c].needed = {} /\ sess[c].want = {} /\ sess[c].top \in mans[c]
  BY <1>1, <1>2 DEF Shape
<1>4. sess[c].peer \in Nodes /\ sess[c].top \in Nat
  BY <1>1 DEF TypeOK, Session
<1>5. /\ sess' = [sess EXCEPT ![c] = NoPull(c, TRUE)]
      /\ lock' = [lock EXCEPT ![c] = IF @ = "pull" THEN "free" ELSE @]
  BY DEF Save, Close
<1>6. NoPull(c, TRUE) \in Session /\ NoPull(c, TRUE).pc = "idle"
  BY DEF NoPull, NewSession, Session, PCs
<1>7. /\ remotes' \in [Nodes -> [Nodes -> Nat]]
      /\ \A n \in Nodes \ {c} : remotes'[n] = remotes[n]
      /\ \A m \in Nodes : remotes'[c][m] \in mans[c] \cup {0}
  BY <1>1, <1>2, <1>3, <1>4 DEF TypeOK, NodeRefs
<1>8. lock' \in [Nodes -> {"free", "pull", "fleet"}] /\ \A n \in Nodes \ {c} : lock'[n] = lock[n]
  BY <1>1, <1>5 DEF TypeOK
<1>9. TypeOK'
  BY <1>1, <1>2, <1>5, <1>6, <1>7, <1>8 DEF TypeOK
<1>10. sess'[c] = NoPull(c, TRUE)
  BY <1>1, <1>5 DEF TypeOK
<1>11. Shape(c)'
  BY <1>10 DEF Shape, NoPull, NewSession
<1> QED
  BY <1>2, <1>3, <1>5, <1>6, <1>7, <1>8, <1>9, <1>11, SessionIInv

(***************************************************************************)
(* Steps that bring something into the client's store.                     *)
(***************************************************************************)
LEMMA WalkStepIInv ==
    ASSUME IInv, NEW c \in Nodes, WalkStep(c)
    PROVE  IInv'
<1> DEFINE m == minted[sess[c].cur]
           r == Walked(c, m)
<1>1. /\ TypeOK /\ Shape(c) /\ NodeRefs(c) /\ NodeGaps(c) /\ NodeChunks(c)
      /\ \A i \in Ids : minted[i].parent \in 0..(i - 1)
  BY NodeWise
<1>2. /\ sess[c].pc = "walk"
      /\ mans' = [mans EXCEPT ![c] = @ \cup {sess[c].cur}]
      /\ sess' = [sess EXCEPT ![c] = r]
      /\ UNCHANGED <<minted, objs, head, lock, conns, remotes, left, owed, pulls, purges, fails>>
  BY DEF WalkStep, histVars
<1>3. sess[c] \in Session /\ sess[c].cur \in Ids /\ sess[c].cur \in Nat
  BY <1>1, <1>2 DEF NodeRefs, TypeOK, Session
<1>4. m.parent \in Nat /\ m.chunks \in SUBSET Chunks /\ m.parent \in 0..(sess[c].cur - 1)
  <2>1. m \in Manifest
    BY <1>1, <1>3 DEF TypeOK, Ids
  <2> QED
    BY <1>1, <1>3, <2>1 DEF Manifest
<1>5. m.parent # 0 => m.parent \in Ids
  BY <1>3, <1>4 DEF Ids, TypeOK
<1> HIDE DEF m
<1>6. r = [sess[c] EXCEPT !.pc = IF m.parent = 0 THEN "have" ELSE "walk",
                          !.cur = m.parent,
                          !.needed = sess[c].needed \cup m.chunks]
  BY DEF Walked, Needing
<1> HIDE DEF r
<1>7. /\ r.pc = IF m.parent = 0 THEN "have" ELSE "walk"
      /\ r.cur = m.parent /\ r.top = sess[c].top
      /\ r.needed = sess[c].needed \cup m.chunks /\ r.want = sess[c].want
  BY <1>3, <1>6 DEF Session
<1>8. r \in Session
  <2> DEFINE where == IF m.parent = 0 THEN "have" ELSE "walk"
             more  == sess[c].needed \cup m.chunks
  <2>1. where \in PCs /\ more \in SUBSET Chunks
    BY <1>3, <1>4 DEF PCs, Session
  <2>2. r = [sess[c] EXCEPT !.pc = where, !.cur = m.parent, !.needed = more]
    BY <1>6
  <2> HIDE DEF where, more
  <2> QED
    BY <1>3, <1>4, <2>1, <2>2 DEF Session
<1>9. mans'[c] = mans[c] \cup {sess[c].cur} /\ sess'[c] = r
  BY <1>1, <1>2 DEF TypeOK
<1>10. TypeOK'
  BY <1>1, <1>2, <1>3, <1>8 DEF TypeOK
<1>11. Shape(c)'
  BY <1>1, <1>2, <1>7, <1>9 DEF Shape
<1>12. NodeRefs(c)'
  BY <1>1, <1>2, <1>3, <1>5, <1>7, <1>9 DEF NodeRefs, Ids
<1>13. NodeGaps(c)'
  <2> SUFFICES ASSUME NEW id \in mans[c] \cup {sess[c].cur}
               PROVE  \/ minted[id].parent \in mans[c] \cup {sess[c].cur} \cup left[c] \cup {0}
                      \/ r.pc = "walk" /\ r.cur = minted[id].parent
    BY <1>2, <1>9 DEF NodeGaps
  <2>1. CASE id \in mans[c]
    BY <1>1, <2>1 DEF NodeGaps
  <2>2. CASE id = sess[c].cur
    BY <1>7, <2>2 DEF m
  <2> QED
    BY <2>1, <2>2
<1>14. NodeChunks(c)'
  <2> SUFFICES ASSUME NEW id \in mans[c] \cup {sess[c].cur}
               PROVE  minted[id].chunks \subseteq objs[c] \cup owed[c] \cup r.needed \cup r.want
    BY <1>2, <1>9 DEF NodeChunks
  <2>1. CASE id \in mans[c]
    <3>1. minted[id].chunks \subseteq objs[c] \cup owed[c] \cup sess[c].needed \cup sess[c].want
      BY <1>1, <2>1 DEF NodeChunks
    <3> QED
      BY <1>7, <3>1
  <2>2. CASE id = sess[c].cur
    BY <1>7, <2>2 DEF m
  <2> QED
    BY <2>1, <2>2
<1>15. \A n \in Nodes \ {c} :
          /\ mans'[n] = mans[n] /\ objs'[n] = objs[n] /\ sess'[n] = sess[n]
          /\ lock'[n] = lock[n] /\ left'[n] = left[n] /\ owed'[n] = owed[n]
          /\ remotes'[n] = remotes[n]
  BY <1>1, <1>2 DEF TypeOK
<1> QED
  BY <1>2, <1>10, <1>11, <1>12, <1>13, <1>14, <1>15, ClientStep

LEMMA FetchObjectIInv ==
    ASSUME IInv, NEW c \in Nodes, NEW ch \in Chunks, FetchObject(c, ch)
    PROVE  IInv'
<1> DEFINE r == [sess[c] EXCEPT !.want = @ \ {ch}]
<1>1. TypeOK /\ Shape(c) /\ NodeRefs(c) /\ NodeGaps(c) /\ NodeChunks(c)
  BY NodeWise
<1>2. /\ sess[c].pc = "fetch"
      /\ objs' = [objs EXCEPT ![c] = @ \cup {ch}]
      /\ sess' = [sess EXCEPT ![c] = r]
      /\ UNCHANGED <<minted, mans, head, lock, conns, remotes, left, owed, pulls, purges, fails>>
  BY DEF FetchObject, histVars
<1>3. sess[c] \in Session
  BY <1>1 DEF TypeOK
<1>4. /\ r.pc = sess[c].pc /\ r.cur = sess[c].cur /\ r.top = sess[c].top
      /\ r.needed = sess[c].needed /\ r.want = sess[c].want \ {ch}
  BY <1>3 DEF Session
<1>5. r \in Session
  BY <1>3 DEF Session
<1> HIDE DEF r
<1>6. objs'[c] = objs[c] \cup {ch} /\ sess'[c] = r
  BY <1>1, <1>2 DEF TypeOK
<1>7. TypeOK'
  BY <1>1, <1>2, <1>5 DEF TypeOK
<1>8. Shape(c)'
  BY <1>1, <1>2, <1>4, <1>6 DEF Shape
<1>9. NodeRefs(c)'
  BY <1>1, <1>2, <1>4, <1>6 DEF NodeRefs, Ids
<1>10. NodeGaps(c)'
  BY <1>1, <1>2, <1>4, <1>6 DEF NodeGaps
<1>11. NodeChunks(c)'
  BY <1>1, <1>2, <1>4, <1>6 DEF NodeChunks
<1>12. \A n \in Nodes \ {c} :
          /\ mans'[n] = mans[n] /\ objs'[n] = objs[n] /\ sess'[n] = sess[n]
          /\ lock'[n] = lock[n] /\ left'[n] = left[n] /\ owed'[n] = owed[n]
          /\ remotes'[n] = remotes[n]
  BY <1>1, <1>2 DEF TypeOK
<1> QED
  BY <1>2, <1>7, <1>8, <1>9, <1>10, <1>11, <1>12, ClientStep

-----------------------------------------------------------------------------

LEMMA PullStepIInv ==
    ASSUME IInv, NEW c \in Nodes, PullStep(c)
    PROVE  IInv'
<1>1. CASE WalkMissing(c) \/ \E ch \in Chunks : FetchMissing(c, ch)
  <2>1. /\ LeaveBehind(c) /\ Close(c, FALSE)
        /\ UNCHANGED <<storeVars, conns, remotes, pulls, purges>>
        /\ fails' = fails
    BY <1>1 DEF WalkMissing, FetchMissing
  <2>2. fails' \in Nat
    BY <2>1 DEF IInv, TypeOK
  <2> QED
    BY <2>1, <2>2, CloseIInv
<1>2. CASE \E batch \in SUBSET sess[c].needed : AskHave(c, batch)
  BY <1>2, AskHaveIInv
<1>3. CASE \E ch \in Chunks : FetchObject(c, ch)
  BY <1>3, FetchObjectIInv
<1>4. CASE AskHead(c)
  BY <1>4, AskHeadIInv
<1>5. CASE WalkEnds(c) \/ HaveEnds(c) \/ FetchEnds(c)
  BY <1>5, MoveOnIInv
<1>6. CASE WalkStep(c)
  BY <1>6, WalkStepIInv
<1>7. CASE Save(c)
  BY <1>7, SaveIInv
<1> QED
  BY <1>1, <1>2, <1>3, <1>4, <1>5, <1>6, <1>7 DEF PullStep

LEMMA NextIInv == IInv /\ [Next]_vars => IInv'
<1> SUFFICES ASSUME IInv, [Next]_vars PROVE IInv'
  OBVIOUS
<1>1. CASE \E n \in Nodes, chunks \in SUBSET Chunks : Snap(n, chunks)
  BY <1>1, SnapIInv
<1>2. CASE \E n \in Nodes : \/ \E id \in Ids : Revert(n, id)
                            \/ \E ch \in Chunks : PurgeChunk(n, ch)
                            \/ ThreadEnds(n)
  BY <1>2, OwnStepIInv
<1>3. CASE \E c, s \in Nodes : PullBegin(c, s)
  BY <1>3, PullBeginIInv
<1>4. CASE \E c \in Nodes : PullStep(c)
  BY <1>4, PullStepIInv
<1>5. CASE \E c \in Nodes : Fail(c)
  <2>1. PICK c \in Nodes : Fail(c)
    BY <1>5
  <2>2. /\ LeaveBehind(c) /\ Close(c, FALSE)
        /\ UNCHANGED <<storeVars, conns, remotes, pulls, purges>>
        /\ fails' = fails + 1
    BY <2>1 DEF Fail
  <2>3. fails' \in Nat
    BY <2>2 DEF IInv, TypeOK
  <2> QED
    BY <2>2, <2>3, CloseIInv
<1>6. CASE UNCHANGED vars
  <2>1. UNCHANGED <<minted, mans, objs, head, lock, sess, conns, remotes, left, owed,
                    pulls, purges, fails>>
    BY <1>6 DEF vars, storeVars, pullVars, histVars
  <2> QED
    BY <2>1 DEF IInv, TypeOK, Shapes, Shape, RefsMinted, GapsAccounted, ChunksAccounted, Ids
<1> QED
  BY <1>1, <1>2, <1>3, <1>4, <1>5, <1>6 DEF Next

LEMMA SpecIInv == Spec => []IInv
  BY InitIInv, NextIInv, PTL DEF Spec

(***************************************************************************)
(* Replication never makes a store, a HEAD, a remotes file or a request    *)
(* name something that was not minted, whatever the peers do between two   *)
(* requests of a pull.                                                     *)
(***************************************************************************)
THEOREM ReferencesMinted == Spec => [](TypeOK /\ RefsMinted)
<1>1. IInv => TypeOK /\ RefsMinted
  BY DEF IInv
<1> QED
  BY <1>1, SpecIInv, PTL

(***************************************************************************)
(* The only gaps in a node's history are those of a pull in progress and   *)
(* of pulls that were cut short, also when the peer had gaps itself.       *)
(***************************************************************************)
THEOREM GapsAreAccounted == Spec => []GapsAccounted
<1>1. IInv => GapsAccounted
  BY DEF IInv
<1> QED
  BY <1>1, SpecIInv, PTL

(***************************************************************************)
(* A chunk a manifest refers to is in the store, or still on the list of   *)
(* the running pull, or was denied, cut off or purged.                     *)
(***************************************************************************)
THEOREM ChunksAreAccounted == Spec => []ChunksAccounted
<1>1. IInv => ChunksAccounted
  BY DEF IInv
<1> QED
  BY <1>1, SpecIInv, PTL

-----------------------------------------------------------------------------
(* The server's places.                                                    *)

\* No session is new and none has changed its server.
NoNewSession ==
    \A n \in Nodes : sess'[n].pc # "idle" => sess[n].pc # "idle" /\ sess'[n].peer = sess[n].peer

LEMMA SessionsFinite == ASSUME NEW s PROVE IsFiniteSet(Sessions(s)) /\ Cardinality(Sessions(s)) \in Nat
<1>1. IsFiniteSet(Sessions(s))
  BY NodesAssumption, FS_Subset DEF Sessions
<1> QED
  BY <1>1, FS_CardinalityType

LEMMA ConnsKept ==
    ASSUME TypeOK, ConnsCounted, UNCHANGED conns, NoNewSession
    PROVE  ConnsCounted'
<1> SUFFICES ASSUME NEW s \in Nodes
             PROVE  Cardinality(Sessions(s)') <= conns[s] /\ conns[s] <= MaxConns
  BY DEF ConnsCounted
<1>1. Sessions(s)' \subseteq Sessions(s)
  BY DEF Sessions, NoNewSession
<1>2. IsFiniteSet(Sessions(s)') /\ Cardinality(Sessions(s)') <= Cardinality(Sessions(s))
  BY <1>1, SessionsFinite, FS_Subset
<1>3. Cardinality(Sessions(s)') \in Nat
  BY <1>2, FS_CardinalityType
<1> QED
  BY <1>2, <1>3, SessionsFinite DEF ConnsCounted, TypeOK

\* The connection is counted before the session begins, and only with room.
LEMMA OpenConns ==
    ASSUME TypeOK, ConnsCounted, NEW c \in Nodes, NEW s \in Nodes, sess[c].pc = "idle", Open(c, s)
    PROVE  ConnsCounted'
<1> SUFFICES ASSUME NEW t \in Nodes
             PROVE  Cardinality(Sessions(t)') <= conns'[t] /\ conns'[t] <= MaxConns
  BY DEF ConnsCounted
<1>1. /\ sess' = [sess EXCEPT ![c] = NewSession("hello", s, FALSE)]
      /\ conns' = [conns EXCEPT ![s] = @ + 1] /\ conns[s] < MaxConns
  BY DEF Open, Room
<1>2. sess'[c].peer = s /\ \A n \in Nodes \ {c} : sess'[n] = sess[n]
  BY <1>1 DEF TypeOK, NewSession
<1>3. CASE t = s
  <2>1. Sessions(t)' \subseteq Sessions(t) \cup {c}
    BY <1>2 DEF Sessions
  <2>2. c \notin Sessions(t)
    BY DEF Sessions
  <2>3. /\ IsFiniteSet(Sessions(t) \cup {c})
        /\ Cardinality(Sessions(t) \cup {c}) = Cardinality(Sessions(t)) + 1
    BY <2>2, SessionsFinite, FS_AddElement
  <2>4. IsFiniteSet(Sessions(t)') /\ Cardinality(Sessions(t)') <= Cardinality(Sessions(t)) + 1
    BY <2>1, <2>3, FS_Subset
  <2>5. Cardinality(Sessions(t)') \in Nat
    BY <2>4, FS_CardinalityType
  <2>6. conns'[t] = conns[t] + 1 /\ conns[t] \in Nat /\ conns[t] < MaxConns /\ MaxConns \in Nat
    BY <1>1, <1>3, BatchAssumption DEF TypeOK
  <2>7. Cardinality(Sessions(t)) <= conns[t]
    BY DEF ConnsCounted
  <2> QED
    BY <2>4, <2>5, <2>6, <2>7, SessionsFinite
<1>4. CASE t # s
  <2>1. Sessions(t)' \subseteq Sessions(t)
    BY <1>2, <1>4 DEF Sessions
  <2>2. IsFiniteSet(Sessions(t)') /\ Cardinality(Sessions(t)') <= Cardinality(Sessions(t))
    BY <2>1, SessionsFinite, FS_Subset
  <2>3. Cardinality(Sessions(t)') \in Nat
    BY <2>2, FS_CardinalityType
  <2>4. conns'[t] = conns[t] /\ conns[t] \in Nat
    BY <1>1, <1>4 DEF TypeOK
  <2>5. Cardinality(Sessions(t)) <= conns[t] /\ conns[t] <= MaxConns
    BY DEF ConnsCounted
  <2> QED
    BY <2>2, <2>3, <2>4, <2>5, SessionsFinite
<1> QED
  BY <1>3, <1>4

LEMMA ThreadConns ==
    ASSUME TypeOK, ConnsCounted, NEW s \in Nodes, ThreadEnds(s)
    PROVE  ConnsCounted'
<1>1. /\ conns[s] > Cardinality(Sessions(s)) /\ conns' = [conns EXCEPT ![s] = @ - 1]
      /\ sess' = sess
  BY DEF ThreadEnds
<1>2. ASSUME NEW t \in Nodes PROVE Sessions(t)' = Sessions(t)
  BY <1>1 DEF Sessions
<1> QED
  BY <1>1, <1>2, SessionsFinite, BatchAssumption DEF ConnsCounted, TypeOK

\* A pull keeps its server until it ends.
LEMMA PullKeepsPeer ==
    ASSUME TypeOK, NEW c \in Nodes, PullStep(c) \/ Fail(c)
    PROVE  UNCHANGED conns /\ NoNewSession
<1>1. sess[c] \in Session /\ sess[c].pc # "idle"
  BY DEF PullStep, Fail, AskHead, WalkEnds, WalkStep, WalkMissing, AskHave, HaveEnds, FetchObject,
         FetchMissing, FetchEnds, Save, TypeOK
<1>2. UNCHANGED conns
  BY DEF PullStep, Fail, AskHead, WalkEnds, WalkStep, WalkMissing, AskHave, HaveEnds, FetchObject,
         FetchMissing, FetchEnds, Save
<1>3. CASE \E ok : Close(c, ok)
  BY <1>2, <1>3 DEF Close, NoPull, NewSession, TypeOK, NoNewSession
<1>4. CASE \E r : sess' = [sess EXCEPT ![c] = r] /\ r.peer = sess[c].peer
  BY <1>1, <1>2, <1>4 DEF TypeOK, NoNewSession
<1>5. CASE AskHead(c)
  <2>1. CASE Close(c, TRUE)
    BY <1>3, <2>1
  <2> DEFINE r == [sess[c] EXCEPT !.pc = "walk", !.top = head[sess[c].peer],
                                  !.cur = head[sess[c].peer]]
  <2>2. CASE sess' = [sess EXCEPT ![c] = r]
    <3>1. r.peer = sess[c].peer
      BY <1>1 DEF Session
    <3> HIDE DEF r
    <3> QED
      BY <1>4, <2>2, <3>1
  <2> QED
    BY <1>5, <2>1, <2>2 DEF AskHead, GetHead
<1>6. CASE WalkStep(c)
  <2>1. sess' = [sess EXCEPT ![c] = Walked(c, minted[sess[c].cur])]
    BY <1>6 DEF WalkStep
  <2>2. Walked(c, minted[sess[c].cur]).peer = sess[c].peer
    BY <1>1 DEF Walked, Session
  <2> QED
    BY <1>4, <2>1, <2>2
<1>7. CASE \E batch \in SUBSET sess[c].needed : AskHave(c, batch)
  <2>1. PICK batch \in SUBSET sess[c].needed : AskHave(c, batch)
    BY <1>7
  <2> DEFINE r == [sess[c] EXCEPT !.pc = "fetch", !.needed = @ \ batch,
                                  !.want = Have(sess[c].peer, batch) \ objs[c]]
  <2>2. sess' = [sess EXCEPT ![c] = r]
    BY <2>1 DEF AskHave
  <2>3. r.peer = sess[c].peer
    BY <1>1 DEF Session
  <2> HIDE DEF r
  <2> QED
    BY <1>4, <2>2, <2>3
<1>8. CASE \E ch \in Chunks : FetchObject(c, ch)
  <2>1. PICK ch \in Chunks : sess' = [sess EXCEPT ![c] = [sess[c] EXCEPT !.want = @ \ {ch}]]
    BY <1>8 DEF FetchObject
  <2>2. [sess[c] EXCEPT !.want = @ \ {ch}].peer = sess[c].peer
    BY <1>1 DEF Session
  <2> QED
    BY <1>4, <2>1, <2>2
<1>9. CASE WalkEnds(c) \/ HaveEnds(c) \/ FetchEnds(c)
  <2>1. PICK where \in {"have", "save"} : sess' = [sess EXCEPT ![c] = [sess[c] EXCEPT !.pc = where]]
    BY <1>9 DEF WalkEnds, HaveEnds, FetchEnds, Goto
  <2>2. [sess[c] EXCEPT !.pc = where].peer = sess[c].peer
    BY <1>1 DEF Session
  <2> QED
    BY <1>4, <2>1, <2>2
<1>10. CASE WalkMissing(c) \/ (\E ch \in Chunks : FetchMissing(c, ch)) \/ Save(c) \/ Fail(c)
  BY <1>3, <1>10 DEF WalkMissing, FetchMissing, Save, Fail
<1> QED
  BY <1>5, <1>6, <1>7, <1>8, <1>9, <1>10 DEF PullStep

LEMMA NextConns == IInv /\ ConnsCounted /\ [Next]_vars => ConnsCounted'
<1> SUFFICES ASSUME IInv, ConnsCounted, [Next]_vars PROVE ConnsCounted'
  OBVIOUS
<1>1. TypeOK
  BY DEF IInv
<1>2. CASE UNCHANGED <<sess, conns>>
  BY <1>1, <1>2, ConnsKept DEF NoNewSession
<1>3. CASE \E c, s \in Nodes : PullBegin(c, s)
  <2>1. PICK c \in Nodes, s \in Nodes : PullBegin(c, s)
    BY <1>3
  <2>2. sess[c].pc = "idle" /\ Open(c, s)
    BY <2>1 DEF PullBegin, IInv, Shapes, Shape
  <2> QED
    BY <1>1, <2>2, OpenConns
<1>4. CASE \E c \in Nodes : PullStep(c) \/ Fail(c)
  BY <1>1, <1>4, PullKeepsPeer, ConnsKept
<1>5. CASE \E c \in Nodes : ThreadEnds(c)
  BY <1>1, <1>5, ThreadConns
<1> QED
  BY <1>2, <1>3, <1>4, <1>5 DEF Next, Snap, Revert, PurgeChunk, pullVars, vars

(***************************************************************************)
(* A server's counter (sync.rs 203-218) covers the sessions it serves and  *)
(* stays within its limit: a thread gives its place back only when its     *)
(* client is gone, and every session was counted before it began.          *)
(***************************************************************************)
THEOREM ConnectionsCounted == Spec => []ConnsCounted
<1>1. Init => ConnsCounted
  <2> SUFFICES ASSUME Init, NEW s \in Nodes
               PROVE  Cardinality(Sessions(s)) <= conns[s] /\ conns[s] <= MaxConns
    BY DEF ConnsCounted
  <2>1. Sessions(s) = {} /\ conns[s] = 0
    BY DEF Init, Sessions, NoPull, NewSession
  <2> QED
    BY <2>1, FS_EmptySet, BatchAssumption
<1> QED
  BY <1>1, SpecIInv, NextConns, PTL DEF Spec

-----------------------------------------------------------------------------
(* Fleet.  What an apply knows of its order at each of its steps, ...      *)

Applying(n) ==
    /\ job[n].pc \notin {"idle", "pull"} => sess[n].pc = "idle"
    /\ job[n].pc # "idle" =>
         /\ job[n].order \in OrderType
         /\ job[n].order.key = pin[n] /\ job[n].order.fabric = fabric[n]
         /\ job[n].order.ts >= job[n].lastSeen
         /\ job[n].lastSeen = 0 \/ \E order \in landed[n] : order.ts >= job[n].lastSeen
    /\ job[n].pc \in {"pull", "load", "head"} => job[n].lastSeen = seen[n]
    /\ job[n].pc = "head" => job[n].order.target \in mans[n]

(***************************************************************************)
(* ... and what is true of the orders that landed.  Between an order's     *)
(* HEAD and its fleet_seen, fleet_seen says nothing; outside that window   *)
(* it is the timestamp of the last order, unless an apply died in it.      *)
(***************************************************************************)
Landing(n) ==
    /\ \A order \in landed[n] : order.key = pin[n] /\ order.fabric = fabric[n]
    /\ seen[n] = 0 \/ \E order \in landed[n] : order.ts >= seen[n]
    /\ landed[n] # {} => last[n] \in landed[n]
    /\ job[n].pc \in {"truncate", "seen"} => landed[n] # {} /\ last[n] = job[n].order
    /\ died[n] = 0 => \A order \in landed[n] : order.ts <= last[n].ts
    /\ died[n] = 0 /\ landed[n] # {} /\ job[n].pc \notin {"truncate", "seen"} =>
          seen[n] = last[n].ts

FleetInv ==
    /\ IInv
    /\ FleetTypeOK
    /\ IsFiniteSet(orders)
    /\ \A n \in Nodes : Applying(n) /\ Landing(n)

(***************************************************************************)
(* A node whose apply, pin and landed orders stay as they are, while its   *)
(* store grows and no session starts behind the back of an apply.          *)
(***************************************************************************)
Still(n) ==
    /\ job'[n] = job[n] /\ pin'[n] = pin[n] /\ fabric'[n] = fabric[n] /\ seen'[n] = seen[n]
    /\ landed'[n] = landed[n] /\ last'[n] = last[n] /\ died'[n] = died[n]
    /\ job[n].pc \notin {"idle", "pull"} /\ sess[n].pc = "idle" => sess'[n].pc = "idle"
    /\ mans[n] \subseteq mans'[n]

LEMMA StillKept ==
    ASSUME NEW n \in Nodes, Applying(n), Landing(n), Still(n)
    PROVE  Applying(n)' /\ Landing(n)'
<1>1. Applying(n)'
  BY DEF Applying, Still
<1>2. Landing(n)'
  BY DEF Landing, Still
<1> QED
  BY <1>1, <1>2

LEMMA OneNode ==
    ASSUME FleetInv, IInv', FleetTypeOK', IsFiniteSet(orders'),
           NEW n \in Nodes, Applying(n)', Landing(n)',
           \A m \in Nodes \ {n} : Still(m)
    PROVE  FleetInv'
<1>1. ASSUME NEW m \in Nodes PROVE Applying(m)' /\ Landing(m)'
  <2>1. CASE m = n
    BY <2>1
  <2>2. CASE m # n
    BY <2>2, StillKept DEF FleetInv
  <2> QED
    BY <2>1, <2>2
<1> QED
  BY <1>1 DEF FleetInv

LEMMA NoNode ==
    ASSUME FleetInv, IInv', FleetTypeOK', IsFiniteSet(orders'), \A m \in Nodes : Still(m)
    PROVE  FleetInv'
  BY StillKept DEF FleetInv

LEMMA SameStore == ASSUME IInv, UNCHANGED vars PROVE IInv'
  BY NextIInv

(***************************************************************************)
(* The lock is taken, or given back when no session is open.               *)
(***************************************************************************)
LEMMA LockIInv ==
    ASSUME IInv, NEW n \in Nodes, NEW l \in {"free", "fleet"}, sess[n].pc = "idle",
           lock' = [lock EXCEPT ![n] = l],
           UNCHANGED <<storeVars, sess, conns, remotes, histVars>>
    PROVE  IInv'
<1>1. TypeOK /\ Shape(n) /\ NodeRefs(n) /\ NodeGaps(n) /\ NodeChunks(n)
  BY NodeWise
<1>2. UNCHANGED <<minted, mans, objs, head, sess, conns, remotes, left, owed, pulls,
                  purges, fails>>
  BY DEF storeVars, histVars
<1>3. TypeOK'
  BY <1>1, <1>2 DEF TypeOK
<1>4. Shape(n)'
  BY <1>1, <1>2 DEF Shape
<1>5. NodeRefs(n)' /\ NodeGaps(n)' /\ NodeChunks(n)'
  BY <1>1, <1>2 DEF NodeRefs, NodeGaps, NodeChunks, Ids
<1>6. \A m \in Nodes \ {n} : lock'[m] = lock[m]
  BY <1>1 DEF TypeOK
<1> QED
  BY <1>2, <1>3, <1>4, <1>5, <1>6, ClientStep

(***************************************************************************)
(* HEAD moves to a snapshot of the node's own store.                       *)
(***************************************************************************)
LEMMA HeadIInv ==
    ASSUME IInv, NEW n \in Nodes, NEW id \in mans[n], head' = [head EXCEPT ![n] = id],
           UNCHANGED <<minted, mans, objs, pullVars, histVars>>
    PROVE  IInv'
<1>1. TypeOK
  BY DEF IInv
<1>2. UNCHANGED <<lock, sess, conns, remotes, left, owed, pulls, purges, fails>>
  BY DEF pullVars, histVars
<1>3. TypeOK'
  BY <1>1, <1>2 DEF TypeOK
<1>4. Ids' = Ids
  BY DEF Ids
<1>5. Shapes' /\ GapsAccounted' /\ ChunksAccounted'
  BY <1>2 DEF IInv, Shapes, Shape, GapsAccounted, ChunksAccounted
<1>6. RefsMinted'
  BY <1>1, <1>2, <1>4 DEF IInv, RefsMinted, TypeOK
<1> QED
  BY <1>3, <1>5, <1>6 DEF IInv

(***************************************************************************)
(* What a step of Sync leaves alone at a node whose lock an apply has.     *)
(***************************************************************************)
LEMMA SyncLeaves ==
    ASSUME IInv, Next, NEW n \in Nodes
    PROVE  /\ lock'[n] = "fleet" <=> lock[n] = "fleet"
           /\ mans[n] \subseteq mans'[n]
           /\ lock[n] = "fleet" /\ sess[n].pc = "idle" => sess'[n].pc = "idle"
<1>1. TypeOK
  BY DEF IInv
<1>2. CASE \E m \in Nodes, chunks \in SUBSET Chunks : Snap(m, chunks)
  BY <1>1, <1>2 DEF Snap, TypeOK, pullVars
<1>3. CASE \/ \E m \in Nodes, id \in Ids : Revert(m, id)
           \/ \E m \in Nodes, ch \in Chunks : PurgeChunk(m, ch)
           \/ \E m \in Nodes : ThreadEnds(m)
  BY <1>3 DEF Revert, PurgeChunk, ThreadEnds, storeVars, pullVars
<1>4. CASE \E c, s \in Nodes : PullBegin(c, s)
  <2>1. PICK c \in Nodes, s \in Nodes : PullBegin(c, s)
    BY <1>4
  <2>2. /\ lock[c] = "free" /\ lock' = [lock EXCEPT ![c] = "pull"] /\ mans' = mans
        /\ sess' = [sess EXCEPT ![c] = NewSession("hello", s, FALSE)]
    BY <2>1 DEF PullBegin, Open, storeVars
  <2> QED
    BY <1>1, <2>2 DEF TypeOK
<1>5. CASE \E c \in Nodes : PullStep(c) \/ Fail(c)
  <2>1. PICK c \in Nodes : PullStep(c) \/ Fail(c)
    BY <1>5
  <2>2. sess[c].pc # "idle"
    BY <2>1 DEF PullStep, Fail, AskHead, WalkEnds, WalkStep, WalkMissing, AskHave, HaveEnds,
                FetchObject, FetchMissing, FetchEnds, Save
  <2>3. \/ lock' = lock
        \/ lock' = [lock EXCEPT ![c] = IF @ = "pull" THEN "free" ELSE @]
    BY <2>1 DEF PullStep, Fail, AskHead, WalkEnds, WalkStep, WalkMissing, AskHave, HaveEnds,
                FetchObject, FetchMissing, FetchEnds, Save, Close
  <2>4. mans' = mans \/ mans' = [mans EXCEPT ![c] = @ \cup {sess[c].cur}]
    BY <2>1 DEF PullStep, Fail, AskHead, WalkEnds, WalkStep, WalkMissing, AskHave, HaveEnds,
                FetchObject, FetchMissing, FetchEnds, Save, storeVars
  <2>5. ASSUME n # c PROVE sess'[n] = sess[n]
    BY <1>1, <2>1, <2>5 DEF PullStep, Fail, AskHead, WalkEnds, WalkStep, WalkMissing, AskHave,
       HaveEnds, FetchObject, FetchMissing, FetchEnds, Save, Close, Goto, TypeOK
  <2> QED
    BY <1>1, <2>2, <2>3, <2>4, <2>5 DEF TypeOK
<1> QED
  BY <1>2, <1>3, <1>4, <1>5 DEF Next

-----------------------------------------------------------------------------
(* The steps of Fleet.                                                     *)

LEMMA SyncStepFleet ==
    ASSUME FleetInv, Next, UNCHANGED <<edits, orderVars, job, landVars>>,
           clean' \in [Nodes -> BOOLEAN]
    PROVE  FleetInv'
<1>1. IInv'
  BY NextIInv DEF FleetInv
<1>2. UNCHANGED <<edits, fabric, now, pin, seen, orders, job, landed, last, died>>
  BY DEF orderVars, landVars
<1>3. FleetTypeOK'
  <2>1. TypeOK'
    BY <1>1 DEF IInv
  <2>2. \A n \in Nodes : lock'[n] = "fleet" <=> job'[n].pc # "idle"
    BY <1>2, SyncLeaves DEF FleetInv, FleetTypeOK
  <2> QED
    BY <1>2, <2>1, <2>2 DEF FleetInv, FleetTypeOK
<1>4. ASSUME NEW n \in Nodes PROVE Still(n)
  <2>1. job[n].pc # "idle" <=> lock[n] = "fleet"
    BY DEF FleetInv, FleetTypeOK
  <2> QED
    BY <1>2, <2>1, SyncLeaves DEF FleetInv, Still
<1> QED
  BY <1>1, <1>2, <1>3, <1>4, NoNode DEF FleetInv

LEMMA OrderFleet ==
    ASSUME FleetInv, NEW n \in Nodes, NEW target, Order(n, target)
    PROVE  FleetInv'
<1> DEFINE o == [key |-> n, fabric |-> fabric[n], target |-> target, ts |-> now,
                 nonce |-> Cardinality(orders) + 1]
<1>1. /\ orders' = orders \cup {o} /\ target \in mans[n]
      /\ UNCHANGED vars
      /\ UNCHANGED <<clean, edits, fabric, now, pin, seen, job, landed, last, died>>
  BY DEF Order, treeVars, landVars
<1>2. UNCHANGED <<lock, mans, sess>>
  BY <1>1 DEF vars, storeVars, pullVars
<1>3. IInv' /\ TypeOK'
  BY <1>1, SameStore DEF FleetInv, IInv
<1>4. IsFiniteSet(orders) /\ Cardinality(orders) \in Nat
  BY FS_CardinalityType DEF FleetInv
<1>5. IsFiniteSet(orders')
  BY <1>1, <1>4, FS_AddElement
<1>6. o \in OrderType
  <2>1. target \in Nat
    BY <1>1 DEF FleetInv, FleetTypeOK, TypeOK
  <2> QED
    BY <1>4, <2>1 DEF FleetInv, FleetTypeOK, OrderType
<1> HIDE DEF o
<1>7. FleetTypeOK'
  BY <1>1, <1>2, <1>3, <1>6 DEF FleetInv, FleetTypeOK
<1>8. \A m \in Nodes : Still(m)
  BY <1>1, <1>2 DEF Still
<1> QED
  BY <1>3, <1>5, <1>7, <1>8, NoNode

LEMMA TrustFleet ==
    ASSUME FleetInv, NEW n \in Nodes, NEW key \in Nodes, Trust(n, key)
    PROVE  FleetInv'
<1>1. /\ lock[n] = "free" /\ pin[n] = NoKey
      /\ pin' = [pin EXCEPT ![n] = key]
      /\ UNCHANGED vars
      /\ UNCHANGED <<clean, edits, fabric, now, seen, orders, job, landed, last, died>>
  BY DEF Trust, MayPin, treeVars, landVars
<1>2. UNCHANGED <<lock, mans, sess>>
  BY <1>1 DEF vars, storeVars, pullVars
<1>3. IInv' /\ TypeOK'
  BY <1>1, SameStore DEF FleetInv, IInv
<1>4. FleetTypeOK'
  BY <1>1, <1>2, <1>3 DEF FleetInv, FleetTypeOK
<1>5. job[n].pc = "idle"
  BY <1>1 DEF FleetInv, FleetTypeOK
<1>6. landed[n] = {}
  <2>1. \A order \in landed[n] : order.key = NoKey /\ order.key \in Nodes
    BY <1>1 DEF FleetInv, Landing, FleetTypeOK, OrderType
  <2> QED
    BY <2>1, FleetAssumption
<1>7. Applying(n)' /\ Landing(n)'
  BY <1>1, <1>2, <1>5, <1>6 DEF FleetInv, Applying, Landing
<1>8. \A m \in Nodes \ {n} : Still(m)
  BY <1>1, <1>2 DEF Still, FleetInv, FleetTypeOK
<1> QED
  BY <1>1, <1>3, <1>4, <1>7, <1>8, OneNode DEF FleetInv

LEMMA EditTickFleet ==
    ASSUME FleetInv, Tick \/ \E n \in Nodes : Edit(n)
    PROVE  FleetInv'
<1>1. /\ UNCHANGED vars /\ UNCHANGED <<fabric, pin, seen, orders, job, landed, last, died>>
      /\ now' \in Nat /\ edits' \in Nat /\ clean' \in [Nodes -> BOOLEAN]
  <2>1. clean \in [Nodes -> BOOLEAN] /\ now \in Nat /\ edits \in Nat
    BY DEF FleetInv, FleetTypeOK
  <2>2. CASE Tick
    BY <2>1, <2>2 DEF Tick, treeVars, landVars
  <2>3. CASE \E n \in Nodes : Edit(n)
    <3>1. PICK n \in Nodes : Edit(n)
      BY <2>3
    <3>2. /\ UNCHANGED vars /\ UNCHANGED <<fabric, now, pin, seen, orders, job, landed, last, died>>
          /\ edits' = edits + 1 /\ clean' = [clean EXCEPT ![n] = FALSE]
      BY <3>1 DEF Edit, orderVars, landVars
    <3> QED
      BY <2>1, <3>2
  <2> QED
    BY <2>2, <2>3
<1>2. UNCHANGED <<lock, mans, sess>>
  BY <1>1 DEF vars, storeVars, pullVars
<1>3. IInv' /\ TypeOK'
  BY <1>1, SameStore DEF FleetInv, IInv
<1>4. FleetTypeOK'
  BY <1>1, <1>2, <1>3 DEF FleetInv, FleetTypeOK
<1>5. \A m \in Nodes : Still(m)
  BY <1>1, <1>2 DEF Still
<1> QED
  BY <1>1, <1>3, <1>4, <1>5, NoNode DEF FleetInv

(***************************************************************************)
(* An apply that passed the checks: the order is for this node.            *)
(***************************************************************************)
LEMMA TakeFleet ==
    ASSUME FleetInv, NEW n \in Nodes, NEW order \in orders, NEW force \in BOOLEAN,
           NEW from \in Nodes \cup {NoKey}, NEW where \in {"pull", "load"},
           lock[n] = "free", Accepts(n, order), TakeOrder(n, order, from, force, where),
           lock' = [lock EXCEPT ![n] = "fleet"], IInv', mans' = mans,
           where = "load" => sess'[n].pc = "idle",
           \A m \in Nodes \ {n} : sess'[m] = sess[m],
           UNCHANGED <<treeVars, orderVars, landVars>>
    PROVE  FleetInv'
<1> DEFINE j == [pc |-> where, order |-> order, from |-> from, force |-> force,
                 lastSeen |-> seen[n]]
<1>1. UNCHANGED <<clean, edits, fabric, now, pin, seen, orders, landed, last, died>>
  BY DEF treeVars, orderVars, landVars
<1>2. /\ job' = [job EXCEPT ![n] = j]
      /\ j.pc = where /\ j.order = order /\ j.lastSeen = seen[n]
  BY DEF TakeOrder
<1>3. j \in JobType /\ order \in OrderType
  BY DEF JobType, FleetInv, FleetTypeOK
<1> HIDE DEF j
<1>4. job'[n] = j /\ lock'[n] = "fleet"
      /\ \A m \in Nodes \ {n} : job'[m] = job[m] /\ lock'[m] = lock[m]
  BY <1>2 DEF FleetInv, FleetTypeOK, TypeOK
<1>5. FleetTypeOK'
  <2>1. TypeOK' /\ job' \in [Nodes -> JobType]
    BY <1>2, <1>3 DEF IInv, FleetInv, FleetTypeOK
  <2>2. \A m \in Nodes : lock'[m] = "fleet" <=> job'[m].pc # "idle"
    BY <1>2, <1>4 DEF FleetInv, FleetTypeOK
  <2> QED
    BY <1>1, <2>1, <2>2 DEF FleetInv, FleetTypeOK
<1>6. job[n].pc = "idle"
  BY DEF FleetInv, FleetTypeOK
<1>7. Applying(n)'
  BY <1>1, <1>2, <1>3, <1>4 DEF FleetInv, Applying, Landing, Accepts, Fresh
<1>8. Landing(n)'
  BY <1>1, <1>2, <1>4, <1>6 DEF FleetInv, Landing
<1>9. \A m \in Nodes \ {n} : Still(m)
  BY <1>1, <1>4 DEF Still
<1> QED
  BY <1>1, <1>5, <1>7, <1>8, <1>9, OneNode DEF FleetInv

LEMMA ApplyHereFleet ==
    ASSUME FleetInv, NEW n \in Nodes, NEW order \in orders, NEW force \in BOOLEAN,
           ApplyHere(n, order, force)
    PROVE  FleetInv'
<1>1. /\ lock[n] = "free" /\ Accepts(n, order) /\ TakeOrder(n, order, NoKey, force, "load")
      /\ lock' = [lock EXCEPT ![n] = "fleet"]
      /\ UNCHANGED <<storeVars, sess, conns, remotes, histVars>>
      /\ UNCHANGED <<treeVars, orderVars, landVars>>
  BY DEF ApplyHere
<1>2. sess[n].pc = "idle"
  BY <1>1 DEF FleetInv, IInv, Shapes, Shape
<1>3. IInv'
  BY <1>1, <1>2, LockIInv DEF FleetInv
<1>4. mans' = mans /\ sess' = sess
  BY <1>1 DEF storeVars
<1> QED
  BY <1>1, <1>2, <1>3, <1>4, TakeFleet

LEMMA ApplyFromFleet ==
    ASSUME FleetInv, NEW n \in Nodes, NEW order \in orders, NEW force \in BOOLEAN,
           NEW from \in Nodes, ApplyFrom(n, order, from, force)
    PROVE  FleetInv'
<1>1. /\ lock[n] = "free" /\ Accepts(n, order) /\ TakeOrder(n, order, from, force, "pull")
      /\ lock' = [lock EXCEPT ![n] = "fleet"]
      /\ Open(n, from)
      /\ UNCHANGED <<storeVars, remotes, left, owed, purges, fails>>
      /\ UNCHANGED <<treeVars, orderVars, landVars>>
  BY DEF ApplyFrom
<1>2. IInv'
  BY <1>1, OpenIInv DEF FleetInv
<1>3. mans' = mans /\ \A m \in Nodes \ {n} : sess'[m] = sess[m]
  BY <1>1 DEF storeVars, Open, FleetInv, FleetTypeOK, TypeOK
<1> QED
  BY <1>1, <1>2, <1>3, TakeFleet

(***************************************************************************)
(* The apply of node n goes on to another step, with its order.            *)
(***************************************************************************)
LEMMA JobMoves ==
    ASSUME FleetInv, NEW n \in Nodes, job[n].pc # "idle",
           NEW where \in {"load", "head", "truncate", "seen"},
           job' = JobGoto(n, where), lock' = lock, IInv',
           clean' \in [Nodes -> BOOLEAN], seen' \in [Nodes -> Nat],
           landed' \in [Nodes -> SUBSET OrderType], last' \in [Nodes -> OrderType \cup {NoOrder}],
           UNCHANGED <<edits, fabric, now, pin, orders, died>>
    PROVE  /\ FleetTypeOK'
           /\ job'[n].pc = where /\ job'[n].order = job[n].order
           /\ job'[n].lastSeen = job[n].lastSeen
           /\ \A m \in Nodes \ {n} : job'[m] = job[m]
<1>1. job[n] \in JobType /\ job \in [Nodes -> JobType]
  BY DEF FleetInv, FleetTypeOK
<1> DEFINE j == [job[n] EXCEPT !.pc = where]
<1>2. /\ j \in JobType /\ j.pc = where /\ j.order = job[n].order
      /\ j.lastSeen = job[n].lastSeen
  BY <1>1 DEF JobType
<1>3. job' = [job EXCEPT ![n] = j]
  BY DEF JobGoto
<1> HIDE DEF j
<1>4. job'[n] = j /\ \A m \in Nodes \ {n} : job'[m] = job[m]
  BY <1>1, <1>3
<1>5. TypeOK' /\ job' \in [Nodes -> JobType]
  BY <1>1, <1>2, <1>3 DEF IInv
<1>6. \A m \in Nodes : lock'[m] = "fleet" <=> job'[m].pc # "idle"
  BY <1>2, <1>4 DEF FleetInv, FleetTypeOK
<1>7. FleetTypeOK'
  BY <1>5, <1>6 DEF FleetInv, FleetTypeOK
<1> QED
  BY <1>2, <1>4, <1>7

(***************************************************************************)
(* The apply of node n ends, having moved nothing but fleet_seen, and that *)
(* only to the timestamp of the order that landed last.                    *)
(***************************************************************************)
LEMMA LeaveFleet ==
    ASSUME FleetInv, NEW n \in Nodes, job[n].pc \notin {"idle", "truncate"},
           sess[n].pc = "idle", Leave(n),
           UNCHANGED <<storeVars, sess, conns, remotes, histVars>>,
           clean' \in [Nodes -> BOOLEAN],
           NEW t \in Nat, seen' = [seen EXCEPT ![n] = t],
           IF job[n].pc = "seen" THEN t = NewSeen(job[n]) ELSE t = seen[n],
           UNCHANGED <<edits, fabric, now, pin, orders, landed, last, died>>
    PROVE  FleetInv'
<1>1. job' = [job EXCEPT ![n] = NoJob] /\ lock' = [lock EXCEPT ![n] = "free"]
  BY DEF Leave, Release
<1>2. IInv'
  BY <1>1, LockIInv DEF FleetInv
<1>3. mans' = mans
  BY DEF storeVars
<1>4. NoJob \in JobType /\ NoJob.pc = "idle"
  BY DEF NoJob, JobType
<1>5. job'[n] = NoJob /\ lock'[n] = "free" /\ seen'[n] = t
      /\ \A m \in Nodes \ {n} : job'[m] = job[m] /\ lock'[m] = lock[m] /\ seen'[m] = seen[m]
  BY <1>1 DEF FleetInv, FleetTypeOK, TypeOK
<1>6. FleetTypeOK'
  <2>1. TypeOK' /\ job' \in [Nodes -> JobType] /\ seen' \in [Nodes -> Nat]
    BY <1>1, <1>2, <1>4 DEF IInv, FleetInv, FleetTypeOK
  <2>2. \A m \in Nodes : lock'[m] = "fleet" <=> job'[m].pc # "idle"
    BY <1>4, <1>5 DEF FleetInv, FleetTypeOK
  <2> QED
    BY <2>1, <2>2 DEF FleetInv, FleetTypeOK
<1>7. Applying(n)'
  BY <1>4, <1>5 DEF Applying
<1>8. Landing(n)'
  <2>1. Applying(n) /\ Landing(n)
    BY DEF FleetInv
  <2>2. CASE job[n].pc = "seen"
    <3>1. t = NewSeen(job[n]) /\ job[n].order \in OrderType /\ job[n].lastSeen \in Nat
          /\ job[n].order.ts >= job[n].lastSeen
      BY <2>1, <2>2 DEF Applying, FleetInv, FleetTypeOK, JobType
    <3>2. t = job[n].order.ts
      BY <3>1 DEF NewSeen, OrderType
    <3>3. last[n] = job[n].order /\ last[n] \in landed[n] /\ t = last[n].ts
      BY <2>1, <2>2, <3>2 DEF Landing
    <3>4. \E order \in landed[n] : order.ts >= t
      BY <3>3
    <3> QED
      BY <1>4, <1>5, <2>1, <3>3, <3>4 DEF Landing
  <2>3. CASE job[n].pc # "seen"
    BY <1>4, <1>5, <2>1, <2>3 DEF Landing
  <2> QED
    BY <2>2, <2>3
<1>9. \A m \in Nodes \ {n} : Still(m)
  BY <1>3, <1>5 DEF Still
<1> QED
  BY <1>2, <1>6, <1>7, <1>8, <1>9, OneNode DEF FleetInv

LEMMA ApplyPulledFleet ==
    ASSUME FleetInv, NEW n \in Nodes, ApplyPulled(n)
    PROVE  FleetInv'
<1>1. /\ job[n].pc = "pull" /\ sess[n].pc = "idle"
      /\ UNCHANGED <<storeVars, sess, conns, remotes, histVars>>
      /\ UNCHANGED <<mans, clean, edits, fabric, now, pin, seen, orders, landed, last, died>>
  BY DEF ApplyPulled, storeVars, treeVars, orderVars, landVars
<1>2. CASE job' = JobGoto(n, "load") /\ lock' = lock
  <2>1. IInv'
    <3>1. UNCHANGED vars
      BY <1>1, <1>2 DEF vars, pullVars
    <3> QED
      BY <3>1, SameStore DEF FleetInv
  <2>2. /\ FleetTypeOK'
        /\ job'[n].pc = "load" /\ job'[n].order = job[n].order
        /\ job'[n].lastSeen = job[n].lastSeen
        /\ \A m \in Nodes \ {n} : job'[m] = job[m]
    <3>1. /\ clean' \in [Nodes -> BOOLEAN] /\ seen' \in [Nodes -> Nat]
          /\ landed' \in [Nodes -> SUBSET OrderType]
          /\ last' \in [Nodes -> OrderType \cup {NoOrder}]
      BY <1>1 DEF FleetInv, FleetTypeOK
    <3> QED
      BY <1>1, <1>2, <2>1, <3>1, JobMoves
  <2>3. Applying(n)' /\ Landing(n)'
    BY <1>1, <2>2 DEF FleetInv, Applying, Landing
  <2>4. \A m \in Nodes \ {n} : Still(m)
    BY <1>1, <2>2 DEF Still
  <2> QED
    BY <1>1, <2>1, <2>2, <2>3, <2>4, OneNode DEF FleetInv
<1>3. CASE Leave(n)
  <2>1. /\ clean' \in [Nodes -> BOOLEAN] /\ seen[n] \in Nat
        /\ seen' = [seen EXCEPT ![n] = seen[n]]
    BY <1>1 DEF FleetInv, FleetTypeOK
  <2> QED
    BY <1>1, <1>3, <2>1, LeaveFleet
<1> QED
  BY <1>2, <1>3 DEF ApplyPulled

LEMMA ApplyEndsFleet ==
    ASSUME FleetInv, NEW n \in Nodes, ApplyRefused(n) \/ ApplyStuck(n) \/ ApplySeen(n)
    PROVE  FleetInv'
<1>1. /\ job[n].pc \in {"load", "seen"} /\ Leave(n)
      /\ UNCHANGED <<storeVars, sess, conns, remotes, histVars>>
      /\ UNCHANGED <<edits, fabric, now, pin, orders, landed, last, died>>
  BY DEF ApplyRefused, ApplyStuck, ApplySeen, treeVars, orderVars, landVars
<1>2. sess[n].pc = "idle"
  BY <1>1 DEF FleetInv, Applying
<1>3. clean \in [Nodes -> BOOLEAN]
  BY DEF FleetInv, FleetTypeOK
<1>4. clean' \in [Nodes -> BOOLEAN]
  <2>1. CASE ApplyStuck(n)
    <3>1. PICK c \in {clean[n], FALSE} : clean' = [clean EXCEPT ![n] = c]
      BY <2>1 DEF ApplyStuck
    <3>2. c \in BOOLEAN
      BY <1>3
    <3> QED
      BY <1>3, <3>1, <3>2
  <2>2. CASE ApplyRefused(n) \/ ApplySeen(n)
    BY <1>3, <2>2 DEF ApplyRefused, ApplySeen, treeVars
  <2> QED
    BY <2>1, <2>2
<1>5. PICK t \in Nat : /\ seen' = [seen EXCEPT ![n] = t]
                       /\ IF job[n].pc = "seen" THEN t = NewSeen(job[n]) ELSE t = seen[n]
  <2>1. seen \in [Nodes -> Nat]
    BY DEF FleetInv, FleetTypeOK
  <2>2. CASE ApplySeen(n)
    <3>1. job[n].pc = "seen" /\ seen' = [seen EXCEPT ![n] = NewSeen(job[n])]
      BY <2>2 DEF ApplySeen
    <3>2. NewSeen(job[n]) \in Nat
      <4>1. job[n].order \in OrderType /\ job[n].lastSeen \in Nat
        BY <3>1 DEF FleetInv, FleetTypeOK, Applying, JobType
      <4> QED
        BY <4>1 DEF NewSeen, OrderType
    <3> QED
      BY <3>1, <3>2
  <2>3. CASE ApplyRefused(n) \/ ApplyStuck(n)
    <3>1. job[n].pc = "load" /\ seen' = seen
      BY <2>3 DEF ApplyRefused, ApplyStuck, orderVars
    <3> QED
      BY <2>1, <3>1
  <2> QED
    BY <2>2, <2>3
<1> QED
  BY <1>1, <1>2, <1>4, <1>5, LeaveFleet

LEMMA ApplyFilesFleet ==
    ASSUME FleetInv, NEW n \in Nodes, ApplyFiles(n)
    PROVE  FleetInv'
<1>1. /\ job[n].pc = "load" /\ job[n].order.target \in mans[n]
      /\ job' = JobGoto(n, "head") /\ UNCHANGED vars
      /\ clean' = [clean EXCEPT ![n] = job[n].order.target = head[n]]
      /\ UNCHANGED <<edits, fabric, now, pin, seen, orders, landed, last, died>>
  BY DEF ApplyFiles, AfterFiles, orderVars, landVars
<1>2. UNCHANGED <<lock, mans, sess>>
  BY <1>1 DEF vars, storeVars, pullVars
<1>3. IInv'
  BY <1>1, SameStore DEF FleetInv
<1>4. /\ clean' \in [Nodes -> BOOLEAN] /\ seen' \in [Nodes -> Nat]
      /\ landed' \in [Nodes -> SUBSET OrderType]
      /\ last' \in [Nodes -> OrderType \cup {NoOrder}]
  <2>1. clean \in [Nodes -> BOOLEAN] /\ (job[n].order.target = head[n]) \in BOOLEAN
    BY DEF FleetInv, FleetTypeOK
  <2>2. clean' \in [Nodes -> BOOLEAN]
    BY <1>1, <2>1
  <2> QED
    BY <1>1, <2>2 DEF FleetInv, FleetTypeOK
<1>5. /\ FleetTypeOK'
      /\ job'[n].pc = "head" /\ job'[n].order = job[n].order
      /\ job'[n].lastSeen = job[n].lastSeen
      /\ \A m \in Nodes \ {n} : job'[m] = job[m]
  BY <1>1, <1>2, <1>3, <1>4, JobMoves
<1>6. Applying(n)' /\ Landing(n)'
  BY <1>1, <1>2, <1>5 DEF FleetInv, Applying, Landing
<1>7. \A m \in Nodes \ {n} : Still(m)
  BY <1>1, <1>2, <1>5 DEF Still
<1> QED
  BY <1>1, <1>3, <1>5, <1>6, <1>7, OneNode DEF FleetInv

(***************************************************************************)
(* The one step by which an order lands.  Where no apply has died          *)
(* fleet_seen was the timestamp of the order before, so the check that the *)
(* apply made at its start still holds, its lock kept since.               *)
(***************************************************************************)
LEMMA ApplyHeadFleet ==
    ASSUME FleetInv, NEW n \in Nodes, ApplyHead(n)
    PROVE  FleetInv' /\ (landed[n] # {} /\ died[n] = 0 => last'[n].ts >= last[n].ts)
<1> DEFINE o == job[n].order
<1>1. /\ job[n].pc = "head" /\ head' = [head EXCEPT ![n] = o.target]
      /\ job' = JobGoto(n, "truncate") /\ clean' = [clean EXCEPT ![n] = TRUE]
      /\ landed' = [landed EXCEPT ![n] = @ \cup {o}]
      /\ last' = [last EXCEPT ![n] = o]
      /\ UNCHANGED <<minted, mans, objs, pullVars, histVars>>
      /\ UNCHANGED <<lock, sess, edits, fabric, now, pin, seen, orders, died>>
  BY DEF ApplyHead, pullVars, orderVars
<1>2. Applying(n) /\ Landing(n) /\ o \in OrderType /\ o.target \in mans[n]
  BY <1>1 DEF FleetInv, Applying
<1> HIDE DEF o
<1>3. IInv'
  BY <1>1, <1>2, HeadIInv DEF FleetInv
<1>4. /\ clean' \in [Nodes -> BOOLEAN] /\ seen' \in [Nodes -> Nat]
      /\ landed' \in [Nodes -> SUBSET OrderType]
      /\ last' \in [Nodes -> OrderType \cup {NoOrder}]
  <2>1. clean' \in [Nodes -> BOOLEAN]
    BY <1>1 DEF FleetInv, FleetTypeOK
  <2> QED
    BY <1>1, <1>2, <2>1 DEF FleetInv, FleetTypeOK
<1>5. /\ FleetTypeOK'
      /\ job'[n].pc = "truncate" /\ job'[n].order = job[n].order
      /\ job'[n].lastSeen = job[n].lastSeen
      /\ \A m \in Nodes \ {n} : job'[m] = job[m]
  BY <1>1, <1>3, <1>4, JobMoves
<1>6. /\ landed'[n] = landed[n] \cup {o} /\ last'[n] = o
      /\ \A m \in Nodes \ {n} : landed'[m] = landed[m] /\ last'[m] = last[m]
  BY <1>1 DEF FleetInv, FleetTypeOK
<1>7. Applying(n)'
  BY <1>1, <1>2, <1>5, <1>6 DEF Applying
<1>8. landed[n] # {} /\ died[n] = 0 =>
         o.ts >= last[n].ts /\ last[n].ts \in Nat /\ \A p \in landed[n] : p.ts <= o.ts
  <2> SUFFICES ASSUME landed[n] # {}, died[n] = 0
               PROVE  o.ts >= last[n].ts /\ last[n].ts \in Nat /\ \A p \in landed[n] : p.ts <= o.ts
    OBVIOUS
  <2>1. last[n] \in landed[n] /\ seen[n] = last[n].ts
    BY <1>1, <1>2 DEF Landing
  <2>2. o.ts >= seen[n]
    BY <1>1, <1>2 DEF Applying, o
  <2>3. \A p \in landed[n] : p.ts \in Nat
    BY DEF FleetInv, FleetTypeOK, OrderType
  <2>4. o.ts \in Nat
    BY <1>2 DEF OrderType
  <2>5. \A p \in landed[n] : p.ts <= last[n].ts
    BY <1>2 DEF Landing
  <2> QED
    BY <2>1, <2>2, <2>3, <2>4, <2>5
<1>9. Landing(n)'
  <2>1. \A order \in landed'[n] : order.key = pin'[n] /\ order.fabric = fabric'[n]
    BY <1>1, <1>2, <1>6 DEF Applying, Landing, o
  <2>2. seen'[n] = 0 \/ \E order \in landed'[n] : order.ts >= seen'[n]
    BY <1>1, <1>2, <1>6 DEF Landing
  <2>3. o.ts <= o.ts
    BY <1>2 DEF OrderType
  <2>4. died'[n] = 0 => \A order \in landed'[n] : order.ts <= last'[n].ts
    BY <1>1, <1>6, <1>8, <2>3
  <2>5. last'[n] = job'[n].order
    BY <1>5, <1>6 DEF o
  <2> QED
    BY <1>5, <1>6, <2>1, <2>2, <2>4, <2>5 DEF Landing
<1>10. \A m \in Nodes \ {n} : Still(m)
  BY <1>1, <1>5, <1>6 DEF Still
<1>11. FleetInv'
  BY <1>1, <1>3, <1>5, <1>7, <1>9, <1>10, OneNode DEF FleetInv
<1> QED
  BY <1>6, <1>8, <1>11

LEMMA ApplyTruncateFleet ==
    ASSUME FleetInv, NEW n \in Nodes, ApplyTruncate(n)
    PROVE  FleetInv'
<1>1. /\ job[n].pc = "truncate" /\ job' = JobGoto(n, "seen") /\ UNCHANGED vars
      /\ seen' = [seen EXCEPT ![n] = 0]
      /\ UNCHANGED <<clean, edits, fabric, now, pin, orders, landed, last, died>>
  BY DEF ApplyTruncate, treeVars, landVars
<1>2. UNCHANGED <<lock, mans, sess>>
  BY <1>1 DEF vars, storeVars, pullVars
<1>3. IInv'
  BY <1>1, SameStore DEF FleetInv
<1>4. /\ clean' \in [Nodes -> BOOLEAN] /\ seen' \in [Nodes -> Nat]
      /\ landed' \in [Nodes -> SUBSET OrderType]
      /\ last' \in [Nodes -> OrderType \cup {NoOrder}]
  BY <1>1 DEF FleetInv, FleetTypeOK
<1>5. /\ FleetTypeOK'
      /\ job'[n].pc = "seen" /\ job'[n].order = job[n].order
      /\ job'[n].lastSeen = job[n].lastSeen
      /\ \A m \in Nodes \ {n} : job'[m] = job[m]
  BY <1>1, <1>2, <1>3, <1>4, JobMoves
<1>6. seen'[n] = 0 /\ \A m \in Nodes \ {n} : seen'[m] = seen[m]
  BY <1>1 DEF FleetInv, FleetTypeOK
<1>7. Applying(n)' /\ Landing(n)'
  BY <1>1, <1>2, <1>5, <1>6 DEF FleetInv, Applying, Landing
<1>8. \A m \in Nodes \ {n} : Still(m)
  BY <1>1, <1>2, <1>5, <1>6 DEF Still
<1> QED
  BY <1>1, <1>3, <1>5, <1>7, <1>8, OneNode DEF FleetInv

LEMMA DieFleet ==
    ASSUME FleetInv, NEW n \in Nodes, Die(n)
    PROVE  FleetInv'
<1>1. /\ died' = [died EXCEPT ![n] = @ + 1] /\ job' = [job EXCEPT ![n] = NoJob]
      /\ lock' = [lock EXCEPT ![n] = "free"] /\ LeaveBehind(n)
      /\ sess' = [sess EXCEPT ![n] = NoPull(n, FALSE)]
      /\ UNCHANGED <<storeVars, conns, remotes, pulls, purges>> /\ fails' = fails
      /\ UNCHANGED <<mans, clean, edits, fabric, now, pin, seen, orders, landed, last>>
  BY DEF Die, storeVars, treeVars, orderVars
<1>2. fails' \in Nat
  BY <1>1 DEF FleetInv, IInv, TypeOK
<1>3. IInv'
  BY <1>1, <1>2, LeaveIInv DEF FleetInv
<1>4. NoJob \in JobType /\ NoJob.pc = "idle"
  BY DEF NoJob, JobType
<1>5. /\ job'[n] = NoJob /\ lock'[n] = "free" /\ died'[n] = died[n] + 1 /\ died[n] \in Nat
      /\ \A m \in Nodes \ {n} : /\ job'[m] = job[m] /\ lock'[m] = lock[m]
                                /\ died'[m] = died[m] /\ sess'[m] = sess[m]
  BY <1>1 DEF FleetInv, FleetTypeOK, TypeOK
<1>6. FleetTypeOK'
  <2>1. TypeOK' /\ job' \in [Nodes -> JobType] /\ died' \in [Nodes -> Nat]
    BY <1>1, <1>3, <1>4 DEF IInv, FleetInv, FleetTypeOK
  <2>2. \A m \in Nodes : lock'[m] = "fleet" <=> job'[m].pc # "idle"
    BY <1>4, <1>5 DEF FleetInv, FleetTypeOK
  <2> QED
    BY <1>1, <2>1, <2>2 DEF FleetInv, FleetTypeOK
<1>7. Applying(n)'
  BY <1>4, <1>5 DEF Applying
<1>8. Landing(n)'
  BY <1>1, <1>4, <1>5 DEF FleetInv, Landing
<1>9. \A m \in Nodes \ {n} : Still(m)
  BY <1>1, <1>5 DEF Still
<1> QED
  BY <1>1, <1>3, <1>6, <1>7, <1>8, <1>9, OneNode DEF FleetInv

-----------------------------------------------------------------------------

LEMMA InitFleet == FleetInit => FleetInv
<1> SUFFICES ASSUME FleetInit PROVE FleetInv
  OBVIOUS
<1>1. IInv /\ TypeOK
  BY InitIInv DEF FleetInit, IInv
<1>2. NoJob \in JobType /\ NoJob.pc = "idle"
  BY DEF NoJob, JobType
<1>3. FleetTypeOK
  BY <1>1, <1>2 DEF FleetInit, FleetTypeOK, Init
<1>4. IsFiniteSet(orders)
  BY FS_EmptySet DEF FleetInit
<1>5. \A n \in Nodes : Applying(n) /\ Landing(n)
  BY <1>2 DEF FleetInit, Applying, Landing
<1> QED
  BY <1>1, <1>3, <1>4, <1>5 DEF FleetInv

LEMMA SyncStepsFleet ==
    ASSUME FleetInv, NEW n \in Nodes, LocalWork(n) \/ Replicate(n)
    PROVE  FleetInv' /\ UNCHANGED <<landed, last>>
<1>1. clean \in [Nodes -> BOOLEAN]
  BY DEF FleetInv, FleetTypeOK
<1>2. CASE LocalWork(n)
  <2>1. /\ clean' = [clean EXCEPT ![n] = TRUE] /\ UNCHANGED <<edits, orderVars, job, landVars>>
        /\ \/ \E chunks \in SUBSET Chunks : Snap(n, chunks)
           \/ \E id \in Ids : Revert(n, id)
    BY <1>2 DEF LocalWork
  <2>2. clean' \in [Nodes -> BOOLEAN]
    BY <1>1, <2>1
  <2>3. Next
    BY <2>1 DEF Next
  <2> QED
    BY <2>1, <2>2, <2>3, SyncStepFleet DEF landVars
<1>3. CASE Replicate(n)
  <2>1. UNCHANGED <<edits, orderVars, job, landVars>> /\ clean' = clean
    BY <1>3 DEF Replicate, fleetVars, treeVars
  <2>2. Next
    BY <1>3 DEF Replicate, Next
  <2> QED
    BY <1>1, <2>1, <2>2, SyncStepFleet DEF landVars
<1> QED
  BY <1>2, <1>3

\* What the action property says of one step.
LandsInOrder ==
    \A n \in Nodes : landed[n] # {} /\ died[n] = 0 => last'[n].ts >= last[n].ts

LEMMA LastKept ==
    ASSUME FleetInv, UNCHANGED last
    PROVE  LandsInOrder
<1> SUFFICES ASSUME NEW n \in Nodes, landed[n] # {} PROVE last'[n].ts >= last[n].ts
  BY DEF LandsInOrder
<1>1. last[n] \in landed[n] /\ landed[n] \subseteq OrderType
  BY DEF FleetInv, Landing, FleetTypeOK
<1>2. last[n].ts \in Nat
  BY <1>1 DEF OrderType
<1> QED
  BY <1>2

LEMMA NextFleet ==
    ASSUME FleetInv, [FleetNext]_allVars
    PROVE  FleetInv' /\ LandsInOrder
<1>1. CASE UNCHANGED allVars
  <2>1. /\ UNCHANGED vars
        /\ UNCHANGED <<clean, edits, fabric, now, pin, seen, orders, job, landed, last, died>>
    BY <1>1 DEF allVars, fleetVars, treeVars, orderVars, landVars
  <2>2. UNCHANGED <<lock, mans, sess>>
    BY <2>1 DEF vars, storeVars, pullVars
  <2>3. IInv' /\ TypeOK'
    BY <2>1, SameStore DEF FleetInv, IInv
  <2>4. FleetTypeOK' /\ \A m \in Nodes : Still(m)
    BY <2>1, <2>2, <2>3 DEF FleetInv, FleetTypeOK, Still
  <2> QED
    BY <2>1, <2>3, <2>4, NoNode, LastKept DEF FleetInv
<1>2. CASE Tick \/ \E n \in Nodes : Edit(n)
  <2>1. UNCHANGED last
    BY <1>2 DEF Tick, Edit, landVars
  <2> QED
    BY <1>2, <2>1, EditTickFleet, LastKept
<1>3. ASSUME NEW n \in Nodes, LocalWork(n) \/ Replicate(n)
      PROVE  FleetInv' /\ LandsInOrder
  BY <1>3, SyncStepsFleet, LastKept
<1>4. ASSUME NEW n \in Nodes, NEW key \in Nodes, Trust(n, key)
      PROVE  FleetInv' /\ LandsInOrder
  BY <1>4, TrustFleet, LastKept DEF Trust, landVars
<1>5. ASSUME NEW n \in Nodes, NEW target \in Ids, Order(n, target)
      PROVE  FleetInv' /\ LandsInOrder
  BY <1>5, OrderFleet, LastKept DEF Order, landVars
<1>6. ASSUME NEW n \in Nodes, NEW order \in orders, NEW force \in BOOLEAN,
             ApplyHere(n, order, force)
      PROVE  FleetInv' /\ LandsInOrder
  BY <1>6, ApplyHereFleet, LastKept DEF ApplyHere, landVars
<1>7. ASSUME NEW n \in Nodes, NEW order \in orders, NEW force \in BOOLEAN, NEW from \in Nodes,
             ApplyFrom(n, order, from, force)
      PROVE  FleetInv' /\ LandsInOrder
  BY <1>7, ApplyFromFleet, LastKept DEF ApplyFrom, landVars
<1>8. ASSUME NEW n \in Nodes, ApplyHead(n)
      PROVE  FleetInv' /\ LandsInOrder
  <2>1. FleetInv' /\ (landed[n] # {} /\ died[n] = 0 => last'[n].ts >= last[n].ts)
    BY <1>8, ApplyHeadFleet
  <2>2. ASSUME NEW m \in Nodes, m # n, landed[m] # {}
        PROVE  last'[m].ts >= last[m].ts
    <3>1. last'[m] = last[m]
      BY <1>8, <2>2 DEF ApplyHead, FleetInv, FleetTypeOK
    <3>2. last[m] \in landed[m] /\ landed[m] \subseteq OrderType
      BY <2>2 DEF FleetInv, Landing, FleetTypeOK
    <3>3. last[m].ts \in Nat
      BY <3>2 DEF OrderType
    <3> QED
      BY <3>1, <3>3
  <2> QED
    BY <2>1, <2>2 DEF LandsInOrder
<1>9. ASSUME NEW n \in Nodes, ApplyPulled(n)
      PROVE  FleetInv' /\ LandsInOrder
  BY <1>9, ApplyPulledFleet, LastKept DEF ApplyPulled, landVars
<1>10. ASSUME NEW n \in Nodes, ApplyRefused(n) \/ ApplyStuck(n) \/ ApplySeen(n)
       PROVE  FleetInv' /\ LandsInOrder
  BY <1>10, ApplyEndsFleet, LastKept DEF ApplyRefused, ApplyStuck, ApplySeen, landVars
<1>11. ASSUME NEW n \in Nodes, ApplyFiles(n)
       PROVE  FleetInv' /\ LandsInOrder
  BY <1>11, ApplyFilesFleet, LastKept DEF ApplyFiles, landVars
<1>12. ASSUME NEW n \in Nodes, ApplyTruncate(n)
       PROVE  FleetInv' /\ LandsInOrder
  BY <1>12, ApplyTruncateFleet, LastKept DEF ApplyTruncate, landVars
<1>13. ASSUME NEW n \in Nodes, Die(n)
       PROVE  FleetInv' /\ LandsInOrder
  BY <1>13, DieFleet, LastKept DEF Die
<1> QED
  BY <1>1, <1>2, <1>3, <1>4, <1>5, <1>6, <1>7, <1>8, <1>9, <1>10, <1>11, <1>12, <1>13
     DEF FleetNext, ApplyStep

LEMMA SpecFleet == FleetSpec => []FleetInv
<1>1. FleetInv /\ [FleetNext]_allVars => FleetInv'
  BY NextFleet
<1> QED
  BY <1>1, InitFleet, PTL DEF FleetSpec

(***************************************************************************)
(* Signed orders do not weaken replication: with applies that pull, move   *)
(* HEAD and die between any two steps (fleet.rs 204-254), every reference  *)
(* is still to something minted and every gap still accounted for.         *)
(***************************************************************************)
THEOREM FleetKeepsStores ==
    FleetSpec => [](FleetTypeOK /\ RefsMinted /\ GapsAccounted /\ ChunksAccounted)
<1>1. FleetInv => FleetTypeOK /\ RefsMinted /\ GapsAccounted /\ ChunksAccounted
  BY DEF FleetInv, IInv
<1> QED
  BY <1>1, SpecFleet, PTL

(***************************************************************************)
(* However an apply ends, its lock is free again and fleet_seen is not     *)
(* ahead of what has landed.                                               *)
(***************************************************************************)
THEOREM AppliesSettle == FleetSpec => []ApplySettles
<1>1. FleetInv => ApplySettles
  BY DEF FleetInv, FleetTypeOK, Landing, ApplySettles
<1> QED
  BY <1>1, SpecFleet, PTL

(***************************************************************************)
(* Only orders of the pinned key and of the node's own fabric ever move    *)
(* its HEAD: the pin cannot change between the check and the landing, nor  *)
(* after it.                                                               *)
(***************************************************************************)
THEOREM OnlyPinnedLand == FleetSpec => []PinnedOnly
<1>1. FleetInv => PinnedOnly
  BY DEF FleetInv, Landing, PinnedOnly
<1> QED
  BY <1>1, SpecFleet, PTL

(***************************************************************************)
(* At a node where no apply has died, no order lands after a newer one.    *)
(***************************************************************************)
THEOREM OrdersLandInOrder == FleetSpec => MonotoneApply
<1>1. FleetInv /\ [FleetNext]_allVars => [LandsInOrder]_allVars
  BY NextFleet
<1> QED
  BY <1>1, SpecFleet, PTL DEF FleetSpec, MonotoneApply, LandsInOrder

(***************************************************************************)
(* Two nodes that took the same orders of different seconds, in whatever   *)
(* sequence they were presented, and have not moved since, have the same   *)
(* HEAD: the last order of each is the one with the largest timestamp.     *)
(***************************************************************************)
THEOREM FleetAgrees == FleetSpec => []FleetConverges
<1>1. FleetInv => FleetConverges
  <2> SUFFICES ASSUME FleetInv, NEW n \in Nodes, NEW m \in Nodes,
                      AtOrder(n), AtOrder(m), landed[n] = landed[m],
                      \A o, p \in landed[n] : o.ts = p.ts => o = p
               PROVE  head[n] = head[m]
    BY DEF FleetConverges
  <2>1. last[n] \in landed[n] /\ last[m] \in landed[n]
    BY DEF FleetInv, Landing, AtOrder
  <2>2. last[n].ts \in Nat /\ last[m].ts \in Nat
    BY <2>1 DEF FleetInv, FleetTypeOK, OrderType
  <2>3. last[m].ts <= last[n].ts /\ last[n].ts <= last[m].ts
    BY <2>1 DEF FleetInv, Landing, AtOrder
  <2>4. last[n] = last[m]
    BY <2>1, <2>2, <2>3
  <2> QED
    BY <2>4 DEF AtOrder
<1> QED
  BY <1>1, SpecFleet, PTL
=============================================================================
