------------------------------- MODULE AuditLog -------------------------------
(***************************************************************************)
(* The hash-chained audit log of a fabric (src/src/audit.rs), the anchors  *)
(* that checkpoint it (src/src/anchor.rs), and the processes that append   *)
(* to it: commands that hold the fabric lock (src/src/store.rs, try_lock)  *)
(* and `respawn init`, which appends without taking it (src/src/main.rs).  *)
(*                                                                         *)
(* The file audit.jsonl is a sequence of lines.  record() reads the whole  *)
(* file, then issues two writes, the JSON text and the line feed, so a     *)
(* line can be left without its end; the next text then lands on the same  *)
(* line and the line no longer parses.  A process can die between any two  *)
(* steps, and the operating system then drops its lock.  A text cut inside *)
(* a multibyte character leaves a line that is not UTF-8, and the loop of  *)
(* record() reads no further than such a line.                             *)
(*                                                                         *)
(* A hash is modelled by what it commits to: the list of the entries it    *)
(* chains (BLAKE3 taken as collision free).                                *)
(***************************************************************************)
EXTENDS Integers, Sequences, FiniteSets

CONSTANTS
    Procs,        \* respawn processes that may run at the same time
    NoProc,       \* the lock is free
    Bodies,       \* what an entry says: time, event and detail
    MaxLines,     \* bound: lines of the log a command may start from
    MaxAnchors,   \* bound: anchors minted
    MaxInits,     \* bound: runs of `respawn init`
    MaxCrashes    \* bound: processes that die in the middle of a command

ASSUME NoProcAssumption == NoProc \notin Procs
ASSUME BoundsAssumption ==
    MaxLines \in Nat /\ MaxAnchors \in Nat /\ MaxInits \in Nat /\ MaxCrashes \in Nat

VARIABLES
    log,          \* lines of audit.jsonl
    open,         \* the last line has no line feed yet
    lock,         \* holder of .respawn/lock
    pc,           \* per process: the step it is about to take
    tail,         \* per process: (seq, prev) its record() will use
    point,        \* per process: (len, tip) its anchor::create will sign
    key,          \* the anchor signing key exists
    anchors,      \* anchor files, in the order they were written
    lastAnchor,   \* .respawn/last_anchor: index of an anchor, 0 when missing
    inits,        \* runs of `respawn init` so far
    crashes,      \* processes that died so far
    torn,         \* history: one died with its entry on an unfinished line
    overlapped    \* history: two processes were inside record() at once

logVars    == <<log, open>>
anchorVars == <<key, anchors, lastAnchor>>
histVars   == <<inits, crashes, torn, overlapped>>
vars       == <<logVars, lock, pc, tail, point, anchorVars, histVars>>

Chain  == Seq(Nat \X Bodies)      \* hash values
Empty  == <<>>                    \* the empty string: prev of the first entry

PCs == {"idle", "child", "read", "text", "feed", "keygen", "tip", "mint", "link"}

(***************************************************************************)
(* entry_hash: the digest of (seq, ts, event, detail, prev).               *)
(***************************************************************************)
EntryHash(seq, body, prev) == Append(prev, <<seq, body>>)

(***************************************************************************)
(* A line of the file: an entry, or text no entry parses from, which is    *)
(* UTF-8 (Garbage) or is not (Cut).                                        *)
(***************************************************************************)
Entry(seq, body, prev) ==
    [ok |-> TRUE, seq |-> seq, body |-> body, prev |-> prev,
     hash |-> EntryHash(seq, body, prev)]
Garbage == [ok |-> FALSE, utf8 |-> TRUE]
Cut     == [ok |-> FALSE, utf8 |-> FALSE]

-----------------------------------------------------------------------------
(* Reading the log.                                                        *)

Parsable(l) == \A i \in 1..Len(l) : l[i].ok

(***************************************************************************)
(* The entries among the first n lines that the loop of record() reads: it *)
(* skips text that does not parse and stops at a line that is not UTF-8.   *)
(***************************************************************************)
Reached(l, i)     == \A k \in 1..i : l[k] # Cut
EntriesRead(l, n) == {j \in 1..n : l[j].ok /\ Reached(l, j)}

IsLastRead(l, i) ==
    /\ i \in EntriesRead(l, Len(l))
    /\ \A j \in EntriesRead(l, Len(l)) : j <= i

(***************************************************************************)
(* (next seq, prev hash) that record() derives from the file.              *)
(***************************************************************************)
Genesis == [seq |-> 0, prev |-> Empty]
After(line) == [seq |-> line.seq + 1, prev |-> line.hash]

FromFirst(l) == IF l = <<>> \/ ~l[1].ok THEN Genesis ELSE After(l[1])
Afresh(l)    == IF l = <<>> \/ ~Parsable(l) THEN Genesis ELSE After(l[Len(l)])
TailOf(l) ==
    IF \E i \in 1..Len(l) : IsLastRead(l, i)
    THEN After(l[CHOOSE i \in 1..Len(l) : IsLastRead(l, i)])
    ELSE Genesis

(***************************************************************************)
(* verify(): every line parses and continues the chain of the one before.  *)
(***************************************************************************)
ChainedAt(l, i) ==
    /\ l[i].ok
    /\ l[i].seq = i - 1
    /\ l[i].prev = IF i = 1 THEN Empty ELSE l[i - 1].hash
    /\ l[i].hash = EntryHash(l[i].seq, l[i].body, l[i].prev)

VerifyOk(l) == \A i \in 1..Len(l) : ChainedAt(l, i)

(***************************************************************************)
(* tip(): refuses a log with a line that does not parse, checks no hash.   *)
(***************************************************************************)
TipDefined(l) == Parsable(l)
TipOf(l) == IF l = <<>> THEN [len |-> 0, tip |-> Empty]
            ELSE [len |-> l[Len(l)].seq + 1, tip |-> l[Len(l)].hash]

(***************************************************************************)
(* tip_is_prefix(): the first n lines are a chain that ends in t.  It      *)
(* reads one line more, which must be UTF-8.                               *)
(***************************************************************************)
TipIsPrefix(l, n, t) ==
    n > 0 => /\ n <= Len(l)
             /\ \A i \in 1..n : ChainedAt(l, i)
             /\ l[n].hash = t
             /\ n < Len(l) => l[n + 1] # Cut

(***************************************************************************)
(* verify_link(): anchor i signs the hash of the anchor written before it. *)
(***************************************************************************)
LinkOk(i) == anchors[i].prev = i - 1

-----------------------------------------------------------------------------

Init ==
    /\ log = <<>>
    /\ open = FALSE
    /\ lock = NoProc
    /\ pc = [p \in Procs |-> "idle"]
    /\ tail = [p \in Procs |-> Genesis]
    /\ point = [p \in Procs |-> [len |-> 0, tip |-> Empty]]
    /\ key = FALSE
    /\ anchors = <<>>
    /\ lastAnchor = 0
    /\ inits = 0
    /\ crashes = 0
    /\ torn = FALSE
    /\ overlapped = FALSE

Goto(p, where) == pc' = [pc EXCEPT ![p] = where]
Unlock(p)      == lock' = IF lock = p THEN NoProc ELSE lock
Leave(p)       == Goto(p, "idle") /\ Unlock(p)

Room == Len(log) < MaxLines

(***************************************************************************)
(* A command takes the lock or fails at once; a failed attempt changes     *)
(* nothing.  `first` is the step at which it starts.                       *)
(***************************************************************************)
NoLock(p)     == UNCHANGED lock
TakeLock(p)   == lock = NoProc /\ lock' = p

Command(p, first) ==
    /\ pc[p] = "idle"
    /\ Room
    /\ TakeLock(p)
    /\ Goto(p, first)
    /\ UNCHANGED <<logVars, tail, point, anchorVars, histVars>>

\* snap, revert, pull, fleet and purge: their last act is record()
Mutate(p)       == Command(p, "read")
\* guard waits, with the lock held, for the command it runs
Guard(p)        == Command(p, "child")
AnchorCreate(p) == Len(anchors) < MaxAnchors /\ Command(p, "tip")
AnchorKeygen(p) == Command(p, "keygen")

(***************************************************************************)
(* The child of a guard ends, or never could be started; the guard reverts *)
(* by its policy and records itself, or returns the error.                 *)
(***************************************************************************)
ChildEnds(p) ==
    /\ pc[p] = "child"
    /\ \/ Goto(p, "read") /\ UNCHANGED lock
       \/ Leave(p)
    /\ UNCHANGED <<logVars, tail, point, anchorVars, histVars>>

(***************************************************************************)
(* `respawn init` on a fabric that exists already, or is just being made:  *)
(* record() without the lock.                                              *)
(***************************************************************************)
InitAgain(p) ==
    /\ pc[p] = "idle"
    /\ Room
    /\ inits < MaxInits
    /\ inits' = inits + 1
    /\ Goto(p, "read")
    /\ UNCHANGED <<logVars, lock, tail, point, anchorVars, crashes, torn, overlapped>>

(***************************************************************************)
(* anchor::keygen refuses to replace a key, and records itself when done.  *)
(***************************************************************************)
Keygen(p) ==
    /\ pc[p] = "keygen"
    /\ \/ key /\ Leave(p) /\ UNCHANGED key
       \/ ~key /\ key' = TRUE /\ Goto(p, "read") /\ UNCHANGED lock
    /\ UNCHANGED <<logVars, tail, point, anchors, lastAnchor, histVars>>

(***************************************************************************)
(* anchor::create: the key and the tip, or an error ...                    *)
(***************************************************************************)
AnchorTip(p) ==
    /\ pc[p] = "tip"
    /\ \/ /\ key /\ TipDefined(log)
          /\ point' = [point EXCEPT ![p] = TipOf(log)]
          /\ Goto(p, "mint")
          /\ UNCHANGED lock
       \/ /\ ~(key /\ TipDefined(log))
          /\ Leave(p)
          /\ UNCHANGED point
    /\ UNCHANGED <<logVars, tail, anchorVars, histVars>>

(***************************************************************************)
(* ... then the signed anchor file, linked to what last_anchor names ...   *)
(***************************************************************************)
AnchorMint(p) ==
    /\ pc[p] = "mint"
    /\ anchors' = Append(anchors, [len |-> point[p].len, tip |-> point[p].tip,
                                   prev |-> lastAnchor])
    /\ Goto(p, "link")
    /\ UNCHANGED <<logVars, lock, tail, point, key, lastAnchor, histVars>>

(***************************************************************************)
(* ... then last_anchor, then record().                                    *)
(***************************************************************************)
KeepLast == lastAnchor
NewLast  == Len(anchors)

AnchorLink(p) ==
    /\ pc[p] = "link"
    /\ lastAnchor' = NewLast
    /\ Goto(p, "read")
    /\ UNCHANGED <<logVars, lock, tail, point, key, anchors, histVars>>

(***************************************************************************)
(* record(): read the file for (seq, prev), append the text, append the    *)
(* line feed.                                                              *)
(***************************************************************************)
Recording(p) == pc[p] \in {"text", "feed"}

ReadTail(p) ==
    /\ pc[p] = "read"
    /\ tail' = [tail EXCEPT ![p] = TailOf(log)]
    /\ Goto(p, "text")
    /\ overlapped' = (overlapped \/ \E q \in Procs \ {p} : Recording(q))
    /\ UNCHANGED <<logVars, lock, point, anchorVars, inits, crashes, torn>>

(***************************************************************************)
(* The file after `line` is appended in O_APPEND mode.  Text that lands on *)
(* an unfinished line spoils it: what is joined there is no entry, and is  *)
(* UTF-8 when both parts are.                                              *)
(***************************************************************************)
Rewritten(l, line) == <<line>>
Joined(a, b)       == IF a = Cut \/ b = Cut THEN Cut ELSE Garbage
Appended(l, line)  ==
    IF open THEN [l EXCEPT ![Len(l)] = Joined(l[Len(l)], line)] ELSE Append(l, line)

WriteText(p) ==
    /\ pc[p] = "text"
    /\ \E b \in Bodies : log' = Appended(log, Entry(tail[p].seq, b, tail[p].prev))
    /\ open' = TRUE
    /\ Goto(p, "feed")
    /\ UNCHANGED <<lock, tail, point, anchorVars, histVars>>

(***************************************************************************)
(* A short write: the process dies with part of the text in the file, cut  *)
(* between two characters or inside one (paths, actors and commands are    *)
(* written as they are, not escaped).                                      *)
(***************************************************************************)
WritePart(p) ==
    /\ pc[p] = "text"
    /\ crashes < MaxCrashes
    /\ \E part \in {Garbage, Cut} : log' = Appended(log, part)
    /\ open' = TRUE
    /\ Leave(p)
    /\ crashes' = crashes + 1
    /\ torn' = TRUE
    /\ UNCHANGED <<tail, point, anchorVars, inits, overlapped>>

(***************************************************************************)
(* The line feed ends record() and the command.  Readers skip an empty     *)
(* line, so one that follows another changes nothing.                      *)
(***************************************************************************)
WriteFeed(p) ==
    /\ pc[p] = "feed"
    /\ open' = FALSE
    /\ Leave(p)
    /\ UNCHANGED <<log, tail, point, anchorVars, histVars>>

(***************************************************************************)
(* The process dies, or an I/O error makes it return; the lock goes.       *)
(***************************************************************************)
LeakLock(p) == UNCHANGED lock
DropLock(p) == Unlock(p)

Crash(p) ==
    /\ pc[p] # "idle"
    /\ crashes < MaxCrashes
    /\ crashes' = crashes + 1
    /\ torn' = (torn \/ pc[p] = "feed")
    /\ Goto(p, "idle")
    /\ DropLock(p)
    /\ UNCHANGED <<logVars, tail, point, anchorVars, inits, overlapped>>

Step(p) ==
    \/ Keygen(p) \/ AnchorTip(p) \/ AnchorMint(p) \/ AnchorLink(p)
    \/ ReadTail(p) \/ WriteText(p) \/ WriteFeed(p)

Next ==
    \E p \in Procs :
        \/ Mutate(p) \/ Guard(p) \/ AnchorCreate(p) \/ AnchorKeygen(p) \/ InitAgain(p)
        \/ Step(p) \/ ChildEnds(p)
        \/ WritePart(p) \/ Crash(p)

Spec == Init /\ [][Next]_vars

(***************************************************************************)
(* A process that runs takes its next step: its file operations return,    *)
(* and so do a peer (behind the socket timeouts), the Keychain and the     *)
(* tools of --apfs.  Not so the child of a guard, which the user chose and *)
(* which nothing bounds: ChildEnds is not fair.                            *)
(***************************************************************************)
Fairness == \A p \in Procs : WF_vars(Step(p))
FairSpec == Spec /\ Fairness

-----------------------------------------------------------------------------
(* Properties.                                                             *)

LineType ==
    [ok : {TRUE}, seq : Nat, body : Bodies, prev : Chain, hash : Chain]
        \cup {Garbage, Cut}

(***************************************************************************)
(* Types; with the lock held, its holder is in the middle of a command and *)
(* every other process that is in one runs `init`.                         *)
(***************************************************************************)
TypeOK ==
    /\ log \in Seq(LineType)
    /\ open \in BOOLEAN
    /\ lock \in Procs \cup {NoProc}
    /\ pc \in [Procs -> PCs]
    /\ tail \in [Procs -> [seq : Nat, prev : Chain]]
    /\ point \in [Procs -> [len : Nat, tip : Chain]]
    /\ key \in BOOLEAN
    /\ anchors \in Seq([len : Nat, tip : Chain, prev : Nat])
    /\ lastAnchor \in 0..Len(anchors)
    /\ inits \in Nat
    /\ crashes \in Nat
    /\ torn \in BOOLEAN
    /\ overlapped \in BOOLEAN
    /\ lock # NoProc => pc[lock] # "idle"

(***************************************************************************)
(* The lock does what try_lock promises: as long as nobody runs `init` on  *)
(* the fabric, no two processes are ever inside record() together.         *)
(***************************************************************************)
LockExcludes == inits = 0 => ~overlapped

(***************************************************************************)
(* The chain is never forked or damaged by the program itself: unless two  *)
(* record() calls overlapped or one died on an unfinished line, verify()   *)
(* accepts the log at every moment, between the two writes included.       *)
(***************************************************************************)
LogIntact == ~overlapped /\ ~torn => VerifyOk(log)

(***************************************************************************)
(* How far damage reaches: whatever died half way, an entry continues the  *)
(* last entry that record() reads above it.  So the entries above the      *)
(* first line that is not UTF-8 form one chain, numbered from 0 with no    *)
(* gap, whatever other text stands between them; the entries below such a  *)
(* line all continue the last one above it (AlwaysResumes fails there).    *)
(***************************************************************************)
Continues(i, S) ==
    /\ log[i].seq = Cardinality(S)
    /\ S = {} => log[i].prev = Empty
    /\ \A j \in S : (\A k \in S : k <= j) => log[i].prev = log[j].hash

ReadChain ==
    ~overlapped =>
        \A i \in 1..Len(log) : log[i].ok => Continues(i, EntriesRead(log, i - 1))

(***************************************************************************)
(* "Entries appended after anchoring are legitimate continuation": every   *)
(* anchor ever minted still verifies against the live log, under the same  *)
(* conditions as LogIntact (tip, tip_is_prefix, record).                   *)
(***************************************************************************)
AnchorsHold ==
    ~overlapped /\ ~torn =>
        \A i \in 1..Len(anchors) : TipIsPrefix(log, anchors[i].len, anchors[i].tip)

(***************************************************************************)
(* What an anchor signs is a chain numbered 0, 1, 2, ... as long as the    *)
(* anchor says, whatever crashed and whatever overlapped before it.        *)
(***************************************************************************)
SoundTip(n, t) == Len(t) = n /\ \A k \in 1..n : t[k][1] = k - 1

AnchorsSound == \A i \in 1..Len(anchors) : SoundTip(anchors[i].len, anchors[i].tip)

(***************************************************************************)
(* The reach of a line damaged by a death: the entries written after it    *)
(* continue what record() can still read, and an anchor never signs a      *)
(* chain with a gap or a repeated number.                                  *)
(***************************************************************************)
DamageBounded == ReadChain /\ AnchorsSound

(***************************************************************************)
(* Every pair of consecutive anchors that does not link is paid for by a   *)
(* process that died (between the anchor file and last_anchor): without    *)
(* crashes the series always verifies pairwise.                            *)
(***************************************************************************)
LinksPaid == Cardinality({i \in 1..Len(anchors) : ~LinkOk(i)}) <= crashes

(***************************************************************************)
(* "A dead holder can never wedge the fabric", and neither can a live one  *)
(* that does not wait for the child of a guard: it gives the lock up, at   *)
(* the end of its command or by dying, wherever it is in record() or in    *)
(* the minting of an anchor.  A guard keeps the lock as long as its child  *)
(* runs (guard.rs 6-8), and gives it up once the child has ended.          *)
(***************************************************************************)
LockReleased ==
    \A p \in Procs : (lock = p /\ pc[p] # "child") ~> lock # p

-----------------------------------------------------------------------------
(* What the documentation says and the code does not keep to.              *)

(***************************************************************************)
(* "a second writer fails fast instead of forking the audit chain"         *)
(* (README.md 76-78), with `init` among the writers.                       *)
(***************************************************************************)
NeverForked == crashes = 0 => VerifyOk(log)

(***************************************************************************)
(* An anchor stays valid while the program only appends (README.md 64-65), *)
(* with crashes allowed.                                                   *)
(***************************************************************************)
AnchorsAlwaysHold ==
    inits = 0 =>
        \A i \in 1..Len(anchors) : TipIsPrefix(log, anchors[i].len, anchors[i].tip)

(***************************************************************************)
(* record() resumes from the last line that parses, so that the lines that *)
(* parse form one chain: true until a line is cut inside a character,      *)
(* where the loop of record() stops (audit.rs 48).                         *)
(***************************************************************************)
AlwaysResumes ==
    ~overlapped =>
        \A i \in 1..Len(log) : log[i].ok =>
            Continues(i, {j \in 1..(i - 1) : log[j].ok})

(***************************************************************************)
(* "an anchor must never checkpoint a corrupt log" (audit.rs 118-120):     *)
(* anchor::create gets a tip only from a log that verify() accepts, with   *)
(* `init` among the writers.                                               *)
(***************************************************************************)
TipRejectsCorrupt ==
    [][\A p \in Procs : pc[p] = "tip" /\ pc'[p] = "mint" => VerifyOk(log)]_vars

(***************************************************************************)
(* Pairwise verification of an untouched series succeeds, crashes allowed  *)
(* (README.md 122-125 takes a failure as a deleted or spliced anchor).     *)
(***************************************************************************)
SeriesLinks == \A i \in 1..Len(anchors) : LinkOk(i)
=============================================================================
