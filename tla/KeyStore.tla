------------------------------ MODULE KeyStore -------------------------------
(***************************************************************************)
(* The signing key of one fabric on macOS: kept in the login Keychain      *)
(* under the fabric's id, or in .respawn/anchor.secret when the Keychain   *)
(* cannot be used (src/src/keychain.rs); the id itself, minted by whoever  *)
(* needs it first (fabric_id in src/src/anchor.rs); and the LaunchAgent    *)
(* that signs anchors on an interval, named after the id                   *)
(* (src/src/schedule.rs).                                                  *)
(*                                                                         *)
(* A look-up is several calls: read the id, ask the Keychain, read the     *)
(* file, move the file into the Keychain.  Only keygen and the commands    *)
(* that sign hold the fabric lock; pubkey, verify and schedule do not.     *)
(* Every process can die between two calls, a session can run with         *)
(* RESPAWN_NO_KEYCHAIN set, and any call to the Keychain can fail (locked, *)
(* no GUI session, access denied).  Other errors of the file system end a  *)
(* command where a death would and are not listed separately.  A key is    *)
(* modelled by its identity: the encoding of the seed is left out.         *)
(***************************************************************************)
EXTENDS Naturals

CONSTANTS
    Procs,        \* respawn processes on this fabric
    NoProc,       \* the lock is free
    Keys,         \* seeds getrandom can return, each returned once
    NoKey,        \* no key stored
    Ids,          \* fabric ids, each minted once
    NoId,         \* no fabric_id file
    MaxCmds,      \* bound: commands started
    MaxDenied,    \* bound: Keychain calls that fail
    MaxRefused,   \* bound: launchctl calls that fail
    MaxCrashes    \* bound: processes that die in the middle of a command

ASSUME NoneAssumption == NoProc \notin Procs /\ NoKey \notin Keys /\ NoId \notin Ids
ASSUME BoundsAssumption ==
    MaxCmds \in Nat /\ MaxDenied \in Nat /\ MaxRefused \in Nat /\ MaxCrashes \in Nat

VARIABLES
    keychain,     \* login Keychain: what is stored under each account
    secret,       \* .respawn/anchor.secret
    idFile,       \* .respawn/fabric_id
    lock,         \* holder of .respawn/lock
    plists,       \* ids with a plist in ~/Library/LaunchAgents
    agents,       \* ids whose agent launchd has loaded
    pc,           \* per process: the call it is about to make
    ret,          \* per process: where fabric_id() returns to
    cmd,          \* per process: its command
    off,          \* per process: RESPAWN_NO_KEYCHAIN is set
    id,           \* per process: the id fabric_id() returned
    key,          \* per process: the key it loaded or generated
    usedKeys,     \* seeds drawn so far
    usedIds,      \* ids drawn so far
    stored,       \* history: keys keygen stored and reported
    signed,       \* history: signed statements, as (key, fabric id)
    blind,        \* history: a keygen after the first could not ask the Keychain
    crossed,      \* history: two schedule commands ran at the same time
    cmds, denied, refused, crashes

storeVars == <<keychain, secret, idFile>>
agentVars == <<plists, agents>>
localVars == <<pc, ret, cmd, off, id, key>>
histVars  == <<stored, signed, blind, crossed>>
vars == <<storeVars, agentVars, lock, localVars, usedKeys, usedIds, histVars,
          cmds, denied, refused, crashes>>

Commands == {"keygen", "pubkey", "sign", "verify", "schedule", "unschedule"}

(***************************************************************************)
(* The arms of `respawn anchor` (and fleet order, purge: "sign") that take *)
(* the fabric lock.                                                        *)
(***************************************************************************)
Locked == {"keygen", "sign"}

\* The commands that talk to launchd.
Launchd == {"schedule", "unschedule"}

PCs == {"idle", "id", "mint", "exists", "lookup", "generate", "put", "putfile",
        "get", "file", "migrate", "remove", "sign", "plist", "bootstrap", "load",
        "check", "bootout", "unplist", "done"}

Init ==
    /\ keychain = [i \in Ids |-> NoKey]
    /\ secret = NoKey
    /\ idFile = NoId
    /\ lock = NoProc
    /\ plists = {}
    /\ agents = {}
    /\ pc = [p \in Procs |-> "idle"]
    /\ ret = [p \in Procs |-> "done"]
    /\ cmd = [p \in Procs |-> "pubkey"]
    /\ off = [p \in Procs |-> FALSE]
    /\ id = [p \in Procs |-> NoId]
    /\ key = [p \in Procs |-> NoKey]
    /\ usedKeys = {}
    /\ usedIds = {}
    /\ stored = {}
    /\ signed = {}
    /\ blind = FALSE
    /\ crossed = FALSE
    /\ cmds = 0
    /\ denied = 0
    /\ refused = 0
    /\ crashes = 0

-----------------------------------------------------------------------------
(* Control: a process moves to the call named l; CallId runs fabric_id()   *)
(* and goes on at l.                                                       *)

Goto(p, l) == pc' = [pc EXCEPT ![p] = l] /\ ret' = ret

CallId(p, l) == pc' = [pc EXCEPT ![p] = "id"] /\ ret' = [ret EXCEPT ![p] = l]

\* keychain::get begins with the id, unless the Keychain is not to be used.
CallGet(p, o) == IF o THEN Goto(p, "file") ELSE CallId(p, "get")

Keep == UNCHANGED <<lock, cmd, off, crossed, cmds, crashes>>

Answers == denied' = denied

Denies == denied < MaxDenied /\ denied' = denied + 1

-----------------------------------------------------------------------------
(* The command line: a command starts, takes the lock if its arm says so,  *)
(* and fails at once when the lock is held (no state changes then).        *)

Begin(p, c, o) ==
    /\ pc[p] = "idle"
    /\ cmds < MaxCmds
    /\ c \in Locked => lock = NoProc
    /\ lock' = IF c \in Locked THEN p ELSE lock
    /\ cmd' = [cmd EXCEPT ![p] = c]
    /\ off' = [off EXCEPT ![p] = o]
    /\ crossed' = (crossed \/ (c \in Launchd /\ \E q \in Procs : pc[q] # "idle" /\ cmd[q] \in Launchd))
    /\ cmds' = cmds + 1
    /\ CASE c = "keygen"     -> Goto(p, "exists")
         [] c = "verify"     -> CallId(p, "done")
         [] c = "unschedule" -> CallId(p, "check")
         [] OTHER            -> CallGet(p, o)
    /\ UNCHANGED <<storeVars, agentVars, id, key, usedKeys, usedIds, stored, signed, blind,
                   denied, refused, crashes>>

\* The process ends, or dies; the operating system drops its lock.
Leave(p) ==
    /\ pc' = [pc EXCEPT ![p] = "idle"]
    /\ lock' = IF lock = p THEN NoProc ELSE lock
    /\ UNCHANGED <<storeVars, agentVars, ret, cmd, off, id, key, usedKeys, usedIds,
                   histVars, cmds, denied, refused>>

Exit(p) == pc[p] = "done" /\ Leave(p) /\ crashes' = crashes

Crash(p) ==
    /\ pc[p] \notin {"idle", "done"}
    /\ crashes < MaxCrashes
    /\ Leave(p)
    /\ crashes' = crashes + 1

-----------------------------------------------------------------------------
(* fabric_id(): read the file; when there is none, draw an id and rename a *)
(* new file into place.                                                    *)

IdRead(p) ==
    /\ pc[p] = "id"
    /\ idFile # NoId
    /\ id' = [id EXCEPT ![p] = idFile]
    /\ Goto(p, ret[p])
    /\ Keep
    /\ UNCHANGED <<storeVars, agentVars, key, usedKeys, usedIds, stored, signed, blind,
                   denied, refused>>

IdDraw(p) ==
    /\ pc[p] = "id"
    /\ idFile = NoId
    /\ \E i \in Ids \ usedIds :
          /\ id' = [id EXCEPT ![p] = i]
          /\ usedIds' = usedIds \cup {i}
    /\ Goto(p, "mint")
    /\ Keep
    /\ UNCHANGED <<storeVars, agentVars, key, usedKeys, stored, signed, blind, denied, refused>>

IdWrite(p) ==
    /\ pc[p] = "mint"
    /\ idFile' = id[p]
    /\ Goto(p, ret[p])
    /\ Keep
    /\ UNCHANGED <<keychain, secret, agentVars, id, key, usedKeys, usedIds, stored,
                   signed, blind, denied, refused>>

-----------------------------------------------------------------------------
(* keygen(): exists() looks at the file, then at the Keychain, and takes a *)
(* Keychain that fails for one that holds nothing; then a fresh key is put *)
(* into the Keychain or, if that fails, into the file.                     *)

ExistsFile(p) ==
    /\ pc[p] = "exists"
    /\ IF secret # NoKey THEN Goto(p, "done")
       ELSE CallId(p, IF off[p] THEN "generate" ELSE "lookup")
    /\ blind' = (blind \/ (secret = NoKey /\ off[p] /\ stored # {}))
    /\ Keep
    /\ UNCHANGED <<storeVars, agentVars, id, key, usedKeys, usedIds, stored, signed,
                   denied, refused>>

ExistsKeychain(p) ==
    /\ pc[p] = "lookup"
    /\ \/ Answers /\ keychain[id[p]] # NoKey /\ Goto(p, "done")
       \/ Answers /\ keychain[id[p]] = NoKey /\ CallId(p, "generate")
       \/ Denies /\ CallId(p, "generate")
    /\ blind' = (blind \/ (denied' # denied /\ stored # {}))
    /\ Keep
    /\ UNCHANGED <<storeVars, agentVars, id, key, usedKeys, usedIds, stored, signed, refused>>

\* put() asks for the id once more before it turns to the Keychain.
Generate(p) ==
    /\ pc[p] = "generate"
    /\ \E k \in Keys \ usedKeys :
          /\ key' = [key EXCEPT ![p] = k]
          /\ usedKeys' = usedKeys \cup {k}
    /\ IF off[p] THEN Goto(p, "putfile") ELSE CallId(p, "put")
    /\ Keep
    /\ UNCHANGED <<storeVars, agentVars, id, usedIds, stored, signed, blind, denied, refused>>

PutKeychain(p) ==
    /\ pc[p] = "put"
    /\ \/ /\ Answers
          /\ keychain' = [keychain EXCEPT ![id[p]] = key[p]]
          /\ stored' = stored \cup {key[p]}
          /\ Goto(p, "done")
       \/ /\ Denies
          /\ Goto(p, "putfile")
          /\ UNCHANGED <<keychain, stored>>
    /\ Keep
    /\ UNCHANGED <<secret, idFile, agentVars, id, key, usedKeys, usedIds, signed, blind, refused>>

PutFile(p) ==
    /\ pc[p] = "putfile"
    /\ secret' = key[p]
    /\ stored' = stored \cup {key[p]}
    /\ Goto(p, "done")
    /\ Keep
    /\ UNCHANGED <<keychain, idFile, agentVars, id, key, usedKeys, usedIds, signed, blind,
                   denied, refused>>

-----------------------------------------------------------------------------
(* keychain::get(): the Keychain, then the file, which is moved into the   *)
(* Keychain when that works.                                               *)

\* Where a command goes on with the key in hand.
Loaded(p) ==
    CASE cmd[p] = "sign"     -> CallId(p, "sign")
      [] cmd[p] = "schedule" -> CallId(p, "plist")
      [] OTHER               -> Goto(p, "done")

GetKeychain(p) ==
    /\ pc[p] = "get"
    /\ \/ /\ Answers
          /\ keychain[id[p]] # NoKey
          /\ key' = [key EXCEPT ![p] = keychain[id[p]]]
          /\ Goto(p, "remove")
       \/ /\ Answers /\ keychain[id[p]] = NoKey
          /\ key' = key
          /\ Goto(p, "file")
       \/ /\ Denies
          /\ key' = key
          /\ Goto(p, "file")
    /\ Keep
    /\ UNCHANGED <<storeVars, agentVars, id, usedKeys, usedIds, stored, signed, blind, refused>>

\* The file stays until the Keychain has the key; without a file the command
\* ends with "no anchor key".
ClearedOnRead == NoKey
KeptOnRead    == secret

ReadFile(p) ==
    /\ pc[p] = "file"
    /\ secret' = KeptOnRead
    /\ key' = [key EXCEPT ![p] = secret]
    /\ IF secret = NoKey THEN Goto(p, "done")
       ELSE IF off[p] THEN Loaded(p) ELSE Goto(p, "migrate")
    /\ Keep
    /\ UNCHANGED <<keychain, idFile, agentVars, id, usedKeys, usedIds, stored, signed, blind, denied, refused>>

RemovesAnyway(p) == Goto(p, "remove")
KeepsFile(p)     == Loaded(p)

Migrate(p) ==
    /\ pc[p] = "migrate"
    /\ \/ /\ Answers
          /\ keychain' = [keychain EXCEPT ![id[p]] = key[p]]
          /\ Goto(p, "remove")
       \/ /\ Denies
          /\ keychain' = keychain
          /\ KeepsFile(p)
    /\ Keep
    /\ UNCHANGED <<secret, idFile, agentVars, id, key, usedKeys, usedIds, stored, signed, blind, refused>>

\* The key was found in the Keychain or has just been moved there.
RemoveFile(p) ==
    /\ pc[p] = "remove"
    /\ secret' = NoKey
    /\ Loaded(p)
    /\ Keep
    /\ UNCHANGED <<keychain, idFile, agentVars, id, key, usedKeys, usedIds, stored, signed, blind,
                   denied, refused>>

\* anchor::create, fleet::order and purge::run sign a payload with the id.
Sign(p) ==
    /\ pc[p] = "sign"
    /\ signed' = signed \cup {<<key[p], id[p]>>}
    /\ Goto(p, "done")
    /\ Keep
    /\ UNCHANGED <<storeVars, agentVars, id, key, usedKeys, usedIds, stored, blind, denied, refused>>

-----------------------------------------------------------------------------
(* install() and uninstall(): the plist is on disk before launchd hears of *)
(* it and until launchd has let go of it.                                  *)

Allows == refused' = refused

Refuses == refused < MaxRefused /\ refused' = refused + 1

WritePlist(p) ==
    /\ pc[p] = "plist"
    /\ plists' = plists \cup {id[p]}
    /\ Goto(p, "bootstrap")
    /\ Keep
    /\ UNCHANGED <<storeVars, agents, id, key, usedKeys, usedIds, stored, signed, blind,
                   denied, refused>>

\* `launchctl bootstrap` fails on an agent that is loaded already.
Bootstrap(p) ==
    /\ pc[p] = "bootstrap"
    /\ \/ /\ Allows
          /\ id[p] \notin agents
          /\ agents' = agents \cup {id[p]}
          /\ Goto(p, "done")
       \/ /\ IF id[p] \in agents THEN Allows ELSE Refuses
          /\ agents' = agents
          /\ Goto(p, "load")
    /\ Keep
    /\ UNCHANGED <<storeVars, plists, id, key, usedKeys, usedIds, stored, signed, blind, denied>>

LoadAgent(p) ==
    /\ pc[p] = "load"
    /\ \/ Allows /\ agents' = agents \cup {id[p]} /\ plists' = plists
       \/ Refuses /\ agents' = agents /\ plists' = plists \ {id[p]}
    /\ Goto(p, "done")
    /\ Keep
    /\ UNCHANGED <<storeVars, id, key, usedKeys, usedIds, stored, signed, blind, denied>>

UnplistFirst(p) == plists \ {id[p]}
PlistKept(p)    == plists

CheckPlist(p) ==
    /\ pc[p] = "check"
    /\ plists' = PlistKept(p)
    /\ Goto(p, IF id[p] \in plists THEN "bootout" ELSE "done")
    /\ Keep
    /\ UNCHANGED <<storeVars, agents, id, key, usedKeys, usedIds, stored, signed, blind,
                   denied, refused>>

\* bootout, then unload; both may be refused, the plist goes all the same.
Bootout(p) ==
    /\ pc[p] = "bootout"
    /\ \/ Allows /\ agents' = agents \ {id[p]}
       \/ Refuses /\ agents' = agents
    /\ Goto(p, "unplist")
    /\ Keep
    /\ UNCHANGED <<storeVars, plists, id, key, usedKeys, usedIds, stored, signed, blind, denied>>

RemovePlist(p) ==
    /\ pc[p] = "unplist"
    /\ plists' = plists \ {id[p]}
    /\ Goto(p, "done")
    /\ Keep
    /\ UNCHANGED <<storeVars, agents, id, key, usedKeys, usedIds, stored, signed, blind,
                   denied, refused>>

\* launchd at login: exactly the agents with a plist are loaded.
Login ==
    /\ \A p \in Procs : pc[p] = "idle"
    /\ agents # plists
    /\ agents' = plists
    /\ UNCHANGED <<storeVars, plists, lock, localVars, usedKeys, usedIds, histVars,
                   cmds, denied, refused, crashes>>

-----------------------------------------------------------------------------
FabricId(p) == IdRead(p) \/ IdDraw(p) \/ IdWrite(p)

Keygen(p) ==
    \/ ExistsFile(p) \/ ExistsKeychain(p) \/ Generate(p) \/ PutKeychain(p) \/ PutFile(p)

Load(p) == GetKeychain(p) \/ ReadFile(p) \/ Migrate(p) \/ RemoveFile(p)

Schedule(p) ==
    \/ WritePlist(p) \/ Bootstrap(p) \/ LoadAgent(p)
    \/ CheckPlist(p) \/ Bootout(p) \/ RemovePlist(p)

Next ==
    \/ \E p \in Procs :
          \/ \E c \in Commands, o \in BOOLEAN : Begin(p, c, o)
          \/ FabricId(p) \/ Keygen(p) \/ Load(p) \/ Sign(p) \/ Schedule(p)
          \/ Exit(p) \/ Crash(p)
    \/ Login

Spec == Init /\ [][Next]_vars

-----------------------------------------------------------------------------
TypeOK ==
    /\ keychain \in [Ids -> Keys \cup {NoKey}]
    /\ secret \in Keys \cup {NoKey}
    /\ idFile \in Ids \cup {NoId}
    /\ lock \in Procs \cup {NoProc}
    /\ plists \subseteq Ids
    /\ agents \subseteq Ids
    /\ pc \in [Procs -> PCs]
    /\ ret \in [Procs -> PCs]
    /\ cmd \in [Procs -> Commands]
    /\ off \in [Procs -> BOOLEAN]
    /\ id \in [Procs -> Ids \cup {NoId}]
    /\ key \in [Procs -> Keys \cup {NoKey}]
    /\ usedKeys \subseteq Keys
    /\ usedIds \subseteq Ids
    /\ stored \subseteq usedKeys
    /\ signed \subseteq Keys \X Ids
    /\ blind \in BOOLEAN
    /\ crossed \in BOOLEAN
    /\ cmds \in Nat /\ denied \in Nat /\ refused \in Nat /\ crashes \in Nat

\* No two readers minted an id each.
OneId == \A i, j \in usedIds : i = j

OneKey == \A k, l \in stored : k = l

(***************************************************************************)
(* "keygen refuses to overwrite" (keychain.rs 76-77): a second key is      *)
(* never stored while look-ups without the lock move the first one from    *)
(* the file into the Keychain, wherever one of them dies and whichever of  *)
(* their own Keychain calls fail.  exists() looks at the file first and    *)
(* get() empties it last.  The exceptions are a keygen that could not ask  *)
(* the Keychain and a fabric with two ids.                                 *)
(***************************************************************************)
NoSecondKey == ~blind /\ OneId => OneKey

(***************************************************************************)
(* The one key of a fabric is never lost between the two stores: the file  *)
(* holds it, or the Keychain does under the id that is on disk, with       *)
(* Keychain failures, mixed sessions, concurrent migrations and deaths.    *)
(***************************************************************************)
Held(k) == secret = k \/ \E i \in Ids : i = idFile /\ keychain[i] = k

KeySafe == OneId /\ OneKey => \A k \in stored : Held(k)

(***************************************************************************)
(* An agent that runs can be uninstalled: it carries the label uninstall() *)
(* derives from the id on disk, and its plist, without which uninstall()   *)
(* refuses, is there.  install() and uninstall() may die at any call; the  *)
(* exceptions are schedule commands that ran side by side and launchctl    *)
(* calls that failed.                                                      *)
(***************************************************************************)
AgentRemovable == ~crossed /\ refused = 0 /\ OneId => \A i \in agents : i \in plists /\ i = idFile

-----------------------------------------------------------------------------
(* What the documentation says and the code does not keep to.              *)

(***************************************************************************)
(* "True if a signing key exists in either store - keygen refuses to       *)
(* overwrite" (keychain.rs 76-77), for every session on a fabric with one  *)
(* id.                                                                     *)
(***************************************************************************)
KeygenRefuses == OneId => OneKey

(***************************************************************************)
(* "Keychain is authoritative" (keychain.rs 146): a key in the Keychain is *)
(* never replaced by another one from a leftover file.                     *)
(***************************************************************************)
KeychainWins ==
    [][\A i \in Ids : keychain[i] # NoKey => keychain'[i] = keychain[i]]_vars

(***************************************************************************)
(* "no anchor key - run `respawn anchor keygen`" (keychain.rs 184-186): a  *)
(* look-up that met no failure says so only when there is no key.          *)
(***************************************************************************)
MissMeansNone ==
    [][\A p \in Procs :
          pc[p] = "file" /\ ~off[p] /\ denied = 0 /\ secret = NoKey /\ pc'[p] = "done"
              => keychain[id[p]] = NoKey]_vars

(***************************************************************************)
(* "Anchors are bound to it" (anchor.rs 76-79): the id an anchor was       *)
(* signed for is the id verify() finds later.                              *)
(***************************************************************************)
AnchorsBelong == \A s \in signed : s[2] = idFile

(***************************************************************************)
(* "`schedule --uninstall` removes it" (README.md 131): an agent launchd   *)
(* has loaded always has the plist uninstall() asks for.                   *)
(***************************************************************************)
AgentsHavePlists == agents \subseteq plists
=============================================================================
