---------------------------- MODULE KeyStoreProofs ----------------------------
(***************************************************************************)
(* Theorems about KeyStore, for any number of processes, keys, ids,        *)
(* commands, failing calls and deaths: a fabric's key is neither doubled   *)
(* nor lost on its way between file and Keychain, and an agent that runs   *)
(* can be uninstalled.                                                     *)
(***************************************************************************)
EXTENDS KeyStore, TLAPS

(***************************************************************************)
(* The call a process is at, where fabric_id() counts for the call it      *)
(* returns to.                                                             *)
(***************************************************************************)
At(p) == IF pc[p] \in {"id", "mint"} THEN ret[p] ELSE pc[p]

Returns == {"done", "check", "get", "lookup", "generate", "put", "sign", "plist"}

KeygenSteps == {"exists", "lookup", "generate", "put", "putfile"}

ScheduleSteps == {"plist", "bootstrap", "load", "check", "bootout", "unplist"}

\* Calls made with the id in hand.
Named == {"lookup", "put", "get", "migrate", "remove", "sign"} \cup ScheduleSteps

(***************************************************************************)
(* What is on disk and in the Keychain: an id that was drawn, keys that    *)
(* keygen stored, and nothing before the id.                               *)
(***************************************************************************)
Disk ==
    /\ idFile \in usedIds \cup {NoId}
    /\ \A i \in Ids : keychain[i] # NoKey => keychain[i] \in stored
    /\ secret # NoKey => secret \in stored
    /\ stored # {} => idFile # NoId

(***************************************************************************)
(* A process uses only an id that is on disk or was drawn, holds the lock  *)
(* if its command takes it, has a key that was stored before it moves it,  *)
(* and empties the file only when the Keychain has one under its id.       *)
(***************************************************************************)
Process(p) ==
    /\ ret[p] \in Returns
    /\ pc[p] = "mint" => id[p] \in usedIds
    /\ pc[p] \in Named \/ (pc[p] = "file" /\ ~off[p]) => id[p] \in usedIds /\ idFile # NoId
    /\ pc[p] \in {"generate", "putfile"} => idFile # NoId
    /\ At(p) \in KeygenSteps => cmd[p] = "keygen"
    /\ pc[p] # "idle" /\ cmd[p] \in Locked => lock = p
    /\ At(p) \in {"put", "putfile"} => key[p] \in usedKeys
    /\ At(p) \in {"migrate", "remove", "sign"} => key[p] \in stored
    /\ pc[p] = "remove" => keychain[id[p]] # NoKey

(***************************************************************************)
(* A keygen that was not blind generates a key only when there is none;    *)
(* between its look at the file and its look at the Keychain a key that    *)
(* exists is in the Keychain already.                                      *)
(***************************************************************************)
Decided(p) ==
    ~blind /\ OneId =>
        /\ At(p) \in {"generate", "put", "putfile"} => stored = {}
        /\ At(p) = "lookup" /\ stored # {} => keychain[idFile] # NoKey

KInv ==
    /\ TypeOK
    /\ Disk
    /\ \A p \in Procs : Process(p) /\ Decided(p)
    /\ NoSecondKey
    /\ KeySafe

(***************************************************************************)
(* Schedule commands, as long as no two ran side by side and launchctl     *)
(* refused nothing: the plist is there while launchd is asked to load it,  *)
(* and launchd has let go when it is removed.                              *)
(***************************************************************************)
Talks(p) == pc[p] # "idle" /\ cmd[p] \in Launchd

Alone == ~crossed => \A p, q \in Procs : Talks(p) /\ Talks(q) => p = q

Step(p) ==
    /\ At(p) \in ScheduleSteps => cmd[p] \in Launchd
    /\ ~crossed /\ refused = 0 =>
          /\ pc[p] \in {"bootstrap", "load"} => id[p] \in plists
          /\ pc[p] = "unplist" => id[p] \notin agents

Plists ==
    /\ plists \cup agents \subseteq usedIds
    /\ plists \cup agents # {} => idFile # NoId
    /\ ~crossed /\ refused = 0 => agents \subseteq plists

LInv ==
    /\ Alone
    /\ \A p \in Procs : Step(p)
    /\ Plists

-----------------------------------------------------------------------------
(* Types.                                                                  *)

LEMMA TypeInit == Init => TypeOK
  <1> SUFFICES ASSUME Init PROVE TypeOK
    OBVIOUS
  <1>1. off \in [Procs -> BOOLEAN] /\ blind \in BOOLEAN /\ crossed \in BOOLEAN
    BY Zenon DEF Init
  <1>2. /\ pc \in [Procs -> PCs] /\ ret \in [Procs -> PCs] /\ cmd \in [Procs -> Commands]
        /\ id \in [Procs -> Ids \cup {NoId}] /\ key \in [Procs -> Keys \cup {NoKey}]
        /\ keychain \in [Ids -> Keys \cup {NoKey}]
    BY DEF Init, PCs, Commands
  <1> QED
    BY <1>1, <1>2 DEF Init, TypeOK

LEMMA ControlType ==
    ASSUME TypeOK, NEW p \in Procs, NEW l \in PCs, Goto(p, l) \/ CallId(p, l)
    PROVE  pc' \in [Procs -> PCs] /\ ret' \in [Procs -> PCs]
  <1>1. "id" \in PCs
    BY DEF PCs
  <1> QED
    BY <1>1 DEF TypeOK, Goto, CallId

LEMMA TypeStep ==
    ASSUME TypeOK, Disk, \A p \in Procs : Process(p), [Next]_vars
    PROVE  TypeOK'
  <1> USE NoneAssumption DEF storeVars, agentVars, localVars, histVars, Keep
  <1>1. ASSUME NEW p \in Procs, NEW c \in Commands, NEW o \in BOOLEAN, Begin(p, c, o)
        PROVE  TypeOK'
    <2>1. PICK l \in PCs : Goto(p, l) \/ CallId(p, l)
      BY <1>1 DEF Begin, CallGet, PCs
    <2>2. pc' \in [Procs -> PCs] /\ ret' \in [Procs -> PCs]
      BY <2>1, ControlType
    <2>3. crossed' \in BOOLEAN
      BY <1>1 DEF Begin
    <2>4. off' \in [Procs -> BOOLEAN]
      BY <1>1 DEF Begin, TypeOK
    <2>5. cmd' \in [Procs -> Commands] /\ lock' \in Procs \cup {NoProc} /\ cmds' \in Nat
      BY <1>1 DEF Begin, TypeOK
    <2> QED
      BY <1>1, <2>2, <2>3, <2>4, <2>5 DEF Begin, TypeOK
  <1>2. ASSUME NEW p \in Procs, Exit(p) \/ Crash(p) PROVE TypeOK'
    BY <1>2 DEF Exit, Crash, Leave, TypeOK, PCs
  <1>3. ASSUME NEW p \in Procs, FabricId(p) PROVE TypeOK'
    <2>1. PICK l \in PCs : Goto(p, l) \/ CallId(p, l)
      BY <1>3 DEF FabricId, IdRead, IdDraw, IdWrite, TypeOK, PCs
    <2>2. pc' \in [Procs -> PCs] /\ ret' \in [Procs -> PCs]
      BY <2>1, ControlType
    <2>3. CASE IdRead(p)
      BY <2>2, <2>3 DEF IdRead, TypeOK
    <2>4. CASE IdDraw(p)
      BY <2>2, <2>4 DEF IdDraw, TypeOK
    <2>5. CASE IdWrite(p)
      BY <2>2, <2>5 DEF IdWrite, TypeOK
    <2> QED
      BY <1>3, <2>3, <2>4, <2>5 DEF FabricId
  <1>4. ASSUME NEW p \in Procs, Keygen(p) PROVE TypeOK'
    <2>1. PICK l \in PCs : Goto(p, l) \/ CallId(p, l)
      BY <1>4 DEF Keygen, ExistsFile, ExistsKeychain, Generate, PutKeychain, PutFile, PCs
    <2>2. pc' \in [Procs -> PCs] /\ ret' \in [Procs -> PCs]
      BY <2>1, ControlType
    <2>3. CASE ExistsFile(p)
      BY <2>2, <2>3 DEF ExistsFile, TypeOK
    <2>4. CASE ExistsKeychain(p)
      BY <2>2, <2>4 DEF ExistsKeychain, Answers, Denies, TypeOK
    <2>5. CASE Generate(p)
      BY <2>2, <2>5 DEF Generate, TypeOK
    <2> pc[p] \in {"put", "putfile"} => key[p] \in usedKeys
      BY DEF Process, At
    <2>6. CASE PutKeychain(p)
      BY <2>2, <2>6 DEF PutKeychain, Answers, Denies, TypeOK
    <2>7. CASE PutFile(p)
      BY <2>2, <2>7 DEF PutFile, TypeOK
    <2> QED
      BY <1>4, <2>3, <2>4, <2>5, <2>6, <2>7 DEF Keygen
  <1>5. ASSUME NEW p \in Procs, Load(p) \/ Sign(p) PROVE TypeOK'
    <2>1. PICK l \in PCs : Goto(p, l) \/ CallId(p, l)
      BY <1>5 DEF Load, GetKeychain, ReadFile, Migrate, RemoveFile, Sign, Loaded, KeepsFile, PCs
    <2>2. pc' \in [Procs -> PCs] /\ ret' \in [Procs -> PCs]
      BY <2>1, ControlType
    <2>3. CASE Sign(p)
      <3>1. key[p] \in Keys /\ id[p] \in Ids
        BY <2>3 DEF Sign, Process, At, Named, TypeOK
      <3> QED
        BY <2>2, <2>3, <3>1 DEF Sign, TypeOK
    <2>4. CASE GetKeychain(p)
      <3>1. id[p] \in Ids
        BY <2>4 DEF GetKeychain, Process, Named, TypeOK
      <3> QED
        BY <2>2, <2>4, <3>1 DEF GetKeychain, Answers, Denies, TypeOK
    <2>5. CASE ReadFile(p)
      BY <2>2, <2>5 DEF ReadFile, KeptOnRead, TypeOK
    <2>6. CASE Migrate(p)
      BY <2>2, <2>6 DEF Migrate, Answers, Denies, TypeOK
    <2>7. CASE RemoveFile(p)
      BY <2>2, <2>7 DEF RemoveFile, TypeOK
    <2> QED
      BY <1>5, <2>3, <2>4, <2>5, <2>6, <2>7 DEF Load
  <1>6. ASSUME NEW p \in Procs, Schedule(p) PROVE TypeOK'
    <2>1. PICK l \in PCs : Goto(p, l) \/ CallId(p, l)
      BY <1>6 DEF Schedule, WritePlist, Bootstrap, LoadAgent, CheckPlist, Bootout, RemovePlist, PCs
    <2>2. pc' \in [Procs -> PCs] /\ ret' \in [Procs -> PCs]
      BY <2>1, ControlType
    <2>3. pc[p] \in ScheduleSteps => id[p] \in Ids
      BY DEF Process, Named, TypeOK
    <2>4. plists' \subseteq Ids /\ agents' \subseteq Ids /\ refused' \in Nat
      BY <1>6, <2>3 DEF ScheduleSteps, Schedule, WritePlist, Bootstrap, LoadAgent, CheckPlist,
         PlistKept, Bootout, RemovePlist, Allows, Refuses, TypeOK
    <2>5. UNCHANGED <<storeVars, lock, cmd, off, id, key, usedKeys, usedIds, histVars, cmds,
                      denied, crashes>>
      BY <1>6 DEF Schedule, WritePlist, Bootstrap, LoadAgent, CheckPlist, Bootout, RemovePlist
    <2> QED
      BY <2>2, <2>4, <2>5 DEF TypeOK
  <1>7. CASE Login
    BY <1>7 DEF Login, TypeOK
  <1>8. CASE UNCHANGED vars
    BY <1>8 DEF vars, TypeOK
  <1> QED
    BY <1>1, <1>2, <1>3, <1>4, <1>5, <1>6, <1>7, <1>8 DEF Next

-----------------------------------------------------------------------------
(* How the invariant of one process survives the steps of the others.      *)

Same(q) ==
    /\ pc'[q] = pc[q] /\ ret'[q] = ret[q] /\ cmd'[q] = cmd[q]
    /\ off'[q] = off[q] /\ id'[q] = id[q] /\ key'[q] = key[q]
    /\ lock = q => lock' = q

Grows ==
    /\ usedIds \subseteq usedIds'
    /\ usedKeys \subseteq usedKeys'
    /\ stored \subseteq stored'
    /\ idFile # NoId => idFile' # NoId
    /\ \A i \in Ids : keychain[i] # NoKey => keychain'[i] # NoKey
    /\ blind => blind'

(***************************************************************************)
(* Ids, keys and what the Keychain holds only ever grow, and only the      *)
(* keygen that has the lock stores a key.                                  *)
(***************************************************************************)
LEMMA Others ==
    ASSUME TypeOK, TypeOK', Disk, Disk', Grows, NEW q \in Procs, Process(q), Decided(q), Same(q),
           stored' = stored \/ At(q) \notin KeygenSteps
    PROVE  Process(q)' /\ Decided(q)'
  <1>1. At(q)' = At(q)
    BY DEF At, Same
  <1>2. Process(q)'
    <2>1. id[q] \in usedIds => id[q] \in Ids
      BY DEF TypeOK
    <2>2. pc[q] = "remove" => id[q] \in usedIds
      BY DEF Process, Named
    <2> QED
      BY <1>1, <2>1, <2>2 DEF Process, Same, Grows
  <1>3. ASSUME ~blind', OneId'
        PROVE  /\ ~blind /\ OneId
               /\ stored # {} => idFile' = idFile /\ idFile \in Ids
    BY <1>3 DEF OneId, Grows, Disk, TypeOK
  <1>4. Decided(q)'
    BY <1>1, <1>3 DEF Decided, Grows, KeygenSteps
  <1> QED
    BY <1>2, <1>4

LEMMA Combine ==
    ASSUME KInv, TypeOK', NEW p \in Procs, Disk', Grows,
           \A q \in Procs \ {p} : Same(q) /\ (stored' = stored \/ At(q) \notin KeygenSteps),
           Process(p)', Decided(p)', NoSecondKey', KeySafe'
    PROVE  KInv'
  <1>1. ASSUME NEW q \in Procs \ {p} PROVE Process(q)' /\ Decided(q)'
    BY Others DEF KInv
  <1> QED
    BY <1>1 DEF KInv

(***************************************************************************)
(* A step that leaves the stores and the history of keys and ids alone.    *)
(***************************************************************************)
LEMMA Quiet ==
    ASSUME KInv, TypeOK', NEW p \in Procs, UNCHANGED <<storeVars, usedIds, stored>>,
           usedKeys \subseteq usedKeys', blind => blind',
           \A q \in Procs \ {p} : Same(q), Process(p)', Decided(p)'
    PROVE  KInv'
  <1>1. Disk' /\ Grows
    BY DEF KInv, Disk, Grows, storeVars
  <1>2. NoSecondKey' /\ KeySafe'
    BY DEF KInv, NoSecondKey, KeySafe, Held, OneId, OneKey, storeVars
  <1> QED
    BY <1>1, <1>2, Combine

\* Two processes cannot both be in keygen.
LEMMA OneKeygen ==
    ASSUME KInv, NEW p \in Procs, NEW q \in Procs,
           At(p) \in KeygenSteps, At(q) \in KeygenSteps
    PROVE  p = q
  <1>1. ASSUME NEW r \in Procs, At(r) \in KeygenSteps PROVE lock = r
    BY <1>1 DEF KInv, Process, At, KeygenSteps, Locked
  <1> QED
    BY <1>1

-----------------------------------------------------------------------------
(* The steps.                                                              *)

LEMMA InitKInv == Init => KInv
  <1> SUFFICES ASSUME Init PROVE KInv
    OBVIOUS
  <1>1. TypeOK
    BY TypeInit
  <1>2. Disk /\ NoSecondKey /\ KeySafe
    BY DEF Init, Disk, NoSecondKey, KeySafe, OneKey
  <1>3. ASSUME NEW p \in Procs PROVE Process(p) /\ Decided(p)
    BY DEF Init, Process, Decided, At, Returns, Named, ScheduleSteps, KeygenSteps
  <1> QED
    BY <1>1, <1>2, <1>3 DEF KInv

LEMMA BeginStep ==
    ASSUME KInv, TypeOK', NEW p \in Procs, NEW c \in Commands, NEW o \in BOOLEAN,
           Begin(p, c, o)
    PROVE  KInv'
  <1>1. /\ UNCHANGED <<storeVars, usedIds, stored, usedKeys, blind, id, key>>
        /\ c \in Locked => lock = NoProc
        /\ lock' = IF c \in Locked THEN p ELSE lock
        /\ cmd' = [cmd EXCEPT ![p] = c]
        /\ off' = [off EXCEPT ![p] = o]
    BY DEF Begin
  <1>2. /\ pc' \in {[pc EXCEPT ![p] = "exists"], [pc EXCEPT ![p] = "id"], [pc EXCEPT ![p] = "file"]}
        /\ \/ ret' = ret
           \/ ret' = [ret EXCEPT ![p] = "done"] \/ ret' = [ret EXCEPT ![p] = "check"]
           \/ ret' = [ret EXCEPT ![p] = "get"]
    BY DEF Begin, CallGet, CallId, Goto
  <1>3. /\ pc'[p] = "exists" => c = "keygen"
        /\ pc'[p] = "id" => ret'[p] \in {"done", "check", "get"}
        /\ pc'[p] = "file" => o
    BY DEF Begin, CallGet, CallId, Goto, KInv, TypeOK
  <1>4. /\ cmd'[p] = c /\ off'[p] = o /\ pc'[p] \in {"exists", "id", "file"}
        /\ ret'[p] \in Returns
    BY <1>1, <1>2 DEF KInv, TypeOK, Process, Returns
  <1>5. \A q \in Procs \ {p} : Same(q)
    BY <1>1, <1>2, NoneAssumption DEF Same, KInv, TypeOK
  <1>6. Process(p)' /\ Decided(p)'
    BY <1>1, <1>3, <1>4 DEF Process, Decided, At, Named, ScheduleSteps, KeygenSteps
  <1> QED
    BY <1>1, <1>5, <1>6, Quiet

LEMMA LeaveStep ==
    ASSUME KInv, TypeOK', NEW p \in Procs, Exit(p) \/ Crash(p)
    PROVE  KInv'
  <1>1. /\ UNCHANGED <<storeVars, usedIds, stored, usedKeys, blind, ret, cmd, off, id, key>>
        /\ pc' = [pc EXCEPT ![p] = "idle"]
        /\ lock' = IF lock = p THEN NoProc ELSE lock
    BY DEF Exit, Crash, Leave, histVars
  <1>2. \A q \in Procs \ {p} : Same(q)
    BY <1>1 DEF Same, KInv, TypeOK
  <1>3. Process(p)' /\ Decided(p)'
    BY <1>1 DEF KInv, TypeOK, Process, Decided, At, Named, ScheduleSteps, KeygenSteps
  <1> QED
    BY <1>1, <1>2, <1>3, Quiet

\* The process goes on at l, or runs fabric_id() first.
LEMMA Control ==
    ASSUME TypeOK, NEW p \in Procs, NEW l, Goto(p, l) \/ (CallId(p, l) /\ l \notin {"id", "mint"}),
           UNCHANGED <<cmd, off, id, lock>>,
           \A q \in Procs \ {p} : key'[q] = key[q]
    PROVE  /\ \A q \in Procs \ {p} : Same(q)
           /\ pc'[p] = l \/ pc'[p] = "id"
           /\ pc'[p] = "id" => ret'[p] = l \/ l = "id"
           /\ l \notin {"id", "mint"} => At(p)' = l
  BY DEF TypeOK, Goto, CallId, Same, At

LEMMA IdReadStep ==
    ASSUME KInv, TypeOK', NEW p \in Procs, IdRead(p)
    PROVE  KInv'
  <1>1. /\ UNCHANGED <<storeVars, usedIds, stored, usedKeys, blind, ret, cmd, off, key, lock>>
        /\ pc[p] = "id" /\ idFile # NoId
        /\ pc' = [pc EXCEPT ![p] = ret[p]] /\ id' = [id EXCEPT ![p] = idFile]
    BY DEF IdRead, Keep, Goto
  <1>2. \A q \in Procs \ {p} : Same(q)
    BY <1>1 DEF Same, KInv, TypeOK
  <1>3. pc'[p] = ret[p] /\ ret[p] \in Returns /\ id'[p] = idFile /\ idFile \in usedIds
    BY <1>1 DEF KInv, TypeOK, Process, Disk
  <1>4. At(p)' = At(p) /\ pc'[p] \notin {"id", "mint", "idle", "file", "migrate", "remove"}
    BY <1>1, <1>3 DEF At, Returns
  <1>5. Process(p)' /\ Decided(p)'
    BY <1>1, <1>3, <1>4 DEF KInv, Process, Decided, OneId, storeVars
  <1> QED
    BY <1>1, <1>2, <1>5, Quiet

LEMMA IdDrawStep ==
    ASSUME KInv, TypeOK', NEW p \in Procs, IdDraw(p)
    PROVE  KInv'
  <1>1. PICK i \in Ids \ usedIds : id' = [id EXCEPT ![p] = i] /\ usedIds' = usedIds \cup {i}
    BY DEF IdDraw
  <1>2. /\ UNCHANGED <<storeVars, stored, usedKeys, blind, ret, cmd, off, key, lock>>
        /\ pc[p] = "id" /\ idFile = NoId
        /\ pc' = [pc EXCEPT ![p] = "mint"]
    BY DEF IdDraw, Keep, Goto
  <1>3. \A q \in Procs \ {p} : Same(q)
    BY <1>1, <1>2 DEF Same, KInv, TypeOK
  <1>4. pc'[p] = "mint" /\ id'[p] = i /\ At(p)' = At(p)
    BY <1>1, <1>2 DEF KInv, TypeOK, At
  <1>5. Disk' /\ Grows
    BY <1>1, <1>2 DEF KInv, Disk, Grows, storeVars
  <1>6. OneId' => OneId
    BY <1>1 DEF OneId
  <1>7. Process(p)' /\ Decided(p)'
    BY <1>1, <1>2, <1>4, <1>6 DEF KInv, Process, Decided, Named, ScheduleSteps, storeVars
  <1>8. NoSecondKey' /\ KeySafe'
    BY <1>2, <1>6 DEF KInv, NoSecondKey, KeySafe, Held, OneKey, storeVars
  <1> QED
    BY <1>2, <1>3, <1>5, <1>7, <1>8, Combine

\* Under one id, fabric_id() writes the file anew or writes what it holds.
LEMMA IdWriteStep ==
    ASSUME KInv, TypeOK', NEW p \in Procs, IdWrite(p)
    PROVE  KInv'
  <1>1. /\ UNCHANGED <<keychain, secret, usedIds, stored, usedKeys, blind, ret, cmd, off, id, key, lock>>
        /\ pc[p] = "mint" /\ idFile' = id[p]
        /\ pc' = [pc EXCEPT ![p] = ret[p]]
    BY DEF IdWrite, Keep, Goto
  <1>2. \A q \in Procs \ {p} : Same(q)
    BY <1>1 DEF Same, KInv, TypeOK
  <1>3. /\ pc'[p] = ret[p] /\ ret[p] \in Returns /\ id[p] \in usedIds
        /\ idFile' \in usedIds /\ idFile' # NoId
    BY <1>1, NoneAssumption DEF KInv, TypeOK, Process
  <1>4. At(p)' = At(p) /\ pc'[p] \notin {"id", "mint", "idle", "file", "migrate", "remove"}
    BY <1>1, <1>3 DEF At, Returns
  <1>5. Disk' /\ Grows
    BY <1>1, <1>3 DEF KInv, Disk, Grows
  <1>6. OneId => idFile = NoId \/ idFile' = idFile
    BY <1>3 DEF OneId, KInv, Disk
  <1>7. Process(p)'
    BY <1>1, <1>3, <1>4 DEF KInv, Process
  <1>8. Decided(p)'
    BY <1>1, <1>4, <1>6 DEF KInv, Decided, OneId, Disk
  <1>9. NoSecondKey' /\ KeySafe'
    BY <1>1, <1>6 DEF KInv, NoSecondKey, KeySafe, Held, OneKey, OneId, Disk
  <1> QED
    BY <1>1, <1>2, <1>5, <1>7, <1>8, <1>9, Combine

LEMMA ExistsFileStep ==
    ASSUME KInv, TypeOK', NEW p \in Procs, ExistsFile(p)
    PROVE  KInv'
  <1>1. /\ UNCHANGED <<storeVars, usedIds, stored, usedKeys, cmd, off, id, key, lock>>
        /\ pc[p] = "exists"
        /\ blind' = (blind \/ (secret = NoKey /\ off[p] /\ stored # {}))
    BY DEF ExistsFile, Keep
  <1>2. PICK l \in {"done", "generate", "lookup"} :
           /\ Goto(p, l) \/ CallId(p, l)
           /\ l = "done" => Goto(p, l)
           /\ l # "done" => CallId(p, l) /\ secret = NoKey
           /\ l = "generate" => off[p]
    BY DEF ExistsFile
  <1>3. /\ \A q \in Procs \ {p} : Same(q)
        /\ At(p)' = l /\ pc'[p] \in {"done", "id"} /\ ret'[p] \in Returns
    <2>1. TypeOK /\ ret[p] \in Returns
      BY DEF KInv, Process
    <2>2. (\A q \in Procs \ {p} : Same(q)) /\ At(p)' = l
      BY <1>1, <1>2, <2>1, Control
    <2>3. pc'[p] \in {"done", "id"} /\ ret'[p] \in Returns
      BY <1>2, <2>1 DEF Goto, CallId, TypeOK, Returns
    <2> QED
      BY <2>2, <2>3
  <1>4. cmd[p] = "keygen" /\ lock = p
    BY <1>1 DEF KInv, Process, At, KeygenSteps, Locked
  <1>5. Process(p)'
    BY <1>1, <1>2, <1>3, <1>4 DEF KInv, Process, Named, ScheduleSteps
  <1>6. ASSUME ~blind', OneId', l = "lookup", stored # {} PROVE keychain[idFile] # NoKey
    <2>1. OneKey /\ secret = NoKey
      BY <1>1, <1>2, <1>6 DEF KInv, NoSecondKey, OneId
    <2>2. PICK k \in stored : TRUE
      BY <1>6
    <2>3. Held(k) /\ k # NoKey
      BY <1>1, <1>6, <2>1, <2>2, NoneAssumption DEF KInv, KeySafe, OneId, TypeOK
    <2> QED
      BY <2>1, <2>3 DEF Held
  <1>7. Decided(p)'
    BY <1>1, <1>2, <1>3, <1>6 DEF Decided, storeVars
  <1> QED
    BY <1>1, <1>3, <1>5, <1>7, Quiet

LEMMA ExistsKeychainStep ==
    ASSUME KInv, TypeOK', NEW p \in Procs, ExistsKeychain(p)
    PROVE  KInv'
  <1>1. /\ UNCHANGED <<storeVars, usedIds, stored, usedKeys, cmd, off, id, key, lock>>
        /\ pc[p] = "lookup"
        /\ blind' = (blind \/ (denied' # denied /\ stored # {}))
    BY DEF ExistsKeychain, Keep
  <1>2. PICK l \in {"done", "generate"} :
           /\ Goto(p, l) \/ CallId(p, l)
           /\ l = "done" => Goto(p, l)
           /\ l = "generate" => CallId(p, l) /\ (keychain[id[p]] = NoKey \/ denied' # denied)
    BY DEF ExistsKeychain, Denies, KInv, TypeOK
  <1>3. /\ \A q \in Procs \ {p} : Same(q)
        /\ At(p)' = l /\ pc'[p] \in {"done", "id"} /\ ret'[p] \in Returns
    <2>1. TypeOK /\ ret[p] \in Returns
      BY DEF KInv, Process
    <2>2. (\A q \in Procs \ {p} : Same(q)) /\ At(p)' = l
      BY <1>1, <1>2, <2>1, Control
    <2>3. pc'[p] \in {"done", "id"} /\ ret'[p] \in Returns
      BY <1>2, <2>1 DEF Goto, CallId, TypeOK, Returns
    <2> QED
      BY <2>2, <2>3
  <1>4. cmd[p] = "keygen" /\ lock = p /\ id[p] \in usedIds /\ idFile \in usedIds
    BY <1>1 DEF KInv, Process, At, KeygenSteps, Locked, Named, Disk
  <1>5. Process(p)'
    BY <1>1, <1>2, <1>3, <1>4 DEF KInv, Process, Named, ScheduleSteps
  <1>6. ASSUME ~blind', OneId', l = "generate" PROVE stored = {}
    <2>1. id[p] = idFile
      BY <1>1, <1>4, <1>6 DEF OneId
    <2> QED
      BY <1>1, <1>2, <1>6, <2>1 DEF KInv, Decided, At, OneId
  <1>7. Decided(p)'
    BY <1>1, <1>2, <1>3, <1>6 DEF Decided
  <1> QED
    BY <1>1, <1>3, <1>5, <1>7, Quiet

LEMMA GenerateStep ==
    ASSUME KInv, TypeOK', NEW p \in Procs, Generate(p)
    PROVE  KInv'
  <1>1. /\ UNCHANGED <<storeVars, usedIds, stored, blind, cmd, off, id, lock>>
        /\ pc[p] = "generate"
    BY DEF Generate, Keep
  <1>2. PICK k \in Keys \ usedKeys : key' = [key EXCEPT ![p] = k] /\ usedKeys' = usedKeys \cup {k}
    BY DEF Generate
  <1>3. PICK l \in {"putfile", "put"} :
           /\ Goto(p, l) \/ CallId(p, l)
           /\ l = "putfile" => Goto(p, l)
           /\ l = "put" => CallId(p, l)
    BY DEF Generate
  <1>4. /\ \A q \in Procs \ {p} : Same(q)
        /\ At(p)' = l /\ pc'[p] \in {"putfile", "id"} /\ ret'[p] \in Returns
        /\ key'[p] \in usedKeys'
    <2>1. TypeOK /\ ret[p] \in Returns
      BY DEF KInv, Process
    <2>2. key'[p] = k /\ \A q \in Procs \ {p} : key'[q] = key[q]
      BY <1>2, <2>1 DEF TypeOK
    <2>3. (\A q \in Procs \ {p} : Same(q)) /\ At(p)' = l
      BY <1>1, <1>3, <2>1, <2>2, Control
    <2>4. pc'[p] \in {"putfile", "id"} /\ ret'[p] \in Returns
      BY <1>3, <2>1 DEF Goto, CallId, TypeOK, Returns
    <2> QED
      BY <1>2, <2>2, <2>3, <2>4
  <1>5. cmd[p] = "keygen" /\ lock = p /\ idFile # NoId
    BY <1>1 DEF KInv, Process, At, KeygenSteps, Locked
  <1>6. Process(p)'
    BY <1>1, <1>3, <1>4, <1>5 DEF Process, Named, ScheduleSteps, storeVars
  <1>7. Decided(p)'
    BY <1>1, <1>3, <1>4 DEF KInv, Decided, At, OneId
  <1> QED
    BY <1>1, <1>2, <1>4, <1>6, <1>7, Quiet

(***************************************************************************)
(* A key is put into the Keychain or into the file: the only step that     *)
(* adds to the keys stored.                                                *)
(***************************************************************************)
LEMMA PutStep ==
    ASSUME KInv, TypeOK', NEW p \in Procs, pc[p] \in {"put", "putfile"}, Goto(p, "done"),
           stored' = stored \cup {key[p]},
           \/ /\ pc[p] = "put" /\ secret' = secret
              /\ keychain' = [keychain EXCEPT ![id[p]] = key[p]]
           \/ secret' = key[p] /\ keychain' = keychain,
           UNCHANGED <<idFile, usedIds, usedKeys, blind, cmd, off, id, key, lock>>
    PROVE  KInv'
  <1>1. At(p) = pc[p] /\ At(p) \in KeygenSteps
    BY DEF At, KeygenSteps
  <1>2. /\ cmd[p] = "keygen" /\ idFile \in usedIds /\ key[p] \in Keys
        /\ key[p] # NoKey
    BY <1>1, NoneAssumption DEF KInv, Process, Named, Disk, TypeOK
  <1>3. \A q \in Procs \ {p} : Same(q) /\ At(q) \notin KeygenSteps
    BY <1>1, OneKeygen DEF Goto, Same, KInv, TypeOK
  <1>4. pc'[p] = "done" /\ ret' = ret
    BY DEF Goto, KInv, TypeOK
  <1>5. Disk' /\ Grows
    <2>1. \A i \in Ids : keychain'[i] = keychain[i] \/ keychain'[i] = key[p]
      BY DEF KInv, TypeOK
    <2>2. idFile' # NoId
      BY <1>2, NoneAssumption DEF KInv, TypeOK
    <2> QED
      BY <1>2, <2>1, <2>2 DEF KInv, Disk, Grows
  <1>6. Process(p)' /\ Decided(p)'
    BY <1>4 DEF KInv, Process, Decided, At, Named, ScheduleSteps, KeygenSteps
  <1>7. NoSecondKey'
    <2>1. ~blind /\ OneId => stored = {}
      BY <1>1 DEF KInv, Decided
    <2> QED
      BY <2>1 DEF NoSecondKey, OneKey, OneId
  <1>8. KeySafe'
    <2> SUFFICES ASSUME OneId', OneKey', NEW k \in stored' PROVE Held(k)'
      BY DEF KeySafe
    <2>1. k = key[p]
      BY DEF OneKey
    <2>2. pc[p] = "put" => id[p] = idFile
      BY <1>2 DEF KInv, Process, Named, OneId
    <2> QED
      BY <1>2, <2>1, <2>2 DEF Held, KInv, TypeOK
  <1> QED
    BY <1>3, <1>5, <1>6, <1>7, <1>8, Combine

LEMMA PutKeychainStep ==
    ASSUME KInv, TypeOK', NEW p \in Procs, PutKeychain(p)
    PROVE  KInv'
  <1>1. pc[p] = "put" /\ UNCHANGED <<secret, idFile, usedIds, usedKeys, blind, cmd, off, id, key, lock>>
    BY DEF PutKeychain, Keep
  <1>2. CASE /\ keychain' = [keychain EXCEPT ![id[p]] = key[p]]
             /\ stored' = stored \cup {key[p]} /\ Goto(p, "done")
    BY <1>1, <1>2, PutStep
  <1>3. CASE Goto(p, "putfile") /\ UNCHANGED <<keychain, stored>>
    <2>1. \A q \in Procs \ {p} : Same(q)
      BY <1>1, <1>3, Control DEF KInv
    <2>2. pc'[p] = "putfile" /\ ret' = ret /\ At(p)' = "putfile" /\ At(p) = "put"
      BY <1>1, <1>3 DEF Goto, KInv, TypeOK, At
    <2>3. Process(p)'
      BY <1>1, <1>3, <2>2 DEF KInv, Process, Named, ScheduleSteps, KeygenSteps
    <2>4. Decided(p)'
      BY <1>1, <1>3, <2>2 DEF KInv, Decided, OneId
    <2> QED
      BY <1>1, <1>3, <2>1, <2>3, <2>4, Quiet DEF storeVars
  <1> QED
    BY <1>2, <1>3 DEF PutKeychain

LEMMA PutFileStep ==
    ASSUME KInv, TypeOK', NEW p \in Procs, PutFile(p)
    PROVE  KInv'
  BY PutStep DEF PutFile, Keep

-----------------------------------------------------------------------------
(* keychain::get, with a key in hand: fabric_id() again, or the end.       *)

LEMMA LoadedControl ==
    ASSUME KInv, NEW p \in Procs, Loaded(p), UNCHANGED <<cmd, off, id, lock>>,
           \A q \in Procs \ {p} : key'[q] = key[q]
    PROVE  /\ \A q \in Procs \ {p} : Same(q)
           /\ pc'[p] \in {"done", "id"} /\ ret'[p] \in Returns
           /\ At(p)' \in {"done", "sign", "plist"}
           /\ At(p)' = "plist" => cmd[p] = "schedule"
  <1>1. PICK l \in {"done", "sign", "plist"} :
           /\ Goto(p, l) \/ CallId(p, l)
           /\ l = "done" => Goto(p, l)
           /\ l # "done" => CallId(p, l)
           /\ l = "plist" => cmd[p] = "schedule"
    BY DEF Loaded
  <1> QED
    BY <1>1, Control DEF KInv, TypeOK, Goto, CallId, Process, Returns

LEMMA GetKeychainStep ==
    ASSUME KInv, TypeOK', NEW p \in Procs, GetKeychain(p)
    PROVE  KInv'
  <1>1. /\ UNCHANGED <<storeVars, usedIds, stored, usedKeys, blind, cmd, off, id, lock>>
        /\ pc[p] = "get"
    BY DEF GetKeychain, Keep
  <1>2. PICK l \in {"remove", "file"} :
           /\ Goto(p, l)
           /\ l = "remove" => keychain[id[p]] # NoKey /\ key' = [key EXCEPT ![p] = keychain[id[p]]]
           /\ l = "file" => key' = key
    BY DEF GetKeychain
  <1>3. id[p] \in usedIds /\ id[p] \in Ids /\ idFile # NoId /\ ret[p] \in Returns
        /\ (cmd[p] \in Locked => lock = p)
    BY <1>1 DEF KInv, Process, Named, TypeOK
  <1>4. /\ \A q \in Procs \ {p} : Same(q)
        /\ pc'[p] = l /\ At(p)' = l /\ ret' = ret
        /\ l = "remove" => key'[p] \in stored
    <2>1. TypeOK /\ \A q \in Procs \ {p} : key'[q] = key[q]
      BY <1>2 DEF KInv, TypeOK
    <2>2. (\A q \in Procs \ {p} : Same(q)) /\ At(p)' = l
      BY <1>1, <1>2, <2>1, Control
    <2>3. pc'[p] = l /\ ret' = ret
      BY <1>2, <2>1 DEF Goto, TypeOK
    <2>4. l = "remove" => key'[p] = keychain[id[p]] /\ keychain[id[p]] # NoKey
      BY <1>2, <2>1 DEF TypeOK
    <2>5. keychain[id[p]] # NoKey => keychain[id[p]] \in stored
      BY <1>3 DEF KInv, Disk
    <2> QED
      BY <2>2, <2>3, <2>4, <2>5
  <1>5. Process(p)' /\ Decided(p)'
    BY <1>1, <1>2, <1>3, <1>4 DEF Process, Decided, KeygenSteps, storeVars
  <1> QED
    BY <1>1, <1>4, <1>5, Quiet

LEMMA ReadFileStep ==
    ASSUME KInv, TypeOK', NEW p \in Procs, ReadFile(p)
    PROVE  KInv'
  <1>1. /\ UNCHANGED <<storeVars, usedIds, stored, usedKeys, blind, cmd, off, id, lock>>
        /\ pc[p] = "file" /\ key' = [key EXCEPT ![p] = secret]
    BY DEF ReadFile, KeptOnRead, Keep, storeVars
  <1>2. ret[p] \in Returns /\ (cmd[p] \in Locked => lock = p) /\ key'[p] = secret
    BY <1>1 DEF KInv, Process, TypeOK
  <1>3. \A q \in Procs \ {p} : key'[q] = key[q]
    BY <1>1 DEF KInv, TypeOK
  <1>4. CASE secret = NoKey /\ Goto(p, "done")
    <2>1. /\ \A q \in Procs \ {p} : Same(q)
          /\ pc'[p] = "done" /\ At(p)' = "done" /\ ret' = ret
      BY <1>1, <1>3, <1>4, Control DEF KInv, TypeOK, Goto
    <2>2. Process(p)' /\ Decided(p)'
      BY <1>1, <1>2, <2>1 DEF Process, Decided, KeygenSteps, Named, ScheduleSteps
    <2> QED
      BY <1>1, <2>1, <2>2, Quiet
  <1>5. CASE secret # NoKey /\ Loaded(p)
    <2>1. /\ \A q \in Procs \ {p} : Same(q)
          /\ pc'[p] \in {"done", "id"} /\ ret'[p] \in Returns
          /\ At(p)' \in {"done", "sign", "plist"}
      BY <1>1, <1>3, <1>5, LoadedControl
    <2>2. key'[p] \in stored
      BY <1>2, <1>5 DEF KInv, Disk
    <2>3. Process(p)' /\ Decided(p)'
      BY <1>1, <1>2, <2>1, <2>2 DEF Process, Decided, KeygenSteps, Named, ScheduleSteps
    <2> QED
      BY <1>1, <2>1, <2>3, Quiet
  <1>6. CASE secret # NoKey /\ ~off[p] /\ Goto(p, "migrate")
    <2>1. /\ \A q \in Procs \ {p} : Same(q)
          /\ pc'[p] = "migrate" /\ At(p)' = "migrate" /\ ret' = ret
      BY <1>1, <1>3, <1>6, Control DEF KInv, TypeOK, Goto
    <2>2. key'[p] \in stored /\ id[p] \in usedIds /\ idFile # NoId
      BY <1>1, <1>2, <1>6 DEF KInv, Disk, Process
    <2>3. Process(p)' /\ Decided(p)'
      BY <1>1, <1>2, <2>1, <2>2 DEF Process, Decided, KeygenSteps, storeVars
    <2> QED
      BY <1>1, <2>1, <2>3, Quiet
  <1> QED
    BY <1>4, <1>5, <1>6 DEF ReadFile

LEMMA MigrateStep ==
    ASSUME KInv, TypeOK', NEW p \in Procs, Migrate(p)
    PROVE  KInv'
  <1>1. /\ UNCHANGED <<secret, idFile, usedIds, stored, usedKeys, blind, cmd, off, id, key, lock>>
        /\ pc[p] = "migrate"
    BY DEF Migrate, Keep
  <1>2. /\ ret[p] \in Returns /\ (cmd[p] \in Locked => lock = p)
        /\ key[p] \in stored /\ key[p] # NoKey
        /\ id[p] \in usedIds /\ id[p] \in Ids /\ idFile # NoId
    BY <1>1, NoneAssumption DEF KInv, Process, At, Named, TypeOK
  <1>3. CASE keychain' = keychain /\ Loaded(p)
    <2>1. /\ \A q \in Procs \ {p} : Same(q)
          /\ pc'[p] \in {"done", "id"} /\ ret'[p] \in Returns
          /\ At(p)' \in {"done", "sign", "plist"}
      BY <1>1, <1>3, LoadedControl
    <2>2. Process(p)' /\ Decided(p)'
      BY <1>1, <1>2, <2>1 DEF Process, Decided, KeygenSteps, Named, ScheduleSteps
    <2> QED
      BY <1>1, <1>3, <2>1, <2>2, Quiet DEF storeVars
  <1>4. CASE keychain' = [keychain EXCEPT ![id[p]] = key[p]] /\ Goto(p, "remove")
    <2>1. /\ \A q \in Procs \ {p} : Same(q)
          /\ pc'[p] = "remove" /\ At(p)' = "remove" /\ ret' = ret
      BY <1>1, <1>4, Control DEF KInv, TypeOK, Goto
    <2>2. \A i \in Ids : keychain'[i] = IF i = id[p] THEN key[p] ELSE keychain[i]
      BY <1>4 DEF KInv, TypeOK
    <2>3. Process(p)' /\ Decided(p)'
      BY <1>1, <1>2, <2>1, <2>2 DEF Process, Decided, KeygenSteps
    <2>4. Disk' /\ Grows
      BY <1>1, <1>2, <2>2 DEF KInv, Disk, Grows
    <2>5. NoSecondKey'
      BY <1>1 DEF KInv, NoSecondKey, OneId, OneKey
    <2>6. KeySafe'
      <3> SUFFICES ASSUME OneId, OneKey, NEW k \in stored PROVE Held(k)'
        BY <1>1 DEF KeySafe, OneId, OneKey
      <3>1. k = key[p] /\ idFile = id[p]
        BY <1>2 DEF OneKey, OneId, KInv, Disk
      <3> QED
        BY <1>1, <1>2, <2>2, <3>1 DEF Held
    <2> QED
      BY <1>1, <2>1, <2>3, <2>4, <2>5, <2>6, Combine
  <1> QED
    BY <1>3, <1>4 DEF Migrate, KeepsFile

\* The file goes: the Keychain has the one key under the one id.
LEMMA RemoveFileStep ==
    ASSUME KInv, TypeOK', NEW p \in Procs, RemoveFile(p)
    PROVE  KInv'
  <1>1. /\ UNCHANGED <<keychain, idFile, usedIds, stored, usedKeys, blind, cmd, off, id, key, lock>>
        /\ pc[p] = "remove" /\ secret' = NoKey /\ Loaded(p)
    BY DEF RemoveFile, Keep
  <1>2. /\ (cmd[p] \in Locked => lock = p) /\ key[p] \in stored
        /\ id[p] \in usedIds /\ id[p] \in Ids /\ idFile \in usedIds
        /\ keychain[id[p]] # NoKey /\ keychain[id[p]] \in stored
    BY <1>1 DEF KInv, Process, At, Named, TypeOK, Disk
  <1>3. /\ \A q \in Procs \ {p} : Same(q)
        /\ pc'[p] \in {"done", "id"} /\ ret'[p] \in Returns
        /\ At(p)' \in {"done", "sign", "plist"}
    BY <1>1, LoadedControl
  <1>4. Process(p)' /\ Decided(p)'
    BY <1>1, <1>2, <1>3 DEF Process, Decided, KeygenSteps, Named, ScheduleSteps
  <1>5. Disk' /\ Grows
    BY <1>1 DEF KInv, Disk, Grows
  <1>6. NoSecondKey'
    BY <1>1 DEF KInv, NoSecondKey, OneId, OneKey
  <1>7. KeySafe'
    <2> SUFFICES ASSUME OneId, OneKey, NEW k \in stored PROVE Held(k)'
      BY <1>1 DEF KeySafe, OneId, OneKey
    <2>1. k = keychain[id[p]] /\ idFile = id[p]
      BY <1>2 DEF OneKey, OneId
    <2> QED
      BY <1>1, <1>2, <2>1 DEF Held
  <1> QED
    BY <1>1, <1>3, <1>4, <1>5, <1>6, <1>7, Combine

LEMMA SignStep ==
    ASSUME KInv, TypeOK', NEW p \in Procs, Sign(p)
    PROVE  KInv'
  <1>1. /\ UNCHANGED <<storeVars, usedIds, stored, usedKeys, blind, cmd, off, id, key, lock>>
        /\ pc[p] = "sign" /\ Goto(p, "done")
    BY DEF Sign, Keep
  <1>2. /\ \A q \in Procs \ {p} : Same(q)
        /\ pc'[p] = "done" /\ At(p)' = "done" /\ ret' = ret
    BY <1>1, Control DEF KInv, TypeOK, Goto
  <1>3. Process(p)' /\ Decided(p)'
    BY <1>1, <1>2 DEF KInv, Process, Decided, KeygenSteps, Named, ScheduleSteps
  <1> QED
    BY <1>1, <1>2, <1>3, Quiet

LEMMA ScheduleStep ==
    ASSUME KInv, TypeOK', NEW p \in Procs, Schedule(p)
    PROVE  KInv'
  <1>1. /\ UNCHANGED <<storeVars, usedIds, stored, usedKeys, blind, cmd, off, id, key, lock>>
        /\ pc[p] \in ScheduleSteps
    BY DEF Schedule, WritePlist, Bootstrap, LoadAgent, CheckPlist, Bootout, RemovePlist, Keep,
       ScheduleSteps
  <1>2. PICK l \in ScheduleSteps \cup {"done"} : Goto(p, l)
    BY DEF Schedule, WritePlist, Bootstrap, LoadAgent, CheckPlist, Bootout, RemovePlist,
       ScheduleSteps
  <1>3. /\ \A q \in Procs \ {p} : Same(q)
        /\ pc'[p] = l /\ At(p)' = l /\ ret' = ret
    BY <1>1, <1>2, Control DEF KInv, TypeOK, Goto, ScheduleSteps
  <1>4. Process(p)' /\ Decided(p)'
    BY <1>1, <1>2, <1>3 DEF KInv, Process, Decided, KeygenSteps, Named, ScheduleSteps, storeVars
  <1> QED
    BY <1>1, <1>3, <1>4, Quiet

LEMMA StepKInv == KInv /\ [Next]_vars => KInv'
  <1> SUFFICES ASSUME KInv, [Next]_vars PROVE KInv'
    OBVIOUS
  <1>1. TypeOK'
    BY TypeStep DEF KInv
  <1>2. ASSUME NEW p \in Procs, NEW c \in Commands, NEW o \in BOOLEAN, Begin(p, c, o)
        PROVE  KInv'
    BY <1>1, <1>2, BeginStep
  <1>3. ASSUME NEW p \in Procs, Exit(p) \/ Crash(p) PROVE KInv'
    BY <1>1, <1>3, LeaveStep
  <1>4. ASSUME NEW p \in Procs, FabricId(p) PROVE KInv'
    BY <1>1, <1>4, IdReadStep, IdDrawStep, IdWriteStep DEF FabricId
  <1>5. ASSUME NEW p \in Procs, Keygen(p) PROVE KInv'
    BY <1>1, <1>5, ExistsFileStep, ExistsKeychainStep, GenerateStep, PutKeychainStep, PutFileStep
    DEF Keygen
  <1>6. ASSUME NEW p \in Procs, Load(p) \/ Sign(p) PROVE KInv'
    BY <1>1, <1>6, GetKeychainStep, ReadFileStep, MigrateStep, RemoveFileStep, SignStep DEF Load
  <1>7. ASSUME NEW p \in Procs, Schedule(p) PROVE KInv'
    BY <1>1, <1>7, ScheduleStep
  <1>8. CASE Login \/ UNCHANGED vars
    <2>1. UNCHANGED <<storeVars, lock, localVars, usedKeys, usedIds, histVars>>
      BY <1>8 DEF Login, vars
    <2> QED
      BY <1>1, <2>1 DEF KInv, Disk, Process, Decided, At, NoSecondKey, KeySafe, Held, OneId, OneKey,
         storeVars, localVars, histVars
  <1> QED
    BY <1>2, <1>3, <1>4, <1>5, <1>6, <1>7, <1>8 DEF Next

LEMMA KInvariant == Spec => []KInv
  BY InitKInv, StepKInv, PTL DEF Spec

(***************************************************************************)
(* The types, and "keygen refuses to overwrite" (keychain.rs 76-77): no    *)
(* second key is stored, whatever look-ups move the first one meanwhile    *)
(* and wherever they die, unless a keygen could not ask the Keychain or    *)
(* two ids were minted.                                                    *)
(***************************************************************************)
THEOREM KeyNotDoubled == Spec => [](TypeOK /\ NoSecondKey)
  <1>1. KInv => TypeOK /\ NoSecondKey
    BY DEF KInv
  <1> QED
    BY <1>1, KInvariant, PTL

(***************************************************************************)
(* get() and put() (keychain.rs 84-187): a key keygen reported as stored   *)
(* is in the file or in the Keychain under the id on disk, at every moment *)
(* of every migration, failure and death.                                  *)
(***************************************************************************)
THEOREM KeyNotLost == Spec => []KeySafe
  <1>1. KInv => KeySafe
    BY DEF KInv
  <1> QED
    BY <1>1, KInvariant, PTL

-----------------------------------------------------------------------------
(* The LaunchAgent.                                                        *)

(***************************************************************************)
(* A step of a process that does not talk to launchd.                      *)
(***************************************************************************)
LEMMA Elsewhere ==
    ASSUME KInv, LInv, NEW p \in Procs, UNCHANGED <<plists, agents, crossed, refused, cmd>>,
           pc[p] # "idle",
           pc'[p] \notin {"bootstrap", "load", "unplist"},
           At(p)' \in ScheduleSteps => cmd[p] \in Launchd,
           \A q \in Procs \ {p} : Same(q),
           usedIds \subseteq usedIds', idFile # NoId => idFile' # NoId
    PROVE  LInv'
  <1>1. Alone'
    BY DEF LInv, Alone, Talks, Same
  <1>2. Step(p)'
    BY DEF Step
  <1>3. ASSUME NEW q \in Procs \ {p} PROVE Step(q)'
    BY <1>3 DEF LInv, Step, At, Same
  <1>4. Plists'
    BY DEF LInv, Plists
  <1> QED
    BY <1>1, <1>2, <1>3, <1>4 DEF LInv

\* While nothing crossed, the other processes are at no call to launchd.
LEMMA OthersQuiet ==
    ASSUME LInv, ~crossed, NEW p \in Procs, At(p) \in ScheduleSteps
    PROVE  \A q \in Procs \ {p} : pc[q] \notin {"bootstrap", "load", "unplist"}
  <1>1. ASSUME NEW r \in Procs, At(r) \in ScheduleSteps PROVE pc[r] = "idle" \/ Talks(r)
    BY <1>1 DEF LInv, Step, Talks
  <1>2. ASSUME NEW q \in Procs \ {p}, pc[q] \in {"bootstrap", "load", "unplist"} PROVE FALSE
    <2>1. At(q) \in ScheduleSteps /\ pc[q] # "idle"
      BY <1>2 DEF At, ScheduleSteps
    <2>2. pc[p] # "idle"
      BY DEF At, ScheduleSteps
    <2> QED
      BY <1>1, <2>1, <2>2 DEF LInv, Alone
  <1> QED
    BY <1>2

LEMMA BeginAgent ==
    ASSUME KInv, LInv, NEW p \in Procs, NEW c \in Commands, NEW o \in BOOLEAN, Begin(p, c, o)
    PROVE  LInv'
  <1>1. /\ UNCHANGED <<storeVars, usedIds, agentVars, id, key, refused>>
        /\ pc[p] = "idle"
        /\ cmd' = [cmd EXCEPT ![p] = c]
        /\ crossed' = (crossed \/ (c \in Launchd /\ \E q \in Procs : pc[q] # "idle" /\ cmd[q] \in Launchd))
    BY DEF Begin
  <1>2. PICK l, m : pc' = [pc EXCEPT ![p] = l] /\ (ret' = ret \/ ret' = [ret EXCEPT ![p] = m])
                    /\ (l = "id" => ret' = [ret EXCEPT ![p] = m])
                    /\ l \in {"exists", "id", "file"} /\ m \in {"done", "check", "get"}
                    /\ (m = "check" => c = "unschedule")
    <2>1. CASE c = "unschedule"
      BY <2>1 DEF Begin, CallId
    <2>2. CASE c # "unschedule"
      BY <2>2 DEF Begin, CallGet, CallId, Goto
    <2> QED
      BY <2>1, <2>2
  <1>3. /\ pc'[p] = l /\ cmd'[p] = c /\ (l = "id" => ret'[p] = m)
        /\ \A q \in Procs \ {p} : pc'[q] = pc[q] /\ cmd'[q] = cmd[q] /\ ret'[q] = ret[q]
    BY <1>1, <1>2 DEF KInv, TypeOK
  <1>4. Alone'
    BY <1>1, <1>3 DEF LInv, Alone, Talks
  <1>5. Step(p)'
    BY <1>2, <1>3 DEF Step, At, ScheduleSteps, Launchd
  <1>6. ~crossed' => ~crossed
    BY <1>1
  <1>7. ASSUME NEW q \in Procs \ {p} PROVE Step(q)'
    BY <1>1, <1>3, <1>6, <1>7 DEF LInv, Step, At, agentVars
  <1>8. Plists'
    BY <1>1, <1>6 DEF LInv, Plists, storeVars, agentVars
  <1> QED
    BY <1>4, <1>5, <1>7, <1>8 DEF LInv

LEMMA LeaveAgent ==
    ASSUME KInv, LInv, NEW p \in Procs, Exit(p) \/ Crash(p)
    PROVE  LInv'
  <1>1. /\ UNCHANGED <<storeVars, usedIds, agentVars, ret, cmd, off, id, key, histVars, refused>>
        /\ pc[p] # "idle" /\ pc' = [pc EXCEPT ![p] = "idle"]
        /\ lock' = IF lock = p THEN NoProc ELSE lock
    BY DEF Exit, Crash, Leave
  <1>2. \A q \in Procs \ {p} : Same(q)
    BY <1>1 DEF Same, KInv, TypeOK
  <1>3. pc'[p] = "idle" /\ At(p)' = "idle"
    BY <1>1 DEF KInv, TypeOK, At
  <1> QED
    BY <1>1, <1>2, <1>3, Elsewhere DEF ScheduleSteps, storeVars, agentVars, histVars

\* fabric_id() returns to the call its caller was at.
LEMMA FabricIdAgent ==
    ASSUME KInv, LInv, NEW p \in Procs, FabricId(p)
    PROVE  LInv'
  <1>1. /\ UNCHANGED <<plists, agents, ret, cmd, off, key, lock, crossed, refused>>
        /\ pc[p] \in {"id", "mint"}
        /\ pc' = [pc EXCEPT ![p] = ret[p]] \/ pc' = [pc EXCEPT ![p] = "mint"]
        /\ usedIds \subseteq usedIds'
    BY DEF FabricId, IdRead, IdDraw, IdWrite, Goto, Keep, agentVars
  <1>2. ret[p] \in Returns /\ (pc[p] = "mint" => id[p] \in usedIds)
    BY DEF KInv, Process
  <1>3. \A q \in Procs \ {p} : id'[q] = id[q]
    BY DEF FabricId, IdRead, IdDraw, IdWrite, KInv, TypeOK
  <1>4. \A q \in Procs \ {p} : Same(q)
    BY <1>1, <1>3 DEF Same, KInv, TypeOK
  <1>5. pc'[p] \in Returns \cup {"mint"} /\ At(p)' = At(p)
    BY <1>1, <1>2 DEF KInv, TypeOK, At, Returns
  <1>6. idFile # NoId => idFile' # NoId
    BY <1>2, NoneAssumption DEF FabricId, IdRead, IdDraw, IdWrite, storeVars, KInv, TypeOK
  <1> QED
    BY <1>1, <1>4, <1>5, <1>6, Elsewhere DEF Returns, LInv, Step

LEMMA KeygenAgent ==
    ASSUME KInv, LInv, NEW p \in Procs, Keygen(p)
    PROVE  LInv'
  <1>1. /\ UNCHANGED <<idFile, usedIds, plists, agents, cmd, off, id, lock, crossed, refused>>
        /\ pc[p] \in KeygenSteps
    BY DEF Keygen, ExistsFile, ExistsKeychain, Generate, PutKeychain, PutFile, Keep, storeVars,
       agentVars, KeygenSteps
  <1>2. \A q \in Procs \ {p} : key'[q] = key[q]
    BY DEF Keygen, ExistsFile, ExistsKeychain, Generate, PutKeychain, PutFile, KInv, TypeOK
  <1>3. PICK l \in KeygenSteps \cup {"done"} : Goto(p, l) \/ CallId(p, l)
    BY DEF Keygen, ExistsFile, ExistsKeychain, Generate, PutKeychain, PutFile, KeygenSteps
  <1>4. /\ \A q \in Procs \ {p} : Same(q)
        /\ pc'[p] \in KeygenSteps \cup {"done", "id"}
        /\ At(p)' \in KeygenSteps \cup {"done"}
    BY <1>1, <1>2, <1>3, Control DEF KInv, KeygenSteps
  <1> QED
    BY <1>1, <1>4, Elsewhere DEF KeygenSteps, ScheduleSteps

LEMMA LoadAgentKept ==
    ASSUME KInv, LInv, NEW p \in Procs, Load(p) \/ Sign(p)
    PROVE  LInv'
  <1>1. /\ UNCHANGED <<idFile, usedIds, plists, agents, cmd, off, id, lock, crossed, refused>>
        /\ pc[p] \in {"get", "file", "migrate", "remove", "sign"}
    BY DEF Load, GetKeychain, ReadFile, Migrate, RemoveFile, Sign, Keep, storeVars, agentVars
  <1>2. \A q \in Procs \ {p} : key'[q] = key[q]
    BY DEF Load, GetKeychain, ReadFile, Migrate, RemoveFile, Sign, KInv, TypeOK
  <1>3. CASE Loaded(p)
    <2>1. /\ \A q \in Procs \ {p} : Same(q)
          /\ pc'[p] \in {"done", "id"}
          /\ At(p)' = "plist" => cmd[p] = "schedule"
          /\ At(p)' \in {"done", "sign", "plist"}
      BY <1>1, <1>2, <1>3, LoadedControl
    <2> QED
      BY <1>1, <2>1, Elsewhere DEF ScheduleSteps, Launchd
  <1>4. CASE \E l \in {"remove", "file", "migrate", "done"} : Goto(p, l)
    <2>1. PICK l \in {"remove", "file", "migrate", "done"} : Goto(p, l)
      BY <1>4
    <2>2. /\ \A q \in Procs \ {p} : Same(q)
          /\ pc'[p] \in {"remove", "file", "migrate", "done", "id"} /\ At(p)' = l
      BY <1>1, <1>2, <2>1, Control DEF KInv
    <2> QED
      BY <1>1, <2>2, Elsewhere DEF ScheduleSteps
  <1> QED
    BY <1>3, <1>4 DEF Load, GetKeychain, ReadFile, Migrate, KeepsFile, RemoveFile, Sign

(***************************************************************************)
(* install() and uninstall(), where no other one runs.                     *)
(***************************************************************************)
LEMMA ScheduleAgent ==
    ASSUME KInv, LInv, NEW p \in Procs, Schedule(p)
    PROVE  LInv'
  <1>1. /\ UNCHANGED <<idFile, usedIds, cmd, off, id, key, lock, crossed>>
        /\ pc[p] \in ScheduleSteps
    BY DEF Schedule, WritePlist, Bootstrap, LoadAgent, CheckPlist, Bootout, RemovePlist, Keep,
       ScheduleSteps, storeVars
  <1>2. PICK l \in {"bootstrap", "load", "bootout", "unplist", "done"} : Goto(p, l)
    BY DEF Schedule, WritePlist, Bootstrap, LoadAgent, CheckPlist, Bootout, RemovePlist
  <1>3. /\ \A q \in Procs \ {p} : Same(q)
        /\ pc'[p] = l /\ At(p)' = l /\ At(p) = pc[p] /\ pc[p] # "idle"
    BY <1>1, <1>2, Control DEF KInv, TypeOK, Goto, At, ScheduleSteps
  <1>4. cmd[p] \in Launchd /\ id[p] \in usedIds /\ idFile # NoId
    BY <1>1, <1>3 DEF KInv, LInv, Process, Step, Named
  <1>5. refused' = 0 => refused = 0 /\ Allows
    BY DEF KInv, TypeOK, Schedule, WritePlist, Bootstrap, LoadAgent, CheckPlist, Bootout,
       RemovePlist, Allows, Refuses
  <1>6. plists' \subseteq plists \cup {id[p]} /\ agents' \subseteq agents \cup {id[p]}
    BY DEF Schedule, WritePlist, Bootstrap, LoadAgent, CheckPlist, Bootout, RemovePlist,
       PlistKept, agentVars
  <1>7. ASSUME ~crossed, refused' = 0
        PROVE  /\ l \in {"bootstrap", "load"} => id[p] \in plists'
               /\ l = "unplist" => id[p] \notin agents'
               /\ agents' \subseteq plists'
    <2>1. /\ agents \subseteq plists
          /\ pc[p] \in {"bootstrap", "load"} => id[p] \in plists
          /\ pc[p] = "unplist" => id[p] \notin agents
      BY <1>5, <1>7 DEF LInv, Step, Plists
    <2>2. ~Refuses
      BY <1>5, <1>7 DEF Allows, Refuses, KInv, TypeOK
    <2>3. CASE WritePlist(p)
      BY <1>2, <1>3, <2>1, <2>3 DEF WritePlist, Goto, KInv, TypeOK
    <2>4. CASE Bootstrap(p)
      BY <1>2, <1>3, <2>1, <2>2, <2>4 DEF Bootstrap, Goto, KInv, TypeOK
    <2>5. CASE LoadAgent(p)
      BY <1>2, <1>3, <2>1, <2>2, <2>5 DEF LoadAgent, Goto, KInv, TypeOK
    <2>6. CASE CheckPlist(p)
      BY <1>2, <1>3, <2>1, <2>6 DEF CheckPlist, PlistKept, Goto, KInv, TypeOK
    <2>7. CASE Bootout(p)
      BY <1>2, <1>3, <2>1, <2>2, <2>7 DEF Bootout, Goto, KInv, TypeOK
    <2>8. CASE RemovePlist(p)
      BY <1>2, <1>3, <2>1, <2>8 DEF RemovePlist, Goto, KInv, TypeOK
    <2> QED
      BY <2>3, <2>4, <2>5, <2>6, <2>7, <2>8 DEF Schedule
  <1>8. Step(p)'
    BY <1>1, <1>3, <1>4, <1>7 DEF Step
  <1>9. ASSUME NEW q \in Procs \ {p} PROVE Step(q)'
    <2>1. At(q)' = At(q) /\ pc'[q] = pc[q] /\ cmd'[q] = cmd[q]
      BY <1>3, <1>9 DEF At, Same
    <2>2. ~crossed => pc[q] \notin {"bootstrap", "load", "unplist"}
      BY <1>1, <1>3, <1>9, OthersQuiet
    <2> QED
      BY <1>1, <1>9, <2>1, <2>2 DEF LInv, Step
  <1>10. Alone'
    BY <1>1, <1>3, <1>4 DEF LInv, Alone, Talks, Same
  <1>11. Plists'
    BY <1>1, <1>4, <1>6, <1>7 DEF LInv, Plists
  <1> QED
    BY <1>8, <1>9, <1>10, <1>11 DEF LInv

LEMMA StepLInv == KInv /\ LInv /\ [Next]_vars => LInv'
  <1> SUFFICES ASSUME KInv, LInv, [Next]_vars PROVE LInv'
    OBVIOUS
  <1>1. ASSUME NEW p \in Procs, NEW c \in Commands, NEW o \in BOOLEAN, Begin(p, c, o)
        PROVE  LInv'
    BY <1>1, BeginAgent
  <1>2. ASSUME NEW p \in Procs, Exit(p) \/ Crash(p) PROVE LInv'
    BY <1>2, LeaveAgent
  <1>3. ASSUME NEW p \in Procs, FabricId(p) \/ Keygen(p) PROVE LInv'
    BY <1>3, FabricIdAgent, KeygenAgent
  <1>4. ASSUME NEW p \in Procs, Load(p) \/ Sign(p) PROVE LInv'
    BY <1>4, LoadAgentKept
  <1>5. ASSUME NEW p \in Procs, Schedule(p) PROVE LInv'
    BY <1>5, ScheduleAgent
  <1>6. CASE Login
    <2>1. /\ UNCHANGED <<storeVars, plists, localVars, usedIds, histVars, refused>>
          /\ agents' = plists /\ \A p \in Procs : pc[p] = "idle"
      BY <1>6 DEF Login
    <2>2. Alone' /\ Plists'
      BY <2>1 DEF LInv, Alone, Talks, Plists, storeVars, localVars, histVars
    <2>3. ASSUME NEW p \in Procs PROVE Step(p)'
      BY <2>1, <2>3 DEF LInv, Step, At, localVars, histVars
    <2> QED
      BY <2>2, <2>3 DEF LInv
  <1>7. CASE UNCHANGED vars
    BY <1>7 DEF vars, LInv, Alone, Talks, Step, At, Plists, storeVars, agentVars, localVars, histVars
  <1> QED
    BY <1>1, <1>2, <1>3, <1>4, <1>5, <1>6, <1>7 DEF Next

(***************************************************************************)
(* install() and uninstall() (schedule.rs): as long as no two of them ran  *)
(* side by side, launchctl refused nothing and one id was minted, a loaded *)
(* agent has its plist and the label of the id on disk, wherever either    *)
(* command died.                                                           *)
(***************************************************************************)
THEOREM RunningAgentRemovable == Spec => []AgentRemovable
  <1>1. Init => LInv
    BY DEF Init, LInv, Alone, Talks, Step, At, Plists, ScheduleSteps
  <1>2. KInv /\ LInv => AgentRemovable
    <2> SUFFICES ASSUME KInv, LInv, ~crossed, refused = 0, OneId, NEW i \in agents
                 PROVE  i \in plists /\ i = idFile
      BY DEF AgentRemovable
    <2>1. i \in plists /\ i \in usedIds /\ idFile \in usedIds
      BY DEF KInv, Disk, LInv, Plists
    <2> QED
      BY <2>1 DEF OneId
  <1> QED
    BY <1>1, <1>2, KInvariant, StepLInv, PTL DEF Spec
=============================================================================
