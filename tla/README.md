# A verification project for respawn

respawn keeps content-addressed snapshots of a directory tree in `.respawn/`,
puts the tree back to one of them, erases paths from all of them, records what
it did in a hash-chained log, and replicates the snapshots between machines.
This directory holds TLA+ models of that program, the TLC configurations that
check them on small instances, and TLAPS proofs of what can be proved for every
instance. The reference is the code in `src/src/*.rs`; `PROJECT.json` maps
every definition to the lines it stands for.

To repeat the work: `tlc -config X.cfg M` for a run (module and configuration
are listed in `PROJECT.json`), `tlapm M.tla` for the eight `*Proofs` modules.

## The system

| part | state | operations | talks to |
|---|---|---|---|
| file capture (`snapshot.rs` `chunk_file_stable`) | attempt, stamp, blocks read | stamp, read, stamp again, retry, flag | the worktree other programs write |
| store (`store.rs`) | objects, manifests, HEAD | put, get, set_head by write-and-rename | every command |
| fabric lock (`store.rs`) | a flock on `.respawn/lock` | try_lock, released on exit or death | every mutating command but `init` |
| snapshot (`snapshot.rs`) | manifest under construction | walk, skip, capture, put_manifest, set_head | store, tombstones |
| drift (`drift.rs`) | none | compare tree and manifest | gate of revert, guard |
| revert (`revert.rs`) | files written so far | gate, write pass, removal pass, HEAD | store, drift, tombstones |
| surgical revert (`revert.rs`, `main.rs`) | none | replay the HEAD chain without an actor, apply, remove, snapshot | store, snapshot |
| guard (`guard.rs`) | its snapshot, the child | snapshot, spawn, wait, revert by policy | snapshot, revert |
| purge (`purge.rs`) | `purged.jsonl`, certificates | sweep chunks, tombstone, unlink, sign, verify | store, key, audit log |
| audit log (`audit.rs`) | `audit.jsonl` | record, verify, tip, tip_is_prefix | every command |
| anchors (`anchor.rs`) | anchor files, `last_anchor`, key | keygen, create, next, verify | audit log |
| sync (`sync.rs`) | connections, the pull in progress, `remotes/` | serve, pull | stores of two fabrics |
| fleet orders (`fleet.rs`) | `fleet.pub`, `fleet_seen` | trust, order, apply | sync, revert, audit log |
| secure channel (`secure.rs`, `serve_conn`) | key, Noise counters, the frame being read | selector, handshake, read and write frames, time out | the two ends of a pull |
| keychain (`keychain.rs`) | the key, in the Keychain or in `anchor.secret`; `fabric_id` | exists, put, get with its migration | Keychain, anchors, purge, fleet |
| anchor schedule (`schedule.rs`) | a plist, an agent of launchd | install, uninstall | launchctl, keychain |
| APFS view (`apfs.rs`) | a cut, a mount, a temp dir | create, delete_snapshot, drop | tmutil, mount_apfs, diskutil |
| admin re-execution (`admin.rs`) | owner of what root creates | prompt, privileged snap, chown | snapshot, APFS view |
| watch, chunker | see "What is not modelled" | | |

What is hard in it:

* **Writers nobody controls.** Editors, builds and the command under `guard`
  write the worktree while respawn reads it, checks it and writes it.
* **Death between two writes.** Commands change several files; each change is
  atomic or not on its own, and nothing spans them. The next command starts
  from what is on disk.
* **Steps without the lock.** `init` appends to the log without it; a server
  reads a store while its owner works on it; looking the signing key up moves
  it from the file into the Keychain, and `schedule` writes to launchd.
* **Services that refuse.** Keychain, launchctl, tmutil and mount calls fail in
  some sessions and not in others, and the code goes on another way.
* **Long conversations.** A pull is many requests against a store that changes
  between them, and it may stop anywhere. Fleet orders travel by any channel,
  so they come late, twice, or in another sequence.
* **Sharing.** Chunks are shared by paths, snapshots and contents, so erasing
  one path must neither leave its own nor take another's.

What makes each part correct is stated by the properties below; the list of
hazards, each at its line, is in `PROJECT.json`.

## The modules

| module | models | composed with |
|---|---|---|
| `Capture` | the capture of one file against concurrent writers, and the drift fast path | |
| `AuditLog` | the log, the lock, the anchors | |
| `History` | what the store promises: an append-only graph of snapshots and a HEAD | implemented by `Fabric` |
| `Fabric` | store, snapshot, drift, revert, guard, purge over one worktree | refines `History` |
| `Surgical` | `revert --actor` | |
| `Sync` | serve and pull between peers | |
| `Fleet` | trust, order, apply | extends `Sync` |
| `Rpc` | what a sync connection promises: answers to the requests, whole, in order, once | implemented by `Channel` |
| `Channel` | one connection: selector, handshake, plain and Noise frames, timeouts | refines `Rpc` |
| `KeyStore` | the signing key between Keychain and file, the fabric id, the anchor schedule | |
| `Frozen` | `snap --apfs`, under sudo and through the administrator prompt | |
| `CaptureProofs`, `AuditLogProofs`, `FabricProofs`, `SurgicalProofs`, `ChannelProofs`, `KeyStoreProofs`, `FrozenProofs` | theorems | extend their module |
| `SyncProofs` | theorems about `Sync`, and about `Fleet` from the same lemmas | extends `Fleet` |
| `MC*` | symmetry sets and concrete constants for TLC | extend their module |

### Capture

One file, a sequence of blocks with an mtime. The reader is
`chunk_file_stable`: `Walk` takes the entry's metadata, `Stamp`, `Open`,
`ReadBlock`, `EndOfFile` and `Restamp` are its calls, in order, and another
program may `Overwrite`, `Extend`, `Truncate`, `Replace` (rename over) or
`Unlink` the file between any two of them. `SameTick` says whether two writes
can carry the same mtime. Where the chunker cuts is left out.

### AuditLog

The file is a sequence of lines; a line is an entry, or text that does not
parse, which is UTF-8 (`Garbage`) or is not (`Cut`, a text that ends inside a
multibyte character), and `open` says that the last one lacks its line feed.
Text that lands on such a line is `Joined` to it. `record` is `ReadTail`,
`WriteText` (or `WritePart`, a partial write), `WriteFeed`. Its loop skips
lines that do not parse and stops at one that is not UTF-8 (`map_while` in
`audit.rs` 48): `EntriesRead` are the entries it gets to, `TailOf` continues the
last of them. Commands differ in what they do before `record` (`Mutate`, `Guard`,
`AnchorCreate`, `AnchorKeygen`, `InitAgain`); a guard waits at `"child"`, with
the lock held, until `ChildEnds`. `anchor::create` is `AnchorTip`, `AnchorMint`, `AnchorLink`, one
per file it reads or writes. `Crash` kills a process anywhere and frees its
lock. A hash is the list of entries it commits to. `VerifyOk`, `TipOf`,
`TipIsPrefix` and `LinkOk` are the readers.

### Fabric and History

`op` is the one command in flight (the lock, modelled in `AuditLog`, admits
one), `op.pc` its next step. `ScanPath`, `PutManifest`, `CreateSetHead` are a
snapshot; `RevertBegin` with its gate, `WriteFile`, `WriteFails`,
`RemoveFile`, `SwapHead` a revert; `Spawn`, `SpawnFails`, `ChildExit` a guard;
`PurgeBegin`, `SweepChunk`, `Tombstone`, `TombstoneFeed`, `UnlinkLive`, `Sign`
a purge. `Edit` is any other program at any moment, `Crash` the death of the
command. Paths are visited in order, chunks are deleted one at a time, and the
tombstone file has the same two-write line as the audit log; a purge that dies
in a short write of it leaves a line that never parses.

`ChunksOf` is an arbitrary function from contents to sets of chunks, so sharing
is covered. `Ignored` is constant: `.fabricignore` does not change during a
run. Modes, mtimes and directories are left out.

`History` is the abstract specification: `Commit` appends a snapshot whose
parent is the HEAD of that moment, `Checkout` moves HEAD to one that exists.
`Fabric` implements it with `snaps <- manifests` (run `fabric_revert`, theorem
`ImplementsHistory`).

### Surgical

The state is the HEAD chain, the worktree and the undo in flight. Where
`surgical_manifest` runs a loop with four maps, the module says what the maps
hold at its end: `Touched`, `ActorBytes`, `Candidates` (what `effective` could
hold), `FirstTouch` (what `pre` holds), `Resolve`. `UndoApply`, `UndoRemove`
and `UndoSnap` are the passes of the arm in `main.rs`. The reference the result
is compared with, `Replayed`, is defined without them: the newest change by
someone else decides. A pass is one step here; its insides, missing chunks and
tombstones are `Fabric`'s.

### Sync

Each node has a store (`mans`, `objs`, `head`), a lock, a server with its
count of connections and at most one pull (`sess`). One action per request of
`pull`: `AskHead`, `WalkStep`, `AskHave`, `FetchObject`, their ends and their
failures, then `Save`. The server's answer is evaluated on the peer's store at
that moment; between two requests the peer may `Snap`, `Revert`, `PurgeChunk`
or pull itself. `Fail` is a cut connection, a timeout, a bad answer, a cap
exceeded, or the death of the client. Since ids are hashes and received bytes
are hashed before they are stored, what an id stands for is global (`minted`).
Two history variables say what a store may lack: `left`, manifests a pull set
out for and did not get, and `owed`, chunks it was refused, cut off from, or
purged.

### Fleet

On top of `Sync`: the pinned key, `fleet_seen`, the orders minted so far, and
the apply each node runs (`job`). An order, once minted, can be presented to
any node at any time and any number of times. `ApplyHere` and `ApplyFrom` are
the checks (the latter opens a pull), then `ApplyFiles`, `ApplyHead`,
`ApplyTruncate`, `ApplySeen`: `fs::write` is two steps, since it empties the
file first. Files that are right already are not written, so an apply may
succeed although chunks of its target are missing (`MustRead`). `Die` stops an
apply anywhere. Whether two nodes have the same
fabric id is chosen in `FleetInit`; a clone of `.respawn` has its original's.

### Channel and Rpc

`Sync` takes a request and its answer for one step; `Channel` is what lies
under that step. A TCP stream is a queue of the pieces a single read takes off
it, with room for a few, so that a writer can block. `ClientHello`,
`SniffSelector`, `ReadMode`, `SniffPlain` and `Handshake` are the start of
`pull` and `serve_conn`; `Ask`, `Respond`, `ReadHead`, `ReadPart`, `ReadPlain`,
`Deliver` are `write_frame` and `read_frame` of both transports. A payload is a
sequence of units, cut into Noise messages of `MsgCap` (`PLAINTEXT_MSG`); a
message decrypts under the key and the counter it was written with and no
other. `Timeout` needs a blocked read or write, and records whether the other
end was blocked too. `Kill`, `Hang` and `Break` are the faults; `Break`
delivers any part of what was in flight.

`Rpc` is the abstract specification: a request is asked, answered once, and its
answer is taken whole and in order. `Channel` implements it (run `channel`).

### KeyStore

Two processes run `keygen`, a signing command, `pubkey`, `verify`, `schedule`
and its `--uninstall`, with and without the Keychain. One action per call that
touches shared state: `IdRead`, `IdDraw`, `IdWrite` are `fabric_id`;
`ExistsFile`, `ExistsKeychain`, `Generate`, `PutKeychain`, `PutFile` are
`keygen`; `GetKeychain`, `ReadFile`, `Migrate`, `RemoveFile` are
`keychain::get`; `WritePlist` to `RemovePlist` are `schedule.rs`. Commands of
the lock's arms take it, the others interleave freely. Any Keychain call may
fail (`Denies`), any launchctl call may be refused (`Refuses`), any process may
die. `Login` is launchd loading what has a plist.

### Frozen

Commands `snap` plainly, with `--apfs`, under sudo, or with `--ask-admin`, while
`Edit`, `TimeMachine` and `Thin` go on. `Cut` to `View` are `apfs::create` with
its clean-ups and its early returns (`EarlyReturn`), `Read` and `Commit` the
snapshot over the frozen or the live tree, `Unmount`, `RemoveDir`,
`DeleteSnapshot` the drop of the view, `Chown` the end of the privileged shell.
Of ownership, the model keeps whether root owns the lock file and the fan-out
directories.

## What the runs show

Passing runs:

| run | properties | what could have gone wrong |
|---|---|---|
| `capture` | `StableIsExact`, `FastPathSound`, `FlaggedWasBusy` | a mixture of two versions recorded as one; drift trusting metadata of another version; giving up on a file nobody was writing |
| `audit_log` | `LockExcludes`, `LogIntact`, `DamageBounded`, `AnchorsHold`, `LinksPaid`, `LockReleased` | two writers forking the chain; an entry after a damaged line that does not continue the last entry `record` can read, or an anchor over a chain with a gap; an anchor invalidated by later appends; broken links without a crash to explain them; a dead holder wedging the fabric |
| `fabric_purge` | `Restorable`, `ErasureComplete`, `PurgedStaysDead` | a purge taking chunks another path or an older snapshot needs, or leaving some; a later command bringing the purged file back |
| `fabric_revert` | `HistoryClosed`, `RevertExact`, `GateProtects`, `HistorySpec`, `GuardUndoes`, `CommandEnds` | HEAD or a parent naming a manifest that is not there after a crash; a revert that reports success and left a file wrong; the gate passing over unsaved work; a guarded command's changes surviving its revert; a command that waits for a chunk that never comes |
| `sync` | `RefsMinted`, `GapsAccounted`, `ChunksAccounted`, `ConnsCounted`, `PullEnds`, `ServerRecovers` | a walk that leaves a hole or asks for what does not exist; a chunk that is missing and that no pull was ever denied; a leak in the count of connections; peers waiting for one another; a server full for ever |
| `fleet` | `MonotoneApply`, `FleetConverges` | an older order landing after a newer one; nodes that took the same orders in different sequences ending apart |
| `fleet_pull` | `PinnedOnly`, `ApplySettles` | an order of another key or for another fabric moving HEAD; an apply that fails or dies keeping the lock, or raising `fleet_seen` past the orders that landed, so that a retry is refused |
| `surgical` | `ActorGone`, `OthersKept`, `UndoIsReplay` | the actor's bytes coming back through someone else's snapshot or an earlier undo; an undo touching paths the actor never did, also after a death between its passes |
| `channel` | `NoDowngrade`, `FailsForCause`, `RpcSpec`, `SessionEnds` | an end with a passphrase talking plainly, or served without one; an answer in part, twice, or to another request after a break; both ends waiting for one another; a thread or a pull that stays for ever beside a peer that hangs |
| `keystore` | `NoSecondKey`, `KeySafe`, `AgentRemovable` | a second key while the first is on its way between file and Keychain; the only key lost by a death or a failing call; an agent that runs and cannot be uninstalled |
| `frozen` | `PointInTime`, `CleanExit` | reading Time Machine's cut, or the live tree, instead of the own cut; a cut, a mount or a temp dir left behind, or somebody else's cut deleted; files of root left in the fabric |

Every property has a mutant in `PROJECT.json`: a changed definition, of the
kind a plausible slip in the code would make, under which TLC finds it
violated. The type invariant of every module is part of the invariants proved
below.

One run is expected to fail. It checks a sentence of the repository that the
code does not keep to; `findings` in `PROJECT.json` quotes it. In
`purge_rename`, snapshotting a copy puts purged chunks back, and the
certificate still verifies.

The passing properties carry conditions (`~torn`, `died[n] = 0`, "where others
never deleted the path", ...). That these are needed is shown by further
counterexamples, kept beside the runs: each module ends with the sentence as a
property, and the configuration named here makes TLC refute it. Where the
configuration is that of a run, put the property in place of the run's own.

| configuration | property | what the code does |
|---|---|---|
| `CaptureSameTick` | `StableIsExact` | two writes in one tick of the clock: a torn capture is not flagged |
| `CaptureVanish` | `NeverAborts` | a file deleted after it was listed aborts the snapshot |
| `AuditInitFork` | `NeverForked` | `init` appends without the lock and forks the chain of a running command |
| `AuditTornAnchor` | `AnchorsAlwaysHold` | an anchor over an entry without its line feed stops verifying at the next append |
| `AuditTornChar` | `AlwaysResumes` | an entry cut inside a multibyte character: `record` never reads past that line, so every later entry repeats the same `seq` and `prev` |
| `AuditForkAnchor` | `TipRejectsCorrupt` | after a fork, `anchor create` signs a log that `verify` rejects |
| `AuditAnchorLink` | `SeriesLinks` | a death before `last_anchor` breaks the links of an untouched series |
| `PurgeOrder` | `SweptIsTombstoned` | a death between chunks and tombstone: neither restorable nor marked |
| `PurgeNoKey` | `TombstoneCertified` | everything is destroyed before the key is found missing |
| `PurgeOrphan` | `ContentErased` | chunks of a dead snapshot escape the purge |
| `PurgeSecond` | `AlreadyErased` | a second path with the content of a purged one is refused as purged already and keeps its chunks |
| `RevertIgnored` | `GateProtectsAll` | the removal pass deletes ignored files, which gate and snapshot skip |
| `GuardIgnored` | `GuardRestoresPreState` | guard's revert deletes ignored files the command found |
| `PullRetry` | `PullCompletes` | a repeated pull takes a manifest left by an interrupted one for complete |
| `FleetReplay` | `ReplayRefused` | a death before `fleet_seen` is written lets an older order in |
| `FleetTwice` | `ReplayIsNoOp` | the last order applied is accepted again |
| `FleetFrom` | `TargetPulled` | `--from` fetches the peer's HEAD chain, not the target |
| `SurgicalDeletion` | `DeletionKept` | someone else's deletion is undone too |
| `SurgicalCapture` | `OwnWorkKept` | what the actor's snapshot merely captured counts as the actor's |
| `KeyStore` | `KeygenRefuses` | a keygen that cannot reach the Keychain makes a second key |
| `KeyStore` | `KeychainWins` (a PROPERTY) | after that, the key in the file overwrites the one in the Keychain |
| `KeyStore` | `MissMeansNone` (a PROPERTY) | a look-up that reads the Keychain before and the file after another one's migration finds neither |
| `KeyStore` | `AnchorsBelong` | two readers mint an id each; what one signs is bound to an id that is gone |
| `KeyStore` | `AgentsHavePlists` | a refused unload, or a refused load of an agent that runs, leaves it without its plist |
| `Channel` | `IdleOnlyInHello` | the timeout of the handshake stays armed and drops idle clients later too |
| `Frozen` | `NoPoison` | a privileged snap that fails leaves the lock file to root: `&&` skips the chown |
| `Frozen` | `TagKept` | `--ask-admin` drops `--actor` |

### Bounds

Every bound is a constant named `Max...` and stands in a guard.

* `Capture`: two block values, files of up to two blocks, four writes, so that
  each of the four attempts can be disturbed.
* `AuditLog`: two processes, commands that start from up to three lines, two
  anchors, one `init`, two crashes: a tear, a repair over it and a second tear,
  with anchors before and after; or a tear inside a character and two entries
  below it.
* `Fabric`: two contents that share a chunk, two paths (one of them ignored in
  `fabric_revert`), two snapshots, two edits, one crash. Two snapshots and two
  paths are what it takes for a chunk to be needed by another path, by an
  older manifest and by neither.
* `Surgical`: two paths, two contents, two actors and four snapshots: a touch,
  its capture by someone else, an undo, and another snapshot or undo over it.
* `Sync`: three nodes, so that one pulls from another whose own pull was cut
  short; two snapshots, so that a chain has a part that is missing; two pulls,
  one of which may fail, and a purge of a chunk, which falls between HAVE and
  GET. `MaxConns` is 1 and reached; the code's 64 connections and 500 000
  hashes to a request are the same control.
* `Fleet`: two nodes, two orders, two seconds for the sequences; one order with
  a pull, an edit, a failure and a death for the failure paths.
* `Channel`: every pair out of two passphrases and none, three requests, frames
  of none, one and two Noise messages and one over the limit, streams that hold
  two pieces: fewer than a frame needs, so that writers block.
* `KeyStore`: two processes, four commands, two keys and two ids, one Keychain
  call that fails, one launchctl call refused, one death: a keygen, a migration
  that is interrupted, and two more commands over what it left.
* `Frozen`: two commands, two files with two contents, two cuts, so that one of
  them can be somebody else's.

Runs do not check for deadlock: a fabric at rest, or one whose bounds are used
up, may stop. That commands do not hang is stated by the liveness properties.

### Fairness

* `AuditLog`: weak fairness of each process's own next step. The calls of a
  command to its files, to a peer (behind the socket timeouts), to the Keychain
  and to the tools of `--apfs` are taken to return. The child of a guard is not:
  a guard holds the lock as long as its child runs, by design (`guard.rs` 6-8),
  so `ChildEnds` is not fair and `LockReleased` speaks of a holder that is not
  waiting for a child. The lock file is closed on exec, so the child of a guard
  that was killed does not keep it.
* `Fabric`: weak fairness of the command's next step, not of edits, crashes,
  or the end of a guarded child, which may run for ever (`CommandEnds` leaves
  that state out).
* `Sync`: weak fairness of each client's next request and of a server thread
  whose client is gone. Both sides set read and write timeouts, so a request is
  answered or fails; `Fail` itself is not assumed to happen.
* `Channel`: weak fairness of each end. An end that has not hung takes the steps
  it can, and a blocked read or write ends by the timeout `pull` and
  `serve_conn` set on their socket. The other end may hang or die at any moment;
  while it runs it speaks the protocol, and a client asks at most `MaxReqs`
  times. A client that never stops asking, or trickles bytes just in time, is
  not covered: the code has no limit on the length of a session.

## What is proved

The theorems hold for every value of the constants: any sets of paths,
contents, chunks, processes and nodes, any chunking, any number of steps. The
assumptions are the `ASSUME`s of the modules (sentinels are distinct, bounds
are natural numbers, `Nodes` is finite), and in `CaptureProofs` that every
write moves the mtime, without which `CaptureSameTick.cfg` shows a
counterexample.

* `CaptureProofs`: `StableCaptureIsExact`, `FastPathIsSound`,
  `RetriesAreBounded`. The invariant `CInv` says that stamps lie in the past
  (`StampsInPast`), that while the path still carries the attempt's stamp the
  blocks read are a beginning of the file (`ReadMatches`), and that each
  attempt after the first was caused by a write (`AttemptsPaid`). Exactness
  alone is not inductive: it says nothing of a read half done.
* `AuditLogProofs`: `LockProtectsLog`, `LogStaysIntact`, `AnchorsStayValid`,
  `DamageStaysBounded`, `GapsPaidByCrashes`. `AInv` adds that only the holder is in
  a command (`OnlyHolder`), that at most one process is inside record
  (`OneRecorder`), and, for a log nobody damaged, that the tail a process holds
  in memory still continues the file and that the checkpoint it is about to
  sign still is one (`Healthy`). Damage needs an invariant of its own, since
  `Healthy` says nothing of a torn log: `ChainInv`, that each entry follows
  the last one before it that `record` reads (above the first line that is not
  UTF-8, the nearest one that parses) and that the recorder's tail follows the
  last one it reads; and `SoundInv`, that file, tails, checkpoints and
  anchors all commit to entries numbered from the start, also after overlapping
  records. For the links, `Paid` counts the crash that is owed while an anchor
  is on disk and `last_anchor` is not.
* `FabricProofs`: `GraphStaysClosed`, `ImplementsHistory`,
  `SnapshotsRestorable`, `RevertsAreExact`, `PurgedStaysPurged`,
  `ErasureIsComplete`, `GateKeepsWork`, `GuardGivesBack`. Each has its own
  strengthening over `TInv` (types, a closed graph, and what the command in
  flight refers to): for restorability, that the chunks of the files scanned so
  far are stored and that the sweep list of a purge holds no chunk referenced
  elsewhere; for exactness, that paths written and not raced are right already;
  for purges, that an allowed manifest stays allowed while it is applied; for
  erasure, that the chunks still to be found are on the sweep list
  (`PurgeLeft`); for the gate, that each path a pass has still ahead of it is
  as HEAD has it or was written since (`GateHeld`); for the guard, that its
  snapshot holds what the command found from the first scan on (`GuardHeld`).
* `SyncProofs`, over `Sync`: `ReferencesMinted`, `GapsAreAccounted`,
  `ChunksAreAccounted`, `ConnectionsCounted`. `IInv` adds the shape of a session
  at each step (`Shape`): lists are empty outside their phase, the head asked
  for is in the store after the walk, and a free lock means no pull. Without
  it, a purge could delete under a pull of the same node, and `Save` could write
  a head the node does not have.
* `SyncProofs`, over `Fleet`: `FleetKeepsStores` (the three of `Sync` hold with
  applies on top), `AppliesSettle`, `OnlyPinnedLand`, `OrdersLandInOrder`,
  `FleetAgrees`. Every step of `Sync` inside `Fleet` is a step of `Sync`, so its
  lemmas are used as they are. `FleetInv` adds what an apply knows of its order
  (`Applying`: accepted by a pin that cannot change under the lock, no older
  than the `fleet_seen` it read, its target in the store when HEAD is moved)
  and what is true of the orders that landed (`Landing`). The point is the
  window between HEAD and `fleet_seen`, in which `fleet_seen` says nothing:
  outside it, and where no apply died in it, it is the timestamp of the last
  order, which is the largest. `FleetAgrees` follows from that alone.
* `SurgicalProofs`: `UndoKeepsOthers`, `UndoRemovesActor`, `UndoReplaysOthers`.
  The invariant `SInv` says that manifest and touched set of an undo in flight
  are those of the chain as it stands (`Halfway`) and what the passes so far
  have made of the worktree (`Passes`). The work is in the lemma
  `ResolveIsReplay`, that the newest candidate of `surgical_manifest` is the
  newest change of the replay, by well-founded minima instead of induction.
* `ChannelProofs`: `NeverDowngraded`, `SessionFailsForCause`, `ImplementsRpc`.
  `CInv` says that what an end has written
  and has still to write are pieces of its own kind and key (`Streams`), that
  an end with a passphrase is secure once it knows what the other one speaks
  (`Stage`), that the first piece a server sees of a client with a passphrase is
  the selector, also when the connection breaks (`Opening`), and that the server
  has spoken only to a client that matches (`Matched`). Without `Opening` a
  break could turn a handshake into something a plain server takes for a
  length. The other two need to know what is in flight (`SessionInv`): of what
  an end sent last, its peer has read the first `r` pieces, the rest is on the
  wire and still to be written in order, and all of it as long as nothing is
  broken or closed (`Flow`); the counters, the units announced and the payload
  read so far are those of that frame after `r` pieces (`Within`); and at most
  one of a hello, a request and its answer is under way (`ToServer`, `ToClient`,
  `Counts`). So every piece is the one its reader expects and the last one
  completes the payload (`FrameRead`), and in no state do both ends wait for one
  another, however little room the streams have (`NoDeadlock`).
* `KeyStoreProofs`: `KeyNotDoubled`, `KeyNotLost`, `RunningAgentRemovable`.
  `KInv` says what each process knows at each call (`Process`: the id it uses is
  on disk, the key it moves was stored, the file is emptied only when the
  Keychain has a key under its id) and that between keygen's look at the file
  and its look at the Keychain a key that exists is in the Keychain already
  (`Decided`), which is why the order of `exists` matters. `LInv` does the same
  for install and uninstall.
* `FrozenProofs`: `SnapshotIsOneInstant`, `ExitsAreClean`. `FInv` says for each
  command what it has made and not yet taken back at each step (`Stage`,
  `Held`), that what it has read is a beginning of its own cut (`Taken`), and
  that no two commands have the same cut (`Apart`).

Only model-checked: the liveness properties (`LockReleased`, `CommandEnds`,
`PullEnds`, `ServerRecovers`, `SessionEnds`), since liveness under fairness and
ENABLED are out of this prover's reach. Nothing here needs induction over data, which this prover cannot do
either, and no module uses a RECURSIVE operator; `Sync!Ancestry` is a recursive
function that only TLC evaluates.

## What is not modelled

* Bytes: compression, JSON, hex, frame layout, file modes, symlinks, and the
  confinement of paths (`resolve_dest`). Hashes and signatures are taken as
  perfect; damaged bytes on disk are not considered, except unfinished lines.
* The cryptography of the channel (`snow`) and of signatures: keys are compared.
* The text of plists, scripts, mount tables and tool output, and the checks of
  paths around them (`schedule::plan`, `apfs::volume_of`, `sh_quote`).
* Systems other than macOS in `KeyStore` and `Frozen`: there the key is always
  in the file, as in a session without the Keychain, and `--apfs`, `--ask-admin`
  and `schedule` refuse.
* `watch.rs`: prints events and keeps no state of the fabric.
* `cdc.rs`: chunk boundaries come from a library; the models use only that they
  are a function of the content.
* A panic in a thread of the server, which would skip `fetch_sub` (`sync.rs`
  217) and keep its place in the count of connections.
* Discovery beacons, printing, `log`, `diff`, `status`.
* The names `anchor next` gives, and a `fleet.pub` torn by a crash.
* Interactions across modules: `Fabric` has no pulls, so its `HistoryClosed`
  is about stores no interrupted pull has written to, for which `Sync`'s
  `GapsAccounted` says what may be missing; a pulled chunk meeting a local
  tombstone is not covered by either.

## Plan

Done: `Capture`, `AuditLog`, `History` and `Fabric`, `Sync`, `Fleet`,
`Surgical`, `KeyStore`, `Rpc` and `Channel`, `Frozen`, in that order, with a proof
of every safety property the runs check.

Next:

1. Pulls into a fabric with tombstones: compose purge and pull, and state what
   a purged path may become after a pull from a peer that still has it.
