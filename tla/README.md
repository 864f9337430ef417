# Formal models of the Task Management sync core

TLA+ models, TLC runs and TLAPS proofs for the part of this repository that
must not lose or mix up a user's data: the local-first store of
`packages/core`, its save queue, the merge that decides between two versions
of an entity, the sync cycle that exchanges documents with a remote, the
controller that decides when a cycle runs, the lease that keeps two clients from
changing the remote at once, and the transitions that seal the remote or open it
again.

The reference is the code, at the lines `PROJECT.json` maps each definition
to; ADRs, comments and tests are quoted only for what they *promise*. Where the
code and a promise disagree, the disagreement is listed under
[Disagreements](#disagreements-between-code-and-documents).

## 1. The system and its components

The repository is a GTD task manager: a TypeScript monorepo with a shared core
(`packages/core`), a desktop app (Tauri), a mobile app (Expo), a self-hosted
sync server (`apps/cloud`) and an MCP server. Every device holds the whole
document, in memory and in a local database. Users edit offline; a device
now and then reads the remote document, merges it with its own and writes the
result back. Nothing coordinates the devices except conditional requests and,
on some backends, a lease file.

```
  user ──edit──▶ store (in memory) ──snapshots──▶ save queue ──▶ local database
    │               ▲      │ snapshot, change stamp                 ▲   │
    │   fetchData / │      ▼                                        │   │
    │  finalizeSuccess └── sync cycle (SharedSyncRun, performSyncCycle)◀──┘
    │                      ▲   │ merge = arbitration, entity by entity
    └─trigger─▶ automatic ─┘   ▼
                sync        remote document + mutation fence (lease file)
                               ▲
  settings ──▶ encryption transition (key, state, artifact by artifact)
```

### Modelled components

**Entity arbitration** (`sync.ts`, `sync-revision.ts`, `sync-signatures.ts`).
No state: two versions and a clock in, one version out. Hard because three
orders are mixed (revision, clamped time, content signature), with a window in
which delete-versus-live changes from one to another. Correct when both sides
keep the same version, and when a version that is dominated in every order the
code knows does not win.

**Entity replicas** (`store-tasks.ts`, `backup-transfer.ts`, `sync.ts`).
State: each device's version of an entity, the remote's version, a backup
file, a clock per device. Operations: update, delete, restore, restore of a
backup, sync. Hard because clocks drift, syncs come in any order and the winner
relation is not obviously transitive. Correct when copies converge, when a
write is not undone by the version it was made from, and when a restored
backup is authoritative over older deletions.

**Snapshot sync cycle** (`sync.ts`, `sync-run.ts`, `sync-client-helpers.ts`,
`sync-backend-io.ts`, the two `sync-service.ts`, and of the storage what a save
does: `storage-adapter.ts`, `storage.rs`, `sqlite-adapter.ts`). State per device:
store, database, the rows the adapter and the cycle have observed in it, queued
snapshot, an answer of the database the screen has not taken over, change stamp, and
the cycle's own variables; shared: the remote. Operations: flush, read local, read
remote, merge, local write with a pending marker, remote write, local write
without it, retry schedule, abort, refresh. Hard because edits, saves, other
devices, failures and kills fall between any two awaits. Correct when a success
means published, the remote never regresses, no step takes a saved edit away,
and everything comes to rest equal.

**Remote mutation fence** (`sync-remote-fence.ts`,
`sync-remote-fence-providers.ts`). State: one record in a file, a lease object
per run. Operations: acquire (verify, reclaim), assert before a mutation,
heartbeat, release. Hard because time passes during every request, requests
fail after taking effect, clients die holding the lease and older clients
advertise no heartbeat. Correct when a mutation in flight is always covered by
its own record, and a record is replaced or removed only by someone entitled to.

**Save queue** (`store.ts`, `store-settings.ts`, `store-tasks.ts`,
`pending-capture-persistence.ts`). State: snapshots waiting, one being written,
single-row saves, a timer, a failure banner. Operations: edit, flush (from several
callers at once), retry, reload, confirmation of a native command. Hard because failed
saves return to the queue while newer ones arrive, several callers run the same loop,
and a save deletes what its snapshot lacks. Correct when no edit is lost unseen, a
confirmation is true, and every edit and flush settles.

**Whole-document transactions** (`data-transfer-transaction.ts`, the two
`data-transfer.ts`). State: the barrier that keeps the store's actions waiting, and
the change stamp, the document read and the recovery snapshot of the transaction
under way. Operations: flush, read, apply, snapshot, write, reload. Hard because
saves, reloads, retries and one action that the barrier misses go on beside it, and
a later save can delete rows that only the import knew. Correct when the import
loses no edit and is not itself lost.

**Automatic sync** (`auto-sync-controller.ts`, `sync-orchestrator.ts`,
mobile's `use-root-layout-sync-effects.ts`). State: a debounce timer, a
throttle timer that also carries the retry, a cooldown, two orchestrators (the
controller's and the platform service's) with a running cycle and one follow-up
each. Operations: edit, heartbeat, notification, suspension, resumption, Sync
now, follow-up, failure. Hard because every timer is cancelled in several places and a
cancelled one may have been the only trigger left. Correct when a failure keeps
its retry, automatic requests wait out the cooldown, and every edit is pushed.

**Sync encryption transitions** (`sync-encryption.ts`, the two
`sync-service.ts`, `webdav-sync-document.ts`). State: on the remote the
document, under one name in plaintext and under another when sealed, and its
attachments; on a device the encryption state with its salt, the cached key and a
journal of the transition under way. Operations: enable, disable, change the
passphrase, unlock, each a sequence of conditional requests and a commit in
two stores; ordinary cycles in between. Hard because a kill or a lost answer leaves a
mixture of keys and plaintext. Correct when nothing published is lost, a
mixture is always owed by some journal, a retry finishes, plaintext never
appears by itself, and a device's key fits the salt it records.

### How they interact

- The store queues a snapshot on every edit; the **save queue** writes it. A
  **sync cycle** first flushes the queue to the end, then takes the change stamp
  and a snapshot. `SyncCycle` reduces the queue to one waiting snapshot;
  `SaveQueue` takes the queue apart.
- The cycle merges its snapshot with the remote document by **arbitration**.
  `SyncCycle` lets each entity be edited on one device, so that this merge is a
  maximum; `EntityReplicas` makes the cycle one step and lets all devices edit
  one entity. Each abstracts what the other examines.
- **Automatic sync** starts the cycles: `AutoSync` knows of a cycle only that it
  reads the document, looks once more whether anything was edited, and ends;
  `SyncCycle` assumes that another cycle follows, which is what `EditsArePushed`
  says, with its exceptions.
- An **encryption transition** holds the same lease as a cycle and blocks the
  cycles of its own device by its journal. `SyncEncryption` reduces a cycle to
  reading the document and uploading it, and the lease to its holder and a
  request that comes late.
- On WebDAV and Dropbox each local and remote mutation of the cycle first
  asserts the **fence**. `SyncCycle` keeps what matters to it — a network await
  between check and write (`Fenced`) — and `RemoteFence` takes the lease apart.

- An **import** reads and replaces the whole document. `DocumentTransfer` composes it
  with the save queue; that it shares a lane with sync is left out, so that a cycle
  never runs beside it.

### Components not modelled

| Component | State and operations | Why not, or when |
|---|---|---|
| Sync configuration transaction | new transport committed or rolled back | planned |
| Attachment transfer and cleanup | uploads, downloads, pending remote deletes | planned |
| Fast sync checks | fingerprints that skip a cycle | planned as an extension of `SyncCycle` |
| Tombstones and compaction | purge after retention | planned as an extension of `EntityReplicas` |
| Normalisation, settings merge | pure functions | candidate for a function module |
| Storage adapters | JSON mirror, recovery | `SyncCycle` has their row rules and the desktop's reconciliation, `SaveQueue` their order and the deletions; the mirror is not modelled |
| Self-hosted cloud server | file locks, cache, routes | in `SyncCycle` an atomic merging remote; its locks are planned |
| Remote transports | retries, paging, probes | requests that succeed, fail, or fail after taking effect |
| MCP server, local API | other writers of the database | planned if there is room |
| Calendar push, recurrence, project actions, load migrations, importers, applications, helpers | sequential, pure, or user interface | out of scope; reasons in `PROJECT.json` |

## 2. The modules

| Module | Kind | Models |
|---|---|---|
| `EntityMerge` | operators | `mergeEntitiesWithStats`' choice of a winner |
| `MergeCases` | state machine of one step | two peers exchange any two versions |
| `EntityReplicas` | state machine, extends `EntityMerge` | one entity on several devices |
| `SharedDocument` | abstract specification | what synchronisation promises |
| `SyncCycle` | state machine, implements `SharedDocument` | the cycle, await by await |
| `RemoteFence` | state machine | the lease protocol |
| `SaveQueue` | state machine | the queue, its flush loop and its callers |
| `DocumentTransfer` | state machine, composes with `SaveQueue` | an import beside the queue |
| `AutoSync` | state machine | the controller, its orchestrator and the service's |
| `SyncEncryption` | state machine | transitions and cycles on a sealed or plain remote |
| `EntityMergeProofs`, `MergeCasesProofs`, `EntityReplicasProofs`, `SyncCycleProofs`, `RemoteFenceProofs`, `DocumentTransferProofs`, `AutoSyncProofs`, `SyncEncryptionProofs` | proofs | section 6 |
| `MC*` | instances | constants of the runs |

Definitions keep the names of the code where there is one. A definition named
after another one with a suffix (`FreshAlways` before `Fresh`) is a plausible
bug in it, used to check that a property would notice; no specification uses
it.

### EntityMerge, MergeCases, EntityReplicas

A version is a record of the fields the arbitration reads: whether it is
deleted and when, `updatedAt`, `rev`, `revBy` and the rank of its signature.
`Winner` follows `resolveDeleteVsLiveWinner` and the live-versus-live and
delete-versus-delete branches: with revision metadata on either side
(`RevisionBeats`) or on none (`LegacyBeats`). Timestamps are numbers,
`Unparsable` for a string that does not parse; a time more than `Skew` in the
future is clamped to now, as `SafeTime` does. Strings are replaced by their
rank, which is all the code's comparisons depend on. Left out: `createdAt`
(no part in the choice) and the repairs made on the winner afterwards
(attachments, cancellations, recurrence series, some of
which raise the revision).

`EntityReplicas` has one action per way a user makes a version — `Update`,
`Delete`, `Restore`, `RestoreBackup` (`prepareRestoredEntityForSync`) — each
with the whole stamping: time of the device's own clock, writer, and the next
revision, which stays where it is at `MaxRevision` (`NextRevision`). An
update of a tombstone is allowed, because `updateTask` and `deleteTask` do not
ask. `Sync` is a whole cycle. `now` is real time; a device sees
`now + Offset[d]`, and which offsets the devices have, and who restores backups,
is chosen at the start (`world`). `past` records, for each write, what its author had seen,
so that "causally later" is defined independently of revisions and clocks.

### SharedDocument, SyncCycle

One action of `SyncCycle` is one stretch of code between two awaits. `pc` names
the await: `Start`, `ReadMemory`, `ReadDisk`, `FlushBeforeRetry` and `Pull` are
the reading half; `WriteLocal`, `FenceAsserted`, `LocalWritten`, `WriteRemote`,
`Send` the writing half, with `stage` telling which local write is being made
(the pending marker, the settling write, the retry schedule, the clearing of a
marker after an abort); `Finish`, `Finalize`, `Refresh`, `Reload` end it.
Around it `Edit`, `FlushSave`, `Reconcile`, `BackoffExpires`, `Crash`, `SendFails`,
`StepFails`. `stale` is the comparison `lastDataChangeAt >
localSnapshotChangeAt`; `flag` is the pair `pendingRemoteWriteAt`,
`pendingRemoteWriteRetryAt` of the settings.

What a save leaves in the database is `Saved`. On both platforms a row that the
written document lacks is deleted if it still is the one the writer has seen, and kept
otherwise: mobile deletes among the ids its adapter knows, the desktop sends the rows
it observed as a baseline to compare (`buildChangedEntityBaseline`) and the native side
drops those that match (`storage.rs:3049`). The desktop besides does not bring back a
row that was seen and is gone, takes new settings only over those that were seen, and
answers with what the database then holds. What was seen is kept by its writers:
`known` by the adapter (on mobile also by the cycle, which writes through it),
`observed` by the cycle of a desktop. The desktop adapter learns `known` from the answer
(`storage-adapter.ts:400`) and hands the answer to the store later, if that
still shows what was saved: `answer`, `Reconcile`; anything else that changes the screen
first drops it (`Display`). The cycle, in contrast, takes as observed what it
wrote, not what it was answered (`sync-service.ts:648`).

Elsewhere the two platforms differ as the code does: the desktop accepts a moved stamp
when the store still holds the expected document, and always refreshes the store; mobile
compares the stamp alone and refreshes only after a local write, flushing first.

`SharedDocument` says what a user may rely on: a revision is made by its author,
travels between copies, and a device gives up only what the shared document holds,
except that a kill leaves it with what was saved (`Gathers`). What is saved is held, so
that showing what was already saved is no step at all. `ImplementsShared` maps `hub` to
the remote, `held` to the best of what a device has anywhere — store, queue, database —
and `saved` to the database. Nothing is promised of an entity that is `lost`, which
`SyncCycle` gives as the ghost `gone`: a final refresh has taken an edit of it off a
screen, or a save has deleted it from a database. The step on which that happens is not
excused: the first deletion of an entity must be of a revision that the remote
holds. See section 5. `created` has the entities made so far: an id is used once, so
one that has disappeared is not made again.

The kind of backend (`backend`: a file or a service with conditional writes,
one with a fence, a server that merges what it is sent) is chosen at the start among
`Backends`.

Abstractions: `Reconcile` waits for an empty queue, which `fetchData` would flush first;
one author per entity; requests to the remote are atomic at the
server (WebDAV servers without conditional writes, and files synced by other
software in the background, are not); file sync and CloudKit appear as backends
with conditional writes and no fence; attachments, fast checks and probes are
left out; `faults`, `crashes` and revisions are bounded by constants.

### RemoteFence

An actor is a lease: one `acquireSyncRemoteMutationFence` and the object it
returns. A client that syncs again is another lease. `serialize()` admits one
operation at a time, so `call` holds at most one. A request is two steps: the
server's (`Read`, `Write`, `WriteConflicts`) and the client's reading of the
answer (`…Answered`, `…Verified`); time may pass before each, which is how
the age of an answer (`readAgeMs`) arises. The way *to* the server takes no
time: it could only add to that age, which makes the holder give up sooner.
`until` is the latest moment the mutation in flight may take effect and is the
meaning of `minRemainingMs`; `Tick` does not pass it. `Abort` and `Pause`
are the two ways a client breaks that meaning: it gives up on a request the
backend may still carry out, or it is suspended between the assertion and the
request. A heartbeat of 0 is a client that advertises none.

Left out: malformed records, records from an impossible future, Date headers
that differ between frontends of one backend, and the fresh lease identifier of
each attempt of one acquisition (all attempts of one lease share its name). The
number of attempts is nondeterministic.

### SaveQueue

The store, a snapshot and the database are the sets of edits they hold. One turn
of `flushPendingSave`'s loop is `Turn`. JavaScript runs to completion, so an
event (edit, timer, answer of the storage) waits until no caller has a settled
promise to continue from (`Quiet`). Callers are concurrent calls: the timer's
flush, `fetchData`, `retryPersistence`, and `flushPendingTaskActionSave`, which
confirms to a native command that what it captured is durable.

A write of a snapshot is merged into the rows there are and deletes those that its
adapter has observed and the snapshot lacks (`rows`, `Stored`); a write of a single
row deletes nothing. With one writer of the database that is the same on desktop and
mobile: what the database holds, the adapter has saved or read, and a row still is the
one that was observed. On desktop the rows come from the answers of the saves
(`lastObservedData`), and for a save that waits behind others from the provenance of
the queue (`advanceSaveProvenance`).

Left out: the JSON mirror, other writers of the database (`SyncCycle` has the cycle),
migrations that save on load, save callbacks, the timeout race on close, and kills
(`SyncCycle` has those). The canonical reconciliation of the desktop is a `fetchData`
with the answer of the last save and counts among the calls of `fetchData`. Two edits of
the same row are not told apart. `world` chooses the bounds of a behaviour at the
start.

### DocumentTransfer

One import runs as a caller of the queue: it flushes (`Transfer`), takes the change
stamp (`Capture`), reads the database and adds `Import`, one row (`Load`), takes a
recovery snapshot (`Dispatch`), writes the document (`Persisted`) and reloads the store
(`Refreshed`). While it runs the store's actions wait (`Locked`), a retry of a failed
save included; `convertTaskToSection` does not wait (`Convert`), and the two looks at
the change stamp (`Fresh`) are to notice it. The flushes, reloads and confirmations of
the queue go on beside it. `spoiled` is a ghost: the store did not come to show what the
import wrote, because its reload was refused or failed, or a conversion was made after
the last look; on either platform the next snapshot then lacks the imported row, which
the adapter has observed, and deletes it. `overtaken` is another: the document that was
applied last is not the one the database holds or will hold, because a save was under
way or had ended between its being read and its being applied (`Overtaken`); `fetchData`
compares the change stamp (`store-settings.ts:264`), which no save moves. Assumed of the
storage: it answers the reads of one app in the order they were asked for
(`LastToRead`). Left out: restores, the sandbox and its admission tickets, what an
import computes, and the choice of a guard for the load that follows a replacement.

### AutoSync

`outer` is the cycle of the controller's orchestrator, `inner` that of the
service's; `queue` and `again` are their follow-ups, `timer` is
`syncThrottleTimer` with the callback it was armed with. There is no clock: a
timer fires at any time once what it waits for is over, a request that has to
respect a minimum interval is throttled or not, and `cooldown` is running or over.
`mobile` chooses the platform's policy at the start. Three ghosts serve the liveness
property: `dirty`, an edit no successful cycle has read; `covered`, the running
cycle has read every edit so far; `forgone`, the trigger of an edit was dropped.

Left out: focus, blur, start-up and visibility triggers (each a request like the
heartbeat), dispose and reset, the fingerprint that skips an unchanged document and
the dedupe of application states, exact durations and adaptive intervals, the
activation probe, and the limit on attempts for a locked file.

### SyncEncryption

`remote` gives, for the document under its two names and for an attachment,
the key it is under (or plaintext, or absent) and the edits it holds; `local` is
what survives on a device. A request is conditional on the version captured:
`op[d].stale` has the artifacts somebody else has written since. A device that
stalls loses the lease with one request still to come (`late`). `Commit` writes key
and state, `CrashInCommit` stops between the two, in the order in which mobile writes
them; the desktop keeps both in one place. A cycle takes the lease first; on mobile
a read that looks for changes comes before that and may discover what became of the
remote while another device is at work (`Discover`). A device never *starts* in a mixture;
it gets there by the model's own crashes and lost answers. `crossed` is a ghost: a
device has removed the document to which another device was just moving everything
(`Crossing`). A removal is conditional on the version of the document it
removes, not on the one that is to remain.

Left out: the `.bak` documents kept by some backends, more than one attachment,
enabling and disabling without a remote, file sync, location scopes, servers
without strong versions, and the attachment transfer of ordinary cycles. A change of
passphrase on an empty remote writes no journal, so that a crash between key and
state goes unnoticed there; the model starts with a document.

## 3. The runs

All passing runs finish well within five minutes. `CHECK_DEADLOCK FALSE` is set
where the bounds stop the model (no edit, fault or time left): that is the end of
the story told, not a deadlock of the program; whether anyone waits for ever is
asked by the liveness properties instead. `SYMMETRY` is used in `cycle_safety` and
`fence_leases`, which check safety only, for leases that run the same code or the
two entities of one device (`Swap`). `cycle_safety` also has a
`VIEW`, which drops the variables of a cycle that none of its later steps reads;
no property and no guard tells such states apart; and a `CONSTRAINT`, which is one
of its bounds. So has `cycle_live`: what its constraint (`OneTrouble`) leaves out are
edits, failures and kills, which no fairness forces.

| Run | Instance | Shows |
|---|---|---|
| `merge_cases` | six times × three revisions × three writers × two contents, live and deleted, legacy and unparsable included | both directions of a merge agree; delete-versus-live outside the window goes by time; a version dominated in both orders never wins |
| `replicas` | two devices, three writes, highest revision 3 (reached); clocks the whole window apart, or backups restored by a device that is more than the skew behind the other, or the whole skew ahead | the revision orders what saw what; no causal undo; convergence, through clamped stamps too; a restored backup outlives older deletions |
| `replicas_three` | three devices, aligned clocks, window 0, four writes | **violation**: three versions that beat one another in a circle |
| `cycle_safety` | two desktops whose saves delete, without and with a fence, three entities, two of them of one user; a failure or a kill | the cycle implements `SharedDocument`; the remote never regresses; success means published; what only a database holds stays in it; only the final refresh first takes an edit off the screen |
| `cycle_live` | desktop and mobile, conditional writes or a merging server, a failure or (with conditional writes) a kill | after the last edit and failure all copies become equal with no write pending |
| `cycle_fence_disk` | two mobiles with a fence | **violation**: an entity saved while the fence is asserted is deleted from the database |
| `fence_leases` | two leases, horizons short and long, one failed request, one abandoned, one suspension, kills | undisturbed mutations are under their own lease; only lapsed records change hands; a release removes its own record |
| `save_queue` | two callers, two attempts, queue of two; an import beside one edit that cannot be saved, or beside two, with a confirmation or two reloads; the queue alone with a confirmation that meets a retry, with two edits beside one or with two failures, or with three edits | nothing lost unseen, the import stays, the queue is driven, confirmations are true, edits and flushes settle |
| `save_queue_reload` | one edit, two failing writes, no import | **violation**: when the attempts are used up the next reload replaces the unsaved edit |
| `auto_sync` | either platform, two edits, two failed or requeued cycles, one Sync now, two suspensions | a cooldown always has its retry; automatic requests wait it out; every edit is pushed, unless on mobile its trigger was dropped in one of four named ways |
| `encryption` | two devices, mobile or mixed, remote plain or sealed: two transitions and a fault, one with two faults, one with a fault and a stalled holder, three with a stalled holder, so that opposite ones can cross; one device with two transitions, two faults and a stall; one edit | until transitions cross, nothing published is lost, a mixture is owed by a journal, commits are true, no downgrade; key and salt agree; a retry finishes |
| `encryption_retry` | one desktop, one transition, one fault | **violation**: an interrupted change of passphrase cannot be tried again |

Why the bounds are enough:

- *Arbitration.* The code compares pairs of numbers by sign and against two
  thresholds. With window 1 and skew 2 around `Now = 2` the six times give every
  case: equal, inside the window, on its edge, outside, beyond the skew,
  unparsable. Three revisions and three writers (none, the backup marker, a
  device) give every order of two. The symmetry of `Winner` for *all* values is
  proved.
- *Replicas.* Three writes are the fewest in which a version, its successor
  and a concurrent rival exist; four make the circle of `replicas_three`.
  Clocks run as far past the last write as it takes every clamped stamp to
  become ordinary, so convergence is not cut short by the bound.
- *Cycle.* Two devices with one edit each have every pair of a cycle and an
  edit, a save, another cycle, a failure or a kill; two edits of one user are what it
  takes for the second to replace the waiting snapshot of the first, or for a save to
  delete what the other device made. `Small` keeps to one failure or one kill and lets the
  second device stay between cycles once the first has edited both of its own;
  all three entities are edited only without a fence, failures and kills, and behind
  a fence a failure or a kill comes only while the second device has edited nothing. With
  `MaxRev = 1` an edit is the creation of an entity, the harder case: a row that a
  document lacks is deleted, one of which it holds an older revision is kept.
  All six properties are proved without these bounds. In `cycle_live` a failure or a kill
  comes at any await, the one between the two writes included; on the merging server
  there are no kills, and a failure only while one of the two entities is not made.
- *Fence.* One unit stands for about 20 seconds: a lifetime of 5, a heartbeat
  of 1, three of them missed, and a horizon longer than the advertised silence
  (4 against 3), so that the widening of the heartbeat is exercised, in a time
  (6) that lets a lease be taken, widened, fall silent, expire, be reclaimed and
  released. The
  widened heartbeat, older clients and more leases are in the proof.
- *Queue.* Two attempts and two places make both limits be reached; three edits
  overflow the queue; two callers are one owner of a write and one that waits, or an
  import and one beside it. A confirmation and a retry need three calls, which one
  edit is enough for. The safety properties are proved without bounds.
- *Automatic sync.* Two edits are one that a cycle has read and one it has not; two
  faults are a failure and a failing retry; two suspensions let the second come while
  the first one's sync still runs. The two safety properties are proved without bounds.
- *Encryption.* A transition has at most six steps on the remote and two faults cut it
  and its retry anywhere; two transitions are one device's and the other's, or a
  transition and its reverse; three are the fewest in which two opposite ones can cross,
  as the first has to be made and taken back while a second device starts it. One
  attachment and one document are every kind of artifact; eight salts are more than the
  copies that can refer to one, so a fresh one is always there. All but `RetryFinishes`
  is proved for any number.

## 4. Fairness

- `EntityReplicas`: weak fairness of `Tick` and of every device's `Sync`: time
  goes on and automatic sync has a periodic trigger. Users owe nothing.
- `SyncCycle`: weak fairness, per device, of `CycleStep` (every await of the
  cycle resumes: requests have time limits, and automatic sync starts another
  cycle), of `FlushSave` (the debounce timer) and of `BackoffExpires` (the
  retry time is a time). None of edits, failures and kills, which are bounded.
- `DocumentTransfer` (`SaveQueue` with an import): weak fairness of the timer, of the
  callers' continuations, the import's included, and of the storage
  answering every write. The last is an assumption: a comment in the code (#913)
  notes that `save_data` has been seen to hang, and nothing in the queue bounds the
  wait; the liveness properties say nothing for that case.
  Failed writes are never obliged to happen.
- `RemoteFence`: none; only safety is stated.
- `AutoSync`: weak fairness of every timer (debounce, throttle, cooldown, the delay
  of a follow-up, the desktop's heartbeat), of every await of a cycle, and of
  `Resume`: the user opens the app again. None of edits, failures, Sync now,
  notifications and suspensions.
- `SyncEncryption`: weak fairness of `Step` (awaits resume) and of `Retry`: a
  user whose transition was interrupted tries it again. Users owe no other
  transition, and no cycle.

## 5. What the properties are about

`PROJECT.json` lists the hazards of this code, each at its line and with the
properties that would notice. The properties by component:

- *Arbitration*: `PeersAgree`, `LaterOperationWins`, `DominantDeleteStays`,
  `DominantLiveStays`.
- *Replicas*: `RevisionOrdersHistory`, `NoCausalUndo`,
  `RestoreOutlivesOlderDeletes`, `Convergence`.
- *Cycle*: `ImplementsShared` (no step makes a revision up, moves two copies at once, or
  takes from a device what it alone holds), `SuccessMeansPublished`,
  `RemoteNeverRegresses`, `DiskKeepsEdits`, `OnlyFinalizeLosesEdits`, `Convergence`.
- *Fence*: `UndisturbedFenced`, `OnlyLapsedReclaimed`, `PeerSafeRelease`.
- *Save queue and imports*: `LastIsNewest`, `NothingLostUnseen`, `ImportStays`,
  `QueueIsDriven`,
  `ConfirmedIsSaved`, `ReloadLosesOnlyFailed`, `EditsSettle`, `FlushesReturn`.
- *Automatic sync*: `CooldownHasRetry`, `AutoWaitsOutCooldown`, `EditsArePushed`.
- *Encryption*: `NothingLost`, `MixtureIsJournaled`, `KeyMatchesSalt`,
  `CommitsWhatIsThere`, `NoDowngrade`, `RetryFinishes`.

Some of them are weaker than one may expect, because the code is:

- `OnlyFinalizeLosesEdits` leaves out the final refresh. With a fence, or on
  mobile with a queued save, `runMergePhase` awaits between its last freshness
  check and `finalizeSuccess`, and an edit made meanwhile disappears from the
  store until the next load. It is still in the queue or in the database, but not for
  ever: the next snapshot of the store lacks it and takes the place of the waiting one,
  and once it has been saved the adapter has observed its row, which a snapshot without it
  deletes. From then on the entity is `gone`, and no property speaks of it.
- `DiskKeepsEdits` lets a save delete what the remote holds. The desktop adapter takes
  the answer of a save for what it has observed; if the user edits something before the
  store has taken the answer over, the next snapshot lacks rows that another device made
  and a cycle brought here, and deletes them. The next cycle brings them back, so nothing
  is lost, but for this entity `gone` has begun: if the deletion falls between a cycle's
  reading and its local write, the desktop does not bring the row back, and the cycle
  writes to the remote what the database answered. This is why `RemoteNeverRegresses`,
  `SuccessMeansPublished` and the promise of `SharedDocument` end for an entity that a
  save has deleted. See section 7.
- `DiskKeepsEdits` and `ImplementsShared` are checked and proved for desktops. On mobile
  both are violated. `DiskKeepsEdits` fails even without a fence, when the final
  refresh has waited for the queue, taken an edit off the screen, and the next save
  deletes the row; `ImplementsShared` fails on every backend; `OnlyFinalizeLosesEdits`
  fails on mobile with a fence and holds on mobile without one. Violation run
  `cycle_fence_disk` shows the first kind. A desktop is spared because its adapter and
  its cycle each keep what they have observed, and an edit saved during the await is in
  neither.
- `ConfirmedIsSaved` speaks of edits still in the store. A confirmation after a
  manual retry writes what the store holds *now*; an edit that a reload took
  away after a failed save is confirmed with the others.
- `NothingLostUnseen`, `ConfirmedIsSaved` and `ReloadLosesOnlyFailed` are silent while
  a store shows a document that a save overtook (`overtaken`), until a reload that
  nothing overtook, see the note in section 7.
- `ImportStays` excuses the imported row when the store did not come to show it
  (`spoiled`, `Excused`): the next save of a snapshot of the store then lacks a row the
  adapter has observed, and deletes it. The reload is refused or fails
  without the import's being told, or a conversion lets `fetchData` discard what
  it read. `NothingLostUnseen` counts an edit as visible while the store has it, so it
  does not speak of what a reload takes off the screen; `ReloadLosesOnlyFailed` does.
- `EditsArePushed` names four ways in which a mobile app drops the last trigger
  of an edit: a success clears the timer of an edit made after the cycle's snapshot
  (`notifyExternalSyncSuccess`, and the controller's own success), a cycle that
  began in the background drops the requests made meanwhile, a follow-up that fails
  is reported to nobody, and being offline counts as no failure. On desktop the
  heartbeat makes up for all of them, and the property has no exception there.
- `CommitsWhatIsThere` allows for artifacts another device's open journal owes,
  since the late request of a stalled holder may come after the proof.
- `NothingLost`, `MixtureIsJournaled`, `CommitsWhatIsThere` and `NoDowngrade` end when
  two opposite transitions cross (`crossed`), see the note in section 7: then both
  documents can be gone, and with them all the other promises.

And three hold under a hypothesis that is part of their meaning:
`RestoreOutlivesOlderDeletes` asks that no clock of a device that restores runs ahead
of a peer's by more than the skew (`TimelyRestorers`), see section 7;
`UndisturbedFenced` ends with the first abandoned request or suspension, since
the lease cannot cover a request of unknown duration; `NoCausalUndo` is checked
and proved for clocks within the ambiguity window (beyond it, operation time
decides whatever the revisions say, as ADR 0007 chose)
and for copies below the highest revision, where a write can still be told from
what it was made from.

## 6. Proofs

TLAPS checks the proofs for every value of the constants. The assumptions are
those named in the modules: `MergeConstants`, `CaseConstants`, `ReplicaConstants`,
`SyncConstants`, `FenceConstants`, `QueueConstants`, `AutoSyncConstants`,
`EncryptionConstants`; they give the constants their types and,
for the fence, horizons shorter than the lifetime of a lease. TLC evaluates them
in every run.

**`EntityMergeProofs`.** `WinnerSymmetric`: the version kept does not depend on
which of the two is called local. Each branch of `Beats` is shown total on
different versions (`RevisionBeatsTotal`, `LegacyBeatsTotal`), which rests on
`SignatureTotal`: the two signatures together tell any two versions apart.

**`MergeCasesProofs`.** The four properties of `MergeCases` for all versions,
clocks, windows and skews. `PeersAlwaysAgree` is `WinnerSymmetric`; the other three
rest on `ExchangeOfDeleteVsLive`: whichever side holds which, both keep what
`LiveSurvives` says.

**`EntityReplicasProofs`.** `TypeCorrect`, and `HistoryOrdered`: a write made on top of
another has a higher revision, or the highest there is, for any number of devices and
any clocks. This is not inductive alone: the invariant `IInv` adds that writes are
numbered upwards (`NumberedUpwards`) and that equal content means equal version
(`SameWriteSameVersion`), without which a copy could share its content with a version of
another revision. `CausalityKept`: under `CloseClocks` (the window is no larger than the
skew, offsets lie within the window, nobody restores backups) no copy is replaced by a
version its author had seen, unless its revision is the highest. `CInv` adds that stamps
do not lie in the future by more than the offset and that a later write is at most the
window earlier in time (`StampsFollowHistory`); then the delete-versus-live rule falls
inside the window or agrees with the revision. `RestoresStand`: a restored backup
outlives older deletions. Its invariant `RestoresAreStamped` says that a copy marked as
restored has a stamp no later than the clock of some device that restores; with
`TimelyRestorers` no peer clamps it, and `OnlyNewerDeleteWins` is left to show for one
pair of versions. The hypothesis came from the proof; without it TLC finds a violation
too, once a device that restores runs ahead by more than the skew.

**`SyncCycleProofs`.** `CycleTypeCorrect`; `RemoteOnlyGrows` and
`SuccessIsPublished` for any devices, entities, edits, failures and kills and
for every kind of backend and platform; `ScreensKeepEdits` for desktops, and for mobile
where no backend has a fence; `DatabasesKeepEdits` and `CycleImplementsShared` for
desktops. All but the first rest on one invariant, `CycleInvariant`: the types, at most
one waiting snapshot (`OneWaits`), and for every device and every entity that is not gone
`Kept`, whose parts are facts about that one entity. What a cycle carries covers what it
has read of the remote and of the device until the request, and after it the remote
covers what was read of the device (`Carried`). A desktop's adapter and cycle have observed
nothing later than what the database has (`Known`), what is on the screen is in the
database or waits to be saved (`Waits`), and so does what a cycle may put on it
(`Written`). What a cycle carries lacks nothing that it has observed, and of the database
only what has come there from the screen since (`Covers`): hence its local write deletes
nothing. After that write all of the database is on the screen (`Displays`), so that
the clearing of a marker deletes nothing either. A save of the queue may delete, and what
it deletes is of another author, since of its own entities a screen has the latest
revision there is (`Owns`), and then the remote holds it (`Borrows`). While the change
stamp has not moved, what a cycle carries covers the screen (`CoversScreen`), and on
mobile the waiting snapshot is the screen (`MobileSaves`).

The invariant is preserved for an entity until it is gone, step by step (`StepKeeps`);
what a step does to the screen is `ScreenMoves`, to the database `DatabaseMoves`. For the
refinement what a device holds is put together from its store, database and snapshot
(`HoldsAt`): a write of the database or of the screen is a `Save` (`SaveMaps`,
`ScreenMaps`), a request a `Publish` (`SendMaps`), an edit an `Edit` (`EditMaps`), a kill a
`Kill` (`CrashMaps`), every other await a stutter (`QuietMaps`); `MapsStep` puts the
devices together. The hypotheses are needed: section 5 names the violations TLC finds
without them.

**`RemoteFenceProofs`.** `FenceTypeCorrect`; `MutationsAreFenced`,
`ReclaimsOnlyLapsed`, `ReleasesOwnRecord`. The invariant: every record, in the
file or in a client's hand, was written no later than now and its lifetime is
within bounds (`SoundAt`); an answer is no newer than the clock (`ReadSound`);
the record a write will replace was replaceable when read (`WriteSound`) and is
judged again by the same test at the write, because lapsing is monotone
(`LapsedIsUnsafe`); and, undisturbed, the record in the file is the holder's and
stays safe until the mutation's horizon (`Covered`). A renewal does not shorten
that time (`RenewalExtends`), since the advertised heartbeat only widens
(`CadenceWidens`). Clients with and without a heartbeat are both included.

**`DocumentTransferProofs`.** Every safety property of the save queue and of an import
beside it, for any number of callers, edits, failures and retries and any limit on the
queue: `TransferIsTyped`, `LastIsTheNewest`, `NothingIsLostUnseen`,
`ConfirmationsAreTrue`, `ImportsStay`, `ReloadsLoseOnlyFailed` and
`QueueIsAlwaysDriven`. They rest on one invariant, `TransferInvariant`, in four parts.
`QueueInvariant`: where a caller stands fits its job (`Places`), one caller owns the
write under way (`Owned`), and versions are in order — queue sorted, the write under way
older than the queue and newer than what is saved (`Versions`). `DataInvariant`: a newer
save has what an older one has of the store (`Chained`), and, unless it is overtaken,
the store is saved or will be, while no save on its way deletes what the store shows and
nothing else brings (`Covered`); without the second half a write that succeeds could
undo an earlier one. `CallerInvariant`: from the end of a caller's flush until the next
edit nothing is on its way but the one save of a retry (`Calm`), and under an import not
even that (`Still`); this is what a reload relies on when it replaces the store; a save
that overtakes the reading of the document is where it ends, and why `overtaken`
appears. `ImportInvariant`: the imported row is not one that a save may delete until it
is written (`Unwritten`), then it is in the database, the store and all that is on its
way (`Imported`), and what was confirmed is saved (`ConfirmedIsSaved`). Deletions are
the same on both platforms, so the theorems have no hypothesis on the platform. A
caller's stamp is never ahead of the edits (`Stamped`). `QueueIsAlwaysDriven` is
inductive with `QueueInvariant` alone: a turn that leaves a snapshot in the queue leaves
a caller that will come back to it. Each event of the queue is proved once to be one of
a few shapes (`TurnTo`, `Pushes`, `Moves`, `Alters`), and the invariant once for each
shape.

**`AutoSyncProofs`.** `AutoSyncTypeCorrect`, `FailureKeepsRetry`,
`CooldownIsKept`, for any bounds and both platforms. `CooldownHasRetry` is
inductive with the types: whoever clears the timer ends the cooldown in the same
step or keeps a retry armed, because an armed timer is never replaced (`Armed`).

**`SyncEncryptionProofs`.** `EncryptionTypeCorrect` and `EncryptionKeyMatchesSalt`,
for any devices, passphrases, salts, worlds, edits, crashes and lost leases. That
a salt tells its key is a property of all places a key can be: the invariant
(`KeyInvariant`) says that no two of them — artifacts, snapshots and targets of
operations, cached keys — have one salt and different passphrases (`SaltsTellKeys`),
which a fresh salt preserves; that the attachment is there for ever
(`AttachmentStays`), so that the salt of an interrupted transition stays in use; that an
operation carries a target its kind allows and stands in a state its kind starts from
(`OperationSound`); and that key and state agree except within an open journal (`KeyFits`).

`EncryptionLosesNothing`, `MixturesAreJournaled`, `CommitsAreTrue` and
`DowngradesAreWanted`, until transitions cross, by `TransitionInvariant`. It adds
what a device knows of the remote: an artifact nobody has written since is as in its
snapshot (`SnapFits`); the edits of the document a cycle has read are in its store
(`CycleKnows`); the plan a transition has proven has nothing pending
(`TransitionKnows`). Until crossed, a cycle uploads under the key it has read the
document under (`CycleFits`), the document a transition moves to keeps what it
held when the device last knew it (`TargetKept`) — the fact that a removal relies on
and that a crossing removal takes away — and under its lease a proven transition finds
all as it wants it or another device owing the rest (`CommitHolds`). Of the remote
itself: each name holds its own kind (`NamesFit`), every published edit is in one of
the documents (`Kept`), one document is there (`DocumentRemains`), and the artifacts
are all under one key or some device has an open journal and has not proven its work
(`Owed`); "an open journal" alone is not inductive, for a device may be about to
close it.

**Only model-checked**: what says that something eventually happens (`Convergence`,
`EditsSettle`, `FlushesReturn`, `EditsArePushed`, `RetryFinishes`): liveness under
fairness is out of the prover's reach. Every invariant and every
action property of a passing run is a theorem; where the theorem has a hypothesis
it is named above. What the violation runs show is shown by their counterexamples
alone.

## 7. Disagreements between code and documents

Shown by a run:

1. **Three devices can overwrite one another for ever** (`replicas_three`).
   ADR 0003 promises that "every client converges on the same winner".
   Delete-versus-live goes by time outside the window, live-versus-live by
   revision, so an old live version of high revision, a later tombstone and a
   recent live version of low revision beat one another in a circle. Two
   devices always converge.
2. **A saved entity can be deleted by a cycle** (`cycle_fence_disk`). ADR 0009
   has a cycle abort "instead of overwriting the newer local state".
   `persistLocalDataWithTracking` (`sync-run.ts:960`) awaits the fence between
   the freshness check and the write. On mobile an entity created and saved
   during that await is a known row the written document lacks, and is deleted;
   the abort follows the write, and a kill before the next save loses it.
3. **A reload takes away an unsaved edit** (`save_queue_reload`). A test asks
   that a failed snapshot stay pending "so fetch cannot replace it with stale
   storage"; once its attempts are used up it is no longer pending and the next
   `fetchData` replaces the store. The banner is shown (`ReloadLosesOnlyFailed`)
   and advises the user to keep the app open and try again.

4. **A desktop cannot finish an interrupted change of passphrase**
   (`encryption_retry`). `sync-encryption.ts:692` says of a crash that "a re-run
   resumes". Before a change the desktop unlocks the remote to confirm the current
   passphrase (`sync-service.ts:1911`), and unlocking is refused while any journal is
   open (`sync-encryption.ts:1212`), the interrupted change's own included. Sync
   stays blocked on that device.

Noted while modelling, without a run of their own:

- `sync-run.ts:1917`: the await before `finalizeSuccess` described in section 5,
  against ADR 0009:33. On a desktop with a fence the edit it takes off the screen is lost
  altogether if the user edits another entity: before the queue is flushed, the waiting
  snapshot that had it is replaced; afterwards, the next save deletes its row from the
  database, perhaps before a cycle has published it.
- `storage-adapter.ts:400`: a save of the desktop adapter takes its answer for what was
  observed (`lastObservedData = canonical`) before the store shows it, and the
  reconciliation that is to show it is dropped when the store has changed meanwhile or
  waits while an editor is open. The next snapshot then lacks rows that a cycle has just
  brought from another device, and `storage.rs:3049` deletes them. The cycle avoids
  exactly this (`sync-service.ts:646`: "Do not make canonical-only, concurrently added
  rows eligible for omission before a persisted read"), and so does the provenance of
  the adapter's own queue (`storage-save-baseline.ts:91`), which only a save behind
  another one uses; `storage.rs:3046` says that "Unseen/concurrently changed rows remain
  intact". Where it takes longest: another device publishes an entity; a cycle here
  writes it to the database and aborts because of an edit; that edit is saved, the
  answer has the entity, a further edit drops the reconciliation; the next cycle reads
  the database, the second edit is saved and deletes the row, and the cycle's local
  write does not bring it back (`storage.rs:3063`). The cycle publishes the document
  without the entity. Its author still has it and publishes it again.
- `store-settings.ts:264`: `fetchData` discards what it has read if the change stamp has
  moved, but a save that failed before, is retried by `retryPersistence` and succeeds
  while the document is being read moves no stamp; the save generation
  (`store-settings.ts:485`) only withholds `acknowledgeDataLoad`. The older document is
  applied, and the success clears the failure banner. On either platform a later save
  then deletes the row of an edit that a further reload has brought back, and no failure
  is shown. It takes three calls at a time and two failures. The properties of the queue
  name it (`overtaken`).
- `sync-encryption.ts:841`: the removal of the old document compares the new one with the
  snapshot captured at the start and is conditional on the old one's version only; the
  inventory is validated again after the removal. One device turns encryption on, then
  off again, and stalls with the removal of the sealed document on its way, having
  written the plain one. Another, which still has encryption off, takes the lease and
  turns it on: it captures both documents, which agree. The late request removes the
  sealed one, its own removes the plain one, and the remote has no document.
  Afterwards a mixture can be left that no journal owes, and plaintext can appear
  without a disable (`crossed`).
- A backup restored on a device whose clock runs more than five minutes ahead can be
  undone by a deletion the same device made shortly before (`sync.ts:170`, against the
  "authoritative" of `backup-transfer.ts:270`): when a peer syncs, the restore's stamp is
  still beyond the skew and taken for now, the deletion's no longer is and counts in
  full, so it is later. Time cures the comparison but not the deletion, which has
  been written to the remote by then. `TimelyRestorers` excludes it.
- `store-settings.ts:179`: given a preloaded document (mobile's
  `finalizeSuccess`), `fetchData` takes its change stamp after the flush it
  awaits, so an edit made during that flush is not noticed and leaves the
  screen; the comment at `:183` says the guard "still discards it if local edits
  landed in the meantime". `FlushesFirst` and `Finalize` of `SyncCycle` have it.
- `sync.ts:1521`: after a failed write of an unmarked cycle the schedule is
  saved without `pendingRemoteWriteAt`, and `hasPendingRemoteWriteFlag`
  (`sync.ts:1319`) then ignores it: the retry time is not honoured, against the
  comment at `:1521`. A left-over retry time is then reported as a deferred
  write (`sync-run.ts:1928`).
- `sync.ts:590`: two versions without revision metadata inside the window keep
  the tombstone; ADR 0007, rule 4, would keep the live one. `sync.ts:563`: a
  restored backup that is not older than the tombstone wins inside the window
  whatever its revision, against rule 3. `DominantDeleteStays` holds all the
  same because it asks for both orders.
- `sync-run.ts:613` releases the fence when a run ends although a request that
  timed out may still be carried out; the horizon of
  `sync-remote-fence.ts:5` is "the bounded 30-second request". A client
  suspended between the assertion and the request mutates without a lease, which
  the comment at `sync-remote-fence.ts:267` rules out. `UndisturbedFenced` names
  both cases in its hypothesis.

- `docs/release-notes/1.1.6.md:95` says that each failed automatic cycle schedules its
  own retry. A requeued cycle is a success for the controller (`sync-run.ts:2017`,
  `auto-sync-controller.ts:345`), and a failure of its follow-up, run by the
  service itself, arms none on desktop (`sync-service.ts:1148`).
- `auto-sync-controller.ts`: a user's request waiting behind a cycle is replaced by
  a later automatic one, which the cooldown may then hold back;
  `requestedWhileSuspended` is reset at a cycle's end, so that
  `takePendingSuspendedRequest` finds nothing; and the comment at `:326`, that a
  successful cycle "already includes the pending local work", does not hold for an
  edit made after its snapshot.
- A peer's edit between an interrupted transition and its retry, while both documents
  exist, makes every transition refuse ("conflicts with the plaintext generation");
  the interrupted device stays blocked until one document is removed by hand.
- The desktop's `statusToLocalState` drops the salt it discovered, so the core's
  check of the current passphrase is skipped there; the unlock before it
  makes the check. A change refused afterwards keeps what was unlocked.
- `sync-remote-fence.ts:130`: a record that expires farther ahead than any lease
  could is reclaimable at once; `RemoteFence` has no such records.
- `data-transfer-transaction.ts:64` says that imports and restores block ordinary store
  actions until their window has finished. `convertTaskToSection`
  (`store-tasks.ts:1148`) is not among the actions that `store.ts:614` wraps; the
  freshness checks of the transaction notice it until its last one (`Convert`).
- A reload after an import reports no error when reading the database fails or an
  editor is open: `fetchData` sets `error` or returns. The store then shows the old
  document under a transaction that has succeeded.

## 8. Plan

Done: arbitration, replicas, cycle with its abstract specification, fence, save
queue, imports beside it, automatic sync, encryption transitions. Next, in this order:

1. **`ConfigTransaction`** (`sync-configuration-transaction.ts`): a commit of
   several settings, rolled back in reverse when one fails, with sync disabled unless
   one complete configuration is in place.
2. **`AttachmentTransfer`**: no document on the remote references a file that
   was never uploaded; pending deletes do not remove a file in use.
3. **`CloudServer`** (`server-storage.ts`, `server-data-cache.ts`): file locks
   and the cache, implementing the atomic merging remote of `SyncCycle`.
4. Tombstone purging in `EntityReplicas`; fast checks in `SyncCycle`.
5. An abstract encryption transition (one atomic switch) that `SyncEncryption`
   implements for one transition at a time.

Every safety property of the present runs is a theorem. Theorems worth adding: the
main invariant of each new component; that `SyncEncryption` implements an abstract
transition until two of them cross; and for mobile devices without a fence, which part
of `ImplementsShared` does hold.

## 9. Running

```
tlc -config CycleSafety.cfg MCSyncCycle.tla
tlapm SyncCycleProofs.tla
```

`PROJECT.json` names the module and configuration of each run, the lines each
definition stands for, and for each property a mutant of the code that violates
it.
