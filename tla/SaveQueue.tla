------------------------------ MODULE SaveQueue ------------------------------
(***************************************************************************)
(* The save queue of packages/core/src/store.ts: snapshots of the store     *)
(* waiting to be written (pendingSaves), single-row saves that go straight  *)
(* to the storage adapter (trackImmediateSave), the flush loop that several *)
(* callers run at once, and what those callers do with its outcome:         *)
(* fetchData, retryPersistence and the confirmation that a native command   *)
(* is durable.                                                              *)
(*                                                                          *)
(* JavaScript runs to completion: when a promise settles, everything that   *)
(* awaits it continues before the next event.  Settling and the flush loop  *)
(* that owns the write are one step, the other callers continue in steps of *)
(* their own, and an event (an edit, a timer, an answer of the storage)     *)
(* waits until Quiet.                                                       *)
(*                                                                          *)
(* The content of the store, of a snapshot and of the database is the set   *)
(* of edits it has.  A row is saved only over an older revision of it, so   *)
(* the database gains what a write holds; but a save of a whole snapshot    *)
(* deletes the rows that its storage adapter knows and the snapshot lacks.  *)
(* Only one app writes the database here, so that on desktop and on mobile  *)
(* alike the adapter knows all its rows when a write is made.  (The         *)
(* desktop's takes them from the answers of the saves, the reads and, while *)
(* saves wait, the provenance of its queue: a read is answered before the   *)
(* saves made after it.  When it hands the answer of a save to the store,   *)
(* that is one of the calls of fetchData.)                                  *)
(*                                                                          *)
(* An import (DocumentTransfer) locks the store's actions while it runs; a  *)
(* retry that the user asks for meanwhile is modelled as asked for when it  *)
(* has ended.                                                               *)
(***************************************************************************)
EXTENDS Naturals, Sequences, FiniteSets

CONSTANTS
    Callers,      \* concurrent calls of flushPendingSave
    NoSave,       \* saveInFlight is null
    MaxAttempts,  \* MAX_SAVE_RETRY_ATTEMPTS
    MaxPending,   \* MAX_PENDING_SAVES
    MaxEdits,     \* bound: edits
    Worlds        \* bounds a behaviour may have: its edits, imports and faults, and its
                  \* calls of fetchData and retryPersistence, with two for a
                  \* confirmation, which may retry

ASSUME QueueConstants ==
    /\ MaxAttempts \in Nat \ {0} /\ MaxPending \in Nat \ {0}
    /\ MaxEdits \in Nat
    /\ Worlds \subseteq [edits : 0..MaxEdits, imports : {0, 1}, calls : Nat, faults : Nat]
    /\ NoSave \notin [version : Nat, data : SUBSET Nat, attempts : Nat]

VARIABLES
    world,           \* the member of Worlds, never changes
    rows,            \* edits that made a row of their own
    made,            \* edits made so far, which also is lastDataChangeAt
    store,           \* edits in the in-memory store
    disk,            \* edits in the database
    pendingSaves, pendingVersion, savedVersion,
    saveInFlight,
    immediates,      \* immediateSavesInFlight
    timer,           \* scheduledSaveTimer is set
    failure,         \* persistenceFailure is not null
    job,             \* what each caller is doing
    at,              \* where its flush, or what follows it, stands
    waits,           \* the immediate saves it awaits
    held,            \* the edits to confirm, or the document fetchData read
    since,           \* fetchStartedAt
    acked,           \* edits confirmed durable
    calls, faults

queue == <<pendingSaves, pendingVersion, savedVersion, saveInFlight, immediates, timer>>
flush == <<job, at, waits, held, since>>
vars == <<world, rows, made, store, disk, queue, failure, flush, acked, calls, faults>>

Edits == 1..MaxEdits
Content == SUBSET (0..MaxEdits)      \* 0 stands for what an import adds
Pending == [version : Nat \ {0}, data : Content, attempts : 0..MaxAttempts]
Immediate == [version : Nat \ {0}, row : Edits, data : Content]
Jobs == {"none", "flush", "fetch", "retry", "confirm", "transfer", "refresh"}
Points == {"idle", "immediates", "inflight", "owner", "sleep", "flushed", "reading",
           "read", "joined", "locked", "loading", "backup", "persisting"}

TypeOK ==
    /\ world \in Worlds /\ rows \in Content
    /\ made \in 0..world.edits /\ store \in Content /\ disk \in Content /\ acked \in Content
    /\ pendingSaves \in Seq(Pending) /\ Len(pendingSaves) <= MaxPending
    /\ pendingVersion \in Nat /\ savedVersion \in 0..pendingVersion
    /\ saveInFlight \in Pending \cup {NoSave}
    /\ immediates \subseteq Immediate
    /\ timer \in BOOLEAN /\ failure \in BOOLEAN
    /\ job \in [Callers -> Jobs] /\ at \in [Callers -> Points]
    /\ waits \in [Callers -> SUBSET Nat]
    /\ held \in [Callers -> Content] /\ since \in [Callers -> 0..MaxEdits]
    /\ calls \in 0..world.calls /\ faults \in 0..world.faults

Init ==
    /\ world \in Worlds /\ rows = {}
    /\ made = 0 /\ store = {} /\ disk = {} /\ acked = {}
    /\ pendingSaves = <<>> /\ pendingVersion = 0 /\ savedVersion = 0
    /\ saveInFlight = NoSave /\ immediates = {}
    /\ timer = FALSE /\ failure = FALSE
    /\ job = [c \in Callers |-> "none"] /\ at = [c \in Callers |-> "idle"]
    /\ waits = [c \in Callers |-> {}] /\ held = [c \in Callers |-> {}]
    /\ since = [c \in Callers |-> 0]
    /\ calls = 0 /\ faults = 0

-----------------------------------------------------------------------------
(* The queue                                                                *)

HasNewer(q, version) == \E n \in 1..Len(q) : q[n].version > version
Item(version, data, attempts) ==
    [version |-> version, data |-> data, attempts |-> attempts]

\* enforcePendingSaveCap drops the oldest saves and shows a failure.
CappedNever(q) == q
Capped(q) == IF Len(q) > MaxPending THEN SubSeq(q, Len(q) - MaxPending + 1, Len(q)) ELSE q
Overflows(q) == Len(q) > MaxPending

\* enqueuePendingSave draws a version unless an immediate save brings its own.
Appended(version, data) == Append(pendingSaves, Item(version, data, 0))

\* recordPersistenceFailure, which nothing but a written snapshot takes back.
RecordFailureNever == UNCHANGED failure
RecordFailure == failure' = TRUE

\* A row is made, one that a save may delete once it is in the database.
Made(row) == rows' = rows \cup row

\* What a save of a snapshot leaves in the database: its rows are merged into those there
\* are, and a row that it lacks is deleted (deletion baselines: buildChangedEntityBaseline
\* and the omission of merge_entity_snapshots on desktop, the known ids on mobile).
Stored(data) == data \cup (disk \ rows)

\* hasPendingSaveWork
PendingWork == pendingSaves # <<>> \/ saveInFlight # NoSave \/ immediates # {}

\* The flush writes the last snapshot queued, with the most attempts any of them has had.
Attempts(q) ==
    Cardinality({n \in 1..MaxAttempts : \E k \in 1..Len(q) : q[k].attempts >= n})
Latest(q) == Item(q[Len(q)].version, q[Len(q)].data, Attempts(q))

-----------------------------------------------------------------------------
(* The flush loop                                                           *)

Goto(c, point) == at' = [at EXCEPT ![c] = point]

\* One turn of flushPendingSave's loop: await immediate saves, then a write in flight,
\* then take the whole queue.
Turn(c, q, saved, writing) ==
    IF immediates # {}
      THEN /\ Goto(c, "immediates")
           /\ waits' = [waits EXCEPT ![c] = {i.version : i \in immediates}]
           /\ pendingSaves' = q /\ saveInFlight' = writing
      ELSE /\ UNCHANGED waits
           /\ IF writing # NoSave
                THEN Goto(c, "inflight") /\ pendingSaves' = q /\ saveInFlight' = writing
                ELSE /\ pendingSaves' = <<>>
                     /\ IF q # <<>> /\ Latest(q).version > saved
                          THEN Goto(c, "owner") /\ saveInFlight' = Latest(q)
                          ELSE Goto(c, "flushed") /\ saveInFlight' = NoSave

Flushing(c, q) == timer' = FALSE /\ Turn(c, q, savedVersion, saveInFlight)

\* runAfterStoreWriteLock keeps the store's actions waiting while an import runs.
LockedNever == FALSE
Locked == \E c \in Callers : job[c] \in {"transfer", "refresh"}

\* A caller whose promise has settled, and the quiet between events.
Continues(c) ==
    \/ at[c] = "immediates" /\ waits[c] = {}
    \/ at[c] = "inflight" /\ saveInFlight = NoSave
    \/ at[c] = "flushed"
    \/ at[c] = "joined" /\ \A r \in Callers : job[r] # "retry"
    \/ at[c] = "locked" /\ ~Locked
Quiet == \A c \in Callers : ~Continues(c)

Continue(c) ==
    /\ \/ at[c] = "immediates" /\ waits[c] = {}
       \/ at[c] = "inflight" /\ saveInFlight = NoSave
    /\ Turn(c, pendingSaves, savedVersion, saveInFlight)
    /\ UNCHANGED <<world, rows, made, store, disk, pendingVersion, savedVersion, immediates, timer, failure,
                   job, held, since, acked, calls, faults>>

\* The retry delay is over.
Wake(c) ==
    /\ Quiet /\ at[c] = "sleep"
    /\ Turn(c, pendingSaves, savedVersion, saveInFlight)
    /\ UNCHANGED <<world, rows, made, store, disk, pendingVersion, savedVersion, immediates, timer, failure,
                   job, held, since, acked, calls, faults>>

-----------------------------------------------------------------------------
(* Edits and timers                                                         *)

\* An edit saved through debouncedSave, which may make a row: the store changes and its
\* snapshot is queued.
Snapshot(row) ==
    /\ Quiet /\ made < world.edits
    /\ made' = made + 1
    /\ Made(row)
    /\ store' = store \cup {made + 1}
    /\ pendingVersion' = pendingVersion + 1
    /\ LET q == Appended(pendingVersion + 1, store')
       IN  /\ pendingSaves' = Capped(q)
           /\ failure' = (failure \/ Overflows(q))
    /\ timer' = TRUE
    /\ UNCHANGED <<world, disk, savedVersion, saveInFlight, immediates, flush, acked, calls, faults>>

EditSnapshot == ~Locked /\ \E row \in SUBSET {made + 1} : Snapshot(row)

\* updateTask of one row, with no snapshot queued: the row is saved at once.
EditRow ==
    /\ Quiet /\ ~Locked /\ made < world.edits /\ pendingSaves = <<>>
    /\ made' = made + 1
    /\ store' = store \cup {made + 1}
    /\ pendingVersion' = pendingVersion + 1
    /\ immediates' = immediates \cup
         {[version |-> pendingVersion + 1, row |-> made + 1, data |-> store']}
    /\ UNCHANGED <<world, rows, disk, pendingSaves, savedVersion, saveInFlight, timer, failure, flush, acked,
                   calls, faults>>

Begin(c, work) == job' = [job EXCEPT ![c] = work]

\* flushPendingSave called by the save timer.
TimerFires(c) ==
    /\ Quiet /\ timer /\ at[c] = "idle"
    /\ Begin(c, "flush")
    /\ Flushing(c, pendingSaves)
    /\ UNCHANGED <<world, rows, made, store, disk, pendingVersion, savedVersion, immediates, failure, held,
                   since, acked, calls, faults>>

\* fetchData flushes first if anything is pending.
Fetch(c) ==
    /\ Quiet /\ at[c] = "idle" /\ calls < world.calls
    /\ calls' = calls + 1
    /\ Begin(c, "fetch")
    /\ IF PendingWork
         THEN Flushing(c, pendingSaves)
         ELSE Goto(c, "flushed") /\ UNCHANGED <<timer, pendingSaves, saveInFlight, waits>>
    /\ UNCHANGED <<world, rows, made, store, disk, pendingVersion, savedVersion, immediates, failure, held,
                   since, acked, faults>>

\* flushPendingTaskActionSave is to return when what the store holds is durable.
Confirm(c) ==
    /\ Quiet /\ at[c] = "idle" /\ calls + 1 < world.calls
    /\ calls' = calls + 2
    /\ Begin(c, "confirm")
    /\ held' = [held EXCEPT ![c] = store]
    /\ Flushing(c, pendingSaves)
    /\ UNCHANGED <<world, rows, made, store, disk, pendingVersion, savedVersion, immediates, failure,
                   since, acked, faults>>

\* retryPersistence queues a snapshot of the store and flushes, unless it is under way.
Retrying == \E r \in Callers : job[r] = "retry"
Persist(c) ==
    /\ Begin(c, "retry")
    /\ pendingVersion' = pendingVersion + 1
    /\ LET q == Appended(pendingVersion + 1, store)
       IN  /\ Flushing(c, Capped(q))
           /\ failure' = (failure \/ Overflows(q))

Retry(c) ==
    /\ Quiet /\ at[c] = "idle" /\ calls < world.calls /\ failure /\ ~Retrying /\ ~Locked
    /\ calls' = calls + 1
    /\ Persist(c)
    /\ UNCHANGED <<world, rows, made, store, disk, savedVersion, immediates, held, since, acked, faults>>

-----------------------------------------------------------------------------
(* Storage                                                                  *)

\* Both adapters write one save after the other; a row is dispatched behind the
\* snapshot in flight, and anything behind the document of an import.
Importing == \E c \in Callers : at[c] = "persisting"
Foremost(i) == ~Importing /\ saveInFlight = NoSave /\ \A j \in immediates : i.version <= j.version

RowSaved(i) ==
    /\ Quiet /\ i \in immediates /\ Foremost(i)
    /\ disk' = disk \cup {i.row}
    /\ immediates' = immediates \ {i}
    /\ waits' = [c \in Callers |-> waits[c] \ {i.version}]
    /\ UNCHANGED <<world, rows, made, store, pendingSaves, pendingVersion, savedVersion, saveInFlight, timer,
                   failure, job, at, held, since, acked, calls, faults>>

\* A row save fails: its snapshot is queued unless a newer one is, the failure is
\* shown, and every flush that awaits it throws.
RequeuedAlways(i) == Appended(i.version, i.data)
Requeued(i) ==
    IF HasNewer(pendingSaves, i.version) THEN pendingSaves ELSE Appended(i.version, i.data)
AwaitsNever(c, i) == FALSE
Awaits(c, i) == i.version \in waits[c]
RowFails(i) ==
    /\ Quiet /\ i \in immediates /\ Foremost(i)
    /\ faults < world.faults
    /\ faults' = faults + 1
    /\ pendingSaves' = Capped(Requeued(i))
    /\ immediates' = immediates \ {i}
    /\ RecordFailure
    /\ job' = [c \in Callers |-> IF Awaits(c, i) THEN "none" ELSE job[c]]
    /\ at' = [c \in Callers |-> IF Awaits(c, i) THEN "idle" ELSE at[c]]
    /\ waits' = [c \in Callers |-> IF Awaits(c, i) THEN {} ELSE waits[c]]
    /\ held' = [c \in Callers |-> IF Awaits(c, i) THEN {} ELSE held[c]]
    /\ UNCHANGED <<world, rows, made, store, disk, pendingVersion, savedVersion, saveInFlight, timer, since,
                   acked, calls>>

\* The snapshot is written; the flush goes on with what was queued meanwhile.
Saved(c) ==
    /\ Quiet /\ at[c] = "owner" /\ ~Importing
    /\ disk' = Stored(saveInFlight.data)
    /\ savedVersion' = saveInFlight.version
    /\ failure' = FALSE
    /\ Turn(c, pendingSaves, saveInFlight.version, NoSave)
    /\ UNCHANGED <<world, rows, made, store, pendingVersion, immediates, timer, job, held, since, acked,
                   calls, faults>>

End(c) ==
    /\ Goto(c, "idle") /\ Begin(c, "none")
    /\ held' = [held EXCEPT ![c] = {}] /\ waits' = [waits EXCEPT ![c] = {}]

\* The write fails: unless a newer snapshot is queued it goes back in front until its
\* attempts are used up, and then the flush shows the failure and throws.
SaveFails(c) ==
    /\ Quiet /\ at[c] = "owner" /\ ~Importing
    /\ faults < world.faults
    /\ faults' = faults + 1
    /\ LET s == saveInFlight
           again == s.attempts + 1 < MaxAttempts
           q == <<Item(s.version, s.data, s.attempts + 1)>> \o pendingSaves
           kept == IF again THEN Capped(q) ELSE pendingSaves
       IN  IF HasNewer(pendingSaves, s.version)
             THEN /\ Turn(c, pendingSaves, savedVersion, NoSave)
                  /\ UNCHANGED <<failure, job, held>>
             ELSE /\ saveInFlight' = NoSave
                  /\ pendingSaves' = kept
                  /\ IF \E n \in 1..Len(kept) : kept[n].version = s.version
                       THEN /\ failure' = (failure \/ Overflows(q))
                            /\ Goto(c, "sleep")
                            /\ UNCHANGED <<job, held, waits>>
                       ELSE RecordFailure /\ End(c)
    /\ UNCHANGED <<world, rows, made, store, disk, pendingVersion, savedVersion, immediates, timer, since,
                   acked, calls>>

-----------------------------------------------------------------------------
(* After the flush                                                          *)

Flushed(c) ==
    /\ at[c] = "flushed" /\ job[c] = "flush"
    /\ End(c)
    /\ UNCHANGED <<world, rows, made, store, disk, queue, failure, since, acked, calls, faults>>

Fetching(c) == job[c] \in {"fetch", "refresh"}

FetchBegins(c) ==
    /\ at[c] = "flushed" /\ Fetching(c)
    /\ since' = [since EXCEPT ![c] = made]
    /\ Goto(c, "reading")
    /\ UNCHANGED <<world, rows, made, store, disk, queue, failure, job, waits, held, acked, calls, faults>>

FetchReads(c) ==
    /\ Quiet /\ at[c] = "reading"
    /\ held' = [held EXCEPT ![c] = disk]
    /\ Goto(c, "read")
    /\ UNCHANGED <<world, rows, made, store, disk, queue, failure, job, waits, since, acked, calls, faults>>

\* An editor is open (editLockCount), the read fails or times out, or its caller no longer
\* wants the result: nothing is applied.
FetchGivesUp(c) ==
    /\ Fetching(c)
    /\ at[c] = "flushed" \/ (Quiet /\ at[c] = "reading")
    /\ since' = [since EXCEPT ![c] = 0]
    /\ End(c)
    /\ UNCHANGED <<world, rows, made, store, disk, queue, failure, acked, calls, faults>>

\* The document read replaces the store unless an edit was made since.
UnchangedAlways(c) == TRUE
Unchanged(c) == made = since[c]
FetchApplies(c) ==
    /\ Quiet /\ at[c] = "read"
    /\ store' = IF Unchanged(c) THEN held[c] ELSE store
    /\ since' = [since EXCEPT ![c] = 0]
    /\ End(c)
    /\ UNCHANGED <<world, rows, made, disk, queue, failure, acked, calls, faults>>

\* flushPendingTaskActionSave looks at persistenceFailure, as another caller's flush may
\* have given up on the edits while this one only waited.
FailureIgnored == FALSE
FailureSeen == failure

\* Without a failure to be seen the edits count as durable; with one they are retried,
\* which may have to wait for an import, or an attempt under way is awaited.
Acknowledge(c) == acked' = acked \cup held[c]
Confirmed(c) ==
    /\ at[c] = "flushed" /\ job[c] = "confirm" /\ ~FailureSeen
    /\ Acknowledge(c)
    /\ End(c)
    /\ UNCHANGED <<world, rows, made, store, disk, queue, failure, since, calls, faults>>

Recover(c) ==
    /\ at[c] = "flushed" /\ job[c] = "confirm" /\ FailureSeen
    /\ CASE Retrying -> Goto(c, "joined") /\ UNCHANGED <<queue, failure, job, waits>>
         [] ~Retrying /\ Locked ->
              Goto(c, "locked") /\ Begin(c, "retry") /\ UNCHANGED <<queue, failure, waits>>
         [] OTHER -> Persist(c) /\ UNCHANGED <<savedVersion, immediates>>
    /\ UNCHANGED <<world, rows, made, store, disk, held, since, acked, calls, faults>>

\* The import has ended, and the retry it kept waiting goes on.
Unlocked(c) ==
    /\ at[c] = "locked" /\ ~Locked
    /\ Persist(c)
    /\ UNCHANGED <<world, rows, made, store, disk, savedVersion, immediates, held, since, acked,
                   calls, faults>>

\* The retry has ended, this caller's own or the one it awaited.
Recovered(c) ==
    /\ \/ at[c] = "flushed" /\ job[c] = "retry"
       \/ at[c] = "joined" /\ ~Retrying
    /\ IF FailureSeen THEN UNCHANGED acked ELSE Acknowledge(c)
    /\ End(c)
    /\ UNCHANGED <<world, rows, made, store, disk, queue, failure, since, calls, faults>>

-----------------------------------------------------------------------------
CallerStep(c) ==
    \/ Continue(c) \/ Wake(c) \/ Saved(c) \/ Flushed(c) \/ FetchBegins(c) \/ FetchReads(c)
    \/ FetchGivesUp(c) \/ FetchApplies(c) \/ Confirmed(c) \/ Recover(c) \/ Recovered(c)
    \/ Unlocked(c)

Next ==
    \/ EditSnapshot \/ EditRow
    \/ \E i \in immediates : RowSaved(i) \/ RowFails(i)
    \/ \E c \in Callers : CallerStep(c) \/ SaveFails(c)
    \/ \E c \in Callers : TimerFires(c) \/ Fetch(c) \/ Confirm(c) \/ Retry(c)

Spec == Init /\ [][Next]_vars

-----------------------------------------------------------------------------
(* Properties                                                               *)

\* What a flush writes is the last snapshot queued, and that snapshot is the newest and
\* has every edit of the others that is still on the screen: dropping them loses nothing,
\* in whatever order failed rows and failed snapshots came back to the queue.
LastIsNewest ==
    \A n \in 1..Len(pendingSaves) :
        LET last == pendingSaves[Len(pendingSaves)]
        IN  /\ pendingSaves[n].version <= last.version
            /\ pendingSaves[n].data \cap store \subseteq last.data

Underway ==
    UNION ({pendingSaves[n].data : n \in 1..Len(pendingSaves)}
           \cup {i.data : i \in immediates}
           \cup (IF saveInFlight = NoSave THEN {} ELSE {saveInFlight.data}))

\* A queued save has someone to write it: the timer, a flush, or a user who is shown
\* the failure.
QueueIsDriven ==
    pendingSaves # <<>> =>
        \/ timer \/ failure
        \/ \E c \in Callers : at[c] \in {"immediates", "inflight", "owner", "sleep"}

\* fetchData never replaces an unsaved edit with what the database holds.  store.test.ts
\* asks for it while the failed snapshot is pending; it does not hold once the attempts
\* are used up.
ReloadKeepsEdits == [][store \ disk \subseteq store']_vars

\* Every edit comes to rest: saved, or its failure shown, or reloaded away.
EditsSettle == \A e \in Edits : e \in store ~> (e \in disk \/ failure \/ e \notin store)

\* A call of flushPendingSave returns.
FlushesReturn == \A c \in Callers : at[c] # "idle" ~> at[c] = "idle"

=============================================================================
