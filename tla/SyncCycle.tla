------------------------------ MODULE SyncCycle ------------------------------
(***************************************************************************)
(* The snapshot sync cycle of packages/core: performSyncCycleUnlocked in   *)
(* sync.ts, run by the SharedSyncRun class in sync-run.ts, on devices whose *)
(* user keeps editing while a cycle is under way, against one remote        *)
(* document.                                                                *)
(*                                                                          *)
(* One action per stretch of code between two awaits, so an edit, a save of *)
(* the store's queue, another device's write or a crash can come between.   *)
(*                                                                          *)
(* A document is the revision it holds of each entity, 0 for an entity it   *)
(* does not hold.  Every entity is edited on one device only, its Author,   *)
(* so merging two documents keeps the later revision of each; what happens  *)
(* when two devices edit the same entity is the subject of EntityMerge and  *)
(* EntityReplicas.                                                          *)
(***************************************************************************)
EXTENDS Naturals

CONSTANTS
    Devices, Items,
    Author,        \* the device each entity is edited on
    Desktop,       \* devices of the Tauri app, the others are mobile devices
    Backends,      \* kinds of backend the devices may have been connected to
    MaxRev,        \* bound: edits of one entity
    MaxFaults,     \* bound: failed requests and failed local writes
    MaxCrashes     \* bound: kills of the app

ASSUME SyncConstants ==
    /\ Author \in [Items -> Devices]
    /\ Desktop \subseteq Devices
    /\ Backends \subseteq {"file", "fenced", "merging"}
    /\ MaxRev \in Nat /\ MaxFaults \in Nat /\ MaxCrashes \in Nat

VARIABLES
    backend,   \* the kind of backend the devices share, never changes
    store,     \* the in-memory document and settings of each device
    disk,      \* what its local database holds
    known,     \* what its storage adapter takes the database to hold
    observed,  \* lastObservedPersistedDataForSync: what a desktop's cycle takes it to hold
    answer,    \* the answer of a desktop's database to a save, until the store takes it over
    queue,     \* the store snapshot waiting to be saved, at most one
    stale,     \* lastDataChangeAt > localSnapshotChangeAt
    pc,        \* where the cycle stands, "idle" between cycles
    local,     \* localData of the cycle
    aligned,   \* localSnapshotMatchesDisk
    retrying,  \* pendingRemoteWriteMeta is set
    seen,      \* remoteDataForCompare, the document and version last read
    final,     \* finalData of the cycle
    stage,     \* which of the cycle's local writes is being made
    saving,    \* the document of that write
    wrote,     \* wroteLocal
    remote,    \* the remote document
    created,   \* the entities made so far
    gone,      \* history: those a final refresh took an edit of off a screen, or a save deleted
    faults, crashes

app == <<store, disk, known, observed, answer, queue, stale>>
cycle == <<pc, local, aligned, retrying, seen, final, stage, saving, wrote>>
world == <<backend, remote, created, gone, faults, crashes>>
vars == <<store, disk, known, observed, answer, queue, stale, pc, local, aligned, retrying,
          seen, final, stage, saving, wrote, backend, remote, created, gone, faults,
          crashes>>

\* WebDAV and Dropbox keep a remote mutation fence; the self-hosted server merges a
\* document it is sent; a file is replaced if it is the version that was read.
Fenced == backend = "fenced"
ServerMerges == backend = "merging"

Doc == [Items -> 0..MaxRev]

\* pendingRemoteWriteAt set: "pending", and "backoff" while pendingRemoteWriteRetryAt
\* lies in the future; "schedule" and then "lapsed" is a retry time without
\* pendingRemoteWriteAt.
Flags == {"none", "pending", "backoff", "schedule", "lapsed"}
Copy == [doc : Doc, flag : Flags]
Stages == {"none", "mark", "settle", "retry", "clear"}
Steps == {"idle", "read", "readDisk", "flushRetry", "pull", "persist", "saving",
          "saved", "push", "sending", "clear", "finish", "finalizing", "refresh",
          "reload"}

Nothing == [i \in Items |-> 0]
Blank == [doc |-> Nothing, flag |-> "none"]
LaterBumped(m, n) == IF m > n THEN m ELSE n + 1
Later(m, n) == IF m > n THEN m ELSE n
Join(x, y) == [i \in Items |-> Later(x[i], y[i])]
Within(x, y) == \A i \in Items : x[i] <= y[i]

TypeOK ==
    /\ backend \in Backends
    /\ store \in [Devices -> Copy] /\ disk \in [Devices -> Copy]
    /\ known \in [Devices -> Copy] /\ observed \in [Devices -> Copy]
    /\ queue \in [Devices -> SUBSET Copy] /\ answer \in [Devices -> SUBSET Copy]
    /\ stale \in [Devices -> BOOLEAN]
    /\ pc \in [Devices -> Steps]
    /\ local \in [Devices -> Copy] /\ final \in [Devices -> Copy]
    /\ saving \in [Devices -> Copy]
    /\ aligned \in [Devices -> BOOLEAN] /\ retrying \in [Devices -> BOOLEAN]
    /\ wrote \in [Devices -> BOOLEAN]
    /\ seen \in [Devices -> Doc]
    /\ stage \in [Devices -> Stages]
    /\ remote \in Doc /\ created \subseteq Items /\ gone \subseteq Items
    /\ faults \in 0..MaxFaults /\ crashes \in 0..MaxCrashes

Init ==
    /\ backend \in Backends
    /\ store = [d \in Devices |-> Blank] /\ disk = [d \in Devices |-> Blank]
    /\ known = [d \in Devices |-> Blank] /\ observed = [d \in Devices |-> Blank]
    /\ queue = [d \in Devices |-> {}] /\ answer = [d \in Devices |-> {}]
    /\ stale = [d \in Devices |-> FALSE]
    /\ pc = [d \in Devices |-> "idle"]
    /\ local = [d \in Devices |-> Blank] /\ final = [d \in Devices |-> Blank]
    /\ saving = [d \in Devices |-> Blank]
    /\ aligned = [d \in Devices |-> FALSE] /\ retrying = [d \in Devices |-> FALSE]
    /\ wrote = [d \in Devices |-> FALSE]
    /\ seen = [d \in Devices |-> Nothing]
    /\ stage = [d \in Devices |-> "none"]
    /\ remote = Nothing /\ created = {} /\ gone = {}
    /\ faults = 0 /\ crashes = 0

-----------------------------------------------------------------------------
(* The app around the cycle: edits, the store's save queue, kills.          *)

\* What a save leaves in the database, of which its caller has seen base.  A row that the
\* document lacks is deleted if it is still the one seen, else the later revision stays.
\* The desktop command does not bring back a row that was seen and is gone, and takes new
\* settings only over those that were seen.
SavedOverwrites(d, base, c) == c
Saved(d, base, c) ==
    [doc |-> [i \in Items |->
                CASE c.doc[i] = 0 /\ base.doc[i] = disk[d].doc[i] -> 0
                  [] d \in Desktop /\ disk[d].doc[i] = 0 /\ base.doc[i] # 0 -> 0
                  [] OTHER -> Later(disk[d].doc[i], c.doc[i])],
     flag |-> IF d \in Desktop /\ (c.flag = base.flag \/ disk[d].flag # base.flag)
                THEN disk[d].flag ELSE c.flag]

\* The document comes to be on the screen, and what was still to be taken over is not.
Display(d, c) ==
    /\ store' = [store EXCEPT ![d] = c]
    /\ answer' = [answer EXCEPT ![d] = IF c = store[d] THEN @ ELSE {}]

\* The user edits an entity: the store changes at once, a snapshot of it is queued.  An
\* entity that is not there is made only once, its id is new.
Edit(d, i) ==
    /\ Author[i] = d
    /\ store[d].doc[i] < MaxRev
    /\ store[d].doc[i] > 0 \/ i \notin created
    /\ created' = created \cup {i}
    /\ LET c == [store[d] EXCEPT !.doc[i] = @ + 1]
       IN  /\ Display(d, c)
           /\ queue' = [queue EXCEPT ![d] = {c}]
    /\ stale' = [stale EXCEPT ![d] = TRUE]
    /\ UNCHANGED <<disk, known, observed, cycle, backend, remote, gone, faults, crashes>>

\* flushPendingSave writes the queued snapshot, on its timer or for a waiting cycle.  A
\* desktop adapter then takes the database to hold what it answered, and has the store
\* take that over (scheduleCanonicalReconciliation) while it still shows what was saved.
\* Until then the adapter knows rows that the screen does not show, and that the next
\* snapshot therefore deletes.
FlushSave(d) ==
    /\ \E c \in queue[d] :
          LET s == Saved(d, known[d], c)
          IN  /\ disk' = [disk EXCEPT ![d] = s]
              /\ known' = [known EXCEPT ![d] = IF d \in Desktop THEN s ELSE c]
              /\ answer' = [answer EXCEPT ![d] =
                              IF d \in Desktop /\ c = store[d] /\ s # c THEN {s} ELSE {}]
              /\ gone' = gone \cup {i \in Items : s.doc[i] < disk[d].doc[i]}
    /\ queue' = [queue EXCEPT ![d] = {}]
    /\ UNCHANGED <<store, observed, stale, cycle, backend, remote, created, faults, crashes>>

Reconcile(d) ==
    /\ queue[d] = {}
    /\ \E c \in answer[d] : store' = [store EXCEPT ![d] = c]
    /\ answer' = [answer EXCEPT ![d] = {}]
    /\ UNCHANGED <<disk, known, observed, queue, stale, cycle, world>>

\* The time in pendingRemoteWriteRetryAt is reached.
ElapsedNever(c) == c
Elapsed(c) ==
    [c EXCEPT !.flag = CASE @ = "backoff" -> "pending"
                         [] @ = "schedule" -> "lapsed"
                         [] OTHER -> @]

BackoffExpires(d) ==
    /\ {store[d].flag, disk[d].flag} \cap {"backoff", "schedule"} # {}
    /\ store' = [store EXCEPT ![d] = Elapsed(@)]
    /\ disk' = [disk EXCEPT ![d] = Elapsed(@)]
    /\ known' = [known EXCEPT ![d] = Elapsed(@)]
    /\ observed' = [observed EXCEPT ![d] = Elapsed(@)]
    /\ queue' = [queue EXCEPT ![d] = {Elapsed(c) : c \in @}]
    /\ answer' = [answer EXCEPT ![d] = {Elapsed(c) : c \in @}]
    /\ UNCHANGED <<stale, cycle, world>>

\* The app is killed and started again: the store is loaded from the database.
Crash(d) ==
    /\ crashes < MaxCrashes
    /\ crashes' = crashes + 1
    /\ store' = [store EXCEPT ![d] = disk[d]]
    /\ known' = [known EXCEPT ![d] = disk[d]]
    /\ queue' = [queue EXCEPT ![d] = {}] /\ answer' = [answer EXCEPT ![d] = {}]
    /\ stale' = [stale EXCEPT ![d] = FALSE]
    /\ pc' = [pc EXCEPT ![d] = "idle"]
    /\ UNCHANGED <<disk, observed, local, aligned, retrying, seen, final, stage, saving,
                   wrote, backend, remote, created, gone, faults>>

-----------------------------------------------------------------------------
(* Reading                                                                  *)

\* What the cycle takes the database to hold, which on mobile its adapter knows.
Seen(d) == IF d \in Desktop THEN observed[d] ELSE known[d]
Observe(d, c) ==
    IF d \in Desktop THEN observed' = [observed EXCEPT ![d] = c] /\ UNCHANGED known
                     ELSE known' = [known EXCEPT ![d] = c] /\ UNCHANGED observed

Goto(d, step) == pc' = [pc EXCEPT ![d] = step]

\* runPhases: the queue is flushed to the end before the cycle reads.
Start(d) ==
    /\ pc[d] = "idle"
    /\ queue[d] = {}
    /\ retrying' = [retrying EXCEPT ![d] = FALSE]
    /\ wrote' = [wrote EXCEPT ![d] = FALSE]
    /\ Goto(d, "read")
    /\ UNCHANGED <<app, local, aligned, seen, final, stage, saving, world>>

\* readLocalDataForSyncCycle takes the change stamp and the in-memory snapshot
\* before it awaits the database.
ReadMemory(d) ==
    /\ pc[d] = "read"
    /\ local' = [local EXCEPT ![d] = store[d]]
    /\ stale' = [stale EXCEPT ![d] = FALSE]
    /\ Goto(d, "readDisk")
    /\ UNCHANGED <<store, disk, known, observed, answer, queue, aligned, retrying, seen,
                   final, stage, saving, wrote, world>>

\* The database is read and merged with that snapshot.  A pending marker still in
\* its backoff ends the cycle; a due one is remembered, the queue is flushed and
\* the local data read again with the marker cleared.
ReadDisk(d) ==
    /\ pc[d] = "readDisk"
    /\ local' = [local EXCEPT ![d] =
                   [doc |-> Join(disk[d].doc, @.doc),
                    flag |-> IF retrying[d] THEN "none" ELSE disk[d].flag]]
    /\ aligned' = [aligned EXCEPT ![d] = disk[d].doc = local[d].doc]
    /\ Goto(d, CASE ~retrying[d] /\ disk[d].flag = "backoff" -> "idle"
                 [] ~retrying[d] /\ disk[d].flag = "pending" -> "flushRetry"
                 [] OTHER -> "pull")
    /\ Observe(d, disk[d])
    /\ UNCHANGED <<store, disk, answer, queue, stale, retrying, seen, final, stage, saving,
                   wrote, world>>

FlushBeforeRetry(d) ==
    /\ pc[d] = "flushRetry"
    /\ queue[d] = {}
    /\ retrying' = [retrying EXCEPT ![d] = TRUE]
    /\ Goto(d, "read")
    /\ UNCHANGED <<app, local, aligned, seen, final, stage, saving, wrote, world>>

\* readRemote and the merge.  When the merge adds nothing to what the database
\* holds and no marker is pending, the first local write is skipped.
Pull(d) ==
    /\ pc[d] = "pull"
    /\ seen' = [seen EXCEPT ![d] = remote]
    /\ LET merged == Join(local[d].doc, remote)
           unchanged == aligned[d] /\ ~retrying[d] /\ merged = local[d].doc
       IN  /\ final' = [final EXCEPT ![d] =
                          [doc |-> merged,
                           flag |-> IF unchanged THEN local[d].flag ELSE "pending"]]
           /\ stage' = [stage EXCEPT ![d] = IF unchanged THEN "none" ELSE "mark"]
           /\ Goto(d, IF unchanged THEN "push" ELSE "persist")
    /\ UNCHANGED <<app, local, aligned, retrying, saving, wrote, world>>

-----------------------------------------------------------------------------
(* Writing                                                                  *)

Marked(d) == stage[d] # "none"

\* ensureLocalSnapshotFresh: no edit since the snapshot, or (desktop) the store
\* holds exactly the expected document.
FreshAlways(d, doc) == TRUE
Fresh(d, doc) == ~stale[d] \/ (d \in Desktop /\ store[d].doc = doc)

\* The document of each local write: with the marker, with it cleared, with the
\* retry schedule of withPendingRemoteWriteRetry.
ToSave(d) ==
    [doc |-> final[d].doc,
     flag |-> CASE stage[d] = "mark" -> "pending"
                [] stage[d] = "settle" -> "none"
                [] final[d].flag \in {"pending", "backoff"} -> "backoff"
                [] OTHER -> "schedule"]

\* persistLocal; the desktop command answers with what the database now holds.
Persist(d, c) ==
    LET s == Saved(d, Seen(d), c)
    IN  /\ disk' = [disk EXCEPT ![d] = s]
        /\ saving' = [saving EXCEPT ![d] = IF d \in Desktop THEN s ELSE c]
        /\ Observe(d, c)
        /\ Goto(d, "saved")

\* persistLocalDataWithTracking asserts the fence, a request to the remote, before
\* it writes; without a fence the write follows at once.
BeginPersist(d, c) ==
    IF Fenced
      THEN /\ saving' = [saving EXCEPT ![d] = c]
           /\ Goto(d, "saving")
           /\ UNCHANGED <<disk, known, observed>>
      ELSE Persist(d, c)

\* LocalSyncAbort: the cycle is requeued, after the marker it wrote is cleared if
\* the error came out of writeRemote or of the last writeLocal.
AbortTo(d, marked) == Goto(d, IF marked THEN "clear" ELSE "idle")

\* Any other error ends the cycle; the platform then reloads the store.
FailTo(d, hasWritten) ==
    Goto(d, IF d \in Desktop \/ hasWritten THEN "refresh" ELSE "idle")

WriteLocal(d) ==
    /\ pc[d] = "persist"
    /\ IF Fresh(d, final[d].doc)
         THEN /\ BeginPersist(d, ToSave(d))
              /\ stale' = [stale EXCEPT ![d] = FALSE]
         ELSE /\ AbortTo(d, stage[d] = "settle")
              /\ UNCHANGED <<disk, known, observed, saving, stale>>
    /\ UNCHANGED <<store, answer, queue, local, aligned, retrying, seen, final, stage,
                   wrote, world>>

\* clearPendingRemoteWriteAfterLocalAbort writes the in-memory snapshot, unmarked.
ClearMarker(d) ==
    /\ pc[d] = "clear"
    /\ BeginPersist(d, [store[d] EXCEPT !.flag = "none"])
    /\ stage' = [stage EXCEPT ![d] = "clear"]
    /\ UNCHANGED <<store, answer, queue, stale, local, aligned, retrying, seen, final,
                   wrote, world>>

FenceAsserted(d) ==
    /\ pc[d] = "saving"
    /\ Persist(d, saving[d])
    /\ UNCHANGED <<store, answer, queue, stale, local, aligned, retrying, seen, final,
                   stage, wrote, world>>

\* After the write the snapshot is checked again, then applied to the store (desktop).
LocalWritten(d) ==
    /\ pc[d] = "saved"
    /\ IF Fresh(d, saving[d].doc)
         THEN /\ stale' = [stale EXCEPT ![d] = FALSE]
              /\ IF d \in Desktop THEN Display(d, saving[d])
                                  ELSE UNCHANGED <<store, answer>>
              /\ wrote' = [wrote EXCEPT ![d] = TRUE]
              /\ final' = IF stage[d] \in {"mark", "settle"}
                            THEN [final EXCEPT ![d] = saving[d]] ELSE final
              /\ CASE stage[d] = "mark" -> Goto(d, "push")
                   [] stage[d] = "settle" -> Goto(d, "finish")
                   [] stage[d] = "retry" -> FailTo(d, TRUE)
                   [] OTHER -> Goto(d, "idle")
         ELSE /\ AbortTo(d, stage[d] = "settle")
              /\ UNCHANGED <<stale, store, answer, wrote, final>>
    /\ UNCHANGED <<disk, known, observed, queue, local, aligned, retrying, seen, stage,
                   saving, world>>

\* io.writeRemote checks the snapshot before writeRemoteForCycle begins its requests.
WriteRemote(d) ==
    /\ pc[d] = "push"
    /\ IF Fresh(d, final[d].doc)
         THEN Goto(d, "sending") /\ stale' = [stale EXCEPT ![d] = FALSE]
         ELSE AbortTo(d, Marked(d)) /\ UNCHANGED stale
    /\ UNCHANGED <<store, disk, known, observed, answer, queue, local, aligned, retrying,
                   seen, final, stage, saving, wrote, world>>

\* A conditional write replaces the version that was read; the self-hosted server
\* merges whatever it is sent.
AcceptedAlways(d) == TRUE
Accepted(d) == ServerMerges \/ remote = seen[d]
Stored(d) == IF ServerMerges THEN Join(remote, final[d].doc) ELSE final[d].doc

\* The write is skipped when it would repeat what was read.
RepeatsLocal(d) == final[d].doc = local[d].doc
Repeats(d) == final[d].doc = seen[d]

\* A version conflict is a
\* LocalSyncAbort; after a success the marked cycle writes the cleared document.
Send(d) ==
    /\ pc[d] = "sending"
    /\ IF Repeats(d) \/ Accepted(d)
         THEN /\ remote' = IF Repeats(d) THEN remote ELSE Stored(d)
              /\ IF Marked(d)
                   THEN Goto(d, "persist") /\ stage' = [stage EXCEPT ![d] = "settle"]
                   ELSE Goto(d, "finish") /\ UNCHANGED stage
         ELSE AbortTo(d, Marked(d)) /\ UNCHANGED <<remote, stage>>
    /\ UNCHANGED <<app, local, aligned, retrying, seen, final, saving, wrote,
                   backend, created, gone, faults, crashes>>

\* The request fails, before or after the server took the document: the retry
\* schedule is written and the cycle ends in an error.
SendFails(d) ==
    /\ pc[d] = "sending"
    /\ faults < MaxFaults
    /\ faults' = faults + 1
    /\ \/ UNCHANGED remote
       \/ Accepted(d) /\ remote' = Stored(d)
    /\ stage' = [stage EXCEPT ![d] = "retry"]
    /\ Goto(d, "persist")
    /\ UNCHANGED <<app, local, aligned, retrying, seen, final, saving, wrote,
                   backend, created, gone, crashes>>

\* A read, a fence assertion or a local write fails: the error ends the cycle.
StepFails(d) ==
    /\ pc[d] \in {"pull", "persist", "saving"}
    /\ faults < MaxFaults
    /\ faults' = faults + 1
    /\ FailTo(d, wrote[d])
    /\ UNCHANGED <<app, local, aligned, retrying, seen, final, stage, saving, wrote,
                   backend, remote, created, gone, crashes>>

-----------------------------------------------------------------------------
(* Finishing                                                                *)

\* finalizeSuccess puts the merged document into the store: always on desktop, on
\* mobile (where fetchData first flushes a pending queue) if the cycle wrote locally.
Shows(d) == d \in Desktop \/ wrote[d]
FlushesFirst(d) == d \notin Desktop /\ wrote[d] /\ queue[d] # {}
Show(d) ==
    /\ IF Shows(d) THEN Display(d, final[d]) ELSE UNCHANGED <<store, answer>>
    /\ gone' = gone \cup {i \in Items : store'[d].doc[i] < store[d].doc[i]}
    /\ Goto(d, "idle")

\* runMergePhase checks the snapshot a last time, then asserts the fence, then
\* calls finalizeSuccess.
Finish(d) ==
    /\ pc[d] = "finish"
    /\ IF Fresh(d, final[d].doc)
         THEN /\ IF Fenced \/ FlushesFirst(d)
                   THEN Goto(d, "finalizing") /\ UNCHANGED <<store, answer, gone>>
                   ELSE Show(d)
              /\ stale' = [stale EXCEPT ![d] = FALSE]
         ELSE Goto(d, "idle") /\ UNCHANGED <<store, answer, stale, gone>>
    /\ UNCHANGED <<disk, known, observed, queue, local, aligned, retrying, seen, final,
                   stage, saving, wrote, backend, remote, created, faults, crashes>>

Finalize(d) ==
    /\ pc[d] = "finalizing"
    /\ ~FlushesFirst(d)
    /\ Show(d)
    /\ UNCHANGED <<disk, known, observed, queue, stale, local, aligned, retrying, seen,
                   final, stage, saving, wrote, backend, remote, created, faults, crashes>>

\* finalizeErrorStatus calls fetchData: it flushes the queue, takes the change stamp,
\* reads the database, and drops the result if an edit moved the stamp meanwhile.
Refresh(d) ==
    /\ pc[d] = "refresh"
    /\ queue[d] = {}
    /\ stale' = [stale EXCEPT ![d] = FALSE]
    /\ Goto(d, "reload")
    /\ UNCHANGED <<store, disk, known, observed, answer, queue, local, aligned, retrying,
                   seen, final, stage, saving, wrote, world>>

ReloadedAlways(d) == disk[d]
Reloaded(d) == IF stale[d] THEN store[d] ELSE disk[d]
Reload(d) ==
    /\ pc[d] = "reload"
    /\ Display(d, Reloaded(d))
    /\ known' = [known EXCEPT ![d] = disk[d]]
    /\ Goto(d, "idle")
    /\ UNCHANGED <<disk, observed, queue, stale, local, aligned, retrying, seen, final,
                   stage, saving, wrote, world>>

-----------------------------------------------------------------------------
CycleStep(d) ==
    \/ Start(d) \/ ReadMemory(d) \/ ReadDisk(d) \/ FlushBeforeRetry(d) \/ Pull(d)
    \/ WriteLocal(d) \/ ClearMarker(d) \/ FenceAsserted(d) \/ LocalWritten(d)
    \/ WriteRemote(d) \/ Send(d) \/ Finish(d) \/ Finalize(d)
    \/ Refresh(d) \/ Reload(d)

Next ==
    \E d \in Devices :
        \/ CycleStep(d)
        \/ SendFails(d) \/ StepFails(d)
        \/ \E i \in Items : Edit(d, i)
        \/ FlushSave(d) \/ Reconcile(d) \/ BackoffExpires(d) \/ Crash(d)

Spec == Init /\ [][Next]_vars

\* Every await of the cycle resumes, the save timer and the retry time come, and
\* automatic sync starts another cycle after an idle one.
FairSpec ==
    /\ Spec
    /\ \A d \in Devices : /\ WF_vars(CycleStep(d))
                          /\ WF_vars(FlushSave(d))
                          /\ WF_vars(BackoffExpires(d))

-----------------------------------------------------------------------------
(* Properties                                                               *)

\* The remote document never goes back to an earlier revision of an entity,
\* whatever writes, failures and crashes come between a device's read and its
\* write: the conditional write of writeRemoteForCycle is what sees to it.  Once a save
\* has deleted the entity from a database (DiskKeepsEdits), its row is not brought back
\* by the local write of a cycle that has read it, which then takes it off the remote.
RemoteNeverRegresses == [][\A i \in Items \ gone : remote[i] <= remote'[i]]_vars

\* A cycle that gets past writeRemote to its finishing steps (and so reports
\* success) has the local data it read on the remote, be the write sent, skipped as
\* unchanged, or overtaken by other devices since; but for an entity that was deleted
\* from a database or taken off a screen before.
Succeeding(d) ==
    pc[d] \in {"finish", "finalizing"} \/ (pc[d] = "persist" /\ stage[d] = "settle")
SuccessMeansPublished ==
    \A d \in Devices : Succeeding(d) =>
        \A i \in Items \ gone : local[d].doc[i] <= remote[i]

\* No step of a cycle, and no answer of a database, puts an older revision back under the
\* user's hands; only a kill loses what was not saved.  The one exception: an edit first
\* leaves the in-memory document in the final refresh, after that has waited for the
\* fence or for the save queue.  What becomes of the entity then is no longer sure.
OnlyFinalizeLosesEdits ==
    [][\A d \in Devices, i \in Items \ gone :
         \/ store[d].doc[i] <= store'[d].doc[i]
         \/ pc[d] = "finalizing" \/ crashes' # crashes]_vars

\* What reached the database is not taken out of it again while the remote does not hold
\* it: neither a cycle that read before an edit nor a snapshot queued before it writes an
\* older document over it, or deletes a row it does not know of.  A save deletes only what
\* the remote holds, and what a final refresh has taken off the screen.
DiskKeepsEdits ==
    [][\A d \in Devices, i \in Items \ gone :
         disk[d].doc[i] <= disk'[d].doc[i] \/ disk[d].doc[i] <= remote[i]]_vars

\* The cycle implements the promise of SharedDocument: whatever the interleaving, a
\* step makes no revision up, moves one copy only, and takes no revision from a device
\* that it alone holds, on its screen, in its queue or in its database.  The promise ends
\* for an entity that a final refresh takes off a screen or a save out of a database.
Queued(d) == IF queue[d] = {} THEN Nothing ELSE (CHOOSE c \in queue[d] : TRUE).doc
Shared == INSTANCE SharedDocument
            WITH hub <- remote,
                 held <- [d \in Devices |->
                            Join(Join(store[d].doc, disk[d].doc), Queued(d))],
                 saved <- [d \in Devices |-> disk[d].doc],
                 lost <- gone
ImplementsShared == Shared!Spec

\* Once edits, failures and kills have stopped every store, database and the
\* remote come to hold the same document for good, with no write pending.
Settled ==
    \A d \in Devices : /\ store[d].doc = remote /\ disk[d].doc = remote
                       /\ disk[d].flag \notin {"pending", "backoff"}
Convergence == <>[]Settled

=============================================================================
