-------------------------- MODULE DocumentTransfer --------------------------
(***************************************************************************)
(* An import beside the save queue: runDataTransferTransaction of          *)
(* packages/core/src/data-transfer-transaction.ts flushes the queue, reads *)
(* the database, adds what is imported, takes a recovery snapshot, writes  *)
(* the whole document and reloads the store.  Meanwhile the store's        *)
(* actions wait, all but convertTaskToSection, which is not among those    *)
(* that store.ts wraps; two comparisons of the change stamp are to notice  *)
(* it.  The timer's flushes, reloads and confirmations go on.              *)
(*                                                                         *)
(* One import is made at most.  What it adds is one row, Import.           *)
(***************************************************************************)
EXTENDS SaveQueue

VARIABLES
    outcome,   \* the import: not tried, tried, or reported as done
    spoiled,   \* ghost: the store did not get to show what the import wrote
    overtaken  \* ghost: the store shows a document that a save overtook while it was read

transfer == <<outcome, spoiled, overtaken>>
allVars == <<vars, transfer>>

Import == 0

TransferTypeOK ==
    /\ TypeOK
    /\ outcome \in {"none", "tried", "done"}
    /\ spoiled \in BOOLEAN /\ overtaken \in BOOLEAN

TransferInit == Init /\ outcome = "none" /\ spoiled = FALSE /\ overtaken = FALSE

-----------------------------------------------------------------------------
(* The transaction                                                          *)

\* It begins with a flush; from now on the store's actions wait.
Transfer(c) ==
    /\ Quiet /\ at[c] = "idle" /\ outcome = "none" /\ world.imports = 1
    /\ outcome' = "tried"
    /\ Begin(c, "transfer")
    /\ Flushing(c, pendingSaves)
    /\ UNCHANGED <<world, rows, made, store, disk, pendingVersion, savedVersion, immediates,
                   failure, held, since, acked, calls, faults, spoiled,
                   overtaken>>

\* localSnapshotChangeAt is taken after the flush.
Capture(c) ==
    /\ at[c] = "flushed" /\ job[c] = "transfer"
    /\ since' = [since EXCEPT ![c] = made]
    /\ Goto(c, "loading")
    /\ UNCHANGED <<world, rows, made, store, disk, queue, failure, job, waits, held, acked,
                   calls, faults, transfer>>

Abort(c) == End(c) /\ since' = [since EXCEPT ![c] = 0]

\* ensureFresh
FreshAlways(c) == TRUE
Fresh(c) == made = since[c]

\* The database is read and what is imported is added to it.
Load(c) ==
    /\ Quiet /\ at[c] = "loading"
    /\ IF Fresh(c)
         THEN /\ held' = [held EXCEPT ![c] = disk \cup {Import}]
              /\ Goto(c, "backup")
              /\ UNCHANGED <<job, waits, since>>
         ELSE Abort(c)
    /\ UNCHANGED <<world, rows, made, store, disk, queue, failure, acked, calls, faults, transfer>>

\* The recovery snapshot is taken, and the document goes to the storage adapter.
Dispatch(c) ==
    /\ Quiet /\ at[c] = "backup"
    /\ IF Fresh(c) THEN Goto(c, "persisting") /\ UNCHANGED <<job, waits, held, since>>
                   ELSE Abort(c)
    /\ UNCHANGED <<world, rows, made, store, disk, queue, failure, acked, calls, faults, transfer>>

\* It is written, and the store reloads: fetchData, with its own flush.
Persisted(c) ==
    /\ Quiet /\ at[c] = "persisting"
    /\ disk' = Stored(held[c])
    /\ Made({Import})
    /\ Begin(c, "refresh")
    /\ held' = [held EXCEPT ![c] = {}]
    /\ IF PendingWork
         THEN Flushing(c, pendingSaves)
         ELSE Goto(c, "flushed") /\ UNCHANGED <<timer, pendingSaves, saveInFlight, waits>>
    /\ UNCHANGED <<world, made, store, pendingVersion, savedVersion, immediates, failure, since,
                   acked, calls, faults, transfer>>

\* The read, the recovery snapshot or the write fails.
TransferFails(c) ==
    /\ Quiet /\ at[c] \in {"loading", "backup", "persisting"}
    /\ faults < world.faults
    /\ faults' = faults + 1
    /\ Abort(c)
    /\ UNCHANGED <<world, rows, made, store, disk, queue, failure, acked, calls, transfer>>

\* A document that is applied after the database has changed, or with a save under way,
\* is not the one a later save was made from.
Overtaken(c) == disk # held[c] \/ PendingWork
Reloaded(c) ==
    /\ FetchApplies(c)
    /\ overtaken' = IF Unchanged(c) THEN Overtaken(c) ELSE overtaken

\* The reload ends and with it the transaction, as a success whatever became of the
\* reload: fetchData keeps to itself that it was refused or failed.
Refreshed(c) ==
    /\ job[c] = "refresh"
    /\ \/ Reloaded(c) /\ spoiled' = (spoiled \/ ~Unchanged(c))
       \/ FetchGivesUp(c) /\ spoiled' = TRUE /\ UNCHANGED overtaken
    /\ outcome' = "done"

\* convertTaskToSection, the action that does not wait.
Unnoticed(c) == at[c] = "persisting" \/ job[c] = "refresh"
Convert ==
    /\ Locked
    /\ Snapshot({made + 1})
    /\ spoiled' = (spoiled \/ \E c \in Callers : Unnoticed(c))
    /\ UNCHANGED <<outcome, overtaken>>

-----------------------------------------------------------------------------
(* The queue beside it                                                      *)

\* Assumed of the storage: it answers the reads of one app in the order they were asked
\* for, so that a reload that read the old document has ended when this one reads.
LastToRead(c) == \A r \in Callers \ {c} : at[r] # "read"

QueueStep(c) ==
    \/ /\ \/ Continue(c) \/ Wake(c) \/ Saved(c) \/ Flushed(c) \/ FetchBegins(c)
          \/ job[c] = "fetch" /\ (FetchReads(c) \/ FetchGivesUp(c))
          \/ job[c] = "refresh" /\ LastToRead(c) /\ FetchReads(c)
          \/ Confirmed(c) \/ Recover(c) \/ Recovered(c) \/ Unlocked(c)
       /\ UNCHANGED transfer
    \/ job[c] = "fetch" /\ Reloaded(c) /\ UNCHANGED <<outcome, spoiled>>

QueueEvent ==
    /\ \/ EditSnapshot \/ EditRow
       \/ \E i \in immediates : RowSaved(i) \/ RowFails(i)
       \/ \E c \in Callers :
             SaveFails(c) \/ TimerFires(c) \/ Fetch(c) \/ Confirm(c) \/ Retry(c)
    /\ UNCHANGED transfer

TransferStep(c) ==
    Capture(c) \/ Load(c) \/ Dispatch(c) \/ Persisted(c) \/ Refreshed(c)

TransferNext ==
    \/ QueueEvent \/ Convert
    \/ \E c \in Callers :
          QueueStep(c) \/ TransferStep(c) \/ Transfer(c) \/ TransferFails(c)

TransferSpec == TransferInit /\ [][TransferNext]_allVars

\* The save timer fires, every write is answered and every await resumes.
FairTransferSpec ==
    /\ TransferSpec
    /\ WF_allVars(\E i \in immediates : RowSaved(i) /\ UNCHANGED transfer)
    /\ \A c \in Callers : /\ WF_allVars(QueueStep(c) \/ TransferStep(c))
                          /\ WF_allVars(TimerFires(c) /\ UNCHANGED transfer)

-----------------------------------------------------------------------------
(* Properties                                                               *)

\* A save deletes the rows its snapshot lacks, so the imported row is safe once the store
\* has come to show it: if the reload was carried out and no conversion was made after the
\* last look at the change stamp.
Excused == IF spoiled THEN {Import} ELSE {}

\* What an import reported as done stays in the database, whatever is saved after it.
ImportStays == outcome = "done" => Import \in disk \cup Excused

\* A save made from a document that a save overtook deletes rows the store no longer
\* shows, and the next reload may bring such a document back: while the store is overtaken,
\* what it shows, and who was told what is durable, is not to be relied on, until a reload
\* that nothing overtook.

\* An edit on the screen is in the database, on its way there, or the user is shown that
\* saving failed: neither the document of an import nor its reload takes it away, nor
\* does a save delete what it was not told of.
NothingLostUnseen == failure \/ overtaken \/ store \subseteq disk \cup Underway

\* What flushPendingTaskActionSave confirmed as durable, and no reload has taken away, is
\* in the database, be it another caller's flush that gave up on it.
ConfirmedIsSaved == overtaken \/ acked \cap store \subseteq disk

\* fetchData takes an edit that is not saved off the screen only while the user is shown
\* that saving failed.
ReloadLosesOnlyFailed ==
    [][store \ disk \subseteq store' \/ failure \/ overtaken]_allVars

=============================================================================
