---------------------------- MODULE EntityReplicas ----------------------------
(***************************************************************************)
(* One entity on several devices and in the shared remote document.  Each  *)
(* device edits its own copy offline, stamping it with its own clock, and  *)
(* now and then runs a sync cycle that reads the remote copy, keeps the    *)
(* winner and writes it back.  The cycle is one step here; SyncCycle takes *)
(* it apart.  Every write has a content of its own, so a version's content *)
(* also names the write.                                                   *)
(***************************************************************************)
EXTENDS EntityMerge

CONSTANTS
    Devices,
    Writer,         \* device -> its deviceId, as a revBy
    Worlds,         \* how far each device's clock runs ahead, and the
                    \* devices whose user restores backups
    MaxRevision,    \* MAX_SYNC_REVISION, where revisions stop growing
    MaxNow,         \* bound on the clock
    EditUntil,      \* no write at or after this time, ...
    MaxWrites       \* ... and no more than this many

ASSUME ReplicaConstants ==
    /\ Writer \in [Devices -> Nat \ {NoWriter, BackupRestore}]
    /\ Worlds \subseteq [offset : [Devices -> Nat], restorers : SUBSET Devices]
    /\ MaxRevision \in Nat
    /\ MaxNow \in Nat /\ EditUntil \in Nat /\ MaxWrites \in Nat

VARIABLES
    world,      \* the member of Worlds this behaviour is in
    item,       \* device -> the version in its store
    remote,     \* the version in the remote document
    backup,     \* device -> the version in its latest backup file
    now,        \* real time; no device reads it directly
    writes,     \* ghost: number of writes so far
    past        \* ghost: write -> the writes its author had seen in that copy

vars == << world, item, remote, backup, now, writes, past >>

Offset == world.offset
Restorers == world.restorers

Created == [ deleted |-> FALSE, deletedAt |-> 0, updatedAt |-> 1,
             rev |-> 1, revBy |-> BackupRestore + 1, content |-> 0 ]

(* The entity was created and synced everywhere before the story begins. *)
Init ==
    /\ world \in Worlds
    /\ item = [d \in Devices |-> Created]
    /\ remote = Created
    /\ backup = [d \in Devices |-> Created]
    /\ now = 1
    /\ writes = 0
    /\ past = [w \in 0 .. MaxWrites |-> {}]

Clock(d) == now + Offset[d]

NextRevision(rev) == IF rev >= MaxRevision THEN MaxRevision ELSE rev + 1

(* Stamping of a write: mutateTasks, updateTask. *)
Write(d, base, version) ==
    /\ now < EditUntil
    /\ writes < MaxWrites
    /\ writes' = writes + 1
    /\ item' = [item EXCEPT ![d] = [version EXCEPT !.content = writes + 1]]
    /\ past' = [past EXCEPT ![writes + 1] = past[base.content] \cup {base.content}]
    /\ UNCHANGED << world, remote, backup, now >>

(* Mutant of Stamped: a write that forgets the revision. *)
StampedNoRevision(d, version) ==
    [version EXCEPT !.updatedAt = Clock(d), !.revBy = Writer[d]]

Stamped(d, version) ==
    [version EXCEPT !.updatedAt = Clock(d), !.rev = NextRevision(@), !.revBy = Writer[d]]

(* An open editor saves whatever a sync has made of the entity meanwhile:  *)
(* updateTask and deleteTask take a tombstone as well as a live version.   *)
Update(d) == Write(d, item[d], Stamped(d, item[d]))

Delete(d) ==
    Write(d, item[d], [Stamped(d, item[d]) EXCEPT !.deleted = TRUE, !.deletedAt = Clock(d)])

(* Mutant of Restore: the tombstone's deletedAt is left behind. *)
RestoreKeepsDeletedAt(d) ==
    /\ item[d].deleted
    /\ Write(d, item[d], [Stamped(d, item[d]) EXCEPT !.deleted = FALSE])

Restore(d) ==
    /\ item[d].deleted
    /\ Write(d, item[d], [Stamped(d, item[d]) EXCEPT !.deleted = FALSE, !.deletedAt = 0])

ExportBackup(d) ==
    /\ d \in Restorers
    /\ backup[d] # item[d]
    /\ backup' = [backup EXCEPT ![d] = item[d]]
    /\ UNCHANGED << world, item, remote, now, writes, past >>

(* prepareRestoredEntityForSync: the backup's copy, at a revision above    *)
(* both its own and the replaced one.                                      *)
RestoreBackup(d) ==
    /\ d \in Restorers
    /\ LET rev == IF backup[d].rev > item[d].rev THEN backup[d].rev ELSE item[d].rev
       IN  Write(d, item[d],
                 [backup[d] EXCEPT !.updatedAt = Clock(d),
                                   !.deletedAt = IF backup[d].deleted THEN Clock(d) ELSE 0,
                                   !.rev = NextRevision(rev),
                                   !.revBy = BackupRestore])

(* Mutant of Sync: the upload is skipped when the revision is unchanged. *)
SyncComparesRevision(d) ==
    /\ LET winner == Winner(item[d], remote, Clock(d))
       IN  /\ item' = [item EXCEPT ![d] = winner]
           /\ remote' = IF winner.rev = remote.rev THEN remote ELSE winner
    /\ UNCHANGED << world, backup, now, writes, past >>

(* performSyncCycle: read, merge, keep the winner on both sides. *)
Sync(d) ==
    /\ LET winner == Winner(item[d], remote, Clock(d))
       IN  /\ item' = [item EXCEPT ![d] = winner]
           /\ remote' = winner
    /\ UNCHANGED << world, backup, now, writes, past >>

Tick ==
    /\ now < MaxNow
    /\ now' = now + 1
    /\ UNCHANGED << world, item, remote, backup, writes, past >>

Next ==
    \/ Tick
    \/ \E d \in Devices :
          Update(d) \/ Delete(d) \/ Restore(d) \/ ExportBackup(d) \/ RestoreBackup(d) \/ Sync(d)

(* Every device keeps syncing (the periodic trigger of auto-sync), and     *)
(* time goes on; nothing obliges a user to edit.                           *)
Fairness == WF_vars(Tick) /\ \A d \in Devices : WF_vars(Sync(d))

Spec == Init /\ [][Next]_vars /\ Fairness

-----------------------------------------------------------------------------
Writes == 0 .. MaxWrites

TypeOK ==
    /\ world \in Worlds
    /\ item \in [Devices -> Version]
    /\ remote \in Version
    /\ backup \in [Devices -> Version]
    /\ now \in Nat
    /\ writes \in Writes
    /\ past \in [Writes -> SUBSET Writes]

Copies == {remote} \cup {item[d] : d \in Devices}

(* A write made on top of another carries a higher revision, whatever the  *)
(* clocks say, so that the arbitration can tell it saw the other one;      *)
(* unless it has reached the highest revision there is.                    *)
RevisionOrdersHistory ==
    \A v, w \in Copies :
        v.content \in past[w.content] => v.rev < w.rev \/ w.rev = MaxRevision

(* Clocks that agree within the ambiguity window, and no restored backup,  *)
(* which wins by time alone.                                               *)
CloseClocks ==
    /\ Window <= Skew
    /\ \A d, e \in Devices : Offset[d] <= Offset[e] + Window
    /\ Restorers = {}

(* No copy is ever replaced by one its author had already seen and edited: *)
(* a causally later edit, delete or restore is not undone by the version   *)
(* it was made from, as long as its revision could grow beyond that one's  *)
(* and the clocks are close.                                               *)
Undoes(old, new) == new.content \in past[old.content] /\ old.rev # MaxRevision

UndoesNothing == ~Undoes(remote, remote') /\ \A d \in Devices : ~Undoes(item[d], item'[d])

NoCausalUndo == [][CloseClocks => UndoesNothing]_vars

(* A restored backup is "authoritative rather than merely newer in places" *)
(* (backup-transfer.ts:270): a deletion that was last touched before the   *)
(* restore never takes the restored entity away again, whatever revision   *)
(* it had reached.  The clock of the one who restores must not run ahead   *)
(* of a peer's by more than the skew: that peer would take the restore for *)
(* made now, and a slightly older deletion for newer.                      *)
TimelyRestorers == \A r \in Restorers, d \in Devices : Offset[r] <= Offset[d] + Skew

NoOlderDeleteWins ==
    \A d \in Devices : \A old \in {item[d], remote} :
       ( /\ ~old.deleted /\ old.revBy = BackupRestore
         /\ remote' \in {item[d], remote} /\ remote'.deleted /\ item'[d] = remote' )
       => remote'.deletedAt > old.updatedAt \/ remote'.updatedAt > old.updatedAt

RestoreOutlivesOlderDeletes == [][TimelyRestorers => NoOlderDeleteWins]_vars

(* Once users stop editing, all devices and the remote agree for good:     *)
(* "every client converges on the same winner" (docs/adr/0003:28).         *)
Converged == \A d \in Devices : item[d] = remote
Convergence == <>[]Converged
=============================================================================
