----------------------------- MODULE EntityMerge -----------------------------
(***************************************************************************)
(* Which of two versions of one entity a merge keeps: the arbitration of   *)
(* mergeEntitiesWithStats in packages/core/src/sync.ts.                    *)
(*                                                                         *)
(* A version is a record.  Timestamps are numbers, Unparsable when the     *)
(* string does not parse; revBy is a number in the order of the strings it *)
(* stands for, NoWriter when the field is absent; content is the rank of   *)
(* the entity's comparable signature.  createdAt is left out: it takes no  *)
(* part in choosing the winner.                                            *)
(***************************************************************************)
EXTENDS Integers

CONSTANTS
    Skew,           \* CLOCK_SKEW_THRESHOLD_MS
    Window,         \* DELETE_VS_LIVE_AMBIGUOUS_WINDOW_MS
    BackupRestore   \* SYNC_BACKUP_RESTORE_REV_BY

Unparsable == -1
NoWriter   == 0

ASSUME MergeConstants ==
    /\ Skew \in Nat
    /\ Window \in Nat
    /\ BackupRestore \in Nat \ {NoWriter}

(* A live version has deletedAt = 0; only a tombstone's deletedAt is read. *)
Fields ==
    [ deleted : BOOLEAN, deletedAt : Nat \cup {Unparsable},
      updatedAt : Nat \cup {Unparsable}, rev : Nat, revBy : Nat, content : Nat ]

Version == { v \in Fields : ~v.deleted => v.deletedAt = 0 }

Abs(n) == IF n < 0 THEN -n ELSE n

Clamped(t, now)  == t > now + Skew
SafeTime(t, now) == IF Clamped(t, now) THEN now ELSE t

(* getMergeTimestampComparison: how much later a was updated than b. *)
TimeDiff(a, b, now) ==
    LET safe == SafeTime(a.updatedAt, now) - SafeTime(b.updatedAt, now)
    IN  IF safe = 0 /\ Clamped(a.updatedAt, now) /\ Clamped(b.updatedAt, now)
        THEN a.updatedAt - b.updatedAt
        ELSE safe

(* resolveOperationTime: a tombstone acts at the later of its two times. *)
OperationTime(v, now) ==
    LET updated == SafeTime(v.updatedAt, now)
        deleted == SafeTime(v.deletedAt, now)
    IN  IF v.deleted /\ v.deletedAt # Unparsable /\ deleted > updated
        THEN deleted
        ELSE updated

HasRevision(a, b) == \E v \in {a, b} : v.rev > 0 \/ v.revBy # NoWriter

(* chooseDeterministicWinner: the greater content signature, and between   *)
(* equal ones the greater full signature.  The signatures are strings;     *)
(* what matters is that they order versions totally.                       *)
SignatureGreater(a, b) ==
    \/ a.content > b.content
    \/ /\ a.content = b.content
       /\ \/ a.deletedAt > b.deletedAt
          \/ /\ a.deletedAt = b.deletedAt
             /\ \/ a.rev > b.rev
                \/ a.rev = b.rev /\ a.revBy > b.revBy
                \/ a.rev = b.rev /\ a.revBy = b.revBy /\ a.updatedAt > b.updatedAt

(* Mutants of LiveSurvives: the revision decides at any distance; the live *)
(* version always wins inside the window; the tombstone does, as before    *)
(* docs/adr/0007; no window at all; a restored backup is not favoured.     *)
LiveSurvivesByRevision(live, tombstone, now) == live.rev >= tombstone.rev

LiveSurvivesAlways(live, tombstone, now) ==
    OperationTime(live, now) - OperationTime(tombstone, now) >= -Window

LiveSurvivesTie(live, tombstone, now) ==
    OperationTime(live, now) - OperationTime(tombstone, now) > Window

LiveSurvivesByTime(live, tombstone, now) ==
    OperationTime(live, now) >= OperationTime(tombstone, now)

LiveSurvivesNoBackup(live, tombstone, now) ==
    LET diff == OperationTime(live, now) - OperationTime(tombstone, now)
    IN  diff > Window \/ (Abs(diff) <= Window /\ live.rev >= tombstone.rev)

(* resolveDeleteVsLiveWinner, for a live version against a tombstone. *)
LiveSurvives(live, tombstone, now) ==
    LET diff == OperationTime(live, now) - OperationTime(tombstone, now)
    IN  \/ live.revBy = BackupRestore /\ diff >= 0
        \/ diff > Window
        \/ /\ Abs(diff) <= Window
           /\ HasRevision(live, tombstone)
           /\ live.rev >= tombstone.rev

(* Mutant of RevisionBeats: at equal revision and time each side keeps its own. *)
RevisionBeatsKeepOwn(a, b, now) ==
    a.rev > b.rev \/ (a.rev = b.rev /\ TimeDiff(a, b, now) >= 0)

(* Both live or both deleted, and at least one carries revision metadata. *)
RevisionBeats(a, b, now) ==
    LET diff      == TimeDiff(a, b, now)
        byWriter  == a.revBy # b.revBy /\ a.revBy # NoWriter /\ b.revBy # NoWriter
    IN  \/ a.rev > b.rev
        \/ /\ a.rev = b.rev
           /\ \/ diff > 0
              \/ diff = 0 /\ byWriter /\ a.revBy > b.revBy
              \/ diff = 0 /\ ~byWriter /\ SignatureGreater(a, b)

(* Both live or both deleted, from clients that predate revisions. *)
LegacyBeats(a, b, now) ==
    LET diff     == TimeDiff(a, b, now)
        suspect  == \E v \in {a, b} : v.updatedAt = Unparsable \/ Clamped(v.updatedAt, now)
        near     == Abs(SafeTime(a.updatedAt, now) - SafeTime(b.updatedAt, now)) <= Skew
        byTime   == diff # 0 /\ (suspect \/ ~near)
    IN  \/ byTime /\ diff > 0
        \/ ~byTime /\ SignatureGreater(a, b)

Beats(a, b, now) ==
    \/ ~a.deleted /\ b.deleted /\ LiveSurvives(a, b, now)
    \/ a.deleted /\ ~b.deleted /\ ~LiveSurvives(b, a, now)
    \/ a.deleted = b.deleted /\ HasRevision(a, b) /\ RevisionBeats(a, b, now)
    \/ a.deleted = b.deleted /\ ~HasRevision(a, b) /\ LegacyBeats(a, b, now)

Winner(local, incoming, now) == IF Beats(local, incoming, now) THEN local ELSE incoming
=============================================================================
