------------------------- MODULE EntityReplicasProofs -------------------------
(***************************************************************************)
(* EntityReplicas for any number of devices, writes and ticks: revisions   *)
(* order the history of an entity, and when the clocks agree within the    *)
(* ambiguity window no sync undoes a causally later write.                 *)
(***************************************************************************)
EXTENDS EntityReplicas, EntityMergeProofs

-----------------------------------------------------------------------------
(* The inductive invariant.  Writes are numbered upwards, a copy's history *)
(* lies below it, and copies of one write are equal; this is what makes    *)
(* RevisionOrdersHistory survive a write made on top of one of the copies. *)

NumberedUpwards ==
    /\ \A v \in Copies : v.content <= writes
    /\ \A w \in Writes : \A x \in past[w] : x < w

SameWriteSameVersion == \A v, w \in Copies : v.content = w.content => v = w

IInv == TypeOK /\ NumberedUpwards /\ SameWriteSameVersion /\ RevisionOrdersHistory

LEMMA WorldTyped ==
    ASSUME world \in Worlds
    PROVE  Offset \in [Devices -> Nat] /\ Restorers \subseteq Devices
BY ReplicaConstants DEF Offset, Restorers

LEMMA InitIInv == Init => IInv
<1> SUFFICES ASSUME Init PROVE IInv
  OBVIOUS
<1>1. Created \in Version
  BY MergeConstants DEF Created, Version, Fields, Unparsable
<1>2. TypeOK
  BY <1>1, ReplicaConstants DEF Init, TypeOK, Writes
<1>3. Copies \subseteq {Created}
  BY DEF Init, Copies
<1>4. NumberedUpwards
  BY <1>3 DEF Init, NumberedUpwards, Created, Writes
<1>5. SameWriteSameVersion
  BY <1>3 DEF SameWriteSameVersion
<1>6. RevisionOrdersHistory
  BY <1>3, ReplicaConstants DEF Init, RevisionOrdersHistory, Created, Writes
<1>7. QED
  BY <1>2, <1>4, <1>5, <1>6 DEF IInv

(* What the four user operations have in common. *)
NewWrite(d, v) ==
    /\ now < EditUntil /\ writes < MaxWrites
    /\ v \in Version
    /\ v.rev > item[d].rev \/ v.rev = MaxRevision
    /\ v.rev <= MaxRevision
    /\ v.updatedAt = Clock(d)
    /\ v.deleted => \/ v.deletedAt = Clock(d)
                    \/ item[d].deleted /\ v.deletedAt = item[d].deletedAt
    /\ v.revBy = BackupRestore => d \in Restorers
    /\ v.content = writes + 1
    /\ writes' = writes + 1
    /\ item' = [item EXCEPT ![d] = v]
    /\ past' = [past EXCEPT ![writes + 1] = past[item[d].content] \cup {item[d].content}]
    /\ UNCHANGED << world, remote, backup, now >>

LEMMA Rewritten ==
    ASSUME NEW u \in Fields, NEW c \in Nat,
           NEW v, v = [u EXCEPT !.content = c], ~u.deleted => u.deletedAt = 0
    PROVE  /\ v \in Version /\ v.content = c
           /\ v.deleted = u.deleted /\ v.deletedAt = u.deletedAt
           /\ v.updatedAt = u.updatedAt /\ v.rev = u.rev /\ v.revBy = u.revBy
<1>1. /\ v \in Fields /\ v.content = c
      /\ v.deleted = u.deleted /\ v.deletedAt = u.deletedAt
      /\ v.updatedAt = u.updatedAt /\ v.rev = u.rev /\ v.revBy = u.revBy
  BY DEF Fields
<1>2. QED
  BY <1>1 DEF Version

LEMMA NextRevisionGrows ==
    ASSUME NEW r \in Nat
    PROVE  LET n == NextRevision(r)
           IN  n \in Nat /\ n <= MaxRevision /\ (n > r \/ n = MaxRevision)
BY ReplicaConstants DEF NextRevision

LEMMA StampedFields ==
    ASSUME NEW u \in Version, NEW d, Clock(d) \in Nat, Writer[d] \in Nat
    PROVE  LET s == Stamped(d, u)
           IN  /\ s \in Fields /\ s.deleted = u.deleted /\ s.deletedAt = u.deletedAt
               /\ s.updatedAt = Clock(d) /\ s.rev = NextRevision(u.rev)
               /\ s.revBy = Writer[d]
<1>1. u \in Fields /\ NextRevision(u.rev) \in Nat
  BY NextRevisionGrows DEF Version, Fields
<1>2. QED
  BY <1>1 DEF Stamped, Fields

LEMMA UserWrite ==
    ASSUME TypeOK, NEW d \in Devices,
           Update(d) \/ Delete(d) \/ Restore(d) \/ RestoreBackup(d)
    PROVE  \E v : NewWrite(d, v)
<1> DEFINE s == Stamped(d, item[d])
<1>1. /\ item[d] \in Version /\ backup[d] \in Version
      /\ Clock(d) \in Nat /\ writes + 1 \in Nat
      /\ Writer[d] \in Nat /\ Writer[d] # BackupRestore /\ BackupRestore \in Nat
  BY WorldTyped, ReplicaConstants, MergeConstants DEF TypeOK, Clock, Writes
<1>2. /\ item[d].rev \in Nat /\ backup[d].rev \in Nat /\ backup[d] \in Fields
      /\ backup[d].deleted \in BOOLEAN
      /\ ~item[d].deleted => item[d].deletedAt = 0
  BY <1>1 DEF Version, Fields
<1>3. /\ s \in Fields /\ s.deleted = item[d].deleted /\ s.deletedAt = item[d].deletedAt
      /\ s.updatedAt = Clock(d) /\ s.revBy = Writer[d]
      /\ s.rev <= MaxRevision /\ (s.rev > item[d].rev \/ s.rev = MaxRevision)
  BY <1>1, <1>2, StampedFields, NextRevisionGrows
<1> HIDE DEF s
<1>4. CASE Update(d)
  <2> DEFINE v == [s EXCEPT !.content = writes + 1]
  <2>1. /\ v \in Version /\ v.content = writes + 1
        /\ v.deleted = s.deleted /\ v.deletedAt = s.deletedAt
        /\ v.updatedAt = s.updatedAt /\ v.rev = s.rev /\ v.revBy = s.revBy
    BY <1>1, <1>2, <1>3, Rewritten
  <2>2. Update(d) => /\ now < EditUntil /\ writes < MaxWrites
                     /\ writes' = writes + 1 /\ item' = [item EXCEPT ![d] = v]
    BY DEF Update, Write, s
  <2> HIDE DEF v
  <2>3. NewWrite(d, v)
    BY <1>1, <1>2, <1>3, <1>4, <2>1, <2>2 DEF Update, Write, NewWrite
  <2>4. QED
    BY <2>3
<1>5. CASE Delete(d)
  <2> DEFINE u == [s EXCEPT !.deleted = TRUE, !.deletedAt = Clock(d)]
             v == [u EXCEPT !.content = writes + 1]
  <2>1. /\ u \in Fields /\ u.deleted /\ u.deletedAt = Clock(d)
        /\ u.updatedAt = s.updatedAt /\ u.rev = s.rev /\ u.revBy = s.revBy
    BY <1>1, <1>3 DEF Fields
  <2>2. Delete(d) => /\ now < EditUntil /\ writes < MaxWrites
                     /\ writes' = writes + 1 /\ item' = [item EXCEPT ![d] = v]
    BY DEF Delete, Write, s
  <2> HIDE DEF u
  <2>3. /\ v \in Version /\ v.content = writes + 1 /\ v.deletedAt = u.deletedAt
        /\ v.updatedAt = u.updatedAt /\ v.rev = u.rev /\ v.revBy = u.revBy
    BY <1>1, <2>1, Rewritten
  <2> HIDE DEF v
  <2>4. NewWrite(d, v)
    BY <1>1, <1>2, <1>3, <1>5, <2>1, <2>2, <2>3 DEF Delete, Write, NewWrite
  <2>5. QED
    BY <2>4
<1>6. CASE Restore(d)
  <2> DEFINE u == [s EXCEPT !.deleted = FALSE, !.deletedAt = 0]
             v == [u EXCEPT !.content = writes + 1]
  <2>1. /\ u \in Fields /\ ~u.deleted /\ u.deletedAt = 0
        /\ u.updatedAt = s.updatedAt /\ u.rev = s.rev /\ u.revBy = s.revBy
    BY <1>1, <1>3 DEF Fields
  <2>2. Restore(d) => /\ now < EditUntil /\ writes < MaxWrites
                      /\ writes' = writes + 1 /\ item' = [item EXCEPT ![d] = v]
    BY DEF Restore, Write, s
  <2> HIDE DEF u
  <2>3. /\ v \in Version /\ v.content = writes + 1 /\ v.deleted = u.deleted
        /\ v.updatedAt = u.updatedAt /\ v.rev = u.rev /\ v.revBy = u.revBy
    BY <1>1, <2>1, Rewritten
  <2> HIDE DEF v
  <2>4. NewWrite(d, v)
    BY <1>1, <1>2, <1>3, <1>6, <2>1, <2>2, <2>3 DEF Restore, Write, NewWrite
  <2>5. QED
    BY <2>4
<1>7. CASE RestoreBackup(d)
  <2> DEFINE rev == IF backup[d].rev > item[d].rev THEN backup[d].rev ELSE item[d].rev
             next == NextRevision(rev)
             at == IF backup[d].deleted THEN Clock(d) ELSE 0
             u == [backup[d] EXCEPT !.updatedAt = Clock(d), !.deletedAt = at,
                                    !.rev = next, !.revBy = BackupRestore]
             v == [u EXCEPT !.content = writes + 1]
  <2>1. /\ next \in Nat /\ next <= MaxRevision /\ at \in Nat
        /\ next > item[d].rev \/ next = MaxRevision
    <3>1. rev \in Nat /\ rev >= item[d].rev /\ at \in Nat
      BY <1>1, <1>2
    <3> HIDE DEF rev
    <3>2. QED
      BY <1>2, <3>1, NextRevisionGrows
  <2>2. at = 0 \/ backup[d].deleted
    OBVIOUS
  <2>3. at = Clock(d) \/ ~backup[d].deleted
    OBVIOUS
  <2>4. RestoreBackup(d) => /\ now < EditUntil /\ writes < MaxWrites /\ d \in Restorers
                            /\ writes' = writes + 1 /\ item' = [item EXCEPT ![d] = v]
    BY DEF RestoreBackup, Write
  <2> HIDE DEF rev, next, at
  <2>5. /\ u \in Fields /\ u.deleted = backup[d].deleted /\ u.deletedAt = at
        /\ u.updatedAt = Clock(d) /\ u.rev = next
    BY <1>1, <1>2, <2>1 DEF Fields
  <2> HIDE DEF u
  <2>6. /\ v \in Version /\ v.content = writes + 1
        /\ v.deleted = u.deleted /\ v.deletedAt = u.deletedAt
        /\ v.updatedAt = u.updatedAt /\ v.rev = u.rev
    BY <1>1, <2>2, <2>5, Rewritten
  <2> HIDE DEF v
  <2>7. NewWrite(d, v)
    BY <1>1, <1>2, <1>7, <2>1, <2>3, <2>4, <2>5, <2>6 DEF RestoreBackup, Write, NewWrite
  <2>8. QED
    BY <2>7
<1>8. QED
  BY <1>4, <1>5, <1>6, <1>7

(* A write extends the history above everything there is. *)
LEMMA WriteIInv ==
    ASSUME IInv, NEW d \in Devices, NEW v, NewWrite(d, v)
    PROVE  IInv'
<1>1. /\ TypeOK /\ NumberedUpwards /\ SameWriteSameVersion /\ RevisionOrdersHistory
      /\ writes \in Nat /\ writes + 1 \in Writes /\ v \in Version
      /\ item[d] \in Copies
  BY ReplicaConstants DEF IInv, NewWrite, TypeOK, Writes, Copies
<1>2. Copies' \subseteq Copies \cup {v}
  BY <1>1 DEF NewWrite, Copies, TypeOK
<1>3. \A c \in Copies : /\ c \in Version /\ c.content \in Nat /\ c.content <= writes
                        /\ c.rev \in Nat
                        /\ past'[c.content] = past[c.content]
                        /\ c.content \in Writes
  <2> TAKE c \in Copies
  <2>1. c \in Version
    BY <1>1 DEF Copies, TypeOK
  <2>2. c.content \in Nat /\ c.rev \in Nat
    BY <2>1 DEF Version, Fields
  <2>3. c.content <= writes
    BY <1>1 DEF NumberedUpwards
  <2>4. c.content \in Writes /\ c.content # writes + 1
    BY <1>1, <2>2, <2>3, ReplicaConstants DEF Writes
  <2>5. past'[c.content] = past[c.content]
    BY <1>1, <2>4 DEF NewWrite, TypeOK
  <2>6. QED
    BY <2>1, <2>2, <2>3, <2>4, <2>5
<1>4. past'[writes + 1] = past[item[d].content] \cup {item[d].content}
  BY <1>1 DEF NewWrite, TypeOK
<1>5. TypeOK'
  <2>1. item[d].content \in Writes /\ past[item[d].content] \subseteq Writes
    BY <1>1, <1>3 DEF TypeOK
  <2>2. QED
    BY <1>1, <2>1 DEF NewWrite, TypeOK
<1>6. NumberedUpwards'
  <2>1. \A c \in Copies' : c.content <= writes'
    BY <1>1, <1>2, <1>3 DEF NewWrite
  <2>2. ASSUME NEW w \in Writes', NEW x \in past'[w] PROVE x < w
    <3>1. CASE w = writes + 1
      <4>1. x = item[d].content \/ x \in past[item[d].content]
        BY <1>4, <2>2, <3>1
      <4>2. item[d].content \in Writes /\ item[d].content <= writes
        BY <1>1, <1>3
      <4>3. x \in Nat /\ x <= item[d].content
        BY <1>1, <4>1, <4>2, ReplicaConstants DEF NumberedUpwards, TypeOK, Writes
      <4>4. QED
        BY <1>1, <3>1, <4>2, <4>3 DEF Writes
    <3>2. CASE w # writes + 1
      <4>1. w \in Writes /\ past'[w] = past[w]
        BY <1>1, <3>2 DEF NewWrite, TypeOK, Writes
      <4>2. QED
        BY <1>1, <2>2, <4>1 DEF NumberedUpwards
    <3>3. QED
      BY <3>1, <3>2
  <2>3. QED
    BY <2>1, <2>2 DEF NumberedUpwards
<1>7. SameWriteSameVersion'
  <2>1. \A c \in Copies : c.content # v.content
    BY <1>1, <1>3 DEF NewWrite
  <2>2. QED
    BY <1>1, <1>2, <2>1 DEF SameWriteSameVersion
<1>8. RevisionOrdersHistory'
  <2> SUFFICES ASSUME NEW x \in Copies', NEW y \in Copies', x.content \in past'[y.content]
               PROVE  x.rev < y.rev \/ y.rev = MaxRevision
    BY DEF RevisionOrdersHistory
  <2>1. /\ v.content = writes + 1 /\ v.rev \in Nat
        /\ v.rev <= MaxRevision /\ (v.rev > item[d].rev \/ v.rev = MaxRevision)
    BY DEF NewWrite, Version, Fields
  <2>2. CASE y \in Copies
    <3>1. x.content \in past[y.content] /\ x.content < y.content /\ y.content <= writes
      BY <1>1, <1>3, <2>2 DEF NumberedUpwards
    <3>2. x \in Copies
      BY <1>1, <1>2, <1>3, <2>1, <2>2, <3>1
    <3>3. QED
      BY <1>1, <2>2, <3>1, <3>2 DEF RevisionOrdersHistory
  <2>3. CASE y = v
    <3>1. x.content \in past[item[d].content] \cup {item[d].content}
      BY <1>4, <2>1, <2>3
    <3>2. item[d].content <= writes /\ item[d].content \in Writes
      BY <1>1, <1>3
    <3>3. x.content <= writes
      BY <1>1, <3>1, <3>2, ReplicaConstants DEF NumberedUpwards, TypeOK, Writes
    <3>4. x \in Copies
      BY <1>1, <1>2, <2>1, <3>3
    <3>5. CASE x.content = item[d].content
      <4>1. x = item[d]
        BY <1>1, <3>4, <3>5 DEF SameWriteSameVersion
      <4>2. QED
        BY <2>1, <2>3, <4>1
    <3>6. CASE x.content \in past[item[d].content]
      <4>1. x.rev < item[d].rev \/ item[d].rev = MaxRevision
        BY <1>1, <3>4, <3>6 DEF RevisionOrdersHistory
      <4>2. QED
        BY <1>1, <1>3, <2>1, <2>3, <3>4, <4>1
    <3>7. QED
      BY <3>1, <3>5, <3>6
  <2>4. QED
    BY <1>2, <2>2, <2>3
<1>9. QED
  BY <1>5, <1>6, <1>7, <1>8 DEF IInv

(* A sync only spreads a copy there already is. *)
LEMMA SyncKeepsCopies ==
    ASSUME TypeOK, NEW d \in Devices, Sync(d)
    PROVE  /\ Copies' \subseteq Copies
           /\ remote' \in {item[d], remote} /\ remote' \in Version
           /\ item' = [item EXCEPT ![d] = remote']
BY WinnerIsCandidate DEF Sync, Copies, TypeOK

LEMMA NextIInv == IInv /\ [Next]_vars => IInv'
<1> SUFFICES ASSUME IInv, [Next]_vars PROVE IInv'
  OBVIOUS
<1> USE DEF IInv
<1>1. ASSUME UNCHANGED << world, item, remote, writes, past >>,
             backup' \in [Devices -> Version], now' \in Nat
      PROVE  IInv'
  BY <1>1 DEF TypeOK, NumberedUpwards, SameWriteSameVersion, RevisionOrdersHistory, Copies
<1>2. CASE Tick
  BY <1>1, <1>2 DEF Tick, TypeOK
<1>3. ASSUME NEW d \in Devices, ExportBackup(d) PROVE IInv'
  BY <1>1, <1>3 DEF ExportBackup, TypeOK
<1>4. ASSUME NEW d \in Devices, Sync(d) PROVE IInv'
  <2>1. /\ Copies' \subseteq Copies
        /\ remote' \in Version /\ item' = [item EXCEPT ![d] = remote']
        /\ UNCHANGED << world, backup, now, writes, past >>
    BY <1>4, SyncKeepsCopies DEF Sync
  <2>2. TypeOK'
    BY <2>1 DEF TypeOK
  <2>3. NumberedUpwards' /\ SameWriteSameVersion' /\ RevisionOrdersHistory'
    BY <2>1 DEF NumberedUpwards, SameWriteSameVersion, RevisionOrdersHistory
  <2>4. QED
    BY <2>2, <2>3
<1>5. ASSUME NEW d \in Devices, Update(d) \/ Delete(d) \/ Restore(d) \/ RestoreBackup(d)
      PROVE  IInv'
  BY <1>5, UserWrite, WriteIInv
<1>6. CASE UNCHANGED vars
  BY <1>1, <1>6 DEF vars, TypeOK
<1>7. QED
  BY <1>2, <1>3, <1>4, <1>5, <1>6 DEF Next

(* The variables keep their types. *)
THEOREM TypeCorrect == Spec => []TypeOK
<1>1. IInv => TypeOK
  BY DEF IInv
<1>2. QED
  BY <1>1, InitIInv, NextIInv, PTL DEF Spec

(* A write made on top of another carries a higher revision, or the        *)
(* highest there is, for every number of devices, clock offset and number  *)
(* of writes.                                                              *)
THEOREM HistoryOrdered == Spec => []RevisionOrdersHistory
<1>1. IInv => RevisionOrdersHistory
  BY DEF IInv
<1>2. QED
  BY <1>1, InitIInv, NextIInv, PTL DEF Spec

-----------------------------------------------------------------------------
(* Causality.  Clocks that agree within the window make a write's stamp at *)
(* most a window older than the stamps it saw; then either the later time  *)
(* or, inside the window, the higher revision decides for it.  A restored  *)
(* backup is the exception: it wins by time alone.                         *)

(* The later of a tombstone's two stamps, as the merge reads it unclamped. *)
Stamp(v) == IF v.deleted /\ v.deletedAt > v.updatedAt THEN v.deletedAt ELSE v.updatedAt

Honest(v) ==
    /\ v.updatedAt \in Nat
    /\ v.revBy # BackupRestore
    /\ v.deleted => v.deletedAt \in Nat

StampsBounded ==
    /\ now >= 1
    /\ \A v \in Copies : Honest(v)
    /\ \A v \in Copies : \A d \in Devices : Stamp(v) <= Clock(d) + Window

StampsFollowHistory ==
    \A v, w \in Copies : v.content \in past[w.content] => Stamp(v) <= Stamp(w) + Window

CInv == IInv /\ StampsBounded /\ StampsFollowHistory

LEMMA LaterWriteWins ==
    ASSUME NEW a \in Version, NEW b \in Version, NEW c \in Nat,
           Honest(a), Honest(b),
           Stamp(a) <= c + Skew, Stamp(b) <= c + Skew,
           a.rev < b.rev, Stamp(a) <= Stamp(b) + Window
    PROVE  Winner(a, b, c) = b /\ Winner(b, a, c) = b
<1>1. /\ a.updatedAt \in Nat /\ b.updatedAt \in Nat /\ a.rev \in Nat /\ b.rev \in Nat
      /\ a.deleted \in BOOLEAN /\ b.deleted \in BOOLEAN
      /\ Skew \in Nat /\ Window \in Nat
  BY MergeConstants DEF Honest, Version, Fields
<1>2. \A v \in {a, b} : OperationTime(v, c) = Stamp(v) /\ Stamp(v) \in Nat
  <2> TAKE v \in {a, b}
  <2>1. /\ v.updatedAt \in Nat /\ Stamp(v) <= c + Skew
        /\ v.deleted => v.deletedAt \in Nat
    BY DEF Honest
  <2>2. SafeTime(v.updatedAt, c) = v.updatedAt
    BY <1>1, <2>1 DEF SafeTime, Clamped, Stamp
  <2>3. v.deleted => SafeTime(v.deletedAt, c) = v.deletedAt
    BY <1>1, <2>1 DEF SafeTime, Clamped, Stamp
  <2>4. QED
    BY <2>1, <2>2, <2>3 DEF OperationTime, Stamp, Unparsable
<1>3. /\ OperationTime(a, c) = Stamp(a) /\ OperationTime(b, c) = Stamp(b)
      /\ Stamp(a) \in Nat /\ Stamp(b) \in Nat
  BY <1>2
<1>4. HasRevision(a, b) /\ HasRevision(b, a)
  BY <1>1 DEF HasRevision
<1>5. ~RevisionBeats(a, b, c)
  BY <1>1 DEF RevisionBeats
<1>6. ~LiveSurvives(a, b, c)
  <2>1. Stamp(a) - Stamp(b) <= Window
    BY <1>1, <1>3
  <2>2. a.revBy # BackupRestore
    BY DEF Honest
  <2>3. QED
    BY <1>1, <1>3, <2>1, <2>2 DEF LiveSurvives
<1>7. LiveSurvives(b, a, c)
  <2>1. CASE Stamp(b) - Stamp(a) > Window
    BY <1>3, <2>1 DEF LiveSurvives
  <2>2. CASE ~(Stamp(b) - Stamp(a) > Window)
    <3>1. Abs(Stamp(b) - Stamp(a)) <= Window
      BY <1>1, <1>3, <2>2 DEF Abs
    <3>2. b.rev >= a.rev
      BY <1>1
    <3>3. QED
      BY <1>3, <1>4, <3>1, <3>2 DEF LiveSurvives
  <2>3. QED
    BY <2>1, <2>2
<1>8. ~Beats(a, b, c)
  BY <1>1, <1>4, <1>5, <1>6, <1>7 DEF Beats
<1>9. QED
  BY <1>8, WinnerSymmetric DEF Winner

LEMMA WorldFixed == [Next]_vars => world' = world
BY DEF Next, Tick, Update, Delete, Restore, RestoreBackup, Write, ExportBackup, Sync, vars

LEMMA InitCInv == Init => CInv
<1> SUFFICES ASSUME Init PROVE CInv
  OBVIOUS
<1>1. Copies \subseteq {Created}
  BY DEF Init, Copies
<1>2. StampsBounded
  BY <1>1, WorldTyped, MergeConstants, ReplicaConstants
  DEF Init, StampsBounded, Honest, Created, Clock, Stamp
<1>3. StampsFollowHistory
  BY <1>1, ReplicaConstants DEF Init, StampsFollowHistory, Created, Writes
<1>4. QED
  BY <1>2, <1>3, InitIInv DEF CInv

LEMMA WriteCInv ==
    ASSUME CInv, CloseClocks, NEW d \in Devices, NEW v, NewWrite(d, v)
    PROVE  CInv'
<1>1. /\ TypeOK /\ NumberedUpwards /\ SameWriteSameVersion /\ RevisionOrdersHistory
      /\ StampsBounded /\ StampsFollowHistory /\ IInv'
  BY WriteIInv DEF CInv, IInv
<1>2. /\ Copies' \subseteq Copies \cup {v} /\ item[d] \in Copies
  BY <1>1 DEF NewWrite, Copies, TypeOK
<1>3. /\ Clock(d) \in Nat /\ Window \in Nat /\ writes \in Nat /\ now' = now
      /\ v.updatedAt = Clock(d) /\ v.content = writes + 1 /\ Offset' = Offset
  BY <1>1, WorldTyped, ReplicaConstants, MergeConstants
  DEF NewWrite, TypeOK, Clock, Writes, Offset
<1>4. Honest(v) /\ Stamp(v) \in Nat /\ Stamp(v) >= Clock(d)
  <2>1. Honest(item[d])
    BY <1>1, <1>2 DEF StampsBounded
  <2>2. Honest(v)
    BY <1>3, <2>1 DEF NewWrite, Honest, CloseClocks
  <2>3. QED
    BY <1>3, <2>2 DEF Honest, Stamp
<1>5. \A e \in Devices : Clock(d) <= Clock(e) + Window
  BY <1>1, <1>3, WorldTyped DEF CloseClocks, Clock, TypeOK
<1>6. StampsBounded'
  <2>1. ASSUME NEW e \in Devices PROVE Stamp(v) <= Clock(e) + Window
    <3>1. Clock(d) <= Clock(e) + Window /\ Stamp(item[d]) <= Clock(e) + Window
      BY <1>1, <1>2, <1>5 DEF StampsBounded
    <3>2. Honest(item[d])
      BY <1>1, <1>2 DEF StampsBounded
    <3>3. item[d].deleted => item[d].deletedAt <= Stamp(item[d])
      BY <3>2 DEF Honest, Stamp
    <3>4. v.deleted => v.deletedAt = Clock(d) \/ (item[d].deleted /\ v.deletedAt = item[d].deletedAt)
      BY DEF NewWrite
    <3>5. Clock(e) \in Nat /\ Stamp(item[d]) \in Nat
      BY <1>1, <3>2, WorldTyped DEF TypeOK, Clock, Honest, Stamp
    <3>6. QED
      BY <1>3, <1>4, <3>1, <3>2, <3>3, <3>4, <3>5 DEF Stamp, Honest
  <2>2. QED
    BY <1>1, <1>2, <1>3, <1>4, <2>1 DEF StampsBounded, Clock
<1>7. StampsFollowHistory'
  <2> SUFFICES ASSUME NEW x \in Copies', NEW y \in Copies', x.content \in past'[y.content]
               PROVE  Stamp(x) <= Stamp(y) + Window
    BY DEF StampsFollowHistory
  <2>1. \A c \in Copies : c.content \in Nat /\ c.content <= writes /\ Stamp(c) \in Nat
    BY <1>1 DEF NumberedUpwards, Copies, TypeOK, Version, Fields, StampsBounded, Honest, Stamp
  <2>2. /\ x.content < y.content
    <3>1. \A c \in Copies' : c.content \in Nat /\ c.content <= writes'
      BY <1>1 DEF IInv, NumberedUpwards, Copies, TypeOK, Version, Fields
    <3>2. y.content \in Writes
      BY <1>1, <3>1, ReplicaConstants DEF IInv, TypeOK, Writes
    <3>3. QED
      BY <1>1, <3>2 DEF IInv, NumberedUpwards, Writes
  <2>3. x \in Copies
    BY <1>2, <1>3, <2>1, <2>2
  <2>4. CASE y = v
    BY <1>1, <1>3, <1>4, <2>1, <2>3, <2>4 DEF StampsBounded
  <2>5. CASE y \in Copies
    <3>1. past'[y.content] = past[y.content]
      <4>1. y.content # writes + 1 /\ y.content \in Writes
        BY <1>1, <1>3, <2>1, <2>5, ReplicaConstants DEF TypeOK, Writes
      <4>2. QED
        BY <1>1, <4>1 DEF NewWrite, TypeOK
    <3>2. QED
      BY <1>1, <2>3, <2>5, <3>1 DEF StampsFollowHistory
  <2>6. QED
    BY <1>2, <2>4, <2>5
<1>8. QED
  BY <1>1, <1>6, <1>7 DEF CInv

LEMMA NextCInv == CInv /\ CloseClocks /\ [Next]_vars => CInv'
<1> SUFFICES ASSUME CInv, CloseClocks, [Next]_vars PROVE CInv'
  OBVIOUS
<1>1. IInv' /\ TypeOK /\ StampsBounded /\ StampsFollowHistory
  BY NextIInv DEF CInv, IInv
<1>2. ASSUME Copies' \subseteq Copies, past' = past, now' \in Nat, now' >= now
      PROVE  CInv'
  <2>1. \A v \in Copies : \A d \in Devices : Stamp(v) <= Clock(d)' + Window
    <3> SUFFICES ASSUME NEW v \in Copies, NEW d \in Devices
                 PROVE  Stamp(v) <= Clock(d)' + Window
      OBVIOUS
    <3>1. /\ Stamp(v) <= Clock(d) + Window /\ Stamp(v) \in Nat
          /\ now \in Nat /\ Window \in Nat /\ Offset[d] \in Nat /\ Offset' = Offset
      BY <1>1, WorldTyped, WorldFixed, MergeConstants
      DEF StampsBounded, Honest, TypeOK, Stamp, Offset
    <3>2. QED
      BY <1>2, <3>1 DEF Clock
  <2>2. StampsBounded'
    BY <1>1, <1>2, <2>1 DEF StampsBounded, TypeOK, Honest
  <2>3. StampsFollowHistory'
    BY <1>1, <1>2 DEF StampsFollowHistory
  <2>4. QED
    BY <1>1, <2>2, <2>3 DEF CInv
<1>3. CASE Tick
  <2>1. now' \in Nat /\ now' >= now /\ past' = past /\ Copies' \subseteq Copies
    BY <1>1, <1>3 DEF Tick, Copies, TypeOK
  <2>2. QED
    BY <1>2, <2>1
<1>4. ASSUME NEW d \in Devices, ExportBackup(d) PROVE CInv'
  BY <1>1, <1>2, <1>4 DEF ExportBackup, Copies, TypeOK
<1>5. ASSUME NEW d \in Devices, Sync(d) PROVE CInv'
  <2>1. Copies' \subseteq Copies
    BY <1>1, <1>5, SyncKeepsCopies
  <2>2. now' \in Nat /\ now' >= now /\ past' = past
    BY <1>1, <1>5 DEF Sync, TypeOK
  <2>3. QED
    BY <1>2, <2>1, <2>2
<1>6. ASSUME NEW d \in Devices, Update(d) \/ Delete(d) \/ Restore(d) \/ RestoreBackup(d)
      PROVE  CInv'
  BY <1>1, <1>6, UserWrite, WriteCInv
<1>7. CASE UNCHANGED vars
  BY <1>1, <1>2, <1>7 DEF vars, Copies, TypeOK
<1>8. QED
  BY <1>3, <1>4, <1>5, <1>6, <1>7 DEF Next

(* No step of any kind goes back to a version the present one was made from. *)

LEMMA NotOwnHistory ==
    ASSUME IInv, NEW v \in Copies
    PROVE  v.content \in Writes /\ ~Undoes(v, v)
<1>1. v.content \in Nat /\ v.content <= writes /\ writes \in Nat /\ writes <= MaxWrites
  BY ReplicaConstants DEF IInv, TypeOK, NumberedUpwards, Copies, Version, Fields, Writes
<1>2. QED
  BY <1>1, ReplicaConstants DEF IInv, NumberedUpwards, Writes, Undoes

LEMMA SyncUndoesNothing ==
    ASSUME CInv, CloseClocks, NEW d \in Devices, Sync(d)
    PROVE  UndoesNothing
<1> DEFINE W == Winner(item[d], remote, Clock(d))
<1>1. /\ IInv /\ TypeOK /\ StampsBounded /\ StampsFollowHistory /\ RevisionOrdersHistory
      /\ item[d] \in Version /\ remote \in Version
      /\ item[d] \in Copies /\ remote \in Copies
      /\ Clock(d) \in Nat /\ Window \in Nat /\ Skew \in Nat /\ Window <= Skew
  BY WorldTyped, MergeConstants DEF CInv, IInv, TypeOK, Copies, Clock, CloseClocks
<1>2. ASSUME NEW v \in Copies, NEW w \in Copies, v \in Version, w \in Version,
             v.content \in past[w.content], w.rev # MaxRevision
      PROVE  Winner(v, w, Clock(d)) = w /\ Winner(w, v, Clock(d)) = w
  <2>1. v.rev < w.rev /\ Stamp(v) <= Stamp(w) + Window /\ Honest(v) /\ Honest(w)
    BY <1>1, <1>2 DEF RevisionOrdersHistory, StampsFollowHistory, StampsBounded
  <2>2. Stamp(v) <= Clock(d) + Window /\ Stamp(w) <= Clock(d) + Window
    BY <1>1 DEF StampsBounded
  <2>3. Stamp(v) <= Clock(d) + Skew /\ Stamp(w) <= Clock(d) + Skew
    BY <1>1, <2>1, <2>2 DEF Honest, Stamp
  <2>4. QED
    BY <1>1, <1>2, <2>1, <2>3, LaterWriteWins
<1>3. W \in {item[d], remote}
  BY WinnerIsCandidate
<1>4. ~Undoes(remote, W) /\ ~Undoes(item[d], W)
  <2>1. ~Undoes(remote, remote) /\ ~Undoes(item[d], item[d])
    BY <1>1, NotOwnHistory
  <2>2. Undoes(remote, item[d]) => W = remote
    BY <1>1, <1>2 DEF Undoes
  <2>3. Undoes(item[d], remote) => W = item[d]
    BY <1>1, <1>2 DEF Undoes
  <2> HIDE DEF W
  <2>4. QED
    BY <1>3, <2>1, <2>2, <2>3
<1>5. remote' = W /\ item' = [item EXCEPT ![d] = W] /\ past' = past
  BY DEF Sync
<1> HIDE DEF W
<1>6. \A e \in Devices : ~Undoes(item[e], item'[e])
  <2> TAKE e \in Devices
  <2>1. item[e] \in Copies
    BY DEF Copies
  <2>2. CASE e = d
    BY <1>1, <1>4, <1>5, <2>2 DEF TypeOK
  <2>3. CASE e # d
    BY <1>1, <1>5, <2>1, <2>3, NotOwnHistory DEF TypeOK
  <2>4. QED
    BY <2>2, <2>3
<1>7. QED
  BY <1>4, <1>5, <1>6 DEF UndoesNothing

LEMMA WriteUndoesNothing ==
    ASSUME CInv, NEW d \in Devices, NEW v, NewWrite(d, v)
    PROVE  UndoesNothing
<1>1. IInv /\ TypeOK /\ NumberedUpwards /\ remote' = remote /\ writes \in Nat
  BY ReplicaConstants DEF CInv, IInv, NewWrite, TypeOK, Writes
<1>2. \A c \in Copies : c.content \in Writes /\ ~Undoes(c, c)
  BY <1>1, NotOwnHistory
<1>3. \A c \in Copies : ~Undoes(c, v)
  <2> TAKE c \in Copies
  <2>1. c.content \in Nat /\ c.content <= writes
    BY <1>1, <1>2 DEF NumberedUpwards, Writes
  <2>2. v.content = writes + 1
    BY DEF NewWrite
  <2>3. ~(v.content \in past[c.content])
    BY <1>1, <1>2, <2>1, <2>2 DEF NumberedUpwards
  <2>4. QED
    BY <2>3 DEF Undoes
<1>4. \A e \in Devices : item[e] \in Copies /\ item'[e] \in {item[e], v}
  BY <1>1 DEF NewWrite, Copies, TypeOK
<1>5. remote \in Copies
  BY DEF Copies
<1>6. QED
  BY <1>1, <1>2, <1>3, <1>4, <1>5 DEF UndoesNothing

LEMMA NextUndoesNothing ==
    CInv /\ CloseClocks /\ [Next]_vars => UndoesNothing
<1> SUFFICES ASSUME CInv, CloseClocks, [Next]_vars PROVE UndoesNothing
  OBVIOUS
<1>1. IInv
  BY DEF CInv
<1>2. ASSUME UNCHANGED << item, remote >> PROVE UndoesNothing
  BY <1>1, <1>2, NotOwnHistory DEF UndoesNothing, Copies
<1>3. QED
  BY <1>1, <1>2, UserWrite, WriteUndoesNothing, SyncUndoesNothing
  DEF Next, Tick, ExportBackup, IInv, vars

(* With clocks that agree within the ambiguity window and no restored      *)
(* backup, no device and no remote copy ever goes back to a version its    *)
(* present one was made from: a delete, an edit or a restore that saw the  *)
(* other version is not undone by it, as long as revisions can grow.       *)
THEOREM CausalityKept == Spec => NoCausalUndo
<1> DEFINE Inv == IInv /\ (CloseClocks => CInv)
<1>1. Init => Inv
  BY InitIInv, InitCInv
<1>2. Inv /\ [Next]_vars => Inv'
  <2>1. [Next]_vars => (CloseClocks' <=> CloseClocks)
    BY WorldFixed DEF CloseClocks, Offset, Restorers
  <2>2. QED
    BY <2>1, NextIInv, NextCInv
<1>3. Inv /\ [Next]_vars => [CloseClocks => UndoesNothing]_vars
  BY NextUndoesNothing
<1>4. QED
  BY <1>1, <1>2, <1>3, PTL DEF Spec, NoCausalUndo

-----------------------------------------------------------------------------
(* Restored backups.  The stamp of a restored copy comes from the clock of *)
(* a device that restores; if no such clock runs ahead of a peer's by more *)
(* than the skew, no peer ever clamps it, and the tombstone that wins      *)
(* against it must carry a later stamp of its own, clamped or not.         *)

RestoresAreStamped ==
    \A v \in Copies : v.revBy = BackupRestore =>
        /\ v.updatedAt \in Nat
        /\ \E r \in Restorers : v.updatedAt <= Clock(r)

RInv == IInv /\ RestoresAreStamped

LEMMA InitRInv == Init => RInv
<1>1. Init => \A v \in Copies : v.revBy # BackupRestore
  BY MergeConstants DEF Init, Copies, Created
<1>2. QED
  BY <1>1, InitIInv DEF RInv, RestoresAreStamped

LEMMA NextRInv == RInv /\ [Next]_vars => RInv'
<1> SUFFICES ASSUME RInv, [Next]_vars PROVE RInv'
  OBVIOUS
<1>1. IInv' /\ IInv /\ TypeOK /\ RestoresAreStamped /\ Restorers' = Restorers /\ Offset' = Offset
  BY NextIInv, WorldFixed DEF RInv, IInv, Restorers, Offset
<1>2. \A r \in Restorers : r \in Devices /\ Clock(r) \in Nat
  BY <1>1, WorldTyped DEF TypeOK, Clock
<1>3. ASSUME Copies' \subseteq Copies, now' \in Nat, now' >= now
      PROVE  RInv'
  <2> SUFFICES ASSUME NEW v \in Copies', v.revBy = BackupRestore
               PROVE  /\ v.updatedAt \in Nat
                      /\ \E r \in Restorers' : v.updatedAt <= Clock(r)'
    BY <1>1 DEF RInv, RestoresAreStamped
  <2>1. v.updatedAt \in Nat
    BY <1>1, <1>3 DEF RestoresAreStamped
  <2>2. PICK r \in Restorers : v.updatedAt <= Clock(r)
    BY <1>1, <1>3 DEF RestoresAreStamped
  <2>3. Clock(r)' >= Clock(r) /\ Clock(r)' \in Nat /\ Clock(r) \in Nat
    BY <1>1, <1>2, <1>3, WorldTyped DEF Clock, TypeOK
  <2>4. v.updatedAt <= Clock(r)'
    BY <2>1, <2>2, <2>3
  <2>5. QED
    BY <1>1, <2>1, <2>4
<1>4. CASE Tick
  <2>1. now' \in Nat /\ now' >= now /\ Copies' \subseteq Copies
    BY <1>1, <1>4 DEF Tick, Copies, TypeOK
  <2>2. QED
    BY <1>3, <2>1
<1>5. ASSUME NEW d \in Devices, ExportBackup(d) PROVE RInv'
  BY <1>1, <1>3, <1>5 DEF ExportBackup, Copies, TypeOK
<1>6. ASSUME NEW d \in Devices, Sync(d) PROVE RInv'
  <2>1. Copies' \subseteq Copies
    BY <1>1, <1>6, SyncKeepsCopies
  <2>2. now' \in Nat /\ now' >= now
    BY <1>1, <1>6 DEF Sync, TypeOK
  <2>3. QED
    BY <1>3, <2>1, <2>2
<1>7. ASSUME NEW d \in Devices, Update(d) \/ Delete(d) \/ Restore(d) \/ RestoreBackup(d)
      PROVE  RInv'
  <2>1. PICK v : NewWrite(d, v)
    BY <1>1, <1>7, UserWrite
  <2>2. Copies' \subseteq Copies \cup {v}
    BY <1>1, <2>1 DEF NewWrite, Copies, TypeOK
  <2>3. Clock(d) \in Nat /\ now' = now
    <3>1. now \in Nat /\ Offset[d] \in Nat
      BY <1>1, WorldTyped DEF TypeOK
    <3>2. QED
      BY <2>1, <3>1 DEF Clock, NewWrite
  <2>4. v.updatedAt = Clock(d) /\ (v.revBy = BackupRestore => d \in Restorers)
    BY <2>1 DEF NewWrite
  <2>5. v.revBy = BackupRestore => \E r \in Restorers : v.updatedAt <= Clock(r)
    BY <2>3, <2>4
  <2>6. RestoresAreStamped'
    BY <1>1, <2>2, <2>3, <2>4, <2>5 DEF RestoresAreStamped, Clock
  <2>7. QED
    BY <1>1, <2>6 DEF RInv
<1>8. CASE UNCHANGED vars
  BY <1>1, <1>3, <1>8 DEF vars, Copies, TypeOK
<1>9. QED
  BY <1>4, <1>5, <1>6, <1>7, <1>8 DEF Next

(* Against a restored copy whose stamp is not clamped, only a tombstone    *)
(* with a later stamp wins.                                                *)
LEMMA OnlyNewerDeleteWins ==
    ASSUME NEW live \in Version, NEW dead \in Version, NEW c \in Nat,
           ~live.deleted, dead.deleted, live.revBy = BackupRestore,
           live.updatedAt \in Nat, live.updatedAt <= c + Skew,
           Winner(live, dead, c) = dead \/ Winner(dead, live, c) = dead
    PROVE  dead.deletedAt > live.updatedAt \/ dead.updatedAt > live.updatedAt
<1>1. /\ Skew \in Nat
      /\ dead.updatedAt \in Int /\ dead.deletedAt \in Int
  BY MergeConstants DEF Version, Fields, Unparsable
<1>2. ~LiveSurvives(live, dead, c)
  <2>1. live # dead
    OBVIOUS
  <2>2. LiveSurvives(live, dead, c) => Beats(live, dead, c) /\ ~Beats(dead, live, c)
    BY DEF Beats
  <2>3. QED
    BY <2>1, <2>2 DEF Winner
<1>3. OperationTime(live, c) = live.updatedAt
  BY <1>1 DEF OperationTime, SafeTime, Clamped
<1>4. OperationTime(dead, c) \in {SafeTime(dead.updatedAt, c), SafeTime(dead.deletedAt, c)}
  BY DEF OperationTime
<1>5. ASSUME NEW t \in Int
      PROVE  SafeTime(t, c) \in Int /\ SafeTime(t, c) <= t
  BY <1>1 DEF SafeTime, Clamped
<1>6. OperationTime(dead, c) \in Int
  BY <1>1, <1>4, <1>5
<1>7. live.updatedAt < OperationTime(dead, c)
  <2>1. ~(OperationTime(live, c) - OperationTime(dead, c) >= 0)
    BY <1>2 DEF LiveSurvives
  <2>2. QED
    BY <1>3, <1>6, <2>1
<1>8. QED
  BY <1>1, <1>4, <1>5, <1>6, <1>7

LEMMA SyncKeepsRestored ==
    ASSUME RInv, TimelyRestorers, NEW e \in Devices, Sync(e)
    PROVE  NoOlderDeleteWins
<1> SUFFICES ASSUME NEW d \in Devices, NEW old \in {item[d], remote},
                    ~old.deleted, old.revBy = BackupRestore,
                    remote' \in {item[d], remote}, remote'.deleted, item'[d] = remote'
             PROVE  remote'.deletedAt > old.updatedAt \/ remote'.updatedAt > old.updatedAt
  BY DEF NoOlderDeleteWins
<1>1. /\ TypeOK /\ RestoresAreStamped
      /\ item[e] \in Version /\ remote \in Version /\ item[d] \in Version
      /\ item[d] \in Copies /\ remote \in Copies
      /\ Clock(e) \in Nat /\ Skew \in Nat
  BY WorldTyped, MergeConstants DEF RInv, IInv, TypeOK, Copies, Clock
<1>2. /\ remote' = Winner(item[e], remote, Clock(e))
      /\ remote' \in {item[e], remote}
      /\ d # e => item'[d] = item[d]
  BY <1>1, WinnerIsCandidate DEF Sync, TypeOK
(* The deletion that won and the restored copy are the two it chose from. *)
<1>3. /\ old \in {item[e], remote} /\ remote' # old
      /\ item[e].deleted # remote.deleted
  <2>1. remote' # old
    OBVIOUS
  <2>2. CASE d = e
    BY <1>2, <2>1, <2>2
  <2>3. CASE d # e
    <3>1. item[d].deleted
      BY <1>2, <2>3
    <3>2. old = remote /\ remote' = item[e]
      BY <1>2, <2>1, <3>1
    <3>3. QED
      BY <2>1, <3>2
  <2>4. QED
    BY <2>2, <2>3
<1>4. old.updatedAt \in Nat /\ old.updatedAt <= Clock(e) + Skew
  <2>1. old \in Copies
    BY <1>1
  <2>2. old.updatedAt \in Nat /\ \E r \in Restorers : old.updatedAt <= Clock(r)
    BY <1>1, <2>1 DEF RestoresAreStamped
  <2>3. PICK r \in Restorers : old.updatedAt <= Clock(r)
    BY <2>2
  <2>4. /\ now \in Nat /\ Offset[r] \in Nat /\ Offset[e] \in Nat
        /\ Offset[r] <= Offset[e] + Skew
    BY <1>1, WorldTyped DEF TypeOK, TimelyRestorers
  <2>5. QED
    BY <1>1, <2>2, <2>3, <2>4 DEF Clock
<1>5. CASE old = remote
  BY <1>1, <1>2, <1>3, <1>4, <1>5, OnlyNewerDeleteWins
<1>6. CASE old = item[e]
  BY <1>1, <1>2, <1>3, <1>4, <1>6, OnlyNewerDeleteWins
<1>7. QED
  BY <1>3, <1>5, <1>6

(* Only a sync replaces one copy by another. *)
LEMMA NextKeepsRestored == RInv /\ TimelyRestorers /\ [Next]_vars => NoOlderDeleteWins
<1> SUFFICES ASSUME RInv, TimelyRestorers, [Next]_vars PROVE NoOlderDeleteWins
  OBVIOUS
<1>1. ASSUME UNCHANGED << item, remote >> PROVE NoOlderDeleteWins
  BY <1>1 DEF NoOlderDeleteWins
<1>2. ASSUME NEW e \in Devices, NEW v, NewWrite(e, v) PROVE NoOlderDeleteWins
  <2>1. /\ TypeOK /\ writes \in Nat
        /\ \A c \in Copies : c.content <= writes
    BY ReplicaConstants DEF RInv, IInv, TypeOK, NumberedUpwards, Writes
  <2>2. ~(v \in Copies)
    BY <1>2, <2>1 DEF NewWrite
  <2>3. \A d \in Devices : item'[d] \in {item[d], v} /\ item[d] \in Copies
    BY <1>2, <2>1 DEF NewWrite, TypeOK, Copies
  <2>4. remote' = remote /\ remote \in Copies
    BY <1>2 DEF NewWrite, Copies
  <2>5. QED
    BY <2>2, <2>3, <2>4 DEF NoOlderDeleteWins
<1>3. ASSUME NEW e \in Devices, Update(e) \/ Delete(e) \/ Restore(e) \/ RestoreBackup(e)
      PROVE  NoOlderDeleteWins
  BY <1>2, <1>3, UserWrite DEF RInv, IInv
<1>4. ASSUME NEW e \in Devices, Sync(e) PROVE NoOlderDeleteWins
  BY <1>4, SyncKeepsRestored
<1>5. QED
  BY <1>1, <1>3, <1>4 DEF Next, Tick, ExportBackup, vars

(* No deletion last touched before a backup was restored takes the         *)
(* restored entity away again, for any number of devices, writes and       *)
(* revisions and any clocks, as long as no clock of a device that restores *)
(* runs ahead of a peer's by more than the skew.                           *)
THEOREM RestoresStand == Spec => RestoreOutlivesOlderDeletes
<1>1. RInv /\ [Next]_vars => [TimelyRestorers => NoOlderDeleteWins]_vars
  BY NextKeepsRestored
<1>2. QED
  BY <1>1, InitRInv, NextRInv, PTL DEF Spec, RestoreOutlivesOlderDeletes

=============================================================================
