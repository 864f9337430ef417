--------------------------- MODULE EntityMergeProofs ---------------------------
(***************************************************************************)
(* What the arbitration of EntityMerge guarantees for all versions, clocks *)
(* and thresholds.                                                         *)
(***************************************************************************)
EXTENDS EntityMerge, TLAPS

(* The arbitration never invents a version. *)
LEMMA WinnerIsCandidate ==
    ASSUME NEW a, NEW b, NEW now
    PROVE  Winner(a, b, now) \in {a, b}
BY DEF Winner

(* The two signatures together order any two different versions. *)
LEMMA SignatureTotal ==
    ASSUME NEW a \in Version, NEW b \in Version, a.deleted = b.deleted, a # b
    PROVE  SignatureGreater(a, b) <=> ~SignatureGreater(b, a)
BY DEF SignatureGreater, Version, Fields, Unparsable

LEMMA TimeDiffInt ==
    ASSUME NEW a \in Version, NEW b \in Version, NEW now \in Nat
    PROVE  /\ TimeDiff(a, b, now) \in Int
           /\ TimeDiff(b, a, now) = 0 - TimeDiff(a, b, now)
BY MergeConstants DEF TimeDiff, SafeTime, Clamped, Version, Fields, Unparsable

LEMMA RevisionBeatsTotal ==
    ASSUME NEW a \in Version, NEW b \in Version, NEW now \in Nat,
           a.deleted = b.deleted, a # b
    PROVE  RevisionBeats(a, b, now) <=> ~RevisionBeats(b, a, now)
<1>1. /\ a.rev \in Nat /\ b.rev \in Nat /\ a.revBy \in Nat /\ b.revBy \in Nat
  BY DEF Version, Fields
<1>2. /\ TimeDiff(a, b, now) \in Int
      /\ TimeDiff(b, a, now) = 0 - TimeDiff(a, b, now)
  BY TimeDiffInt
<1>3. SignatureGreater(a, b) <=> ~SignatureGreater(b, a)
  BY SignatureTotal
<1>4. CASE a.rev # b.rev
  BY <1>1, <1>4 DEF RevisionBeats
<1>5. CASE a.rev = b.rev /\ TimeDiff(a, b, now) # 0
  BY <1>1, <1>2, <1>5 DEF RevisionBeats
<1>6. CASE a.rev = b.rev /\ TimeDiff(a, b, now) = 0
  <2> DEFINE ByWriter == a.revBy # b.revBy /\ a.revBy # NoWriter /\ b.revBy # NoWriter
  <2>a. ~(a.rev > b.rev) /\ ~(b.rev > a.rev)
    BY <1>1, <1>6
  <2>b. TimeDiff(b, a, now) = 0
    BY <1>2, <1>6
  <2>1. /\ ~(a.rev > b.rev) /\ ~(b.rev > a.rev)
        /\ TimeDiff(b, a, now) = 0
    BY <2>a, <2>b
  <2>2. CASE ByWriter
    <3>1. RevisionBeats(a, b, now) <=> a.revBy > b.revBy
      BY <1>6, <2>1, <2>2 DEF RevisionBeats
    <3>2. RevisionBeats(b, a, now) <=> b.revBy > a.revBy
      BY <1>6, <2>1, <2>2 DEF RevisionBeats
    <3>3. QED
      BY <1>1, <2>2, <3>1, <3>2
  <2>3. CASE ~ByWriter
    <3>1. RevisionBeats(a, b, now) <=> SignatureGreater(a, b)
      BY <1>6, <2>1, <2>3 DEF RevisionBeats
    <3>2. RevisionBeats(b, a, now) <=> SignatureGreater(b, a)
      BY <1>6, <2>1, <2>3 DEF RevisionBeats
    <3>3. QED
      BY <1>3, <3>1, <3>2
  <2>4. QED
    BY <2>2, <2>3
<1>7. QED
  BY <1>4, <1>5, <1>6

LEMMA LegacyBeatsTotal ==
    ASSUME NEW a \in Version, NEW b \in Version, NEW now \in Nat,
           a.deleted = b.deleted, a # b
    PROVE  LegacyBeats(a, b, now) <=> ~LegacyBeats(b, a, now)
<1> DEFINE Suspect == \E v \in {a, b} : v.updatedAt = Unparsable \/ Clamped(v.updatedAt, now)
           Gap == SafeTime(a.updatedAt, now) - SafeTime(b.updatedAt, now)
           Back == SafeTime(b.updatedAt, now) - SafeTime(a.updatedAt, now)
<1>1. Gap \in Int /\ Back = -Gap
  BY MergeConstants DEF SafeTime, Clamped, Version, Fields, Unparsable
<1>2. Abs(Gap) = Abs(Back)
  BY <1>1 DEF Abs
<1>3. LegacyBeats(a, b, now) <=>
        LET byTime == TimeDiff(a, b, now) # 0 /\ (Suspect \/ ~(Abs(Gap) <= Skew))
        IN  (byTime /\ TimeDiff(a, b, now) > 0) \/ (~byTime /\ SignatureGreater(a, b))
  BY DEF LegacyBeats
<1>4. LegacyBeats(b, a, now) <=>
        LET byTime == TimeDiff(b, a, now) # 0 /\ (Suspect \/ ~(Abs(Gap) <= Skew))
        IN  (byTime /\ TimeDiff(b, a, now) > 0) \/ (~byTime /\ SignatureGreater(b, a))
  BY <1>2 DEF LegacyBeats
<1> HIDE DEF Suspect, Gap, Back
<1>5. QED
  BY <1>3, <1>4, TimeDiffInt, SignatureTotal

LEMMA BeatsTotal ==
    ASSUME NEW a \in Version, NEW b \in Version, NEW now \in Nat, a # b
    PROVE  Beats(a, b, now) <=> ~Beats(b, a, now)
<1>1. a.deleted \in BOOLEAN /\ b.deleted \in BOOLEAN
  BY DEF Version, Fields
<1>2. HasRevision(a, b) <=> HasRevision(b, a)
  BY DEF HasRevision
<1>3. CASE a.deleted = b.deleted
  BY <1>1, <1>2, <1>3, RevisionBeatsTotal, LegacyBeatsTotal DEF Beats
<1>4. CASE a.deleted # b.deleted
  BY <1>1, <1>4 DEF Beats
<1>5. QED
  BY <1>3, <1>4

(* The peer that calls a version local and the peer that calls it incoming *)
(* keep the same one.                                                      *)
THEOREM WinnerSymmetric ==
    ASSUME NEW a \in Version, NEW b \in Version, NEW now \in Nat
    PROVE  Winner(a, b, now) = Winner(b, a, now)
BY BeatsTotal DEF Winner
=============================================================================
