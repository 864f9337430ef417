--------------------------- MODULE MergeCasesProofs ---------------------------
(***************************************************************************)
(* What two peers that exchange their versions end with, for all versions, *)
(* clocks and thresholds: the properties the run merge_cases enumerates.   *)
(***************************************************************************)
EXTENDS MergeCases, EntityMergeProofs

\* The invariant: both peers hold versions, and the same one once they have met.
Held == left \in Version /\ right \in Version /\ PeersAgree

(* Times that can be compared. *)
LEMMA OperationTimeInt ==
    ASSUME NEW v \in Version, NEW now \in Nat
    PROVE  OperationTime(v, now) \in Int
BY MergeConstants DEF OperationTime, SafeTime, Clamped, Version, Fields, Unparsable

LEMMA BoundedVersion == ASSUME NEW v \in BoundedVersions PROVE v \in Version
<1>1. v \in [ deleted : BOOLEAN, deletedAt : Times \cup {0}, updatedAt : Times,
               rev : Revs, revBy : Writers, content : Contents ]
  BY DEF BoundedVersions
<1>2. /\ Times \cup {0} \subseteq Nat \cup {Unparsable}
      /\ Times \subseteq Nat \cup {Unparsable}
      /\ Revs \subseteq Nat /\ Writers \subseteq Nat /\ Contents \subseteq Nat
  BY CaseConstants
<1>3. v \in Fields
  BY <1>1, <1>2 DEF Fields
<1>4. ~v.deleted => v.deletedAt = 0
  BY DEF BoundedVersions
<1> QED
  BY <1>3, <1>4 DEF Version

LEMMA InitHeld == Init => Held
BY BoundedVersion DEF Init, Held, PeersAgree

\* Both ends of an exchange keep the winner, which is one of the two versions.
LEMMA ExchangeKeepsWinner ==
    ASSUME Held, Exchange
    PROVE  /\ left' = Winner(left, right, Now) /\ right' = left'
           /\ left' \in {left, right}
<1>1. Winner(right, left, Now) = Winner(left, right, Now)
  BY WinnerSymmetric, CaseConstants DEF Held
<1> QED
  BY <1>1, WinnerIsCandidate DEF Exchange

LEMMA StepHeld == Held /\ [Exchange]_vars => Held'
<1> SUFFICES ASSUME Held, [Exchange]_vars PROVE Held'
  OBVIOUS
<1>1. CASE Exchange
  BY <1>1, ExchangeKeepsWinner DEF Held, PeersAgree
<1>2. CASE UNCHANGED vars
  BY <1>2 DEF vars, Held, PeersAgree
<1> QED
  BY <1>1, <1>2

LEMMA AlwaysHeld == Spec => []Held
BY InitHeld, StepHeld, PTL DEF Spec

(* Both peers keep the same version, whichever of the two calls itself     *)
(* local.                                                                  *)
THEOREM PeersAlwaysAgree == Spec => []PeersAgree
<1>1. Held => PeersAgree
  BY DEF Held
<1> QED
  BY <1>1, AlwaysHeld, PTL

-----------------------------------------------------------------------------
(* The winner between a deletion and a live version                         *)

\* Which of the two a merge keeps is what resolveDeleteVsLiveWinner says of them.
LEMMA WinnerOfDeleteVsLive ==
    ASSUME NEW t \in Version, NEW v \in Version, t.deleted, ~v.deleted
    PROVE  LET kept == IF LiveSurvives(v, t, Now) THEN v ELSE t
           IN  Winner(t, v, Now) = kept /\ Winner(v, t, Now) = kept
BY DEF Winner, Beats, Version, Fields

\* The exchange of a deletion and a live version, whichever side holds which.
LEMMA ExchangeOfDeleteVsLive ==
    ASSUME Held, Exchange, NEW t \in {left, right}, NEW v \in {left, right},
           t.deleted, ~v.deleted
    PROVE  left' = IF LiveSurvives(v, t, Now) THEN v ELSE t
<1>1. t \in Version /\ v \in Version
  BY DEF Held
<1>2. \/ t = left /\ v = right
      \/ t = right /\ v = left
  OBVIOUS
<1> QED
  BY <1>1, <1>2, WinnerOfDeleteVsLive, ExchangeKeepsWinner

(* A delete and an edit more than the window apart are decided by time     *)
(* alone, whatever the revisions say (docs/adr/0007, rule 2).              *)
THEOREM LaterAlwaysWins == Spec => LaterOperationWins
<1>1. ASSUME Held, [Exchange]_vars
      PROVE  [ DeleteVsLive /\ OperationGap > Window =>
                 \A v \in {left, right} :
                     OperationTime(v, Now) <= OperationTime(left', Now) ]_vars
  <2>1. SUFFICES ASSUME Exchange, DeleteVsLive, OperationGap > Window,
                        NEW w \in {left, right}
                 PROVE  OperationTime(w, Now) <= OperationTime(left', Now)
    BY <1>1 DEF vars
  <2>2. PICK t \in {left, right}, v \in {left, right} :
           t.deleted /\ ~v.deleted /\ {t, v} = {left, right}
    BY <1>1, <2>1 DEF DeleteVsLive, Held, Version, Fields
  <2>3. /\ OperationTime(t, Now) \in Int /\ OperationTime(v, Now) \in Int
        /\ Window \in Nat
    BY <1>1, OperationTimeInt, CaseConstants, MergeConstants DEF Held
  <2>4. Abs(OperationTime(v, Now) - OperationTime(t, Now)) > Window
    BY <2>1, <2>2, <2>3 DEF OperationGap, Abs
  <2>5. LiveSurvives(v, t, Now) => OperationTime(v, Now) >= OperationTime(t, Now)
    BY <2>3, <2>4 DEF LiveSurvives, Abs
  <2>6. ~LiveSurvives(v, t, Now) => OperationTime(t, Now) >= OperationTime(v, Now)
    BY <2>3, <2>4 DEF LiveSurvives, Abs
  <2>7. left' = IF LiveSurvives(v, t, Now) THEN v ELSE t
    BY <1>1, <2>1, <2>2, ExchangeOfDeleteVsLive
  <2>8. w = t \/ w = v
    BY <2>1, <2>2
  <2> QED
    BY <2>3, <2>5, <2>6, <2>7, <2>8
<1>2. QED
  BY <1>1, AlwaysHeld, PTL DEF LaterOperationWins, Spec

(* A tombstone is never replaced by a live version it is strictly newer    *)
(* than both in time and in revision.                                      *)
THEOREM DominantDeleteAlwaysStays == Spec => DominantDeleteStays
<1>1. ASSUME Held, [Exchange]_vars
      PROVE  [ \A t, v \in {left, right} :
                 ( /\ t.deleted /\ ~v.deleted
                   /\ t.rev > v.rev
                   /\ OperationTime(t, Now) > OperationTime(v, Now) ) => left'.deleted ]_vars
  <2>1. SUFFICES ASSUME Exchange, NEW t \in {left, right}, NEW v \in {left, right},
                        t.deleted, ~v.deleted, t.rev > v.rev,
                        OperationTime(t, Now) > OperationTime(v, Now)
                 PROVE  left'.deleted
    BY <1>1 DEF vars
  <2>2. /\ OperationTime(t, Now) \in Int /\ OperationTime(v, Now) \in Int
        /\ Window \in Nat /\ t.rev \in Nat /\ v.rev \in Nat
    BY <1>1, OperationTimeInt, CaseConstants, MergeConstants DEF Held, Version, Fields
  <2>3. ~LiveSurvives(v, t, Now)
    BY <2>1, <2>2 DEF LiveSurvives
  <2> QED
    BY <1>1, <2>1, <2>3, ExchangeOfDeleteVsLive
<1>2. QED
  BY <1>1, AlwaysHeld, PTL DEF DominantDeleteStays, Spec

(* An edit with at least the revision and at least the time of a tombstone *)
(* is not discarded by it.                                                 *)
THEOREM DominantLiveAlwaysStays == Spec => DominantLiveStays
<1>1. ASSUME Held, [Exchange]_vars
      PROVE  [ \A t, v \in {left, right} :
                 ( /\ t.deleted /\ ~v.deleted
                   /\ HasRevision(t, v)
                   /\ v.rev >= t.rev
                   /\ OperationTime(v, Now) >= OperationTime(t, Now) ) => ~left'.deleted ]_vars
  <2>1. SUFFICES ASSUME Exchange, NEW t \in {left, right}, NEW v \in {left, right},
                        t.deleted, ~v.deleted, HasRevision(t, v), v.rev >= t.rev,
                        OperationTime(v, Now) >= OperationTime(t, Now)
                 PROVE  ~left'.deleted
    BY <1>1 DEF vars
  <2>2. /\ OperationTime(t, Now) \in Int /\ OperationTime(v, Now) \in Int
        /\ Window \in Nat
    BY <1>1, OperationTimeInt, CaseConstants, MergeConstants DEF Held
  <2>3. HasRevision(v, t)
    BY <2>1 DEF HasRevision
  <2>4. LiveSurvives(v, t, Now)
    BY <2>1, <2>2, <2>3 DEF LiveSurvives, Abs
  <2> QED
    BY <1>1, <2>1, <2>4, ExchangeOfDeleteVsLive
<1>2. QED
  BY <1>1, AlwaysHeld, PTL DEF DominantLiveStays, Spec
=============================================================================
