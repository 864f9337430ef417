------------------------------ MODULE MergeCases ------------------------------
(***************************************************************************)
(* Two peers that hold any two versions of an entity, legacy and malformed *)
(* ones included, exchange them at one instant and each keeps the version  *)
(* its own merge chooses: the forward and the reverse direction that       *)
(* sync-entity-arbitration-parity.test.ts runs on eighteen fixtures.       *)
(***************************************************************************)
EXTENDS EntityMerge

CONSTANTS Times, Revs, Writers, Contents, Now   \* bounds of the enumeration

ASSUME CaseConstants ==
    /\ Times \subseteq Nat \cup {Unparsable}
    /\ Revs \subseteq Nat /\ Writers \subseteq Nat /\ Contents \subseteq Nat
    /\ Now \in Nat

VARIABLES left, right, met
vars == << left, right, met >>

BoundedVersions ==
    { v \in [ deleted : BOOLEAN, deletedAt : Times \cup {0}, updatedAt : Times,
              rev : Revs, revBy : Writers, content : Contents ] :
      v.deleted <=> v.deletedAt # 0 }

Init ==
    /\ left \in BoundedVersions
    /\ right \in BoundedVersions
    /\ met = FALSE

Exchange ==
    /\ left' = Winner(left, right, Now)
    /\ right' = Winner(right, left, Now)
    /\ met' = TRUE

Spec == Init /\ [][Exchange]_vars

-----------------------------------------------------------------------------
(* Both peers keep the same version, whichever of the two calls itself     *)
(* local: "every client converges on the same winner" (docs/adr/0003:28).  *)
PeersAgree == met => left = right

DeleteVsLive == left.deleted # right.deleted
OperationGap == Abs(OperationTime(left, Now) - OperationTime(right, Now))

(* docs/adr/0007 rule 2: a delete and an edit more than the window apart   *)
(* are decided by time alone, whatever the revisions say.                  *)
LaterOperationWins ==
    [][ DeleteVsLive /\ OperationGap > Window =>
          \A v \in {left, right} : OperationTime(v, Now) <= OperationTime(left', Now) ]_vars

(* A tombstone is never replaced by a live version it is strictly newer    *)
(* than in both orders the code has, time and revision: a deletion that    *)
(* saw more edits and came later stays a deletion.                         *)
DominantDeleteStays ==
    [][ \A t, v \in {left, right} :
          ( /\ t.deleted /\ ~v.deleted
            /\ t.rev > v.rev
            /\ OperationTime(t, Now) > OperationTime(v, Now) ) => left'.deleted ]_vars

(* The same for a live version: an edit with at least the revision and at  *)
(* least the time of a tombstone is not discarded by it.                   *)
DominantLiveStays ==
    [][ \A t, v \in {left, right} :
          ( /\ t.deleted /\ ~v.deleted
            /\ HasRevision(t, v)
            /\ v.rev >= t.rev
            /\ OperationTime(v, Now) >= OperationTime(t, Now) ) => ~left'.deleted ]_vars
=============================================================================
