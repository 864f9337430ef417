----------------------------- MODULE MCSyncCycle -----------------------------
(* Two devices, each the author of one entity; in the safety run one of two. *)
EXTENDS SyncCycle, TLC

CONSTANTS d1, d2, i1, i2, i3

TwoDevices == {d1, d2}
TwoItems == {i1, i2}
OneEach == i1 :> d1 @@ i2 :> d2
ThreeItems == {i1, i2, i3}
TwoAndOne == i1 :> d1 @@ i3 :> d1 @@ i2 :> d2
FirstOnly == {d1}
NoDevice == {}

\* The two entities of one device may be exchanged.
Swap == {p \in Permutations(ThreeItems) : \A i \in Items : Author[p[i]] = Author[i]}

\* One failure or one kill, and the second device between cycles once the first has
\* edited both of its own.  All three entities are edited only without a fence, failures
\* and kills; behind a fence, where there are the most interleavings, a failure or a kill
\* comes only if the second device has edited nothing.
Made(i) == i \in created
Small == /\ faults + crashes <= 1
         /\ created = Items => ~Fenced /\ faults + crashes = 0
         /\ Made(i1) /\ Made(i3) => pc[d2] = "idle"
         /\ Fenced /\ faults + crashes > 0 => ~Made(i2)

\* In the liveness run there is one failure or one kill, the latter with conditional writes
\* only.  No action that is left out is one that the fairness forces.
OneTrouble ==
    /\ faults + crashes <= 1
    /\ backend = "merging" => crashes = 0 /\ (faults = 0 \/ created # Items)

\* What of a cycle its later steps still read; the rest is not a difference.
Live(d) ==
    CASE pc[d] \in {"idle", "refresh", "reload"} -> <<pc[d]>>
      [] pc[d] \in {"read", "flushRetry"} -> <<pc[d], retrying[d]>>
      [] pc[d] \in {"readDisk", "pull"} ->
           <<pc[d], retrying[d], local[d], aligned[d], observed[d]>>
      [] pc[d] = "clear" -> <<pc[d], observed[d]>>
      [] pc[d] \in {"push", "sending", "persist"} ->
           <<pc[d], local[d], final[d], stage[d], wrote[d], seen[d], observed[d]>>
      [] pc[d] \in {"saving", "saved"} ->
           <<pc[d], local[d], final[d], stage[d], wrote[d], seen[d], observed[d], saving[d]>>
      [] OTHER -> <<pc[d], local[d], final[d], wrote[d]>>
View == <<store, disk, known, answer, queue, stale, world,
          [d \in Devices |-> Live(d)]>>
=============================================================================
