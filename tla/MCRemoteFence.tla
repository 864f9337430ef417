---------------------------- MODULE MCRemoteFence ----------------------------
(* Small instances of RemoteFence.  One unit of time stands for 20 seconds. *)
EXTENDS RemoteFence, FiniteSets, TLC

CONSTANTS l1, l2

TwoLeases == {l1, l2}
\* Every client advertises its heartbeat.
AllBeat == [l \in Leases |-> 1]
ShortAndLong == {1, 4}
Swap == Permutations(Leases)
=============================================================================
