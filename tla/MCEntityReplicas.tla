--------------------------- MODULE MCEntityReplicas ---------------------------
EXTENDS EntityReplicas, TLC

CONSTANTS d1, d2, d3

(* revBy 1 is the backup marker, 2 the creator. *)
MCWriter2 == (d1 :> 2) @@ (d2 :> 3)
MCWriter3 == (d1 :> 2) @@ (d2 :> 3) @@ (d3 :> 4)

(* d2's clock runs ahead by the window; or by more than the skew, and d1's *)
(* user restores backups; or d1's does, by the whole skew.                 *)
MCWorlds2 == { [offset |-> (d1 :> 0) @@ (d2 :> 1), restorers |-> {}],
               [offset |-> (d1 :> 0) @@ (d2 :> 3), restorers |-> {d1}],
               [offset |-> (d1 :> 2) @@ (d2 :> 0), restorers |-> {d1}] }

MCAligned3 == { [offset |-> (d1 :> 0) @@ (d2 :> 0) @@ (d3 :> 0), restorers |-> {}] }
=============================================================================
