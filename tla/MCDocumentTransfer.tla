-------------------------- MODULE MCDocumentTransfer --------------------------
EXTENDS DocumentTransfer

CONSTANTS c1, c2

(* Two calls of flushPendingSave at a time, an import being one. *)
TwoCallers == {c1, c2}

Situations(e, i, c, f) == [edits : {e}, imports : {i}, calls : {c}, faults : {f}]

(* An import beside an edit that cannot be saved, and beside two edits of which one   *)
(* fails once, with a confirmation or two reloads; and the queue alone: a confirmation *)
(* that meets a retry, two edits beside one or with two failures, and three edits,      *)
(* which exceed MaxPending when one comes back.                                         *)
MCWorlds ==
    Situations(1, 1, 2, 2) \cup Situations(2, 1, 2, 1) \cup Situations(1, 0, 3, 2)
        \cup Situations(2, 0, 2, 2) \cup Situations(2, 0, 3, 1) \cup Situations(3, 0, 1, 1)
=============================================================================
