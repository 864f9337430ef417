----------------------------- MODULE MCSaveQueue -----------------------------
(* Two calls of flushPendingSave at a time: one edit, two calls of fetchData or    *)
(* retryPersistence and two failing writes, no import.                             *)
EXTENDS SaveQueue

CONSTANTS c1, c2

TwoCallers == {c1, c2}
MCWorlds == [edits : {1}, imports : {0}, calls : {2}, faults : {2}]
=============================================================================
