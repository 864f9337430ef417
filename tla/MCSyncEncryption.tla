--------------------------- MODULE MCSyncEncryption ---------------------------
EXTENDS SyncEncryption

CONSTANTS a, b, p, q

MCSalts == 1 .. 8

Situations(actors, desktop, transitions, faults, stalls) ==
    [actors : {actors}, desktop : desktop, key : {Clear, << p, 1 >>},
     transitions : {transitions}, faults : {faults}, stalls : {stalls}]

(* Two mobile devices, or a desktop and a mobile one: with two transitions,   *)
(* with two faults, and with a holder that outlives its lease.  One mobile    *)
(* device, with all of that.  And two mobile ones of which one turns          *)
(* encryption on and off again while the other turns it on, so that opposite  *)
(* transitions can cross.                                                     *)
MCWorlds ==
    LET mixed == {{}, {a}}
        opposite == {w \in Situations({a, b}, {{}}, 3, 0, 1) : w.key = Clear}
    IN  Situations({a, b}, mixed, 2, 1, 0) \cup Situations({a, b}, mixed, 1, 2, 0)
            \cup Situations({a, b}, mixed, 1, 1, 1) \cup Situations({a}, {{}}, 2, 2, 1) \cup opposite

(* One desktop. *)
MCDesktop == Situations({a}, {{a}}, 1, 1, 0)
=============================================================================
