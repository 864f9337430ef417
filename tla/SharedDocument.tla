--------------------------- MODULE SharedDocument ---------------------------
(***************************************************************************)
(* What synchronisation promises, without its cycles: one shared document   *)
(* and, on every device, what it holds anywhere (on the screen, waiting to  *)
(* be saved or in its database) and what its database holds.  A revision is *)
(* made by its author and travels between copies.  A device gives up only   *)
(* what the shared document holds, except that a kill leaves it with what   *)
(* was saved and that nothing is promised any longer of an entity that is   *)
(* lost (docs/adr/0009-sqlite-json-sync-bridge.md, decisions 2 and 4).      *)
(***************************************************************************)
EXTENDS Naturals

CONSTANTS Devices, Items, Author

VARIABLES hub, held, saved, lost

vars == <<hub, held, saved, lost>>

Blank == [i \in Items |-> 0]

\* Document y comes from x on device d: nothing of x goes that the shared document does
\* not hold, nothing comes that neither the device nor the shared document holds.
Gathers(d, x, y) ==
    \A i \in Items \ lost : /\ x[i] <= y[i] \/ x[i] <= hub[i]
                            /\ y[i] <= x[i] \/ y[i] <= hub[i] \/ y[i] <= held[d][i]

Init ==
    /\ hub = Blank /\ lost = {}
    /\ held = [d \in Devices |-> Blank] /\ saved = [d \in Devices |-> Blank]

Publish(d) ==
    /\ \A i \in Items \ lost : hub[i] <= hub'[i] /\ (hub'[i] <= hub[i] \/ hub'[i] <= held[d][i])
    /\ UNCHANGED <<held, saved, lost>>

\* What is written on device d, in its database or anywhere else.
Save(d) ==
    /\ lost \subseteq lost'
    /\ Gathers(d, held[d], held'[d]) /\ Gathers(d, saved[d], saved'[d])
    /\ held' = [held EXCEPT ![d] = held'[d]]
    /\ saved' = [saved EXCEPT ![d] = saved'[d]]
    /\ UNCHANGED hub

\* The author makes a revision; the rest of what the device holds may be gathered anew.
Edit(d, i) ==
    /\ Author[i] = d
    /\ i \in lost \/ held'[d][i] = held[d][i] + 1
    /\ Gathers(d, held[d], [held'[d] EXCEPT ![i] = held[d][i]])
    /\ held' = [held EXCEPT ![d] = held'[d]]
    /\ UNCHANGED <<hub, saved, lost>>

Kill(d) == held' = [held EXCEPT ![d] = saved[d]] /\ UNCHANGED <<hub, saved, lost>>

Next ==
    \E d \in Devices : \/ Publish(d) \/ Save(d) \/ Kill(d)
                       \/ \E i \in Items : Edit(d, i)

Spec == Init /\ [][Next]_vars
=============================================================================
