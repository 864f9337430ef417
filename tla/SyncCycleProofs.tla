-------------------------- MODULE SyncCycleProofs --------------------------
(* Proofs about SyncCycle, for any devices, entities and bounds. *)
EXTENDS SyncCycle, TLAPS

-----------------------------------------------------------------------------
(* Documents *)

\* Merging two documents gives a document at least as recent as each.
LEMMA JoinCovers ==
    ASSUME NEW x \in Doc, NEW y \in Doc
    PROVE  Join(x, y) \in Doc /\ Within(x, Join(x, y)) /\ Within(y, Join(x, y))
BY SyncConstants DEF Doc, Join, Within, Later

\* Being at least as recent is transitive and reflexive.
LEMMA WithinOrder ==
    ASSUME NEW x \in Doc, NEW y \in Doc, NEW z \in Doc
    PROVE  Within(x, x) /\ (Within(x, y) /\ Within(y, z) => Within(x, z))
BY SyncConstants DEF Doc, Within

LEMMA NothingDoc == Nothing \in Doc /\ Blank \in Copy
BY SyncConstants DEF Nothing, Blank, Doc, Copy, Flags

LEMMA CopyParts ==
    ASSUME NEW c \in Copy
    PROVE  /\ c.doc \in Doc /\ c.flag \in Flags
           /\ \A x \in Doc : [c EXCEPT !.doc = x] \in Copy
           /\ \A f \in Flags : [doc |-> c.doc, flag |-> f] \in Copy
           /\ [c EXCEPT !.flag = "none"] \in Copy
           /\ [c EXCEPT !.flag = "none"].doc = c.doc
           /\ Elapsed(c) \in Copy
BY DEF Copy, Elapsed, Flags

\* What a save leaves is a document.
LEMMA SavedCopy ==
    ASSUME TypeOK, NEW d \in Devices, NEW base \in Copy, NEW c \in Copy
    PROVE  Saved(d, base, c) \in Copy
<1>1. /\ disk[d] \in Copy /\ disk[d].doc \in Doc /\ disk[d].flag \in Flags
      /\ c.doc \in Doc /\ c.flag \in Flags
  BY CopyParts DEF TypeOK
<1> DEFINE x == [i \in Items |->
                   CASE c.doc[i] = 0 /\ base.doc[i] = disk[d].doc[i] -> 0
                     [] d \in Desktop /\ disk[d].doc[i] = 0 /\ base.doc[i] # 0 -> 0
                     [] OTHER -> Later(disk[d].doc[i], c.doc[i])]
           f == IF d \in Desktop /\ (c.flag = base.flag \/ disk[d].flag # base.flag)
                  THEN disk[d].flag ELSE c.flag
<1>2. x \in Doc
  BY <1>1, SyncConstants DEF Doc, Later
<1>3. f \in Flags
  BY <1>1
<1>4. Saved(d, base, c) = [doc |-> x, flag |-> f]
  BY DEF Saved
<1> HIDE DEF x, f
<1> QED
  BY <1>2, <1>3, <1>4 DEF Copy

\* The revision it leaves of an entity is none, or one of the two, and is older than one of
\* them only if a row seen is deleted, or one seen and gone does not come back.
LEMMA SavedRow ==
    ASSUME TypeOK, NEW d \in Devices, NEW base \in Copy, NEW c \in Copy, NEW i \in Items
    PROVE  LET s == Saved(d, base, c).doc[i]
               k == disk[d].doc[i]
           IN  /\ s \in Nat /\ s \in {0, k, c.doc[i]}
               /\ k <= s \/ (c.doc[i] = 0 /\ base.doc[i] = k)
               /\ c.doc[i] <= s \/ (d \in Desktop /\ k < base.doc[i])
<1>1. /\ disk[d].doc[i] \in Nat /\ c.doc[i] \in Nat /\ base.doc[i] \in Nat
  <2>1. disk[d] \in Copy
    BY DEF TypeOK
  <2>2. disk[d].doc \in Doc /\ c.doc \in Doc /\ base.doc \in Doc
    BY <2>1, CopyParts
  <2> QED
    BY <2>2, SyncConstants DEF Doc
<1>2. Saved(d, base, c).doc[i] =
        CASE c.doc[i] = 0 /\ base.doc[i] = disk[d].doc[i] -> 0
          [] d \in Desktop /\ disk[d].doc[i] = 0 /\ base.doc[i] # 0 -> 0
          [] OTHER -> Later(disk[d].doc[i], c.doc[i])
  BY DEF Saved
<1> QED
  BY <1>1, <1>2 DEF Later

-----------------------------------------------------------------------------
(* Types *)

LEMMA InitTypes == Init => TypeOK
<1> SUFFICES ASSUME Init PROVE TypeOK
  OBVIOUS
<1> USE NothingDoc, SyncConstants
<1> QED
  BY DEF Init, TypeOK, Steps, Stages

\* The copies a step puts into a variable.
LEMMA StepCopies ==
    ASSUME TypeOK, NEW d \in Devices
    PROVE  /\ ToSave(d) \in Copy /\ ToSave(d).doc = final[d].doc
           /\ [store[d] EXCEPT !.flag = "none"] \in Copy
           /\ final[d].doc \in Doc /\ local[d].doc \in Doc /\ Stored(d) \in Doc
<1>1. final[d] \in Copy /\ store[d] \in Copy /\ local[d] \in Copy /\ remote \in Doc
  BY DEF TypeOK
<1>2. final[d].doc \in Doc /\ local[d].doc \in Doc
  BY <1>1, CopyParts
<1>3. Stored(d) \in Doc
  BY <1>1, <1>2, JoinCovers DEF Stored
<1>4. ToSave(d) \in Copy /\ ToSave(d).doc = final[d].doc
  BY <1>2 DEF ToSave, Copy, Flags
<1> QED
  BY <1>1, <1>2, <1>3, <1>4, CopyParts

LEMMA PersistTypes ==
    ASSUME TypeOK, NEW d \in Devices, NEW c \in Copy, Persist(d, c) \/ BeginPersist(d, c)
    PROVE  /\ disk' \in [Devices -> Copy] /\ known' \in [Devices -> Copy]
           /\ observed' \in [Devices -> Copy] /\ saving' \in [Devices -> Copy]
           /\ pc' \in [Devices -> Steps]
<1>1. Seen(d) \in Copy
  BY DEF Seen, TypeOK
<1>2. Saved(d, Seen(d), c) \in Copy
  BY <1>1, SavedCopy
<1>3. CASE Persist(d, c)
  <2>1. disk' \in [Devices -> Copy] /\ saving' \in [Devices -> Copy]
    BY <1>2, <1>3 DEF Persist, TypeOK
  <2>2. known' \in [Devices -> Copy] /\ observed' \in [Devices -> Copy]
    BY <1>3 DEF Persist, Observe, TypeOK
  <2>3. pc' \in [Devices -> Steps]
    BY <1>3 DEF Persist, Goto, TypeOK, Steps
  <2> QED
    BY <2>1, <2>2, <2>3
<1>4. CASE BeginPersist(d, c) /\ ~Persist(d, c)
  BY <1>4 DEF BeginPersist, Goto, TypeOK, Steps
<1> QED
  BY <1>3, <1>4

\* A document that comes to be on the screen.
LEMMA DisplayTypes ==
    ASSUME TypeOK, NEW d \in Devices, NEW c \in Copy, Display(d, c)
    PROVE  store' \in [Devices -> Copy] /\ answer' \in [Devices -> SUBSET Copy]
BY DEF Display, TypeOK

\* Wherever a local write was made for, the cycle has a step to go on with.
LEMMA LocalWrittenGoes ==
    ASSUME TypeOK, NEW d \in Devices, LocalWritten(d)
    PROVE  \E step \in Steps : Goto(d, step)
<1>1. CASE ~Fresh(d, saving[d].doc)
  BY <1>1 DEF LocalWritten, AbortTo, Steps
<1>2. CASE Fresh(d, saving[d].doc) /\ stage[d] = "mark"
  BY <1>2 DEF LocalWritten, Steps
<1>3. CASE Fresh(d, saving[d].doc) /\ stage[d] = "settle"
  BY <1>3 DEF LocalWritten, Steps
<1>4. CASE Fresh(d, saving[d].doc) /\ stage[d] = "retry"
  BY <1>4 DEF LocalWritten, FailTo, Steps
<1>5. CASE Fresh(d, saving[d].doc) /\ stage[d] \in {"clear", "none"}
  BY <1>5 DEF LocalWritten, Steps
<1> QED
  BY <1>1, <1>2, <1>3, <1>4, <1>5 DEF TypeOK, Stages

LEMMA ShowTypes ==
    ASSUME TypeOK, NEW d \in Devices, Show(d)
    PROVE  /\ store' \in [Devices -> Copy] /\ answer' \in [Devices -> SUBSET Copy]
           /\ gone' \subseteq Items
<1>1. final[d] \in Copy
  BY DEF TypeOK
<1>2. Display(d, final[d]) \/ UNCHANGED <<store, answer>>
  BY DEF Show
<1>3. store' \in [Devices -> Copy] /\ answer' \in [Devices -> SUBSET Copy]
  BY <1>1, <1>2, DisplayTypes DEF TypeOK
<1>4. gone' \subseteq Items
  BY DEF Show, TypeOK
<1> QED
  BY <1>3, <1>4

\* Every step of a device keeps the types.
LEMMA StepTypes ==
    ASSUME TypeOK, NEW d \in Devices,
           \/ CycleStep(d) \/ SendFails(d) \/ StepFails(d)
           \/ (\E i \in Items : Edit(d, i))
           \/ FlushSave(d) \/ Reconcile(d) \/ BackoffExpires(d) \/ Crash(d)
    PROVE  TypeOK'
<1> USE SyncConstants, StepCopies, CopyParts
<1>1. ASSUME NEW i \in Items, Edit(d, i) PROVE TypeOK'
  <2>1. store[d] \in Copy /\ store[d].doc \in Doc
    BY DEF TypeOK
  <2> DEFINE c == [store[d] EXCEPT !.doc[i] = @ + 1]
  <2>2. c \in Copy
    BY <1>1, <2>1 DEF Edit, Copy, Doc
  <2>3. Display(d, c) /\ queue' = [queue EXCEPT ![d] = {c}]
    BY <1>1 DEF Edit
  <2> HIDE DEF c
  <2>4. /\ stale' = [stale EXCEPT ![d] = TRUE] /\ created' = created \cup {i}
        /\ UNCHANGED <<disk, known, observed, cycle, backend, remote, gone, faults, crashes>>
    BY <1>1 DEF Edit
  <2>5. store' \in [Devices -> Copy] /\ answer' \in [Devices -> SUBSET Copy]
    BY <2>2, <2>3, DisplayTypes
  <2>6. /\ queue' \in [Devices -> SUBSET Copy] /\ stale' \in [Devices -> BOOLEAN]
        /\ created' \subseteq Items
    BY <2>2, <2>3, <2>4 DEF TypeOK
  <2> QED
    BY <2>4, <2>5, <2>6 DEF TypeOK, cycle
<1>2. ASSUME FlushSave(d) PROVE TypeOK'
  <2> DEFINE s(c) == Saved(d, known[d], c)
  <2>1. PICK c \in queue[d] :
          /\ disk' = [disk EXCEPT ![d] = s(c)]
          /\ known' = [known EXCEPT ![d] = IF d \in Desktop THEN s(c) ELSE c]
          /\ answer' = [answer EXCEPT ![d] =
                          IF d \in Desktop /\ c = store[d] /\ s(c) # c THEN {s(c)} ELSE {}]
          /\ gone' = gone \cup {i \in Items : s(c).doc[i] < disk[d].doc[i]}
    BY <1>2 DEF FlushSave
  <2>2. c \in Copy /\ known[d] \in Copy
    BY DEF TypeOK
  <2>3. s(c) \in Copy
    BY <2>2, SavedCopy
  <2> HIDE DEF s
  <2>4. /\ disk' \in [Devices -> Copy] /\ known' \in [Devices -> Copy]
        /\ answer' \in [Devices -> SUBSET Copy] /\ gone' \subseteq Items
    BY <2>1, <2>2, <2>3 DEF TypeOK
  <2>5. queue' \in [Devices -> SUBSET Copy]
    BY <1>2 DEF FlushSave, TypeOK
  <2> QED
    BY <1>2, <2>4, <2>5 DEF FlushSave, TypeOK, cycle
<1>3. ASSUME BackoffExpires(d) PROVE TypeOK'
  <2>1. /\ Elapsed(store[d]) \in Copy /\ Elapsed(disk[d]) \in Copy
        /\ Elapsed(known[d]) \in Copy /\ Elapsed(observed[d]) \in Copy
    BY DEF TypeOK
  <2>2. /\ {Elapsed(c) : c \in queue[d]} \in SUBSET Copy
        /\ {Elapsed(c) : c \in answer[d]} \in SUBSET Copy
    <3>1. queue[d] \in SUBSET Copy /\ answer[d] \in SUBSET Copy
      BY DEF TypeOK
    <3>2. \A c \in Copy : Elapsed(c) \in Copy
      OBVIOUS
    <3> HIDE CopyParts, StepCopies
    <3> QED
      BY <3>1, <3>2, Zenon
  <2> QED
    BY <1>3, <2>1, <2>2 DEF BackoffExpires, TypeOK, cycle, world
<1>4. ASSUME Crash(d) PROVE TypeOK'
  <2>1. disk[d] \in Copy
    BY DEF TypeOK
  <2>2. crashes' \in 0..MaxCrashes
    BY <1>4 DEF Crash, TypeOK
  <2>3. /\ store' \in [Devices -> Copy] /\ queue' \in [Devices -> SUBSET Copy]
        /\ known' \in [Devices -> Copy] /\ answer' \in [Devices -> SUBSET Copy]
    BY <1>4, <2>1 DEF Crash, TypeOK
  <2>4. stale' \in [Devices -> BOOLEAN] /\ pc' \in [Devices -> Steps]
    BY <1>4 DEF Crash, TypeOK, Steps
  <2> QED
    BY <1>4, <2>2, <2>3, <2>4 DEF Crash, TypeOK
<1>5. ASSUME Start(d) PROVE TypeOK'
  BY <1>5 DEF Start, Goto, TypeOK, Steps, app, world
<1>6. ASSUME ReadMemory(d) PROVE TypeOK'
  BY <1>6 DEF ReadMemory, Goto, TypeOK, Steps, world
<1>7. ASSUME ReadDisk(d) PROVE TypeOK'
  <2>1. disk[d] \in Copy /\ disk[d].doc \in Doc /\ local[d] \in Copy
    BY CopyParts DEF TypeOK
  <2>2. Join(disk[d].doc, local[d].doc) \in Doc
    BY <2>1, JoinCovers
  <2> DEFINE c == [doc |-> Join(disk[d].doc, local[d].doc),
                   flag |-> IF retrying[d] THEN "none" ELSE disk[d].flag]
  <2>3. c \in Copy
    BY <2>1, <2>2 DEF Copy, Flags
  <2>4. local' = [local EXCEPT ![d] = c]
    BY <1>7 DEF ReadDisk
  <2>5. pc' \in [Devices -> Steps]
    BY <1>7 DEF ReadDisk, Goto, TypeOK, Steps
  <2> HIDE DEF c
  <2>6. local' \in [Devices -> Copy] /\ aligned' \in [Devices -> BOOLEAN]
    BY <1>7, <2>3, <2>4 DEF ReadDisk, TypeOK
  <2>7. known' \in [Devices -> Copy] /\ observed' \in [Devices -> Copy]
    BY <1>7, <2>1 DEF ReadDisk, Observe, TypeOK
  <2> QED
    BY <1>7, <2>6, <2>7, <2>5 DEF ReadDisk, TypeOK, world
<1>8. ASSUME FlushBeforeRetry(d) PROVE TypeOK'
  BY <1>8 DEF FlushBeforeRetry, Goto, TypeOK, Steps, app, world
<1>9. ASSUME Pull(d) PROVE TypeOK'
  <2>1. local[d] \in Copy /\ remote \in Doc
    BY DEF TypeOK
  <2>2. Join(local[d].doc, remote) \in Doc
    BY <2>1, JoinCovers
  <2> DEFINE unchanged == /\ aligned[d] /\ ~retrying[d]
                          /\ Join(local[d].doc, remote) = local[d].doc
             c == [doc |-> Join(local[d].doc, remote),
                   flag |-> IF unchanged THEN local[d].flag ELSE "pending"]
  <2>3. c \in Copy
    BY <2>1, <2>2 DEF Copy, Flags
  <2>4. /\ final' = [final EXCEPT ![d] = c]
        /\ stage' = [stage EXCEPT ![d] = IF unchanged THEN "none" ELSE "mark"]
        /\ pc' = [pc EXCEPT ![d] = IF unchanged THEN "push" ELSE "persist"]
    BY <1>9 DEF Pull, Goto
  <2> HIDE DEF c, unchanged
  <2> QED
    BY <1>9, <2>1, <2>3, <2>4 DEF Pull, TypeOK, Steps, Stages, app, world
<1>10. ASSUME WriteLocal(d) PROVE TypeOK'
  <2>1. CASE Fresh(d, final[d].doc)
    <3>1. BeginPersist(d, ToSave(d)) /\ stale' = [stale EXCEPT ![d] = FALSE]
      BY <1>10, <2>1 DEF WriteLocal
    <3>2. ToSave(d) \in Copy
      OBVIOUS
    <3>3. /\ disk' \in [Devices -> Copy] /\ known' \in [Devices -> Copy]
          /\ observed' \in [Devices -> Copy] /\ saving' \in [Devices -> Copy]
          /\ pc' \in [Devices -> Steps]
      BY <3>1, <3>2, PersistTypes
    <3> QED
      BY <1>10, <3>1, <3>3 DEF WriteLocal, TypeOK, world
  <2>2. CASE ~Fresh(d, final[d].doc)
    BY <1>10, <2>2 DEF WriteLocal, AbortTo, Goto, TypeOK, Steps, world
  <2> QED
    BY <2>1, <2>2
<1>11. ASSUME ClearMarker(d) PROVE TypeOK'
  <2>1. BeginPersist(d, [store[d] EXCEPT !.flag = "none"])
    BY <1>11 DEF ClearMarker
  <2>2. [store[d] EXCEPT !.flag = "none"] \in Copy
    OBVIOUS
  <2>3. /\ disk' \in [Devices -> Copy] /\ known' \in [Devices -> Copy]
        /\ observed' \in [Devices -> Copy] /\ saving' \in [Devices -> Copy]
        /\ pc' \in [Devices -> Steps]
    BY <2>1, <2>2, PersistTypes
  <2> QED
    BY <1>11, <2>3 DEF ClearMarker, TypeOK, Stages, world
<1>12. ASSUME FenceAsserted(d) PROVE TypeOK'
  <2>1. Persist(d, saving[d]) /\ saving[d] \in Copy
    BY <1>12 DEF FenceAsserted, TypeOK
  <2>2. /\ disk' \in [Devices -> Copy] /\ known' \in [Devices -> Copy]
        /\ observed' \in [Devices -> Copy] /\ saving' \in [Devices -> Copy]
        /\ pc' \in [Devices -> Steps]
    BY <2>1, PersistTypes
  <2> QED
    BY <1>12, <2>2 DEF FenceAsserted, TypeOK, world
<1>13. ASSUME LocalWritten(d) PROVE TypeOK'
  <2>1. saving[d] \in Copy /\ store \in [Devices -> Copy] /\ final \in [Devices -> Copy]
    BY DEF TypeOK
  <2>2. pc' \in [Devices -> Steps]
    <3>1. \E step \in Steps : Goto(d, step)
      BY <1>13, LocalWrittenGoes
    <3> QED
      BY <3>1 DEF Goto, TypeOK
  <2>3. store' \in [Devices -> Copy] /\ answer' \in [Devices -> SUBSET Copy]
    <3>1. Display(d, saving[d]) \/ UNCHANGED <<store, answer>>
      BY <1>13 DEF LocalWritten
    <3> QED
      BY <2>1, <3>1, DisplayTypes DEF TypeOK
  <2>5. final' \in [Devices -> Copy]
    BY <1>13, <2>1 DEF LocalWritten
  <2>4. stale' \in [Devices -> BOOLEAN] /\ wrote' \in [Devices -> BOOLEAN]
    BY <1>13 DEF LocalWritten, TypeOK
  <2> QED
    BY <1>13, <2>2, <2>3, <2>4, <2>5 DEF LocalWritten, TypeOK, world
<1>14. ASSUME WriteRemote(d) PROVE TypeOK'
  <2>1. \E step \in Steps : Goto(d, step)
    BY <1>14 DEF WriteRemote, AbortTo, Steps
  <2>2. pc' \in [Devices -> Steps]
    BY <2>1 DEF Goto, TypeOK
  <2>3. stale' \in [Devices -> BOOLEAN]
    BY <1>14 DEF WriteRemote, TypeOK
  <2> QED
    BY <1>14, <2>2, <2>3 DEF WriteRemote, TypeOK, world
<1>15. ASSUME Send(d) PROVE TypeOK'
  <2>1. remote' \in Doc
    <3>1. remote' = remote \/ remote' = Stored(d)
      BY <1>15 DEF Send
    <3>2. remote \in Doc
      BY DEF TypeOK
    <3>3. Stored(d) \in Doc
      BY StepCopies
    <3> QED
      BY <3>1, <3>2, <3>3
  <2>2. \E step \in Steps : Goto(d, step)
    <3>1. \/ Goto(d, "persist") \/ Goto(d, "finish") \/ Goto(d, "clear") \/ Goto(d, "idle")
      BY <1>15 DEF Send, AbortTo
    <3> QED
      BY <3>1 DEF Steps
  <2>3. pc' \in [Devices -> Steps]
    BY <2>2 DEF Goto, TypeOK
  <2>4. stage' \in [Devices -> Stages]
    BY <1>15 DEF Send, TypeOK, Stages
  <2> QED
    BY <1>15, <2>1, <2>3, <2>4 DEF Send, TypeOK, app
<1>16. ASSUME SendFails(d) PROVE TypeOK'
  <2>1. remote' \in Doc
    <3>1. remote' = remote \/ remote' = Stored(d)
      BY <1>16 DEF SendFails
    <3>2. remote \in Doc
      BY DEF TypeOK
    <3>3. Stored(d) \in Doc
      BY StepCopies
    <3> QED
      BY <3>1, <3>2, <3>3
  <2>2. faults' \in 0..MaxFaults
    BY <1>16 DEF SendFails, TypeOK
  <2>3. pc' \in [Devices -> Steps] /\ stage' \in [Devices -> Stages]
    <3>1. /\ pc' = [pc EXCEPT ![d] = "persist"]
          /\ stage' = [stage EXCEPT ![d] = "retry"]
      BY <1>16 DEF SendFails, Goto
    <3> QED
      BY <3>1 DEF TypeOK, Steps, Stages
  <2> QED
    BY <1>16, <2>1, <2>2, <2>3 DEF SendFails, TypeOK, app
<1>17. ASSUME StepFails(d) PROVE TypeOK'
  <2>1. pc' \in [Devices -> Steps]
    BY <1>17 DEF StepFails, FailTo, Goto, TypeOK, Steps
  <2> QED
    BY <1>17, <2>1 DEF StepFails, TypeOK, app
<1>18. ASSUME Finish(d) PROVE TypeOK'
  <2>1. Show(d) \/ UNCHANGED <<store, answer, gone>>
    BY <1>18 DEF Finish
  <2>2. /\ store' \in [Devices -> Copy] /\ answer' \in [Devices -> SUBSET Copy]
        /\ gone' \subseteq Items
    BY <2>1, ShowTypes DEF TypeOK
  <2>3. stale' \in [Devices -> BOOLEAN]
    BY <1>18 DEF Finish, TypeOK
  <2>4. Goto(d, "finalizing") \/ Goto(d, "idle")
    BY <1>18 DEF Finish, Show
  <2>5. pc' \in [Devices -> Steps]
    BY <2>4 DEF Goto, TypeOK, Steps
  <2> QED
    BY <1>18, <2>2, <2>3, <2>5 DEF Finish, TypeOK
<1>19. ASSUME Finalize(d) PROVE TypeOK'
  <2>1. /\ store' \in [Devices -> Copy] /\ answer' \in [Devices -> SUBSET Copy]
        /\ gone' \subseteq Items
    BY <1>19, ShowTypes DEF Finalize
  <2>2. pc' \in [Devices -> Steps]
    BY <1>19 DEF Finalize, Show, Goto, TypeOK, Steps
  <2> QED
    BY <1>19, <2>1, <2>2 DEF Finalize, TypeOK
<1>20. ASSUME Refresh(d) PROVE TypeOK'
  BY <1>20 DEF Refresh, Goto, TypeOK, Steps, world
<1>21. ASSUME Reload(d) PROVE TypeOK'
  <2>1. Reloaded(d) \in Copy /\ disk[d] \in Copy
    BY DEF Reloaded, TypeOK
  <2>2. store' \in [Devices -> Copy] /\ answer' \in [Devices -> SUBSET Copy]
    BY <1>21, <2>1, DisplayTypes DEF Reload
  <2>3. known' \in [Devices -> Copy] /\ pc' \in [Devices -> Steps]
    BY <1>21, <2>1 DEF Reload, Goto, TypeOK, Steps
  <2> QED
    BY <1>21, <2>2, <2>3 DEF Reload, TypeOK, world
<1>22. ASSUME Reconcile(d) PROVE TypeOK'
  BY <1>22 DEF Reconcile, TypeOK, cycle, world
<1> QED
  BY <1>1, <1>2, <1>3, <1>4, <1>5, <1>6, <1>7, <1>8, <1>9, <1>10, <1>11, <1>12,
     <1>13, <1>14, <1>15, <1>16, <1>17, <1>18, <1>19, <1>20, <1>21, <1>22 DEF CycleStep

\* The variables of the sync cycle keep their types.
THEOREM CycleTypeCorrect == Spec => []TypeOK
<1>1. Init => TypeOK
  BY InitTypes
<1>2. TypeOK /\ [Next]_vars => TypeOK'
  <2> SUFFICES ASSUME TypeOK, [Next]_vars PROVE TypeOK'
    OBVIOUS
  <2>1. CASE Next
    BY <2>1, StepTypes DEF Next
  <2>2. CASE UNCHANGED vars
    BY <2>2 DEF vars, TypeOK
  <2> QED
    BY <2>1, <2>2
<1> QED
  BY <1>1, <1>2, PTL DEF Spec

-----------------------------------------------------------------------------
(* What a device keeps of one entity                                        *)

Writing == {"persist", "saving", "saved"}

\* From the merge to the remote write, and from the remote write to the end.
Merging(d) == pc[d] \in {"push", "sending"} \/ (stage[d] = "mark" /\ pc[d] \in Writing)
Settling(d) == pc[d] \in {"finish", "finalizing"} \/ (stage[d] = "settle" /\ pc[d] \in Writing)

\* The merged document covers what was read of the remote and of the device, the first
\* local write covers the merged document, the remote covers what was read of it and, once
\* it is written, what was read of the device.
Carried(d, i) ==
    /\ Merging(d) => /\ seen[d][i] <= final[d].doc[i] /\ local[d].doc[i] <= final[d].doc[i]
                     /\ seen[d][i] <= remote[i]
    /\ stage[d] = "mark" /\ pc[d] \in {"saving", "saved"} => final[d].doc[i] <= saving[d].doc[i]
    /\ Settling(d) => local[d].doc[i] <= remote[i]

\* A desktop's adapter and cycle know of no revision that is not in the database, and what
\* the screen has still to take over lies between the two.
Known(d, i) ==
    IF d \in Desktop
      THEN /\ known[d].doc[i] <= disk[d].doc[i] /\ observed[d].doc[i] <= disk[d].doc[i]
           /\ \A a \in answer[d] : store[d].doc[i] <= a.doc[i] /\ a.doc[i] <= disk[d].doc[i]
      ELSE answer[d] = {}

\* What is on a desktop's screen is in its database or waits to be saved.
Waits(d, i) ==
    d \in Desktop =>
        /\ queue[d] = {} => store[d].doc[i] <= disk[d].doc[i]
        /\ \A c \in queue[d] : /\ c.doc[i] <= store[d].doc[i]
                               /\ \/ store[d].doc[i] <= disk[d].doc[i]
                                  \/ store[d].doc[i] <= c.doc[i]

\* So is what a cycle has written and may put on the screen.
Written(d, i) ==
    d \in Desktop =>
        /\ pc[d] = "saved" => saving[d].doc[i] <= disk[d].doc[i]
        /\ pc[d] \in {"push", "sending", "finish", "finalizing"} =>
             final[d].doc[i] <= disk[d].doc[i]
        /\ pc[d] = "pull" /\ aligned[d] => local[d].doc[i] <= disk[d].doc[i]

\* The document that a cycle takes from step to step.
Carrying(d) == pc[d] \in {"pull", "persist", "push", "sending", "finish", "saving", "saved"}
Carry(d) ==
    CASE pc[d] \in {"readDisk", "pull"} -> local[d]
      [] pc[d] \in {"saving", "saved"} -> saving[d]
      [] OTHER -> final[d]

\* It lacks nothing of the database but what has come there from the screen since.
Covers(d, i) ==
    d \in Desktop /\ Carrying(d) =>
        /\ observed[d].doc[i] <= Carry(d).doc[i]
        /\ disk[d].doc[i] <= Carry(d).doc[i] \/ disk[d].doc[i] <= store[d].doc[i]

\* After its first local write it is on the screen, and all of the database with it.
Shown(d) == \/ pc[d] = "clear" \/ (stage[d] # "none" /\ pc[d] \in {"push", "sending"})
            \/ (stage[d] = "settle" /\ pc[d] \in Writing)
Displays(d, i) ==
    d \in Desktop /\ Shown(d) =>
        /\ observed[d].doc[i] <= store[d].doc[i] /\ disk[d].doc[i] <= store[d].doc[i]
        /\ final[d].doc[i] <= store[d].doc[i]
        /\ pc[d] = "saving" => saving[d].doc[i] <= store[d].doc[i]

\* Of its own entities a desktop's screen has the latest revision there is.
Owns(d, i) ==
    d \in Desktop /\ Author[i] = d =>
        /\ remote[i] <= disk[d].doc[i] /\ disk[d].doc[i] <= store[d].doc[i]
        /\ \A c \in queue[d] : c.doc[i] = store[d].doc[i]
        /\ Carrying(d) \/ pc[d] \in {"readDisk", "finalizing"} =>
             Carry(d).doc[i] <= store[d].doc[i]

\* Of the entities of others no device has a later revision than the remote.
Borrows(d, i) ==
    Author[i] # d =>
        /\ store[d].doc[i] <= remote[i] /\ disk[d].doc[i] <= remote[i]
        /\ local[d].doc[i] <= remote[i] /\ final[d].doc[i] <= remote[i]
        /\ saving[d].doc[i] <= remote[i]
        /\ \A c \in queue[d] \cup answer[d] : c.doc[i] <= remote[i]

\* While no edit is noted since the cycle last looked, what it carries covers the screen.
Sound(d) == d \in Desktop \/ ~Fenced
CoversScreen(d, i) ==
    Sound(d) /\ ~stale[d] =>
        /\ pc[d] = "readDisk" => \/ store[d].doc[i] <= local[d].doc[i]
                                 \/ store[d].doc[i] <= disk[d].doc[i]
        /\ Carrying(d) => store[d].doc[i] <= Carry(d).doc[i]
        /\ pc[d] = "reload" => queue[d] = {} /\ store[d].doc[i] <= disk[d].doc[i]

\* On mobile the snapshot that waits is the screen; once a cycle has written, what is
\* on the screen and does not wait is saved; a reload follows such a write.
MobileSaves(d, i) ==
    d \notin Desktop /\ ~Fenced =>
        /\ \A c \in queue[d] : c.doc[i] = store[d].doc[i]
        /\ (pc[d] = "saved" \/ (wrote[d] /\ pc[d] # "idle")) /\ queue[d] = {} =>
             store[d].doc[i] <= disk[d].doc[i]
        /\ pc[d] \in {"refresh", "reload"} => wrote[d]
        /\ pc[d] # "saving"

Kept(d, i) ==
    /\ Carried(d, i) /\ Known(d, i) /\ Waits(d, i) /\ Written(d, i) /\ Covers(d, i)
    /\ Displays(d, i) /\ Owns(d, i) /\ Borrows(d, i) /\ CoversScreen(d, i)
    /\ MobileSaves(d, i)

\* At most one snapshot waits to be saved.
OneWaits(d) == \A b, c \in queue[d] : b = c

CycleInvariant ==
    /\ TypeOK
    /\ \A d \in Devices : OneWaits(d) /\ \A i \in Items \ gone : Kept(d, i)

StepOf(d) ==
    \/ CycleStep(d) \/ SendFails(d) \/ StepFails(d)
    \/ (\E i \in Items : Edit(d, i))
    \/ FlushSave(d) \/ Reconcile(d) \/ BackoffExpires(d) \/ Crash(d)

\* The revisions a device and the remote have of an entity are numbers.
LEMMA Revisions ==
    ASSUME TypeOK, NEW d \in Devices, NEW i \in Items
    PROVE  /\ store[d].doc[i] \in Nat /\ disk[d].doc[i] \in Nat /\ known[d].doc[i] \in Nat
           /\ observed[d].doc[i] \in Nat /\ local[d].doc[i] \in Nat
           /\ final[d].doc[i] \in Nat /\ saving[d].doc[i] \in Nat
           /\ seen[d][i] \in Nat /\ remote[i] \in Nat
           /\ \A c \in queue[d] \cup answer[d] : c \in Copy /\ c.doc[i] \in Nat
           /\ \A c \in Copy : c.doc[i] \in Nat
<1>1. \A c \in Copy : c.doc[i] \in Nat
  BY SyncConstants DEF Copy, Doc
<1>2. \A x \in Doc : x[i] \in Nat
  BY SyncConstants DEF Doc
<1>3. /\ store[d] \in Copy /\ disk[d] \in Copy /\ known[d] \in Copy /\ observed[d] \in Copy
      /\ local[d] \in Copy /\ final[d] \in Copy /\ saving[d] \in Copy
      /\ seen[d] \in Doc /\ remote \in Doc
      /\ queue[d] \in SUBSET Copy /\ answer[d] \in SUBSET Copy
  BY DEF TypeOK
<1> QED
  BY <1>1, <1>2, <1>3

LEMMA RevisionsNext ==
    ASSUME TypeOK', NEW d \in Devices, NEW i \in Items
    PROVE  /\ store'[d].doc[i] \in Nat /\ disk'[d].doc[i] \in Nat /\ known'[d].doc[i] \in Nat
           /\ observed'[d].doc[i] \in Nat /\ local'[d].doc[i] \in Nat
           /\ final'[d].doc[i] \in Nat /\ saving'[d].doc[i] \in Nat
           /\ seen'[d][i] \in Nat /\ remote'[i] \in Nat
           /\ \A c \in queue'[d] \cup answer'[d] : c.doc[i] \in Nat
<1>1. \A c \in Copy : c.doc[i] \in Nat
  BY SyncConstants DEF Copy, Doc
<1>2. \A x \in Doc : x[i] \in Nat
  BY SyncConstants DEF Doc
<1>3. /\ store'[d] \in Copy /\ disk'[d] \in Copy /\ known'[d] \in Copy
      /\ observed'[d] \in Copy /\ local'[d] \in Copy /\ final'[d] \in Copy
      /\ saving'[d] \in Copy /\ seen'[d] \in Doc /\ remote' \in Doc
      /\ queue'[d] \in SUBSET Copy /\ answer'[d] \in SUBSET Copy
  BY DEF TypeOK
<1> QED
  BY <1>1, <1>2, <1>3

-----------------------------------------------------------------------------
(* The other devices                                                        *)

Untouched(e) ==
    /\ store'[e] = store[e] /\ disk'[e] = disk[e] /\ known'[e] = known[e]
    /\ observed'[e] = observed[e] /\ answer'[e] = answer[e] /\ queue'[e] = queue[e]
    /\ stale'[e] = stale[e] /\ pc'[e] = pc[e] /\ local'[e] = local[e]
    /\ aligned'[e] = aligned[e] /\ seen'[e] = seen[e] /\ final'[e] = final[e]
    /\ stage'[e] = stage[e] /\ saving'[e] = saving[e] /\ wrote'[e] = wrote[e]

LEMMA PersistTouchesOne ==
    ASSUME TypeOK, NEW d \in Devices, NEW e \in Devices, e # d, NEW c,
           Persist(d, c) \/ BeginPersist(d, c)
    PROVE  /\ disk'[e] = disk[e] /\ known'[e] = known[e] /\ observed'[e] = observed[e]
           /\ saving'[e] = saving[e] /\ pc'[e] = pc[e]
<1>1. CASE Persist(d, c)
  BY <1>1 DEF Persist, Observe, Goto, TypeOK
<1>2. CASE BeginPersist(d, c) /\ ~Persist(d, c)
  BY <1>2 DEF BeginPersist, Goto, TypeOK
<1> QED
  BY <1>1, <1>2

\* No step of one device touches another.
LEMMA StepsTouchOne ==
    ASSUME TypeOK, NEW d \in Devices, StepOf(d), NEW e \in Devices, e # d
    PROVE  Untouched(e)
<1> USE DEF Untouched, TypeOK
<1>1. CASE (\E i \in Items : Edit(d, i)) \/ Reconcile(d) \/ BackoffExpires(d) \/ Crash(d)
  BY <1>1 DEF Edit, Display, Reconcile, BackoffExpires, Crash, cycle
<1>2. CASE FlushSave(d)
  BY <1>2 DEF FlushSave, cycle
<1>3. CASE Start(d) \/ ReadMemory(d) \/ FlushBeforeRetry(d) \/ Pull(d)
  BY <1>3 DEF Start, ReadMemory, FlushBeforeRetry, Pull, Goto, app
<1>4. CASE ReadDisk(d)
  BY <1>4 DEF ReadDisk, Observe, Goto
<1>5. CASE WriteLocal(d)
  <2>1. CASE BeginPersist(d, ToSave(d)) /\ stale' = [stale EXCEPT ![d] = FALSE]
    BY <1>5, <2>1, PersistTouchesOne DEF WriteLocal
  <2> QED
    BY <1>5, <2>1 DEF WriteLocal, AbortTo, Goto
<1>6. CASE ClearMarker(d)
  BY <1>6, PersistTouchesOne DEF ClearMarker
<1>7. CASE FenceAsserted(d)
  BY <1>7, PersistTouchesOne DEF FenceAsserted
<1>8. CASE LocalWritten(d)
  <2>1. \E step \in Steps : Goto(d, step)
    BY <1>8, LocalWrittenGoes
  <2>2. pc'[e] = pc[e]
    BY <2>1 DEF Goto
  <2>3. store'[e] = store[e] /\ answer'[e] = answer[e]
    BY <1>8 DEF LocalWritten, Display
  <2>4. stale'[e] = stale[e] /\ wrote'[e] = wrote[e] /\ final'[e] = final[e]
    BY <1>8 DEF LocalWritten
  <2> QED
    BY <1>8, <2>2, <2>3, <2>4 DEF LocalWritten
<1>9. CASE WriteRemote(d) \/ Send(d) \/ SendFails(d) \/ StepFails(d)
  BY <1>9 DEF WriteRemote, Send, SendFails, StepFails, AbortTo, FailTo, Goto, app
<1>10. CASE Finish(d) \/ Finalize(d)
  BY <1>10 DEF Finish, Finalize, Show, Display, Goto
<1>11. CASE Refresh(d) \/ Reload(d)
  BY <1>11 DEF Refresh, Reload, Display, Goto
<1> QED
  BY <1>1, <1>2, <1>3, <1>4, <1>5, <1>6, <1>7, <1>8, <1>9, <1>10, <1>11 DEF StepOf, CycleStep

\* What is lost stays so; only a write of the remote changes the remote document.
LEMMA StepsOfWorld ==
    ASSUME NEW d \in Devices, StepOf(d)
    PROVE  /\ gone \subseteq gone' /\ backend' = backend
           /\ remote' = remote \/ Send(d) \/ SendFails(d)
<1>1. CASE (\E i \in Items : Edit(d, i)) \/ Reconcile(d) \/ BackoffExpires(d) \/ Crash(d)
           \/ FlushSave(d)
  BY <1>1 DEF Edit, Reconcile, BackoffExpires, Crash, FlushSave, world
<1>2. CASE Start(d) \/ ReadMemory(d) \/ FlushBeforeRetry(d) \/ Pull(d) \/ ReadDisk(d)
  BY <1>2 DEF Start, ReadMemory, FlushBeforeRetry, Pull, ReadDisk, world
<1>3. CASE WriteLocal(d) \/ ClearMarker(d) \/ FenceAsserted(d) \/ LocalWritten(d)
  BY <1>3 DEF WriteLocal, ClearMarker, FenceAsserted, LocalWritten, world
<1>4. CASE WriteRemote(d) \/ Send(d) \/ SendFails(d) \/ StepFails(d)
  BY <1>4 DEF WriteRemote, Send, SendFails, StepFails, world
<1>5. CASE Finish(d) \/ Finalize(d) \/ Refresh(d) \/ Reload(d)
  BY <1>5 DEF Finish, Finalize, Show, Refresh, Reload, world
<1> QED
  BY <1>1, <1>2, <1>3, <1>4, <1>5 DEF StepOf, CycleStep

\* What the remote becomes: what it was, the later of that and what the device sends, or
\* that if nothing was written since it was read.
LEMMA RemoteMoves ==
    ASSUME TypeOK, NEW d \in Devices, StepOf(d), NEW i \in Items, Carried(d, i)
    PROVE  /\ remote[i] <= remote'[i]
           /\ remote'[i] = remote[i] \/ (pc[d] = "sending" /\ remote'[i] = final[d].doc[i])
<1>1. CASE remote' = remote
  BY <1>1, Revisions
<1>2. CASE remote' # remote
  <2>1. pc[d] = "sending" /\ Accepted(d) /\ remote' = Stored(d)
    BY <1>2, StepsOfWorld DEF Send, SendFails
  <2>2. remote[i] = seen[d][i] \/ ServerMerges
    BY <2>1 DEF Accepted
  <2>3. remote'[i] = IF ServerMerges THEN Later(remote[i], final[d].doc[i])
                                     ELSE final[d].doc[i]
    BY <2>1 DEF Stored, Join
  <2>4. seen[d][i] <= final[d].doc[i]
    BY <2>1 DEF Carried, Merging
  <2> QED
    BY <2>1, <2>2, <2>3, <2>4, Revisions DEF Later
<1> QED
  BY <1>1, <1>2

\* What holds of another device goes on to hold.
LEMMA UntouchedKeeps ==
    ASSUME TypeOK, TypeOK', NEW d \in Devices, StepOf(d), NEW e \in Devices, e # d,
           NEW i \in Items, Kept(d, i), Kept(e, i)
    PROVE  Kept(e, i)'
<1>1. Untouched(e) /\ backend' = backend
  BY StepsTouchOne, StepsOfWorld
<1>2. remote[i] <= remote'[i] /\ (Author[i] = e => remote'[i] = remote[i])
  <2>1. /\ remote[i] <= remote'[i]
        /\ remote'[i] = remote[i] \/ remote'[i] = final[d].doc[i]
    BY RemoteMoves DEF Kept
  <2>2. Author[i] = e => final[d].doc[i] <= remote[i]
    BY DEF Kept, Borrows
  <2>3. remote[i] \in Nat /\ remote'[i] \in Nat /\ final[d].doc[i] \in Nat
    BY Revisions, RevisionsNext
  <2> QED
    BY <2>1, <2>2, <2>3
<1>3. /\ seen[e][i] \in Nat /\ local[e].doc[i] \in Nat /\ remote[i] \in Nat
      /\ remote'[i] \in Nat /\ store[e].doc[i] \in Nat /\ disk[e].doc[i] \in Nat
      /\ final[e].doc[i] \in Nat /\ saving[e].doc[i] \in Nat
      /\ \A c \in queue[e] \cup answer[e] : c.doc[i] \in Nat
  BY Revisions, RevisionsNext
<1>4. Carried(e, i)'
  BY <1>1, <1>2, <1>3 DEF Kept, Carried, Untouched, Merging, Settling, Writing
<1>5. Known(e, i)' /\ Waits(e, i)' /\ Written(e, i)'
  BY <1>1 DEF Kept, Known, Waits, Written, Untouched
<1>6. Covers(e, i)' /\ Displays(e, i)'
  BY <1>1 DEF Kept, Covers, Displays, Shown, Untouched, Carrying, Carry, Writing
<1>7. Owns(e, i)'
  BY <1>1, <1>2 DEF Kept, Owns, Untouched, Carrying, Carry
<1>8. Borrows(e, i)'
  BY <1>1, <1>2, <1>3 DEF Kept, Borrows, Untouched
<1>9. CoversScreen(e, i)' /\ MobileSaves(e, i)'
  BY <1>1 DEF Kept, CoversScreen, MobileSaves, Sound, Fenced, Untouched, Carrying, Carry
<1> QED
  BY <1>4, <1>5, <1>6, <1>7, <1>8, <1>9 DEF Kept

-----------------------------------------------------------------------------
(* The steps of a device, one by one                                        *)

LEMMA EditKeeps ==
    ASSUME TypeOK, TypeOK', NEW d \in Devices, NEW i \in Items, Kept(d, i),
           NEW j \in Items, Edit(d, j)
    PROVE  Kept(d, i)'
<1> DEFINE c == [store[d] EXCEPT !.doc[j] = @ + 1]
<1>1. /\ store[d].doc[i] \in Nat /\ disk[d].doc[i] \in Nat
      /\ store[d] \in Copy /\ store[d].doc \in Doc
  BY Revisions, CopyParts DEF TypeOK
<1>2. c.doc[i] = IF i = j THEN store[d].doc[i] + 1 ELSE store[d].doc[i]
  BY <1>1 DEF Copy, Doc
<1>3. c.doc[j] # store[d].doc[j]
  <2>1. c.doc[j] = store[d].doc[j] + 1 /\ store[d].doc[j] \in Nat
    BY <1>1, Revisions DEF Copy, Doc
  <2> HIDE DEF c
  <2> QED
    BY <2>1
<1>4. Author[j] = d /\ Display(d, c) /\ queue' = [queue EXCEPT ![d] = {c}]
  BY DEF Edit
<1> HIDE DEF c
<1>5. store'[d] = c /\ queue'[d] = {c} /\ answer'[d] = {} /\ stale'[d]
  BY <1>3, <1>4 DEF Edit, Display, TypeOK
<1>6. /\ UNCHANGED <<disk, known, observed, cycle, backend, remote>>
      /\ Carry(d)' = Carry(d) /\ (Carrying(d)' <=> Carrying(d)) /\ (Shown(d)' <=> Shown(d))
  BY DEF Edit, cycle, Carry, Carrying, Shown, Writing
<1>7. Carried(d, i)' /\ Written(d, i)'
  BY <1>6 DEF Kept, Carried, Written, Merging, Settling, Writing, cycle
<1>8. Known(d, i)' /\ Waits(d, i)'
  BY <1>1, <1>2, <1>5, <1>6 DEF Kept, Known, Waits
<1>9. /\ local[d].doc[i] \in Nat /\ final[d].doc[i] \in Nat /\ saving[d].doc[i] \in Nat
      /\ observed[d].doc[i] \in Nat /\ Carry(d).doc[i] \in Nat
  BY Revisions DEF Carry
<1>10. store[d].doc[i] <= store'[d].doc[i] /\ store'[d].doc[i] \in Nat
  BY <1>1, <1>2, <1>5
<1>11. Covers(d, i)' /\ Displays(d, i)'
  BY <1>1, <1>6, <1>9, <1>10 DEF Kept, Covers, Displays, cycle
<1>12. Owns(d, i)'
  BY <1>1, <1>2, <1>5, <1>6, <1>9 DEF Kept, Owns, cycle
<1>13. Borrows(d, i)'
  BY <1>1, <1>2, <1>4, <1>5, <1>6 DEF Kept, Borrows, cycle
<1>14. CoversScreen(d, i)' /\ MobileSaves(d, i)'
  BY <1>5, <1>6 DEF Kept, CoversScreen, MobileSaves, Fenced, cycle
<1> QED
  BY <1>7, <1>8, <1>11, <1>12, <1>13, <1>14 DEF Kept

LEMMA FlushKeeps ==
    ASSUME TypeOK, TypeOK', NEW d \in Devices, NEW i \in Items, Kept(d, i),
           FlushSave(d), i \notin gone'
    PROVE  Kept(d, i)'
<1> DEFINE s(c) == Saved(d, known[d], c)
<1>1. PICK c \in queue[d] :
        /\ disk' = [disk EXCEPT ![d] = s(c)]
        /\ known' = [known EXCEPT ![d] = IF d \in Desktop THEN s(c) ELSE c]
        /\ answer' = [answer EXCEPT ![d] =
                        IF d \in Desktop /\ c = store[d] /\ s(c) # c THEN {s(c)} ELSE {}]
        /\ gone' = gone \cup {j \in Items : s(c).doc[j] < disk[d].doc[j]}
  BY DEF FlushSave
<1>2. c \in Copy /\ c.doc[i] \in Nat /\ known[d] \in Copy
  BY Revisions DEF TypeOK
<1>3. /\ s(c).doc[i] \in Nat /\ s(c).doc[i] \in {0, disk[d].doc[i], c.doc[i]}
      /\ c.doc[i] <= s(c).doc[i] \/ (d \in Desktop /\ disk[d].doc[i] < known[d].doc[i])
  BY <1>2, SavedRow
<1> HIDE DEF s
<1>4. /\ store[d].doc[i] \in Nat /\ disk[d].doc[i] \in Nat /\ known[d].doc[i] \in Nat
      /\ observed[d].doc[i] \in Nat /\ Carry(d).doc[i] \in Nat /\ local[d].doc[i] \in Nat
      /\ final[d].doc[i] \in Nat /\ saving[d].doc[i] \in Nat /\ remote[i] \in Nat
  BY Revisions DEF Carry
<1>5. /\ disk'[d] = s(c) /\ queue'[d] = {} /\ \A a \in answer'[d] : a = s(c) /\ c = store[d]
      /\ known'[d].doc[i] <= s(c).doc[i] \/ d \notin Desktop
      /\ d \notin Desktop => answer'[d] = {}
  <2>1. disk'[d] = s(c) /\ queue'[d] = {} /\ (d \in Desktop => known'[d] = s(c))
    BY <1>1 DEF FlushSave, TypeOK
  <2>2. answer'[d] = IF d \in Desktop /\ c = store[d] /\ s(c) # c THEN {s(c)} ELSE {}
    BY <1>1 DEF TypeOK
  <2>3. s(c).doc[i] <= s(c).doc[i]
    BY <1>3
  <2> QED
    BY <2>1, <2>2, <2>3
<1>6. /\ UNCHANGED <<store, observed, stale, cycle, backend, remote>>
      /\ Carry(d)' = Carry(d) /\ (Carrying(d)' <=> Carrying(d)) /\ (Shown(d)' <=> Shown(d))
  BY DEF FlushSave, cycle, Carry, Carrying, Shown, Writing
<1>7. disk[d].doc[i] <= s(c).doc[i] /\ c.doc[i] <= s(c).doc[i]
  <2>1. ~(s(c).doc[i] < disk[d].doc[i])
    BY <1>1
  <2>2. known[d].doc[i] <= disk[d].doc[i] \/ d \notin Desktop
    BY DEF Kept, Known
  <2> QED
    BY <1>3, <1>4, <2>1, <2>2
<1>8. Carried(d, i)'
  BY <1>6 DEF Kept, Carried, Merging, Settling, Writing, cycle
<1>9. Known(d, i)'
  BY <1>2, <1>3, <1>4, <1>5, <1>6, <1>7 DEF Kept, Known
<1>10. Waits(d, i)'
  BY <1>2, <1>3, <1>4, <1>5, <1>6, <1>7 DEF Kept, Waits
<1>11. Written(d, i)'
  BY <1>3, <1>4, <1>5, <1>6, <1>7 DEF Kept, Written, cycle
<1>12. d \in Desktop => c.doc[i] <= store[d].doc[i]
  BY DEF Kept, Waits
<1>13. Covers(d, i)' /\ Displays(d, i)'
  BY <1>2, <1>3, <1>4, <1>5, <1>6, <1>7, <1>12 DEF Kept, Covers, Displays, cycle
<1>14. Owns(d, i)'
  BY <1>2, <1>3, <1>4, <1>5, <1>6, <1>7, <1>12 DEF Kept, Owns, cycle
<1>15. Borrows(d, i)'
  <2>1. Author[i] # d => s(c).doc[i] <= remote[i]
    BY <1>2, <1>3, <1>4 DEF Kept, Borrows
  <2> QED
    BY <1>5, <1>6, <2>1 DEF Kept, Borrows, cycle
<1>16. CoversScreen(d, i)'
  BY <1>3, <1>4, <1>5, <1>6, <1>7 DEF Kept, CoversScreen, Sound, Fenced, cycle
<1>17. MobileSaves(d, i)'
  <2>1. d \notin Desktop /\ ~Fenced => c.doc[i] = store[d].doc[i]
    BY DEF Kept, MobileSaves
  <2> QED
    BY <1>5, <1>6, <1>7, <2>1 DEF Kept, MobileSaves, Fenced, cycle
<1> QED
  BY <1>8, <1>9, <1>10, <1>11, <1>13, <1>14, <1>15, <1>16, <1>17 DEF Kept

LEMMA ReconcileKeeps ==
    ASSUME TypeOK, TypeOK', NEW d \in Devices, NEW i \in Items, Kept(d, i), Reconcile(d)
    PROVE  Kept(d, i)'
<1>1. PICK a \in answer[d] : store' = [store EXCEPT ![d] = a]
  BY DEF Reconcile
<1>2. store'[d] = a /\ answer'[d] = {} /\ queue[d] = {}
  BY <1>1 DEF Reconcile, TypeOK
<1>3. /\ UNCHANGED <<disk, known, observed, queue, stale, cycle, backend, remote>>
      /\ Carry(d)' = Carry(d) /\ (Carrying(d)' <=> Carrying(d)) /\ (Shown(d)' <=> Shown(d))
  BY DEF Reconcile, cycle, world, Carry, Carrying, Shown, Writing
<1>4. /\ store[d].doc[i] \in Nat /\ disk[d].doc[i] \in Nat /\ a.doc[i] \in Nat
      /\ observed[d].doc[i] \in Nat /\ Carry(d).doc[i] \in Nat /\ local[d].doc[i] \in Nat
      /\ final[d].doc[i] \in Nat /\ saving[d].doc[i] \in Nat /\ remote[i] \in Nat
  BY Revisions DEF Carry
<1>5. d \in Desktop /\ store[d].doc[i] <= a.doc[i] /\ a.doc[i] <= disk[d].doc[i]
  BY <1>1 DEF Kept, Known
<1>6. Carried(d, i)' /\ Written(d, i)'
  BY <1>3 DEF Kept, Carried, Written, Merging, Settling, Writing, cycle
<1>7. Known(d, i)' /\ Waits(d, i)'
  BY <1>2, <1>3, <1>4, <1>5 DEF Kept, Known, Waits
<1>8. Covers(d, i)' /\ Displays(d, i)'
  BY <1>2, <1>3, <1>4, <1>5 DEF Kept, Covers, Displays, cycle
<1>9. Owns(d, i)'
  BY <1>2, <1>3, <1>4, <1>5 DEF Kept, Owns, cycle
<1>10. Borrows(d, i)'
  BY <1>1, <1>2, <1>3 DEF Kept, Borrows, cycle
<1>11. CoversScreen(d, i)'
  BY <1>2, <1>3, <1>4, <1>5 DEF Kept, CoversScreen, Covers, Sound, Fenced, cycle
<1>12. MobileSaves(d, i)'
  BY <1>5 DEF MobileSaves
<1> QED
  BY <1>6, <1>7, <1>8, <1>9, <1>10, <1>11, <1>12 DEF Kept

LEMMA BackoffKeeps ==
    ASSUME TypeOK, NEW d \in Devices, NEW i \in Items, Kept(d, i), BackoffExpires(d)
    PROVE  Kept(d, i)'
<1>1. \A c \in Copy : Elapsed(c).doc = c.doc
  BY DEF Elapsed, Copy
<1>2. /\ store'[d] = Elapsed(store[d]) /\ disk'[d] = Elapsed(disk[d])
      /\ known'[d] = Elapsed(known[d]) /\ observed'[d] = Elapsed(observed[d])
      /\ queue'[d] = {Elapsed(c) : c \in queue[d]}
      /\ answer'[d] = {Elapsed(c) : c \in answer[d]}
  BY DEF BackoffExpires, TypeOK
<1>3. /\ store'[d].doc = store[d].doc /\ disk'[d].doc = disk[d].doc
      /\ known'[d].doc = known[d].doc /\ observed'[d].doc = observed[d].doc
  BY <1>1, <1>2 DEF TypeOK
<1>4. /\ \A c \in queue'[d] : \E b \in queue[d] : c.doc = b.doc
      /\ \A c \in answer'[d] : \E b \in answer[d] : c.doc = b.doc
      /\ queue'[d] = {} <=> queue[d] = {}
      /\ answer'[d] = {} <=> answer[d] = {}
  BY <1>1, <1>2, Revisions
<1>5. /\ UNCHANGED <<stale, cycle, backend, remote>>
      /\ Carry(d)' = Carry(d) /\ (Carrying(d)' <=> Carrying(d)) /\ (Shown(d)' <=> Shown(d))
  BY DEF BackoffExpires, cycle, world, Carry, Carrying, Shown, Writing
<1>6. Carried(d, i)' /\ Written(d, i)'
  BY <1>3, <1>5 DEF Kept, Carried, Written, Merging, Settling, Writing, cycle
<1>7. Known(d, i)' /\ Waits(d, i)'
  BY <1>3, <1>4 DEF Kept, Known, Waits
<1>8. Covers(d, i)' /\ Displays(d, i)'
  BY <1>3, <1>5 DEF Kept, Covers, Displays, cycle
<1>9. Owns(d, i)' /\ Borrows(d, i)'
  BY <1>3, <1>4, <1>5 DEF Kept, Owns, Borrows, cycle
<1>10. CoversScreen(d, i)' /\ MobileSaves(d, i)'
  BY <1>3, <1>4, <1>5 DEF Kept, CoversScreen, MobileSaves, Sound, Fenced, cycle
<1> QED
  BY <1>6, <1>7, <1>8, <1>9, <1>10 DEF Kept

LEMMA CrashKeeps ==
    ASSUME TypeOK, NEW d \in Devices, NEW i \in Items, Kept(d, i), Crash(d)
    PROVE  Kept(d, i)'
<1>1. /\ store'[d] = disk[d] /\ known'[d] = disk[d] /\ queue'[d] = {} /\ answer'[d] = {}
      /\ pc'[d] = "idle"
  BY DEF Crash, TypeOK
<1>2. UNCHANGED <<disk, observed, local, aligned, seen, final, stage, saving, wrote, backend,
                  remote>>
  BY DEF Crash
<1>3. disk[d].doc[i] \in Nat
  BY Revisions
<1>4. Carried(d, i)' /\ Written(d, i)' /\ Covers(d, i)' /\ Displays(d, i)'
  BY <1>1 DEF Carried, Written, Covers, Displays, Merging, Settling, Writing, Carrying, Shown
<1>5. Known(d, i)' /\ Waits(d, i)'
  BY <1>1, <1>2, <1>3 DEF Kept, Known, Waits
<1>6. Owns(d, i)' /\ Borrows(d, i)'
  BY <1>1, <1>2, <1>3 DEF Kept, Owns, Borrows, Carrying
<1>7. CoversScreen(d, i)' /\ MobileSaves(d, i)'
  BY <1>1 DEF CoversScreen, MobileSaves, Carrying
<1> QED
  BY <1>4, <1>5, <1>6, <1>7 DEF Kept

LEMMA StartKeeps ==
    ASSUME TypeOK, NEW d \in Devices, NEW i \in Items, Kept(d, i),
           Start(d) \/ FlushBeforeRetry(d)
    PROVE  Kept(d, i)'
<1>1. /\ pc'[d] = "read" /\ (wrote'[d] => wrote[d] /\ pc[d] = "flushRetry")
      /\ UNCHANGED <<app, local, aligned, seen, final, stage, saving, backend, remote>>
  BY DEF Start, FlushBeforeRetry, Goto, TypeOK, world
<1>2. Carried(d, i)' /\ Written(d, i)' /\ Covers(d, i)' /\ Displays(d, i)'
  BY <1>1 DEF Carried, Written, Covers, Displays, Merging, Settling, Writing, Carrying, Shown
<1>3. Known(d, i)' /\ Waits(d, i)'
  BY <1>1 DEF Kept, Known, Waits, app
<1>4. Owns(d, i)' /\ Borrows(d, i)'
  BY <1>1 DEF Kept, Owns, Borrows, Carrying, app
<1>5. CoversScreen(d, i)'
  BY <1>1 DEF CoversScreen, Carrying
<1>6. MobileSaves(d, i)'
  BY <1>1 DEF Kept, MobileSaves, Fenced, app
<1> QED
  BY <1>2, <1>3, <1>4, <1>5, <1>6 DEF Kept

LEMMA ReadMemoryKeeps ==
    ASSUME TypeOK, NEW d \in Devices, NEW i \in Items, Kept(d, i), ReadMemory(d)
    PROVE  Kept(d, i)'
<1>1. /\ pc[d] = "read" /\ pc'[d] = "readDisk" /\ local'[d] = store[d]
      /\ UNCHANGED <<store, disk, known, observed, answer, queue, aligned, seen, final, stage,
                     saving, wrote, backend, remote>>
  BY DEF ReadMemory, Goto, TypeOK, world
<1>2. store[d].doc[i] \in Nat
  BY Revisions
<1>3. Carried(d, i)' /\ Written(d, i)' /\ Covers(d, i)' /\ Displays(d, i)'
  BY <1>1 DEF Carried, Written, Covers, Displays, Merging, Settling, Writing, Carrying, Shown
<1>4. Known(d, i)' /\ Waits(d, i)'
  BY <1>1 DEF Kept, Known, Waits
<1>5. Owns(d, i)' /\ Borrows(d, i)'
  BY <1>1, <1>2 DEF Kept, Owns, Borrows, Carrying, Carry
<1>6. CoversScreen(d, i)'
  BY <1>1, <1>2 DEF CoversScreen, Carrying
<1>7. MobileSaves(d, i)'
  BY <1>1 DEF Kept, MobileSaves, Fenced
<1> QED
  BY <1>3, <1>4, <1>5, <1>6, <1>7 DEF Kept

LEMMA ReadDiskKeeps ==
    ASSUME TypeOK, NEW d \in Devices, NEW i \in Items, Kept(d, i), ReadDisk(d)
    PROVE  Kept(d, i)'
<1>1. /\ pc[d] = "readDisk" /\ pc'[d] \in {"idle", "flushRetry", "pull"}
      /\ UNCHANGED <<store, disk, answer, queue, stale, seen, final, stage, saving, wrote,
                     backend, remote>>
  BY DEF ReadDisk, Goto, TypeOK, world
<1>2. local'[d].doc = Join(disk[d].doc, local[d].doc)
  BY DEF ReadDisk, TypeOK
<1>3. /\ disk[d].doc[i] \in Nat /\ local[d].doc[i] \in Nat /\ store[d].doc[i] \in Nat
      /\ remote[i] \in Nat
  BY Revisions
<1>4. /\ local'[d].doc[i] = Later(disk[d].doc[i], local[d].doc[i])
      /\ aligned'[d] => local'[d].doc[i] = disk[d].doc[i]
  <2>1. local'[d].doc[i] = Later(disk[d].doc[i], local[d].doc[i])
    BY <1>2 DEF Join
  <2>2. aligned'[d] => disk[d].doc = local[d].doc
    BY DEF ReadDisk, TypeOK
  <2> QED
    BY <1>3, <2>1, <2>2 DEF Later
<1>5. /\ d \in Desktop => observed'[d] = disk[d] /\ known'[d] = known[d]
  BY SyncConstants DEF ReadDisk, Observe, TypeOK
<1>6. Carried(d, i)' /\ Displays(d, i)'
  BY <1>1 DEF Carried, Displays, Merging, Settling, Writing, Shown
<1>7. Known(d, i)' /\ Waits(d, i)'
  BY <1>1, <1>3, <1>5 DEF Kept, Known, Waits
<1>8. Written(d, i)' /\ Covers(d, i)'
  BY <1>1, <1>3, <1>4, <1>5 DEF Written, Covers, Carrying, Carry, Later
<1>9. Owns(d, i)' /\ Borrows(d, i)'
  BY <1>1, <1>3, <1>4 DEF Kept, Owns, Borrows, Carrying, Carry, Later
<1>10. CoversScreen(d, i)'
  BY <1>1, <1>3, <1>4 DEF Kept, CoversScreen, Sound, Fenced, Carrying, Carry, Later
<1>11. MobileSaves(d, i)'
  BY <1>1 DEF Kept, MobileSaves, Fenced
<1> QED
  BY <1>6, <1>7, <1>8, <1>9, <1>10, <1>11 DEF Kept

LEMMA PullKeeps ==
    ASSUME TypeOK, NEW d \in Devices, NEW i \in Items, Kept(d, i), Pull(d)
    PROVE  Kept(d, i)'
<1> DEFINE merged == Join(local[d].doc, remote)
           unchanged == aligned[d] /\ ~retrying[d] /\ merged = local[d].doc
<1>1. /\ pc[d] = "pull" /\ seen'[d] = remote /\ final'[d].doc = merged
      /\ stage'[d] = IF unchanged THEN "none" ELSE "mark"
      /\ pc'[d] = IF unchanged THEN "push" ELSE "persist"
      /\ UNCHANGED <<app, local, aligned, saving, wrote, backend, remote>>
  BY DEF Pull, Goto, TypeOK, world
<1>2. merged[i] = Later(local[d].doc[i], remote[i])
  BY DEF Join
<1>3. unchanged => aligned[d] /\ final'[d].doc[i] = local[d].doc[i]
  BY <1>1
<1> HIDE DEF merged, unchanged
<1>4. /\ disk[d].doc[i] \in Nat /\ local[d].doc[i] \in Nat /\ store[d].doc[i] \in Nat
      /\ remote[i] \in Nat /\ observed[d].doc[i] \in Nat
  BY Revisions
<1>5. /\ final'[d].doc[i] = Later(local[d].doc[i], remote[i])
      /\ pc'[d] \in {"push", "persist"} /\ (pc'[d] = "push" <=> stage'[d] = "none")
      /\ stage'[d] \in {"none", "mark"}
      /\ pc'[d] = "push" => aligned[d] /\ final'[d].doc[i] = local[d].doc[i]
  BY <1>1, <1>2, <1>3
<1>6. Carried(d, i)'
  BY <1>1, <1>4, <1>5 DEF Carried, Merging, Settling, Writing, Later
<1>7. Known(d, i)' /\ Waits(d, i)'
  BY <1>1 DEF Kept, Known, Waits, app
<1>8. Written(d, i)' /\ Displays(d, i)'
  BY <1>1, <1>5 DEF Kept, Written, Displays, Shown, Writing, app
<1>9. Covers(d, i)'
  BY <1>1, <1>4, <1>5 DEF Kept, Covers, Carrying, Carry, Later, app
<1>10. Owns(d, i)' /\ Borrows(d, i)'
  BY <1>1, <1>4, <1>5 DEF Kept, Owns, Borrows, Carrying, Carry, Later, app
<1>11. CoversScreen(d, i)'
  BY <1>1, <1>4, <1>5 DEF Kept, CoversScreen, Sound, Fenced, Carrying, Carry, Later, app
<1>12. MobileSaves(d, i)'
  BY <1>1, <1>5 DEF Kept, MobileSaves, Fenced, app
<1> QED
  BY <1>6, <1>7, <1>8, <1>9, <1>10, <1>11, <1>12 DEF Kept

\* What the cycle carries covers the screen where it finds its snapshot fresh.
LEMMA FreshCovers ==
    ASSUME TypeOK, NEW d \in Devices, NEW i \in Items, CoversScreen(d, i), Sound(d),
           Carrying(d), pc[d] # "pull", Fresh(d, Carry(d).doc)
    PROVE  store[d].doc[i] <= Carry(d).doc[i]
<1>1. CASE ~stale[d]
  BY <1>1 DEF CoversScreen
<1>2. CASE d \in Desktop /\ store[d].doc = Carry(d).doc
  <2>1. store[d].doc[i] \in Nat
    BY Revisions
  <2> QED
    BY <1>2, <2>1
<1> QED
  BY <1>1, <1>2 DEF Fresh

\* What makes document c one that the device may write to its database.
Writes(d, i, c) ==
    /\ d \in Desktop => /\ observed[d].doc[i] <= c.doc[i]
                        /\ disk[d].doc[i] <= c.doc[i] \/ disk[d].doc[i] <= store[d].doc[i]
                        /\ Author[i] = d => c.doc[i] <= store[d].doc[i]
                        /\ stage'[d] = "settle" => c.doc[i] <= store[d].doc[i]
    /\ Author[i] # d => c.doc[i] <= remote[i]
    /\ stage'[d] \in {"mark", "settle"} => stage'[d] = stage[d] /\ pc[d] \in Writing
    /\ stage'[d] = "mark" => final[d].doc[i] <= c.doc[i]
    /\ Sound(d) /\ ~stale'[d] => store[d].doc[i] <= c.doc[i]
    /\ d \notin Desktop /\ ~Fenced => store[d].doc[i] <= c.doc[i]

\* What is then in the database: nothing is deleted of a desktop's.
LEMMA PersistEffect ==
    ASSUME TypeOK, NEW d \in Devices, NEW i \in Items, NEW c \in Copy,
           Known(d, i), d \in Desktop => observed[d].doc[i] <= c.doc[i], Persist(d, c)
    PROVE  /\ disk'[d].doc[i] \in Nat /\ c.doc[i] \in Nat
           /\ c.doc[i] <= disk'[d].doc[i]
           /\ disk'[d].doc[i] \in {0, disk[d].doc[i], c.doc[i]}
           /\ d \in Desktop => /\ disk[d].doc[i] <= disk'[d].doc[i]
                               /\ saving'[d] = disk'[d]
                               /\ observed'[d] = c /\ known'[d] = known[d]
           /\ d \notin Desktop => saving'[d] = c
           /\ pc'[d] = "saved"
<1> DEFINE s == Saved(d, Seen(d), c)
<1>1. Seen(d) \in Copy /\ c.doc[i] \in Nat /\ disk[d].doc[i] \in Nat
      /\ observed[d].doc[i] \in Nat
  <2>1. Seen(d) \in Copy
    BY DEF Seen, TypeOK
  <2> QED
    BY <2>1, Revisions
<1>2. /\ s.doc[i] \in Nat /\ s.doc[i] \in {0, disk[d].doc[i], c.doc[i]}
      /\ disk[d].doc[i] <= s.doc[i] \/ (c.doc[i] = 0 /\ Seen(d).doc[i] = disk[d].doc[i])
      /\ c.doc[i] <= s.doc[i] \/ (d \in Desktop /\ disk[d].doc[i] < Seen(d).doc[i])
  BY <1>1, SavedRow
<1>3. /\ disk'[d] = s /\ pc'[d] = "saved" /\ saving'[d] = IF d \in Desktop THEN s ELSE c
      /\ d \in Desktop => observed'[d] = c /\ known'[d] = known[d]
  BY DEF Persist, Observe, Goto, TypeOK
<1> HIDE DEF s
<1>4. d \in Desktop => /\ Seen(d).doc[i] <= c.doc[i]
                       /\ Seen(d).doc[i] <= disk[d].doc[i] /\ Seen(d).doc[i] \in Nat
  BY <1>1 DEF Seen, Known
<1> QED
  BY <1>1, <1>2, <1>3, <1>4

LEMMA PersistKeeps ==
    ASSUME TypeOK, NEW d \in Devices, NEW i \in Items, Kept(d, i),
           NEW c \in Copy, Persist(d, c), Writes(d, i, c),
           UNCHANGED <<store, answer, queue, local, aligned, seen, final, wrote, backend,
                       remote>>
    PROVE  Kept(d, i)'
<1>1. /\ disk'[d].doc[i] \in Nat /\ c.doc[i] \in Nat
      /\ c.doc[i] <= disk'[d].doc[i]
      /\ disk'[d].doc[i] \in {0, disk[d].doc[i], c.doc[i]}
      /\ d \in Desktop => /\ disk[d].doc[i] <= disk'[d].doc[i]
                          /\ saving'[d] = disk'[d]
                          /\ observed'[d] = c /\ known'[d] = known[d]
      /\ d \notin Desktop => saving'[d] = c
      /\ pc'[d] = "saved"
  BY PersistEffect DEF Kept, Writes
<1>2. /\ store[d].doc[i] \in Nat /\ disk[d].doc[i] \in Nat /\ known[d].doc[i] \in Nat
      /\ final[d].doc[i] \in Nat /\ remote[i] \in Nat /\ observed[d].doc[i] \in Nat
      /\ \A a \in queue[d] \cup answer[d] : a.doc[i] \in Nat
  BY Revisions
<1>3. Carried(d, i)'
  <2>1. stage'[d] = "mark" => final[d].doc[i] <= saving'[d].doc[i]
    BY <1>1, <1>2 DEF Writes
  <2> QED
    BY <1>1, <2>1 DEF Kept, Carried, Writes, Merging, Settling, Writing
<1>4. Known(d, i)'
  BY <1>1, <1>2 DEF Kept, Known
<1>5. Waits(d, i)'
  BY <1>1, <1>2 DEF Kept, Waits
<1>6. Written(d, i)' /\ Covers(d, i)'
  BY <1>1 DEF Written, Covers, Carrying, Carry
<1>7. Displays(d, i)'
  BY <1>1, <1>2 DEF Kept, Displays, Shown, Writing, Writes
<1>8. Owns(d, i)'
  BY <1>1, <1>2 DEF Kept, Owns, Carrying, Carry, Writes
<1>9. Borrows(d, i)'
  BY <1>1, <1>2 DEF Kept, Borrows, Writes
<1>10. CoversScreen(d, i)'
  BY <1>1, <1>2 DEF CoversScreen, Sound, Fenced, Carrying, Carry, Writes
<1>11. MobileSaves(d, i)'
  BY <1>1, <1>2 DEF Kept, MobileSaves, Fenced, Writes
<1> QED
  BY <1>3, <1>4, <1>5, <1>6, <1>7, <1>8, <1>9, <1>10, <1>11 DEF Kept

LEMMA BeginPersistKeeps ==
    ASSUME TypeOK, NEW d \in Devices, NEW i \in Items, Kept(d, i),
           NEW c \in Copy, BeginPersist(d, c), Writes(d, i, c),
           UNCHANGED <<store, answer, queue, local, aligned, seen, final, wrote, backend,
                       remote>>
    PROVE  Kept(d, i)'
<1>1. CASE Persist(d, c)
  BY <1>1, PersistKeeps
<1>2. CASE ~Persist(d, c)
  <2>1. /\ Fenced /\ saving'[d] = c /\ pc'[d] = "saving"
        /\ UNCHANGED <<disk, known, observed>>
    BY <1>2 DEF BeginPersist, Goto, TypeOK
  <2>2. Carried(d, i)'
    BY <2>1 DEF Kept, Carried, Writes, Merging, Settling, Writing
  <2>3. Known(d, i)' /\ Waits(d, i)' /\ Written(d, i)'
    BY <2>1 DEF Kept, Known, Waits, Written
  <2>4. Covers(d, i)' /\ Displays(d, i)'
    BY <2>1 DEF Kept, Covers, Displays, Shown, Writing, Carrying, Carry, Writes
  <2>5. Owns(d, i)' /\ Borrows(d, i)'
    BY <2>1 DEF Kept, Owns, Borrows, Carrying, Carry, Writes
  <2>6. CoversScreen(d, i)' /\ MobileSaves(d, i)'
    BY <2>1 DEF CoversScreen, MobileSaves, Sound, Fenced, Carrying, Carry, Writes
  <2> QED
    BY <2>2, <2>3, <2>4, <2>5, <2>6 DEF Kept
<1> QED
  BY <1>1, <1>2

\* What the cycle writes to the database is such a document.
LEMMA LocalWrites ==
    ASSUME TypeOK, NEW d \in Devices, NEW i \in Items, Kept(d, i),
           \/ WriteLocal(d) /\ Fresh(d, final[d].doc)
           \/ ClearMarker(d) \/ FenceAsserted(d)
    PROVE  \E c \in Copy : Writes(d, i, c) /\ (BeginPersist(d, c) \/ Persist(d, c))
<1>1. CASE WriteLocal(d) /\ Fresh(d, final[d].doc)
  <2>1. /\ BeginPersist(d, ToSave(d)) /\ ~stale'[d]
        /\ ToSave(d) \in Copy /\ ToSave(d).doc = final[d].doc
    BY <1>1, StepCopies DEF WriteLocal, TypeOK
  <2>2. /\ pc[d] = "persist" /\ Carry(d) = final[d] /\ Carrying(d) /\ stage' = stage
    BY <1>1 DEF WriteLocal, Carry, Carrying
  <2>3. Sound(d) => store[d].doc[i] <= final[d].doc[i]
    BY <1>1, <2>2, FreshCovers DEF Kept
  <2>4. final[d].doc[i] \in Nat
    BY Revisions
  <2>5. Writes(d, i, ToSave(d))
    BY <2>1, <2>2, <2>3, <2>4
       DEF Kept, Writes, Covers, Displays, Shown, Owns, Borrows, Writing, Sound
  <2> QED
    BY <2>1, <2>5
<1>2. CASE ClearMarker(d)
  <2> DEFINE c == [store[d] EXCEPT !.flag = "none"]
  <2>1. c \in Copy /\ c.doc[i] = store[d].doc[i] /\ c.doc[i] \in Nat
    <3>1. store[d] \in Copy
      BY DEF TypeOK
    <3> QED
      BY <3>1, CopyParts, Revisions
  <2>2. pc[d] = "clear" /\ BeginPersist(d, c) /\ stage'[d] = "clear"
    BY <1>2 DEF ClearMarker, TypeOK
  <2> HIDE DEF c
  <2>3. Writes(d, i, c)
    BY <2>1, <2>2 DEF Kept, Writes, Displays, Shown, Borrows
  <2> QED
    BY <2>1, <2>2, <2>3
<1>3. CASE FenceAsserted(d)
  <2>1. /\ pc[d] = "saving" /\ Carry(d) = saving[d] /\ Carrying(d)
        /\ Persist(d, saving[d]) /\ saving[d] \in Copy /\ stage' = stage /\ stale' = stale
    BY <1>3 DEF FenceAsserted, TypeOK, Carry, Carrying
  <2>2. Writes(d, i, saving[d])
    BY <2>1 DEF Kept, Writes, Carried, Covers, Displays, Shown, Owns, Borrows, CoversScreen,
                MobileSaves, Writing
  <2> QED
    BY <2>1, <2>2
<1> QED
  BY <1>1, <1>2, <1>3

LEMMA WritingKeeps ==
    ASSUME TypeOK, NEW d \in Devices, NEW i \in Items, Kept(d, i),
           WriteLocal(d) \/ ClearMarker(d) \/ FenceAsserted(d)
    PROVE  Kept(d, i)'
<1>1. UNCHANGED <<store, answer, queue, local, aligned, seen, final, wrote, backend, remote>>
  BY DEF WriteLocal, ClearMarker, FenceAsserted, world
<1>2. CASE (WriteLocal(d) /\ Fresh(d, final[d].doc)) \/ ClearMarker(d) \/ FenceAsserted(d)
  BY <1>1, <1>2, LocalWrites, PersistKeeps, BeginPersistKeeps
<1>3. CASE WriteLocal(d) /\ ~Fresh(d, final[d].doc)
  <2>1. /\ pc[d] = "persist"
        /\ pc'[d] = IF stage[d] = "settle" THEN "clear" ELSE "idle"
        /\ UNCHANGED <<disk, known, observed, saving, stale, stage>>
    BY <1>3 DEF WriteLocal, AbortTo, Goto, TypeOK
  <2>2. Carried(d, i)' /\ Covers(d, i)' /\ CoversScreen(d, i)'
    BY <2>1 DEF Carried, Merging, Settling, Writing, Covers, CoversScreen, Carrying
  <2>3. Known(d, i)' /\ Waits(d, i)' /\ Written(d, i)'
    BY <1>1, <2>1 DEF Kept, Known, Waits, Written
  <2>4. Displays(d, i)'
    BY <1>1, <2>1 DEF Kept, Displays, Shown, Writing
  <2>5. Owns(d, i)' /\ Borrows(d, i)'
    BY <1>1, <2>1 DEF Kept, Owns, Borrows, Carrying
  <2>6. MobileSaves(d, i)'
    BY <1>1, <2>1 DEF Kept, MobileSaves, Fenced
  <2> QED
    BY <2>2, <2>3, <2>4, <2>5, <2>6 DEF Kept
<1> QED
  BY <1>2, <1>3

LEMMA LocalWrittenKeeps ==
    ASSUME TypeOK, NEW d \in Devices, NEW i \in Items, Kept(d, i), LocalWritten(d)
    PROVE  Kept(d, i)'
<1>1. /\ pc[d] = "saved" /\ Carry(d) = saving[d] /\ Carrying(d)
      /\ UNCHANGED <<disk, known, observed, queue, local, aligned, seen, stage, saving,
                     backend, remote>>
  BY DEF LocalWritten, world, Carry, Carrying
<1>2. /\ store[d].doc[i] \in Nat /\ disk[d].doc[i] \in Nat /\ saving[d].doc[i] \in Nat
      /\ final[d].doc[i] \in Nat /\ remote[i] \in Nat /\ observed[d].doc[i] \in Nat
      /\ local[d].doc[i] \in Nat /\ seen[d][i] \in Nat
      /\ \A a \in queue[d] \cup answer[d] : a.doc[i] \in Nat
  BY Revisions
<1>3. CASE Fresh(d, saving[d].doc)
  <2>1. /\ ~stale'[d] /\ wrote'[d]
        /\ d \in Desktop => /\ store'[d] = saving[d]
                            /\ answer'[d] = IF saving[d] = store[d] THEN answer[d] ELSE {}
        /\ d \notin Desktop => UNCHANGED <<store, answer>>
        /\ final'[d] = IF stage[d] \in {"mark", "settle"} THEN saving[d] ELSE final[d]
    <3>1. ~stale'[d] /\ wrote'[d]
      BY <1>3 DEF LocalWritten, TypeOK
    <3>2. IF d \in Desktop THEN Display(d, saving[d]) ELSE UNCHANGED <<store, answer>>
      BY <1>3 DEF LocalWritten
    <3>3. final' = IF stage[d] \in {"mark", "settle"}
                     THEN [final EXCEPT ![d] = saving[d]] ELSE final
      BY <1>3 DEF LocalWritten
    <3> QED
      BY <3>1, <3>2, <3>3 DEF Display, TypeOK
  <2>2. /\ stage[d] = "mark" <=> pc'[d] = "push"
        /\ stage[d] = "settle" <=> pc'[d] = "finish"
        /\ pc'[d] \in {"push", "finish", "refresh", "idle"}
    <3>1. CASE stage[d] = "mark"
      BY <1>3, <3>1 DEF LocalWritten, Goto, TypeOK
    <3>2. CASE stage[d] = "settle"
      BY <1>3, <3>2 DEF LocalWritten, Goto, TypeOK
    <3>3. CASE stage[d] = "retry"
      BY <1>3, <3>3 DEF LocalWritten, FailTo, Goto, TypeOK
    <3>4. CASE stage[d] \in {"clear", "none"}
      <4>1. Goto(d, "idle")
        BY <1>3, <3>4 DEF LocalWritten
      <4> QED
        BY <3>4, <4>1 DEF Goto, TypeOK
    <3> QED
      BY <3>1, <3>2, <3>3, <3>4 DEF TypeOK, Stages
  <2>3. Sound(d) => store[d].doc[i] <= saving[d].doc[i]
    BY <1>1, <1>3, FreshCovers DEF Kept
  <2>4. d \in Desktop => /\ store[d].doc[i] <= store'[d].doc[i]
                         /\ store'[d].doc[i] = saving[d].doc[i]
                         /\ saving[d].doc[i] <= disk[d].doc[i]
    BY <1>1, <2>1, <2>3 DEF Kept, Written, Sound
  <2>5. Carried(d, i)'
    BY <1>1, <1>2, <2>1, <2>2 DEF Kept, Carried, Merging, Settling, Writing
  <2>6. Known(d, i)'
    BY <1>1, <1>2, <2>1, <2>4 DEF Kept, Known
  <2>7. Waits(d, i)' /\ Written(d, i)'
    BY <1>1, <1>2, <2>1, <2>2, <2>4 DEF Kept, Waits, Written
  <2>8. Covers(d, i)'
    BY <1>1, <1>2, <2>1, <2>2, <2>4 DEF Kept, Covers, Carrying, Carry
  <2>9. Displays(d, i)'
    BY <1>1, <1>2, <2>1, <2>2, <2>4 DEF Kept, Covers, Displays, Shown, Writing
  <2>10. Owns(d, i)'
    BY <1>1, <1>2, <2>1, <2>2, <2>4 DEF Kept, Owns, Carrying, Carry
  <2>11. Borrows(d, i)'
    BY <1>1, <1>2, <2>1 DEF Kept, Borrows
  <2>12. CoversScreen(d, i)'
    BY <1>1, <1>2, <2>1, <2>2, <2>3 DEF CoversScreen, Sound, Fenced, Carrying, Carry
  <2>13. MobileSaves(d, i)'
    BY <1>1, <2>1, <2>2 DEF Kept, MobileSaves, Fenced
  <2> QED
    BY <2>5, <2>6, <2>7, <2>8, <2>9, <2>10, <2>11, <2>12, <2>13 DEF Kept
<1>4. CASE ~Fresh(d, saving[d].doc)
  <2>1. /\ pc'[d] = IF stage[d] = "settle" THEN "clear" ELSE "idle"
        /\ UNCHANGED <<stale, store, answer, wrote, final>>
    BY <1>4 DEF LocalWritten, AbortTo, Goto, TypeOK
  <2>2. Carried(d, i)' /\ Covers(d, i)' /\ CoversScreen(d, i)'
    BY <2>1 DEF Carried, Merging, Settling, Writing, Covers, CoversScreen, Carrying
  <2>3. Known(d, i)' /\ Waits(d, i)' /\ Written(d, i)'
    BY <1>1, <2>1 DEF Kept, Known, Waits, Written
  <2>4. Displays(d, i)'
    BY <1>1, <2>1 DEF Kept, Displays, Shown, Writing
  <2>5. Owns(d, i)' /\ Borrows(d, i)'
    BY <1>1, <2>1 DEF Kept, Owns, Borrows, Carrying
  <2>6. MobileSaves(d, i)'
    BY <1>1, <2>1 DEF Kept, MobileSaves, Fenced
  <2> QED
    BY <2>2, <2>3, <2>4, <2>5, <2>6 DEF Kept
<1> QED
  BY <1>3, <1>4

LEMMA WriteRemoteKeeps ==
    ASSUME TypeOK, NEW d \in Devices, NEW i \in Items, Kept(d, i), WriteRemote(d)
    PROVE  Kept(d, i)'
<1>1. /\ pc[d] = "push" /\ Carry(d) = final[d] /\ Carrying(d)
      /\ UNCHANGED <<store, disk, known, observed, answer, queue, local, aligned, seen, final,
                     stage, saving, wrote, backend, remote>>
  BY DEF WriteRemote, world, Carry, Carrying
<1>2. /\ \/ pc'[d] = "sending" /\ Fresh(d, final[d].doc)
         \/ pc'[d] = "clear" /\ stage[d] # "none"
         \/ pc'[d] = "idle"
  BY DEF WriteRemote, AbortTo, Marked, Goto, TypeOK
<1>3. Carried(d, i)'
  BY <1>1, <1>2 DEF Kept, Carried, Merging, Settling, Writing
<1>4. Known(d, i)' /\ Waits(d, i)' /\ Written(d, i)'
  BY <1>1, <1>2 DEF Kept, Known, Waits, Written
<1>5. Covers(d, i)' /\ Displays(d, i)'
  BY <1>1, <1>2 DEF Kept, Covers, Displays, Shown, Writing, Carrying, Carry
<1>6. Owns(d, i)' /\ Borrows(d, i)'
  BY <1>1, <1>2 DEF Kept, Owns, Borrows, Carrying, Carry
<1>7. CoversScreen(d, i)'
  <2>1. Sound(d) /\ Fresh(d, final[d].doc) => store[d].doc[i] <= final[d].doc[i]
    BY <1>1, FreshCovers DEF Kept
  <2> QED
    BY <1>1, <1>2, <2>1 DEF CoversScreen, Sound, Fenced, Carrying, Carry
<1>8. MobileSaves(d, i)'
  BY <1>1, <1>2 DEF Kept, MobileSaves, Fenced
<1> QED
  BY <1>3, <1>4, <1>5, <1>6, <1>7, <1>8 DEF Kept

LEMMA SendKeeps ==
    ASSUME TypeOK, TypeOK', NEW d \in Devices, NEW i \in Items, Kept(d, i),
           Send(d) \/ SendFails(d)
    PROVE  Kept(d, i)'
<1>1. /\ pc[d] = "sending" /\ Carry(d) = final[d] /\ Carrying(d)
      /\ UNCHANGED <<app, local, aligned, seen, final, saving, wrote, backend>>
  BY DEF Send, SendFails, Carry, Carrying
<1>2. /\ store[d].doc[i] \in Nat /\ disk[d].doc[i] \in Nat /\ saving[d].doc[i] \in Nat
      /\ final[d].doc[i] \in Nat /\ remote[i] \in Nat /\ remote'[i] \in Nat
      /\ local[d].doc[i] \in Nat /\ seen[d][i] \in Nat
      /\ \A a \in queue[d] \cup answer[d] : a.doc[i] \in Nat
  BY Revisions, RevisionsNext
<1>3. remote[i] <= remote'[i] /\ remote'[i] \in {remote[i], final[d].doc[i]}
  <2>1. StepOf(d)
    BY DEF StepOf, CycleStep
  <2> QED
    BY <2>1, RemoteMoves DEF Kept
<1>4. /\ pc'[d] \in {"persist", "finish", "clear", "idle"}
      /\ pc'[d] = "persist" => stage'[d] = "retry" \/ (stage'[d] = "settle" /\ Send(d))
      /\ pc'[d] \in {"persist", "clear"} /\ stage'[d] # "retry" => stage[d] # "none"
      /\ pc'[d] = "finish" => Send(d)
      /\ pc'[d] \in {"finish", "clear"} => stage'[d] = stage[d]
  BY DEF Send, SendFails, AbortTo, Marked, Goto, TypeOK
<1>5. Carried(d, i)'
  <2>1. /\ seen[d][i] <= final[d].doc[i] /\ local[d].doc[i] <= final[d].doc[i]
        /\ seen[d][i] <= remote[i]
    BY <1>1 DEF Kept, Carried, Merging
  <2>2. Settling(d)' => remote'[i] \in {seen[d][i], Later(remote[i], final[d].doc[i])}
                        /\ final[d].doc[i] <= remote'[i]
    <3>1. ASSUME Send(d), pc'[d] \in {"persist", "finish"} PROVE final[d].doc[i] <= remote'[i]
      <4>1. Repeats(d) \/ Accepted(d)
        BY <3>1 DEF Send, AbortTo, Goto, TypeOK
      <4>2. CASE Repeats(d)
        <5>1. final[d].doc[i] = seen[d][i] /\ remote' = remote
          BY <3>1, <4>2 DEF Send, Repeats
        <5> QED
          BY <1>2, <2>1, <5>1
      <4>3. CASE ~Repeats(d)
        <5>1. remote' = Stored(d)
          BY <3>1, <4>1, <4>3 DEF Send
        <5>2. remote'[i] = IF ServerMerges THEN Later(remote[i], final[d].doc[i])
                                           ELSE final[d].doc[i]
          BY <5>1 DEF Stored, Join
        <5> QED
          BY <1>2, <5>2 DEF Later
      <4> QED
        BY <4>2, <4>3
    <3> QED
      BY <1>2, <1>3, <1>4, <3>1 DEF Settling, Writing, Later
  <2>3. ~Merging(d)' /\ ~(pc'[d] \in {"saving", "saved"})
    BY <1>4 DEF Merging, Writing
  <2> QED
    BY <1>1, <1>2, <2>1, <2>2, <2>3 DEF Carried
<1>6. Known(d, i)' /\ Waits(d, i)' /\ Written(d, i)'
  BY <1>1, <1>4 DEF Kept, Known, Waits, Written, app
<1>7. Covers(d, i)' /\ Displays(d, i)'
  BY <1>1, <1>4 DEF Kept, Covers, Displays, Shown, Writing, Carrying, Carry, app
<1>8. Owns(d, i)'
  BY <1>1, <1>2, <1>3, <1>4 DEF Kept, Owns, Written, Carrying, Carry, app
<1>9. Borrows(d, i)'
  BY <1>1, <1>2, <1>3 DEF Kept, Borrows, app
<1>10. CoversScreen(d, i)' /\ MobileSaves(d, i)'
  BY <1>1, <1>4 DEF Kept, CoversScreen, MobileSaves, Sound, Fenced, Carrying, Carry, app
<1> QED
  BY <1>5, <1>6, <1>7, <1>8, <1>9, <1>10 DEF Kept

LEMMA FailKeeps ==
    ASSUME TypeOK, NEW d \in Devices, NEW i \in Items, Kept(d, i), StepFails(d)
    PROVE  Kept(d, i)'
<1>1. /\ pc[d] \in {"pull", "persist", "saving"}
      /\ pc'[d] = IF d \in Desktop \/ wrote[d] THEN "refresh" ELSE "idle"
      /\ UNCHANGED <<app, local, aligned, seen, final, stage, saving, wrote, backend, remote>>
  BY DEF StepFails, FailTo, Goto, TypeOK
<1>2. Carried(d, i)' /\ Covers(d, i)' /\ Displays(d, i)' /\ CoversScreen(d, i)'
  BY <1>1 DEF Carried, Covers, Displays, CoversScreen, Merging, Settling, Shown, Writing,
              Carrying
<1>3. Known(d, i)' /\ Waits(d, i)' /\ Written(d, i)'
  BY <1>1 DEF Kept, Known, Waits, Written, app
<1>4. Owns(d, i)' /\ Borrows(d, i)'
  BY <1>1 DEF Kept, Owns, Borrows, Carrying, app
<1>5. MobileSaves(d, i)'
  BY <1>1 DEF Kept, MobileSaves, Fenced, app
<1> QED
  BY <1>2, <1>3, <1>4, <1>5 DEF Kept

\* The final refresh, of an entity that it does not take off the screen.
LEMMA ShowKeeps ==
    ASSUME TypeOK, NEW d \in Devices, NEW i \in Items, Kept(d, i), i \notin gone',
           Show(d), pc[d] \in {"finish", "finalizing"}, ~FlushesFirst(d),
           UNCHANGED <<disk, known, observed, queue, local, aligned, seen, final, stage,
                       saving, wrote, backend, remote>>
    PROVE  Kept(d, i)'
<1>1. /\ pc'[d] = "idle" /\ Carry(d) = final[d]
      /\ Shows(d) => /\ store'[d] = final[d]
                     /\ answer'[d] = IF final[d] = store[d] THEN answer[d] ELSE {}
      /\ ~Shows(d) => UNCHANGED <<store, answer>>
      /\ ~(store'[d].doc[i] < store[d].doc[i])
  BY DEF Show, Display, Goto, TypeOK, Carry
<1>2. /\ store[d].doc[i] \in Nat /\ disk[d].doc[i] \in Nat /\ final[d].doc[i] \in Nat
      /\ remote[i] \in Nat /\ known[d].doc[i] \in Nat
      /\ \A a \in queue[d] \cup answer[d] : a.doc[i] \in Nat
  BY Revisions
<1>3. store[d].doc[i] <= store'[d].doc[i] /\ store'[d].doc[i] \in {store[d].doc[i], final[d].doc[i]}
  BY <1>1, <1>2
<1>4. d \in Desktop => Shows(d) /\ final[d].doc[i] <= disk[d].doc[i]
  BY DEF Kept, Written, Shows
<1>5. Carried(d, i)' /\ Written(d, i)' /\ Covers(d, i)' /\ Displays(d, i)'
  BY <1>1 DEF Carried, Written, Covers, Displays, Merging, Settling, Writing, Carrying, Shown
<1>6. Known(d, i)' /\ Waits(d, i)'
  BY <1>1, <1>2, <1>3, <1>4 DEF Kept, Known, Waits
<1>7. Owns(d, i)'
  BY <1>1, <1>2, <1>3, <1>4 DEF Kept, Owns, Carrying
<1>8. Borrows(d, i)'
  BY <1>1, <1>2, <1>3 DEF Kept, Borrows
<1>9. CoversScreen(d, i)'
  BY <1>1 DEF CoversScreen, Carrying
<1>10. MobileSaves(d, i)'
  BY <1>1 DEF Kept, MobileSaves, Fenced, Shows, FlushesFirst
<1> QED
  BY <1>5, <1>6, <1>7, <1>8, <1>9, <1>10 DEF Kept

LEMMA FinishKeeps ==
    ASSUME TypeOK, NEW d \in Devices, NEW i \in Items, Kept(d, i), i \notin gone',
           Finish(d) \/ Finalize(d)
    PROVE  Kept(d, i)'
<1>1. /\ pc[d] \in {"finish", "finalizing"}
      /\ UNCHANGED <<disk, known, observed, queue, local, aligned, seen, final, stage, saving,
                     wrote, backend, remote>>
  BY DEF Finish, Finalize
<1>2. CASE Show(d) /\ ~FlushesFirst(d)
  BY <1>1, <1>2, ShowKeeps
<1>3. CASE ~(Show(d) /\ ~FlushesFirst(d))
  <2>1. /\ pc[d] = "finish" /\ pc'[d] \in {"finalizing", "idle"}
        /\ UNCHANGED <<store, answer>>
    BY <1>3 DEF Finish, Finalize, Goto, TypeOK
  <2>2. Carried(d, i)' /\ Covers(d, i)' /\ Displays(d, i)' /\ CoversScreen(d, i)'
    BY <1>1, <2>1 DEF Kept, Carried, Covers, Displays, CoversScreen, Merging, Settling, Shown,
                      Writing, Carrying
  <2>3. Known(d, i)' /\ Waits(d, i)' /\ Written(d, i)'
    BY <1>1, <2>1 DEF Kept, Known, Waits, Written
  <2>4. Owns(d, i)' /\ Borrows(d, i)'
    BY <1>1, <2>1 DEF Kept, Owns, Borrows, Carrying, Carry
  <2>5. MobileSaves(d, i)'
    BY <1>1, <2>1 DEF Kept, MobileSaves, Fenced
  <2> QED
    BY <2>2, <2>3, <2>4, <2>5 DEF Kept
<1> QED
  BY <1>2, <1>3

LEMMA RefreshKeeps ==
    ASSUME TypeOK, NEW d \in Devices, NEW i \in Items, Kept(d, i), Refresh(d)
    PROVE  Kept(d, i)'
<1>1. /\ pc[d] = "refresh" /\ pc'[d] = "reload" /\ queue[d] = {}
      /\ UNCHANGED <<store, disk, known, observed, answer, queue, local, aligned, seen, final,
                     stage, saving, wrote, backend, remote>>
  BY DEF Refresh, Goto, TypeOK, world
<1>2. Carried(d, i)' /\ Covers(d, i)' /\ Displays(d, i)'
  BY <1>1 DEF Carried, Covers, Displays, Merging, Settling, Shown, Writing, Carrying
<1>3. Known(d, i)' /\ Waits(d, i)' /\ Written(d, i)'
  BY <1>1 DEF Kept, Known, Waits, Written
<1>4. Owns(d, i)' /\ Borrows(d, i)'
  BY <1>1 DEF Kept, Owns, Borrows, Carrying
<1>5. CoversScreen(d, i)'
  BY <1>1 DEF Kept, CoversScreen, Waits, MobileSaves, Sound, Fenced, Carrying
<1>6. MobileSaves(d, i)'
  BY <1>1 DEF Kept, MobileSaves, Fenced
<1> QED
  BY <1>2, <1>3, <1>4, <1>5, <1>6 DEF Kept

LEMMA ReloadKeeps ==
    ASSUME TypeOK, NEW d \in Devices, NEW i \in Items, Kept(d, i), Reload(d)
    PROVE  Kept(d, i)'
<1>1. /\ pc[d] = "reload" /\ pc'[d] = "idle" /\ known'[d] = disk[d]
      /\ UNCHANGED <<disk, observed, queue, stale, local, aligned, seen, final, stage, saving,
                     wrote, backend, remote>>
  BY DEF Reload, Goto, TypeOK, world
<1>2. /\ store'[d] = Reloaded(d)
      /\ answer'[d] = IF Reloaded(d) = store[d] THEN answer[d] ELSE {}
  BY DEF Reload, Display, TypeOK
<1>3. /\ store[d].doc[i] \in Nat /\ disk[d].doc[i] \in Nat /\ remote[i] \in Nat
      /\ \A a \in queue[d] \cup answer[d] : a.doc[i] \in Nat
  BY Revisions
<1>4. \/ stale[d] /\ store'[d] = store[d] /\ answer'[d] = answer[d]
      \/ ~stale[d] /\ store'[d] = disk[d] /\ (store'[d] = store[d] \/ answer'[d] = {})
         /\ answer'[d] \subseteq answer[d]
  BY <1>2 DEF Reloaded
<1>5. Sound(d) /\ ~stale[d] => queue[d] = {}
  BY <1>1 DEF Kept, CoversScreen
<1>6. Carried(d, i)' /\ Written(d, i)' /\ Covers(d, i)' /\ Displays(d, i)' /\ CoversScreen(d, i)'
  BY <1>1 DEF Carried, Written, Covers, Displays, CoversScreen, Merging, Settling, Writing,
              Carrying, Shown
<1>7. Known(d, i)' /\ Waits(d, i)'
  BY <1>1, <1>3, <1>4, <1>5 DEF Kept, Known, Waits, Sound
<1>8. Owns(d, i)' /\ Borrows(d, i)'
  BY <1>1, <1>3, <1>4, <1>5 DEF Kept, Owns, Borrows, Sound, Carrying
<1>9. MobileSaves(d, i)'
  BY <1>1, <1>4, <1>5 DEF Kept, MobileSaves, Sound, Fenced
<1> QED
  BY <1>6, <1>7, <1>8, <1>9 DEF Kept

-----------------------------------------------------------------------------
(* The invariant                                                            *)

LEMMA StepKeeps ==
    ASSUME TypeOK, TypeOK', NEW d \in Devices, NEW i \in Items, i \notin gone', Kept(d, i),
           StepOf(d)
    PROVE  Kept(d, i)'
<1>1. CASE \E j \in Items : Edit(d, j)
  BY <1>1, EditKeeps
<1>2. CASE FlushSave(d) \/ Reconcile(d) \/ BackoffExpires(d) \/ Crash(d)
  BY <1>2, FlushKeeps, ReconcileKeeps, BackoffKeeps, CrashKeeps
<1>3. CASE Start(d) \/ FlushBeforeRetry(d) \/ ReadMemory(d) \/ ReadDisk(d) \/ Pull(d)
  BY <1>3, StartKeeps, ReadMemoryKeeps, ReadDiskKeeps, PullKeeps
<1>4. CASE WriteLocal(d) \/ ClearMarker(d) \/ FenceAsserted(d) \/ LocalWritten(d)
  BY <1>4, WritingKeeps, LocalWrittenKeeps
<1>5. CASE WriteRemote(d) \/ Send(d) \/ SendFails(d) \/ StepFails(d)
  BY <1>5, WriteRemoteKeeps, SendKeeps, FailKeeps
<1>6. CASE Finish(d) \/ Finalize(d) \/ Refresh(d) \/ Reload(d)
  BY <1>6, FinishKeeps, RefreshKeeps, ReloadKeeps
<1> QED
  BY <1>1, <1>2, <1>3, <1>4, <1>5, <1>6 DEF StepOf, CycleStep

LEMMA OneWaitsKeeps ==
    ASSUME TypeOK, NEW d \in Devices, OneWaits(d), StepOf(d)
    PROVE  OneWaits(d)'
<1>1. CASE queue'[d] = queue[d] \/ queue'[d] = {} \/ \E c \in Copy : queue'[d] = {c}
  BY <1>1 DEF OneWaits
<1>2. CASE queue'[d] = {Elapsed(c) : c \in queue[d]}
  BY <1>2 DEF OneWaits
<1>3. CASE \E j \in Items : Edit(d, j)
  <2>1. \E c : queue'[d] = {c}
    BY <1>3 DEF Edit, TypeOK
  <2> QED
    BY <2>1 DEF OneWaits
<1>4. CASE FlushSave(d) \/ Crash(d)
  <2>1. queue'[d] = {}
    BY <1>4 DEF FlushSave, Crash, TypeOK
  <2> QED
    BY <1>1, <2>1
<1>5. CASE BackoffExpires(d)
  <2>1. queue'[d] = {Elapsed(c) : c \in queue[d]}
    BY <1>5 DEF BackoffExpires, TypeOK
  <2> QED
    BY <1>2, <2>1
<1>6. CASE Reconcile(d) \/ Start(d) \/ FlushBeforeRetry(d) \/ ReadMemory(d) \/ ReadDisk(d)
           \/ Pull(d) \/ WriteLocal(d) \/ ClearMarker(d) \/ FenceAsserted(d) \/ LocalWritten(d)
  <2>1. queue' = queue
    BY <1>6 DEF Reconcile, Start, FlushBeforeRetry, ReadMemory, ReadDisk, Pull, WriteLocal,
                ClearMarker, FenceAsserted, LocalWritten, app
  <2> QED
    BY <1>1, <2>1
<1>7. CASE WriteRemote(d) \/ Send(d) \/ SendFails(d) \/ StepFails(d) \/ Finish(d) \/ Finalize(d)
           \/ Refresh(d) \/ Reload(d)
  <2>1. queue' = queue
    BY <1>7 DEF WriteRemote, Send, SendFails, StepFails, Finish, Finalize, Refresh, Reload, app
  <2> QED
    BY <1>1, <2>1
<1> QED
  BY <1>3, <1>4, <1>5, <1>6, <1>7 DEF StepOf, CycleStep

LEMMA CycleInvariantInductive ==
    ASSUME CycleInvariant, [Next]_vars
    PROVE  CycleInvariant'
<1>1. CASE Next
  <2>1. PICK d \in Devices : StepOf(d)
    BY <1>1 DEF Next, StepOf
  <2>2. TypeOK /\ TypeOK'
    <3>1. TypeOK
      BY DEF CycleInvariant
    <3> QED
      BY <2>1, <3>1, StepTypes DEF StepOf
  <2>3. gone \subseteq gone'
    BY <2>1, StepsOfWorld
  <2>4. ASSUME NEW e \in Devices, NEW i \in Items \ gone' PROVE Kept(e, i)'
    <3>1. i \notin gone /\ i \in Items /\ Kept(d, i) /\ Kept(e, i)
      BY <2>3 DEF CycleInvariant
    <3> QED
      BY <2>1, <2>2, <3>1, StepKeeps, UntouchedKeeps
  <2>5. ASSUME NEW e \in Devices PROVE OneWaits(e)'
    <3>1. OneWaits(e) /\ OneWaits(d)
      BY DEF CycleInvariant
    <3>2. CASE e = d
      BY <2>1, <2>2, <3>1, <3>2, OneWaitsKeeps
    <3>3. CASE e # d
      BY <2>1, <2>2, <3>1, <3>3, StepsTouchOne DEF Untouched, OneWaits
    <3> QED
      BY <3>2, <3>3
  <2> QED
    BY <2>2, <2>4, <2>5 DEF CycleInvariant
<1>2. CASE UNCHANGED vars
  BY <1>2 DEF vars, CycleInvariant, TypeOK, OneWaits, Kept, Carried, Known, Waits, Written, Covers,
     Displays, Owns, Borrows, CoversScreen, MobileSaves, Merging, Settling, Writing, Carrying,
     Carry, Shown, Sound, Fenced
<1> QED
  BY <1>1, <1>2

LEMMA CycleInvariantHolds == Spec => []CycleInvariant
<1>1. Init => CycleInvariant
  <2> SUFFICES ASSUME Init PROVE CycleInvariant
    OBVIOUS
  <2>1. TypeOK
    BY InitTypes
  <2>2. ASSUME NEW d \in Devices PROVE OneWaits(d)
    BY DEF Init, OneWaits
  <2>3. ASSUME NEW d \in Devices, NEW i \in Items PROVE Kept(d, i)
    <3>1. /\ pc[d] = "idle" /\ queue[d] = {} /\ answer[d] = {} /\ remote[i] = 0
          /\ store[d].doc[i] = 0 /\ disk[d].doc[i] = 0 /\ known[d].doc[i] = 0
          /\ observed[d].doc[i] = 0 /\ local[d].doc[i] = 0 /\ final[d].doc[i] = 0
          /\ saving[d].doc[i] = 0
      BY DEF Init, Blank, Nothing
    <3> QED
      BY <3>1 DEF Kept, Carried, Known, Waits, Written, Covers, Displays, Owns, Borrows,
         CoversScreen, MobileSaves, Merging, Settling, Writing, Carrying, Shown
  <2> QED
    BY <2>1, <2>2, <2>3 DEF CycleInvariant
<1>2. CycleInvariant /\ [Next]_vars => CycleInvariant'
  BY CycleInvariantInductive
<1> QED
  BY <1>1, <1>2, PTL DEF Spec

-----------------------------------------------------------------------------
(* The remote                                                               *)

\* The conditional write keeps the remote document from ever going back, for any number of
\* devices, edits, failures and kills, but for an entity deleted from a database before.
THEOREM RemoteOnlyGrows == Spec => RemoteNeverRegresses
<1>1. CycleInvariant /\ [Next]_vars
        => [\A i \in Items \ gone : remote[i] <= remote'[i]]_vars
  <2> SUFFICES ASSUME CycleInvariant, Next, NEW i \in Items \ gone
               PROVE  remote[i] <= remote'[i]
    OBVIOUS
  <2>1. PICK d \in Devices : StepOf(d)
    BY DEF Next, StepOf
  <2>2. TypeOK /\ Carried(d, i)
    BY DEF CycleInvariant, Kept
  <2> QED
    BY <2>1, <2>2, RemoteMoves
<1> QED
  BY <1>1, CycleInvariantHolds, PTL DEF Spec, RemoteNeverRegresses

\* A cycle that reports success has what it read of its device on the remote.
THEOREM SuccessIsPublished == Spec => []SuccessMeansPublished
<1>1. CycleInvariant => SuccessMeansPublished
  BY DEF CycleInvariant, Kept, Carried, Settling, Writing, SuccessMeansPublished, Succeeding
<1> QED
  BY <1>1, CycleInvariantHolds, PTL

-----------------------------------------------------------------------------
(* The screen                                                               *)

AllSound == Devices \subseteq Desktop \/ "fenced" \notin Backends

\* What the screen becomes of an entity.
LEMMA ScreenMoves ==
    ASSUME TypeOK, TypeOK', NEW d \in Devices, NEW i \in Items, Kept(d, i), Sound(d),
           StepOf(d)
    PROVE  \/ store[d].doc[i] <= store'[d].doc[i]
           \/ pc[d] = "finalizing" \/ crashes' # crashes
<1>1. store[d].doc[i] \in Nat /\ disk[d].doc[i] \in Nat
  BY Revisions
<1>2. CASE \E j \in Items : Edit(d, j)
  <2>1. PICK j \in Items : Edit(d, j)
    BY <1>2
  <2>2. store[d] \in Copy /\ store[d].doc \in Doc
    BY CopyParts DEF TypeOK
  <2>3. store'[d] = [store[d] EXCEPT !.doc[j] = @ + 1]
    BY <2>1 DEF Edit, Display, TypeOK
  <2>4. store'[d].doc[i] = IF i = j THEN store[d].doc[i] + 1 ELSE store[d].doc[i]
    BY <2>2, <2>3 DEF Copy, Doc
  <2> QED
    BY <1>1, <2>4
<1>3. CASE Crash(d)
  BY <1>3 DEF Crash, TypeOK
<1>4. CASE BackoffExpires(d)
  BY <1>1, <1>4 DEF BackoffExpires, Elapsed, TypeOK, Copy
<1>5. CASE Reconcile(d)
  <2>1. PICK a \in answer[d] : store' = [store EXCEPT ![d] = a]
    BY <1>5 DEF Reconcile
  <2>2. store'[d] = a /\ store[d].doc[i] <= a.doc[i]
    BY <2>1 DEF Kept, Known, TypeOK
  <2> QED
    BY <2>2
<1>6. CASE LocalWritten(d)
  <2>1. store'[d] = store[d] \/ (Fresh(d, saving[d].doc) /\ store'[d] = saving[d])
    BY <1>6 DEF LocalWritten, Display, TypeOK
  <2>2. pc[d] = "saved" /\ Carrying(d) /\ Carry(d) = saving[d]
    BY <1>6 DEF LocalWritten, Carrying, Carry
  <2> QED
    BY <1>1, <2>1, <2>2, FreshCovers DEF Kept
<1>7. CASE Finish(d)
  <2>1. store'[d] = store[d] \/ (Fresh(d, final[d].doc) /\ store'[d] = final[d])
    BY <1>7 DEF Finish, Show, Display, TypeOK
  <2>2. pc[d] = "finish" /\ Carrying(d) /\ Carry(d) = final[d]
    BY <1>7 DEF Finish, Carrying, Carry
  <2> QED
    BY <1>1, <2>1, <2>2, FreshCovers DEF Kept
<1>8. CASE Finalize(d)
  BY <1>8 DEF Finalize
<1>9. CASE Reload(d)
  <2>1. store'[d] = store[d] \/ (~stale[d] /\ store'[d] = disk[d])
    BY <1>9 DEF Reload, Reloaded, Display, TypeOK
  <2>2. ~stale[d] => store[d].doc[i] <= disk[d].doc[i]
    BY <1>9 DEF Kept, CoversScreen, Reload
  <2> QED
    BY <1>1, <2>1, <2>2
<1>10. CASE FlushSave(d) \/ Start(d) \/ FlushBeforeRetry(d) \/ ReadMemory(d) \/ ReadDisk(d)
           \/ Pull(d) \/ WriteLocal(d) \/ ClearMarker(d) \/ FenceAsserted(d)
  <2>1. store' = store
    BY <1>10 DEF FlushSave, Start, FlushBeforeRetry, ReadMemory, ReadDisk, Pull, WriteLocal,
                 ClearMarker, FenceAsserted, app
  <2> QED
    BY <1>1, <2>1
<1>11. CASE WriteRemote(d) \/ Send(d) \/ SendFails(d) \/ StepFails(d) \/ Refresh(d)
  <2>1. store' = store
    BY <1>11 DEF WriteRemote, Send, SendFails, StepFails, Refresh, app
  <2> QED
    BY <1>1, <2>1
<1> QED
  BY <1>2, <1>3, <1>4, <1>5, <1>6, <1>7, <1>8, <1>9, <1>10, <1>11 DEF StepOf, CycleStep

\* On desktop, and on any backend without a fence, the final refresh and a kill are the
\* only steps that put an older revision back on the screen, whatever the user, the
\* save queue and the other devices do meanwhile.
THEOREM ScreensKeepEdits ==
    ASSUME Devices \subseteq Desktop \/ "fenced" \notin Backends
    PROVE  Spec => OnlyFinalizeLosesEdits
<1>1. AllSound
  BY DEF AllSound
<1>2. CycleInvariant /\ [Next]_vars
        => [\A d \in Devices, i \in Items \ gone :
              \/ store[d].doc[i] <= store'[d].doc[i]
              \/ pc[d] = "finalizing" \/ crashes' # crashes]_vars
  <2> SUFFICES ASSUME CycleInvariant, Next, NEW e \in Devices, NEW i \in Items \ gone
               PROVE  \/ store[e].doc[i] <= store'[e].doc[i]
                      \/ pc[e] = "finalizing" \/ crashes' # crashes
    OBVIOUS
  <2>1. PICK d \in Devices : StepOf(d)
    BY DEF Next, StepOf
  <2>2. TypeOK /\ TypeOK' /\ Kept(e, i)
    BY CycleInvariantInductive DEF CycleInvariant
  <2>3. CASE e = d
    <3>1. Sound(d)
      BY <1>1, <2>2 DEF AllSound, Sound, Fenced, TypeOK
    <3> QED
      BY <2>1, <2>2, <2>3, <3>1, ScreenMoves
  <2>4. CASE e # d
    <3>1. store'[e] = store[e]
      BY <2>1, <2>2, <2>4, StepsTouchOne DEF Untouched
    <3>2. store[e].doc[i] \in Nat
      BY <2>2, Revisions
    <3> QED
      BY <3>1, <3>2
  <2> QED
    BY <2>3, <2>4
<1> QED
  BY <1>2, CycleInvariantHolds, PTL DEF Spec, OnlyFinalizeLosesEdits

-----------------------------------------------------------------------------
(* The database                                                             *)

\* What becomes of an entity in the database of a desktop device: a revision leaves it only
\* if the remote holds it, one comes into it from the remote or from the screen.
LEMMA DatabaseMoves ==
    ASSUME TypeOK, NEW d \in Devices, d \in Desktop, NEW i \in Items, Kept(d, i), StepOf(d)
    PROVE  /\ disk[d].doc[i] <= disk'[d].doc[i] \/ disk[d].doc[i] <= remote[i]
           /\ \/ disk'[d].doc[i] <= disk[d].doc[i] \/ disk'[d].doc[i] <= remote[i]
              \/ disk'[d].doc[i] <= store[d].doc[i]
<1>1. /\ store[d].doc[i] \in Nat /\ disk[d].doc[i] \in Nat /\ known[d].doc[i] \in Nat
      /\ remote[i] \in Nat
  BY Revisions
<1>2. CASE FlushSave(d)
  <2>1. PICK c \in queue[d] : disk' = [disk EXCEPT ![d] = Saved(d, known[d], c)]
    BY <1>2 DEF FlushSave
  <2>2. c \in Copy /\ c.doc[i] \in Nat /\ known[d] \in Copy
    BY Revisions DEF TypeOK
  <2> DEFINE s == Saved(d, known[d], c).doc[i]
  <2>3. /\ s \in Nat /\ s \in {0, disk[d].doc[i], c.doc[i]}
        /\ disk[d].doc[i] <= s \/ (c.doc[i] = 0 /\ known[d].doc[i] = disk[d].doc[i])
    BY <2>2, SavedRow
  <2>4. disk'[d].doc[i] = s
    BY <2>1 DEF TypeOK
  <2> HIDE DEF s
  <2>5. c.doc[i] <= store[d].doc[i]
    BY DEF Kept, Waits
  <2>6. c.doc[i] = 0 => disk[d].doc[i] <= 0 \/ disk[d].doc[i] <= remote[i]
    <3>1. CASE Author[i] = d
      BY <3>1 DEF Kept, Owns
    <3>2. CASE Author[i] # d
      BY <3>2 DEF Kept, Borrows
    <3> QED
      BY <3>1, <3>2
  <2> QED
    BY <1>1, <2>2, <2>3, <2>4, <2>5, <2>6
<1>3. CASE (WriteLocal(d) /\ Fresh(d, final[d].doc)) \/ ClearMarker(d) \/ FenceAsserted(d)
  <2>1. PICK c \in Copy : Writes(d, i, c) /\ (BeginPersist(d, c) \/ Persist(d, c))
    BY <1>3, LocalWrites
  <2>2. CASE disk' = disk
    BY <1>1, <2>2
  <2>3. CASE Persist(d, c)
    <3>1. /\ disk'[d].doc[i] \in Nat /\ c.doc[i] \in Nat
          /\ disk'[d].doc[i] \in {0, disk[d].doc[i], c.doc[i]}
          /\ disk[d].doc[i] <= disk'[d].doc[i]
      BY <2>1, <2>3, PersistEffect DEF Kept, Writes
    <3>2. c.doc[i] <= store[d].doc[i] \/ c.doc[i] <= remote[i]
      BY <2>1 DEF Writes
    <3> QED
      BY <1>1, <3>1, <3>2
  <2> QED
    BY <2>1, <2>2, <2>3 DEF BeginPersist
<1>4. CASE BackoffExpires(d)
  <2>1. disk'[d].doc = disk[d].doc
    BY <1>4 DEF BackoffExpires, Elapsed, TypeOK, Copy
  <2> QED
    BY <1>1, <2>1
<1>5. CASE (\E j \in Items : Edit(d, j)) \/ Reconcile(d) \/ Crash(d) \/ Start(d)
           \/ FlushBeforeRetry(d) \/ ReadMemory(d) \/ ReadDisk(d) \/ Pull(d) \/ LocalWritten(d)
           \/ (WriteLocal(d) /\ ~Fresh(d, final[d].doc))
  <2>1. disk' = disk
    BY <1>5 DEF Edit, Reconcile, Crash, Start, FlushBeforeRetry, ReadMemory, ReadDisk, Pull,
                LocalWritten, WriteLocal, app
  <2> QED
    BY <1>1, <2>1
<1>6. CASE WriteRemote(d) \/ Send(d) \/ SendFails(d) \/ StepFails(d) \/ Finish(d) \/ Finalize(d)
           \/ Refresh(d) \/ Reload(d)
  <2>1. disk' = disk
    BY <1>6 DEF WriteRemote, Send, SendFails, StepFails, Finish, Finalize, Refresh, Reload, app
  <2> QED
    BY <1>1, <2>1
<1> QED
  BY <1>2, <1>3, <1>4, <1>5, <1>6 DEF StepOf, CycleStep

\* On desktop a save deletes of what was saved only what the remote holds, and what a final
\* refresh has taken off the screen, or a save out of the database, before.
THEOREM DatabasesKeepEdits ==
    ASSUME Devices \subseteq Desktop
    PROVE  Spec => DiskKeepsEdits
<1>1. CycleInvariant /\ [Next]_vars
        => [\A d \in Devices, i \in Items \ gone :
              disk[d].doc[i] <= disk'[d].doc[i] \/ disk[d].doc[i] <= remote[i]]_vars
  <2> SUFFICES ASSUME CycleInvariant, Next, NEW e \in Devices, NEW i \in Items \ gone
               PROVE  disk[e].doc[i] <= disk'[e].doc[i] \/ disk[e].doc[i] <= remote[i]
    OBVIOUS
  <2>1. PICK d \in Devices : StepOf(d)
    BY DEF Next, StepOf
  <2>2. TypeOK /\ Kept(e, i) /\ e \in Desktop
    BY DEF CycleInvariant
  <2>3. CASE e = d
    BY <2>1, <2>2, <2>3, DatabaseMoves
  <2>4. CASE e # d
    <3>1. disk'[e] = disk[e]
      BY <2>1, <2>2, <2>4, StepsTouchOne DEF Untouched
    <3>2. disk[e].doc[i] \in Nat
      BY <2>2, Revisions
    <3> QED
      BY <3>1, <3>2
  <2> QED
    BY <2>3, <2>4
<1> QED
  BY <1>1, CycleInvariantHolds, PTL DEF Spec, DiskKeepsEdits

-----------------------------------------------------------------------------
(* The cycle implements SharedDocument                                      *)

Holds(d) == Join(Join(store[d].doc, disk[d].doc), Queued(d))

\* What device d may do of the shared document: nothing, an edit, a write of the remote,
\* a save, a kill.
Stays(d) == /\ Holds(d)' = Holds(d) /\ disk'[d].doc = disk[d].doc
            /\ remote' = remote /\ gone' = gone
Edits(d, j) ==
    /\ Author[j] = d
    /\ j \in gone \/ Holds(d)'[j] = Holds(d)[j] + 1
    /\ \A i \in Items \ gone : i # j =>
           /\ Holds(d)[i] <= Holds(d)'[i] \/ Holds(d)[i] <= remote[i]
           /\ Holds(d)'[i] <= Holds(d)[i] \/ Holds(d)'[i] <= remote[i]
    /\ disk'[d].doc = disk[d].doc /\ remote' = remote /\ gone' = gone
Publishes(d) ==
    /\ Holds(d)' = Holds(d) /\ disk'[d].doc = disk[d].doc /\ gone' = gone
    /\ \A i \in Items \ gone : /\ remote[i] <= remote'[i]
                               /\ remote'[i] <= remote[i] \/ remote'[i] <= Holds(d)[i]
Saves(d) ==
    /\ remote' = remote /\ gone \subseteq gone'
    /\ \A i \in Items \ gone :
           /\ Holds(d)[i] <= Holds(d)'[i] \/ Holds(d)[i] <= remote[i]
           /\ Holds(d)'[i] <= Holds(d)[i] \/ Holds(d)'[i] <= remote[i]
           /\ disk[d].doc[i] <= disk'[d].doc[i] \/ disk[d].doc[i] <= remote[i]
           /\ \/ disk'[d].doc[i] <= disk[d].doc[i] \/ disk'[d].doc[i] <= remote[i]
              \/ disk'[d].doc[i] <= Holds(d)[i]
Dies(d) == /\ Holds(d)' = disk[d].doc /\ disk'[d].doc = disk[d].doc
           /\ remote' = remote /\ gone' = gone

\* Each of these is the step of SharedDocument it is named for.
LEMMA MapsStep ==
    ASSUME NEW d \in Devices, \A i \in Items : Holds(d)[i] \in Nat,
           \A e \in Devices \ {d} : Holds(e)' = Holds(e) /\ disk'[e].doc = disk[e].doc,
           \/ Stays(d) \/ Publishes(d) \/ Saves(d) \/ Dies(d)
           \/ \E j \in Items : Edits(d, j)
    PROVE  [Shared!Next]_(Shared!vars)
<1> DEFINE held == [e \in Devices |-> Join(Join(store[e].doc, disk[e].doc), Queued(e))]
           saved == [e \in Devices |-> disk[e].doc]
<1>1. /\ \A e \in Devices : held[e] = Holds(e) /\ held'[e] = Holds(e)'
      /\ \A e \in Devices : saved[e] = disk[e].doc /\ saved'[e] = disk'[e].doc
  BY DEF Holds
<1>2. \A e \in Devices \ {d} : held'[e] = held[e] /\ saved'[e] = saved[e]
  BY <1>1
<1>3. /\ held' = [held EXCEPT ![d] = held'[d]]
      /\ saved' = [saved EXCEPT ![d] = saved'[d]]
  <2>1. \A e \in Devices : /\ held'[e] = [held EXCEPT ![d] = held'[d]][e]
                           /\ saved'[e] = [saved EXCEPT ![d] = saved'[d]][e]
    BY <1>1, <1>2
  <2> QED
    BY <2>1
<1>a. ASSUME disk'[d].doc = disk[d].doc PROVE saved' = saved
  BY <1>1, <1>2, <1>a
<1>b. ASSUME Holds(d)' = Holds(d) PROVE held' = held
  <2>1. \A e \in Devices : held'[e] = held[e]
    BY <1>1, <1>2, <1>b
  <2> QED
    BY <2>1
<1>4. CASE Stays(d)
  <2>1. held' = held /\ saved' = saved /\ remote' = remote /\ gone' = gone
    BY <1>4, <1>a, <1>b DEF Stays
  <2> QED
    BY <2>1 DEF Shared!vars
<1>5. CASE \E j \in Items : Edits(d, j)
  <2>1. PICK j \in Items : Edits(d, j)
    BY <1>5
  <2>2. saved' = saved /\ remote' = remote /\ gone' = gone
    BY <2>1, <1>a DEF Edits
  <2>3. Author[j] = d /\ (j \in gone \/ held'[d][j] = held[d][j] + 1)
    BY <1>1, <2>1 DEF Edits
  <2>4. Shared!Gathers(d, held[d], [held'[d] EXCEPT ![j] = held[d][j]])
    <3>1. \A i \in Items \ gone : i # j =>
             /\ held[d][i] <= held'[d][i] \/ held[d][i] <= remote[i]
             /\ held'[d][i] <= held[d][i] \/ held'[d][i] <= remote[i]
      BY <1>1, <2>1 DEF Edits
    <3>2. /\ \A i \in Items : held[d][i] \in Nat
          /\ \A i \in Items : [held'[d] EXCEPT ![j] = held[d][j]][i] =
                                IF i = j THEN held[d][j] ELSE held'[d][i]
      BY <1>1 DEF Holds, Join
    <3> HIDE DEF held
    <3> QED
      BY <3>1, <3>2 DEF Shared!Gathers
  <2>5. Shared!Edit(d, j)
    BY <1>3, <2>2, <2>3, <2>4 DEF Shared!Edit
  <2> QED
    BY <2>5 DEF Shared!Next
<1>6. CASE Publishes(d)
  <2>1. held' = held /\ saved' = saved
    BY <1>6, <1>a, <1>b DEF Publishes
  <2>2. Shared!Publish(d)
    BY <1>1, <1>6, <2>1 DEF Shared!Publish, Publishes
  <2> QED
    BY <2>2 DEF Shared!Next
<1>7. CASE Saves(d)
  <2>1. Shared!Gathers(d, saved[d], saved'[d]) /\ Shared!Gathers(d, held[d], held'[d])
    BY <1>1, <1>7 DEF Shared!Gathers, Saves
  <2>2. Shared!Save(d)
    BY <1>3, <1>7, <2>1 DEF Shared!Save, Saves
  <2> QED
    BY <2>2 DEF Shared!Next
<1>8. CASE Dies(d)
  <2>1. held' = [held EXCEPT ![d] = saved[d]]
    BY <1>1, <1>3, <1>8 DEF Dies
  <2>2. saved' = saved /\ remote' = remote /\ gone' = gone
    BY <1>8, <1>a DEF Dies
  <2>3. Shared!Kill(d)
    BY <2>1, <2>2 DEF Shared!Kill
  <2> QED
    BY <2>3 DEF Shared!Next
<1> QED
  BY <1>4, <1>5, <1>6, <1>7, <1>8

\* The document of the snapshot that waits, if one does.
LEMMA QueuedIs ==
    ASSUME TypeOK, NEW d \in Devices, OneWaits(d)
    PROVE  /\ Queued(d) \in Doc
           /\ queue[d] = {} => Queued(d) = Nothing
           /\ \A c \in queue[d] : Queued(d) = c.doc
<1>1. CASE queue[d] = {}
  BY <1>1, NothingDoc DEF Queued
<1>2. ASSUME NEW c \in queue[d] PROVE Queued(d) = c.doc /\ c.doc \in Doc
  <2>1. (CHOOSE b \in queue[d] : TRUE) = c
    BY <1>2 DEF OneWaits
  <2>2. c \in Copy
    BY DEF TypeOK
  <2> QED
    BY <1>2, <2>1, <2>2, CopyParts DEF Queued
<1> QED
  BY <1>1, <1>2

LEMMA QueuedNext ==
    ASSUME TypeOK', NEW d \in Devices, OneWaits(d)'
    PROVE  /\ Queued(d)' \in Doc
           /\ queue'[d] = {} => Queued(d)' = Nothing
           /\ \A c \in queue'[d] : Queued(d)' = c.doc
<1>1. CASE queue'[d] = {}
  BY <1>1, NothingDoc DEF Queued
<1>2. ASSUME NEW c \in queue'[d] PROVE Queued(d)' = c.doc /\ c.doc \in Doc
  <2>1. (CHOOSE b \in queue'[d] : TRUE) = c
    BY <1>2 DEF OneWaits
  <2>2. c \in Copy
    BY DEF TypeOK
  <2> QED
    BY <1>2, <2>1, <2>2, CopyParts DEF Queued
<1> QED
  BY <1>1, <1>2

\* What a device holds of an entity.
LEMMA HoldsAt ==
    ASSUME TypeOK, NEW d \in Devices, OneWaits(d), NEW i \in Items
    PROVE  /\ Holds(d)[i] = Later(Later(store[d].doc[i], disk[d].doc[i]), Queued(d)[i])
           /\ Holds(d)[i] \in Nat /\ Queued(d)[i] \in Nat
<1>1. Queued(d)[i] \in Nat
  BY QueuedIs, SyncConstants DEF Doc
<1>2. Holds(d)[i] = Later(Later(store[d].doc[i], disk[d].doc[i]), Queued(d)[i])
  BY DEF Holds, Join
<1> QED
  BY <1>1, <1>2, Revisions DEF Later

LEMMA HoldsNext ==
    ASSUME TypeOK', NEW d \in Devices, OneWaits(d)', NEW i \in Items
    PROVE  /\ Holds(d)'[i] = Later(Later(store'[d].doc[i], disk'[d].doc[i]), Queued(d)'[i])
           /\ Holds(d)'[i] \in Nat /\ Queued(d)'[i] \in Nat
<1>1. Queued(d)'[i] \in Nat
  BY QueuedNext, SyncConstants DEF Doc
<1>2. Holds(d)'[i] = Later(Later(store'[d].doc[i], disk'[d].doc[i]), Queued(d)'[i])
  BY DEF Holds, Join
<1> QED
  BY <1>1, <1>2, RevisionsNext DEF Later

\* An edit brings one revision, and what a desktop holds is then on its screen.
LEMMA EditMaps ==
    ASSUME TypeOK, TypeOK', NEW d \in Devices, d \in Desktop, OneWaits(d), OneWaits(d)',
           \A i \in Items \ gone : Kept(d, i), NEW j \in Items, Edit(d, j)
    PROVE  Edits(d, j)
<1> DEFINE c == [store[d] EXCEPT !.doc[j] = @ + 1]
<1>1. /\ Author[j] = d /\ UNCHANGED <<disk, remote, gone>>
      /\ store'[d] = c /\ queue'[d] = {c}
  BY DEF Edit, Display, TypeOK
<1>2. ASSUME NEW i \in Items
      PROVE  c.doc[i] = IF i = j THEN store[d].doc[i] + 1 ELSE store[d].doc[i]
  <2>1. store[d] \in Copy /\ store[d].doc \in Doc
    BY CopyParts DEF TypeOK
  <2> QED
    BY <2>1 DEF Copy, Doc
<1> HIDE DEF c
<1>3. ASSUME NEW i \in Items \ gone
      PROVE  /\ i = j => Holds(d)'[i] = Holds(d)[i] + 1
             /\ i # j => Holds(d)'[i] = Holds(d)[i]
  <2>1. /\ store[d].doc[i] \in Nat /\ disk[d].doc[i] \in Nat
        /\ Holds(d)[i] = Later(Later(store[d].doc[i], disk[d].doc[i]), Queued(d)[i])
        /\ Queued(d)[i] \in Nat
    BY Revisions, HoldsAt
  <2>2. Holds(d)'[i] = Later(Later(c.doc[i], disk[d].doc[i]), c.doc[i])
    <3>1. Queued(d)' = c.doc
      BY <1>1, QueuedNext
    <3> QED
      BY <1>1, <3>1, HoldsNext
  <2>3. Queued(d)[i] <= store[d].doc[i]
    <3>1. CASE queue[d] = {}
      BY <2>1, <3>1, QueuedIs DEF Nothing
    <3>2. ASSUME NEW b \in queue[d] PROVE Queued(d)[i] <= store[d].doc[i]
      BY QueuedIs DEF Kept, Waits
    <3> QED
      BY <3>1, <3>2
  <2>4. Author[i] = d => disk[d].doc[i] <= store[d].doc[i]
    BY DEF Kept, Owns
  <2> QED
    BY <1>1, <1>2, <2>1, <2>2, <2>3, <2>4 DEF Later
<1>4. ASSUME NEW i \in Items PROVE Holds(d)[i] \in Nat
  BY HoldsAt
<1> QED
  BY <1>1, <1>3, <1>4 DEF Edits

\* A write of the remote sends what the database holds.
LEMMA SendMaps ==
    ASSUME TypeOK, NEW d \in Devices, d \in Desktop, OneWaits(d),
           \A i \in Items \ gone : Kept(d, i), Send(d) \/ SendFails(d)
    PROVE  Publishes(d)
<1>1. UNCHANGED <<store, disk, queue, gone>> /\ pc[d] = "sending"
  BY DEF Send, SendFails, app
<1>2. Holds(d)' = Holds(d)
  BY <1>1 DEF Holds, Queued, Join
<1>3. ASSUME NEW i \in Items \ gone
      PROVE  /\ remote[i] <= remote'[i]
             /\ remote'[i] <= remote[i] \/ remote'[i] <= Holds(d)[i]
  <2>1. StepOf(d) /\ Kept(d, i)
    BY DEF StepOf, CycleStep
  <2>2. remote[i] <= remote'[i] /\ remote'[i] \in {remote[i], final[d].doc[i]}
    BY <2>1, RemoteMoves DEF Kept
  <2>3. final[d].doc[i] <= disk[d].doc[i]
    BY <1>1, <2>1 DEF Kept, Written
  <2>4. /\ remote[i] \in Nat /\ final[d].doc[i] \in Nat /\ disk[d].doc[i] \in Nat
        /\ store[d].doc[i] \in Nat /\ Queued(d)[i] \in Nat
        /\ Holds(d)[i] = Later(Later(store[d].doc[i], disk[d].doc[i]), Queued(d)[i])
    BY Revisions, HoldsAt
  <2> QED
    BY <2>2, <2>3, <2>4 DEF Later
<1> QED
  BY <1>1, <1>2, <1>3 DEF Publishes

LEMMA CrashMaps ==
    ASSUME TypeOK, TypeOK', NEW d \in Devices, Crash(d)
    PROVE  Dies(d)
<1>1. /\ UNCHANGED <<disk, remote, gone>> /\ store'[d] = disk[d] /\ queue'[d] = {}
  BY DEF Crash, TypeOK
<1>2. Holds(d)' = Join(Join(disk[d].doc, disk[d].doc), Nothing)
  BY <1>1 DEF Holds, Queued, Join
<1>3. disk[d].doc \in Doc
  BY CopyParts DEF TypeOK
<1>4. \A i \in Items : Later(Later(disk[d].doc[i], disk[d].doc[i]), 0) = disk[d].doc[i]
  BY <1>3, SyncConstants DEF Doc, Later
<1>5. Join(Join(disk[d].doc, disk[d].doc), Nothing) = disk[d].doc
  BY <1>3, <1>4 DEF Join, Nothing, Doc
<1> QED
  BY <1>1, <1>2, <1>5 DEF Dies

\* What the screen takes over is in the database; what it gives up, is there or waits.
LEMMA ScreenTakes ==
    ASSUME TypeOK, NEW d \in Devices, d \in Desktop, NEW i \in Items, Kept(d, i),
           \/ Reconcile(d) \/ LocalWritten(d) \/ Finish(d) \/ Finalize(d) \/ Reload(d)
    PROVE  /\ store'[d].doc[i] = store[d].doc[i] \/ store'[d].doc[i] <= disk[d].doc[i]
           /\ UNCHANGED <<disk, queue, remote>> /\ gone \subseteq gone'
<1>1. disk[d].doc[i] \in Nat
  BY Revisions
<1>2. CASE Reconcile(d)
  <2>1. PICK a \in answer[d] : store' = [store EXCEPT ![d] = a]
    BY <1>2 DEF Reconcile
  <2>2. store'[d] = a /\ a.doc[i] <= disk[d].doc[i]
    BY <2>1 DEF Kept, Known, TypeOK
  <2> QED
    BY <1>2, <2>2 DEF Reconcile, world
<1>3. CASE LocalWritten(d)
  <2>1. store'[d] = store[d] \/ store'[d] = saving[d]
    <3>1. Display(d, saving[d]) \/ UNCHANGED <<store, answer>>
      BY <1>3 DEF LocalWritten
    <3> QED
      BY <3>1 DEF Display, TypeOK
  <2>2. saving[d].doc[i] <= disk[d].doc[i]
    BY <1>3 DEF LocalWritten, Kept, Written
  <2> QED
    BY <1>3, <2>1, <2>2 DEF LocalWritten, world
<1>4. CASE Finish(d) \/ Finalize(d)
  <2>1. store'[d] = store[d] \/ store'[d] = final[d]
    BY <1>4 DEF Finish, Finalize, Show, Display, TypeOK
  <2>2. final[d].doc[i] <= disk[d].doc[i]
    BY <1>4 DEF Finish, Finalize, Kept, Written
  <2> QED
    BY <1>4, <2>1, <2>2 DEF Finish, Finalize, Show
<1>5. CASE Reload(d)
  <2>1. store'[d] = store[d] \/ store'[d] = disk[d]
    BY <1>5 DEF Reload, Reloaded, Display, TypeOK
  <2> QED
    BY <1>1, <1>5, <2>1 DEF Reload, world
<1> QED
  BY <1>2, <1>3, <1>4, <1>5

LEMMA ScreenMaps ==
    ASSUME TypeOK, TypeOK', NEW d \in Devices, d \in Desktop, OneWaits(d), OneWaits(d)',
           \A i \in Items \ gone : Kept(d, i),
           \/ Reconcile(d) \/ LocalWritten(d) \/ Finish(d) \/ Finalize(d) \/ Reload(d)
    PROVE  Saves(d)
<1>1. ASSUME NEW i \in Items \ gone
      PROVE  /\ disk'[d].doc[i] = disk[d].doc[i] /\ disk[d].doc[i] \in Nat
             /\ Holds(d)'[i] = Holds(d)[i] /\ Holds(d)[i] \in Nat
  <2>1. /\ store'[d].doc[i] = store[d].doc[i] \/ store'[d].doc[i] <= disk[d].doc[i]
        /\ UNCHANGED <<disk, queue>>
    BY ScreenTakes
  <2>2. /\ store[d].doc[i] \in Nat /\ disk[d].doc[i] \in Nat /\ store'[d].doc[i] \in Nat
        /\ Queued(d)[i] \in Nat /\ Holds(d)[i] \in Nat
        /\ Holds(d)[i] = Later(Later(store[d].doc[i], disk[d].doc[i]), Queued(d)[i])
    BY Revisions, RevisionsNext, HoldsAt
  <2>3. Holds(d)'[i] = Later(Later(store'[d].doc[i], disk[d].doc[i]), Queued(d)[i])
    <3>1. Queued(d)' = Queued(d)
      BY <2>1 DEF Queued
    <3> QED
      BY <2>1, <3>1, HoldsNext
  <2>4. store[d].doc[i] <= disk[d].doc[i] \/ store[d].doc[i] <= Queued(d)[i]
    <3>1. CASE queue[d] = {}
      BY <3>1 DEF Kept, Waits
    <3>2. ASSUME NEW b \in queue[d]
          PROVE  store[d].doc[i] <= disk[d].doc[i] \/ store[d].doc[i] <= Queued(d)[i]
      BY QueuedIs DEF Kept, Waits
    <3> QED
      BY <3>1, <3>2
  <2> QED
    BY <2>1, <2>2, <2>3, <2>4 DEF Later
<1>2. remote' = remote /\ gone \subseteq gone'
  <2>1. CASE Items \ gone = {}
    BY StepsOfWorld DEF StepOf, CycleStep, Reconcile, LocalWritten, Finish, Finalize, Reload, world
  <2>2. ASSUME NEW i \in Items \ gone PROVE remote' = remote /\ gone \subseteq gone'
    BY ScreenTakes
  <2> QED
    BY <2>1, <2>2
<1> QED
  BY <1>1, <1>2 DEF Saves

\* A save moves what waited, or what the cycle carries, into the database.
LEMMA SaveMaps ==
    ASSUME TypeOK, TypeOK', NEW d \in Devices, d \in Desktop, OneWaits(d), OneWaits(d)',
           \A i \in Items \ gone : Kept(d, i),
           FlushSave(d) \/ WriteLocal(d) \/ ClearMarker(d) \/ FenceAsserted(d)
    PROVE  Saves(d)
<1>1. /\ store' = store /\ remote' = remote /\ gone \subseteq gone'
      /\ queue' = queue \/ (FlushSave(d) /\ queue'[d] = {})
  BY DEF FlushSave, WriteLocal, ClearMarker, FenceAsserted, world, TypeOK
<1>2. ASSUME NEW i \in Items \ gone
      PROVE  /\ Holds(d)[i] <= Holds(d)'[i] \/ Holds(d)[i] <= remote[i]
             /\ Holds(d)'[i] <= Holds(d)[i] \/ Holds(d)'[i] <= remote[i]
             /\ disk[d].doc[i] <= disk'[d].doc[i] \/ disk[d].doc[i] <= remote[i]
             /\ \/ disk'[d].doc[i] <= disk[d].doc[i] \/ disk'[d].doc[i] <= remote[i]
                \/ disk'[d].doc[i] <= Holds(d)[i]
  <2>1. /\ disk[d].doc[i] <= disk'[d].doc[i] \/ disk[d].doc[i] <= remote[i]
        /\ \/ disk'[d].doc[i] <= disk[d].doc[i] \/ disk'[d].doc[i] <= remote[i]
           \/ disk'[d].doc[i] <= store[d].doc[i]
    <3>1. StepOf(d) /\ Kept(d, i)
      BY DEF StepOf, CycleStep
    <3> QED
      BY <3>1, DatabaseMoves
  <2>2. /\ store[d].doc[i] \in Nat /\ disk[d].doc[i] \in Nat /\ disk'[d].doc[i] \in Nat
        /\ Queued(d)[i] \in Nat /\ remote[i] \in Nat
        /\ Holds(d)[i] = Later(Later(store[d].doc[i], disk[d].doc[i]), Queued(d)[i])
    BY Revisions, RevisionsNext, HoldsAt
  <2>3. /\ Holds(d)'[i] = Later(Later(store[d].doc[i], disk'[d].doc[i]), Queued(d)'[i])
        /\ Queued(d)'[i] \in {0, Queued(d)[i]}
    <3>1. Queued(d)' \in {Nothing, Queued(d)}
      BY <1>1, QueuedNext DEF Queued
    <3> QED
      BY <1>1, <3>1, HoldsNext DEF Nothing
  <2>4. Queued(d)[i] <= store[d].doc[i]
    <3>1. CASE queue[d] = {}
      BY <2>2, <3>1, QueuedIs DEF Nothing
    <3>2. ASSUME NEW b \in queue[d] PROVE Queued(d)[i] <= store[d].doc[i]
      BY QueuedIs DEF Kept, Waits
    <3> QED
      BY <3>1, <3>2
  <2> QED
    BY <2>1, <2>2, <2>3, <2>4 DEF Later
<1> QED
  BY <1>1, <1>2 DEF Saves

\* A step that leaves the copies and the remote alone, or changes only their flags.
LEMMA QuietMaps ==
    ASSUME TypeOK, TypeOK', NEW d \in Devices, OneWaits(d), OneWaits(d)',
           store'[d].doc = store[d].doc, disk'[d].doc = disk[d].doc, remote' = remote,
           gone' = gone, queue'[d] = queue[d] \/ queue'[d] = {Elapsed(c) : c \in queue[d]}
    PROVE  Stays(d)
<1>1. Queued(d)' = Queued(d)
  <2>1. CASE queue'[d] = queue[d]
    BY <2>1 DEF Queued
  <2>2. CASE queue'[d] = {Elapsed(c) : c \in queue[d]}
    <3>1. CASE queue[d] = {}
      BY <2>2, <3>1 DEF Queued
    <3>2. ASSUME NEW c \in queue[d] PROVE Queued(d)' = Queued(d)
      <4>1. Elapsed(c) \in queue'[d]
        BY <2>2
      <4>2. Elapsed(c).doc = c.doc
        <5>1. c \in Copy
          BY DEF TypeOK
        <5> QED
          BY <5>1 DEF Elapsed, Copy
      <4> QED
        BY <4>1, <4>2, QueuedIs, QueuedNext
    <3> QED
      BY <3>1, <3>2
  <2> QED
    BY <2>1, <2>2
<1> QED
  BY <1>1 DEF Stays, Holds, Join

\* Every step of a desktop device maps to a step of SharedDocument or to none.
LEMMA StepMaps ==
    ASSUME TypeOK, TypeOK', NEW d \in Devices, d \in Desktop, OneWaits(d), OneWaits(d)',
           \A i \in Items \ gone : Kept(d, i), StepOf(d)
    PROVE  \/ Stays(d) \/ Publishes(d) \/ Saves(d) \/ Dies(d)
           \/ \E j \in Items : Edits(d, j)
<1>1. CASE \E j \in Items : Edit(d, j)
  BY <1>1, EditMaps
<1>2. CASE Send(d) \/ SendFails(d)
  BY <1>2, SendMaps
<1>3. CASE Crash(d)
  BY <1>3, CrashMaps
<1>4. CASE Reconcile(d) \/ LocalWritten(d) \/ Finish(d) \/ Finalize(d) \/ Reload(d)
  BY <1>4, ScreenMaps
<1>5. CASE FlushSave(d) \/ WriteLocal(d) \/ ClearMarker(d) \/ FenceAsserted(d)
  BY <1>5, SaveMaps
<1>6. CASE BackoffExpires(d)
  <2>1. /\ disk'[d].doc = disk[d].doc /\ store'[d].doc = store[d].doc
        /\ queue'[d] = {Elapsed(c) : c \in queue[d]} /\ remote' = remote /\ gone' = gone
    BY <1>6 DEF BackoffExpires, Elapsed, TypeOK, Copy, world
  <2> QED
    BY <2>1, QuietMaps
<1>7. CASE Start(d) \/ FlushBeforeRetry(d) \/ ReadMemory(d) \/ ReadDisk(d) \/ Pull(d)
           \/ WriteRemote(d) \/ StepFails(d) \/ Refresh(d)
  <2>1. UNCHANGED <<store, disk, queue, remote, gone>>
    BY <1>7 DEF Start, FlushBeforeRetry, ReadMemory, ReadDisk, Pull, WriteRemote, StepFails,
                Refresh, app, world
  <2> QED
    BY <2>1, QuietMaps
<1> QED
  BY <1>1, <1>2, <1>3, <1>4, <1>5, <1>6, <1>7 DEF StepOf, CycleStep

\* A step of one device leaves what every other device holds alone.
LEMMA OthersHold ==
    ASSUME TypeOK, NEW d \in Devices, StepOf(d), NEW e \in Devices \ {d}
    PROVE  Holds(e)' = Holds(e) /\ disk'[e].doc = disk[e].doc
<1>1. Untouched(e)
  BY StepsTouchOne
<1>2. Queued(e)' = Queued(e)
  BY <1>1 DEF Untouched, Queued
<1> QED
  BY <1>1, <1>2 DEF Untouched, Holds, Join

\* On desktop the cycle implements SharedDocument for any devices, entities, backends,
\* failures and kills: of an entity that no final refresh has taken off a screen and no save
\* out of a database, no step makes a revision up or takes one from a device.
THEOREM CycleImplementsShared ==
    ASSUME Devices \subseteq Desktop
    PROVE  Spec => ImplementsShared
<1>1. Init => Shared!Init
  <2> SUFFICES ASSUME Init PROVE Shared!Init
    OBVIOUS
  <2>1. /\ remote = Nothing /\ gone = {}
        /\ \A d \in Devices : /\ store[d].doc = Nothing /\ disk[d].doc = Nothing
                              /\ Queued(d) = Nothing
    BY DEF Init, Blank, Queued
  <2>2. Join(Join(Nothing, Nothing), Nothing) = Nothing
    BY DEF Join, Nothing, Later
  <2> QED
    BY <2>1, <2>2 DEF Shared!Init, Shared!Blank, Nothing
<1>2. CycleInvariant /\ [Next]_vars => [Shared!Next]_(Shared!vars)
  <2> SUFFICES ASSUME CycleInvariant, [Next]_vars PROVE [Shared!Next]_(Shared!vars)
    OBVIOUS
  <2>1. /\ TypeOK /\ TypeOK' /\ CycleInvariant'
    BY CycleInvariantInductive DEF CycleInvariant
  <2>2. CASE Next
    <3>1. PICK d \in Devices : StepOf(d)
      BY <2>2 DEF Next, StepOf
    <3>2. /\ d \in Desktop /\ OneWaits(d) /\ OneWaits(d)'
          /\ \A i \in Items \ gone : Kept(d, i)
      BY <2>1 DEF CycleInvariant
    <3>3. \/ Stays(d) \/ Publishes(d) \/ Saves(d) \/ Dies(d)
          \/ \E j \in Items : Edits(d, j)
      BY <2>1, <3>1, <3>2, StepMaps
    <3>4. ASSUME NEW e \in Devices \ {d}
          PROVE  Holds(e)' = Holds(e) /\ disk'[e].doc = disk[e].doc
      BY <2>1, <3>1, OthersHold
    <3>5. \A i \in Items : Holds(d)[i] \in Nat
      BY <2>1, <3>2, HoldsAt
    <3> QED
      BY <3>3, <3>4, <3>5, MapsStep
  <2>3. CASE UNCHANGED vars
    <3>1. UNCHANGED <<store, disk, queue, remote, gone>>
      BY <2>3 DEF vars
    <3> QED
      BY <3>1 DEF Shared!vars, Queued, Join
  <2> QED
    BY <2>2, <2>3
<1>3. Spec => []CycleInvariant
  BY CycleInvariantHolds
<1> QED
  BY <1>1, <1>2, <1>3, PTL DEF Spec, ImplementsShared, Shared!Spec

=============================================================================
