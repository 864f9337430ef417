---------------------------- MODULE AutoSyncProofs ----------------------------
(* Proofs about AutoSync, for any bounds on either platform. *)
EXTENDS AutoSync, TLAPS

\* Only the user's own requests bypass the cooldown, and they are never paced.
Fit(a) == a \in Requests /\ (a.user => a.now)
QueueFit == \A a \in queue : Fit(a)
AutoSyncInvariant == TypeOK /\ CooldownHasRetry /\ QueueFit

\* What every step of the controller leaves behind, c being the new cooldown.
Controlled(c) ==
    /\ outer' \in Outer /\ timer' \in Timers
    /\ queue' \in SUBSET Requests /\ \A a, b \in queue' : a = b
    /\ \A a \in queue' : Fit(a)
    /\ c = "running" => timer' = "retry"
    /\ outer'.step = "gate" /\ outer # outer' => outer'.arg.user \/ c # "running"

LEMMA RequestsFit == Fit(Ordinary) /\ Fit(Immediate) /\ Fit(FromUser)
BY DEF Fit, Requests, Ordinary, Immediate, FromUser

LEMMA RestingOuter == Resting \in Outer /\ Resting.step = "idle"
BY DEF Resting, Outer, Requests, Ordinary

-----------------------------------------------------------------------------
(* The controller *)

\* A cycle begins, or is put off with a timer armed.
LEMMA BeginControls ==
    ASSUME TypeOK, NEW a, Fit(a), NEW t \in Timers, NEW c \in Cooldowns,
           c = "running" => t = "retry", Begin(a, t, c)
    PROVE  Controlled(c)
<1>1. queue' = {}
  BY DEF Begin
<1>2. CASE ~a.user /\ c = "running" /\ timer' = Armed(t, "retry") /\ outer' = Resting
  BY <1>1, <1>2, RestingOuter DEF Controlled, Armed, Timers
<1>3. CASE /\ a.user \/ c # "running"
           /\ ~a.now /\ timer' = Armed(t, "pace") /\ outer' = Resting
  BY <1>1, <1>3, RestingOuter DEF Controlled, Armed, Timers, Fit
<1>4. CASE /\ a.user \/ c # "running"
           /\ timer' = t /\ outer' = [step |-> "gate", arg |-> a, hidden |-> hidden]
  <2>1. outer' \in Outer /\ outer'.arg = a
    BY <1>4 DEF Outer, Fit, TypeOK
  <2> QED
    BY <1>1, <1>4, <2>1 DEF Controlled
<1> QED
  BY <1>2, <1>3, <1>4 DEF Begin

LEMMA RunControls ==
    ASSUME AutoSyncInvariant, NEW a, Fit(a), NEW t \in Timers,
           cooldown = "running" => t = "retry", Run(a, t)
    PROVE  Controlled(cooldown)
<1>1. CASE Busy
  <2>1. queue' = {a} /\ timer' = t /\ outer' = outer
    BY <1>1 DEF Run
  <2> QED
    BY <2>1 DEF Controlled, Fit, AutoSyncInvariant, TypeOK
<1>2. CASE ~Busy
  BY <1>2, BeginControls DEF Run, AutoSyncInvariant, TypeOK
<1> QED
  BY <1>1, <1>2

\* A request that is refused leaves its retry armed; t is not taken from a cooldown
\* but by a retry, which comes when the cooldown is over.
LEMMA RequestControls ==
    ASSUME AutoSyncInvariant, NEW a, Fit(a), NEW isRetry \in BOOLEAN, NEW t \in Timers,
           NEW h \in BOOLEAN, cooldown = "running" => t = "retry",
           RequestAuto(a, isRetry, t, h)
    PROVE  Controlled(cooldown) /\ held' \in BOOLEAN
<1> USE DEF AutoSyncInvariant
<1>1. held' \in BOOLEAN
  BY DEF RequestAuto, TypeOK
<1>2. CASE isRetry /\ mobile /\ Busy
  BY <1>1, <1>2 DEF RequestAuto, Controlled, QueueFit, TypeOK
<1>3. CASE ~(isRetry /\ mobile /\ Busy) /\ cooldown = "running"
  <2>1. timer' = Armed(t, "retry") /\ UNCHANGED <<outer, queue>>
    BY <1>3 DEF RequestAuto
  <2> QED
    BY <1>1, <1>3, <2>1 DEF Controlled, QueueFit, TypeOK, Armed, Timers
<1>4. CASE ~(isRetry /\ mobile /\ Busy) /\ cooldown # "running"
  <2>1. Run(a, t)
    BY <1>4 DEF RequestAuto
  <2> QED
    BY <1>1, <2>1, RunControls
<1> QED
  BY <1>2, <1>3, <1>4

LEMMA FollowUpsFit ==
    ASSUME AutoSyncInvariant
    PROVE  \A a \in FollowUps : Fit(a)
BY RequestsFit DEF AutoSyncInvariant, QueueFit, FollowUps

\* A failure leaves its cooldown with its retry, a success neither.
LEMMA CompleteControls ==
    ASSUME AutoSyncInvariant, NEW result \in {"ok", "failed", "offline"}, Complete(result)
    PROVE  Controlled(cooldown') /\ cooldown' \in Cooldowns /\ held' \in BOOLEAN
<1> USE DEF AutoSyncInvariant
<1> DEFINE t == TimerAfter(result)
           c == CooldownAfter(result)
<1>1. t \in Timers /\ c \in Cooldowns /\ (c = "running" => t = "retry")
  BY DEF TimerAfter, CooldownAfter, TypeOK, Timers, Cooldowns, CooldownHasRetry
<1>2. cooldown' = c /\ held' \in BOOLEAN
  BY DEF Complete, TypeOK
<1>3. CASE FollowUps = {}
  <2>1. outer' = Resting /\ queue' = {} /\ timer' = t
    BY <1>3 DEF Complete
  <2> QED
    BY <1>1, <1>2, <2>1, RestingOuter DEF Controlled
<1>4. CASE FollowUps # {}
  <2>1. PICK a \in FollowUps : Begin(a, t, c)
    BY <1>4 DEF Complete
  <2>2. Fit(a)
    BY FollowUpsFit
  <2> HIDE DEF t, c
  <2>3. Controlled(c)
    BY <1>1, <2>1, <2>2, BeginControls
  <2> QED
    BY <1>1, <1>2, <2>3
<1> QED
  BY <1>3, <1>4

-----------------------------------------------------------------------------
(* The service *)

LEMMA RunInnerTypes ==
    ASSUME TypeOK, RunInner
    PROVE  inner' \in Inner /\ again' \in BOOLEAN /\ delay' \in BOOLEAN
BY DEF RunInner, TypeOK, Inner

LEMMA InnerEndsControls ==
    ASSUME AutoSyncInvariant, NEW result \in {"ok", "failed", "offline"},
           NEW more \in BOOLEAN, InnerEnds(result, more)
    PROVE  /\ inner' \in Inner /\ again' \in BOOLEAN /\ delay' \in BOOLEAN
           /\ Controlled(cooldown') /\ cooldown' \in Cooldowns /\ held' \in BOOLEAN
<1> USE DEF AutoSyncInvariant
<1>1. inner' \in Inner /\ again' \in BOOLEAN /\ delay' \in BOOLEAN
  BY DEF InnerEnds, TypeOK, Inner
<1>2. CASE outer.step = "wait"
  BY <1>1, <1>2, CompleteControls DEF InnerEnds
<1>3. CASE outer.step # "wait"
  <2>1. UNCHANGED <<cooldown, held, outer, queue, timer>>
    BY <1>3 DEF InnerEnds
  <2> QED
    BY <1>1, <2>1 DEF Controlled, QueueFit, CooldownHasRetry, TypeOK
<1> QED
  BY <1>2, <1>3

-----------------------------------------------------------------------------
(* Every step *)

\* The parts of the invariant that Controlled does not speak of.
Rest ==
    /\ mobile \in BOOLEAN /\ debounce \in BOOLEAN /\ firing \in BOOLEAN
    /\ cooldown \in Cooldowns
    /\ inner \in Inner /\ again \in BOOLEAN /\ delay \in BOOLEAN
    /\ hidden \in BOOLEAN /\ held \in BOOLEAN
    /\ dirty \in BOOLEAN /\ covered \in BOOLEAN /\ forgone \in BOOLEAN
    /\ edits \in Nat /\ faults \in Nat /\ manual \in Nat /\ suspends \in Nat

LEMMA ControlledKeeps ==
    ASSUME Rest', Controlled(cooldown')
    PROVE  AutoSyncInvariant'
BY DEF Rest, Controlled, AutoSyncInvariant, TypeOK, QueueFit, CooldownHasRetry

LEMMA StepControls ==
    ASSUME AutoSyncInvariant, Next
    PROVE  Rest' /\ Controlled(cooldown')
<1> USE DEF AutoSyncInvariant
<1>a. Rest /\ timer \in Timers /\ (cooldown = "running" => timer = "retry")
  BY DEF Rest, TypeOK, CooldownHasRetry
<1>b. UNCHANGED <<timer, outer, queue, cooldown>> => Controlled(cooldown')
  BY DEF Controlled, QueueFit, CooldownHasRetry, TypeOK
<1>1. CASE Edit
  <2>1. edits' \in Nat /\ Controlled(cooldown')
    BY <1>1, <1>a, <1>b DEF Edit, Rest, pacing
  <2>2. /\ UNCHANGED <<mobile, firing, hidden, held, cooldown, inner, again, delay>>
        /\ UNCHANGED <<faults, manual, suspends>>
        /\ debounce' = TRUE /\ dirty' = TRUE /\ covered' = FALSE /\ forgone' = FALSE
    BY <1>1 DEF Edit, pacing, service
  <2> QED
    BY <2>1, <2>2, <1>a, Zenon DEF Rest
<1>2. CASE DebounceFires
  <2>1. CASE mobile
    BY <1>2, <2>1, <1>a, <1>b DEF DebounceFires, Rest, service, ghosts, bounds
  <2>2. CASE ~mobile
    <3>1. Controlled(cooldown) /\ held' \in BOOLEAN
      BY <1>2, <2>2, <1>a, RequestsFit, RequestControls DEF DebounceFires, Rest
    <3> QED
      BY <1>2, <2>2, <3>1, <1>a DEF DebounceFires, Rest, service, ghosts, bounds
  <2> QED
    BY <2>1, <2>2
<1>3. CASE CadenceRead
  <2>1. Controlled(cooldown) /\ held' \in BOOLEAN
    BY <1>3, <1>a, RequestsFit, RequestControls DEF CadenceRead, Rest
  <2> QED
    BY <1>3, <2>1, <1>a DEF CadenceRead, Rest, service, ghosts, bounds
<1>4. CASE TimerFires
  <2>1. cooldown # "running"
    BY <1>4, <1>a DEF TimerFires
  <2>2. "none" \in Timers
    BY DEF Timers
  <2>3. Controlled(cooldown) /\ held' \in BOOLEAN
    BY <1>4, <2>1, <2>2, <1>a, RequestsFit, RequestControls DEF TimerFires, Rest
  <2> QED
    BY <1>4, <2>3, <1>a DEF TimerFires, Rest, service, ghosts, bounds
<1>5. CASE CooldownEnds
  <2>1. cooldown' = "over" /\ UNCHANGED <<timer, outer, queue>>
    BY <1>5 DEF CooldownEnds
  <2>2. Controlled(cooldown')
    BY <2>1 DEF Controlled, QueueFit, TypeOK
  <2> QED
    BY <1>5, <2>1, <2>2, <1>a DEF CooldownEnds, Rest, Cooldowns, app, service, ghosts, bounds
<1>6. CASE Heartbeat
  <2>1. Controlled(cooldown) /\ held' \in BOOLEAN
    BY <1>6, <1>a, RequestsFit, RequestControls DEF Heartbeat, Rest
  <2> QED
    BY <1>6, <2>1, <1>a DEF Heartbeat, Rest, service, ghosts, bounds
<1>7. CASE RemoteChange
  <2>1. Controlled(cooldown) /\ held' \in BOOLEAN
    BY <1>7, <1>a, RequestsFit, RequestControls DEF RemoteChange, Rest
  <2> QED
    BY <1>7, <2>1, <1>a DEF RemoteChange, Rest, service, ghosts, bounds
<1>8. CASE Suspend
  <2>1. /\ KeptTimer(timer) \in Timers
        /\ cooldown = "running" => KeptTimer(timer) = "retry"
    BY <1>a DEF KeptTimer, Timers
  <2>2. Controlled(cooldown) /\ held' \in BOOLEAN
    BY <1>8, <2>1, <1>a, RequestsFit, RequestControls DEF Suspend, Rest
  <2>3. suspends' \in Nat /\ UNCHANGED cooldown
    BY <1>8, <1>a DEF Suspend, Rest
  <2>4. /\ UNCHANGED <<mobile, firing, cooldown, inner, again, delay, dirty, covered>>
        /\ UNCHANGED <<forgone, edits, faults, manual>>
        /\ hidden' = TRUE /\ debounce' = FALSE
    BY <1>8 DEF Suspend, service, ghosts
  <2> QED
    BY <2>2, <2>3, <2>4, <1>a, Zenon DEF Rest
<1>9. CASE Resume
  <2>1. CASE RequestAuto(Immediate, FALSE, timer, FALSE)
    <3>1. Controlled(cooldown) /\ held' \in BOOLEAN
      BY <2>1, <1>a, RequestsFit, RequestControls
    <3> QED
      BY <1>9, <3>1, <1>a DEF Resume, Rest, service, ghosts, bounds
  <2>2. CASE UNCHANGED <<held, timer, outer, queue>>
    BY <1>9, <2>2, <1>a, <1>b DEF Resume, Rest, service, ghosts, bounds
  <2> QED
    BY <1>9, <2>1, <2>2 DEF Resume
<1>10. CASE SyncNow
  <2>1. CASE mobile
    <3>1. inner' \in Inner /\ again' \in BOOLEAN /\ delay' \in BOOLEAN
      BY <1>10, <2>1, RunInnerTypes DEF SyncNow
    <3> QED
      BY <1>10, <2>1, <3>1, <1>a, <1>b DEF SyncNow, Rest, app, ghosts
  <2>2. CASE ~mobile
    <3>1. Controlled(cooldown)
      BY <1>10, <2>2, <1>a, RequestsFit, RunControls DEF SyncNow
    <3> QED
      BY <1>10, <2>2, <3>1, <1>a DEF SyncNow, Rest, app, service, ghosts
  <2> QED
    BY <2>1, <2>2
<1>11. CASE PerformSync
  <2>1. inner' \in Inner /\ again' \in BOOLEAN /\ delay' \in BOOLEAN
    BY <1>11, RunInnerTypes DEF PerformSync
  <2>2. outer' \in Outer /\ outer'.step = "wait"
    BY <1>11 DEF PerformSync, TypeOK, Outer
  <2>3. Controlled(cooldown')
    BY <1>11, <2>2, <1>a DEF PerformSync, Controlled, QueueFit, TypeOK, pacing
  <2> QED
    BY <1>11, <2>1, <2>3, <1>a DEF PerformSync, Rest, app, pacing, ghosts, bounds
<1>12. CASE Denied
  <2>1. CASE queue = {}
    <3>1. outer' = Resting /\ UNCHANGED <<queue, timer, cooldown>>
      BY <1>12, <2>1 DEF Denied
    <3>2. Controlled(cooldown')
      BY <2>1, <3>1, <1>a, RestingOuter DEF Controlled
    <3> QED
      BY <1>12, <3>2, <1>a DEF Denied, Rest, app, service, ghosts
  <2>2. CASE queue # {}
    <3>1. PICK a \in queue : Begin(a, timer, cooldown)
      BY <1>12, <2>2 DEF Denied
    <3>2. Controlled(cooldown)
      BY <3>1, <1>a, BeginControls DEF QueueFit, Rest
    <3> QED
      BY <1>12, <3>2, <1>a DEF Denied, Rest, app, service, ghosts
  <2> QED
    BY <2>1, <2>2
<1>13. CASE DelayEnds
  <2>1. inner' \in Inner /\ again' \in BOOLEAN /\ delay' \in BOOLEAN
    BY <1>13, RunInnerTypes DEF DelayEnds
  <2> QED
    BY <1>13, <2>1, <1>a, <1>b DEF DelayEnds, Rest, app, pacing, ghosts, bounds
<1>14. CASE Read
  BY <1>14, <1>a, <1>b DEF Read, Rest, Inner, app, pacing, bounds
<1>15. CASE LastCheck
  <2>1. CASE covered
    BY <1>15, <2>1, <1>a, <1>b DEF LastCheck, Rest, Inner, pacing, bounds
  <2>2. CASE ~covered
    <3>1. /\ inner' \in Inner /\ again' \in BOOLEAN /\ delay' \in BOOLEAN
          /\ Controlled(cooldown') /\ cooldown' \in Cooldowns /\ held' \in BOOLEAN
      BY <1>15, <2>2, InnerEndsControls DEF LastCheck
    <3>2. forgone' \in BOOLEAN
      BY <1>15, <2>2, <1>a DEF LastCheck, Rest, Drops
    <3> QED
      BY <1>15, <3>1, <3>2, <1>a DEF LastCheck, Rest, bounds
  <2> QED
    BY <2>1, <2>2
<1>16. CASE Requeued
  <2>1. /\ inner' \in Inner /\ again' \in BOOLEAN /\ delay' \in BOOLEAN
        /\ Controlled(cooldown') /\ cooldown' \in Cooldowns /\ held' \in BOOLEAN
    BY <1>16, InnerEndsControls DEF Requeued
  <2>2. forgone' \in BOOLEAN
    BY <1>16, <1>a DEF Requeued, Rest, Drops
  <2> QED
    BY <1>16, <2>1, <2>2, <1>a DEF Requeued, Rest
<1>17. ASSUME NEW result \in {"failed", "offline"}, Fails(result)
       PROVE  Rest' /\ Controlled(cooldown')
  <2>1. /\ inner' \in Inner /\ again' \in BOOLEAN /\ delay' \in BOOLEAN
        /\ Controlled(cooldown') /\ cooldown' \in Cooldowns /\ held' \in BOOLEAN
    BY <1>17, InnerEndsControls DEF Fails
  <2>2. forgone' \in BOOLEAN
    BY <1>17, <1>a DEF Fails, Rest, Drops
  <2> QED
    BY <1>17, <2>1, <2>2, <1>a DEF Fails, Rest
<1>18. CASE Show
  <2>1. CASE mobile
    <3>1. timer' = "none" /\ cooldown' = "none" /\ UNCHANGED <<outer, queue>>
      BY <1>18, <2>1 DEF Show
    <3>2. Controlled(cooldown')
      BY <3>1 DEF Controlled, QueueFit, TypeOK, Timers
    <3> QED
      BY <1>18, <2>1, <3>1, <3>2, <1>a DEF Show, Rest, Inner, Cooldowns, app, bounds
  <2>2. CASE ~mobile
    BY <1>18, <2>2, <1>a, <1>b DEF Show, Rest, Inner, app, pacing, bounds
  <2> QED
    BY <2>1, <2>2
<1>19. CASE Succeeds
  <2>1. PICK more \in BOOLEAN : InnerEnds("ok", more)
    BY <1>19 DEF Succeeds
  <2>2. /\ inner' \in Inner /\ again' \in BOOLEAN /\ delay' \in BOOLEAN
        /\ Controlled(cooldown') /\ cooldown' \in Cooldowns /\ held' \in BOOLEAN
    BY <2>1, InnerEndsControls
  <2>3. forgone' \in BOOLEAN
    BY <1>19, <1>a DEF Succeeds, Rest, Drops
  <2> QED
    BY <1>19, <2>2, <2>3, <1>a DEF Succeeds, Rest, bounds
<1> QED
  BY <1>1, <1>2, <1>3, <1>4, <1>5, <1>6, <1>7, <1>8, <1>9, <1>10, <1>11, <1>12, <1>13,
     <1>14, <1>15, <1>16, <1>17, <1>18, <1>19 DEF Next

LEMMA AutoSyncInvariantHolds == Spec => []AutoSyncInvariant
<1>1. ASSUME Init PROVE AutoSyncInvariant
  <2>1. mobile \in BOOLEAN /\ outer \in Outer
    BY <1>1, AutoSyncConstants, RestingOuter DEF Init
  <2>2. QueueFit /\ CooldownHasRetry /\ queue \in SUBSET Requests
        /\ \A a, b \in queue : a = b
    BY <1>1 DEF Init, QueueFit, CooldownHasRetry
  <2> QED
    BY <1>1, <2>1, <2>2 DEF Init, AutoSyncInvariant, TypeOK, Timers, Cooldowns, Inner
<1>2. AutoSyncInvariant /\ [Next]_vars => AutoSyncInvariant'
  <2>1. CASE AutoSyncInvariant /\ Next
    BY <2>1, StepControls, ControlledKeeps
  <2>2. CASE AutoSyncInvariant /\ UNCHANGED vars
    BY <2>2 DEF vars, AutoSyncInvariant, TypeOK, QueueFit, CooldownHasRetry
  <2> QED
    BY <2>1, <2>2
<1> QED
  BY <1>1, <1>2, PTL DEF Spec

\* The variables keep their types and one follow-up at most is remembered.
THEOREM AutoSyncTypeCorrect == Spec => []TypeOK
BY AutoSyncInvariantHolds, PTL DEF AutoSyncInvariant

\* No interleaving of suspensions, queued requests and cycles takes the retry of a
\* failure away while its cooldown runs.
THEOREM FailureKeepsRetry == Spec => []CooldownHasRetry
BY AutoSyncInvariantHolds, PTL DEF AutoSyncInvariant

\* No automatic request, queued or not, gets a cycle while a cooldown runs.
THEOREM CooldownIsKept == Spec => AutoWaitsOutCooldown
<1>1. AutoSyncInvariant /\ [Next]_vars
        => [outer'.step = "gate" /\ outer # outer'
              => outer'.arg.user \/ cooldown' # "running"]_vars
  BY StepControls DEF Controlled
<1> QED
  BY <1>1, AutoSyncInvariantHolds, PTL DEF Spec, AutoWaitsOutCooldown
=============================================================================
