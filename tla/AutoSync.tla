------------------------------- MODULE AutoSync -------------------------------
(***************************************************************************)
(* When a sync cycle runs: createAutoSyncController of packages/core in    *)
(* front of the platform's sync service, each behind an orchestrator of    *)
(* its own (sync-orchestrator.ts) that runs one cycle at a time and keeps  *)
(* one follow-up request.                                                  *)
(*                                                                         *)
(* "outer" is the controller's orchestrator: its cycle checks cooldown and *)
(* pacing and awaits the service.  "inner" is the service's: its cycle     *)
(* reads the document, checks once more that nothing was edited, and       *)
(* finishes.  The service also runs cycles the controller did not ask for: *)
(* its follow-ups, and the mobile app's Sync now button.                   *)
(*                                                                         *)
(* There is no clock.  A timer fires at any time once what it waits for is *)
(* over, and a paced request is throttled or not.                          *)
(***************************************************************************)
EXTENDS Naturals

CONSTANTS
    Platforms,     \* policies that may be chosen: TRUE mobile, FALSE desktop
    MaxEdits,      \* bound: edits of the user
    MaxFaults,     \* bound: cycles that fail, are requeued or are not allowed
    MaxManual,     \* bound: presses of Sync now
    MaxSuspends    \* bound: times the mobile app goes to the background

ASSUME AutoSyncConstants ==
    /\ Platforms \subseteq BOOLEAN
    /\ MaxEdits \in Nat /\ MaxFaults \in Nat
    /\ MaxManual \in Nat /\ MaxSuspends \in Nat

VARIABLES
    mobile,     \* which policies this app has, never changes
    debounce,   \* syncDebounceTimer is armed
    firing,     \* the debounced trigger awaits refreshCadence
    timer,      \* syncThrottleTimer, and which of its two callbacks it has
    cooldown,   \* autoSyncRetryAfter: 0, ahead of now, or behind it
    outer,      \* the controller's cycle
    queue,      \* the follow-up its orchestrator keeps: queued, queuedArg
    inner,      \* the service's cycle
    again,      \* queued of the service's orchestrator
    delay,      \* its followUpTimer is armed
    hidden,     \* the mobile app is in the background
    held,       \* requestedWhileSuspended
    dirty,      \* ghost: there is an edit no successful cycle has read
    covered,    \* ghost: the running cycle has read every edit so far
    forgone,    \* ghost: the trigger an edit had was dropped
    edits, faults, manual, suspends

app == <<debounce, firing, hidden, held>>
pacing == <<timer, cooldown>>
service == <<inner, again, delay>>
ghosts == <<dirty, covered, forgone>>
bounds == <<edits, faults, manual, suspends>>
vars == <<mobile, debounce, firing, timer, cooldown, outer, queue, inner, again, delay,
          hidden, held, dirty, covered, forgone, edits, faults, manual, suspends>>

\* A request: the user's own bypasses the cooldown, one with a minimum interval of
\* zero bypasses the pacing.
Requests == [user : BOOLEAN, now : BOOLEAN]
Ordinary == [user |-> FALSE, now |-> FALSE]
Immediate == [user |-> FALSE, now |-> TRUE]
FromUser == [user |-> TRUE, now |-> TRUE]

Timers == {"none", "pace", "retry"}
Cooldowns == {"none", "running", "over"}
Outer == [step : {"idle", "gate", "wait"}, arg : Requests, hidden : BOOLEAN]
Resting == [step |-> "idle", arg |-> Ordinary, hidden |-> FALSE]
Inner == {"idle", "open", "read", "tail", "shown"}

Init ==
    /\ mobile \in Platforms
    /\ debounce = FALSE /\ firing = FALSE
    /\ timer = "none" /\ cooldown = "none"
    /\ outer = Resting /\ queue = {}
    /\ inner = "idle" /\ again = FALSE /\ delay = FALSE
    /\ hidden = FALSE /\ held = FALSE
    /\ dirty = FALSE /\ covered = FALSE /\ forgone = FALSE
    /\ edits = 0 /\ faults = 0 /\ manual = 0 /\ suspends = 0

Busy == outer.step # "idle"

-----------------------------------------------------------------------------
(* The controller                                                           *)

\* An armed throttle timer is kept, whichever callback it has.
Armed(t, kind) == IF t = "none" THEN kind ELSE t

BeginUnchecked(a, t, c) ==
    /\ queue' = {}
    /\ \/ ~a.now /\ timer' = Armed(t, "pace") /\ outer' = Resting
       \/ timer' = t /\ outer' = [step |-> "gate", arg |-> a, hidden |-> hidden]

\* runCycle up to its first await, for a request that finds no cycle: t and c are
\* the timer and the cooldown by then.  It is put off by the cooldown, put off by
\* the pacing, or goes on.
Begin(a, t, c) ==
    /\ queue' = {}
    /\ \/ /\ ~a.user /\ c = "running"
          /\ timer' = Armed(t, "retry") /\ outer' = Resting
       \/ /\ a.user \/ c # "running"
          /\ ~a.now
          /\ timer' = Armed(t, "pace") /\ outer' = Resting
       \/ /\ a.user \/ c # "running"
          /\ timer' = t
          /\ outer' = [step |-> "gate", arg |-> a, hidden |-> hidden]

RunKeepsAll(a, t) ==
    IF Busy THEN queue' = queue \cup {a} /\ timer' = t /\ UNCHANGED outer
            ELSE Begin(a, t, cooldown)

\* run of the controller's orchestrator: the newest request is the one it keeps.
Run(a, t) ==
    IF Busy THEN queue' = {a} /\ timer' = t /\ UNCHANGED outer
            ELSE Begin(a, t, cooldown)

\* requestAutoSync.  On mobile the retry of a timer is dropped while a cycle runs.
RequestAuto(a, isRetry, t, h) ==
    /\ held' = (h \/ (hidden /\ Busy))
    /\ \/ /\ isRetry /\ mobile /\ Busy
          /\ timer' = t /\ UNCHANGED <<outer, queue>>
       \/ /\ ~(isRetry /\ mobile /\ Busy)
          /\ cooldown = "running"
          /\ timer' = Armed(t, "retry") /\ UNCHANGED <<outer, queue>>
       \/ /\ ~(isRetry /\ mobile /\ Busy)
          /\ cooldown # "running"
          /\ Run(a, t)

\* What a result does to the cooldown and the timer.
CooldownAfter(result) ==
    CASE result = "ok" -> "none" [] result = "failed" -> "running" [] OTHER -> cooldown
TimerAfterLazy(result) == IF result = "ok" THEN "none" ELSE timer
TimerAfter(result) ==
    CASE result = "ok" -> "none" [] result = "failed" -> "retry" [] OTHER -> timer

\* A mobile cycle that started in the background drops the requests that came
\* meanwhile; otherwise a queued one becomes an ordinary follow-up.
Drops == mobile /\ outer.hidden /\ held
FollowUps ==
    CASE Drops -> {}
      [] mobile /\ ~Drops -> {Ordinary : a \in queue}
      [] OTHER -> queue

\* The rest of runCycle once performSync has answered, and the orchestrator's
\* finally, which starts the follow-up at once.
Complete(result) ==
    /\ cooldown' = CooldownAfter(result)
    /\ held' = (held /\ ~Drops)
    /\ IF FollowUps = {}
         THEN outer' = Resting /\ queue' = {} /\ timer' = TimerAfter(result)
         ELSE \E a \in FollowUps : Begin(a, TimerAfter(result), CooldownAfter(result))

-----------------------------------------------------------------------------
(* Triggers.  JavaScript timers do not run in the background.               *)

\* An edit: the store's subscriber calls handleDataChange.
Edit ==
    /\ edits < MaxEdits
    /\ edits' = edits + 1
    /\ debounce' = TRUE
    /\ dirty' = TRUE /\ covered' = FALSE /\ forgone' = FALSE
    /\ UNCHANGED <<mobile, firing, hidden, held, pacing, outer, queue, service,
                   faults, manual, suspends>>

\* Mobile reads its cadence from storage before it makes the request.
DebounceFires ==
    /\ debounce /\ ~hidden
    /\ debounce' = FALSE
    /\ IF mobile
         THEN firing' = TRUE /\ UNCHANGED <<held, timer, outer, queue>>
         ELSE RequestAuto(Ordinary, FALSE, timer, held) /\ UNCHANGED firing
    /\ UNCHANGED <<mobile, hidden, cooldown, service, ghosts, bounds>>

CadenceRead ==
    /\ firing
    /\ firing' = FALSE
    /\ RequestAuto(Ordinary, FALSE, timer, held)
    /\ UNCHANGED <<mobile, debounce, hidden, cooldown, service, ghosts, bounds>>

\* Either callback of syncThrottleTimer; a retry waits for the end of the cooldown.
TimerFires ==
    /\ timer = "pace" \/ (timer = "retry" /\ cooldown # "running")
    /\ ~hidden
    /\ RequestAuto(Immediate, TRUE, "none", held)
    /\ UNCHANGED <<mobile, debounce, firing, hidden, cooldown, service, ghosts, bounds>>

CooldownEnds ==
    /\ cooldown = "running"
    /\ cooldown' = "over"
    /\ UNCHANGED <<mobile, app, timer, outer, queue, service, ghosts, bounds>>

\* The desktop's periodic timer.
Heartbeat ==
    /\ ~mobile
    /\ RequestAuto(Ordinary, FALSE, timer, held)
    /\ UNCHANGED <<mobile, debounce, firing, hidden, cooldown, service, ghosts, bounds>>

\* A CloudKit notification reaches the mobile app, in the background too.
RemoteChange ==
    /\ mobile
    /\ RequestAuto(Immediate, FALSE, timer, held)
    /\ UNCHANGED <<mobile, debounce, firing, hidden, cooldown, service, ghosts, bounds>>

\* The app goes to the background: pacing timers are dropped, a retry owed to a
\* failure is kept, and a last sync is requested while isSuspended still says no.
KeptTimer(t) == IF cooldown = "none" THEN "none" ELSE t
Suspend ==
    /\ mobile /\ ~hidden
    /\ suspends < MaxSuspends
    /\ suspends' = suspends + 1
    /\ hidden' = TRUE
    /\ debounce' = FALSE
    /\ RequestAuto(Immediate, FALSE, KeptTimer(timer), held)
    /\ UNCHANGED <<mobile, firing, cooldown, service, ghosts, edits, faults, manual>>

\* It comes back: a remembered request is made good, else one is made if the last
\* cycle was long enough ago.
Resume ==
    /\ hidden
    /\ hidden' = FALSE
    /\ \/ RequestAuto(Immediate, FALSE, timer, FALSE)
       \/ ~held /\ UNCHANGED <<held, timer, outer, queue>>
    /\ UNCHANGED <<mobile, debounce, firing, cooldown, service, ghosts, bounds>>

-----------------------------------------------------------------------------
(* The service                                                              *)

RunInnerJoins ==
    IF inner = "idle" THEN inner' = "open" /\ again' = FALSE /\ delay' = FALSE
                      ELSE UNCHANGED <<inner, again, delay>>

\* run of the service's orchestrator.
RunInner ==
    IF inner = "idle" THEN inner' = "open" /\ again' = FALSE /\ delay' = FALSE
                      ELSE again' = TRUE /\ UNCHANGED <<inner, delay>>

\* The controller's cycle gets past its checks and flushes, then calls performSync,
\* which joins a cycle that runs already and queues a follow-up behind it.
PerformSync ==
    /\ outer.step = "gate"
    /\ outer' = [outer EXCEPT !.step = "wait"]
    /\ RunInner
    /\ UNCHANGED <<mobile, app, pacing, queue, ghosts, bounds>>

\* canSync or an encryption suspension (desktop) ends the controller's cycle instead.
Denied ==
    /\ outer.step = "gate" /\ ~mobile
    /\ faults < MaxFaults
    /\ faults' = faults + 1
    /\ IF queue = {}
         THEN outer' = Resting /\ UNCHANGED <<queue, timer>>
         ELSE \E a \in queue : Begin(a, timer, cooldown)
    /\ UNCHANGED <<mobile, app, cooldown, service, ghosts, edits, manual, suspends>>

\* Sync now: through the controller on desktop, straight to the service on mobile.
SyncNow ==
    /\ manual < MaxManual
    /\ ~hidden
    /\ manual' = manual + 1
    /\ IF mobile
         THEN RunInner /\ UNCHANGED <<timer, outer, queue>>
         ELSE Run(FromUser, timer) /\ UNCHANGED service
    /\ UNCHANGED <<mobile, app, cooldown, ghosts, edits, faults, suspends>>

\* The delay of a follow-up is over.
DelayEnds ==
    /\ delay /\ ~hidden
    /\ RunInner
    /\ UNCHANGED <<mobile, app, pacing, outer, queue, ghosts, bounds>>

Read ==
    /\ inner = "open"
    /\ inner' = "read"
    /\ covered' = TRUE
    /\ UNCHANGED <<mobile, app, pacing, outer, queue, again, delay, dirty, forgone, bounds>>

\* The cycle ends with a result, which the controller's cycle may be waiting for.
\* A follow-up starts at once or after a delay (always on mobile).
InnerEnds(result, more) ==
    /\ IF again \/ more
         THEN \/ inner' = "idle" /\ again' = TRUE /\ delay' = TRUE
              \/ ~mobile /\ inner' = "open" /\ again' = FALSE /\ delay' = FALSE
         ELSE inner' = "idle" /\ UNCHANGED <<again, delay>>
    /\ IF outer.step = "wait" THEN Complete(result)
                              ELSE UNCHANGED <<cooldown, held, outer, queue, timer>>

\* The last ensureLocalSnapshotFresh: an edit since the read requeues the cycle.
LastCheck ==
    /\ inner = "read"
    /\ IF covered
         THEN inner' = "tail" /\ UNCHANGED <<again, delay, held, pacing, outer, queue, forgone>>
         ELSE /\ InnerEnds("ok", TRUE)
              /\ forgone' = (forgone \/ (outer.step = "wait" /\ Drops))
    /\ UNCHANGED <<mobile, debounce, firing, hidden, dirty, covered, bounds>>

\* A held fence, a conflict on the remote or an abort on suspending requeues it too.
Requeued ==
    /\ inner \in {"open", "read"}
    /\ faults < MaxFaults
    /\ faults' = faults + 1
    /\ InnerEnds("ok", TRUE)
    /\ forgone' = (forgone \/ (outer.step = "wait" /\ Drops))
    /\ UNCHANGED <<mobile, debounce, firing, hidden, dirty, covered, edits, manual, suspends>>

\* An error.  On mobile being offline is no failure to the controller.
Unowned(result) == outer.step # "wait" \/ result = "offline"
Fails(result) ==
    /\ inner \in {"open", "read", "tail"}
    /\ faults < MaxFaults
    /\ result = "offline" => mobile
    /\ faults' = faults + 1
    /\ InnerEnds(result, FALSE)
    /\ forgone' = (forgone \/ (dirty /\ Unowned(result)) \/ (outer.step = "wait" /\ Drops))
    /\ UNCHANGED <<mobile, debounce, firing, hidden, dirty, covered, edits, manual, suspends>>

\* finalizeSuccess updates the status, which on mobile is notifyExternalSyncSuccess.
Show ==
    /\ inner = "tail"
    /\ inner' = "shown"
    /\ dirty' = ~covered
    /\ IF mobile
         THEN /\ timer' = "none" /\ cooldown' = "none"
              /\ forgone' = (forgone \/ (~covered /\ timer # "none"))
         ELSE UNCHANGED <<pacing, forgone>>
    /\ UNCHANGED <<mobile, app, outer, queue, again, delay, covered, bounds>>

\* A cycle that wrote to a server which merges has requested a follow-up.
Succeeds ==
    /\ inner = "shown"
    /\ \E more \in BOOLEAN : InnerEnds("ok", more)
    /\ forgone' = (forgone \/ (outer.step = "wait" /\ (Drops \/ timer # "none")))
    /\ UNCHANGED <<mobile, debounce, firing, hidden, dirty, covered, bounds>>

-----------------------------------------------------------------------------
Next ==
    \/ Edit \/ DebounceFires \/ CadenceRead \/ TimerFires \/ CooldownEnds
    \/ Heartbeat \/ RemoteChange \/ Suspend \/ Resume \/ SyncNow
    \/ PerformSync \/ Denied \/ DelayEnds \/ Read \/ LastCheck \/ Requeued
    \/ \E result \in {"failed", "offline"} : Fails(result)
    \/ Show \/ Succeeds

Spec == Init /\ [][Next]_vars

\* Timers fire, awaits resume, the desktop's heartbeat goes on, and whoever sent the
\* app to the background opens it again.
FairSpec ==
    /\ Spec
    /\ WF_vars(DebounceFires) /\ WF_vars(CadenceRead) /\ WF_vars(TimerFires)
    /\ WF_vars(CooldownEnds) /\ WF_vars(Heartbeat) /\ WF_vars(Resume)
    /\ WF_vars(PerformSync) /\ WF_vars(DelayEnds) /\ WF_vars(Read)
    /\ WF_vars(LastCheck) /\ WF_vars(Show) /\ WF_vars(Succeeds)

-----------------------------------------------------------------------------
(* Properties                                                               *)

\* The variables keep their types, and the orchestrator keeps one follow-up at most.
TypeOK ==
    /\ mobile \in BOOLEAN /\ debounce \in BOOLEAN /\ firing \in BOOLEAN
    /\ timer \in Timers /\ cooldown \in Cooldowns
    /\ outer \in Outer
    /\ queue \in SUBSET Requests /\ \A a, b \in queue : a = b
    /\ inner \in Inner /\ again \in BOOLEAN /\ delay \in BOOLEAN
    /\ hidden \in BOOLEAN /\ held \in BOOLEAN
    /\ dirty \in BOOLEAN /\ covered \in BOOLEAN /\ forgone \in BOOLEAN
    /\ edits \in Nat /\ faults \in Nat /\ manual \in Nat /\ suspends \in Nat

\* While a cooldown runs its retry is armed: whatever suspensions, queued requests and
\* other cycles come in between, no failure is left waiting for the next edit.
CooldownHasRetry == cooldown = "running" => timer = "retry"

\* No cycle of the controller begins during a cooldown but the user's own, whatever
\* was queued and whatever the queued request becomes.
AutoWaitsOutCooldown ==
    [][outer'.step = "gate" /\ outer # outer' => outer'.arg.user \/ cooldown' # "running"]_vars

\* An edit is pushed by a successful cycle in the end; on mobile, which has no
\* heartbeat, unless its trigger was dropped in one of the four ways "forgone" records.
EditsArePushed == dirty ~> (~dirty \/ (mobile /\ forgone))
=============================================================================
