----------------------------- MODULE RemoteFence -----------------------------
(***************************************************************************)
(* The remote mutation fence of packages/core/src/sync-remote-fence.ts: a   *)
(* lease kept in one file beside the synced document, taken before a client *)
(* changes anything on the backend, renewed by heartbeats, reclaimed from a *)
(* holder that fell silent.                                                 *)
(*                                                                          *)
(* The actors are leases: one call of acquireSyncRemoteMutationFence and    *)
(* the object it returns.  A client that syncs again takes another lease.   *)
(* Every request is two steps, the server's and the client's reading of the *)
(* answer, and the clock may advance before either.  The way of a request   *)
(* to the server takes no time here: it would only add to readAgeMs, which  *)
(* makes the holder give up sooner, as a failed request does.               *)
(*                                                                          *)
(* The version of the file stands for its content; the server's Date header *)
(* and the monotonic clock of a client run at the same rate.                *)
(***************************************************************************)
EXTENDS Integers

CONSTANTS
    Leases,
    NoRecord,    \* the fence file is missing
    Ttl,         \* ttlMs
    Heartbeat,   \* heartbeatMs of each lease, 0 to advertise none
    Missed,      \* ABANDONED_AFTER_MISSED_HEARTBEATS
    Margin,      \* ABANDONED_JITTER_MARGIN_MS
    Horizons,    \* minRemainingMs of the mutations, the longest each may take
    MaxTime,     \* bound: time
    MaxFaults,   \* bound: failed requests
    MaxAborts,   \* bound: mutations the client gives up on
    MaxPauses    \* bound: suspensions of a client between check and mutation

ASSUME FenceConstants ==
    /\ Ttl \in Nat \ {0} /\ Missed \in Nat \ {0} /\ Margin \in Nat
    /\ Heartbeat \in [Leases -> Nat]
    /\ NoRecord \notin [lease : Leases, expiresAt : Nat, heartbeat : Nat, renewedAt : Nat]
    /\ Horizons \subseteq 1..(Ttl - 1)
    /\ MaxTime \in Nat \ {0} /\ MaxFaults \in Nat /\ MaxAborts \in Nat /\ MaxPauses \in Nat

VARIABLES
    clock,
    fence,    \* the record in the fence file
    pc,       \* where the lease's operation stands
    call,     \* that operation: serialize() admits one at a time
    adv,      \* advertisedHeartbeatMs
    lost,     \* lostError is set
    awaiting, \* the client awaits its mutation
    until,    \* the latest the mutation in flight takes effect, 0 if none
    faults, aborts, pauses

budget == <<faults, aborts, pauses>>
vars == <<clock, fence, pc, call, adv, lost, awaiting, until, faults, aborts, pauses>>

Times == 0..(MaxTime + Ttl)
Record == [lease : Leases, expiresAt : Times, heartbeat : Nat, renewedAt : Times]
Steps == {"start", "reading", "answered", "writing", "verifying", "verified",
          "held", "done", "dead"}
Operations == {"none", "acquire", "assert", "extend", "renew", "release"}

\* An operation, the time it is to assert (minRemainingMs), the record it last read
\* with the server time of that answer, and the expiry it has written.
Calls == [op : Operations, need : 0..Ttl, rec : Record \cup {NoRecord}, at : 0..MaxTime,
          expiry : Times]
Calling(operation, horizon) ==
    [op |-> operation, need |-> horizon, rec |-> NoRecord, at |-> 0, expiry |-> 0]
Idle == Calling("none", 0)

TypeOK ==
    /\ clock \in 1..MaxTime
    /\ fence \in Record \cup {NoRecord}
    /\ pc \in [Leases -> Steps] /\ call \in [Leases -> Calls]
    /\ adv \in [Leases -> Nat]
    /\ lost \in [Leases -> BOOLEAN] /\ awaiting \in [Leases -> BOOLEAN]
    /\ until \in [Leases -> Times]
    /\ faults \in 0..MaxFaults /\ aborts \in 0..MaxAborts /\ pauses \in 0..MaxPauses

Init ==
    /\ clock = 1
    /\ fence = NoRecord
    /\ pc = [l \in Leases |-> "start"] /\ call = [l \in Leases |-> Idle]
    /\ adv = Heartbeat
    /\ lost = [l \in Leases |-> FALSE] /\ awaiting = [l \in Leases |-> FALSE]
    /\ until = [l \in Leases |-> 0]
    /\ faults = 0 /\ aborts = 0 /\ pauses = 0

-----------------------------------------------------------------------------
(* Records                                                                  *)

Goto(l, step) == pc' = [pc EXCEPT ![l] = step]
End(l, step) == Goto(l, step) /\ call' = [call EXCEPT ![l] = Idle]

\* isAbandonedRecord and the expiry test of the acquisition.
Silence(r) == r.heartbeat * Missed + Margin
Lapsed(r, now) ==
    \/ r.expiresAt <= now
    \/ r.heartbeat > 0 /\ now - r.renewedAt > Silence(r)

\* getSafeAuthorityRemainingMs: until when no conforming client takes the fence.
SafeUntil(r) ==
    IF r.heartbeat > 0 /\ r.renewedAt + Silence(r) < r.expiresAt
      THEN r.renewedAt + Silence(r) ELSE r.expiresAt

Longer(m, n) == IF m > n THEN m ELSE n
RoundedUp(n) == (n + Missed - 1) \div Missed

FreshForgets(l) ==
    [lease |-> l, expiresAt |-> call[l].at + Ttl, renewedAt |-> call[l].at,
     heartbeat |-> IF call[l].op = "renew" THEN Heartbeat[l] ELSE adv[l]]
FreshAdded(l) ==
    [lease |-> l, heartbeat |-> adv[l], renewedAt |-> call[l].at,
     expiresAt |-> Ttl + IF call[l].rec = NoRecord THEN call[l].at
                                                   ELSE call[l].rec.expiresAt]
Fresh(l) ==
    [lease |-> l, expiresAt |-> call[l].at + Ttl, heartbeat |-> adv[l],
     renewedAt |-> call[l].at]

\* requireOwnedSnapshot, with the age of the answer deducted.
Mine(l) == call[l].rec # NoRecord /\ call[l].rec.lease = l
Owned(l) == Mine(l) /\ call[l].rec.expiresAt > clock

\* The record just written is still there.
Unreplaced(l) == Mine(l) /\ call[l].rec.expiresAt = call[l].expiry

\* A conditional request finds the version it names.
MatchesAlways(l) == TRUE
MatchesReleasing(l) == fence = call[l].rec \/ (call[l].op = "release" /\ fence # NoRecord)
Matches(l) == fence = call[l].rec

-----------------------------------------------------------------------------
(* Operations begin                                                         *)

Begin(l, operation, horizon) ==
    /\ call' = [call EXCEPT ![l] = Calling(operation, horizon)]
    /\ Goto(l, "reading")
    /\ UNCHANGED <<clock, fence, adv, lost, awaiting, until, budget>>

Acquire(l) == pc[l] = "start" /\ Begin(l, "acquire", 0)

\* Before each mutation the lease is asserted for the time the mutation may take.
AssertHeld(l, horizon) ==
    pc[l] = "held" /\ ~lost[l] /\ ~awaiting[l] /\ Begin(l, "assert", horizon)

\* The heartbeat timer, which runs while a mutation is in flight too.
Renew(l) == pc[l] = "held" /\ ~lost[l] /\ Heartbeat[l] > 0 /\ Begin(l, "renew", 0)

\* The run ends, well or not, and releases its lease.
Release(l) == pc[l] = "held" /\ ~awaiting[l] /\ Begin(l, "release", 0)

-----------------------------------------------------------------------------
(* Requests                                                                 *)

\* The server answers a read.
Read(l) ==
    /\ pc[l] \in {"reading", "verifying"}
    /\ call' = [call EXCEPT ![l] = [@ EXCEPT !.rec = fence, !.at = clock]]
    /\ Goto(l, IF pc[l] = "reading" THEN "answered" ELSE "verified")
    /\ UNCHANGED <<clock, fence, adv, lost, awaiting, until, budget>>

\* An operation ends in an error: acquisition hands out no lease, a heartbeat that
\* fails records lostError, a release is left to the expiry.
FailOp(l) ==
    /\ End(l, CASE call[l].op = "acquire" -> "dead"
                [] call[l].op = "release" -> "done"
                [] OTHER -> "held")
    /\ lost' = [lost EXCEPT ![l] = @ \/ call[l].op = "renew"]

\* The mutation goes out the moment the assertion returns.
Mutate(l) ==
    /\ until' = [until EXCEPT ![l] = clock + call[l].need]
    /\ awaiting' = [awaiting EXCEPT ![l] = TRUE]
    /\ End(l, "held")

\* acquire: a live record of another client is left alone.
AcquireAnswered(l) ==
    /\ pc[l] = "answered" /\ call[l].op = "acquire"
    /\ IF call[l].rec = NoRecord \/ Lapsed(call[l].rec, call[l].at)
         THEN Goto(l, "writing") /\ UNCHANGED call
         ELSE End(l, "start")
    /\ UNCHANGED <<clock, fence, adv, lost, awaiting, until, budget>>

\* assertHeld: with enough safe time left the caller goes on, otherwise the
\* advertised heartbeat is widened to the horizon and the lease renewed.
AssertAnswered(l) ==
    /\ pc[l] = "answered" /\ call[l].op = "assert"
    /\ IF ~Owned(l)
         THEN FailOp(l) /\ UNCHANGED <<adv, awaiting, until>>
         ELSE IF SafeUntil(call[l].rec) - clock > call[l].need
                THEN Mutate(l) /\ UNCHANGED <<adv, lost>>
                ELSE /\ adv' = [adv EXCEPT ![l] =
                                  IF @ > 0 THEN Longer(@, RoundedUp(call[l].need)) ELSE @]
                     /\ call' = [call EXCEPT ![l] = Calling("extend", @.need)]
                     /\ Goto(l, "reading")
                     /\ UNCHANGED <<lost, awaiting, until>>
    /\ UNCHANGED <<clock, fence, budget>>

\* renewOwned, for a heartbeat or for assertHeld.
RenewAnswered(l) ==
    /\ pc[l] = "answered" /\ call[l].op \in {"renew", "extend"}
    /\ IF Owned(l)
         THEN Goto(l, "writing") /\ UNCHANGED <<call, lost>>
         ELSE FailOp(l)
    /\ UNCHANGED <<clock, fence, adv, awaiting, until, budget>>

\* release removes its own record only.
ReleaseAnswered(l) ==
    /\ pc[l] = "answered" /\ call[l].op = "release"
    /\ IF Mine(l) THEN Goto(l, "writing") /\ UNCHANGED call ELSE End(l, "done")
    /\ UNCHANGED <<clock, fence, adv, lost, awaiting, until, budget>>

\* The server takes a conditional write or removal.
Take(l) == fence' = IF call[l].op = "release" THEN NoRecord ELSE Fresh(l)
Write(l) ==
    /\ pc[l] = "writing" /\ Matches(l)
    /\ Take(l)
    /\ IF call[l].op = "release"
         THEN End(l, "done")
         ELSE /\ call' = [call EXCEPT ![l] = [Calling(@.op, @.need)
                                                EXCEPT !.expiry = Fresh(l).expiresAt]]
              /\ Goto(l, "verifying")
    /\ UNCHANGED <<clock, adv, lost, awaiting, until, budget>>

\* It reports a conflict; the acquisition then reads again, until its attempts are
\* used up and it counts the fence as busy.
WriteConflicts(l) ==
    /\ pc[l] = "writing" /\ ~Matches(l)
    /\ IF call[l].op = "acquire"
         THEN /\ \/ Goto(l, "reading") /\ call' = [call EXCEPT ![l] = Calling("acquire", 0)]
                 \/ End(l, "start")
              /\ UNCHANGED lost
         ELSE FailOp(l)
    /\ UNCHANGED <<clock, fence, adv, awaiting, until, budget>>

AcquireVerified(l) ==
    /\ pc[l] = "verified" /\ call[l].op = "acquire"
    /\ End(l, IF Unreplaced(l) /\ call[l].rec.expiresAt > call[l].at THEN "held" ELSE "dead")
    /\ UNCHANGED <<clock, fence, adv, lost, awaiting, until, budget>>

RenewVerified(l) ==
    /\ pc[l] = "verified" /\ call[l].op \in {"renew", "extend"}
    /\ IF ~(Unreplaced(l) /\ call[l].rec.expiresAt > clock)
         THEN FailOp(l) /\ UNCHANGED <<awaiting, until>>
         ELSE /\ IF call[l].op = "extend" /\ SafeUntil(call[l].rec) - clock > call[l].need
                   THEN Mutate(l)
                   ELSE End(l, "held") /\ UNCHANGED <<awaiting, until>>
              /\ UNCHANGED lost
    /\ UNCHANGED <<clock, fence, adv, budget>>

\* A request fails, a write before or after the server took it.
RequestFails(l) ==
    /\ pc[l] \in {"reading", "writing", "verifying"}
    /\ faults < MaxFaults
    /\ faults' = faults + 1
    /\ UNCHANGED fence \/ (pc[l] = "writing" /\ Matches(l) /\ Take(l))
    /\ FailOp(l)
    /\ UNCHANGED <<clock, adv, awaiting, until, aborts, pauses>>

-----------------------------------------------------------------------------
(* Mutations, kills and time                                                *)

\* The backend carries the mutation out and the client learns of it.
Land(l) ==
    /\ until[l] > 0
    /\ until' = [until EXCEPT ![l] = 0]
    /\ awaiting' = [awaiting EXCEPT ![l] = FALSE]
    /\ UNCHANGED <<clock, fence, pc, call, adv, lost, budget>>

\* The client gives up on the request (its own time limit, or the run is aborted),
\* which the backend may still be carrying out.
Abort(l) ==
    /\ awaiting[l] /\ aborts < MaxAborts
    /\ aborts' = aborts + 1
    /\ awaiting' = [awaiting EXCEPT ![l] = FALSE]
    /\ UNCHANGED <<clock, fence, pc, call, adv, lost, until, faults, pauses>>

\* The client is suspended between the assertion and the request, which goes out
\* whenever it wakes.
Pause(l) ==
    /\ awaiting[l] /\ pauses < MaxPauses
    /\ pauses' = pauses + 1
    /\ until' = [until EXCEPT ![l] = MaxTime]
    /\ UNCHANGED <<clock, fence, pc, call, adv, lost, awaiting, faults, aborts>>

\* The client is killed, at any point and with a mutation perhaps in flight.
Crash(l) ==
    /\ pc[l] \notin {"start", "done", "dead"}
    /\ End(l, "dead")
    /\ awaiting' = [awaiting EXCEPT ![l] = FALSE]
    /\ UNCHANGED <<clock, fence, adv, lost, until, budget>>

\* A mutation takes no longer than its horizon.
Tick ==
    /\ clock < MaxTime
    /\ \A l \in Leases : until[l] = 0 \/ clock < until[l]
    /\ clock' = clock + 1
    /\ UNCHANGED <<fence, pc, call, adv, lost, awaiting, until, budget>>

-----------------------------------------------------------------------------
LeaseStep(l) ==
    \/ Acquire(l) \/ (\E horizon \in Horizons : AssertHeld(l, horizon)) \/ Renew(l)
    \/ Release(l) \/ Read(l) \/ AcquireAnswered(l) \/ AssertAnswered(l)
    \/ RenewAnswered(l) \/ ReleaseAnswered(l) \/ Write(l) \/ WriteConflicts(l)
    \/ AcquireVerified(l) \/ RenewVerified(l) \/ RequestFails(l) \/ Land(l) \/ Abort(l)
    \/ Pause(l) \/ Crash(l)

Next == Tick \/ \E l \in Leases : LeaseStep(l)

Spec == Init /\ [][Next]_vars

-----------------------------------------------------------------------------
(* Properties                                                               *)

\* What a client has in flight to the backend is covered by its own record.
MutationsFenced ==
    \A l \in Leases : until[l] > 0 => fence # NoRecord /\ fence.lease = l

\* No client has given up on a request the backend may still carry out, and none was
\* suspended between the assertion of its lease and the request.
Undisturbed == aborts = 0 /\ pauses = 0

\* As long as that is so, whatever a client has in flight to the backend, its own
\* record is in the fence file: no other client can have taken the fence since it was
\* asserted, however heartbeats, slow answers, lost requests and kills fall.
UndisturbedFenced == Undisturbed => MutationsFenced

\* The record of one client gives way to another's only when it had expired or its
\* holder had been silent for the advertised time at the moment of the write.
OnlyLapsedReclaimed ==
    [][(fence # NoRecord /\ fence' # NoRecord /\ fence'.lease # fence.lease)
           => Lapsed(fence, clock)]_vars

\* The file is removed by the client whose record it holds: a release that read its
\* own record does not take away the one that replaced it.
PeerSafeRelease ==
    [][(fence # NoRecord /\ fence' = NoRecord)
           => pc[fence.lease] = "writing" /\ call[fence.lease].op = "release"]_vars

=============================================================================
