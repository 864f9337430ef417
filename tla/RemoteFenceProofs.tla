-------------------------- MODULE RemoteFenceProofs --------------------------
(* Proofs about RemoteFence, for any leases, cadences, horizons and bounds. *)
EXTENDS RemoteFence, TLAPS

-----------------------------------------------------------------------------
(* Records and time *)

LEMMA Monotone ==
    ASSUME NEW m \in Nat, NEW n \in Nat, NEW k \in Nat, m <= n
    PROVE  m * k <= n * k
<1>1. PICK i \in Nat : n = m + i
  <2>1. n - m \in Nat /\ n = m + (n - m)
    OBVIOUS
  <2> QED
    BY <2>1
<1>2. n * k = m * k + i * k
  BY <1>1
<1>3. i * k \in Nat /\ m * k \in Nat
  OBVIOUS
<1> QED
  BY <1>2, <1>3

LEMMA SilenceNat ==
    ASSUME NEW r \in Record
    PROVE  Silence(r) \in Nat /\ SafeUntil(r) \in Nat /\ SafeUntil(r) <= r.expiresAt
           /\ r.heartbeat \in Nat /\ r.renewedAt \in Nat /\ r.expiresAt \in Nat
<1>1. r.heartbeat \in Nat /\ r.renewedAt \in Nat /\ r.expiresAt \in Nat
  BY FenceConstants DEF Record, Times
<1>2. r.heartbeat * Missed \in Nat
  BY <1>1, FenceConstants
<1>3. Silence(r) \in Nat
  BY <1>2, FenceConstants DEF Silence
<1> HIDE DEF Silence
<1> QED
  BY <1>1, <1>3 DEF SafeUntil

\* A record is not reclaimed while it is safe.
LEMMA LapsedIsUnsafe ==
    ASSUME NEW r \in Record, NEW t \in Nat, Lapsed(r, t)
    PROVE  SafeUntil(r) <= t /\ \A u \in Nat : t <= u => Lapsed(r, u)
<1> HIDE DEF Silence
<1> QED
  BY SilenceNat DEF Lapsed, SafeUntil

\* Renewing a record never shortens the time it is safe for.
LEMMA RenewalExtends ==
    ASSUME NEW r \in Record, NEW s \in Record,
           r.renewedAt <= s.renewedAt, r.heartbeat <= s.heartbeat,
           r.heartbeat = 0 <=> s.heartbeat = 0,
           r.expiresAt = r.renewedAt + Ttl, s.expiresAt = s.renewedAt + Ttl
    PROVE  SafeUntil(r) <= SafeUntil(s)
<1>1. r.heartbeat * Missed <= s.heartbeat * Missed
  BY Monotone, SilenceNat, FenceConstants
<1>2. r.heartbeat * Missed \in Nat /\ s.heartbeat * Missed \in Nat
  BY SilenceNat, FenceConstants
<1>3. Silence(r) <= Silence(s)
  BY <1>1, <1>2, FenceConstants DEF Silence
<1> HIDE DEF Silence
<1> QED
  BY <1>3, SilenceNat, FenceConstants DEF SafeUntil

-----------------------------------------------------------------------------
(* Types *)

LEMMA CallTypes ==
    /\ \A o \in Operations, h \in 0..Ttl : Calling(o, h) \in Calls
    /\ Idle \in Calls
    /\ Idle.rec = NoRecord /\ Idle.at = 0
    /\ \A o, h : /\ Calling(o, h).rec = NoRecord /\ Calling(o, h).at = 0
                 /\ Calling(o, h).op = o /\ Calling(o, h).need = h
BY FenceConstants DEF Calling, Calls, Idle, Operations, Times

LEMMA CallParts ==
    ASSUME TypeOK, NEW l \in Leases
    PROVE  /\ call[l] \in Calls /\ call[l].op \in Operations /\ call[l].need \in 0..Ttl
           /\ call[l].rec \in Record \cup {NoRecord} /\ call[l].at \in 0..MaxTime
           /\ clock \in 1..MaxTime
BY DEF TypeOK, Calls

LEMMA FreshTypes ==
    ASSUME TypeOK, NEW l \in Leases
    PROVE  /\ Fresh(l) \in Record /\ Fresh(l).lease = l
           /\ Fresh(l).renewedAt = call[l].at /\ Fresh(l).heartbeat = adv[l]
           /\ Fresh(l).expiresAt = Fresh(l).renewedAt + Ttl
           /\ Fresh(l) # NoRecord
<1>1. call[l].at \in 0..MaxTime /\ adv[l] \in Nat
  BY CallParts DEF TypeOK
<1>2. Fresh(l) \in Record
  BY <1>1, FenceConstants DEF Fresh, Record, Times
<1>3. NoRecord \notin Record
  BY FenceConstants DEF Record, Times
<1> QED
  BY <1>2, <1>3 DEF Fresh

LEMMA InitTypes == Init => TypeOK
BY CallTypes, FenceConstants DEF Init, TypeOK, Steps, Times

LEMMA StepTypes ==
    ASSUME TypeOK, NEW l \in Leases, LeaseStep(l)
    PROVE  TypeOK'
<1> USE FenceConstants
<1>a. \A step \in Steps : Goto(l, step) => pc' \in [Leases -> Steps]
  BY DEF Goto, TypeOK
<1>b. \A c \in Calls : [call EXCEPT ![l] = c] \in [Leases -> Calls]
  BY DEF TypeOK
<1>c. \A step \in Steps : End(l, step) => pc' \in [Leases -> Steps]
                                          /\ call' \in [Leases -> Calls]
  BY <1>a, <1>b, CallTypes DEF End
<1>d. \A o \in Operations, h \in 0..Ttl :
        Begin(l, o, h) => pc' \in [Leases -> Steps] /\ call' \in [Leases -> Calls]
  BY <1>a, <1>b, CallTypes DEF Begin, Steps
<1>e. FailOp(l) => /\ pc' \in [Leases -> Steps] /\ call' \in [Leases -> Calls]
                   /\ lost' \in [Leases -> BOOLEAN]
  <2> SUFFICES ASSUME FailOp(l)
               PROVE  /\ pc' \in [Leases -> Steps] /\ call' \in [Leases -> Calls]
                      /\ lost' \in [Leases -> BOOLEAN]
    OBVIOUS
  <2>1. \E step \in Steps : End(l, step)
    BY DEF FailOp, Steps
  <2>2. lost' \in [Leases -> BOOLEAN]
    BY DEF FailOp, TypeOK
  <2> QED
    BY <2>1, <2>2, <1>c
<1>f. Mutate(l) => /\ pc' \in [Leases -> Steps] /\ call' \in [Leases -> Calls]
                   /\ until' \in [Leases -> Times] /\ awaiting' \in [Leases -> BOOLEAN]
  <2>1. clock + call[l].need \in Times
    BY CallParts DEF Times
  <2> QED
    BY <2>1, <1>c DEF Mutate, TypeOK, Steps
<1>g. fence' = NoRecord \/ fence' = Fresh(l) => fence' \in Record \cup {NoRecord}
  BY FreshTypes
<1>1. CASE Acquire(l) \/ Renew(l) \/ Release(l)
  <2>1. pc' \in [Leases -> Steps] /\ call' \in [Leases -> Calls]
    BY <1>1, <1>d DEF Acquire, Renew, Release, Operations
  <2> QED
    BY <1>1, <2>1 DEF Acquire, Renew, Release, Begin, TypeOK, budget
<1>2. CASE \E horizon \in Horizons : AssertHeld(l, horizon)
  <2>1. PICK h \in Horizons : AssertHeld(l, h)
    BY <1>2
  <2>2. pc' \in [Leases -> Steps] /\ call' \in [Leases -> Calls]
    BY <2>1, <1>d DEF AssertHeld, Operations
  <2> QED
    BY <2>1, <2>2 DEF AssertHeld, Begin, TypeOK, budget
<1>3. CASE Read(l)
  <2>1. [call[l] EXCEPT !.rec = fence, !.at = clock] \in Calls
    <3>1. fence \in Record \cup {NoRecord} /\ clock \in 0..MaxTime
      BY DEF TypeOK
    <3>2. call[l] \in Calls
      BY CallParts
    <3> QED
      BY <3>1, <3>2 DEF Calls
  <2>2. call' \in [Leases -> Calls]
    BY <1>3, <2>1, <1>b DEF Read
  <2>3. pc' \in [Leases -> Steps]
    BY <1>3, <1>a DEF Read, Steps
  <2> QED
    BY <1>3, <2>2, <2>3 DEF Read, TypeOK, budget
<1>4. CASE AcquireAnswered(l) \/ ReleaseAnswered(l) \/ AcquireVerified(l)
  <2>1. pc' \in [Leases -> Steps] /\ call' \in [Leases -> Calls]
    BY <1>4, <1>a, <1>c DEF AcquireAnswered, ReleaseAnswered, AcquireVerified, TypeOK, Steps
  <2> QED
    BY <1>4, <2>1 DEF AcquireAnswered, ReleaseAnswered, AcquireVerified, TypeOK, budget
<1>5. CASE AssertAnswered(l)
  <2>1. CASE ~Owned(l)
    BY <1>5, <2>1, <1>e DEF AssertAnswered, TypeOK, budget
  <2>2. CASE Owned(l) /\ SafeUntil(call[l].rec) - clock > call[l].need
    BY <1>5, <2>2, <1>f DEF AssertAnswered, TypeOK, budget
  <2>3. CASE Owned(l) /\ ~(SafeUntil(call[l].rec) - clock > call[l].need)
    <3>1. RoundedUp(call[l].need) \in Nat
      BY CallParts DEF RoundedUp
    <3>2. adv' \in [Leases -> Nat]
      BY <1>5, <2>3, <3>1 DEF AssertAnswered, TypeOK, Longer
    <3>3. call' \in [Leases -> Calls] /\ pc' \in [Leases -> Steps]
      BY <1>5, <2>3, <1>a, <1>b, CallTypes, CallParts DEF AssertAnswered, Operations, Steps
    <3> QED
      BY <1>5, <2>3, <3>2, <3>3 DEF AssertAnswered, TypeOK, budget
  <2> QED
    BY <2>1, <2>2, <2>3
<1>6. CASE RenewAnswered(l)
  BY <1>6, <1>a, <1>e DEF RenewAnswered, TypeOK, Steps, budget
<1>7. CASE Write(l)
  <2>1. fence' \in Record \cup {NoRecord}
    BY <1>7, <1>g DEF Write, Take
  <2>2. pc' \in [Leases -> Steps] /\ call' \in [Leases -> Calls]
    <3>1. CASE call[l].op = "release"
      BY <1>7, <3>1, <1>c DEF Write, Steps
    <3>2. CASE call[l].op # "release"
      <4>1. Calling(call[l].op, call[l].need) \in Calls
        BY CallTypes, CallParts
      <4>2. Fresh(l).expiresAt \in Times
        BY FreshTypes DEF Record
      <4>3. [Calling(call[l].op, call[l].need) EXCEPT !.expiry = Fresh(l).expiresAt] \in Calls
        BY <4>1, <4>2 DEF Calls
      <4>4. call' = [call EXCEPT ![l] = [Calling(call[l].op, call[l].need)
                                           EXCEPT !.expiry = Fresh(l).expiresAt]]
        BY <1>7, <3>2 DEF Write, TypeOK
      <4>5. Goto(l, "verifying")
        BY <1>7, <3>2 DEF Write
      <4> QED
        BY <4>3, <4>4, <4>5, <1>a, <1>b DEF Steps
    <3> QED
      BY <3>1, <3>2
  <2> QED
    BY <1>7, <2>1, <2>2 DEF Write, TypeOK, budget
<1>8. CASE WriteConflicts(l)
  <2>1. /\ pc' \in [Leases -> Steps] /\ call' \in [Leases -> Calls]
        /\ lost' \in [Leases -> BOOLEAN]
    <3>1. CASE call[l].op = "acquire"
      BY <1>8, <3>1, <1>a, <1>b, <1>c, CallTypes DEF WriteConflicts, Steps, TypeOK, Operations
    <3>2. CASE call[l].op # "acquire"
      BY <1>8, <3>2, <1>e DEF WriteConflicts
    <3> QED
      BY <3>1, <3>2
  <2> QED
    BY <1>8, <2>1 DEF WriteConflicts, TypeOK, budget
<1>9. CASE RenewVerified(l)
  <2>1. CASE FailOp(l)
    BY <1>9, <2>1, <1>e, <1>f DEF RenewVerified, TypeOK, budget
  <2>2. CASE Mutate(l) /\ UNCHANGED lost
    BY <1>9, <2>2, <1>f DEF RenewVerified, TypeOK, budget
  <2>3. CASE End(l, "held") /\ UNCHANGED <<awaiting, until, lost>>
    BY <1>9, <2>3, <1>c DEF RenewVerified, TypeOK, budget, Steps
  <2>4. \/ FailOp(l) /\ UNCHANGED <<awaiting, until>>
        \/ Mutate(l) /\ UNCHANGED lost
        \/ End(l, "held") /\ UNCHANGED <<awaiting, until, lost>>
    <3> HIDE DEF FailOp, Mutate, End
    <3>1. CASE ~(Unreplaced(l) /\ call[l].rec.expiresAt > clock)
      BY <1>9, <3>1 DEF RenewVerified
    <3>2. CASE Unreplaced(l) /\ call[l].rec.expiresAt > clock
      BY <1>9, <3>2 DEF RenewVerified
    <3> QED
      BY <3>1, <3>2
  <2> QED
    BY <2>1, <2>2, <2>3, <2>4
<1>10. CASE RequestFails(l)
  <2>1. fence' \in Record \cup {NoRecord}
    BY <1>10, <1>g DEF RequestFails, Take, TypeOK
  <2>2. faults' \in 0..MaxFaults
    BY <1>10 DEF RequestFails, TypeOK
  <2> QED
    BY <1>10, <1>e, <2>1, <2>2 DEF RequestFails, TypeOK
<1>11. CASE Land(l)
  BY <1>11 DEF Land, TypeOK, budget, Times
<1>12. CASE Abort(l)
  <2>1. aborts' \in 0..MaxAborts
    BY <1>12 DEF Abort, TypeOK
  <2> QED
    BY <1>12, <2>1 DEF Abort, TypeOK
<1>13. CASE Pause(l)
  <2>1. pauses' \in 0..MaxPauses
    BY <1>13 DEF Pause, TypeOK
  <2> QED
    BY <1>13, <2>1 DEF Pause, TypeOK, Times
<1>14. CASE Crash(l)
  BY <1>14, <1>c DEF Crash, TypeOK, budget, Steps
<1> QED
  BY <1>1, <1>2, <1>3, <1>4, <1>5, <1>6, <1>7, <1>8, <1>9, <1>10, <1>11, <1>12, <1>13,
     <1>14 DEF LeaseStep

LEMMA NextTypes == TypeOK /\ [Next]_vars => TypeOK'
<1> SUFFICES ASSUME TypeOK, [Next]_vars PROVE TypeOK'
  OBVIOUS
<1>1. CASE Tick
  <2>1. clock' \in 1..MaxTime
    BY <1>1, FenceConstants DEF Tick, TypeOK
  <2> QED
    BY <1>1, <2>1 DEF Tick, TypeOK, budget
<1>2. CASE \E l \in Leases : LeaseStep(l)
  BY <1>2, StepTypes
<1>3. CASE UNCHANGED vars
  BY <1>3 DEF vars, TypeOK
<1> QED
  BY <1>1, <1>2, <1>3 DEF Next

\* The variables of the fence keep their types.
THEOREM FenceTypeCorrect == Spec => []TypeOK
BY InitTypes, NextTypes, PTL DEF Spec

-----------------------------------------------------------------------------
(* The invariant                                                            *)

\* A record was written in the past with the cadence its holder advertised then.
SoundAt(r, now, cadence) ==
    r # NoRecord =>
        /\ r.renewedAt <= now /\ r.expiresAt = r.renewedAt + Ttl
        /\ r.heartbeat <= cadence[r.lease]
        /\ r.heartbeat = 0 <=> cadence[r.lease] = 0

\* What a lease has read was there at the time of the answer.
ReadSound(l) ==
    /\ call[l].at <= clock
    /\ SoundAt(call[l].rec, clock, adv)
    /\ call[l].rec # NoRecord => call[l].rec.renewedAt <= call[l].at

\* What it is about to replace had lapsed, or is its own.
Replaceable(l) ==
    IF call[l].op = "acquire"
      THEN call[l].rec = NoRecord \/ Lapsed(call[l].rec, call[l].at)
      ELSE Mine(l)
WriteSound(l) == pc[l] = "writing" => Replaceable(l)

\* Its own record is still there as long as it is safe.
ReadFresh(l) ==
    (pc[l] \in {"answered", "verified"} /\ Mine(l) /\ clock < SafeUntil(call[l].rec))
        => fence = call[l].rec

\* While a mutation is awaited only a heartbeat may be under way.
Requesting == {"reading", "answered", "writing", "verifying", "verified"}
Waits(l) ==
    awaiting[l] => pc[l] = "held" \/ (pc[l] \in Requesting /\ call[l].op = "renew")


\* A mutation in flight ends before its lease can be reclaimed.
Covered(l) ==
    until[l] > 0 =>
        /\ awaiting[l] \/ pc[l] = "dead"
        /\ fence # NoRecord /\ fence.lease = l
        /\ clock <= until[l] /\ until[l] < SafeUntil(fence)

LeaseInvariant(l) ==
    ReadSound(l) /\ WriteSound(l) /\ ReadFresh(l) /\ Waits(l) /\ (Undisturbed => Covered(l))
FenceInvariant ==
    TypeOK /\ SoundAt(fence, clock, adv) /\ \A l \in Leases : LeaseInvariant(l)

-----------------------------------------------------------------------------
(* What a step of a lease changes                                           *)

LEMMA SoundKept ==
    ASSUME NEW r \in Record \cup {NoRecord}, NEW t \in Nat, NEW u \in Nat, t <= u,
           NEW a \in [Leases -> Nat], NEW b \in [Leases -> Nat],
           \A l \in Leases : a[l] <= b[l] /\ (a[l] = 0 <=> b[l] = 0),
           SoundAt(r, t, a)
    PROVE  SoundAt(r, u, b)
<1> SUFFICES ASSUME r # NoRecord
             PROVE  /\ r.renewedAt <= u /\ r.expiresAt = r.renewedAt + Ttl
                    /\ r.heartbeat <= b[r.lease] /\ (r.heartbeat = 0 <=> b[r.lease] = 0)
  BY DEF SoundAt
<1>1. r \in Record /\ r.lease \in Leases /\ r.heartbeat \in Nat /\ r.renewedAt \in Nat
  BY FenceConstants DEF Record, Times
<1> QED
  BY <1>1 DEF SoundAt

LEMMA OthersUntouched ==
    ASSUME TypeOK, NEW l \in Leases, LeaseStep(l), NEW e \in Leases, e # l
    PROVE  /\ pc'[e] = pc[e] /\ call'[e] = call[e] /\ adv'[e] = adv[e]
           /\ until'[e] = until[e] /\ awaiting'[e] = awaiting[e]
<1> USE DEF TypeOK
<1>a. \A step : Goto(l, step) => pc'[e] = pc[e]
  BY DEF Goto
<1>b. \A step : End(l, step) => pc'[e] = pc[e] /\ call'[e] = call[e]
  BY <1>a DEF End
<1>c. \A o, h : Begin(l, o, h) => pc'[e] = pc[e] /\ call'[e] = call[e]
  BY <1>a DEF Begin
<1>d. FailOp(l) => pc'[e] = pc[e] /\ call'[e] = call[e]
  BY <1>b DEF FailOp
<1>e. Mutate(l) => /\ pc'[e] = pc[e] /\ call'[e] = call[e]
                   /\ until'[e] = until[e] /\ awaiting'[e] = awaiting[e]
  BY <1>b DEF Mutate
<1>1. CASE Acquire(l) \/ Renew(l) \/ Release(l) \/ \E h \in Horizons : AssertHeld(l, h)
  <2>1. PICK o, h : o \in Operations /\ Begin(l, o, h)
    BY <1>1 DEF Acquire, Renew, Release, AssertHeld, Operations
  <2> QED
    BY <2>1, <1>c DEF Begin
<1>2. CASE Read(l)
  BY <1>2, <1>a DEF Read
<1>3. CASE AcquireAnswered(l) \/ ReleaseAnswered(l) \/ AcquireVerified(l)
  BY <1>3, <1>a, <1>b DEF AcquireAnswered, ReleaseAnswered, AcquireVerified
<1>4. CASE AssertAnswered(l)
  BY <1>4, <1>a, <1>d, <1>e DEF AssertAnswered
<1>5. CASE RenewAnswered(l)
  BY <1>5, <1>a, <1>d DEF RenewAnswered
<1>6. CASE Write(l)
  <2>1. (\E step : End(l, step)) \/ (Goto(l, "verifying") /\ call'[e] = call[e])
    BY <1>6 DEF Write
  <2> QED
    BY <1>6, <2>1, <1>a, <1>b DEF Write
<1>7. CASE WriteConflicts(l)
  BY <1>7, <1>a, <1>b, <1>d DEF WriteConflicts
<1>8. CASE RenewVerified(l)
  BY <1>8, <1>b, <1>d, <1>e DEF RenewVerified
<1>9. CASE RequestFails(l)
  BY <1>9, <1>d DEF RequestFails
<1>10. CASE Land(l) \/ Abort(l) \/ Pause(l) \/ Crash(l)
  BY <1>10, <1>b DEF Land, Abort, Pause, Crash
<1> QED
  BY <1>1, <1>2, <1>3, <1>4, <1>5, <1>6, <1>7, <1>8, <1>9, <1>10 DEF LeaseStep

\* The four ways an operation of a lease moves on.
LEMMA CallChanges ==
    ASSUME TypeOK, NEW l \in Leases, LeaseStep(l)
    PROVE  \/ pc'[l] = pc[l] /\ call'[l] = call[l] /\ fence' = fence
           \/ /\ pc'[l] \notin {"answered", "writing", "verified"}
              /\ call'[l].rec = NoRecord /\ call'[l].at = 0
           \/ /\ pc'[l] \in {"answered", "verified"}
              /\ call'[l].rec = fence /\ call'[l].at = clock /\ fence' = fence
           \/ /\ pc'[l] = "writing" /\ call'[l] = call[l] /\ fence' = fence
              /\ Replaceable(l)
<1> DEFINE away == /\ pc'[l] \notin {"answered", "writing", "verified"}
                   /\ call'[l].rec = NoRecord /\ call'[l].at = 0
<1>a. \A step : Goto(l, step) => pc'[l] = step
  BY DEF Goto, TypeOK
<1>b. \A c : call' = [call EXCEPT ![l] = c] => call'[l] = c
  BY DEF TypeOK
<1>c. \A step \in {"start", "held", "done", "dead"} : End(l, step) => away
  BY <1>a, <1>b, CallTypes DEF End
<1>d. ASSUME NEW o, NEW h, Begin(l, o, h) PROVE away
  <2>1. pc'[l] = "reading"
    BY <1>d, <1>a DEF Begin
  <2>2. call'[l] = Calling(o, h)
    BY <1>d, <1>b DEF Begin
  <2>3. Calling(o, h).rec = NoRecord /\ Calling(o, h).at = 0
    BY DEF Calling
  <2> QED
    BY <2>1, <2>2, <2>3
<1>e. FailOp(l) => away
  <2> SUFFICES ASSUME FailOp(l) PROVE away
    OBVIOUS
  <2>1. \E step \in {"start", "held", "done", "dead"} : End(l, step)
    BY DEF FailOp
  <2> QED
    BY <2>1, <1>c
<1>f. Mutate(l) => away
  BY <1>c DEF Mutate
<1> HIDE DEF away
<1>1. CASE Acquire(l) \/ Renew(l) \/ Release(l) \/ \E h \in Horizons : AssertHeld(l, h)
  <2>1. PICK o, h : Begin(l, o, h)
    BY <1>1 DEF Acquire, Renew, Release, AssertHeld
  <2> QED
    BY <2>1, <1>d DEF away
<1>2. CASE Read(l)
  <2>1. call[l] \in Calls
    BY CallParts
  <2>2. call'[l] = [call[l] EXCEPT !.rec = fence, !.at = clock]
    BY <1>2, <1>b DEF Read
  <2>3. call'[l].rec = fence /\ call'[l].at = clock
    BY <2>1, <2>2 DEF Calls
  <2>4. pc'[l] \in {"answered", "verified"} /\ fence' = fence
    BY <1>2, <1>a DEF Read
  <2> QED
    BY <2>3, <2>4
<1>3. CASE AcquireAnswered(l)
  <2>1. \/ End(l, "start")
        \/ Goto(l, "writing") /\ UNCHANGED <<call, fence>> /\ Replaceable(l)
    BY <1>3 DEF AcquireAnswered, Replaceable
  <2> QED
    BY <2>1, <1>a, <1>c DEF away
<1>4. CASE ReleaseAnswered(l)
  <2>1. End(l, "done") \/ (Goto(l, "writing") /\ UNCHANGED <<call, fence>> /\ Replaceable(l))
    BY <1>4 DEF ReleaseAnswered, Replaceable
  <2> QED
    BY <2>1, <1>a, <1>c DEF away
<1>5. CASE AcquireVerified(l)
  <2>1. End(l, "held") \/ End(l, "dead")
    BY <1>5 DEF AcquireVerified
  <2> QED
    BY <2>1, <1>c DEF away
<1>6. CASE AssertAnswered(l)
  <2>1. \/ FailOp(l) \/ Mutate(l)
        \/ Goto(l, "reading") /\ call' = [call EXCEPT ![l] = Calling("extend", @.need)]
    BY <1>6 DEF AssertAnswered
  <2>2. CASE Goto(l, "reading") /\ call' = [call EXCEPT ![l] = Calling("extend", @.need)]
    <3>1. pc'[l] = "reading" /\ call'[l] = Calling("extend", call[l].need)
      BY <2>2, <1>a DEF TypeOK
    <3> QED
      BY <3>1, CallTypes DEF away
  <2> QED
    BY <2>1, <2>2, <1>e, <1>f DEF away
<1>7. CASE RenewAnswered(l)
  <2>1. FailOp(l) \/ (Goto(l, "writing") /\ UNCHANGED <<call, fence>> /\ Replaceable(l))
    BY <1>7 DEF RenewAnswered, Replaceable, Owned
  <2> QED
    BY <2>1, <1>a, <1>e DEF away
<1>8. CASE Write(l)
  <2>1. CASE call[l].op = "release"
    BY <1>8, <2>1, <1>c DEF Write, away
  <2>2. CASE call[l].op # "release"
    <3>1. /\ pc'[l] = "verifying"
          /\ call'[l] = [Calling(call[l].op, call[l].need) EXCEPT !.expiry = Fresh(l).expiresAt]
      BY <1>8, <2>2, <1>a DEF Write, TypeOK
    <3>2. call'[l].rec = NoRecord /\ call'[l].at = 0
      BY <3>1 DEF Calling
    <3> QED
      BY <3>1, <3>2
  <2> QED
    BY <2>1, <2>2
<1>9. CASE WriteConflicts(l)
  <2>1. \/ FailOp(l) \/ End(l, "start")
        \/ Goto(l, "reading") /\ call' = [call EXCEPT ![l] = Calling("acquire", 0)]
    BY <1>9 DEF WriteConflicts
  <2>2. CASE Goto(l, "reading") /\ call' = [call EXCEPT ![l] = Calling("acquire", 0)]
    <3>1. pc'[l] = "reading" /\ call'[l] = Calling("acquire", 0)
      BY <2>2, <1>a, <1>b
    <3> QED
      BY <3>1, CallTypes DEF away
  <2> QED
    BY <2>1, <2>2, <1>c, <1>e DEF away
<1>10. CASE RenewVerified(l)
  <2>1. FailOp(l) \/ Mutate(l) \/ End(l, "held")
    BY <1>10 DEF RenewVerified
  <2> QED
    BY <2>1, <1>c, <1>e, <1>f DEF away
<1>11. CASE RequestFails(l)
  BY <1>11, <1>e DEF RequestFails, away
<1>12. CASE Land(l) \/ Abort(l) \/ Pause(l)
  BY <1>12 DEF Land, Abort, Pause
<1>13. CASE Crash(l)
  BY <1>13, <1>c DEF Crash, away
<1> QED
  BY <1>1, <1>2, <1>3, <1>4, <1>5, <1>6, <1>7, <1>8, <1>9, <1>10, <1>11, <1>12, <1>13
     DEF LeaseStep

\* Only a conditional request changes the fence file, and then nothing else that a
\* mutation depends on.
LEMMA FenceChanges ==
    ASSUME TypeOK, NEW l \in Leases, LeaseStep(l)
    PROVE  /\ clock' = clock
           /\ \/ fence' = fence
              \/ /\ pc[l] = "writing" /\ Matches(l)
                 /\ fence' = IF call[l].op = "release" THEN NoRecord ELSE Fresh(l)
                 /\ UNCHANGED <<adv, awaiting, until, aborts, pauses>>
<1>1. CASE Write(l) \/ RequestFails(l)
  BY <1>1 DEF Write, RequestFails, Take, budget
<1>2. CASE Acquire(l) \/ Renew(l) \/ Release(l) \/ \E h \in Horizons : AssertHeld(l, h)
  BY <1>2 DEF Acquire, Renew, Release, AssertHeld, Begin
<1>3. CASE Read(l) \/ AcquireAnswered(l) \/ AssertAnswered(l) \/ RenewAnswered(l)
           \/ ReleaseAnswered(l) \/ WriteConflicts(l) \/ AcquireVerified(l)
  BY <1>3 DEF Read, AcquireAnswered, AssertAnswered, RenewAnswered, ReleaseAnswered,
              WriteConflicts, AcquireVerified
<1>4. CASE RenewVerified(l) \/ Land(l) \/ Abort(l) \/ Pause(l) \/ Crash(l)
  BY <1>4 DEF RenewVerified, Land, Abort, Pause, Crash
<1> QED
  BY <1>1, <1>2, <1>3, <1>4 DEF LeaseStep

\* The advertised cadence only widens.
LEMMA CadenceWidens ==
    ASSUME TypeOK, NEW l \in Leases, LeaseStep(l)
    PROVE  \A e \in Leases : adv[e] <= adv'[e] /\ (adv[e] = 0 <=> adv'[e] = 0)
<1>1. CASE AssertAnswered(l)
  <2>1. \A e \in Leases : adv[e] \in Nat
    BY DEF TypeOK
  <2>2. RoundedUp(call[l].need) \in Nat
    BY CallParts, FenceConstants DEF RoundedUp
  <2>3. \/ adv' = adv
        \/ adv' = [adv EXCEPT ![l] = IF @ > 0 THEN Longer(@, RoundedUp(call[l].need)) ELSE @]
    BY <1>1 DEF AssertAnswered
  <2> QED
    BY <2>1, <2>2, <2>3 DEF Longer, TypeOK
<1>2. adv' = adv \/ AssertAnswered(l)
  <2>1. CASE Acquire(l) \/ Renew(l) \/ Release(l) \/ \E h \in Horizons : AssertHeld(l, h)
    BY <2>1 DEF Acquire, Renew, Release, AssertHeld, Begin
  <2>2. CASE Read(l) \/ AcquireAnswered(l) \/ RenewAnswered(l) \/ ReleaseAnswered(l)
             \/ Write(l) \/ WriteConflicts(l) \/ AcquireVerified(l) \/ RenewVerified(l)
    BY <2>2 DEF Read, AcquireAnswered, RenewAnswered, ReleaseAnswered, Write,
                WriteConflicts, AcquireVerified, RenewVerified
  <2>3. CASE RequestFails(l) \/ Land(l) \/ Abort(l) \/ Pause(l) \/ Crash(l)
    BY <2>3 DEF RequestFails, Land, Abort, Pause, Crash
  <2> QED
    BY <2>1, <2>2, <2>3 DEF LeaseStep
<1>3. \A e \in Leases : adv[e] \in Nat
  BY DEF TypeOK
<1> QED
  BY <1>1, <1>2, <1>3

\* A mutation begins when its lease is its own and safe for longer than it may take.
LEMMA UntilChanges ==
    ASSUME TypeOK, NEW l \in Leases, LeaseStep(l)
    PROVE  \/ until'[l] = 0
           \/ until'[l] = until[l] /\ awaiting'[l] = awaiting[l]
              /\ (pc[l] = "dead" => pc'[l] = "dead")
           \/ /\ awaiting'[l] /\ until'[l] = clock + call[l].need /\ fence' = fence
              /\ pc[l] \in {"answered", "verified"} /\ Mine(l)
              /\ SafeUntil(call[l].rec) - clock > call[l].need
           \/ until'[l] = until[l] /\ pc'[l] = "dead"
           \/ aborts' > 0 \/ pauses' > 0
<1> DEFINE starts == /\ awaiting'[l] /\ until'[l] = clock + call[l].need /\ fence' = fence
                     /\ pc[l] \in {"answered", "verified"} /\ Mine(l)
                     /\ SafeUntil(call[l].rec) - clock > call[l].need
           keeps == until'[l] = until[l] /\ awaiting'[l] = awaiting[l]
                    /\ (pc[l] = "dead" => pc'[l] = "dead")
<1>a. Mutate(l) => until'[l] = clock + call[l].need /\ awaiting'[l]
  BY DEF Mutate, TypeOK
<1>1. CASE Land(l)
  BY <1>1 DEF Land, TypeOK
<1>2. CASE Crash(l)
  BY <1>2 DEF Crash, End, Goto, TypeOK
<1>3. CASE Abort(l)
  BY <1>3 DEF Abort, TypeOK
<1>4. CASE Pause(l)
  BY <1>4 DEF Pause, TypeOK
<1>5. CASE AssertAnswered(l)
  <2>1. \/ Mutate(l) /\ Owned(l) /\ SafeUntil(call[l].rec) - clock > call[l].need
        \/ UNCHANGED <<until, awaiting>>
    BY <1>5 DEF AssertAnswered
  <2>2. pc[l] = "answered" /\ fence' = fence
    BY <1>5 DEF AssertAnswered
  <2> HIDE DEF Mutate
  <2>3. starts \/ keeps
    BY <2>1, <2>2, <1>a DEF Owned
  <2> QED
    BY <2>3
<1>6. CASE RenewVerified(l)
  <2>1. \/ Mutate(l) /\ Unreplaced(l) /\ SafeUntil(call[l].rec) - clock > call[l].need
        \/ UNCHANGED <<until, awaiting>>
    BY <1>6 DEF RenewVerified
  <2>2. pc[l] = "verified" /\ fence' = fence
    BY <1>6 DEF RenewVerified
  <2> HIDE DEF Mutate
  <2>3. starts \/ keeps
    BY <2>1, <2>2, <1>a DEF Unreplaced
  <2> QED
    BY <2>3
<1>7. CASE Acquire(l) \/ Renew(l) \/ Release(l) \/ \E h \in Horizons : AssertHeld(l, h)
  <2>1. keeps
    BY <1>7 DEF Acquire, Renew, Release, AssertHeld, Begin
  <2> QED
    BY <2>1
<1>8. CASE Read(l) \/ AcquireAnswered(l) \/ RenewAnswered(l) \/ ReleaseAnswered(l)
           \/ Write(l) \/ WriteConflicts(l) \/ AcquireVerified(l) \/ RequestFails(l)
  <2>1. keeps
    BY <1>8 DEF Read, AcquireAnswered, RenewAnswered, ReleaseAnswered, Write,
                WriteConflicts, AcquireVerified, RequestFails
  <2> QED
    BY <2>1
<1> QED
  BY <1>1, <1>2, <1>3, <1>4, <1>5, <1>6, <1>7, <1>8 DEF LeaseStep

\* What a lease replaces in the fence file: a lapsed record or its own.
LEMMA WriterIsEntitled ==
    ASSUME TypeOK, NEW l \in Leases, pc[l] = "writing", Matches(l), LeaseInvariant(l),
           fence # NoRecord
    PROVE  /\ fence \in Record
           /\ fence.lease = l \/ (call[l].op = "acquire" /\ Lapsed(fence, clock)
                                  /\ SafeUntil(fence) <= clock)
           /\ fence.lease = l \/ call[l].op # "release"
<1>1. fence \in Record /\ call[l].rec = fence /\ call[l].at \in Nat /\ clock \in Nat
  BY CallParts, FenceConstants DEF TypeOK, Matches
<1>2. call[l].at <= clock /\ Replaceable(l)
  BY DEF LeaseInvariant, ReadSound, WriteSound
<1>3. CASE call[l].op = "acquire"
  <2>1. Lapsed(fence, call[l].at)
    BY <1>1, <1>2, <1>3 DEF Replaceable
  <2>2. SafeUntil(fence) <= call[l].at /\ Lapsed(fence, clock) /\ SafeUntil(fence) \in Nat
    BY <2>1, <1>1, <1>2, LapsedIsUnsafe, SilenceNat
  <2> QED
    BY <1>1, <1>2, <1>3, <2>2
<1>4. CASE call[l].op # "acquire"
  BY <1>1, <1>2, <1>4 DEF Replaceable, Mine
<1> QED
  BY <1>3, <1>4

-----------------------------------------------------------------------------
(* Every step keeps the invariant                                           *)

LEMMA WaitsKept ==
    ASSUME TypeOK, NEW l \in Leases, LeaseStep(l), Waits(l)
    PROVE  Waits(l)'
<1> USE DEF Requesting
<1>a. \A step : Goto(l, step) => pc'[l] = step
  BY DEF Goto, TypeOK
<1>b. \A step : End(l, step) => pc'[l] = step
  BY <1>a DEF End
<1>c. ASSUME FailOp(l), awaiting' = awaiting, pc[l] # "held"
      PROVE  Waits(l)'
  <2> SUFFICES ASSUME awaiting[l] PROVE pc'[l] = "held"
    BY <1>c DEF Waits
  <2>1. call[l].op = "renew"
    BY <1>c DEF Waits
  <2>2. End(l, "held")
    BY <1>c, <2>1 DEF FailOp
  <2> QED
    BY <2>2, <1>b
<1>d. ASSUME ~awaiting[l], awaiting' = awaiting PROVE Waits(l)'
  BY <1>d DEF Waits
<1>e. ASSUME Mutate(l) \/ End(l, "held") PROVE Waits(l)'
  BY <1>e, <1>b DEF Waits, Mutate
<1>1. CASE Acquire(l) \/ Release(l) \/ \E h \in Horizons : AssertHeld(l, h)
  BY <1>1, <1>d DEF Acquire, Release, AssertHeld, Begin, Waits
<1>2. CASE Renew(l)
  <2>1. pc'[l] = "reading" /\ call'[l] = Calling("renew", 0)
    BY <1>2, <1>a DEF Renew, Begin, TypeOK
  <2> QED
    BY <2>1, CallTypes DEF Waits
<1>3. CASE Read(l)
  <2>1. call[l] \in Calls /\ call'[l] = [call[l] EXCEPT !.rec = fence, !.at = clock]
    BY <1>3, CallParts DEF Read, TypeOK
  <2>2. call'[l].op = call[l].op
    BY <2>1 DEF Calls
  <2>3. pc[l] # "held" /\ pc'[l] \in Requesting /\ awaiting' = awaiting
    BY <1>3, <1>a DEF Read
  <2> QED
    BY <2>2, <2>3 DEF Waits
<1>4. CASE AcquireAnswered(l) \/ AcquireVerified(l) \/ ReleaseAnswered(l)
  BY <1>4, <1>d DEF AcquireAnswered, AcquireVerified, ReleaseAnswered, Waits
<1>5. CASE AssertAnswered(l)
  <2>1. Mutate(l) \/ awaiting' = awaiting
    BY <1>5 DEF AssertAnswered
  <2>2. ~awaiting[l]
    BY <1>5 DEF AssertAnswered, Waits
  <2> QED
    BY <2>1, <2>2, <1>d, <1>e
<1>6. CASE RenewAnswered(l)
  <2>1. FailOp(l) \/ (Goto(l, "writing") /\ call' = call)
    BY <1>6 DEF RenewAnswered
  <2>2. pc[l] = "answered" /\ awaiting' = awaiting
    BY <1>6 DEF RenewAnswered
  <2> QED
    BY <2>1, <2>2, <1>a, <1>c DEF Waits
<1>7. CASE Write(l)
  <2>1. pc[l] = "writing" /\ awaiting' = awaiting
    BY <1>7 DEF Write
  <2>2. CASE call[l].op = "release"
    BY <2>1, <2>2, <1>d DEF Waits
  <2>3. CASE call[l].op # "release"
    <3>1. /\ pc'[l] = "verifying"
          /\ call'[l] = [Calling(call[l].op, call[l].need) EXCEPT !.expiry = Fresh(l).expiresAt]
      BY <1>7, <2>3, <1>a DEF Write, TypeOK
    <3>2. call'[l].op = call[l].op
      BY <3>1 DEF Calling
    <3> QED
      BY <2>1, <3>1, <3>2 DEF Waits
  <2> QED
    BY <2>2, <2>3
<1>8. CASE WriteConflicts(l)
  <2>1. pc[l] = "writing" /\ awaiting' = awaiting
    BY <1>8 DEF WriteConflicts
  <2>2. call[l].op = "acquire" \/ FailOp(l)
    BY <1>8 DEF WriteConflicts
  <2>3. call[l].op = "acquire" => ~awaiting[l]
    BY <2>1 DEF Waits
  <2> QED
    BY <2>1, <2>2, <2>3, <1>c, <1>d
<1>9. CASE RenewVerified(l)
  <2>1. pc[l] = "verified"
    BY <1>9 DEF RenewVerified
  <2>2. (FailOp(l) /\ awaiting' = awaiting) \/ Mutate(l) \/ End(l, "held")
    BY <1>9 DEF RenewVerified
  <2> QED
    BY <2>1, <2>2, <1>c, <1>e
<1>10. CASE RequestFails(l)
  BY <1>10, <1>c DEF RequestFails
<1>11. CASE Land(l) \/ Abort(l) \/ Crash(l)
  BY <1>11 DEF Land, Abort, Crash, Waits, TypeOK
<1>12. CASE Pause(l)
  BY <1>12 DEF Pause, Waits
<1> QED
  BY <1>1, <1>2, <1>3, <1>4, <1>5, <1>6, <1>7, <1>8, <1>9, <1>10, <1>11, <1>12 DEF LeaseStep

\* What is known of the records read and written.
LEMMA SoundnessKept ==
    ASSUME FenceInvariant, NEW l \in Leases, LeaseStep(l), TypeOK'
    PROVE  SoundAt(fence, clock, adv)' /\ \A e \in Leases : ReadSound(e)'
<1> USE DEF FenceInvariant
<1>1. /\ clock \in Nat /\ clock' = clock /\ clock <= clock
      /\ adv \in [Leases -> Nat] /\ adv' \in [Leases -> Nat]
      /\ \A e \in Leases : adv[e] <= adv'[e] /\ (adv[e] = 0 <=> adv'[e] = 0)
  BY FenceChanges, CadenceWidens, CallParts DEF TypeOK
<1>2. fence \in Record \cup {NoRecord} /\ SoundAt(fence, clock, adv)
  BY DEF TypeOK
<1>3. SoundAt(fence, clock, adv')
  BY <1>1, <1>2, SoundKept
<1>4. ASSUME fence' = fence PROVE SoundAt(fence, clock, adv)'
  BY <1>1, <1>3, <1>4 DEF SoundAt
<1>5. ASSUME fence' = NoRecord PROVE SoundAt(fence, clock, adv)'
  BY <1>5 DEF SoundAt
<1>6. ASSUME fence' = Fresh(l), adv' = adv PROVE SoundAt(fence, clock, adv)'
  <2>1. /\ Fresh(l).renewedAt = call[l].at /\ Fresh(l).heartbeat = adv[l]
        /\ Fresh(l).expiresAt = Fresh(l).renewedAt + Ttl /\ Fresh(l).lease = l
    BY FreshTypes
  <2>2. call[l].at <= clock /\ adv[l] \in Nat
    BY DEF LeaseInvariant, ReadSound, TypeOK
  <2>3. SoundAt(Fresh(l), clock, adv)
    BY <2>1, <2>2 DEF SoundAt
  <2> QED
    BY <1>1, <1>6, <2>3 DEF SoundAt
<1>7. SoundAt(fence, clock, adv)'
  BY <1>4, <1>5, <1>6, FenceChanges
<1>8. ASSUME NEW e \in Leases PROVE ReadSound(e)'
  <2>1. call[e].rec \in Record \cup {NoRecord} /\ ReadSound(e) /\ call[e].at \in Nat
    BY CallParts, FenceConstants DEF LeaseInvariant
  <2>2. SoundAt(call[e].rec, clock, adv')
    BY <1>1, <2>1, SoundKept DEF ReadSound
  <2>3. CASE call'[e] = call[e]
    BY <1>1, <2>1, <2>2, <2>3 DEF ReadSound, SoundAt
  <2>4. CASE call'[e].rec = NoRecord /\ call'[e].at = 0
    BY <1>1, <2>4 DEF ReadSound, SoundAt
  <2>5. CASE call'[e].rec = fence /\ call'[e].at = clock
    <3>1. fence # NoRecord => fence.renewedAt <= clock
      BY <1>2 DEF SoundAt
    <3> QED
      BY <1>1, <1>3, <2>5, <3>1 DEF ReadSound
  <2> QED
    BY <2>3, <2>4, <2>5, CallChanges, OthersUntouched
<1> QED
  BY <1>7, <1>8

\* A lease whose record is safe still has it in the fence file.
LEMMA FreshnessKept ==
    ASSUME FenceInvariant, NEW l \in Leases, LeaseStep(l), NEW e \in Leases
    PROVE  WriteSound(e)' /\ ReadFresh(e)'
<1> USE DEF FenceInvariant
<1>1. clock' = clock /\ LeaseInvariant(l) /\ LeaseInvariant(e) /\ clock \in Nat
  BY FenceChanges, CallParts
<1>2. CASE e = l
  <2>1. CASE pc'[l] = pc[l] /\ call'[l] = call[l] /\ fence' = fence
    BY <1>1, <1>2, <2>1 DEF LeaseInvariant, WriteSound, ReadFresh, Replaceable, Mine
  <2>2. CASE pc'[l] \notin {"answered", "writing", "verified"}
    BY <1>2, <2>2 DEF WriteSound, ReadFresh
  <2>3. CASE pc'[l] \in {"answered", "verified"} /\ call'[l].rec = fence /\ fence' = fence
    BY <1>2, <2>3 DEF WriteSound, ReadFresh
  <2>4. CASE pc'[l] = "writing" /\ call'[l] = call[l] /\ Replaceable(l)
    BY <1>2, <2>4 DEF WriteSound, ReadFresh, Replaceable, Mine
  <2> QED
    BY <2>1, <2>2, <2>3, <2>4, CallChanges
<1>3. CASE e # l
  <2>1. pc'[e] = pc[e] /\ call'[e] = call[e]
    BY <1>3, OthersUntouched
  <2>2. WriteSound(e)'
    BY <1>1, <2>1 DEF LeaseInvariant, WriteSound, Replaceable, Mine
  <2>3. ReadFresh(e) => (fence' = fence => ReadFresh(e)')
    BY <1>1, <2>1 DEF ReadFresh, Mine
  <2>4. ASSUME pc[l] = "writing", Matches(l), pc[e] \in {"answered", "verified"}, Mine(e),
               clock < SafeUntil(call[e].rec)
        PROVE  FALSE
    <3>1. fence = call[e].rec /\ fence # NoRecord /\ fence.lease = e
      BY <1>1, <2>4 DEF LeaseInvariant, ReadFresh, Mine
    <3>2. fence \in Record /\ SafeUntil(fence) <= clock
      BY <1>1, <1>3, <2>4, <3>1, WriterIsEntitled
    <3>3. SafeUntil(fence) \in Nat
      BY <3>2, SilenceNat
    <3> QED
      BY <1>1, <2>4, <3>1, <3>2, <3>3
  <2>5. fence' # fence => ReadFresh(e)'
    BY <1>1, <2>1, <2>4, FenceChanges DEF ReadFresh, Mine
  <2> QED
    BY <1>1, <2>2, <2>3, <2>5 DEF LeaseInvariant
<1> QED
  BY <1>2, <1>3

\* A mutation in flight stays covered, whoever takes the step.
LEMMA CoverageKept ==
    ASSUME FenceInvariant, NEW l \in Leases, LeaseStep(l), NEW e \in Leases,
           Undisturbed', TypeOK'
    PROVE  Covered(e)'
<1> USE DEF FenceInvariant
<1>1. /\ clock' = clock /\ LeaseInvariant(l) /\ LeaseInvariant(e)
      /\ clock \in Nat /\ until[e] \in Nat /\ until'[e] \in Nat /\ call[l].need \in Nat
      /\ fence \in Record \cup {NoRecord}
  BY FenceChanges, CallParts, FenceConstants DEF TypeOK, Times
<1>2. Undisturbed
  <2>1. aborts \in Nat /\ pauses \in Nat /\ aborts <= aborts' /\ pauses <= pauses'
    <3>1. CASE UNCHANGED <<aborts, pauses>>
      BY <3>1 DEF TypeOK
    <3>2. CASE Abort(l) \/ Pause(l)
      BY <3>2 DEF Abort, Pause, TypeOK
    <3>3. UNCHANGED <<aborts, pauses>> \/ Abort(l) \/ Pause(l)
      <4>1. CASE Acquire(l) \/ Renew(l) \/ Release(l) \/ \E h \in Horizons : AssertHeld(l, h)
        BY <4>1 DEF Acquire, Renew, Release, AssertHeld, Begin, budget
      <4>2. CASE Read(l) \/ AcquireAnswered(l) \/ RenewAnswered(l) \/ ReleaseAnswered(l)
                 \/ Write(l) \/ WriteConflicts(l) \/ AcquireVerified(l)
        BY <4>2 DEF Read, AcquireAnswered, RenewAnswered, ReleaseAnswered, Write,
                    WriteConflicts, AcquireVerified, budget
      <4>3. CASE RenewVerified(l) \/ AssertAnswered(l) \/ RequestFails(l) \/ Land(l)
                 \/ Crash(l)
        BY <4>3 DEF RenewVerified, AssertAnswered, RequestFails, Land, Crash, budget
      <4> QED
        BY <4>1, <4>2, <4>3 DEF LeaseStep
    <3> QED
      BY <3>1, <3>2, <3>3
  <2> QED
    BY <2>1 DEF Undisturbed
<1>3. Covered(e) /\ Waits(e)
  BY <1>1, <1>2 DEF LeaseInvariant
<1>4. fence # NoRecord => SafeUntil(fence) \in Nat
  BY <1>1, SilenceNat
<1>5. CASE fence' = fence
  <2>1. CASE e # l
    <3>1. pc'[e] = pc[e] /\ until'[e] = until[e] /\ awaiting'[e] = awaiting[e]
      BY <2>1, OthersUntouched
    <3> QED
      BY <1>1, <1>3, <1>5, <3>1 DEF Covered
  <2>2. CASE e = l
    <3>1. CASE until'[l] = 0
      BY <2>2, <3>1 DEF Covered
    <3>2. CASE until'[l] = until[l] /\ awaiting'[l] = awaiting[l]
               /\ (pc[l] = "dead" => pc'[l] = "dead")
      BY <1>1, <1>3, <1>5, <2>2, <3>2 DEF Covered
    <3>3. CASE until'[l] = until[l] /\ pc'[l] = "dead"
      BY <1>1, <1>3, <1>5, <2>2, <3>3 DEF Covered
    <3>4. CASE /\ awaiting'[l] /\ until'[l] = clock + call[l].need
               /\ pc[l] \in {"answered", "verified"} /\ Mine(l)
               /\ SafeUntil(call[l].rec) - clock > call[l].need
      <4>1. call[l].rec \in Record
        BY <3>4, CallParts DEF Mine
      <4>2. SafeUntil(call[l].rec) \in Nat
        BY <4>1, SilenceNat
      <4>3. clock < SafeUntil(call[l].rec)
        BY <1>1, <3>4, <4>2
      <4>4. fence = call[l].rec /\ fence # NoRecord /\ fence.lease = l
        BY <1>1, <3>4, <4>3 DEF LeaseInvariant, ReadFresh, Mine
      <4>5. clock <= clock + call[l].need /\ clock + call[l].need < SafeUntil(fence)
        BY <1>1, <3>4, <4>2, <4>4
      <4> QED
        BY <1>1, <1>5, <2>2, <3>4, <4>4, <4>5 DEF Covered
    <3>5. CASE aborts' > 0 \/ pauses' > 0
      BY <3>5 DEF Undisturbed
    <3> QED
      BY <3>1, <3>2, <3>3, <3>4, <3>5, UntilChanges
  <2> QED
    BY <2>1, <2>2
<1>6. CASE fence' # fence
  <2>1. /\ pc[l] = "writing" /\ Matches(l) /\ adv' = adv /\ until' = until /\ awaiting' = awaiting
        /\ fence' = IF call[l].op = "release" THEN NoRecord ELSE Fresh(l)
    BY <1>6, FenceChanges
  <2> SUFFICES ASSUME until[e] > 0 PROVE Covered(e)'
    BY <2>1 DEF Covered
  <2>2. /\ awaiting[e] \/ pc[e] = "dead"
        /\ fence # NoRecord /\ fence.lease = e
        /\ clock <= until[e] /\ until[e] < SafeUntil(fence)
    BY <1>3 DEF Covered
  <2>3. e = l
    BY <1>1, <1>4, <2>1, <2>2, WriterIsEntitled
  <2>4. awaiting[l] /\ call[l].op = "renew"
    BY <1>3, <2>1, <2>2, <2>3 DEF Waits
  <2>5. fence' = Fresh(l)
    BY <2>1, <2>4
  <2>6. call[l].rec = fence
    BY <2>1 DEF Matches
  <2>7. SafeUntil(fence) <= SafeUntil(Fresh(l)) /\ SafeUntil(Fresh(l)) \in Nat
    <3>1. /\ fence.renewedAt <= call[l].at /\ fence.expiresAt = fence.renewedAt + Ttl
          /\ fence.heartbeat <= adv[l] /\ (fence.heartbeat = 0 <=> adv[l] = 0)
      BY <1>1, <2>2, <2>3, <2>6 DEF LeaseInvariant, ReadSound, SoundAt
    <3>2. fence \in Record /\ Fresh(l) \in Record
      BY <1>1, <2>2, FreshTypes
    <3> QED
      BY <3>1, <3>2, FreshTypes, RenewalExtends, SilenceNat
  <2> QED
    BY <1>1, <1>4, <2>1, <2>2, <2>3, <2>4, <2>5, <2>7, FreshTypes DEF Covered
<1> QED
  BY <1>5, <1>6

LEMMA LeaseStepKeeps ==
    ASSUME FenceInvariant, NEW l \in Leases, LeaseStep(l)
    PROVE  FenceInvariant'
<1>1. TypeOK'
  BY StepTypes DEF FenceInvariant
<1>2. SoundAt(fence, clock, adv)' /\ \A e \in Leases : ReadSound(e)'
  BY <1>1, SoundnessKept
<1>3. ASSUME NEW e \in Leases PROVE LeaseInvariant(e)'
  <2>1. WriteSound(e)' /\ ReadFresh(e)'
    BY FreshnessKept
  <2>2. Waits(e)'
    <3>1. Waits(e)
      BY DEF FenceInvariant, LeaseInvariant
    <3>2. CASE e = l
      BY <3>1, <3>2, WaitsKept DEF FenceInvariant
    <3>3. CASE e # l
      BY <3>1, <3>3, OthersUntouched DEF FenceInvariant, Waits
    <3> QED
      BY <3>2, <3>3
  <2>3. Undisturbed' => Covered(e)'
    BY <1>1, CoverageKept
  <2> QED
    BY <1>2, <2>1, <2>2, <2>3 DEF LeaseInvariant
<1> QED
  BY <1>1, <1>2, <1>3 DEF FenceInvariant

LEMMA TickKeeps ==
    ASSUME FenceInvariant, Tick
    PROVE  FenceInvariant'
<1> USE DEF FenceInvariant
<1>1. /\ clock \in Nat /\ clock' = clock + 1 /\ clock' \in Nat
      /\ adv \in [Leases -> Nat] /\ fence \in Record \cup {NoRecord}
      /\ UNCHANGED <<fence, pc, call, adv, lost, awaiting, until, aborts, pauses>>
  BY FenceConstants DEF Tick, TypeOK, budget
<1>2. TypeOK'
  BY NextTypes DEF Next
<1>3. SoundAt(fence, clock, adv)'
  BY <1>1, SoundKept
<1>4. ASSUME NEW e \in Leases PROVE LeaseInvariant(e)'
  <2>1. /\ LeaseInvariant(e) /\ call[e].at \in Nat /\ until[e] \in Nat
        /\ call[e].rec \in Record \cup {NoRecord}
    BY CallParts, FenceConstants DEF TypeOK, Times
  <2>2. SoundAt(call[e].rec, clock + 1, adv)
    BY <1>1, <2>1, SoundKept DEF LeaseInvariant, ReadSound
  <2>3. ReadSound(e)'
    BY <1>1, <2>1, <2>2 DEF LeaseInvariant, ReadSound
  <2>4. WriteSound(e)' /\ Waits(e)'
    BY <1>1, <2>1 DEF LeaseInvariant, WriteSound, Replaceable, Mine, Waits
  <2>5. ReadFresh(e)'
    <3>1. call[e].rec # NoRecord => SafeUntil(call[e].rec) \in Nat
      BY <2>1, SilenceNat
    <3> QED
      BY <1>1, <2>1, <3>1 DEF LeaseInvariant, ReadFresh, Mine
  <2>6. Undisturbed' => Covered(e)'
    <3>1. until[e] = 0 \/ clock < until[e]
      BY DEF Tick
    <3> QED
      BY <1>1, <2>1, <3>1 DEF LeaseInvariant, Covered, Undisturbed
  <2> QED
    BY <2>3, <2>4, <2>5, <2>6 DEF LeaseInvariant
<1> QED
  BY <1>2, <1>3, <1>4

LEMMA FenceInvariantHolds == Spec => []FenceInvariant
<1>1. Init => FenceInvariant
  <2> SUFFICES ASSUME Init PROVE FenceInvariant
    OBVIOUS
  <2>1. TypeOK
    BY InitTypes
  <2>2. SoundAt(fence, clock, adv)
    BY DEF Init, SoundAt
  <2>3. ASSUME NEW l \in Leases PROVE LeaseInvariant(l)
    <3>1. call[l].rec = NoRecord /\ call[l].at = 0 /\ clock = 1
      BY CallTypes DEF Init
    <3>2. ReadSound(l)
      BY <3>1 DEF ReadSound, SoundAt
    <3> QED
      BY <3>2 DEF Init, LeaseInvariant, WriteSound, ReadFresh, Waits, Covered
  <2> QED
    BY <2>1, <2>2, <2>3 DEF FenceInvariant
<1>2. FenceInvariant /\ [Next]_vars => FenceInvariant'
  <2> SUFFICES ASSUME FenceInvariant, [Next]_vars PROVE FenceInvariant'
    OBVIOUS
  <2>1. CASE Tick
    BY <2>1, TickKeeps
  <2>2. CASE \E l \in Leases : LeaseStep(l)
    BY <2>2, LeaseStepKeeps
  <2>3. CASE UNCHANGED vars
    BY <2>3 DEF vars, FenceInvariant, LeaseInvariant, TypeOK, SoundAt, ReadSound, WriteSound,
                Replaceable, Mine, ReadFresh, Waits, Undisturbed, Covered
  <2> QED
    BY <2>1, <2>2, <2>3 DEF Next
<1> QED
  BY <1>1, <1>2, PTL DEF Spec

\* As long as no client abandons a request of its own or is suspended before one,
\* what a client has in flight is under its own lease, for any number of clients and
\* any cadence, lease time and horizons.
THEOREM MutationsAreFenced == Spec => []UndisturbedFenced
<1>1. FenceInvariant => UndisturbedFenced
  BY DEF FenceInvariant, LeaseInvariant, Covered, MutationsFenced, UndisturbedFenced
<1> QED
  BY <1>1, FenceInvariantHolds, PTL

\* Only a lapsed record gives way to another client's, requests abandoned or not.
THEOREM ReclaimsOnlyLapsed == Spec => OnlyLapsedReclaimed
<1>1. FenceInvariant /\ [Next]_vars =>
        [(fence # NoRecord /\ fence' # NoRecord /\ fence'.lease # fence.lease)
            => Lapsed(fence, clock)]_vars
  <2> SUFFICES ASSUME FenceInvariant, Next, fence # NoRecord, fence' # NoRecord,
                      fence'.lease # fence.lease
               PROVE  Lapsed(fence, clock)
    OBVIOUS
  <2>1. PICK l \in Leases : LeaseStep(l)
    BY DEF Next, Tick
  <2>2. pc[l] = "writing" /\ Matches(l) /\ fence' = Fresh(l)
    BY <2>1, FenceChanges DEF FenceInvariant
  <2>3. fence'.lease = l
    BY <2>2, FreshTypes DEF FenceInvariant
  <2> QED
    BY <2>2, <2>3, WriterIsEntitled DEF FenceInvariant
<1> QED
  BY <1>1, FenceInvariantHolds, PTL DEF Spec, OnlyLapsedReclaimed

\* A release never takes away the record of another client.
THEOREM ReleasesOwnRecord == Spec => PeerSafeRelease
<1>1. FenceInvariant /\ [Next]_vars =>
        [(fence # NoRecord /\ fence' = NoRecord)
            => pc[fence.lease] = "writing" /\ call[fence.lease].op = "release"]_vars
  <2> SUFFICES ASSUME FenceInvariant, Next, fence # NoRecord, fence' = NoRecord
               PROVE  pc[fence.lease] = "writing" /\ call[fence.lease].op = "release"
    OBVIOUS
  <2>1. PICK l \in Leases : LeaseStep(l)
    BY DEF Next, Tick
  <2>2. Fresh(l) # NoRecord
    BY FreshTypes DEF FenceInvariant
  <2>3. pc[l] = "writing" /\ Matches(l) /\ call[l].op = "release"
    BY <2>1, <2>2, FenceChanges DEF FenceInvariant
  <2> QED
    BY <2>3, WriterIsEntitled DEF FenceInvariant
<1> QED
  BY <1>1, FenceInvariantHolds, PTL DEF Spec, PeerSafeRelease
=============================================================================
