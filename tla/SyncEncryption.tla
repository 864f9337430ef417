---------------------------- MODULE SyncEncryption ----------------------------
(***************************************************************************)
(* Turning sync encryption on, off, or to another passphrase.  The remote  *)
(* holds an attachment, sealed under its own name, and the document, which *)
(* goes by one name in plaintext and by another when sealed.  A transition *)
(* captures all of it, proves it can open every artifact, and rewrites one *)
(* artifact at a time, each request conditional on the version captured,   *)
(* before it commits the device's own key and state.  Ordinary sync cycles *)
(* of every device go on in between; a lease keeps one device at a time on *)
(* the remote, but a stalled holder may lose it with one request to go.    *)
(* RemoteFence models the lease itself.                                    *)
(***************************************************************************)
EXTENDS FiniteSets, Naturals

CONSTANTS
    Devices,
    Nobody,             \* no holder of the lease
    Passphrases,
    Salts,              \* random salts; one no longer used anywhere is fresh
    Worlds,             \* starting situations, see Init
    MaxEdits            \* bound on the edits of the document; a world bounds
                        \* the transitions users start, retries apart, the
                        \* crashes and failed requests, and the leases lost
                        \* by a stalled holder

Clear  == << "clear", 0 >>
Absent == << "absent", 0 >>
NoKey  == << "none", 0 >>

(* A key is derived from a passphrase and a salt, which the header of every *)
(* artifact sealed under it carries in the clear.                           *)
Key == Passphrases \X Salts
Salt(key) == key[2]

ASSUME EncryptionConstants ==
    /\ Nobody \notin Devices
    /\ {"clear", "absent", "none"} \cap Passphrases = {}
    /\ Salts \subseteq Nat \ {0}
    /\ Worlds \subseteq [actors : SUBSET Devices, desktop : SUBSET Devices,
                         key : Key \cup {Clear}, transitions : Nat, faults : Nat, stalls : Nat]
    /\ MaxEdits \in Nat

VARIABLES
    world,      \* the member of Worlds this behaviour is in
    remote,     \* artifact -> the key it is under and the edits it holds
    local,      \* device -> its durable encryption state and cached key
    store,      \* device -> the edits in its own store
    op,         \* device -> the transition or cycle it is running
    lease,      \* the device holding the remote mutation fence
    published,  \* ghost: edits that were ever in the remote document
    crossed,    \* ghost: two opposite transitions have crossed, see Crossing
    spent       \* how much of each bound is used

vars == << world, remote, local, store, op, lease, published, crossed, spent >>

Documents == {"plain", "sealed"}            \* data.json and data.json.enc
Artifacts == Documents \cup {"attachment"}

File == [key : Key \cup {Clear, Absent}, edits : SUBSET (1 .. MaxEdits)]

None == [key |-> Absent, edits |-> {}]

Idle == [kind |-> "idle", target |-> NoKey, snap |-> [n \in Artifacts |-> None],
         stale |-> {}, late |-> FALSE, proven |-> FALSE]

(* All devices start in step with the remote: everything in plaintext and   *)
(* encryption off, or everything sealed under one key that all of them hold. *)
Init ==
    /\ world \in Worlds
    /\ remote = [n \in Artifacts |->
                    IF n \in Documents /\ (n = "plain") # (world.key = Clear) THEN None
                    ELSE [key |-> world.key, edits |-> {}]]
    /\ local = [d \in Devices |->
                    IF world.key = Clear
                    THEN [state |-> "off", key |-> NoKey, salt |-> 0, journal |-> "none"]
                    ELSE [state |-> "enabled", key |-> world.key,
                          salt |-> Salt(world.key), journal |-> "none"]]
    /\ store = [d \in Devices |-> {}]
    /\ op = [d \in Devices |-> Idle]
    /\ lease = Nobody
    /\ published = {}
    /\ crossed = FALSE
    /\ spent = [edits |-> 0, transitions |-> 0, faults |-> 0, stalls |-> 0]

Spend(bound) == spent' = [spent EXCEPT ![bound] = @ + 1]

Desktop(d) == d \in world.desktop

(* On a desktop the key comes with the state it was stored with; on mobile  *)
(* the key store answers by itself.                                         *)
CachedKey(d) ==
    IF Desktop(d) /\ local[d].state \notin {"enabled", "remote-plaintext"}
    THEN NoKey ELSE local[d].key

SaltsInUse ==
    UNION { {Salt(remote[n].key) : n \in Artifacts},
            {local[d].salt : d \in Devices}, {Salt(local[d].key) : d \in Devices},
            {Salt(op[d].target) : d \in Devices},
            {Salt(op[d].snap[n].key) : d \in Devices, n \in Artifacts} }

FreshSalts == Salts \ SaltsInUse

-----------------------------------------------------------------------------
(* Requests.  A version is what it was for the device that read it until    *)
(* somebody else writes the artifact: then it is stale, and a conditional   *)
(* request on it fails.                                                     *)

Held(d) == lease = d \/ op[d].late

(* A mutant of Current: the request carries no version. *)
CurrentUnconditional(d, n) == Held(d)

Current(d, n) == Held(d) /\ n \notin op[d].stale

Written(d, n, file) ==
    /\ remote' = [remote EXCEPT ![n] = file]
    /\ op' = [e \in Devices |->
                IF e = d THEN [op[d] EXCEPT !.snap[n] = file, !.late = FALSE]
                ELSE IF op[e].kind = "idle" THEN op[e]
                ELSE [op[e] EXCEPT !.stale = @ \cup {n}]]

Acquire(d) == op[d].kind = "idle" /\ d \in world.actors /\ lease = Nobody /\ lease' = d

Running(d, kind, target) ==
    [Idle EXCEPT !.kind = kind, !.target = target, !.snap = remote]

Release(d) ==
    /\ lease' = IF lease = d THEN Nobody ELSE lease
    /\ op' = [op EXCEPT ![d] = Idle]

-----------------------------------------------------------------------------
(* Starting a transition: what the settings offer in this state, and the    *)
(* checks made on the captured inventory before anything is written.  A     *)
(* transition that is refused here leaves the remote as it is.              *)

Sealed(n) == remote[n].key \in Key

Begin(d, kind, target) ==
    /\ Acquire(d)
    /\ op' = [op EXCEPT ![d] = Running(d, kind, target)]
    /\ IF local[d].journal = kind THEN UNCHANGED spent
       ELSE spent.transitions < world.transitions /\ Spend("transitions")
    /\ UNCHANGED << world, crossed, remote, store, published >>

(* The key an enable works towards: the one of an interrupted enable if     *)
(* there is one, or else a fresh one.                                       *)
EnableKey(p) ==
    IF Sealed("sealed") THEN {remote["sealed"].key}
    ELSE IF Sealed("attachment") THEN {remote["attachment"].key}
    ELSE {<< p, s >> : s \in {CHOOSE s \in FreshSalts : TRUE}}

Enable(d, p) ==
    /\ local[d].state = "off"
    /\ \A n \in Artifacts : Sealed(n) => remote[n].key[1] = p
    /\ FreshSalts # {}
    /\ \E k \in EnableKey(p) : Begin(d, "enable", k)
    /\ UNCHANGED local

Disable(d) ==
    /\ local[d].state \in {"enabled", "remote-plaintext"}
    /\ CachedKey(d) # NoKey
    /\ \A n \in Artifacts : Sealed(n) => remote[n].key = CachedKey(d)
    /\ Begin(d, "disable", Clear)
    /\ UNCHANGED local

(* A mutant of Confirmed: an interrupted change is no exception. *)
ConfirmedAlways(d, current) ==
    IF Desktop(d)
    THEN local[d].journal = "none" /\ Sealed("sealed") /\ remote["sealed"].key[1] = current
    ELSE << current, local[d].salt >> = local[d].key

(* The current passphrase is confirmed first: on mobile it must derive the  *)
(* cached key, unless a change was interrupted; on a desktop it must unlock *)
(* the remote document, which is refused while any journal is open.         *)
Confirmed(d, current) ==
    IF Desktop(d)
    THEN local[d].journal = "none" /\ Sealed("sealed") /\ remote["sealed"].key[1] = current
    ELSE << current, local[d].salt >> = local[d].key \/ local[d].journal = "change"

Change(d, current, next) ==
    /\ local[d].state = "enabled"
    /\ CachedKey(d) # NoKey
    /\ Confirmed(d, current)
    /\ remote["plain"].key = Absent
    /\ local' = [local EXCEPT ![d] =
                    IF Desktop(d)
                    THEN [@ EXCEPT !.key = remote["sealed"].key, !.salt = Salt(remote["sealed"].key)]
                    ELSE @]
    /\ \A n \in Artifacts : remote[n].key = Absent \/ (Sealed(n)
            /\ (remote[n].key = local'[d].key \/ remote[n].key[1] = next))
    /\ FreshSalts # {}
    /\ Begin(d, "change", << next, CHOOSE s \in FreshSalts : TRUE >>)

(* Unlocking a remote a peer has encrypted. *)
Provide(d, p) ==
    /\ local[d].state = "no-key"
    /\ local[d].journal = "none"
    /\ Sealed("sealed") /\ remote["sealed"].key[1] = p
    /\ Acquire(d)
    /\ op' = [op EXCEPT ![d] = Running(d, "provide", remote["sealed"].key)]
    /\ UNCHANGED << world, crossed, remote, local, store, published, spent >>

(* There is nothing sealed to unlock any more. *)
ProvideNothing(d) ==
    /\ local[d].state = "no-key"
    /\ local[d].journal = "none"
    /\ remote["sealed"].key = Absent
    /\ op[d].kind = "idle" /\ d \in world.actors /\ lease = Nobody
    /\ local' = [local EXCEPT ![d] =
                    [state |-> "off", key |-> NoKey, salt |-> 0, journal |-> "none"]]
    /\ UNCHANGED << world, crossed, remote, store, op, lease, published, spent >>

-----------------------------------------------------------------------------
(* The steps of a running transition; what is left to do follows from the   *)
(* snapshot, which every write keeps up with.                               *)

Transitions == {"enable", "disable", "change"}

InPlace(d) ==
    LET rewritten(n) == op[d].snap[n].key \notin {Absent, op[d].target}
    IN  CASE op[d].kind \in {"enable", "change"} ->
                 {n \in {"attachment", "sealed"} : rewritten(n)}
          [] op[d].kind = "disable" -> {n \in {"attachment"} : rewritten(n)}
          [] OTHER -> {}

Source(d) == IF op[d].kind = "enable" THEN "plain" ELSE "sealed"
Target(d) == IF op[d].kind = "enable" THEN "sealed" ELSE "plain"

(* A mutant of ToMove: a document of the other name is taken for the move. *)
ToMoveUnlessThere(d) ==
    /\ op[d].kind \in {"enable", "disable"}
    /\ op[d].snap[Source(d)].key # Absent /\ op[d].snap[Target(d)].key = Absent

ToMove(d) == op[d].kind \in {"enable", "disable"} /\ op[d].snap[Source(d)].key # Absent

Pending(d) == InPlace(d) # {} \/ ToMove(d)

(* The device's journal names the transition before the first write. *)
StartJournal(d) ==
    /\ op[d].kind \in Transitions /\ Pending(d)
    /\ local[d].journal = "none"
    /\ Held(d)
    /\ local' = [local EXCEPT ![d].journal = op[d].kind]
    /\ op' = [op EXCEPT ![d].late = FALSE]
    /\ UNCHANGED << world, crossed, remote, store, lease, published, spent >>

(* A mutant of Journaled: the journal is left to the end. *)
JournaledLater(d) == op[d].kind \in Transitions

Journaled(d) == op[d].kind \in Transitions /\ local[d].journal = op[d].kind

(* Attachments come first, and a write is read back before it counts.  No   *)
(* other device holds a version this young, so the two are one step.        *)
Rewrite(d) ==
    /\ Journaled(d)
    /\ \E n \in InPlace(d) :
          /\ n = "attachment" \/ "attachment" \notin InPlace(d)
          /\ Current(d, n)
          /\ Written(d, n, [op[d].snap[n] EXCEPT !.key = op[d].target])
    /\ UNCHANGED << world, crossed, local, store, lease, published, spent >>

CreateTarget(d) ==
    /\ Journaled(d) /\ InPlace(d) = {} /\ ToMove(d)
    /\ op[d].snap[Target(d)].key = Absent
    /\ Current(d, Target(d))
    /\ Written(d, Target(d), [op[d].snap[Source(d)] EXCEPT !.key = op[d].target])
    /\ UNCHANGED << world, crossed, local, store, lease, published, spent >>

Moved(d) ==
    /\ op[d].snap[Target(d)].key = op[d].target
    /\ op[d].snap[Target(d)].edits = op[d].snap[Source(d)].edits

(* A device removes the document another one is moving everything to: it    *)
(* has outlived its lease with this request to go, or the other one has.    *)
Crossing(d) ==
    \E e \in Devices \ {d} : op[e].kind \in {"enable", "disable"} /\ Target(e) = Source(d)

(* The original goes only once the other document holds the same, as this   *)
(* device last knew it: the request is conditional on the original alone.   *)
RemoveSource(d) ==
    /\ Journaled(d) /\ InPlace(d) = {} /\ ToMove(d)
    /\ Moved(d)
    /\ Current(d, Source(d))
    /\ Written(d, Source(d), None)
    /\ crossed' = (crossed \/ Crossing(d))
    /\ UNCHANGED << world, local, store, lease, published, spent >>

(* The whole inventory is read again, or the one document to be unlocked.   *)
Unchanged(d) ==
    IF op[d].kind = "provide" THEN "sealed" \notin op[d].stale ELSE op[d].stale = {}

Prove(d) ==
    /\ op[d].kind \in Transitions \cup {"provide"}
    /\ ~op[d].proven /\ ~Pending(d)
    /\ lease = d
    /\ Unchanged(d)
    /\ op' = [op EXCEPT ![d].proven = TRUE]
    /\ UNCHANGED << world, crossed, remote, local, store, lease, published, spent >>

(* A mutant of Committed: the case of a disable is forgotten. *)
CommittedEnabled(d) ==
    [state |-> "enabled", key |-> op[d].target, salt |-> Salt(op[d].target), journal |-> "none"]

Committed(d) ==
    IF op[d].kind = "disable"
    THEN [state |-> "off", key |-> NoKey, salt |-> 0, journal |-> "none"]
    ELSE [state |-> "enabled", key |-> op[d].target, salt |-> Salt(op[d].target),
          journal |-> "none"]

(* The lease is renewed before this write and checked after it; when that   *)
(* fails, what was there is put back.                                       *)
Commit(d) ==
    /\ op[d].proven /\ lease = d
    /\ local' = [local EXCEPT ![d] = Committed(d)]
    /\ Release(d)
    /\ UNCHANGED << world, crossed, remote, store, published, spent >>

(* A mutant of HalfCommitted: the state goes first, then the key. *)
HalfCommittedStateFirst(d) == [Committed(d) EXCEPT !.key = local[d].key]

(* Key and state are two stores on mobile: the key goes in before the state *)
(* and comes out after it.                                                  *)
HalfCommitted(d) ==
    IF op[d].kind = "disable" THEN [Committed(d) EXCEPT !.key = local[d].key]
    ELSE [local[d] EXCEPT !.key = op[d].target]

(* A crash comes between the two, or before the check of the lease.         *)
CrashInCommit(d) ==
    /\ op[d].proven /\ Held(d)
    /\ spent.faults < world.faults /\ Spend("faults")
    /\ \/ ~Desktop(d) /\ local' = [local EXCEPT ![d] = HalfCommitted(d)]
       \/ local' = [local EXCEPT ![d] = Committed(d)]
    /\ Release(d)
    /\ UNCHANGED << world, crossed, remote, store, published >>

(* A transition stops at the lease's loss, at another transition's journal, *)
(* and at anything it finds changed; what a commit had touched is restored. *)
Refused(d) ==
    \/ ~Held(d)
    \/ ~Pending(d) /\ lease # d
    \/ /\ ~op[d].proven
       /\ \/ ~Unchanged(d)
          \/ /\ op[d].kind \in Transitions /\ Pending(d)
             /\ \/ local[d].journal \notin {"none", op[d].kind}
                \/ InPlace(d) = {} /\ op[d].snap[Target(d)].key # Absent /\ ~Moved(d)

GiveUp(d) ==
    /\ op[d].kind # "idle"
    /\ Refused(d)
    /\ Release(d)
    /\ UNCHANGED << world, crossed, remote, local, store, published, spent >>

-----------------------------------------------------------------------------
(* Sync cycles.                                                             *)

Edit(d) ==
    /\ spent.edits < MaxEdits /\ d \in world.actors
    /\ Spend("edits")
    /\ store' = [store EXCEPT ![d] = @ \cup {spent.edits + 1}]
    /\ UNCHANGED << world, crossed, remote, local, op, lease, published >>

MayRead(d) ==
    /\ op[d].kind = "idle" /\ d \in world.actors
    /\ local[d].journal = "none" /\ local[d].state \in {"off", "enabled"}
    /\ local[d].state = "enabled" => local[d].key # NoKey

MayCycle(d) == MayRead(d) /\ lease = Nobody

Enabled(d) == local[d].state = "enabled"
Document(d) == IF Enabled(d) THEN "sealed" ELSE "plain"

(* A mutant of Opens: a device without a key looks only for its own name. *)
OpensOwnName(d) ==
    IF Enabled(d)
    THEN IF Sealed("sealed") THEN Salt(remote["sealed"].key) = local[d].salt
         ELSE remote["plain"].key = Absent
    ELSE TRUE

(* The document this device expects, or none under either name. *)
Opens(d) ==
    IF Enabled(d)
    THEN IF Sealed("sealed") THEN Salt(remote["sealed"].key) = local[d].salt
         ELSE remote["plain"].key = Absent
    ELSE remote["plain"].key = Clear \/ remote["sealed"].key = Absent

BeginCycle(d) ==
    /\ MayCycle(d) /\ Opens(d)
    /\ store[d] # remote[Document(d)].edits
    /\ lease' = d
    /\ op' = [op EXCEPT ![d] = Running(d, "cycle", NoKey)]
    /\ store' = [store EXCEPT ![d] = @ \cup remote[Document(d)].edits]
    /\ UNCHANGED << world, crossed, remote, local, published, spent >>

(* The read finds the remote sealed under another key, or in plaintext.  On *)
(* mobile one is made before the fence is taken, to see if anything changed. *)
Discover(d) ==
    /\ MayRead(d) /\ ~Opens(d)
    /\ Desktop(d) => lease = Nobody
    /\ local' = [local EXCEPT ![d] =
                    IF Sealed("sealed")
                    THEN [@ EXCEPT !.state = "no-key", !.salt = Salt(remote["sealed"].key)]
                    ELSE [@ EXCEPT !.state = "remote-plaintext"]]
    /\ UNCHANGED << world, crossed, remote, store, op, lease, published, spent >>

Upload(d) ==
    /\ op[d].kind = "cycle"
    /\ store[d] # op[d].snap[Document(d)].edits
    /\ Current(d, Document(d))
    /\ Written(d, Document(d), [key |-> IF Enabled(d) THEN local[d].key ELSE Clear,
                                edits |-> store[d]])
    /\ published' = published \cup store[d]
    /\ UNCHANGED << world, crossed, local, store, lease, spent >>

EndCycle(d) ==
    /\ op[d].kind = "cycle"
    /\ store[d] = op[d].snap[Document(d)].edits
    /\ Release(d)
    /\ UNCHANGED << world, crossed, remote, local, store, published, spent >>

-----------------------------------------------------------------------------
(* Faults.                                                                  *)

(* A crash, or a request that fails before or after it took effect. *)
Crash(d) ==
    /\ op[d].kind # "idle"
    /\ spent.faults < world.faults /\ Spend("faults")
    /\ Release(d)
    /\ UNCHANGED << world, crossed, remote, local, store, published >>

(* A holder sleeps past its lease with an assertion of it just behind it. *)
Stall(d) ==
    /\ lease = d
    /\ spent.stalls < world.stalls /\ Spend("stalls")
    /\ lease' = Nobody
    /\ op' = [op EXCEPT ![d].late = TRUE]
    /\ UNCHANGED << world, crossed, remote, local, store, published >>

Step(d) ==
    \/ StartJournal(d) \/ Rewrite(d) \/ CreateTarget(d) \/ RemoveSource(d)
    \/ Prove(d) \/ Commit(d) \/ GiveUp(d) \/ Upload(d) \/ EndCycle(d)

Choice(d) ==
    \/ Disable(d) \/ ProvideNothing(d)
    \/ \E p \in Passphrases :
          \/ Enable(d, p) \/ Provide(d, p)
          \/ \E q \in Passphrases : Change(d, p, q)

Next ==
    \E d \in Devices :
        \/ Step(d) \/ Choice(d)
        \/ Edit(d) \/ BeginCycle(d) \/ Discover(d)
        \/ Crash(d) \/ CrashInCommit(d) \/ Stall(d)

(* The user tries the transition in the journal again. *)
Retry(d) ==
    \/ local[d].journal = "enable" /\ \E p \in Passphrases : Enable(d, p)
    \/ local[d].journal = "disable" /\ Disable(d)
    \/ local[d].journal = "change" /\ \E p, q \in Passphrases : Change(d, p, q)

Fairness == \A d \in Devices : WF_vars(Step(d)) /\ WF_vars(Retry(d))

Spec == Init /\ [][Next]_vars /\ Fairness

-----------------------------------------------------------------------------
States == {"off", "enabled", "no-key", "remote-plaintext"}
Journals == Transitions \cup {"none"}

Local == [state : States, key : Key \cup {NoKey}, salt : Salts \cup {0}, journal : Journals]

Operation ==
    [kind : Transitions \cup {"idle", "provide", "cycle"},
     target : Key \cup {NoKey, Clear}, snap : [Artifacts -> File],
     stale : SUBSET Artifacts, late : BOOLEAN, proven : BOOLEAN]

TypeOK ==
    /\ world \in Worlds
    /\ remote \in [Artifacts -> File]
    /\ local \in [Devices -> Local]
    /\ store \in [Devices -> SUBSET (1 .. MaxEdits)]
    /\ op \in [Devices -> Operation]
    /\ lease \in Devices \cup {Nobody}
    /\ published \in SUBSET (1 .. MaxEdits)
    /\ crossed \in BOOLEAN
    /\ spent \in [edits : 0 .. MaxEdits, transitions : 0 .. world.transitions,
                  faults : 0 .. world.faults, stalls : 0 .. world.stalls]

Present == {n \in Artifacts : remote[n].key # Absent}

(* A device that syncs with encryption on holds the key its salt stands     *)
(* for, so what it seals can be opened with the passphrase, and what bears  *)
(* its salt it can open.                                                    *)
KeyMatchesSalt ==
    \A d \in Devices : local[d].state = "enabled" /\ local[d].journal = "none" =>
        /\ local[d].key \in Key /\ Salt(local[d].key) = local[d].salt
        /\ \A n \in Artifacts : Sealed(n) /\ Salt(remote[n].key) = local[d].salt
                                  => remote[n].key = local[d].key

(* What follows holds until two opposite transitions cross.                 *)

(* No edit that reached the remote leaves it: the document a transition     *)
(* removes held nothing the other one does not.                             *)
NothingLost == crossed \/ published \subseteq UNION {remote[n].edits : n \in Documents}

(* While the remote is not all in plaintext or all under one key, some      *)
(* device's journal remembers the transition that owes the rest.            *)
MixtureIsJournaled ==
    \/ crossed
    \/ \E k \in Key \cup {Clear} : \A n \in Present : remote[n].key = k
    \/ \E d \in Devices : local[d].journal # "none"

(* A transition commits only when all of the remote is as it claims, or     *)
(* another device's journal owes what differs.                              *)
CommitsWhatIsThere ==
    [][ \A d \in Devices : op[d].kind \in Transitions /\ Commit(d)
            => \/ crossed
               \/ \A n \in Present : remote[n].key = op[d].target
               \/ \E e \in Devices \ {d} : local[e].journal # "none" ]_vars

(* Once nothing is in plaintext, only a disable puts plaintext there.       *)
NoDowngrade ==
    [][ (\A n \in Artifacts : remote[n].key # Clear) /\ (\E n \in Artifacts : remote'[n].key = Clear)
            => crossed \/ \E d \in Devices : op[d].kind = "disable" ]_vars

(* "A crash mid-run leaves both generations present and a re-run resumes"   *)
(* (sync-encryption.ts:692): with no other device at work, a transition the *)
(* user keeps trying again is finished.                                     *)
RetryFinishes ==
    \A d \in Devices :
        local[d].journal # "none" /\ world.actors = {d} ~> local[d].journal = "none"
=============================================================================
