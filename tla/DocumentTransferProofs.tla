------------------------ MODULE DocumentTransferProofs ------------------------
(***************************************************************************)
(* Proofs about SaveQueue and the import beside it, for any callers,       *)
(* platforms, limits and bounds: the types, that the last snapshot queued  *)
(* stands for all of them, that a queued save has someone to write it, that *)
(* nothing on the screen is lost unseen, that a confirmation is true, and   *)
(* that an import stays.                                                   *)
(*                                                                         *)
(* The data of the queue is seen as a set of copies, each the version and  *)
(* the data of a save.  A turn of the flush loop, a drop at the limit and  *)
(* a row put back differ in much, but all of them keep a newest copy: with *)
(* every copy having what the older ones have of the store, that is enough.*)
(***************************************************************************)
EXTENDS DocumentTransfer, SequenceTheorems, FiniteSetTheorems, TLAPS

USE QueueConstants

Copy(x) == [version |-> x.version, data |-> x.data]
Copies(q) == {Copy(q[n]) : n \in 1..Len(q)}
Flying(w) == IF w = NoSave THEN {} ELSE {Copy(w)}

Snapshots == Copies(pendingSaves) \cup Flying(saveInFlight)
RowCopies == {Copy(i) : i \in immediates}
Carriers == Snapshots \cup RowCopies

CopyType == [version : Nat, data : Content]

Sorted(q) == \A m, n \in 1..Len(q) : m <= n => q[m].version <= q[n].version

(* What is left of some copies still has a newest of them. *)
Keeps(S, T) ==
    /\ T \subseteq S
    /\ \A x \in S : \E y \in T : x.version <= y.version

-----------------------------------------------------------------------------
(* The invariant.                                                           *)

(* What a caller is doing and where it stands agree, and only a caller that waits for *)
(* row saves has some to wait for.                                                    *)
Places ==
    \A c \in Callers :
        /\ job[c] = "none" <=> at[c] = "idle"
        /\ at[c] \in {"reading", "read"} => job[c] \in {"fetch", "refresh"}
        /\ at[c] = "joined" => job[c] = "confirm"
        /\ at[c] = "locked" => job[c] = "retry"
        /\ at[c] \in {"loading", "backup", "persisting"} => job[c] = "transfer"
        /\ waits[c] # {} => at[c] = "immediates"

(* One write of a snapshot at a time, by the caller that took it from the queue. *)
Owned ==
    /\ saveInFlight # NoSave <=> \E c \in Callers : at[c] = "owner"
    /\ \A c, d \in Callers : at[c] = "owner" /\ at[d] = "owner" => c = d

(* One retry and one import at a time. *)
Single ==
    /\ \A c, d \in Callers :
          /\ job[c] = "retry" /\ job[d] = "retry" => c = d
          /\ job[c] \in {"transfer", "refresh"} /\ job[d] \in {"transfer", "refresh"} => c = d
    /\ Locked => outcome = "tried"

(* Versions: none is ahead of the last one drawn, none is at or behind the last one     *)
(* saved, the queue is in order, and what is being written is older than all the rest.  *)
Versions ==
    /\ \A x \in Carriers : savedVersion < x.version /\ x.version <= pendingVersion
    /\ Sorted(pendingSaves)
    /\ saveInFlight # NoSave =>
          \A x \in Copies(pendingSaves) \cup RowCopies : saveInFlight.version < x.version

QueueInvariant == TransferTypeOK /\ Places /\ Owned /\ Versions

(* Edits are numbered as they are made. *)
Numbered ==
    /\ store \subseteq 0..made /\ disk \subseteq 0..made
    /\ acked \subseteq 0..made /\ rows \subseteq 0..made
    /\ \A c \in Callers : held[c] \subseteq 0..made
    /\ \A x \in Carriers : x.data \subseteq 0..made
    /\ \A i \in immediates : i.row \in i.data /\ i.row \notin rows

(* A newer save has what an older one has of the store. *)
Chained ==
    \A x, y \in Carriers : x.version <= y.version => x.data \cap store \subseteq y.data

(* What the saves on their way will have written: snapshots, and single rows. *)
Rowed == {i.row : i \in immediates}
Arriving == (UNION {x.data : x \in Snapshots}) \cup Rowed

(* The store is saved or will be, and no save on its way takes away what is not on its *)
(* way itself: of the rows it could delete it has those the store shows.               *)
Covered ==
    \/ overtaken
    \/ /\ failure \/ store \subseteq disk \cup Arriving
       /\ \A y \in Carriers : store \subseteq y.data \cup disk \cup Arriving
       /\ \A y \in Carriers : disk \cap rows \cap store \subseteq y.data

Settled == failure \/ overtaken \/ store \subseteq disk

(* From the end of a caller's flush until the next edit nothing is on its way but the  *)
(* one save of a retry.                                                                *)
ReadsOn(c) == at[c] \in {"reading", "read"} /\ since[c] = made
Rests(c) == at[c] = "flushed" \/ ReadsOn(c)
Retries(c) == job[c] = "retry" /\ at[c] \in {"owner", "inflight", "sleep"}
Calm ==
    /\ (\E c \in Callers : Rests(c)) =>
          /\ immediates = {}
          /\ \A x, y \in Carriers : x = y
          /\ Carriers # {} => \E r \in Callers : Retries(r)
          /\ Settled
    /\ (\E c \in Callers : at[c] = "joined") /\ ~Retrying => Settled

(* While an import holds the lock, not even that. *)
StillFor(c) ==
    /\ job[c] = "transfer" =>
          /\ at[c] = "flushed" => Carriers = {}
          /\ at[c] \in {"loading", "backup"} /\ since[c] = made => Carriers = {}
          /\ at[c] = "backup" /\ since[c] = made => held[c] = disk \cup {Import}
          /\ at[c] = "persisting" => held[c] = disk \cup {Import}
    /\ Unnoticed(c) /\ ~spoiled => Carriers = {}
Still == \A c \in Callers : StillFor(c)

(* The imported row is one that a save may delete, once it is written. *)
Unwritten ==
    /\ \A c \in Callers : job[c] = "transfer" \/ outcome = "none" => Import \notin rows
    /\ Import \notin rows =>
          /\ Import \notin store /\ Import \notin disk
          /\ \A x \in Carriers : Import \notin x.data
          /\ \A c \in Callers : Import \in held[c] => at[c] \in {"backup", "persisting"}

(* An import that is written stays, and its reload brings it to the store for good. *)
Imported ==
    ~spoiled =>
        /\ \A c \in Callers : job[c] = "refresh" =>
              /\ Import \in disk
              /\ at[c] = "read" => \A r \in Callers : at[r] = "read" => Import \in held[r]
        /\ outcome = "done" =>
              /\ Import \in disk
              /\ Import \in store /\ \A x \in Carriers : Import \in x.data
              /\ \A r \in Callers : at[r] = "read" => Import \in held[r]

DataInvariant == Numbered /\ Chained /\ Covered
CallerInvariant == Single /\ Calm /\ Still
ImportInvariant == Unwritten /\ Imported /\ ConfirmedIsSaved
TransferInvariant == QueueInvariant /\ DataInvariant /\ CallerInvariant /\ ImportInvariant

-----------------------------------------------------------------------------
(* The queue as a sequence.                                                 *)

LEMMA Limits == MaxAttempts \in Nat \ {0} /\ MaxPending \in Nat \ {0} /\ MaxEdits \in Nat
OBVIOUS

LEMMA NoSaveIsNone == NoSave \notin Pending
BY DEF Pending, Content

LEMMA AttemptsTyped == ASSUME NEW q PROVE Attempts(q) \in 0..MaxAttempts
<1> DEFINE reached == {n \in 1..MaxAttempts : \E k \in 1..Len(q) : q[k].attempts >= n}
<1>1. IsFiniteSet(1..MaxAttempts) /\ Cardinality(1..MaxAttempts) = MaxAttempts
  BY FS_Interval, Limits
<1>2. reached \in SUBSET (1..MaxAttempts)
  OBVIOUS
<1>3. IsFiniteSet(reached) /\ Cardinality(reached) <= MaxAttempts
  BY <1>1, <1>2, FS_Subset
<1>4. Cardinality(reached) \in Nat
  BY <1>3, FS_CardinalityType
<1> QED  BY <1>3, <1>4, Limits DEF Attempts

LEMMA ItemTyped ==
    ASSUME NEW version \in Nat \ {0}, NEW data \in Content, NEW attempts \in 0..MaxAttempts
    PROVE  /\ Item(version, data, attempts) \in Pending
           /\ Item(version, data, attempts) # NoSave
           /\ Copy(Item(version, data, attempts)) = [version |-> version, data |-> data]
           /\ Item(version, data, attempts).version = version
           /\ Item(version, data, attempts).data = data
BY NoSaveIsNone DEF Item, Pending, Copy

LEMMA CopiesTyped ==
    ASSUME NEW q \in Seq(Pending)
    PROVE  /\ Copies(q) \subseteq CopyType
           /\ Len(q) \in Nat
           /\ \A n \in 1..Len(q) : q[n] \in Pending /\ Copy(q[n]) \in Copies(q)
<1>1. Len(q) \in Nat /\ \A n \in 1..Len(q) : q[n] \in Pending
  BY ElementOfSeq, LenProperties
<1>2. \A p \in Pending : Copy(p) \in CopyType
  BY DEF Copy, CopyType, Pending
<1> QED  BY <1>1, <1>2 DEF Copies

(* Reflexive and transitive. *)
LEMMA KeepsAll == ASSUME NEW S \in SUBSET CopyType PROVE Keeps(S, S)
BY DEF Keeps, CopyType

LEMMA KeepsOn ==
    ASSUME NEW S \in SUBSET CopyType, NEW T, NEW U, Keeps(S, T), Keeps(T, U)
    PROVE  Keeps(S, U)
<1>1. U \subseteq S
  BY DEF Keeps
<1>2. ASSUME NEW x \in S PROVE \E z \in U : x.version <= z.version
  <2>1. PICK y \in T : x.version <= y.version
    BY DEF Keeps
  <2>2. PICK z \in U : y.version <= z.version
    BY DEF Keeps
  <2>3. x.version \in Nat /\ y.version \in Nat /\ z.version \in Nat
    BY <1>1 DEF Keeps, CopyType
  <2> QED  BY <2>1, <2>2, <2>3
<1> QED  BY <1>1, <1>2 DEF Keeps

LEMMA KeepsMore ==
    ASSUME NEW S \in SUBSET CopyType, NEW T, NEW R \in SUBSET CopyType, Keeps(S, T)
    PROVE  Keeps(S \cup R, T \cup R)
BY DEF Keeps, CopyType

(* A sorted queue is stood for by its last item. *)
LEMMA LastKeeps ==
    ASSUME NEW q \in Seq(Pending), Sorted(q), q # <<>>
    PROVE  /\ Len(q) \in 1..Len(q) /\ q[Len(q)] \in Pending
           /\ Latest(q) \in Pending /\ Latest(q) # NoSave
           /\ Copy(Latest(q)) = Copy(q[Len(q)])
           /\ Latest(q).version = q[Len(q)].version
           /\ Keeps(Copies(q), {Copy(Latest(q))})
<1>1. Len(q) \in Nat \ {0}
  BY EmptySeq
<1>2. q[Len(q)] \in Pending /\ Copy(q[Len(q)]) \in Copies(q)
  BY <1>1, CopiesTyped
<1>3. /\ Latest(q) \in Pending /\ Latest(q) # NoSave
      /\ Copy(Latest(q)) = Copy(q[Len(q)])
      /\ Latest(q).version = q[Len(q)].version
  <2>1. q[Len(q)].version \in Nat \ {0} /\ q[Len(q)].data \in Content
    BY <1>2 DEF Pending
  <2> QED  BY <2>1, AttemptsTyped, ItemTyped DEF Latest, Copy
<1>4. ASSUME NEW x \in Copies(q) PROVE x.version <= Copy(Latest(q)).version
  <2>1. PICK n \in 1..Len(q) : x = Copy(q[n])
    BY DEF Copies
  <2>2. q[n].version <= q[Len(q)].version
    BY <1>1 DEF Sorted
  <2> QED  BY <2>1, <2>2, <1>3 DEF Copy
<1> QED  BY <1>1, <1>2, <1>3, <1>4 DEF Keeps

(* enforcePendingSaveCap *)
LEMMA CappedKeeps ==
    ASSUME NEW q \in Seq(Pending), Sorted(q)
    PROVE  /\ Capped(q) \in Seq(Pending) /\ Len(Capped(q)) <= MaxPending
           /\ Sorted(Capped(q))
           /\ Keeps(Copies(q), Copies(Capped(q)))
           /\ q # <<>> => Capped(q) # <<>>
           /\ ~Overflows(q) => Capped(q) = q
<1>1. Len(q) \in Nat /\ \A n \in 1..Len(q) : q[n] \in Pending /\ Copy(q[n]) \in Copies(q)
  BY CopiesTyped
<1>2. CASE Len(q) <= MaxPending
  <2>1. Capped(q) = q /\ ~Overflows(q)
    BY <1>1, <1>2, Limits DEF Capped, Overflows
  <2> QED  BY <2>1, <1>2, KeepsAll, CopiesTyped
<1>3. CASE Len(q) > MaxPending
  <2> DEFINE m == Len(q) - MaxPending + 1
             r == SubSeq(q, m, Len(q))
  <2>1. m \in 1..Len(q) /\ Capped(q) = r /\ Len(q) - m + 1 = MaxPending /\ m <= Len(q)
    BY <1>1, <1>3, Limits DEF Capped
  <2>2. m \in Int /\ Len(q) \in Int /\ \A i \in m..Len(q) : q[i] \in Pending
    BY <2>1, <1>1
  <2> HIDE DEF m
  <2>3. /\ r \in Seq(Pending)
        /\ Len(r) = IF m <= Len(q) THEN Len(q) - m + 1 ELSE 0
        /\ \A i \in 1..(Len(q) - m + 1) : r[i] = q[m + i - 1]
    BY <2>2, SubSeqProperties
  <2> HIDE DEF r
  <2>4. Len(r) = MaxPending /\ \A i \in 1..MaxPending : r[i] = q[m + i - 1] /\ m + i - 1 \in 1..Len(q)
    BY <2>1, <2>3, <1>1, Limits
  <2>5. Sorted(r)
    <3> SUFFICES ASSUME NEW i \in 1..MaxPending, NEW j \in 1..MaxPending, i <= j
                 PROVE  r[i].version <= r[j].version
      BY <2>4 DEF Sorted
    <3>1. m + i - 1 <= m + j - 1
      BY <2>1, <1>1, Limits
    <3> QED  BY <3>1, <2>4 DEF Sorted
  <2>6. r # <<>>
    BY <2>4, Limits, EmptySeq
  <2>7. Copies(r) \subseteq Copies(q)
    BY <2>4, <1>1 DEF Copies
  <2>8. r[Len(r)] = q[Len(q)] /\ Copy(r[Len(r)]) \in Copies(r)
    <3>1. Len(r) \in 1..Len(r) /\ m + Len(r) - 1 = Len(q)
      BY <2>1, <2>4, <1>1, Limits
    <3>2. r[Len(r)] = q[Len(q)]
      BY <2>4, <3>1
    <3> QED  BY <3>1, <3>2 DEF Copies
  <2>9. ASSUME NEW x \in Copies(q) PROVE x.version <= Copy(r[Len(r)]).version
    <3>1. PICK n \in 1..Len(q) : x = Copy(q[n])
      BY DEF Copies
    <3>2. q[n].version <= q[Len(q)].version
      BY <1>1 DEF Sorted
    <3> QED  BY <3>1, <3>2, <2>8 DEF Copy
  <2> QED  BY <2>1, <2>3, <2>4, <2>5, <2>6, <2>7, <2>8, <2>9, <1>3 DEF Keeps, Overflows
<1> QED  BY <1>1, <1>2, <1>3, Limits

(* A save queued behind the others. *)
LEMMA AppendKeeps ==
    ASSUME NEW q \in Seq(Pending), Sorted(q), NEW x \in Pending,
           \A n \in 1..Len(q) : q[n].version <= x.version
    PROVE  /\ Append(q, x) \in Seq(Pending) /\ Append(q, x) # <<>>
           /\ Sorted(Append(q, x))
           /\ Copies(Append(q, x)) = Copies(q) \cup {Copy(x)}
<1>1. Len(q) \in Nat /\ \A n \in 1..Len(q) : q[n] \in Pending
  BY CopiesTyped
<1>2. /\ Append(q, x) \in Seq(Pending) /\ Len(Append(q, x)) = Len(q) + 1
      /\ \A i \in 1..Len(q) : Append(q, x)[i] = q[i]
      /\ Append(q, x)[Len(q) + 1] = x
  BY AppendProperties
<1>3. Append(q, x) # <<>>
  BY <1>1, <1>2, EmptySeq
<1>4. Sorted(Append(q, x))
  <2> SUFFICES ASSUME NEW m \in 1..(Len(q) + 1), NEW n \in 1..(Len(q) + 1), m <= n
               PROVE  Append(q, x)[m].version <= Append(q, x)[n].version
    BY <1>2 DEF Sorted
  <2>1. CASE n <= Len(q)
    <3>1. m \in 1..Len(q) /\ n \in 1..Len(q)
      BY <1>1, <2>1
    <3> QED  BY <3>1, <1>2 DEF Sorted
  <2>2. CASE n = Len(q) + 1 /\ m <= Len(q)
    <3>1. m \in 1..Len(q)
      BY <1>1, <2>2
    <3> QED  BY <3>1, <2>2, <1>2
  <2>3. CASE n = Len(q) + 1 /\ m = Len(q) + 1
    <3>1. x.version \in Nat
      BY DEF Pending
    <3> QED  BY <3>1, <2>3, <1>2
  <2> QED  BY <1>1, <2>1, <2>2, <2>3
<1>5. Copies(Append(q, x)) = Copies(q) \cup {Copy(x)}
  <2>1. 1..(Len(q) + 1) = (1..Len(q)) \cup {Len(q) + 1}
    BY <1>1
  <2> QED  BY <2>1, <1>2 DEF Copies
<1> QED  BY <1>2, <1>3, <1>4, <1>5

-----------------------------------------------------------------------------
(* A turn of the flush loop.                                                *)

Waiting == {"immediates", "inflight", "owner", "flushed"}

TurnTo(c, p, q, w) ==
    /\ at' = [at EXCEPT ![c] = p]
    /\ \/ /\ p = "immediates" /\ immediates # {}
          /\ waits' = [waits EXCEPT ![c] = {i.version : i \in immediates}]
          /\ pendingSaves' = q /\ saveInFlight' = w
       \/ /\ p = "inflight" /\ immediates = {} /\ w # NoSave
          /\ waits' = waits
          /\ pendingSaves' = q /\ saveInFlight' = w
       \/ /\ p = "owner" /\ immediates = {} /\ w = NoSave /\ q # <<>>
          /\ waits' = waits
          /\ pendingSaves' = <<>> /\ saveInFlight' = Latest(q)
       \/ /\ p = "flushed" /\ immediates = {} /\ w = NoSave /\ q = <<>>
          /\ waits' = waits
          /\ pendingSaves' = <<>> /\ saveInFlight' = NoSave

(* What a turn starts from: a queue in order, newer than what is saved and than what is  *)
(* being written, and a caller that waits for nothing.                                   *)
TurnReady(c, q, saved, w) ==
    /\ q \in Seq(Pending) /\ Len(q) <= MaxPending /\ Sorted(q)
    /\ w \in Pending \cup {NoSave}
    /\ saved \in Nat
    /\ \A x \in Copies(q) : saved < x.version
    /\ w # NoSave => \A x \in Copies(q) \cup RowCopies : w.version < x.version
    /\ w # NoSave <=> \E d \in Callers \ {c} : at[d] = "owner"
    /\ waits[c] = {}

LEMMA TurnCases ==
    ASSUME NEW c \in Callers, NEW q, NEW saved, NEW w,
           TurnReady(c, q, saved, w), Turn(c, q, saved, w)
    PROVE  \E p \in Waiting : TurnTo(c, p, q, w)
<1>1. CASE immediates # {}
  BY <1>1 DEF Turn, TurnTo, Waiting, Goto
<1>2. CASE immediates = {} /\ w # NoSave
  BY <1>2 DEF Turn, TurnTo, Waiting, Goto
<1>3. CASE immediates = {} /\ w = NoSave /\ q # <<>>
  <2>1. q \in Seq(Pending) /\ Sorted(q) /\ saved \in Nat
    BY DEF TurnReady
  <2>2. Len(q) \in 1..Len(q) /\ Latest(q).version = q[Len(q)].version
    BY <1>3, <2>1, LastKeeps
  <2>3. Copy(q[Len(q)]) \in Copies(q) /\ q[Len(q)].version \in Nat
    BY <2>1, <2>2, CopiesTyped DEF Pending
  <2>4. Latest(q).version > saved
    BY <2>1, <2>2, <2>3 DEF TurnReady, Copy
  <2> QED  BY <1>3, <2>4 DEF Turn, TurnTo, Waiting, Goto
<1>4. CASE immediates = {} /\ w = NoSave /\ q = <<>>
  BY <1>4 DEF Turn, TurnTo, Waiting, Goto
<1> QED  BY <1>1, <1>2, <1>3, <1>4

LEMMA NoCopies == Copies(<<>>) = {} /\ <<>> \in Seq(Pending) /\ Len(<<>>) = 0 /\ Sorted(<<>>)
BY EmptySeq DEF Copies, Sorted

LEMMA TurnKeeps ==
    ASSUME NEW c \in Callers, NEW q, NEW saved, NEW w, TurnReady(c, q, saved, w),
           NEW p, TurnTo(c, p, q, w)
    PROVE  /\ pendingSaves' \in Seq(Pending) /\ Len(pendingSaves') <= MaxPending
           /\ Sorted(pendingSaves')
           /\ saveInFlight' \in Pending \cup {NoSave}
           /\ Keeps(Copies(q) \cup Flying(w), Snapshots')
           /\ saveInFlight' # NoSave =>
                 \A x \in Copies(pendingSaves') \cup RowCopies : saveInFlight'.version < x.version
           /\ p = "flushed" => Snapshots' = {} /\ immediates = {}
<1>0. /\ q \in Seq(Pending) /\ Len(q) <= MaxPending /\ Sorted(q)
      /\ w \in Pending \cup {NoSave}
      /\ w # NoSave => \A x \in Copies(q) \cup RowCopies : w.version < x.version
  BY DEF TurnReady
<1>1. Copies(q) \cup Flying(w) \in SUBSET CopyType
  <2>1. Copies(q) \subseteq CopyType
    BY <1>0, CopiesTyped
  <2>2. Flying(w) \subseteq CopyType
    BY <1>0, NoSaveIsNone DEF Flying, Copy, CopyType, Pending
  <2> QED  BY <2>1, <2>2
<1>2. CASE pendingSaves' = q /\ saveInFlight' = w
  <2>1. Snapshots' = Copies(q) \cup Flying(w)
    BY <1>2 DEF Snapshots, Copies, Flying
  <2>2. Keeps(Copies(q) \cup Flying(w), Snapshots')
    BY <1>1, <2>1, KeepsAll
  <2>3. p = "flushed" => Snapshots' = {} /\ immediates = {}
    <3>1. p = "flushed" => immediates = {} /\ w = NoSave /\ q = <<>>
      BY DEF TurnTo
    <3> QED  BY <3>1, <2>1, NoCopies DEF Flying
  <2> QED  BY <1>0, <1>2, <2>2, <2>3
<1>3. CASE p = "owner" /\ immediates = {} /\ w = NoSave /\ q # <<>>
           /\ pendingSaves' = <<>> /\ saveInFlight' = Latest(q)
  <2>1. Latest(q) \in Pending /\ Latest(q) # NoSave /\ Keeps(Copies(q), {Copy(Latest(q))})
    BY <1>0, <1>3, LastKeeps
  <2>2. Snapshots' = {Copy(Latest(q))}
    BY <1>3, <2>1, NoCopies DEF Snapshots, Flying
  <2>3. Copies(pendingSaves') = {} /\ RowCopies = {} /\ Flying(w) = {}
    BY <1>3, NoCopies DEF RowCopies, Flying
  <2> QED  BY <1>3, <2>1, <2>2, <2>3, NoCopies, Limits
<1>4. CASE p = "flushed" /\ immediates = {} /\ w = NoSave /\ q = <<>>
           /\ pendingSaves' = <<>> /\ saveInFlight' = NoSave
  <2>1. Snapshots' = {} /\ Copies(q) \cup Flying(w) = {}
    BY <1>4, NoCopies DEF Snapshots, Flying
  <2> QED  BY <1>4, <2>1, NoCopies, Limits DEF Keeps
<1> QED  BY <1>2, <1>3, <1>4 DEF TurnTo

(* The types that matter to the queue. *)
LEMMA QueueTyped ==
    ASSUME QueueInvariant
    PROVE  /\ pendingSaves \in Seq(Pending) /\ Len(pendingSaves) <= MaxPending
           /\ saveInFlight \in Pending \cup {NoSave}
           /\ immediates \subseteq Immediate
           /\ pendingVersion \in Nat /\ savedVersion \in Nat
           /\ store \in Content
           /\ job \in [Callers -> Jobs] /\ at \in [Callers -> Points]
           /\ waits \in [Callers -> SUBSET Nat]
           /\ Copies(pendingSaves) \subseteq CopyType /\ Flying(saveInFlight) \subseteq CopyType
           /\ RowCopies \subseteq CopyType /\ Snapshots \in SUBSET CopyType
<1>1. /\ pendingSaves \in Seq(Pending) /\ Len(pendingSaves) <= MaxPending
      /\ saveInFlight \in Pending \cup {NoSave}
      /\ immediates \subseteq Immediate
      /\ pendingVersion \in Nat /\ savedVersion \in Nat
      /\ store \in Content
      /\ job \in [Callers -> Jobs] /\ at \in [Callers -> Points]
      /\ waits \in [Callers -> SUBSET Nat]
  BY DEF QueueInvariant, TransferTypeOK, TypeOK
<1>2. Copies(pendingSaves) \subseteq CopyType
  BY <1>1, CopiesTyped
<1>3. Flying(saveInFlight) \subseteq CopyType
  BY <1>1, NoSaveIsNone DEF Flying, Copy, CopyType, Pending
<1>4. RowCopies \subseteq CopyType
  BY <1>1 DEF RowCopies, Copy, CopyType, Immediate
<1> QED  BY <1>1, <1>2, <1>3, <1>4 DEF Snapshots

LEMMA Waits ==
    ASSUME QueueInvariant, NEW c \in Callers, at[c] # "immediates"
    PROVE  waits[c] = {}
BY DEF QueueInvariant, Places

(* A caller that is not writing may take a turn with the queue as it is. *)
LEMMA ReadyNow ==
    ASSUME QueueInvariant, NEW c \in Callers, at[c] # "owner", waits[c] = {}
    PROVE  TurnReady(c, pendingSaves, savedVersion, saveInFlight)
<1>1. saveInFlight # NoSave <=> \E d \in Callers \ {c} : at[d] = "owner"
  BY DEF QueueInvariant, Owned
<1>2. \A x \in Copies(pendingSaves) : savedVersion < x.version
  BY DEF QueueInvariant, Versions, Carriers, Snapshots
<1> QED  BY <1>1, <1>2, QueueTyped DEF TurnReady, QueueInvariant, Versions

(* The caller whose write has ended may, whether it was written or not. *)
LEMMA ReadyAfter ==
    ASSUME QueueInvariant, NEW c \in Callers, at[c] = "owner"
    PROVE  /\ saveInFlight \in Pending
           /\ Snapshots = Copies(pendingSaves) \cup {Copy(saveInFlight)}
           /\ savedVersion < saveInFlight.version /\ saveInFlight.version <= pendingVersion
           /\ TurnReady(c, pendingSaves, savedVersion, NoSave)
           /\ TurnReady(c, pendingSaves, saveInFlight.version, NoSave)
<1>1. saveInFlight # NoSave /\ ~ \E d \in Callers \ {c} : at[d] = "owner"
  BY DEF QueueInvariant, Owned
<1>2. saveInFlight \in Pending /\ Snapshots = Copies(pendingSaves) \cup {Copy(saveInFlight)}
  BY <1>1, QueueTyped DEF Snapshots, Flying
<1>3. waits[c] = {}
  BY Waits
<1>4. /\ \A x \in Copies(pendingSaves) : savedVersion < x.version
      /\ \A x \in Copies(pendingSaves) : saveInFlight.version < x.version
      /\ Sorted(pendingSaves)
  BY <1>1 DEF QueueInvariant, Versions, Carriers, Snapshots
<1>5. savedVersion < saveInFlight.version /\ saveInFlight.version <= pendingVersion
  <2>1. savedVersion < Copy(saveInFlight).version /\ Copy(saveInFlight).version <= pendingVersion
    BY <1>2 DEF QueueInvariant, Versions, Carriers
  <2> QED  BY <2>1 DEF Copy
<1>6. saveInFlight.version \in Nat
  BY <1>2 DEF Pending
<1> QED  BY <1>1, <1>2, <1>3, <1>4, <1>5, <1>6, QueueTyped DEF TurnReady

(* What a new snapshot does to the queue. *)
LEMMA Enqueued ==
    ASSUME QueueInvariant, NEW data \in Content,
           NEW q, q = Appended(pendingVersion + 1, data)
    PROVE  /\ Capped(q) \in Seq(Pending) /\ Len(Capped(q)) <= MaxPending /\ Sorted(Capped(q))
           /\ Capped(q) # <<>>
           /\ Keeps(Copies(pendingSaves) \cup {[version |-> pendingVersion + 1, data |-> data]},
                    Copies(Capped(q)))
           /\ \A x \in Copies(Capped(q)) : savedVersion < x.version /\ x.version <= pendingVersion + 1
           /\ saveInFlight # NoSave =>
                 \A x \in Copies(Capped(q)) : saveInFlight.version < x.version
<1> DEFINE new == [version |-> pendingVersion + 1, data |-> data]
           item == Item(pendingVersion + 1, data, 0)
<1>1. pendingVersion + 1 \in Nat \ {0} /\ 0 \in 0..MaxAttempts
  BY QueueTyped, Limits
<1>2. item \in Pending /\ Copy(item) = new /\ item.version = pendingVersion + 1
  BY <1>1, ItemTyped
<1>3. \A n \in 1..Len(pendingSaves) : pendingSaves[n].version <= pendingVersion
  <2> TAKE n \in 1..Len(pendingSaves)
  <2>1. Copy(pendingSaves[n]) \in Carriers
    BY QueueTyped, CopiesTyped DEF Carriers, Snapshots
  <2>2. Copy(pendingSaves[n]).version <= pendingVersion
    BY <2>1 DEF QueueInvariant, Versions
  <2> QED  BY <2>2 DEF Copy
<1>4. \A n \in 1..Len(pendingSaves) : pendingSaves[n].version <= pendingVersion + 1
  <2> TAKE n \in 1..Len(pendingSaves)
  <2>1. pendingSaves[n].version \in Nat
    BY QueueTyped, CopiesTyped DEF Pending
  <2> QED  BY <2>1, <1>3, QueueTyped
<1>5. Sorted(pendingSaves) /\ pendingSaves \in Seq(Pending)
  BY QueueTyped DEF QueueInvariant, Versions
<1> HIDE DEF item
<1>6. q \in Seq(Pending) /\ q # <<>> /\ Sorted(q) /\ Copies(q) = Copies(pendingSaves) \cup {new}
  <2>1. q = Append(pendingSaves, item)
    BY DEF Appended, item
  <2>2. \A n \in 1..Len(pendingSaves) : pendingSaves[n].version <= item.version
    BY <1>2, <1>4
  <2>3. item \in Pending /\ Copy(item) = new
    BY <1>2
  <2> HIDE DEF new
  <2> QED  BY <2>1, <2>2, <2>3, <1>5, AppendKeeps
<1>7. /\ Capped(q) \in Seq(Pending) /\ Len(Capped(q)) <= MaxPending /\ Sorted(Capped(q))
      /\ Capped(q) # <<>> /\ Keeps(Copies(pendingSaves) \cup {new}, Copies(Capped(q)))
  BY <1>6, CappedKeeps
<1>8. Copies(Capped(q)) \subseteq Copies(pendingSaves) \cup {new}
  BY <1>7 DEF Keeps
<1>9. \A x \in Copies(pendingSaves) : savedVersion < x.version /\ x.version <= pendingVersion /\ x.version \in Nat
  BY QueueTyped DEF QueueInvariant, Versions, Carriers, Snapshots, CopyType
<1>10. savedVersion <= pendingVersion
  BY DEF QueueInvariant, TransferTypeOK, TypeOK
<1>11. \A x \in Copies(Capped(q)) : savedVersion < x.version /\ x.version <= pendingVersion + 1
  <2> TAKE x \in Copies(Capped(q))
  <2>1. CASE x \in Copies(pendingSaves)
    BY <2>1, <1>9, QueueTyped
  <2>2. CASE x = new
    BY <2>2, <1>10, QueueTyped
  <2> QED  BY <2>1, <2>2, <1>8
<1>12. ASSUME saveInFlight # NoSave, NEW x \in Copies(Capped(q))
       PROVE  saveInFlight.version < x.version
  <2>1. saveInFlight.version \in Nat /\ saveInFlight.version <= pendingVersion
    <3>1. Copy(saveInFlight) \in Carriers /\ saveInFlight \in Pending
      BY <1>12, QueueTyped DEF Carriers, Snapshots, Flying
    <3>2. Copy(saveInFlight).version <= pendingVersion
      BY <3>1 DEF QueueInvariant, Versions
    <3> QED  BY <3>1, <3>2 DEF Copy, Pending
  <2>2. CASE x \in Copies(pendingSaves)
    BY <2>2, <1>12 DEF QueueInvariant, Versions
  <2>3. CASE x = new
    BY <2>3, <2>1, QueueTyped
  <2> QED  BY <2>2, <2>3, <1>8
<1> QED  BY <1>7, <1>11, <1>12

(* A turn leaves places, owner and versions as they must be. *)
LEMMA TurnPlaces ==
    ASSUME QueueInvariant, NEW c \in Callers, NEW q, NEW saved, NEW w, TurnReady(c, q, saved, w),
           NEW p \in Waiting, TurnTo(c, p, q, w),
           NEW work \in Jobs \ {"none"}, job' = [job EXCEPT ![c] = work]
    PROVE  /\ Places' /\ Owned'
           /\ at' \in [Callers -> Points] /\ waits' \in [Callers -> SUBSET Nat]
           /\ job' \in [Callers -> Jobs]
<1>1. /\ job \in [Callers -> Jobs] /\ at \in [Callers -> Points]
      /\ waits \in [Callers -> SUBSET Nat]
  BY QueueTyped
<1>2. /\ at' = [at EXCEPT ![c] = p] /\ at'[c] = p /\ job'[c] = work
      /\ \A d \in Callers : d # c => at'[d] = at[d] /\ job'[d] = job[d]
  BY <1>1 DEF TurnTo
<1>3. {i.version : i \in immediates} \in SUBSET Nat
  BY QueueTyped DEF Immediate
<1>4. /\ waits' \in [Callers -> SUBSET Nat]
      /\ \A d \in Callers : d # c => waits'[d] = waits[d]
      /\ waits'[c] # {} => p = "immediates"
  <2>1. waits[c] = {}
    BY DEF TurnReady
  <2> QED  BY <1>1, <1>3, <2>1 DEF TurnTo
<1>5. Places'
  <2> SUFFICES ASSUME NEW d \in Callers
               PROVE  /\ job'[d] = "none" <=> at'[d] = "idle"
                      /\ at'[d] \in {"reading", "read"} => job'[d] \in {"fetch", "refresh"}
                      /\ at'[d] = "joined" => job'[d] = "confirm"
                      /\ at'[d] = "locked" => job'[d] = "retry"
                      /\ at'[d] \in {"loading", "backup", "persisting"} => job'[d] = "transfer"
                      /\ waits'[d] # {} => at'[d] = "immediates"
    BY DEF Places
  <2>1. CASE d = c
    BY <2>1, <1>2, <1>4 DEF Waiting
  <2>2. CASE d # c
    BY <2>2, <1>2, <1>4 DEF QueueInvariant, Places
  <2> QED  BY <2>1, <2>2
<1>6. Owned'
  <2>1. w # NoSave <=> \E d \in Callers \ {c} : at[d] = "owner"
    BY DEF TurnReady
  <2>2. \A d, e \in Callers : at[d] = "owner" /\ at[e] = "owner" => d = e
    BY DEF QueueInvariant, Owned
  <2>3. p = "owner" => w = NoSave /\ saveInFlight' # NoSave
    <3>1. p = "owner" => w = NoSave /\ q # <<>> /\ saveInFlight' = Latest(q)
      BY DEF TurnTo
    <3> QED  BY <3>1, LastKeeps DEF TurnReady
  <2>4. p # "owner" => saveInFlight' = w
    BY DEF TurnTo
  <2> QED  BY <1>2, <2>1, <2>2, <2>3, <2>4 DEF Owned
<1>7. at' \in [Callers -> Points]
  BY <1>1, <1>2 DEF Points, Waiting
<1>8. job' \in [Callers -> Jobs]
  BY <1>1
<1> QED  BY <1>4, <1>5, <1>6, <1>7, <1>8

LEMMA TurnVersions ==
    ASSUME QueueInvariant, NEW c \in Callers, NEW q, NEW saved, NEW w, TurnReady(c, q, saved, w),
           NEW p, TurnTo(c, p, q, w), immediates' = immediates,
           \A x \in Copies(q) \cup Flying(w) \cup RowCopies :
               savedVersion' < x.version /\ x.version <= pendingVersion'
    PROVE  Versions'
<1>1. /\ Sorted(pendingSaves')
      /\ Keeps(Copies(q) \cup Flying(w), Snapshots')
      /\ saveInFlight' # NoSave =>
            \A x \in Copies(pendingSaves') \cup RowCopies : saveInFlight'.version < x.version
  BY TurnKeeps
<1>2. RowCopies' = RowCopies
  BY DEF RowCopies
<1>3. Carriers' \subseteq Copies(q) \cup Flying(w) \cup RowCopies
  BY <1>1, <1>2 DEF Carriers, Keeps
<1> QED  BY <1>1, <1>2, <1>3 DEF Versions, Copies

(* The same for a turn with the queue as it is. *)
LEMMA TurnNow ==
    ASSUME QueueInvariant, NEW c \in Callers, at[c] # "owner", waits[c] = {},
           Turn(c, pendingSaves, savedVersion, saveInFlight),
           NEW work \in Jobs \ {"none"}, job' = [job EXCEPT ![c] = work],
           UNCHANGED <<immediates, savedVersion, pendingVersion>>
    PROVE  /\ Places' /\ Owned' /\ Versions'
           /\ at' \in [Callers -> Points] /\ waits' \in [Callers -> SUBSET Nat]
           /\ job' \in [Callers -> Jobs]
           /\ pendingSaves' \in Seq(Pending) /\ Len(pendingSaves') <= MaxPending
           /\ saveInFlight' \in Pending \cup {NoSave}
           /\ Keeps(Snapshots, Snapshots')
           /\ \E p \in Waiting :
                 /\ TurnTo(c, p, pendingSaves, saveInFlight)
                 /\ p = "flushed" => Snapshots' = {} /\ immediates = {}
<1>1. TurnReady(c, pendingSaves, savedVersion, saveInFlight)
  BY ReadyNow
<1>2. PICK p \in Waiting : TurnTo(c, p, pendingSaves, saveInFlight)
  BY <1>1, TurnCases
<1>3. \A x \in Copies(pendingSaves) \cup Flying(saveInFlight) \cup RowCopies :
          savedVersion' < x.version /\ x.version <= pendingVersion'
  BY DEF QueueInvariant, Versions, Carriers, Snapshots
<1>4. Versions'
  BY <1>1, <1>2, <1>3, TurnVersions
<1>5. Places' /\ Owned' /\ at' \in [Callers -> Points] /\ waits' \in [Callers -> SUBSET Nat]
      /\ job' \in [Callers -> Jobs]
  BY <1>1, <1>2, TurnPlaces
<1>6. /\ pendingSaves' \in Seq(Pending) /\ Len(pendingSaves') <= MaxPending
      /\ saveInFlight' \in Pending \cup {NoSave}
      /\ Keeps(Snapshots, Snapshots')
      /\ p = "flushed" => Snapshots' = {} /\ immediates = {}
  BY <1>1, <1>2, TurnKeeps DEF Snapshots
<1> QED  BY <1>2, <1>4, <1>5, <1>6

(* A caller that begins flushing, or goes on with it. *)
LEMMA SameJob ==
    ASSUME QueueInvariant, NEW c \in Callers, at[c] # "idle", UNCHANGED job
    PROVE  job[c] \in Jobs \ {"none"} /\ job' = [job EXCEPT ![c] = job[c]]
BY QueueTyped DEF QueueInvariant, Places

-----------------------------------------------------------------------------
(* Types, places and versions, step by step.                                *)

(* A caller takes a turn with the queue as it is, its job being work from now on. *)
Pushes(c, work) ==
    /\ at[c] # "owner" /\ waits[c] = {}
    /\ work \in Jobs \ {"none"} /\ job' = [job EXCEPT ![c] = work]
    /\ Turn(c, pendingSaves, savedVersion, saveInFlight)
    /\ UNCHANGED <<world, made, store, pendingVersion, savedVersion, immediates, failure, acked>>

LEMMA NoWorkPushes ==
    ASSUME NEW c \in Callers, ~PendingWork, Goto(c, "flushed"),
           UNCHANGED <<pendingSaves, saveInFlight, waits>>
    PROVE  Turn(c, pendingSaves, savedVersion, saveInFlight)
BY DEF Turn, PendingWork

LEMMA ContinuePushes ==
    ASSUME QueueInvariant, NEW c \in Callers, Continue(c) \/ Wake(c)
    PROVE  /\ Pushes(c, job[c])
           /\ at[c] \in {"immediates", "inflight", "sleep"}
           /\ UNCHANGED <<disk, rows, held, since, timer, calls, faults>>
<1>1. at[c] \in {"immediates", "inflight", "sleep"} /\ waits[c] = {}
  BY Waits DEF Continue, Wake
<1>2. job[c] \in Jobs \ {"none"} /\ job' = [job EXCEPT ![c] = job[c]]
  BY <1>1, SameJob DEF Continue, Wake
<1> QED  BY <1>1, <1>2 DEF Pushes, Continue, Wake

LEMMA TimerPushes ==
    ASSUME QueueInvariant, NEW c \in Callers, TimerFires(c)
    PROVE  /\ Pushes(c, "flush") /\ at[c] = "idle" /\ timer' = FALSE
           /\ UNCHANGED <<disk, rows, held, since, calls, faults>>
BY Waits DEF TimerFires, Pushes, Begin, Flushing, Jobs

LEMMA FetchPushes ==
    ASSUME QueueInvariant, NEW c \in Callers, Fetch(c)
    PROVE  /\ Pushes(c, "fetch") /\ at[c] = "idle" /\ timer' \in {timer, FALSE}
           /\ calls < world.calls /\ calls' = calls + 1
           /\ UNCHANGED <<disk, rows, held, since, faults>>
<1>1. waits[c] = {} /\ at[c] = "idle"
  BY Waits DEF Fetch
<1>2. Turn(c, pendingSaves, savedVersion, saveInFlight) /\ timer' \in {timer, FALSE}
  BY NoWorkPushes DEF Fetch, Flushing
<1> QED  BY <1>1, <1>2 DEF Fetch, Pushes, Begin, Jobs

LEMMA ConfirmPushes ==
    ASSUME QueueInvariant, NEW c \in Callers, Confirm(c)
    PROVE  /\ Pushes(c, "confirm") /\ at[c] = "idle" /\ timer' = FALSE
           /\ calls + 1 < world.calls /\ calls' = calls + 2
           /\ held' = [held EXCEPT ![c] = store]
           /\ UNCHANGED <<disk, rows, since, faults>>
BY Waits DEF Confirm, Pushes, Begin, Flushing, Jobs

LEMMA TransferPushes ==
    ASSUME QueueInvariant, NEW c \in Callers, Transfer(c)
    PROVE  /\ Pushes(c, "transfer") /\ at[c] = "idle" /\ timer' = FALSE
           /\ outcome = "none" /\ outcome' = "tried"
           /\ UNCHANGED <<disk, rows, held, since, calls, faults, spoiled, overtaken>>
BY Waits DEF Transfer, Pushes, Begin, Flushing, Jobs

LEMMA PersistedPushes ==
    ASSUME QueueInvariant, NEW c \in Callers, Persisted(c)
    PROVE  /\ Pushes(c, "refresh") /\ at[c] = "persisting" /\ timer' \in {timer, FALSE}
           /\ disk' = Stored(held[c]) /\ Made({Import}) /\ held' = [held EXCEPT ![c] = {}]
           /\ UNCHANGED <<since, calls, faults, transfer>>
<1>1. waits[c] = {} /\ at[c] = "persisting"
  BY Waits DEF Persisted
<1>2. Turn(c, pendingSaves, savedVersion, saveInFlight) /\ timer' \in {timer, FALSE}
  BY NoWorkPushes DEF Persisted, Flushing
<1> QED  BY <1>1, <1>2 DEF Persisted, Pushes, Begin, Jobs

LEMMA WorldTyped ==
    ASSUME TypeOK
    PROVE  /\ world.edits \in 0..MaxEdits /\ world.calls \in Nat /\ world.faults \in Nat
           /\ made \in Nat /\ made <= MaxEdits /\ calls \in Nat /\ faults \in Nat
           /\ 0..made \subseteq 0..MaxEdits
           /\ Import \in 0..MaxEdits
BY Limits DEF TypeOK, Import

LEMMA PushesQueue ==
    ASSUME QueueInvariant, NEW c \in Callers, NEW work, Pushes(c, work),
           rows' \in Content, disk' \in Content, timer' \in BOOLEAN,
           held' \in [Callers -> Content], since' \in [Callers -> 0..MaxEdits],
           calls' \in 0..world.calls, faults' \in 0..world.faults,
           outcome' \in {"none", "tried", "done"}, spoiled' \in BOOLEAN, overtaken' \in BOOLEAN
    PROVE  QueueInvariant'
<1>1. /\ Places' /\ Owned' /\ Versions'
      /\ at' \in [Callers -> Points] /\ waits' \in [Callers -> SUBSET Nat]
      /\ job' \in [Callers -> Jobs]
      /\ pendingSaves' \in Seq(Pending) /\ Len(pendingSaves') <= MaxPending
      /\ saveInFlight' \in Pending \cup {NoSave}
  BY TurnNow DEF Pushes
<1> QED  BY <1>1 DEF QueueInvariant, TransferTypeOK, TypeOK, Pushes

LEMMA StoredTyped ==
    ASSUME NEW data \in Content, disk \in Content
    PROVE  Stored(data) \in Content
BY DEF Stored, Content

LEMMA PushesTyped ==
    ASSUME QueueInvariant, NEW c \in Callers
    PROVE  /\ Continue(c) /\ UNCHANGED transfer => QueueInvariant'
           /\ Wake(c) /\ UNCHANGED transfer => QueueInvariant'
           /\ TimerFires(c) /\ UNCHANGED transfer => QueueInvariant'
           /\ Fetch(c) /\ UNCHANGED transfer => QueueInvariant'
           /\ Confirm(c) /\ UNCHANGED transfer => QueueInvariant'
           /\ Transfer(c) => QueueInvariant'
           /\ Persisted(c) => QueueInvariant'
<1>0. TransferTypeOK /\ TypeOK
  BY DEF QueueInvariant, TransferTypeOK
<1>1. /\ rows \in Content /\ disk \in Content /\ store \in Content /\ timer \in BOOLEAN
      /\ held \in [Callers -> Content] /\ since \in [Callers -> 0..MaxEdits]
      /\ calls \in 0..world.calls /\ faults \in 0..world.faults /\ world.calls \in Nat
      /\ outcome \in {"none", "tried", "done"} /\ spoiled \in BOOLEAN /\ overtaken \in BOOLEAN
  BY <1>0, WorldTyped DEF TransferTypeOK, TypeOK
<1>2. ASSUME Continue(c) \/ Wake(c), UNCHANGED transfer PROVE QueueInvariant'
  BY <1>1, <1>2, ContinuePushes, PushesQueue DEF transfer
<1>3. ASSUME TimerFires(c), UNCHANGED transfer PROVE QueueInvariant'
  BY <1>1, <1>3, TimerPushes, PushesQueue DEF transfer
<1>4. ASSUME Fetch(c), UNCHANGED transfer PROVE QueueInvariant'
  <2>0. calls' \in 0..world.calls
    BY <1>1, <1>4 DEF Fetch
  <2>1. Pushes(c, "fetch") /\ timer' \in BOOLEAN
    BY <1>1, <1>4, FetchPushes
  <2>2. UNCHANGED <<disk, rows, held, since, faults>>
    BY <1>4, FetchPushes
  <2>3. faults' \in 0..world.faults
    BY <1>1, <2>2
  <2> QED  BY <1>1, <1>4, <2>0, <2>1, <2>2, <2>3, PushesQueue DEF transfer
<1>5. ASSUME Confirm(c), UNCHANGED transfer PROVE QueueInvariant'
  <2>0. calls' \in 0..world.calls
    BY <1>1, <1>5 DEF Confirm
  <2>1. Pushes(c, "confirm") /\ timer' \in BOOLEAN
    BY <1>1, <1>5, ConfirmPushes
  <2>2. held' \in [Callers -> Content]
    BY <1>1, <1>5, ConfirmPushes
  <2>3. UNCHANGED <<disk, rows, since, faults>>
    BY <1>5, ConfirmPushes
  <2>4. faults' \in 0..world.faults
    BY <1>1, <2>3
  <2> QED  BY <1>1, <1>5, <2>0, <2>1, <2>2, <2>3, <2>4, PushesQueue DEF transfer
<1>6. ASSUME Transfer(c) PROVE QueueInvariant'
  BY <1>1, <1>6, TransferPushes, PushesQueue
<1>7. ASSUME Persisted(c) PROVE QueueInvariant'
  <2>1. held[c] \in Content
    BY <1>1
  <2>2. disk' \in Content
    BY <1>1, <1>7, <2>1, PersistedPushes, StoredTyped
  <2>3. Import \in 0..MaxEdits
    BY <1>0, WorldTyped
  <2>4. rows' \in Content
    BY <1>1, <1>7, <2>3, PersistedPushes DEF Made, Content
  <2>5. held' \in [Callers -> Content]
    BY <1>1, <1>7, PersistedPushes DEF Content
  <2>6. Pushes(c, "refresh") /\ timer' \in BOOLEAN
    BY <1>1, <1>7, PersistedPushes
  <2> QED  BY <1>1, <1>7, <2>2, <2>4, <2>5, <2>6, PersistedPushes, PushesQueue DEF transfer
<1> QED  BY <1>2, <1>3, <1>4, <1>5, <1>6, <1>7

(* A caller that comes to another point, or ends, with the queue left alone. *)
Moves(c, point) ==
    /\ at[c] # "owner" /\ point \in Points \ {"owner"}
    /\ at' = [at EXCEPT ![c] = point]
    /\ UNCHANGED <<world, rows, made, disk, queue>>

LEMMA MovesQueue ==
    ASSUME QueueInvariant, NEW c \in Callers, NEW point, Moves(c, point),
           NEW work \in Jobs, job' = [job EXCEPT ![c] = work],
           work = "none" <=> point = "idle",
           point \in {"reading", "read"} => work \in {"fetch", "refresh"},
           point = "joined" => work = "confirm",
           point = "locked" => work = "retry",
           point \in {"loading", "backup", "persisting"} => work = "transfer",
           waits' = [waits EXCEPT ![c] = {}],
           store' \in Content, acked' \in Content, failure' \in BOOLEAN,
           held' \in [Callers -> Content], since' \in [Callers -> 0..MaxEdits],
           calls' \in 0..world.calls, faults' \in 0..world.faults,
           outcome' \in {"none", "tried", "done"}, spoiled' \in BOOLEAN, overtaken' \in BOOLEAN
    PROVE  QueueInvariant'
<1>1. /\ job \in [Callers -> Jobs] /\ at \in [Callers -> Points]
      /\ waits \in [Callers -> SUBSET Nat]
  BY QueueTyped
<1>2. Places'
  BY <1>1 DEF QueueInvariant, Places, Moves
<1>3. Owned'
  BY <1>1 DEF QueueInvariant, Owned, Moves, queue
<1>4. Versions'
  BY DEF QueueInvariant, Versions, Carriers, Snapshots, RowCopies, Copies, Sorted, Flying, Moves, queue
<1>5. TypeOK'
  BY <1>1 DEF QueueInvariant, TransferTypeOK, TypeOK, Moves, queue
<1> QED  BY <1>2, <1>3, <1>4, <1>5 DEF QueueInvariant, TransferTypeOK

LEMMA NoWaits ==
    ASSUME QueueInvariant, NEW c \in Callers, at[c] # "immediates", UNCHANGED waits
    PROVE  waits' = [waits EXCEPT ![c] = {}]
<1>1. waits[c] = {} /\ waits \in [Callers -> SUBSET Nat]
  BY Waits, QueueTyped
<1> QED  BY <1>1

(* The steps of a caller between its turns. *)
LEMMA MovesTyped ==
    ASSUME QueueInvariant, NEW c \in Callers
    PROVE  /\ Flushed(c) /\ UNCHANGED transfer => QueueInvariant'
           /\ FetchBegins(c) /\ UNCHANGED transfer => QueueInvariant'
           /\ FetchReads(c) /\ UNCHANGED transfer => QueueInvariant'
           /\ FetchGivesUp(c) /\ UNCHANGED transfer => QueueInvariant'
           /\ Reloaded(c) /\ UNCHANGED <<outcome, spoiled>> => QueueInvariant'
           /\ Refreshed(c) => QueueInvariant'
           /\ Capture(c) => QueueInvariant'
           /\ Load(c) => QueueInvariant'
           /\ Dispatch(c) => QueueInvariant'
           /\ TransferFails(c) => QueueInvariant'
           /\ Confirmed(c) /\ UNCHANGED transfer => QueueInvariant'
           /\ Recovered(c) /\ UNCHANGED transfer => QueueInvariant'
<1>0. TransferTypeOK /\ TypeOK /\ Places
  BY DEF QueueInvariant, TransferTypeOK
<1>1. /\ rows \in Content /\ disk \in Content /\ store \in Content /\ acked \in Content
      /\ timer \in BOOLEAN /\ failure \in BOOLEAN
      /\ held \in [Callers -> Content] /\ since \in [Callers -> 0..MaxEdits]
      /\ calls \in 0..world.calls /\ faults \in 0..world.faults
      /\ outcome \in {"none", "tried", "done"} /\ spoiled \in BOOLEAN /\ overtaken \in BOOLEAN
      /\ job \in [Callers -> Jobs] /\ job[c] \in Jobs /\ held[c] \in Content
      /\ made \in 0..MaxEdits /\ 0 \in 0..MaxEdits /\ Import \in 0..MaxEdits
      /\ {} \in Content /\ "none" \in Jobs
  <2>1. made \in 0..MaxEdits /\ 0 \in 0..MaxEdits /\ Import \in 0..MaxEdits
    BY <1>0, WorldTyped, Limits
  <2>2. {} \in Content /\ "none" \in Jobs
    BY DEF Content, Jobs
  <2> QED  BY <1>0, <2>1, <2>2 DEF TransferTypeOK, TypeOK
<1>2. ASSUME End(c), at[c] # "owner", UNCHANGED <<world, rows, made, disk, queue>>,
             store' \in Content, acked' \in Content, UNCHANGED <<failure, calls>>,
             since' \in [Callers -> 0..MaxEdits], faults' \in 0..world.faults,
             outcome' \in {"none", "tried", "done"}, spoiled' \in BOOLEAN, overtaken' \in BOOLEAN
      PROVE  QueueInvariant'
  <2>1. Moves(c, "idle") /\ job' = [job EXCEPT ![c] = "none"] /\ waits' = [waits EXCEPT ![c] = {}]
        /\ held' \in [Callers -> Content]
    BY <1>1, <1>2 DEF End, Moves, Goto, Begin, Points
  <2>2. failure' \in BOOLEAN /\ calls' \in 0..world.calls
    BY <1>1, <1>2
  <2>3. "none" \in Jobs
    BY DEF Jobs
  <2> DEFINE work == "none" point == "idle"
  <2>5. /\ work \in Jobs /\ (work = "none" <=> point = "idle")
        /\ Moves(c, point) /\ job' = [job EXCEPT ![c] = work]
        /\ point \notin {"reading", "read", "joined", "locked", "loading", "backup", "persisting"}
    BY <2>1, <2>3
  <2> HIDE DEF work, point
  <2> QED  BY <1>2, <2>1, <2>2, <2>5, MovesQueue
<1>3. ASSUME NEW point \in Points \ {"owner"}, Goto(c, point), at[c] \notin {"owner", "immediates"},
             UNCHANGED <<world, rows, made, store, disk, queue, failure, job, waits, acked, calls, faults,
                         transfer>>,
             job[c] # "none", point # "idle",
             point \in {"reading", "read"} => job[c] \in {"fetch", "refresh"},
             point = "joined" => job[c] = "confirm",
             point = "locked" => job[c] = "retry",
             point \in {"loading", "backup", "persisting"} => job[c] = "transfer",
             held' \in [Callers -> Content], since' \in [Callers -> 0..MaxEdits]
      PROVE  QueueInvariant'
  <2>1. Moves(c, point) /\ job' = [job EXCEPT ![c] = job[c]]
    BY <1>1, <1>3 DEF Moves, Goto
  <2>2. waits' = [waits EXCEPT ![c] = {}]
    BY <1>3, NoWaits
  <2> QED  BY <1>1, <1>3, <2>1, <2>2, MovesQueue DEF transfer
<1>4. ASSUME Flushed(c), UNCHANGED transfer PROVE QueueInvariant'
  BY <1>1, <1>2, <1>4 DEF Flushed, transfer
<1>5. ASSUME FetchBegins(c), UNCHANGED transfer PROVE QueueInvariant'
  <2>1. since' \in [Callers -> 0..MaxEdits] /\ job[c] \in {"fetch", "refresh"}
    BY <1>1, <1>5 DEF FetchBegins, Fetching
  <2> QED  BY <1>1, <1>3, <1>5, <2>1 DEF FetchBegins, Points
<1>6. ASSUME FetchReads(c), UNCHANGED transfer PROVE QueueInvariant'
  <2>1. held' \in [Callers -> Content] /\ job[c] \in {"fetch", "refresh"}
    BY <1>0, <1>1, <1>6 DEF FetchReads, Places
  <2> QED  BY <1>1, <1>3, <1>6, <2>1 DEF FetchReads, Points
<1>7. ASSUME FetchGivesUp(c), UNCHANGED <<outcome, overtaken>> \/ (outcome' = "done" /\ UNCHANGED overtaken),
             spoiled' \in BOOLEAN
      PROVE  QueueInvariant'
  <2>1. since' \in [Callers -> 0..MaxEdits]
    BY <1>1, <1>7 DEF FetchGivesUp
  <2> QED  BY <1>1, <1>2, <1>7, <2>1 DEF FetchGivesUp
<1>8. ASSUME Reloaded(c), outcome' \in {outcome, "done"}, spoiled' \in BOOLEAN
      PROVE  QueueInvariant'
  <2>1. since' \in [Callers -> 0..MaxEdits] /\ store' \in Content /\ overtaken' \in BOOLEAN
    BY <1>1, <1>8 DEF Reloaded, FetchApplies, Overtaken, PendingWork
  <2> QED  BY <1>1, <1>2, <1>8, <2>1 DEF Reloaded, FetchApplies
<1>9. ASSUME Refreshed(c) PROVE QueueInvariant'
  <2>1. CASE Reloaded(c) /\ spoiled' = (spoiled \/ ~Unchanged(c))
    BY <1>1, <1>8, <1>9, <2>1 DEF Refreshed
  <2>2. CASE FetchGivesUp(c) /\ spoiled' = TRUE /\ UNCHANGED overtaken
    BY <1>1, <1>7, <1>9, <2>2 DEF Refreshed
  <2> QED  BY <1>9, <2>1, <2>2 DEF Refreshed
<1>10. ASSUME Capture(c) PROVE QueueInvariant'
  <2>1. since' \in [Callers -> 0..MaxEdits]
    BY <1>1, <1>10 DEF Capture
  <2> QED  BY <1>1, <1>3, <1>10, <2>1 DEF Capture, Points
<1>11. ASSUME Load(c) PROVE QueueInvariant'
  <2>1. CASE Fresh(c)
    <3>1. held' \in [Callers -> Content] /\ job[c] = "transfer"
      BY <1>0, <1>1, <1>11, <2>1 DEF Load, Places, Content
    <3> QED  BY <1>1, <1>3, <1>11, <2>1, <3>1 DEF Load, Points
  <2>2. CASE ~Fresh(c)
    <3>1. since' \in [Callers -> 0..MaxEdits]
      BY <1>1, <1>11, <2>2 DEF Load, Abort
    <3> QED  BY <1>1, <1>2, <1>11, <2>2, <3>1 DEF Load, Abort, transfer
  <2> QED  BY <2>1, <2>2
<1>12. ASSUME Dispatch(c) PROVE QueueInvariant'
  <2>1. CASE Fresh(c)
    <3>1. job[c] = "transfer"
      BY <1>0, <1>12 DEF Dispatch, Places
    <3> QED  BY <1>1, <1>3, <1>12, <2>1, <3>1 DEF Dispatch, Points
  <2>2. CASE ~Fresh(c)
    <3>1. since' \in [Callers -> 0..MaxEdits]
      BY <1>1, <1>12, <2>2 DEF Dispatch, Abort
    <3> QED  BY <1>1, <1>2, <1>12, <2>2, <3>1 DEF Dispatch, Abort, transfer
  <2> QED  BY <2>1, <2>2
<1>13. ASSUME TransferFails(c) PROVE QueueInvariant'
  <2>1. faults' \in 0..world.faults
    BY <1>0, <1>13, WorldTyped DEF TransferFails
  <2>2. since' \in [Callers -> 0..MaxEdits] /\ at[c] # "owner"
    BY <1>1, <1>13 DEF TransferFails, Abort
  <2> QED  BY <1>1, <1>2, <1>13, <2>1, <2>2 DEF TransferFails, Abort, transfer
<1>14. ASSUME Confirmed(c), UNCHANGED transfer PROVE QueueInvariant'
  <2>1. acked' \in Content
    BY <1>1, <1>14 DEF Confirmed, Acknowledge, Content
  <2> QED  BY <1>1, <1>2, <1>14, <2>1 DEF Confirmed, transfer
<1>15. ASSUME Recovered(c), UNCHANGED transfer PROVE QueueInvariant'
  <2>1. acked' \in Content /\ at[c] # "owner"
    BY <1>1, <1>15 DEF Recovered, Acknowledge, Content
  <2> QED  BY <1>1, <1>2, <1>15, <2>1 DEF Recovered, transfer
<1> QED  BY <1>1, <1>4, <1>5, <1>6, <1>7, <1>8, <1>9, <1>10, <1>11, <1>12, <1>13, <1>14, <1>15 DEF transfer

(* A retry queues a snapshot of the store and takes a turn. *)
NewCopy == [version |-> pendingVersion + 1, data |-> store]
LEMMA PersistSteps ==
    ASSUME QueueInvariant, NEW c \in Callers, at[c] # "owner", waits[c] = {}, Persist(c),
           UNCHANGED <<world, rows, made, store, disk, savedVersion, immediates, since, acked, faults, transfer>>,
           held' \in [Callers -> Content], calls' \in 0..world.calls
    PROVE  /\ QueueInvariant'
           /\ failure => failure'
           /\ pendingVersion' = pendingVersion + 1
           /\ job' = [job EXCEPT ![c] = "retry"]
           /\ \E p \in Waiting : at' = [at EXCEPT ![c] = p] /\ p # "flushed"
           /\ Keeps(Snapshots \cup {NewCopy}, Snapshots')
<1> DEFINE q == Appended(pendingVersion + 1, store)
<1>1. /\ Capped(q) \in Seq(Pending) /\ Len(Capped(q)) <= MaxPending /\ Sorted(Capped(q))
      /\ Capped(q) # <<>>
      /\ Keeps(Copies(pendingSaves) \cup {NewCopy}, Copies(Capped(q)))
      /\ \A x \in Copies(Capped(q)) : savedVersion < x.version /\ x.version <= pendingVersion + 1
      /\ saveInFlight # NoSave =>
            \A x \in Copies(Capped(q)) : saveInFlight.version < x.version
  BY Enqueued, QueueTyped DEF NewCopy
<1>2. /\ job' = [job EXCEPT ![c] = "retry"] /\ pendingVersion' = pendingVersion + 1
      /\ Turn(c, Capped(q), savedVersion, saveInFlight) /\ timer' = FALSE
      /\ failure' = (failure \/ Overflows(q))
  BY DEF Persist, Begin, Flushing
<1> HIDE DEF q
<1>3. TurnReady(c, Capped(q), savedVersion, saveInFlight)
  <2>1. TurnReady(c, pendingSaves, savedVersion, saveInFlight)
    BY ReadyNow
  <2> QED  BY <1>1, <2>1 DEF TurnReady
<1>4. PICK p \in Waiting : TurnTo(c, p, Capped(q), saveInFlight)
  BY <1>2, <1>3, TurnCases
<1>5. Places' /\ Owned' /\ at' \in [Callers -> Points] /\ waits' \in [Callers -> SUBSET Nat]
      /\ job' \in [Callers -> Jobs]
  <2>1. "retry" \in Jobs \ {"none"}
    BY DEF Jobs
  <2> QED  BY <1>2, <1>3, <1>4, <2>1, TurnPlaces
<1>6. \A x \in Copies(Capped(q)) \cup Flying(saveInFlight) \cup RowCopies :
          savedVersion' < x.version /\ x.version <= pendingVersion'
  <2> TAKE x \in Copies(Capped(q)) \cup Flying(saveInFlight) \cup RowCopies
  <2>1. CASE x \in Copies(Capped(q))
    BY <2>1, <1>1, <1>2
  <2>2. CASE x \in Flying(saveInFlight) \cup RowCopies
    <3>1. savedVersion < x.version /\ x.version <= pendingVersion
      BY <2>2 DEF QueueInvariant, Versions, Carriers, Snapshots
    <3>2. x.version \in Nat
      BY <2>2, QueueTyped DEF CopyType
    <3> QED  BY <3>1, <3>2, <1>2, QueueTyped
  <2> QED  BY <2>1, <2>2
<1>7. Versions'
  BY <1>3, <1>4, <1>6, TurnVersions
<1>8. /\ pendingSaves' \in Seq(Pending) /\ Len(pendingSaves') <= MaxPending
      /\ saveInFlight' \in Pending \cup {NoSave}
      /\ Keeps(Copies(Capped(q)) \cup Flying(saveInFlight), Snapshots')
  BY <1>3, <1>4, TurnKeeps
<1>9. Keeps(Snapshots \cup {NewCopy}, Snapshots')
  <2>1. Copies(pendingSaves) \cup {NewCopy} \in SUBSET CopyType /\ Flying(saveInFlight) \in SUBSET CopyType
    BY QueueTyped DEF NewCopy, CopyType
  <2>2. Keeps(Copies(pendingSaves) \cup {NewCopy} \cup Flying(saveInFlight),
              Copies(Capped(q)) \cup Flying(saveInFlight))
    BY <1>1, <2>1, KeepsMore
  <2>3. Copies(pendingSaves) \cup {NewCopy} \cup Flying(saveInFlight) = Snapshots \cup {NewCopy}
    BY DEF Snapshots
  <2>4. Snapshots \cup {NewCopy} \in SUBSET CopyType
    BY <2>1, <2>3
  <2> QED  BY <1>8, <2>2, <2>3, <2>4, KeepsOn
<1>10. p # "flushed"
  BY <1>1, <1>4 DEF TurnTo
<1>11. pendingVersion' \in Nat /\ savedVersion' \in 0..pendingVersion'
  BY <1>2, QueueTyped DEF QueueInvariant, TransferTypeOK, TypeOK
<1>12. failure' \in BOOLEAN /\ (failure => failure')
  BY <1>2 DEF Overflows
<1>13. TransferTypeOK'
  BY <1>2, <1>5, <1>8, <1>11, <1>12 DEF QueueInvariant, TransferTypeOK, TypeOK, transfer
<1> QED  BY <1>2, <1>4, <1>5, <1>7, <1>9, <1>10, <1>12, <1>13 DEF QueueInvariant, TurnTo

LEMMA RetryTyped ==
    ASSUME QueueInvariant, NEW c \in Callers, UNCHANGED transfer,
           Retry(c) \/ Unlocked(c) \/ (Recover(c) /\ ~Retrying /\ ~Locked)
    PROVE  /\ at[c] # "owner" /\ waits[c] = {} /\ Persist(c)
           /\ UNCHANGED <<world, rows, made, store, disk, savedVersion, immediates, held, since, acked, faults, transfer>>
           /\ calls' \in 0..world.calls /\ held' \in [Callers -> Content]
<1>1. TypeOK
  BY DEF QueueInvariant, TransferTypeOK
<1>2. calls' \in 0..world.calls /\ held' \in [Callers -> Content]
  <2>1. held' = held /\ (calls' = calls \/ (calls < world.calls /\ calls' = calls + 1))
    BY DEF Retry, Unlocked, Recover
  <2>2. world.calls \in Nat /\ calls \in 0..world.calls /\ held \in [Callers -> Content]
    BY <1>1, WorldTyped DEF TypeOK
  <2> QED  BY <2>1, <2>2
<1>3. at[c] \in {"idle", "locked", "flushed"} /\ waits[c] = {}
  BY Waits DEF Retry, Unlocked, Recover
<1>4. Persist(c) /\ UNCHANGED <<savedVersion, immediates>>
  BY DEF Retry, Unlocked, Recover
<1> QED  BY <1>2, <1>3, <1>4 DEF Retry, Unlocked, Recover

LEMMA RecoverTyped ==
    ASSUME QueueInvariant, NEW c \in Callers, UNCHANGED transfer, Recover(c), Retrying \/ Locked
    PROVE  /\ QueueInvariant'
           /\ at' = [at EXCEPT ![c] = IF Retrying THEN "joined" ELSE "locked"]
           /\ job' = [job EXCEPT ![c] = IF Retrying THEN "confirm" ELSE "retry"]
           /\ UNCHANGED <<world, rows, made, store, disk, queue, failure, waits, held, since, acked, calls, faults>>
<1>1. TypeOK /\ job \in [Callers -> Jobs]
  BY DEF QueueInvariant, TransferTypeOK, TypeOK
<1>2. at[c] = "flushed" /\ job[c] = "confirm"
  BY DEF Recover
<1>3. /\ at' = [at EXCEPT ![c] = IF Retrying THEN "joined" ELSE "locked"]
      /\ job' = [job EXCEPT ![c] = IF Retrying THEN "confirm" ELSE "retry"]
      /\ UNCHANGED <<world, rows, made, store, disk, queue, failure, waits, held, since, acked, calls, faults>>
  BY <1>1, <1>2 DEF Recover, Goto, Begin
<1>4. waits' = [waits EXCEPT ![c] = {}]
  BY <1>2, <1>3, NoWaits
<1>5. /\ acked' \in Content /\ store' \in Content /\ failure' \in BOOLEAN
      /\ held' \in [Callers -> Content] /\ since' \in [Callers -> 0..MaxEdits]
      /\ calls' \in 0..world.calls /\ faults' \in 0..world.faults
      /\ outcome' \in {"none", "tried", "done"} /\ spoiled' \in BOOLEAN /\ overtaken' \in BOOLEAN
  BY <1>1, <1>3 DEF TypeOK, QueueInvariant, TransferTypeOK, transfer
<1>6. QueueInvariant'
  <2>1. CASE Retrying
    <3> DEFINE point == "joined" work == "confirm"
    <3>1. /\ Moves(c, point) /\ job' = [job EXCEPT ![c] = work]
          /\ work \in Jobs /\ work # "none" /\ point # "idle"
          /\ point \notin {"reading", "read", "locked", "loading", "backup", "persisting"}
          /\ point = "joined" => work = "confirm"
      BY <1>2, <1>3, <2>1 DEF Moves, Points, Jobs
    <3> HIDE DEF point, work
    <3> QED  BY <1>4, <1>5, <3>1, MovesQueue
  <2>2. CASE ~Retrying
    <3> DEFINE point == "locked" work == "retry"
    <3>1. /\ Moves(c, point) /\ job' = [job EXCEPT ![c] = work]
          /\ work \in Jobs /\ work # "none" /\ point # "idle"
          /\ point \notin {"reading", "read", "joined", "loading", "backup", "persisting"}
          /\ point = "locked" => work = "retry"
      BY <1>2, <1>3, <2>2 DEF Moves, Points, Jobs
    <3> HIDE DEF point, work
    <3> QED  BY <1>4, <1>5, <3>1, MovesQueue
  <2> QED  BY <2>1, <2>2
<1> QED  BY <1>3, <1>6

(* The write is done, and the flush takes its next turn. *)
LEMMA SavedSteps ==
    ASSUME QueueInvariant, NEW c \in Callers, Saved(c), UNCHANGED transfer
    PROVE  /\ QueueInvariant'
           /\ at[c] = "owner" /\ saveInFlight \in Pending
           /\ Snapshots = Copies(pendingSaves) \cup {Copy(saveInFlight)}
           /\ Keeps(Copies(pendingSaves), Snapshots')
           /\ job' = job
           /\ \E p \in Waiting : /\ at' = [at EXCEPT ![c] = p]
                                 /\ p = "flushed" => Snapshots' = {} /\ immediates = {}
<1>1. at[c] = "owner" /\ Turn(c, pendingSaves, saveInFlight.version, NoSave)
      /\ UNCHANGED <<immediates, pendingVersion, job>> /\ savedVersion' = saveInFlight.version
  BY DEF Saved
<1>2. /\ saveInFlight \in Pending
      /\ Snapshots = Copies(pendingSaves) \cup {Copy(saveInFlight)}
      /\ savedVersion < saveInFlight.version /\ saveInFlight.version <= pendingVersion
      /\ TurnReady(c, pendingSaves, saveInFlight.version, NoSave)
  BY <1>1, ReadyAfter
<1>3. PICK p \in Waiting : TurnTo(c, p, pendingSaves, NoSave)
  BY <1>1, <1>2, TurnCases
<1>4. job[c] \in Jobs \ {"none"} /\ job' = [job EXCEPT ![c] = job[c]]
  BY <1>1, SameJob
<1>5. Places' /\ Owned' /\ at' \in [Callers -> Points] /\ waits' \in [Callers -> SUBSET Nat]
      /\ job' \in [Callers -> Jobs]
  BY <1>2, <1>3, <1>4, TurnPlaces
<1>6. \A x \in Copies(pendingSaves) \cup RowCopies :
          saveInFlight.version < x.version /\ x.version <= pendingVersion
  BY <1>2, NoSaveIsNone DEF QueueInvariant, Versions, Carriers, Snapshots
<1>7. Flying(NoSave) = {}
  BY DEF Flying
<1>8. Versions'
  BY <1>1, <1>2, <1>3, <1>6, <1>7, TurnVersions
<1>9. /\ pendingSaves' \in Seq(Pending) /\ Len(pendingSaves') <= MaxPending
      /\ saveInFlight' \in Pending \cup {NoSave}
      /\ Keeps(Copies(pendingSaves), Snapshots')
      /\ p = "flushed" => Snapshots' = {} /\ immediates = {}
  <2>1. /\ pendingSaves' \in Seq(Pending) /\ Len(pendingSaves') <= MaxPending
        /\ saveInFlight' \in Pending \cup {NoSave}
        /\ Keeps(Copies(pendingSaves) \cup Flying(NoSave), Snapshots')
        /\ p = "flushed" => Snapshots' = {} /\ immediates = {}
    BY <1>2, <1>3, TurnKeeps
  <2>2. Copies(pendingSaves) \cup Flying(NoSave) = Copies(pendingSaves)
    BY <1>7
  <2> QED  BY <2>1, <2>2
<1>10. savedVersion' \in 0..pendingVersion'
  <2>1. saveInFlight.version \in Nat
    BY <1>2 DEF Pending
  <2> QED  BY <1>1, <1>2, <2>1, QueueTyped
<1>11. disk' \in Content
  <2>1. saveInFlight.data \in Content /\ disk \in Content
    BY <1>2 DEF Pending, QueueInvariant, TransferTypeOK, TypeOK
  <2> QED  BY <2>1, StoredTyped DEF Saved
<1>12. TransferTypeOK'
  BY <1>1, <1>5, <1>9, <1>10, <1>11 DEF QueueInvariant, TransferTypeOK, TypeOK, Saved, transfer
<1> QED  BY <1>1, <1>2, <1>3, <1>5, <1>8, <1>9, <1>12 DEF QueueInvariant, TurnTo

(* The write fails: a newer snapshot takes its place, or it goes back, or it is given up. *)
LEMMA SaveFailsSteps ==
    ASSUME QueueInvariant, NEW c \in Callers, SaveFails(c), UNCHANGED transfer
    PROVE  /\ QueueInvariant'
           /\ at[c] = "owner" /\ saveInFlight \in Pending
           /\ Snapshots = Copies(pendingSaves) \cup {Copy(saveInFlight)}
           /\ failure => failure'
           /\ \/ /\ pendingSaves # <<>> /\ Keeps(Copies(pendingSaves), Snapshots')
                 /\ job' = job /\ held' = held
                 /\ \E p \in Waiting : at' = [at EXCEPT ![c] = p] /\ p # "flushed"
              \/ /\ pendingSaves = <<>> /\ Snapshots' = Snapshots
                 /\ job' = job /\ held' = held /\ at' = [at EXCEPT ![c] = "sleep"]
              \/ /\ pendingSaves = <<>> /\ Snapshots' = {} /\ failure' = TRUE
                 /\ job' = [job EXCEPT ![c] = "none"] /\ held' = [held EXCEPT ![c] = {}]
                 /\ at' = [at EXCEPT ![c] = "idle"]
<1> DEFINE s == saveInFlight
           again == s.attempts + 1 < MaxAttempts
           item == Item(s.version, s.data, s.attempts + 1)
           q == <<item>> \o pendingSaves
           kept == IF again THEN Capped(q) ELSE pendingSaves
<1>0. /\ job \in [Callers -> Jobs] /\ at \in [Callers -> Points] /\ waits \in [Callers -> SUBSET Nat]
      /\ held \in [Callers -> Content] /\ {} \in Content
      /\ pendingSaves \in Seq(Pending) /\ Len(pendingSaves) <= MaxPending
      /\ failure \in BOOLEAN
  BY QueueTyped DEF QueueInvariant, TransferTypeOK, TypeOK, Content
<1>1. at[c] = "owner" /\ UNCHANGED <<immediates, pendingVersion, savedVersion>>
  BY DEF SaveFails
<1>2. /\ saveInFlight \in Pending /\ saveInFlight # NoSave
      /\ Snapshots = Copies(pendingSaves) \cup {Copy(saveInFlight)}
      /\ savedVersion < saveInFlight.version /\ saveInFlight.version <= pendingVersion
      /\ TurnReady(c, pendingSaves, savedVersion, NoSave)
  BY <1>1, ReadyAfter, NoSaveIsNone
<1>3. \A x \in Copies(pendingSaves) : saveInFlight.version < x.version
  BY <1>2 DEF QueueInvariant, Versions
<1>4. HasNewer(pendingSaves, s.version) <=> pendingSaves # <<>>
  <2>1. \A n \in 1..Len(pendingSaves) : pendingSaves[n].version > s.version
    <3> TAKE n \in 1..Len(pendingSaves)
    <3>1. Copy(pendingSaves[n]) \in Copies(pendingSaves) /\ pendingSaves[n] \in Pending
      BY <1>0, CopiesTyped
    <3>2. s.version < Copy(pendingSaves[n]).version
      BY <1>3, <3>1
    <3> QED  BY <1>2, <3>1, <3>2 DEF Copy, Pending
  <2>2. pendingSaves # <<>> => 1 \in 1..Len(pendingSaves)
    BY <1>0, EmptySeq
  <2>3. pendingSaves = <<>> => 1..Len(pendingSaves) = {}
    BY NoCopies
  <2> QED  BY <2>1, <2>2, <2>3 DEF HasNewer
<1>5. Flying(NoSave) = {}
  BY DEF Flying
<1>6. faults' \in 0..world.faults
  BY WorldTyped DEF SaveFails, QueueInvariant, TransferTypeOK, TypeOK
<1>7. CASE pendingSaves # <<>>
  <2>1. Turn(c, pendingSaves, savedVersion, NoSave) /\ UNCHANGED <<failure, job, held>>
    BY <1>4, <1>7 DEF SaveFails
  <2>2. PICK p \in Waiting : TurnTo(c, p, pendingSaves, NoSave)
    BY <1>2, <2>1, TurnCases
  <2>3. job[c] \in Jobs \ {"none"} /\ job' = [job EXCEPT ![c] = job[c]]
    BY <1>1, <2>1, SameJob
  <2>4. Places' /\ Owned' /\ at' \in [Callers -> Points] /\ waits' \in [Callers -> SUBSET Nat]
        /\ job' \in [Callers -> Jobs]
    BY <1>2, <2>2, <2>3, TurnPlaces
  <2>5. \A x \in Copies(pendingSaves) \cup Flying(NoSave) \cup RowCopies :
            savedVersion' < x.version /\ x.version <= pendingVersion'
    BY <1>1, <1>5 DEF QueueInvariant, Versions, Carriers, Snapshots
  <2>6. Versions'
    BY <1>1, <1>2, <2>2, <2>5, TurnVersions
  <2>7. /\ pendingSaves' \in Seq(Pending) /\ Len(pendingSaves') <= MaxPending
        /\ saveInFlight' \in Pending \cup {NoSave}
        /\ Keeps(Copies(pendingSaves) \cup Flying(NoSave), Snapshots')
    BY <1>2, <2>2, TurnKeeps
  <2>10. Copies(pendingSaves) \cup Flying(NoSave) = Copies(pendingSaves)
    BY <1>5
  <2>8. p # "flushed"
    BY <1>7, <2>2 DEF TurnTo
  <2>9. TransferTypeOK'
    BY <1>1, <1>6, <2>1, <2>4, <2>7 DEF QueueInvariant, TransferTypeOK, TypeOK, SaveFails, transfer
  <2> QED  BY <1>1, <1>2, <1>7, <2>1, <2>2, <2>4, <2>6, <2>7, <2>8, <2>9, <2>10 DEF QueueInvariant, TurnTo
<1>8. CASE pendingSaves = <<>>
  <2>1. /\ saveInFlight' = NoSave /\ pendingSaves' = kept
        /\ IF \E n \in 1..Len(kept) : kept[n].version = s.version
             THEN /\ failure' = (failure \/ Overflows(q))
                  /\ Goto(c, "sleep")
                  /\ UNCHANGED <<job, held, waits>>
             ELSE RecordFailure /\ End(c)
    BY <1>4, <1>8 DEF SaveFails
  <2>2. Snapshots = {Copy(s)} /\ Sorted(<<>>)
    BY <1>2, <1>8, NoCopies
  <2>3. Owned' /\ Flying(saveInFlight') = {}
    <3>1. \A d \in Callers : at'[d] # "owner"
      <4>1. \A d \in Callers : at[d] = "owner" => d = c
        BY <1>1 DEF QueueInvariant, Owned
      <4>2. at' = [at EXCEPT ![c] = "sleep"] \/ at' = [at EXCEPT ![c] = "idle"]
        BY <2>1 DEF End, Goto
      <4> QED  BY <1>0, <4>1, <4>2
    <3> QED  BY <2>1, <3>1 DEF Owned, Flying
  <2>4. CASE again
    <3>1. item \in Pending /\ Copy(item) = Copy(s) /\ item.version = s.version
      <4>1. s.version \in Nat \ {0} /\ s.data \in Content /\ s.attempts + 1 \in 0..MaxAttempts
        BY <1>2, <2>4, Limits DEF Pending
      <4> QED  BY <4>1, ItemTyped DEF Copy
    <3>2. q = <<item>> /\ q \in Seq(Pending) /\ Len(q) = 1 /\ q[1] = item
      BY <1>8, <3>1, ConcatEmptySeq
    <3> HIDE DEF q, item
    <3>3. kept = q /\ Sorted(q) /\ Copies(q) = {Copy(s)} /\ ~Overflows(q)
      <4>1. kept = q /\ ~Overflows(q)
        BY <2>4, <3>2, Limits DEF Capped, Overflows
      <4>2. \A m, n \in 1..1 : m = 1 /\ n = 1
        OBVIOUS
      <4>3. item.version \in Nat
        BY <3>1 DEF Pending
      <4> QED  BY <3>1, <3>2, <4>1, <4>2, <4>3 DEF Sorted, Copies
    <3> HIDE DEF kept
    <3>4. \E n \in 1..Len(kept) : kept[n].version = s.version
      BY <3>1, <3>2, <3>3
    <3>5. /\ pendingSaves' = q /\ UNCHANGED <<failure, job, held, waits>>
          /\ at' = [at EXCEPT ![c] = "sleep"]
      <4>1. failure' = failure
        BY <1>0, <2>1, <3>3, <3>4
      <4> QED  BY <2>1, <3>3, <3>4, <4>1 DEF Goto
    <3>6. Snapshots' = Snapshots
      <4>1. Snapshots' = Copies(pendingSaves') \cup Flying(saveInFlight')
        BY DEF Snapshots, Copies, Flying
      <4> QED  BY <2>2, <2>3, <3>3, <3>5, <4>1
    <3>7. Places'
      BY <1>0, <1>1, <3>5 DEF QueueInvariant, Places
    <3>8. Versions'
      <4>1. Carriers' = Carriers /\ Sorted(pendingSaves')
        BY <1>1, <3>3, <3>5, <3>6 DEF Carriers, RowCopies
      <4> QED  BY <1>1, <2>1, <4>1 DEF QueueInvariant, Versions, Sorted
    <3>9. at' \in [Callers -> Points]
      BY <1>0, <3>5 DEF Points
    <3>10. Len(pendingSaves') <= MaxPending /\ pendingSaves' \in Seq(Pending)
      BY <3>2, <3>5, Limits
    <3>11. TransferTypeOK'
      BY <1>1, <1>6, <2>1, <3>5, <3>9, <3>10 DEF QueueInvariant, TransferTypeOK, TypeOK, SaveFails, transfer
    <3> QED  BY <1>1, <1>2, <1>8, <2>3, <3>5, <3>6, <3>7, <3>8, <3>11 DEF QueueInvariant
  <2>5. CASE ~again
    <3>1. kept = <<>>
      BY <1>8, <2>5
    <3> HIDE DEF kept, q
    <3>2. /\ pendingSaves' = <<>> /\ RecordFailure /\ End(c)
      BY <2>1, <3>1, NoCopies
    <3>3. /\ failure' = TRUE /\ job' = [job EXCEPT ![c] = "none"] /\ held' = [held EXCEPT ![c] = {}]
          /\ at' = [at EXCEPT ![c] = "idle"] /\ waits' = [waits EXCEPT ![c] = {}]
      BY <3>2 DEF RecordFailure, End, Goto, Begin
    <3>4. Snapshots' = {}
      BY <2>1, <3>2, NoCopies DEF Snapshots, Flying
    <3>5. Places'
      BY <1>0, <3>3 DEF QueueInvariant, Places
    <3>6. Versions'
      <4>1. Carriers' \subseteq Carriers /\ Sorted(pendingSaves')
        BY <1>1, <3>2, <3>4, NoCopies DEF Carriers, RowCopies
      <4> QED  BY <1>1, <2>1, <4>1 DEF QueueInvariant, Versions, Sorted
    <3>7. at' \in [Callers -> Points] /\ job' \in [Callers -> Jobs]
          /\ waits' \in [Callers -> SUBSET Nat] /\ held' \in [Callers -> Content]
      BY <1>0, <3>3 DEF Points, Jobs
    <3>8. TransferTypeOK'
      BY <1>0, <1>1, <1>6, <2>1, <3>2, <3>3, <3>7, NoCopies, Limits
         DEF QueueInvariant, TransferTypeOK, TypeOK, SaveFails, transfer
    <3> QED  BY <1>1, <1>2, <1>8, <2>3, <3>3, <3>4, <3>5, <3>6, <3>8 DEF QueueInvariant
  <2> QED  BY <2>4, <2>5
<1> QED  BY <1>7, <1>8

(* An edit that queues a snapshot. *)
EditCopy == [version |-> pendingVersion + 1, data |-> store']
LEMMA SnapshotSteps ==
    ASSUME QueueInvariant, NEW row \in SUBSET {made + 1}, Snapshot(row),
           UNCHANGED outcome, spoiled' \in BOOLEAN, UNCHANGED overtaken
    PROVE  /\ QueueInvariant'
           /\ made' = made + 1 /\ store' = store \cup {made + 1}
           /\ pendingVersion' = pendingVersion + 1
           /\ failure => failure'
           /\ Keeps(Snapshots \cup {EditCopy}, Snapshots')
           /\ UNCHANGED <<disk, immediates, saveInFlight, savedVersion, flush, acked, world>>
<1> DEFINE q == Appended(pendingVersion + 1, store')
<1>1. TypeOK /\ made + 1 \in 0..MaxEdits /\ made' \in 0..world.edits
  <2>1. TypeOK
    BY DEF QueueInvariant, TransferTypeOK
  <2>2. world.edits \in 0..MaxEdits /\ made \in Nat /\ MaxEdits \in Nat
    BY <2>1, WorldTyped, Limits
  <2>3. made < world.edits /\ made' = made + 1
    BY DEF Snapshot
  <2> QED  BY <2>1, <2>2, <2>3
<1>2. store' \in Content /\ store' = store \cup {made + 1} /\ made' = made + 1
  BY <1>1 DEF Snapshot, TypeOK, Content
<1>3. /\ Capped(q) \in Seq(Pending) /\ Len(Capped(q)) <= MaxPending /\ Sorted(Capped(q))
      /\ Capped(q) # <<>>
      /\ Keeps(Copies(pendingSaves) \cup {EditCopy}, Copies(Capped(q)))
      /\ \A x \in Copies(Capped(q)) : savedVersion < x.version /\ x.version <= pendingVersion + 1
      /\ saveInFlight # NoSave =>
            \A x \in Copies(Capped(q)) : saveInFlight.version < x.version
  BY <1>2, Enqueued DEF EditCopy
<1>4. /\ pendingSaves' = Capped(q) /\ failure' = (failure \/ Overflows(q))
      /\ pendingVersion' = pendingVersion + 1 /\ timer' = TRUE
      /\ UNCHANGED <<world, disk, savedVersion, saveInFlight, immediates, flush, acked, calls, faults>>
  BY DEF Snapshot
<1> HIDE DEF q
<1>5. Keeps(Snapshots \cup {EditCopy}, Snapshots')
  <2>1. Copies(pendingSaves) \cup {EditCopy} \in SUBSET CopyType /\ Flying(saveInFlight) \in SUBSET CopyType
    <3>1. pendingVersion + 1 \in Nat
      BY QueueTyped
    <3>2. EditCopy \in CopyType
      BY <1>2, <3>1 DEF EditCopy, CopyType
    <3> QED  BY <3>2, QueueTyped
  <2>2. Keeps(Copies(pendingSaves) \cup {EditCopy} \cup Flying(saveInFlight),
              Copies(Capped(q)) \cup Flying(saveInFlight))
    BY <1>3, <2>1, KeepsMore
  <2>3. Copies(pendingSaves) \cup {EditCopy} \cup Flying(saveInFlight) = Snapshots \cup {EditCopy}
    BY DEF Snapshots
  <2>4. Snapshots' = Copies(Capped(q)) \cup Flying(saveInFlight)
    BY <1>4 DEF Snapshots, Copies, Flying
  <2> QED  BY <2>2, <2>3, <2>4
<1>6. Places' /\ Owned'
  BY <1>4 DEF QueueInvariant, Places, Owned, flush
<1>7. Versions'
  <2>1. RowCopies' = RowCopies
    BY <1>4 DEF RowCopies
  <2>2. \A x \in RowCopies \cup Snapshots : savedVersion < x.version /\ x.version <= pendingVersion + 1
    <3> TAKE x \in RowCopies \cup Snapshots
    <3>1. savedVersion < x.version /\ x.version <= pendingVersion
      BY DEF QueueInvariant, Versions, Carriers
    <3>2. x.version \in Nat
      BY QueueTyped DEF CopyType
    <3> QED  BY <3>1, <3>2, QueueTyped
  <2>3. \A x \in Carriers' : savedVersion < x.version /\ x.version <= pendingVersion + 1
    <3>1. Snapshots' \subseteq Copies(Capped(q)) \cup Snapshots
      BY <1>4 DEF Snapshots, Copies, Flying
    <3>2. Carriers' \subseteq Copies(Capped(q)) \cup Snapshots \cup RowCopies
      BY <2>1, <3>1 DEF Carriers
    <3> QED  BY <1>3, <2>2, <3>2
  <2>4. Sorted(pendingSaves')
    BY <1>3, <1>4
  <2>5. saveInFlight # NoSave =>
            \A x \in Copies(Capped(q)) \cup RowCopies : saveInFlight.version < x.version
    BY <1>3 DEF QueueInvariant, Versions
  <2>6. Copies(pendingSaves') = Copies(Capped(q))
    BY <1>4
  <2> QED  BY <1>4, <2>1, <2>3, <2>4, <2>5, <2>6 DEF Versions, Copies, Sorted
<1>8. rows' \in Content
  BY <1>1 DEF Snapshot, Made, TypeOK, Content
<1>9. pendingVersion' \in Nat /\ savedVersion' \in 0..pendingVersion'
  BY <1>1, <1>4, QueueTyped DEF TypeOK
<1>10. failure' \in BOOLEAN /\ (failure => failure')
  BY <1>4 DEF Overflows
<1>11. pendingSaves' \in Seq(Pending) /\ Len(pendingSaves') <= MaxPending
  BY <1>3, <1>4
<1>12. TransferTypeOK'
  BY <1>1, <1>2, <1>4, <1>8, <1>9, <1>10, <1>11 DEF QueueInvariant, TransferTypeOK, TypeOK, flush
<1> QED  BY <1>2, <1>4, <1>5, <1>6, <1>7, <1>10, <1>12 DEF QueueInvariant

(* An edit that is saved as one row. *)
LEMMA EditRowSteps ==
    ASSUME QueueInvariant, EditRow, UNCHANGED transfer
    PROVE  /\ QueueInvariant'
           /\ made' = made + 1 /\ store' = store \cup {made + 1}
           /\ pendingVersion' = pendingVersion + 1
           /\ immediates' = immediates \cup
                {[version |-> pendingVersion + 1, row |-> made + 1, data |-> store']}
           /\ Snapshots' = Snapshots /\ RowCopies' = RowCopies \cup {EditCopy}
           /\ UNCHANGED <<disk, rows, savedVersion, saveInFlight, failure, flush, acked, world>>
<1> DEFINE new == [version |-> pendingVersion + 1, row |-> made + 1, data |-> store']
<1>1. TypeOK /\ made + 1 \in 0..MaxEdits /\ made' \in 0..world.edits /\ made + 1 \in Edits
  BY WorldTyped DEF EditRow, QueueInvariant, TransferTypeOK, TypeOK, Edits
<1>2. store' \in Content /\ store' = store \cup {made + 1} /\ made' = made + 1
  BY <1>1 DEF EditRow, TypeOK, Content
<1>3. /\ pendingVersion' = pendingVersion + 1 /\ immediates' = immediates \cup {new}
      /\ UNCHANGED <<world, rows, disk, pendingSaves, savedVersion, saveInFlight, timer, failure, flush, acked,
                     calls, faults>>
  BY DEF EditRow
<1>4. pendingVersion + 1 \in Nat \ {0}
  BY QueueTyped
<1>5. new \in Immediate /\ Copy(new) = EditCopy
  BY <1>1, <1>2, <1>4 DEF Immediate, Copy, EditCopy
<1> HIDE DEF new
<1>6. Snapshots' = Snapshots /\ RowCopies' = RowCopies \cup {EditCopy}
  BY <1>3, <1>5 DEF Snapshots, Copies, Flying, RowCopies
<1>7. Places' /\ Owned'
  BY <1>3 DEF QueueInvariant, Places, Owned, flush
<1>8. Versions'
  <2>1. EditCopy.version = pendingVersion + 1
    BY DEF EditCopy
  <2>2. \A x \in Carriers : savedVersion < x.version /\ x.version <= pendingVersion + 1
    <3> TAKE x \in Carriers
    <3>1. savedVersion < x.version /\ x.version <= pendingVersion
      BY DEF QueueInvariant, Versions
    <3>2. x.version \in Nat
      BY QueueTyped DEF CopyType, Carriers
    <3> QED  BY <3>1, <3>2, QueueTyped
  <2>3. savedVersion < pendingVersion + 1 /\ pendingVersion + 1 <= pendingVersion + 1
    BY QueueTyped DEF QueueInvariant, TransferTypeOK, TypeOK
  <2>4. \A x \in Carriers' : savedVersion < x.version /\ x.version <= pendingVersion + 1
    BY <1>6, <2>1, <2>2, <2>3 DEF Carriers
  <2>5. saveInFlight # NoSave => saveInFlight.version < pendingVersion + 1
    <3> HAVE saveInFlight # NoSave
    <3>1. Copy(saveInFlight) \in Carriers /\ saveInFlight \in Pending
      BY QueueTyped DEF Carriers, Snapshots, Flying
    <3>2. Copy(saveInFlight).version <= pendingVersion
      BY <3>1 DEF QueueInvariant, Versions
    <3> QED  BY <3>1, <3>2, QueueTyped DEF Copy, Pending
  <2>6. Copies(pendingSaves') = Copies(pendingSaves)
    BY <1>3
  <2>7. saveInFlight # NoSave =>
            \A x \in Copies(pendingSaves) \cup RowCopies' : saveInFlight.version < x.version
    BY <1>6, <2>1, <2>5 DEF QueueInvariant, Versions
  <2> QED  BY <1>3, <2>4, <2>6, <2>7 DEF QueueInvariant, Versions, Sorted, Copies
<1>9. pendingVersion' \in Nat /\ savedVersion' \in 0..pendingVersion' /\ immediates' \subseteq Immediate
  BY <1>1, <1>3, <1>5, QueueTyped DEF TypeOK
<1>10. TransferTypeOK'
  BY <1>1, <1>2, <1>3, <1>9 DEF QueueInvariant, TransferTypeOK, TypeOK, flush, transfer
<1> QED  BY <1>2, <1>3, <1>6, <1>7, <1>8, <1>10 DEF QueueInvariant, new

(* A row is written. *)
LEMMA RowSavedSteps ==
    ASSUME QueueInvariant, NEW i \in immediates, RowSaved(i), UNCHANGED transfer
    PROVE  /\ QueueInvariant'
           /\ disk' = disk \cup {i.row} /\ immediates' = immediates \ {i}
           /\ saveInFlight = NoSave /\ Snapshots' = Snapshots
           /\ \A c \in Callers : at[c] # "persisting"
           /\ UNCHANGED <<world, rows, made, store, failure, job, at, held, since, acked, pendingVersion>>
<1>1. /\ disk' = disk \cup {i.row} /\ immediates' = immediates \ {i}
      /\ saveInFlight = NoSave
      /\ waits' = [c \in Callers |-> waits[c] \ {i.version}]
      /\ \A c \in Callers : at[c] # "persisting"
      /\ UNCHANGED <<world, rows, made, store, pendingSaves, pendingVersion, savedVersion, saveInFlight, timer,
                     failure, job, at, held, since, acked, calls, faults>>
  BY DEF RowSaved, Foremost, Importing
<1>2. Snapshots' = Snapshots /\ Carriers' \subseteq Carriers /\ RowCopies' \subseteq RowCopies
  BY <1>1 DEF Snapshots, Carriers, RowCopies, Copies, Flying
<1>3. Places' /\ Owned'
  BY <1>1, QueueTyped DEF QueueInvariant, Places, Owned
<1>4. Versions'
  BY <1>1, <1>2 DEF QueueInvariant, Versions, Sorted
<1>5. i.row \in 0..MaxEdits
  BY QueueTyped, Limits DEF Immediate, Edits
<1>6. waits' \in [Callers -> SUBSET Nat]
  BY <1>1, QueueTyped
<1>7. TransferTypeOK'
  BY <1>1, <1>5, <1>6 DEF QueueInvariant, TransferTypeOK, TypeOK, Content, transfer
<1> QED  BY <1>1, <1>2, <1>3, <1>4, <1>7 DEF QueueInvariant

(* A row is not: its snapshot is queued, unless a newer one is, and the flushes that wait *)
(* for it throw.                                                                          *)
LEMMA RowFailsSteps ==
    ASSUME QueueInvariant, NEW i \in immediates, RowFails(i), UNCHANGED transfer
    PROVE  /\ QueueInvariant'
           /\ failure' = TRUE /\ immediates' = immediates \ {i}
           /\ Keeps(Snapshots \cup {Copy(i)}, Snapshots')
           /\ \A c \in Callers :
                 \/ at'[c] = at[c] /\ job'[c] = job[c] /\ held'[c] = held[c]
                 \/ at[c] = "immediates" /\ at'[c] = "idle" /\ job'[c] = "none" /\ held'[c] = {}
           /\ UNCHANGED <<world, rows, made, store, disk, since, acked, pendingVersion>>
<1>1. /\ pendingSaves' = Capped(Requeued(i)) /\ immediates' = immediates \ {i}
      /\ failure' = TRUE /\ saveInFlight = NoSave
      /\ job' = [c \in Callers |-> IF Awaits(c, i) THEN "none" ELSE job[c]]
      /\ at' = [c \in Callers |-> IF Awaits(c, i) THEN "idle" ELSE at[c]]
      /\ waits' = [c \in Callers |-> IF Awaits(c, i) THEN {} ELSE waits[c]]
      /\ held' = [c \in Callers |-> IF Awaits(c, i) THEN {} ELSE held[c]]
      /\ UNCHANGED <<world, rows, made, store, disk, pendingVersion, savedVersion, saveInFlight, timer, since,
                     acked, calls>>
  BY DEF RowFails, RecordFailure, Foremost
<1>2. \A c \in Callers : Awaits(c, i) => at[c] = "immediates"
  BY DEF Awaits, QueueInvariant, Places
<1>3. /\ job \in [Callers -> Jobs] /\ at \in [Callers -> Points] /\ waits \in [Callers -> SUBSET Nat]
      /\ held \in [Callers -> Content] /\ {} \in Content
      /\ pendingSaves \in Seq(Pending) /\ Len(pendingSaves) <= MaxPending /\ Sorted(pendingSaves)
      /\ i \in Immediate /\ Copy(i) \in CopyType
  BY QueueTyped DEF QueueInvariant, Versions, TransferTypeOK, TypeOK, Content, RowCopies
<1>4. Copy(i) \in Carriers /\ savedVersion < i.version /\ i.version <= pendingVersion
  <2>1. Copy(i) \in Carriers
    BY DEF Carriers, RowCopies
  <2>2. savedVersion < Copy(i).version /\ Copy(i).version <= pendingVersion
    BY <2>1 DEF QueueInvariant, Versions
  <2> QED  BY <2>1, <2>2 DEF Copy
<1>5. Snapshots = Copies(pendingSaves) /\ Snapshots' = Copies(pendingSaves')
  BY <1>1 DEF Snapshots, Flying, Copies
<1>6. /\ pendingSaves' \in Seq(Pending) /\ Len(pendingSaves') <= MaxPending /\ Sorted(pendingSaves')
      /\ Keeps(Snapshots \cup {Copy(i)}, Snapshots')
  <2>1. CASE HasNewer(pendingSaves, i.version)
    <3>1. pendingSaves' = pendingSaves
      <4>1. pendingSaves' = Capped(pendingSaves)
        BY <1>1, <2>1 DEF Requeued
      <4> QED  BY <1>3, <4>1, CopiesTyped, Limits DEF Capped
    <3>2. PICK n \in 1..Len(pendingSaves) : pendingSaves[n].version > i.version
      BY <2>1 DEF HasNewer
    <3>3. /\ Copy(pendingSaves[n]) \in Snapshots /\ Copy(i).version <= Copy(pendingSaves[n]).version
      <4>1. pendingSaves[n].version \in Nat /\ i.version \in Nat
        BY <1>3, CopiesTyped DEF Pending, Immediate
      <4> QED  BY <1>3, <1>5, <3>2, <4>1, CopiesTyped DEF Copy
    <3>4. Snapshots \in SUBSET CopyType
      BY QueueTyped
    <3>5. Keeps(Snapshots, Snapshots) /\ Snapshots' = Snapshots
      BY <1>5, <3>1, <3>4, KeepsAll
    <3>6. HasNewer(pendingSaves, i.version) /\ Snapshots' \subseteq Snapshots \cup {Copy(i)}
      BY <2>1, <3>5
    <3> QED  BY <1>3, <3>1, <3>3, <3>5 DEF Keeps
  <2>2. CASE ~HasNewer(pendingSaves, i.version)
    <3> DEFINE item == Item(i.version, i.data, 0)
               q == Append(pendingSaves, item)
    <3>1. item \in Pending /\ Copy(item) = Copy(i) /\ item.version = i.version
      <4>1. i.version \in Nat \ {0} /\ i.data \in Content /\ 0 \in 0..MaxAttempts
        BY <1>3, Limits DEF Immediate
      <4> QED  BY <4>1, ItemTyped DEF Copy
    <3>2. \A n \in 1..Len(pendingSaves) : pendingSaves[n].version <= item.version
      <4> TAKE n \in 1..Len(pendingSaves)
      <4>1. pendingSaves[n].version \in Nat /\ i.version \in Nat
        BY <1>3, CopiesTyped DEF Pending, Immediate
      <4>2. ~(pendingSaves[n].version > i.version)
        BY <2>2 DEF HasNewer
      <4> QED  BY <3>1, <4>1, <4>2
    <3>3. pendingSaves' = Capped(q)
      BY <1>1, <2>2 DEF Requeued, Appended
    <3> HIDE DEF item
    <3>4. q \in Seq(Pending) /\ Sorted(q) /\ Copies(q) = Copies(pendingSaves) \cup {Copy(i)}
      BY <1>3, <3>1, <3>2, AppendKeeps
    <3> HIDE DEF q
    <3> QED  BY <1>5, <3>3, <3>4, CappedKeeps
  <2> QED  BY <2>1, <2>2
<1>7. Places'
  BY <1>1, <1>2, <1>3 DEF QueueInvariant, Places
<1>8. Owned'
  BY <1>1, <1>2, <1>3 DEF QueueInvariant, Owned
<1>9. Versions'
  <2>1. Snapshots' \subseteq Snapshots \cup {Copy(i)}
    BY <1>6 DEF Keeps
  <2>2. Carriers' \subseteq Carriers
    BY <1>1, <1>4, <2>1 DEF Carriers, RowCopies
  <2> QED  BY <1>1, <1>6, <2>2 DEF QueueInvariant, Versions, Sorted
<1>10. faults' \in 0..world.faults
  BY WorldTyped DEF RowFails, QueueInvariant, TransferTypeOK, TypeOK
<1>11. /\ job' \in [Callers -> Jobs] /\ at' \in [Callers -> Points] /\ waits' \in [Callers -> SUBSET Nat]
       /\ held' \in [Callers -> Content]
  <2>1. "none" \in Jobs /\ "idle" \in Points
    BY DEF Jobs, Points
  <2> QED  BY <1>1, <1>3, <2>1
<1>12. TransferTypeOK'
  BY <1>1, <1>6, <1>10, <1>11 DEF QueueInvariant, TransferTypeOK, TypeOK, transfer
<1>13. \A c \in Callers :
          \/ at'[c] = at[c] /\ job'[c] = job[c] /\ held'[c] = held[c]
          \/ at[c] = "immediates" /\ at'[c] = "idle" /\ job'[c] = "none" /\ held'[c] = {}
  BY <1>1, <1>2
<1> QED  BY <1>1, <1>6, <1>7, <1>8, <1>9, <1>12, <1>13 DEF QueueInvariant

LEMMA InitTyped == TransferInit => QueueInvariant
<1> SUFFICES ASSUME TransferInit PROVE QueueInvariant
  OBVIOUS
<1>1. Init
  BY DEF TransferInit
<1>2. {} \in Content /\ "none" \in Jobs /\ "idle" \in Points /\ 0 \in 0..MaxEdits
  BY Limits DEF Content, Jobs, Points
<1>3. world \in Worlds /\ world.edits \in Nat /\ world.calls \in Nat /\ world.faults \in Nat
  BY <1>1 DEF Init
<1>4. TransferTypeOK
  <2>1. /\ world \in Worlds /\ rows \in Content
        /\ made \in 0..world.edits /\ store \in Content /\ disk \in Content /\ acked \in Content
        /\ pendingVersion \in Nat /\ savedVersion \in 0..pendingVersion
        /\ calls \in 0..world.calls /\ faults \in 0..world.faults
    BY <1>1, <1>2, <1>3 DEF Init
  <2>2. /\ pendingSaves \in Seq(Pending) /\ Len(pendingSaves) <= MaxPending
        /\ saveInFlight \in Pending \cup {NoSave} /\ immediates \subseteq Immediate
    BY <1>1, NoCopies, Limits DEF Init
  <2>3. /\ job \in [Callers -> Jobs] /\ at \in [Callers -> Points]
        /\ waits \in [Callers -> SUBSET Nat]
        /\ held \in [Callers -> Content] /\ since \in [Callers -> 0..MaxEdits]
    BY <1>1, <1>2 DEF Init
  <2>4. timer \in BOOLEAN /\ failure \in BOOLEAN
    BY <1>1 DEF Init
  <2>5. TypeOK
    BY <2>1, <2>2, <2>3, <2>4 DEF TypeOK
  <2> QED  BY <2>5 DEF TransferInit, TransferTypeOK
<1>5. Places /\ Owned
  BY <1>1 DEF Init, Places, Owned
<1>6. Carriers = {}
  BY <1>1, NoCopies DEF Init, Carriers, Snapshots, RowCopies, Flying
<1>7. Versions
  BY <1>1, <1>6, NoCopies DEF Init, Versions
<1> QED  BY <1>4, <1>5, <1>7 DEF QueueInvariant

LEMMA StutterTyped == QueueInvariant /\ UNCHANGED allVars => QueueInvariant'
BY DEF QueueInvariant, TransferTypeOK, TypeOK, Places, Owned, Versions, Carriers, Snapshots, RowCopies,
       Copies, Sorted, Flying, allVars, vars, queue, flush, transfer

LEMMA StepTyped == QueueInvariant /\ TransferNext => QueueInvariant'
<1> SUFFICES ASSUME QueueInvariant, TransferNext PROVE QueueInvariant'
  OBVIOUS
<1>1. CASE QueueEvent
  <2>1. ASSUME EditSnapshot, UNCHANGED transfer PROVE QueueInvariant'
    <3>1. PICK row \in SUBSET {made + 1} : Snapshot(row)
      BY <2>1 DEF EditSnapshot
    <3>2. spoiled' \in BOOLEAN /\ UNCHANGED <<outcome, overtaken>>
      BY <2>1 DEF transfer, QueueInvariant, TransferTypeOK
    <3> QED  BY <3>1, <3>2, SnapshotSteps
  <2>2. ASSUME EditRow, UNCHANGED transfer PROVE QueueInvariant'
    BY <2>2, EditRowSteps
  <2>3. ASSUME NEW i \in immediates, RowSaved(i) \/ RowFails(i), UNCHANGED transfer PROVE QueueInvariant'
    BY <2>3, RowSavedSteps, RowFailsSteps
  <2>4. ASSUME NEW c \in Callers, SaveFails(c), UNCHANGED transfer PROVE QueueInvariant'
    BY <2>4, SaveFailsSteps
  <2>5. ASSUME NEW c \in Callers, TimerFires(c) \/ Fetch(c) \/ Confirm(c), UNCHANGED transfer
        PROVE  QueueInvariant'
    BY <2>5, PushesTyped
  <2>6. ASSUME NEW c \in Callers, Retry(c), UNCHANGED transfer PROVE QueueInvariant'
    <3>1. /\ at[c] # "owner" /\ waits[c] = {} /\ Persist(c)
          /\ UNCHANGED <<world, rows, made, store, disk, savedVersion, immediates, held, since, acked, faults, transfer>>
          /\ calls' \in 0..world.calls /\ held' \in [Callers -> Content]
      BY <2>6, RetryTyped
    <3> QED  BY <3>1, PersistSteps
  <2> QED  BY <1>1, <2>1, <2>2, <2>3, <2>4, <2>5, <2>6 DEF QueueEvent
<1>2. CASE Convert
  <2>1. Snapshot({made + 1}) /\ spoiled' \in BOOLEAN /\ UNCHANGED <<outcome, overtaken>>
    BY <1>2 DEF Convert, QueueInvariant, TransferTypeOK
  <2> QED  BY <2>1, SnapshotSteps
<1>3. ASSUME NEW c \in Callers, QueueStep(c) PROVE QueueInvariant'
  <2>1. ASSUME Continue(c) \/ Wake(c) \/ Flushed(c) \/ FetchBegins(c) \/ FetchReads(c) \/ FetchGivesUp(c)
                  \/ Confirmed(c) \/ Recovered(c), UNCHANGED transfer
        PROVE  QueueInvariant'
    BY <2>1, PushesTyped, MovesTyped
  <2>2. ASSUME Saved(c), UNCHANGED transfer PROVE QueueInvariant'
    BY <2>2, SavedSteps
  <2>3. ASSUME Recover(c) \/ Unlocked(c), UNCHANGED transfer PROVE QueueInvariant'
    <3>1. CASE Recover(c) /\ (Retrying \/ Locked)
      BY <2>3, <3>1, RecoverTyped
    <3>2. CASE Unlocked(c) \/ (Recover(c) /\ ~Retrying /\ ~Locked)
      <4>1. /\ at[c] # "owner" /\ waits[c] = {} /\ Persist(c)
            /\ UNCHANGED <<world, rows, made, store, disk, savedVersion, immediates, held, since, acked, faults, transfer>>
            /\ calls' \in 0..world.calls /\ held' \in [Callers -> Content]
        BY <2>3, <3>2, RetryTyped
      <4> QED  BY <4>1, PersistSteps
    <3> QED  BY <2>3, <3>1, <3>2
  <2>4. ASSUME Reloaded(c), UNCHANGED <<outcome, spoiled>> PROVE QueueInvariant'
    BY <2>4, MovesTyped
  <2> QED  BY <1>3, <2>1, <2>2, <2>3, <2>4 DEF QueueStep
<1>4. ASSUME NEW c \in Callers, TransferStep(c) \/ Transfer(c) \/ TransferFails(c) PROVE QueueInvariant'
  BY <1>4, PushesTyped, MovesTyped DEF TransferStep
<1> QED  BY <1>1, <1>2, <1>3, <1>4 DEF TransferNext

(* The queue keeps its types and its order: within its limit, versions never at or       *)
(* behind what is saved nor ahead of what was drawn, one write at a time (store.ts        *)
(* enforcePendingSaveCap, flushPendingSave, trackImmediateSave).                          *)
THEOREM QueueIsInOrder == TransferSpec => []QueueInvariant
BY InitTyped, StutterTyped, StepTyped, PTL DEF TransferSpec

(* Every variable keeps its type. *)
THEOREM TransferIsTyped == TransferSpec => []TransferTypeOK
<1>1. QueueInvariant => TransferTypeOK
  BY DEF QueueInvariant
<1> QED  BY <1>1, QueueIsInOrder, PTL

-----------------------------------------------------------------------------
(* What the steps do to the data on its way.                                *)

(* Copies that were dropped are stood for by newer ones. *)
LEMMA KeptArrives ==
    ASSUME Chained, NEW S, S \subseteq Carriers, Keeps(S, Snapshots'), NEW x \in S
    PROVE  x.data \cap store \subseteq Arriving'
<1>1. PICK y \in Snapshots' : x.version <= y.version
  BY DEF Keeps
<1>2. y \in Carriers /\ x \in Carriers
  BY <1>1 DEF Keeps
<1>3. x.data \cap store \subseteq y.data
  BY <1>1, <1>2 DEF Chained
<1>4. y.data \subseteq Arriving'
  BY <1>1 DEF Arriving
<1> QED  BY <1>3, <1>4

LEMMA RowsSame == immediates' = immediates => Rowed' = Rowed /\ RowCopies' = RowCopies
BY DEF Rowed, RowCopies

(* A turn of the flush loop, or nothing. *)
LEMMA DataKept ==
    ASSUME DataInvariant, Keeps(Snapshots, Snapshots'), failure => failure',
           UNCHANGED <<world, rows, made, store, disk, immediates, overtaken>>,
           acked' \subseteq 0..made, \A c \in Callers : held'[c] \subseteq 0..made
    PROVE  DataInvariant'
<1>1. Carriers' \subseteq Carriers /\ Snapshots \subseteq Carriers
  BY DEF Carriers, RowCopies, Keeps
<1>2. Arriving \cap store \subseteq Arriving'
  <2> SUFFICES ASSUME NEW e \in Arriving, e \in store PROVE e \in Arriving'
    OBVIOUS
  <2>1. CASE e \in Rowed
    BY <2>1, RowsSame DEF Arriving
  <2>2. CASE e \in UNION {x.data : x \in Snapshots}
    <3>1. PICK x \in Snapshots : e \in x.data
      BY <2>2
    <3> QED  BY <1>1, <3>1, KeptArrives DEF DataInvariant
  <2> QED  BY <2>1, <2>2 DEF Arriving
<1>3. Numbered'
  BY <1>1 DEF DataInvariant, Numbered
<1>4. Chained'
  BY <1>1 DEF DataInvariant, Chained
<1>5. Covered'
  <2>1. CASE overtaken
    BY <2>1 DEF Covered
  <2>2. CASE ~overtaken
    <3>1. failure \/ store \subseteq disk \cup Arriving
      BY <2>2 DEF DataInvariant, Covered
    <3>2. \A y \in Carriers' : store \subseteq y.data \cup disk \cup Arriving
      BY <1>1, <2>2 DEF DataInvariant, Covered
    <3>3. \A y \in Carriers' : disk \cap rows \cap store \subseteq y.data
      BY <1>1, <2>2 DEF DataInvariant, Covered
    <3> QED  BY <1>2, <3>1, <3>2, <3>3 DEF Covered
  <2> QED  BY <2>1, <2>2
<1> QED  BY <1>3, <1>4, <1>5 DEF DataInvariant

(* A write that is given up for good: its failure is shown. *)
LEMMA DataGivenUp ==
    ASSUME QueueInvariant, DataInvariant, saveInFlight \in Pending, Snapshots = {Copy(saveInFlight)},
           Snapshots' = {}, failure' = TRUE,
           UNCHANGED <<world, rows, made, store, disk, immediates, overtaken, acked>>,
           \A c \in Callers : held'[c] \subseteq 0..made
    PROVE  DataInvariant'
<1>1. Carriers' = RowCopies /\ Carriers' \subseteq Carriers /\ Copy(saveInFlight) \in Carriers
  BY DEF Carriers, RowCopies
<1>2. \A y \in Carriers' : Copy(saveInFlight).version <= y.version
  <2> TAKE y \in Carriers'
  <2>1. y \in RowCopies /\ y.version \in Nat /\ saveInFlight.version \in Nat
    BY <1>1, QueueTyped DEF CopyType, Pending
  <2>2. saveInFlight.version < y.version
    BY <2>1, NoSaveIsNone DEF QueueInvariant, Versions
  <2> QED  BY <2>1, <2>2 DEF Copy
<1>3. \A y \in Carriers' : Arriving \cap store \subseteq y.data \cup Arriving'
  <2> SUFFICES ASSUME NEW y \in Carriers', NEW e \in Arriving, e \in store PROVE e \in y.data \cup Arriving'
    OBVIOUS
  <2>1. CASE e \in Rowed
    BY <2>1, RowsSame DEF Arriving
  <2>2. CASE e \in Copy(saveInFlight).data
    BY <2>2, <1>1, <1>2 DEF DataInvariant, Chained
  <2> QED  BY <2>1, <2>2 DEF Arriving
<1>4. Numbered' /\ Chained'
  BY <1>1 DEF DataInvariant, Numbered, Chained
<1>5. Covered'
  <2>1. CASE overtaken
    BY <2>1 DEF Covered
  <2>2. CASE ~overtaken
    <3>1. \A y \in Carriers' : store \subseteq y.data \cup disk \cup Arriving
      BY <1>1, <2>2 DEF DataInvariant, Covered
    <3>2. \A y \in Carriers' : disk \cap rows \cap store \subseteq y.data
      BY <1>1, <2>2 DEF DataInvariant, Covered
    <3>3. \A y \in Carriers' : store \subseteq y.data \cup disk \cup Arriving'
      BY <1>3, <3>1
    <3> QED  BY <3>2, <3>3 DEF Covered
  <2> QED  BY <2>1, <2>2
<1> QED  BY <1>4, <1>5 DEF DataInvariant

(* A copy of the store, of a version newer than all, comes to the snapshots or to the rows. *)
LEMMA DataAdded ==
    ASSUME QueueInvariant, DataInvariant,
           NEW new, new = [version |-> pendingVersion + 1, data |-> store'],
           new \in Carriers', Carriers' \subseteq Carriers \cup {new}, store' \subseteq disk \cup Arriving',
           \A x \in Carriers : x.data \cap store' \subseteq store,
           disk \cap rows' \cap store' \subseteq disk \cap rows \cap store,
           UNCHANGED <<world, disk, overtaken>>
    PROVE  Chained' /\ Covered'
<1>1. new.version = pendingVersion + 1 /\ new.data = store'
  OBVIOUS
<1>2. \A x \in Carriers : x.version \in Nat /\ x.version <= pendingVersion
  BY QueueTyped DEF QueueInvariant, Versions, Carriers, CopyType
<1>3. Chained'
  <2> SUFFICES ASSUME NEW x \in Carriers', NEW y \in Carriers', x.version <= y.version
               PROVE  x.data \cap store' \subseteq y.data
    BY DEF Chained
  <2>1. CASE y = new
    BY <2>1, <1>1
  <2>2. CASE y # new /\ x = new
    <3>1. y \in Carriers /\ pendingVersion + 1 <= y.version
      BY <2>2, <1>1
    <3> QED  BY <3>1, <1>2, QueueTyped
  <2>3. CASE y # new /\ x # new
    <3>1. x \in Carriers /\ y \in Carriers
      BY <2>3
    <3>2. x.data \cap store \subseteq y.data
      BY <3>1 DEF DataInvariant, Chained
    <3> QED  BY <3>1, <3>2
  <2> QED  BY <2>1, <2>2, <2>3
<1>4. Covered'
  <2>1. CASE overtaken
    BY <2>1 DEF Covered
  <2>2. CASE ~overtaken
    <3>1. \A y \in Carriers' : disk \cap rows' \cap store' \subseteq y.data
      BY <1>1, <2>2 DEF DataInvariant, Covered
    <3> QED  BY <3>1 DEF Covered
  <2> QED  BY <2>1, <2>2
<1> QED  BY <1>3, <1>4

(* The newest of some snapshots is the one that is newer than all. *)
LEMMA NewestStays ==
    ASSUME QueueInvariant, NEW new, new.version = pendingVersion + 1,
           Keeps(Snapshots \cup {new}, Snapshots')
    PROVE  new \in Snapshots'
<1>1. PICK y \in Snapshots' : new.version <= y.version
  BY DEF Keeps
<1>2. y \in Snapshots \cup {new}
  BY DEF Keeps
<1>3. \A x \in Snapshots : x.version \in Nat /\ x.version <= pendingVersion
  BY QueueTyped DEF QueueInvariant, Versions, Carriers, CopyType
<1>4. y \notin Snapshots
  BY <1>1, <1>3, QueueTyped
<1> QED  BY <1>1, <1>2, <1>4

(* What no snapshot and no row can have yet. *)
LEMMA NextIsNew ==
    ASSUME QueueInvariant, Numbered
    PROVE  /\ made \in Nat /\ 0..made \subseteq 0..(made + 1)
           /\ made + 1 \notin store /\ made + 1 \notin disk /\ made + 1 \notin rows
           /\ made + 1 \notin acked
           /\ \A x \in Carriers : made + 1 \notin x.data
           /\ \A c \in Callers : made + 1 \notin held[c]
<1>1. made \in Nat
  BY WorldTyped DEF QueueInvariant, TransferTypeOK
<1>2. made + 1 \notin 0..made /\ 0..made \subseteq 0..(made + 1)
  BY <1>1
<1> QED  BY <1>1, <1>2 DEF Numbered

(* A retry queues what the store holds. *)
LEMMA DataPersisted ==
    ASSUME QueueInvariant, DataInvariant, Keeps(Snapshots \cup {NewCopy}, Snapshots'),
           UNCHANGED <<world, rows, made, store, disk, immediates, overtaken, acked>>,
           \A c \in Callers : held'[c] \subseteq 0..made
    PROVE  DataInvariant' /\ NewCopy \in Snapshots'
<1>1. NewCopy = [version |-> pendingVersion + 1, data |-> store'] /\ NewCopy.data = store
      /\ NewCopy.version = pendingVersion + 1
  BY DEF NewCopy
<1>2. NewCopy \in Snapshots'
  BY <1>1, NewestStays
<1>3. Carriers' \subseteq Carriers \cup {NewCopy} /\ NewCopy \in Carriers'
  BY <1>2, RowsSame DEF Carriers, Keeps
<1>4. store' \subseteq Arriving'
  BY <1>1, <1>2 DEF Arriving
<1> HIDE DEF NewCopy
<1>5. Chained' /\ Covered'
  BY <1>1, <1>3, <1>4, DataAdded
<1>6. Numbered'
  BY <1>1, <1>3 DEF DataInvariant, Numbered
<1> QED  BY <1>2, <1>5, <1>6 DEF DataInvariant

(* An edit that queues a snapshot, with a row of its own or not. *)
LEMMA DataSnapshot ==
    ASSUME QueueInvariant, DataInvariant, NEW row \in SUBSET {made + 1}, Snapshot(row),
           Keeps(Snapshots \cup {EditCopy}, Snapshots'),
           made' = made + 1, store' = store \cup {made + 1},
           UNCHANGED <<disk, immediates, flush, acked, world, overtaken>>
    PROVE  DataInvariant' /\ EditCopy \in Snapshots'
<1>1. EditCopy = [version |-> pendingVersion + 1, data |-> store'] /\ EditCopy.data = store'
      /\ EditCopy.version = pendingVersion + 1
  BY DEF EditCopy
<1>2. EditCopy \in Snapshots'
  BY <1>1, NewestStays
<1>3. Carriers' \subseteq Carriers \cup {EditCopy} /\ EditCopy \in Carriers'
  BY <1>2, RowsSame DEF Carriers, Keeps
<1>4. store' \subseteq Arriving'
  BY <1>1, <1>2 DEF Arriving
<1>5. /\ made \in Nat /\ 0..made \subseteq 0..(made + 1)
      /\ made + 1 \notin disk /\ made + 1 \notin rows
      /\ \A x \in Carriers : made + 1 \notin x.data
  BY NextIsNew DEF DataInvariant
<1>6. rows' \subseteq rows \cup {made + 1}
  BY DEF Snapshot, Made
<1> HIDE DEF EditCopy
<1>7. Chained' /\ Covered'
  BY <1>1, <1>3, <1>4, <1>5, <1>6, DataAdded
<1>8. Numbered'
  <2>1. \A i \in immediates' : i.row \in i.data /\ i.row \notin rows'
    <3> TAKE i \in immediates'
    <3>1. i.row \in i.data /\ i.row \notin rows /\ Copy(i) \in Carriers
      BY DEF DataInvariant, Numbered, Carriers, RowCopies
    <3>2. i.row # made + 1
      BY <1>5, <3>1 DEF Copy
    <3> QED  BY <1>6, <3>1, <3>2
  <2>2. made + 1 \in 0..(made + 1)
    BY <1>5
  <2> QED  BY <1>1, <1>3, <1>5, <1>6, <2>1, <2>2 DEF DataInvariant, Numbered, flush
<1> QED  BY <1>2, <1>7, <1>8 DEF DataInvariant

(* An edit that is saved as one row. *)
LEMMA DataRow ==
    ASSUME QueueInvariant, DataInvariant,
           made' = made + 1, store' = store \cup {made + 1},
           immediates' = immediates \cup
                {[version |-> pendingVersion + 1, row |-> made + 1, data |-> store']},
           Snapshots' = Snapshots, RowCopies' = RowCopies \cup {EditCopy},
           UNCHANGED <<disk, rows, failure, flush, acked, world, overtaken>>
    PROVE  DataInvariant'
<1> DEFINE row == [version |-> pendingVersion + 1, row |-> made + 1, data |-> store']
<1>1. EditCopy = [version |-> pendingVersion + 1, data |-> store'] /\ EditCopy.data = store'
  BY DEF EditCopy
<1>2. Carriers' = Carriers \cup {EditCopy}
  BY DEF Carriers
<1>3. Rowed' = Rowed \cup {made + 1}
  <2>1. immediates' = immediates \cup {row} /\ row.row = made + 1
    OBVIOUS
  <2> HIDE DEF row
  <2> QED  BY <2>1 DEF Rowed
<1>4. Arriving' = Arriving \cup {made + 1}
  BY <1>3 DEF Arriving
<1>5. /\ made \in Nat /\ 0..made \subseteq 0..(made + 1)
      /\ made + 1 \notin disk /\ made + 1 \notin rows
      /\ \A x \in Carriers : made + 1 \notin x.data
  BY NextIsNew DEF DataInvariant
<1> HIDE DEF EditCopy
<1>6. Chained'
  <2>1. EditCopy.version = pendingVersion + 1
    BY <1>1
  <2>2. \A x \in Carriers : x.version \in Nat /\ x.version <= pendingVersion
    BY QueueTyped DEF QueueInvariant, Versions, Carriers, CopyType
  <2> SUFFICES ASSUME NEW x \in Carriers', NEW y \in Carriers', x.version <= y.version
               PROVE  x.data \cap store' \subseteq y.data
    BY DEF Chained
  <2>3. CASE y = EditCopy
    BY <2>3, <1>1
  <2>4. CASE y # EditCopy /\ x = EditCopy
    <3>1. y \in Carriers /\ pendingVersion + 1 <= y.version
      BY <2>1, <2>4, <1>2
    <3> QED  BY <3>1, <2>2, QueueTyped
  <2>5. CASE y # EditCopy /\ x # EditCopy
    <3>1. x \in Carriers /\ y \in Carriers
      BY <2>5, <1>2
    <3>2. x.data \cap store \subseteq y.data
      BY <3>1 DEF DataInvariant, Chained
    <3> QED  BY <1>5, <3>1, <3>2
  <2> QED  BY <2>3, <2>4, <2>5
<1>7. Covered'
  <2>1. CASE overtaken
    BY <2>1 DEF Covered
  <2>2. CASE ~overtaken
    <3>1. failure \/ store' \subseteq disk \cup Arriving'
      BY <1>4, <2>2 DEF DataInvariant, Covered
    <3>2. \A y \in Carriers' : store' \subseteq y.data \cup disk \cup Arriving'
      BY <1>1, <1>2, <1>4, <2>2 DEF DataInvariant, Covered
    <3>3. \A y \in Carriers' : disk \cap rows \cap store' \subseteq y.data
      BY <1>1, <1>2, <1>5, <2>2 DEF DataInvariant, Covered
    <3> QED  BY <3>1, <3>2, <3>3 DEF Covered
  <2> QED  BY <2>1, <2>2
<1>8. Numbered'
  <2>1. \A i \in immediates' : i.row \in i.data /\ i.row \notin rows'
    BY <1>5 DEF DataInvariant, Numbered
  <2>2. made + 1 \in 0..(made + 1)
    BY <1>5
  <2> QED  BY <1>1, <1>2, <1>5, <2>1, <2>2 DEF DataInvariant, Numbered, flush
<1> QED  BY <1>6, <1>7, <1>8 DEF DataInvariant

(* A row is written. *)
LEMMA DataRowSaved ==
    ASSUME QueueInvariant, DataInvariant, NEW i \in immediates,
           disk' = disk \cup {i.row}, immediates' = immediates \ {i}, Snapshots' = Snapshots,
           UNCHANGED <<world, rows, made, store, failure, held, acked, overtaken>>
    PROVE  DataInvariant'
<1>1. Carriers' \subseteq Carriers
  BY DEF Carriers, RowCopies
<1>2. Rowed \subseteq Rowed' \cup {i.row}
  BY DEF Rowed
<1>3. disk \cup Arriving \subseteq disk' \cup Arriving'
  BY <1>2 DEF Arriving
<1>4. i.row \notin rows /\ i.row \in 0..made
  <2>1. i.row \in i.data /\ i.row \notin rows /\ Copy(i) \in Carriers
    BY DEF DataInvariant, Numbered, Carriers, RowCopies
  <2>2. i.data \subseteq 0..made
    BY <2>1 DEF DataInvariant, Numbered, Copy
  <2> QED  BY <2>1, <2>2
<1>5. Chained'
  BY <1>1 DEF DataInvariant, Chained
<1>6. Covered'
  <2>1. CASE overtaken
    BY <2>1 DEF Covered
  <2>2. CASE ~overtaken
    <3>1. failure \/ store \subseteq disk \cup Arriving
      BY <2>2 DEF DataInvariant, Covered
    <3>2. \A y \in Carriers' : store \subseteq y.data \cup disk \cup Arriving
      BY <1>1, <2>2 DEF DataInvariant, Covered
    <3>3. \A y \in Carriers' : disk \cap rows \cap store \subseteq y.data
      BY <1>1, <2>2 DEF DataInvariant, Covered
    <3>4. failure \/ store \subseteq disk' \cup Arriving'
      BY <1>3, <3>1
    <3>5. \A y \in Carriers' : store \subseteq y.data \cup disk' \cup Arriving'
      BY <1>3, <3>2
    <3>6. \A y \in Carriers' : disk' \cap rows \cap store \subseteq y.data
      BY <1>4, <3>3
    <3> QED  BY <3>4, <3>5, <3>6 DEF Covered
  <2> QED  BY <2>1, <2>2
<1>7. Numbered'
  BY <1>1, <1>4 DEF DataInvariant, Numbered
<1> QED  BY <1>5, <1>6, <1>7 DEF DataInvariant

(* A row is not: what it carries is queued, or a newer snapshot has it. *)
LEMMA DataRowFails ==
    ASSUME QueueInvariant, DataInvariant, NEW i \in immediates,
           failure' = TRUE, immediates' = immediates \ {i},
           Keeps(Snapshots \cup {Copy(i)}, Snapshots'),
           UNCHANGED <<world, rows, made, store, disk, acked, overtaken>>,
           \A c \in Callers : held'[c] \subseteq 0..made
    PROVE  DataInvariant'
<1>1. Copy(i) \in Carriers /\ Snapshots \cup {Copy(i)} \subseteq Carriers
  BY DEF Carriers, RowCopies
<1>2. Carriers' \subseteq Carriers
  BY <1>1 DEF Carriers, RowCopies, Keeps
<1>3. Arriving \cap store \subseteq Arriving'
  <2> SUFFICES ASSUME NEW e \in Arriving, e \in store PROVE e \in Arriving'
    OBVIOUS
  <2>1. CASE e \in Rowed'
    BY <2>1 DEF Arriving
  <2>2. CASE e = i.row
    <3>1. e \in Copy(i).data
      BY <2>2 DEF DataInvariant, Numbered, Copy
    <3> QED  BY <1>1, <3>1, KeptArrives DEF DataInvariant
  <2>3. CASE e \in UNION {x.data : x \in Snapshots}
    <3>1. PICK x \in Snapshots : e \in x.data
      BY <2>3
    <3> QED  BY <1>1, <3>1, KeptArrives DEF DataInvariant
  <2>4. Rowed \subseteq Rowed' \cup {i.row}
    BY DEF Rowed
  <2> QED  BY <2>1, <2>2, <2>3, <2>4 DEF Arriving
<1>4. Chained'
  BY <1>2 DEF DataInvariant, Chained
<1>5. Covered'
  <2>1. CASE overtaken
    BY <2>1 DEF Covered
  <2>2. CASE ~overtaken
    <3>1. \A y \in Carriers' : store \subseteq y.data \cup disk \cup Arriving
      BY <1>2, <2>2 DEF DataInvariant, Covered
    <3>2. \A y \in Carriers' : disk \cap rows \cap store \subseteq y.data
      BY <1>2, <2>2 DEF DataInvariant, Covered
    <3>3. \A y \in Carriers' : store \subseteq y.data \cup disk \cup Arriving'
      BY <1>3, <3>1
    <3> QED  BY <3>2, <3>3 DEF Covered
  <2> QED  BY <2>1, <2>2
<1>6. Numbered'
  BY <1>2 DEF DataInvariant, Numbered
<1> QED  BY <1>4, <1>5, <1>6 DEF DataInvariant

(* A snapshot is written: it deletes rows, but none the store shows. *)
LEMMA DataSaved ==
    ASSUME QueueInvariant, DataInvariant, saveInFlight \in Pending,
           Snapshots = Copies(pendingSaves) \cup {Copy(saveInFlight)},
           Keeps(Copies(pendingSaves), Snapshots'),
           disk' = Stored(saveInFlight.data),
           UNCHANGED <<world, rows, made, store, held, acked, immediates, overtaken>>
    PROVE  /\ DataInvariant'
           /\ disk' \subseteq 0..made
           /\ overtaken \/ disk \cap store \subseteq disk'
<1> DEFINE s == Copy(saveInFlight)
<1>1. s.data = saveInFlight.data /\ s.version = saveInFlight.version /\ s \in Carriers
  BY DEF Copy, Carriers
<1>2. /\ Carriers' \subseteq Copies(pendingSaves) \cup RowCopies
      /\ Carriers' \subseteq Carriers /\ Copies(pendingSaves) \subseteq Carriers
  BY RowsSame DEF Carriers, Keeps
<1>3. \A y \in Carriers' : s.version <= y.version
  <2> TAKE y \in Carriers'
  <2>1. y \in Copies(pendingSaves) \cup RowCopies /\ y.version \in Nat /\ saveInFlight.version \in Nat
    BY <1>2, QueueTyped DEF CopyType, Pending
  <2>2. saveInFlight.version < y.version
    BY <2>1, NoSaveIsNone DEF QueueInvariant, Versions
  <2> QED  BY <2>1, <2>2, <1>1
<1>4. \A y \in Carriers' : s.data \cap store \subseteq y.data
  BY <1>1, <1>2, <1>3 DEF DataInvariant, Chained
<1>5. Arriving \cap store \subseteq s.data \cup Arriving'
  <2> SUFFICES ASSUME NEW e \in Arriving, e \in store, e \notin s.data PROVE e \in Arriving'
    OBVIOUS
  <2>1. CASE e \in Rowed
    BY <2>1, RowsSame DEF Arriving
  <2>2. CASE e \in UNION {x.data : x \in Snapshots}
    <3>1. PICK x \in Snapshots : e \in x.data
      BY <2>2
    <3>2. x \in Copies(pendingSaves)
      BY <3>1
    <3> QED  BY <1>2, <3>1, <3>2, KeptArrives DEF DataInvariant
  <2> QED  BY <2>1, <2>2 DEF Arriving
<1>6. /\ s.data \subseteq disk' /\ disk' \subseteq s.data \cup disk
      /\ disk \ rows \subseteq disk'
  BY <1>1 DEF Stored
<1>7. disk' \subseteq 0..made
  BY <1>1, <1>6 DEF DataInvariant, Numbered
<1>8. overtaken \/ disk \cap store \subseteq disk'
  <2>1. CASE ~overtaken
    <3>1. disk \cap rows \cap store \subseteq s.data
      BY <1>1, <2>1 DEF DataInvariant, Covered
    <3> QED  BY <1>6, <3>1
  <2> QED  BY <1>6, <2>1 
<1>9. Chained'
  BY <1>2 DEF DataInvariant, Chained
<1>10. Covered'
  <2>1. CASE overtaken
    BY <2>1 DEF Covered
  <2>2. CASE ~overtaken
    <3>1. store \subseteq s.data \cup disk \cup Arriving
      BY <1>1, <2>2 DEF DataInvariant, Covered
    <3>2. store \subseteq disk' \cup Arriving'
      BY <1>5, <1>6, <1>8, <2>2, <3>1
    <3>3. \A y \in Carriers' : disk \cap rows \cap store \subseteq y.data
      BY <1>2, <2>2 DEF DataInvariant, Covered
    <3>4. \A y \in Carriers' : disk' \cap rows \cap store \subseteq y.data
      BY <1>4, <1>6, <3>3
    <3> QED  BY <3>2, <3>4 DEF Covered
  <2> QED  BY <2>1, <2>2
<1>11. Numbered'
  BY <1>2, <1>7 DEF DataInvariant, Numbered
<1> QED  BY <1>6, <1>7, <1>8, <1>9, <1>10, <1>11 DEF DataInvariant

(* The document of an import is written over what it was made from. *)
LEMMA DataImported ==
    ASSUME QueueInvariant, DataInvariant, Keeps(Snapshots, Snapshots'),
           disk' = disk \cup {Import}, rows' \subseteq rows \cup {Import},
           Import \notin store,
           \A i \in immediates : i.row # Import,
           UNCHANGED <<world, made, store, failure, acked, immediates, overtaken>>,
           \A c \in Callers : held'[c] \subseteq 0..made
    PROVE  DataInvariant'
<1>1. Carriers' \subseteq Carriers /\ Snapshots \subseteq Carriers
  BY RowsSame DEF Carriers, Keeps
<1>2. Arriving \cap store \subseteq Arriving'
  <2> SUFFICES ASSUME NEW e \in Arriving, e \in store PROVE e \in Arriving'
    OBVIOUS
  <2>1. CASE e \in Rowed
    BY <2>1, RowsSame DEF Arriving
  <2>2. CASE e \in UNION {x.data : x \in Snapshots}
    <3>1. PICK x \in Snapshots : e \in x.data
      BY <2>2
    <3> QED  BY <1>1, <3>1, KeptArrives DEF DataInvariant
  <2> QED  BY <2>1, <2>2 DEF Arriving
<1>3. Import \in 0..made
  BY WorldTyped DEF Import, QueueInvariant, TransferTypeOK
<1>4. Chained'
  BY <1>1 DEF DataInvariant, Chained
<1>5. Covered'
  <2>1. CASE overtaken
    BY <2>1 DEF Covered
  <2>2. CASE ~overtaken
    <3>1. failure \/ store \subseteq disk \cup Arriving
      BY <2>2 DEF DataInvariant, Covered
    <3>2. \A y \in Carriers' : store \subseteq y.data \cup disk \cup Arriving
      BY <1>1, <2>2 DEF DataInvariant, Covered
    <3>3. \A y \in Carriers' : disk \cap rows \cap store \subseteq y.data
      BY <1>1, <2>2 DEF DataInvariant, Covered
    <3>4. failure \/ store \subseteq disk' \cup Arriving'
      BY <1>2, <3>1
    <3>5. \A y \in Carriers' : store \subseteq y.data \cup disk' \cup Arriving'
      BY <1>2, <3>2
    <3>6. \A y \in Carriers' : disk' \cap rows' \cap store \subseteq y.data
      BY <3>3
    <3> QED  BY <3>4, <3>5, <3>6 DEF Covered
  <2> QED  BY <2>1, <2>2
<1>6. Numbered'
  BY <1>1, <1>3 DEF DataInvariant, Numbered
<1> QED  BY <1>4, <1>5, <1>6 DEF DataInvariant

(* A reload is applied. *)
LEMMA DataReloaded ==
    ASSUME QueueInvariant, DataInvariant, NEW c \in Callers, at[c] = "read",
           \A x, y \in Carriers : x = y,
           store' = held[c], overtaken' = Overtaken(c),
           UNCHANGED <<world, rows, made, disk, failure, acked, pendingSaves, saveInFlight, immediates>>,
           \A d \in Callers : held'[d] \subseteq 0..made
    PROVE  /\ DataInvariant' /\ (overtaken' \/ store' \subseteq disk)
           /\ Snapshots' = Snapshots /\ RowCopies' = RowCopies
<1>1. Snapshots' = Snapshots /\ RowCopies' = RowCopies /\ Carriers' = Carriers
  BY RowsSame DEF Carriers, Snapshots, Copies, Flying
<1>2. overtaken' \/ (store' \subseteq disk /\ Carriers = {})
  <2>1. CASE Overtaken(c)
    BY <2>1
  <2>2. CASE ~Overtaken(c)
    <3>1. disk = held[c] /\ ~PendingWork
      BY <2>2 DEF Overtaken
    <3>2. Carriers = {}
      BY <3>1, NoCopies DEF PendingWork, Carriers, Snapshots, RowCopies, Flying
    <3> QED  BY <3>1, <3>2
  <2> QED  BY <2>1, <2>2
<1>3. Numbered'
  BY <1>1 DEF DataInvariant, Numbered
<1>4. Chained'
  BY <1>1 DEF Chained
<1>5. Covered'
  BY <1>1, <1>2 DEF Covered
<1> QED  BY <1>1, <1>2, <1>3, <1>4, <1>5 DEF DataInvariant

-----------------------------------------------------------------------------
(* A step that is one caller's own: the data on its way stays or gets less. *)

Alters(c) ==
    /\ \A d \in Callers : d # c =>
          at'[d] = at[d] /\ job'[d] = job[d] /\ held'[d] = held[d] /\ since'[d] = since[d]
    /\ Carriers' \subseteq Carriers
    /\ UNCHANGED <<world, made, store, disk, rows, overtaken, immediates>>
    /\ failure => failure'
    /\ spoiled => spoiled'

(* What the caller must and must not do for the rest to hold. *)
SingleStep(c) ==
    /\ job'[c] = "retry" => job[c] = "retry" \/ ~Retrying
    /\ job'[c] \in {"transfer", "refresh"} => job[c] \in {"transfer", "refresh"} \/ ~Locked
    /\ Locked' => outcome' = "tried"

CalmStep(c) ==
    /\ Rests(c)' => Rests(c) \/ (Carriers' = {} /\ immediates = {})
    /\ Retries(c) /\ immediates = {} => Retries(c)' \/ Carriers' = {}
    /\ job[c] = "retry" /\ job'[c] # "retry" => at[c] = "flushed" \/ failure'
    /\ at'[c] = "joined" => at[c] = "joined" \/ (Retrying /\ job[c] # "retry")

LEMMA AltersSingle ==
    ASSUME Single, NEW c \in Callers, Alters(c), SingleStep(c)
    PROVE  Single'
BY DEF Single, Alters, SingleStep, Retrying, Locked

LEMMA SettledStays ==
    ASSUME NEW c \in Callers, Alters(c), Settled
    PROVE  Settled'
BY DEF Settled, Alters

LEMMA AltersCalm ==
    ASSUME Calm, Covered', NEW c \in Callers, Alters(c), CalmStep(c)
    PROVE  Calm'
<1>1. ASSUME NEW d \in Callers, Rests(d)'
      PROVE  /\ immediates' = {}
             /\ \A x, y \in Carriers' : x = y
             /\ Carriers' # {} => \E r \in Callers : Retries(r)'
             /\ Settled'
  <2>1. CASE \E e \in Callers : Rests(e)
    <3>1. /\ immediates = {} /\ \A x, y \in Carriers : x = y
          /\ Carriers # {} => \E r \in Callers : Retries(r)
          /\ Settled
      BY <2>1 DEF Calm
    <3>2. Carriers' # {} => \E r \in Callers : Retries(r)'
      <4> HAVE Carriers' # {}
      <4>1. PICK r \in Callers : Retries(r)
        BY <3>1 DEF Alters
      <4>2. CASE r = c
        BY <3>1, <4>1, <4>2 DEF CalmStep
      <4>3. CASE r # c
        BY <4>1, <4>3 DEF Retries, Alters
      <4> QED  BY <4>2, <4>3
    <3> QED  BY <3>1, <3>2, SettledStays DEF Alters
  <2>2. CASE \A e \in Callers : ~Rests(e)
    <3>1. d = c
      BY <1>1, <2>2 DEF Rests, ReadsOn, Alters
    <3>2. Carriers' = {} /\ immediates = {}
      BY <1>1, <2>2, <3>1 DEF CalmStep
    <3>3. Arriving' = {}
      <4>1. Snapshots' = {} /\ Rowed' = {}
        BY <3>2 DEF Carriers, Rowed, Alters
      <4> QED  BY <4>1 DEF Arriving
    <3>4. Settled'
      BY <3>3 DEF Covered, Settled
    <3> QED  BY <3>2, <3>4 DEF Alters
  <2> QED  BY <2>1, <2>2
<1>2. ASSUME NEW d \in Callers, at'[d] = "joined", ~Retrying'
      PROVE  Settled'
  <2>1. CASE ~Retrying
    <3>1. at[d] = "joined"
      BY <1>2, <2>1 DEF Alters, CalmStep
    <3> QED  BY <2>1, <3>1, SettledStays DEF Calm
  <2>2. CASE Retrying
    <3>1. job[c] = "retry" /\ job'[c] # "retry"
      BY <1>2, <2>2 DEF Retrying, Alters
    <3>2. at[c] = "flushed" \/ failure'
      BY <3>1 DEF CalmStep
    <3>3. at[c] = "flushed" => Settled
      BY DEF Calm, Rests
    <3> QED  BY <3>2, <3>3, SettledStays DEF Settled
  <2> QED  BY <2>1, <2>2
<1> QED  BY <1>1, <1>2 DEF Calm

LEMMA AltersStill ==
    ASSUME Still, NEW c \in Callers, Alters(c), StillFor(c)'
    PROVE  Still'
<1> SUFFICES ASSUME NEW d \in Callers, d # c PROVE StillFor(d)'
  BY DEF Still
<1>1. StillFor(d)
  BY DEF Still
<1> QED  BY <1>1 DEF StillFor, Unnoticed, Alters

LEMMA AltersCaller ==
    ASSUME CallerInvariant, Covered', NEW c \in Callers, Alters(c), SingleStep(c), CalmStep(c), StillFor(c)'
    PROVE  CallerInvariant'
BY AltersSingle, AltersCalm, AltersStill DEF CallerInvariant

ImportStep(c) ==
    /\ at'[c] = "read" => held'[c] = disk
    /\ acked' # acked => overtaken \/ store \subseteq disk
    /\ job'[c] = "transfer" => job[c] = "transfer" \/ outcome = "none"
    /\ outcome' = "none" => outcome = "none"
    /\ Import \in held'[c] =>
          at'[c] \in {"backup", "persisting"} \/ Import \in rows \/ Import \in disk \/ Import \in store
    /\ job'[c] = "refresh" => job[c] = "refresh"
    /\ at'[c] = "read" /\ job'[c] = "refresh" => \A r \in Callers \ {c} : at[r] # "read"
    /\ outcome' = "done" => outcome = "done" \/ spoiled'

LEMMA AltersImport ==
    ASSUME ImportInvariant, NEW c \in Callers, Alters(c), ImportStep(c)
    PROVE  ImportInvariant'
<1>1. ConfirmedIsSaved'
  BY DEF ImportInvariant, ConfirmedIsSaved, Alters, ImportStep
<1>2. Unwritten'
  BY DEF ImportInvariant, Unwritten, Alters, ImportStep
<1>3. Imported'
  BY DEF ImportInvariant, Imported, Alters, ImportStep
<1> QED  BY <1>1, <1>2, <1>3 DEF ImportInvariant

LEMMA AltersAll ==
    ASSUME TransferInvariant, QueueInvariant', NEW c \in Callers, Alters(c),
           Keeps(Snapshots, Snapshots'),
           acked' \subseteq 0..made, held'[c] \subseteq 0..made,
           SingleStep(c), CalmStep(c), StillFor(c)', ImportStep(c)
    PROVE  TransferInvariant'
<1>1. \A d \in Callers : held'[d] \subseteq 0..made
  BY DEF Alters, TransferInvariant, DataInvariant, Numbered
<1>2. DataInvariant'
  BY <1>1, DataKept DEF Alters, TransferInvariant
<1>3. CallerInvariant' /\ ImportInvariant'
  BY <1>2, AltersCaller, AltersImport DEF TransferInvariant, DataInvariant
<1> QED  BY <1>2, <1>3 DEF TransferInvariant

(* A turn of the flush loop by a caller that does not own a write. *)
LEMMA PushesAll ==
    ASSUME TransferInvariant, QueueInvariant', NEW c \in Callers, NEW work, Pushes(c, work),
           at[c] \in {"idle", "immediates", "inflight", "sleep"},
           UNCHANGED <<disk, rows, since, spoiled, overtaken>>,
           held' \in {held, [held EXCEPT ![c] = store]},
           work # job[c] => at[c] = "idle" /\ work \notin {"retry", "refresh"},
           \/ outcome' = outcome /\ (work = "transfer" => work = job[c])
           \/ outcome = "none" /\ outcome' = "tried"
    PROVE  TransferInvariant'
<1>1. at[c] # "owner" /\ waits[c] = {} /\ job' = [job EXCEPT ![c] = work]
      /\ work \in Jobs \ {"none"} /\ Turn(c, pendingSaves, savedVersion, saveInFlight)
      /\ UNCHANGED <<immediates, savedVersion, pendingVersion>>
  BY DEF Pushes
<1>2. /\ Keeps(Snapshots, Snapshots')
      /\ \E p \in Waiting : /\ TurnTo(c, p, pendingSaves, saveInFlight)
                            /\ p = "flushed" => Snapshots' = {} /\ immediates = {}
  BY <1>1, TurnNow DEF TransferInvariant
<1>3. PICK p \in Waiting : /\ TurnTo(c, p, pendingSaves, saveInFlight)
                           /\ p = "flushed" => Snapshots' = {} /\ immediates = {}
  BY <1>2
<1>4. /\ at' = [at EXCEPT ![c] = p]
      /\ p = "immediates" => immediates # {}
  BY <1>3 DEF TurnTo
<1>5. /\ job \in [Callers -> Jobs] /\ at \in [Callers -> Points]
      /\ held \in [Callers -> Content]
  BY QueueTyped DEF TransferInvariant, QueueInvariant, TransferTypeOK, TypeOK
<1>6. RowCopies' = RowCopies /\ Carriers' \subseteq Carriers
  BY <1>1, <1>2, RowsSame DEF Carriers, Keeps
<1>7. p = "flushed" => Carriers' = {} /\ immediates = {}
  BY <1>3, <1>6 DEF Carriers, RowCopies
<1>8. Alters(c)
  BY <1>4, <1>5, <1>6 DEF Alters, Pushes
<1>9. at'[c] = p /\ job'[c] = work /\ held'[c] \in {held[c], store}
  BY <1>1, <1>4, <1>5
<1>10. held'[c] \subseteq 0..made /\ acked' \subseteq 0..made
  BY <1>9 DEF Pushes, TransferInvariant, DataInvariant, Numbered
<1>11. SingleStep(c)
  BY <1>8, <1>9 DEF SingleStep, TransferInvariant, CallerInvariant, Single, Locked, Alters
<1>12. CalmStep(c)
  <2>1. job[c] = "retry" => work = "retry"
    BY DEF TransferInvariant, QueueInvariant, Places
  <2> QED  BY <1>4, <1>7, <1>9, <2>1 DEF CalmStep, Rests, ReadsOn, Retries, Waiting
<1>13. StillFor(c)'
  <2>1. StillFor(c)
    BY DEF TransferInvariant, CallerInvariant, Still
  <2>2. work = "refresh" => job[c] = "refresh"
    OBVIOUS
  <2> QED  BY <1>6, <1>7, <1>9, <2>1, <2>2 DEF StillFor, Unnoticed, Waiting
<1>14. ImportStep(c)
  <2>1. acked' = acked /\ at'[c] # "read"
    BY <1>9 DEF Pushes, Waiting
  <2>2. Import \in held'[c] =>
           at[c] \in {"backup", "persisting"} \/ Import \in rows \/ Import \in disk \/ Import \in store
    BY <1>9 DEF TransferInvariant, ImportInvariant, Unwritten
  <2> QED  BY <1>9, <2>1, <2>2 DEF ImportStep
<1> QED  BY <1>2, <1>8, <1>10, <1>11, <1>12, <1>13, <1>14, AltersAll

LEMMA PushesHold ==
    ASSUME TransferInvariant, QueueInvariant', NEW c \in Callers
    PROVE  /\ (Continue(c) \/ Wake(c)) /\ UNCHANGED transfer => TransferInvariant'
           /\ TimerFires(c) /\ UNCHANGED transfer => TransferInvariant'
           /\ Fetch(c) /\ UNCHANGED transfer => TransferInvariant'
           /\ Confirm(c) /\ UNCHANGED transfer => TransferInvariant'
           /\ Transfer(c) => TransferInvariant'
<1> QueueInvariant
  BY DEF TransferInvariant
<1>1. ASSUME Continue(c) \/ Wake(c), UNCHANGED transfer PROVE TransferInvariant'
  BY <1>1, ContinuePushes, PushesAll DEF transfer
<1>2. ASSUME TimerFires(c), UNCHANGED transfer PROVE TransferInvariant'
  BY <1>2, TimerPushes, PushesAll DEF transfer
<1>3. ASSUME Fetch(c), UNCHANGED transfer PROVE TransferInvariant'
  BY <1>3, FetchPushes, PushesAll DEF transfer
<1>4. ASSUME Confirm(c), UNCHANGED transfer PROVE TransferInvariant'
  BY <1>4, ConfirmPushes, PushesAll DEF transfer
<1>5. ASSUME Transfer(c) PROVE TransferInvariant'
  BY <1>5, TransferPushes, PushesAll
<1> QED  BY <1>1, <1>2, <1>3, <1>4, <1>5

(* A caller that goes on without the queue. *)
LEMMA MovesAll ==
    ASSUME TransferInvariant, QueueInvariant', NEW c \in Callers, NEW point, Moves(c, point),
           NEW work, job' = [job EXCEPT ![c] = work],
           NEW doc, held' = [held EXCEPT ![c] = doc], doc \subseteq 0..made,
           NEW stamp, since' = [since EXCEPT ![c] = stamp],
           UNCHANGED <<store, failure, overtaken>>, spoiled => spoiled',
           acked' \subseteq 0..made,
           SingleStep(c), CalmStep(c), StillFor(c)', ImportStep(c)
    PROVE  TransferInvariant'
<1>1. Snapshots' = Snapshots /\ immediates' = immediates
  BY DEF Moves, queue, Snapshots, Copies, Flying
<1>2. Keeps(Snapshots, Snapshots') /\ Carriers' = Carriers
  BY <1>1, RowsSame, KeepsAll, QueueTyped DEF Carriers, TransferInvariant
<1>3. held \in [Callers -> Content] /\ job \in [Callers -> Jobs] /\ at \in [Callers -> Points]
  BY DEF TransferInvariant, QueueInvariant, TransferTypeOK, TypeOK
<1>4. since \in [Callers -> 0..MaxEdits]
  BY DEF TransferInvariant, QueueInvariant, TransferTypeOK, TypeOK
<1>5. Alters(c)
  BY <1>1, <1>2, <1>3, <1>4 DEF Alters, Moves
<1>6. held'[c] \subseteq 0..made
  BY <1>3
<1> QED  BY <1>2, <1>5, <1>6, AltersAll

(* A caller that ends, without touching the store. *)
LEMMA EndsHold ==
    ASSUME TransferInvariant, QueueInvariant', NEW c \in Callers, End(c),
           at[c] \notin {"owner", "idle"}, job[c] = "retry" => at[c] \in {"flushed"},
           NEW stamp, since' = [since EXCEPT ![c] = stamp],
           UNCHANGED <<world, rows, made, disk, queue, store, failure, overtaken>>,
           acked' \subseteq 0..made, spoiled => spoiled',
           acked' # acked => overtaken \/ store \subseteq disk,
           \/ outcome' = outcome
           \/ outcome' = "done" /\ job[c] = "refresh" /\ spoiled'
    PROVE  TransferInvariant'
<1>1. Moves(c, "idle") /\ job' = [job EXCEPT ![c] = "none"] /\ held' = [held EXCEPT ![c] = {}]
  BY DEF End, Goto, Begin, Moves, Points
<1>2. at'[c] = "idle" /\ job'[c] = "none" /\ held'[c] = {}
  BY <1>1 DEF Moves, TransferInvariant, QueueInvariant, TransferTypeOK, TypeOK
<1>3. SingleStep(c)
  <2>1. CASE outcome' = outcome
    <3>1. Locked' => Locked
      BY <1>1, <1>2, QueueTyped DEF Locked, TransferInvariant
    <3> QED  BY <1>2, <2>1, <3>1 DEF SingleStep, TransferInvariant, CallerInvariant, Single
  <2>2. CASE job[c] = "refresh"
    <3>1. ~Locked'
      BY <1>1, <1>2, <2>2, QueueTyped DEF Locked, TransferInvariant, CallerInvariant, Single
    <3> QED  BY <1>2, <3>1 DEF SingleStep
  <2> QED  BY <2>1, <2>2
<1>4. CalmStep(c)
  BY <1>2 DEF CalmStep, Rests, ReadsOn, Retries
<1>5. StillFor(c)'
  BY <1>2 DEF StillFor, Unnoticed
<1>6. ImportStep(c)
  BY <1>2 DEF ImportStep
<1> DEFINE point == "idle"
           work == "none"
           doc == {}
<1>7. /\ Moves(c, point) /\ job' = [job EXCEPT ![c] = work]
      /\ held' = [held EXCEPT ![c] = doc] /\ doc \subseteq 0..made
  BY <1>1
<1> HIDE DEF point, work, doc
<1> QED  BY <1>3, <1>4, <1>5, <1>6, <1>7, MovesAll

(* A caller that goes on with what it was doing. *)
LEMMA WorksOn ==
    ASSUME TransferInvariant, QueueInvariant', NEW c \in Callers, NEW point \in Points, Goto(c, point),
           at[c] \notin {"owner", "idle", "immediates"}, point \notin {"owner", "idle", "joined", "flushed"},
           job[c] \in {"fetch", "refresh", "transfer"}, UNCHANGED job,
           NEW doc, held' = [held EXCEPT ![c] = doc], doc \subseteq 0..made,
           NEW stamp, since' = [since EXCEPT ![c] = stamp],
           UNCHANGED <<world, rows, made, disk, queue, store, failure, acked, transfer>>,
           point \in {"reading", "read"} /\ stamp = made => Rests(c),
           StillFor(c)',
           point = "read" => doc = disk /\ (job[c] = "refresh" => LastToRead(c)),
           Import \in doc =>
              point \in {"backup", "persisting"} \/ Import \in rows \/ Import \in disk
              \/ Import \in store
    PROVE  TransferInvariant'
<1>1. Moves(c, point) /\ job' = [job EXCEPT ![c] = job[c]]
  BY QueueTyped DEF Goto, Moves, TransferInvariant
<1>2. at'[c] = point /\ job'[c] = job[c] /\ held'[c] = doc /\ since'[c] = stamp
  BY <1>1 DEF Moves, TransferInvariant, QueueInvariant, TransferTypeOK, TypeOK
<1>3. SingleStep(c)
  BY <1>2 DEF SingleStep, TransferInvariant, CallerInvariant, Single, Locked, transfer
<1>4. CalmStep(c)
  BY <1>2 DEF CalmStep, Rests, ReadsOn, Retries
<1>5. ImportStep(c)
  BY <1>2 DEF ImportStep, LastToRead, transfer
<1>6. acked' \subseteq 0..made
  BY DEF TransferInvariant, DataInvariant, Numbered
<1> QED  BY <1>1, <1>3, <1>4, <1>5, <1>6, MovesAll DEF transfer

LEMMA CallerTyped ==
    ASSUME TransferInvariant
    PROVE  /\ since \in [Callers -> 0..MaxEdits] /\ held \in [Callers -> Content]
           /\ job \in [Callers -> Jobs] /\ at \in [Callers -> Points]
           /\ disk \subseteq 0..made /\ acked \subseteq 0..made /\ Import \in 0..made
           /\ \A c \in Callers : held[c] \subseteq 0..made
           /\ disk \in Content /\ disk \cup {Import} \in Content
<1>1. Import \in 0..made
  BY WorldTyped DEF Import, TransferInvariant, QueueInvariant, TransferTypeOK, TypeOK
<1> QED  BY <1>1, WorldTyped
         DEF TransferInvariant, QueueInvariant, TransferTypeOK, TypeOK, DataInvariant, Numbered, Content

LEMMA EndsAll ==
    ASSUME TransferInvariant, QueueInvariant', NEW c \in Callers
    PROVE  /\ Flushed(c) /\ UNCHANGED transfer => TransferInvariant'
           /\ FetchGivesUp(c) /\ UNCHANGED transfer => TransferInvariant'
           /\ job[c] = "refresh" /\ FetchGivesUp(c) /\ spoiled' = TRUE /\ outcome' = "done"
                 /\ UNCHANGED overtaken => TransferInvariant'
           /\ TransferFails(c) => TransferInvariant'
           /\ Confirmed(c) /\ UNCHANGED transfer => TransferInvariant'
           /\ Recovered(c) /\ UNCHANGED transfer => TransferInvariant'
<1>0. /\ since \in [Callers -> 0..MaxEdits] /\ acked \subseteq 0..made
      /\ \A d \in Callers : held[d] \subseteq 0..made
  BY CallerTyped
<1>1. since' = since => since' = [since EXCEPT ![c] = since[c]]
  BY <1>0
<1>2. ASSUME Flushed(c), UNCHANGED transfer PROVE TransferInvariant'
  BY <1>0, <1>1, <1>2, EndsHold DEF Flushed, transfer
<1>3. ASSUME FetchGivesUp(c), UNCHANGED transfer PROVE TransferInvariant'
  BY <1>0, <1>3, EndsHold DEF FetchGivesUp, Fetching, transfer
<1>4. ASSUME job[c] = "refresh", FetchGivesUp(c), spoiled' = TRUE, outcome' = "done",
             UNCHANGED overtaken
      PROVE  TransferInvariant'
  BY <1>0, <1>4, EndsHold DEF FetchGivesUp
<1>5. ASSUME TransferFails(c) PROVE TransferInvariant'
  <2>1. job[c] = "transfer" /\ at[c] \notin {"owner", "idle"}
    BY <1>5 DEF TransferFails, TransferInvariant, QueueInvariant, Places
  <2> QED  BY <1>0, <1>5, <2>1, EndsHold DEF TransferFails, Abort, transfer
<1>6. ASSUME at[c] = "flushed" \/ (at[c] = "joined" /\ ~Retrying), ~failure
      PROVE  overtaken \/ store \subseteq disk
  BY <1>6 DEF TransferInvariant, CallerInvariant, Calm, Rests, Settled
<1>7. ASSUME Confirmed(c), UNCHANGED transfer PROVE TransferInvariant'
  <2>1. at[c] = "flushed" /\ job[c] = "confirm" /\ ~failure /\ acked' = acked \cup held[c]
    BY <1>7 DEF Confirmed, FailureSeen, Acknowledge
  <2>2. acked' \subseteq 0..made
    BY <1>0, <2>1
  <2> QED  BY <1>1, <1>6, <1>7, <2>1, <2>2, EndsHold DEF Confirmed, transfer
<1>8. ASSUME Recovered(c), UNCHANGED transfer PROVE TransferInvariant'
  <2>1. /\ at[c] \notin {"owner", "idle"} /\ (job[c] = "retry" => at[c] \in {"flushed"})
        /\ at[c] = "flushed" \/ (at[c] = "joined" /\ ~Retrying)
    BY <1>8 DEF Recovered, TransferInvariant, QueueInvariant, Places
  <2>2. acked' = acked \/ (acked' = acked \cup held[c] /\ ~failure)
    BY <1>8 DEF Recovered, FailureSeen, Acknowledge
  <2>3. acked' \subseteq 0..made
    BY <1>0, <2>2
  <2> QED  BY <1>1, <1>6, <1>8, <2>1, <2>2, <2>3, EndsHold DEF Recovered, transfer
<1> QED  BY <1>2, <1>3, <1>4, <1>5, <1>7, <1>8

LEMMA WorksAll ==
    ASSUME TransferInvariant, QueueInvariant', NEW c \in Callers
    PROVE  /\ FetchBegins(c) /\ UNCHANGED transfer => TransferInvariant'
           /\ /\ FetchReads(c) /\ UNCHANGED transfer
              /\ job[c] = "refresh" => LastToRead(c)
              => TransferInvariant'
           /\ Capture(c) => TransferInvariant'
           /\ Load(c) => TransferInvariant'
           /\ Dispatch(c) => TransferInvariant'
<1>1. /\ since \in [Callers -> 0..MaxEdits] /\ held \in [Callers -> Content]
      /\ at \in [Callers -> Points] /\ disk \subseteq 0..made /\ Import \in 0..made
      /\ \A d \in Callers : held[d] \subseteq 0..made
  BY CallerTyped
<1>2. /\ since' = since => since' = [since EXCEPT ![c] = since[c]]
      /\ held' = held => held' = [held EXCEPT ![c] = held[c]]
  BY <1>1
<1>3. StillFor(c)
  BY DEF TransferInvariant, CallerInvariant, Still
<1>4. /\ at[c] \in {"reading", "read"} => job[c] \in {"fetch", "refresh"}
      /\ at[c] \in {"loading", "backup", "persisting"} => job[c] = "transfer"
  BY DEF TransferInvariant, QueueInvariant, Places
<1>5. Import \in held[c] =>
         at[c] \in {"backup", "persisting"} \/ Import \in rows \/ Import \in disk \/ Import \in store
  BY DEF TransferInvariant, ImportInvariant, Unwritten
<1>6. UNCHANGED <<queue, immediates>> => Carriers' = Carriers
  BY RowsSame DEF Carriers, queue, Snapshots, Copies, Flying
<1>7. ASSUME FetchBegins(c), UNCHANGED transfer PROVE TransferInvariant'
  <2>1. Goto(c, "reading") /\ at'[c] = "reading" /\ since' = [since EXCEPT ![c] = made]
    BY <1>1, <1>7 DEF FetchBegins, Goto
  <2>2. StillFor(c)'
    BY <1>3, <1>6, <1>7, <2>1 DEF FetchBegins, Fetching, StillFor, Unnoticed, transfer, queue
  <2> DEFINE point == "reading"
             doc == held[c]
             stamp == made
  <2>3. /\ point \in Points /\ Goto(c, point) /\ held' = [held EXCEPT ![c] = doc]
        /\ doc \subseteq 0..made /\ since' = [since EXCEPT ![c] = stamp]
        /\ point \notin {"owner", "idle", "joined", "flushed", "read"}
        /\ point \in {"reading", "read"} /\ stamp = made => Rests(c)
        /\ Import \in doc =>
              point \in {"backup", "persisting"} \/ Import \in rows \/ Import \in disk
              \/ Import \in store
    BY <1>1, <1>2, <1>5, <1>7, <2>1 DEF FetchBegins, Rests, Points
  <2>4. /\ at[c] \notin {"owner", "idle", "immediates"} /\ job[c] \in {"fetch", "refresh", "transfer"}
        /\ UNCHANGED <<job, world, rows, made, disk, queue, store, failure, acked, transfer>>
    BY <1>7 DEF FetchBegins, Fetching
  <2> HIDE DEF point, doc, stamp
  <2> QED  BY <2>2, <2>3, <2>4, WorksOn
<1>8. ASSUME FetchReads(c), UNCHANGED transfer, job[c] = "refresh" => LastToRead(c)
      PROVE  TransferInvariant'
  <2>1. Goto(c, "read") /\ at'[c] = "read" /\ held' = [held EXCEPT ![c] = disk]
    BY <1>1, <1>8 DEF FetchReads, Goto
  <2>2. StillFor(c)'
    BY <1>3, <1>4, <1>6, <1>8, <2>1 DEF FetchReads, StillFor, Unnoticed, transfer, queue
  <2>3. since[c] = made => Rests(c)
    BY <1>8 DEF FetchReads, Rests, ReadsOn
  <2> QED  BY <1>1, <1>2, <1>4, <1>8, <2>1, <2>2, <2>3, WorksOn DEF FetchReads, Points
<1>9. ASSUME Capture(c) PROVE TransferInvariant'
  <2>1. Goto(c, "loading") /\ at'[c] = "loading" /\ since' = [since EXCEPT ![c] = made]
    BY <1>1, <1>9 DEF Capture, Goto
  <2>2. StillFor(c)'
    BY <1>3, <1>6, <1>9, <2>1 DEF Capture, StillFor, Unnoticed, queue
  <2> DEFINE point == "loading"
             doc == held[c]
             stamp == made
  <2>3. /\ point \in Points /\ Goto(c, point) /\ held' = [held EXCEPT ![c] = doc]
        /\ doc \subseteq 0..made /\ since' = [since EXCEPT ![c] = stamp]
        /\ point \notin {"owner", "idle", "joined", "flushed", "read"}
        /\ point \in {"reading", "read"} /\ stamp = made => Rests(c)
        /\ Import \in doc =>
              point \in {"backup", "persisting"} \/ Import \in rows \/ Import \in disk
              \/ Import \in store
    BY <1>1, <1>2, <1>5, <1>9, <2>1 DEF Capture, Points
  <2>4. /\ at[c] \notin {"owner", "idle", "immediates"} /\ job[c] \in {"fetch", "refresh", "transfer"}
        /\ UNCHANGED <<job, world, rows, made, disk, queue, store, failure, acked, transfer>>
    BY <1>9 DEF Capture
  <2> HIDE DEF point, doc, stamp
  <2> QED  BY <2>2, <2>3, <2>4, WorksOn
<1>10. ASSUME Load(c) PROVE TransferInvariant'
  <2>1. CASE Fresh(c)
    <3>1. /\ Goto(c, "backup") /\ at'[c] = "backup" /\ held' = [held EXCEPT ![c] = disk \cup {Import}]
          /\ held'[c] = disk \cup {Import} /\ disk \cup {Import} \subseteq 0..made
          /\ at[c] = "loading" /\ since[c] = made
          /\ UNCHANGED <<world, rows, made, store, disk, queue, failure, acked, job, since, transfer>>
      BY <1>1, <1>10, <2>1 DEF Load, Goto, Fresh
    <3>2. StillFor(c)'
      BY <1>3, <1>4, <1>6, <3>1 DEF StillFor, Unnoticed, queue
    <3> QED  BY <1>2, <1>4, <3>1, <3>2, WorksOn DEF Points
  <2>2. CASE ~Fresh(c)
    <3> QED  BY <1>1, <1>4, <1>10, <2>2, CallerTyped, EndsHold DEF Load, Abort, transfer
  <2> QED  BY <2>1, <2>2
<1>11. ASSUME Dispatch(c) PROVE TransferInvariant'
  <2>1. CASE Fresh(c)
    <3>1. /\ Goto(c, "persisting") /\ at'[c] = "persisting" /\ held' = [held EXCEPT ![c] = held[c]]
          /\ at[c] = "backup" /\ since[c] = made
          /\ UNCHANGED <<world, rows, made, store, disk, queue, failure, acked, job, since, held, transfer>>
      BY <1>1, <1>11, <2>1 DEF Dispatch, Goto, Fresh
    <3>2. StillFor(c)'
      BY <1>3, <1>4, <1>6, <3>1 DEF StillFor, Unnoticed, queue
    <3> DEFINE point == "persisting"
             doc == held[c]
             stamp == since[c]
  <3>3. /\ point \in Points /\ Goto(c, point) /\ held' = [held EXCEPT ![c] = doc]
        /\ doc \subseteq 0..made /\ since' = [since EXCEPT ![c] = stamp]
        /\ point \notin {"owner", "idle", "joined", "flushed", "read"}
        /\ point \in {"reading", "read"} /\ stamp = made => Rests(c)
        /\ Import \in doc =>
              point \in {"backup", "persisting"} \/ Import \in rows \/ Import \in disk
              \/ Import \in store
    BY <1>1, <1>2, <3>1 DEF Points
  <3>4. /\ at[c] \notin {"owner", "idle", "immediates"} /\ job[c] \in {"fetch", "refresh", "transfer"}
        /\ UNCHANGED <<job, world, rows, made, disk, queue, store, failure, acked, transfer>>
    BY <1>4, <3>1
  <3> HIDE DEF point, doc, stamp
  <3> QED  BY <3>2, <3>3, <3>4, WorksOn
  <2>2. CASE ~Fresh(c)
    <3> QED  BY <1>1, <1>4, <1>11, <2>2, CallerTyped, EndsHold DEF Dispatch, Abort, transfer
  <2> QED  BY <2>1, <2>2
<1> QED  BY <1>7, <1>8, <1>9, <1>10, <1>11

(* A confirmation has to wait for a retry or an import. *)
LEMMA RecoverWaits ==
    ASSUME TransferInvariant, NEW c \in Callers, UNCHANGED transfer, Recover(c), Retrying \/ Locked
    PROVE  TransferInvariant'
<1> DEFINE point == IF Retrying THEN "joined" ELSE "locked"
           work == IF Retrying THEN "confirm" ELSE "retry"
           doc == held[c]
           stamp == since[c]
<1>1. QueueInvariant' /\ at' = [at EXCEPT ![c] = point] /\ job' = [job EXCEPT ![c] = work]
      /\ UNCHANGED <<world, rows, made, store, disk, queue, failure, held, since, acked>>
  BY RecoverTyped DEF TransferInvariant
<1>2. at[c] = "flushed" /\ job[c] = "confirm"
  BY DEF Recover
<1>3. Moves(c, point)
  BY <1>1, <1>2 DEF Moves, Points
<1>4. /\ at'[c] = point /\ job'[c] = work /\ held'[c] = held[c] /\ acked' = acked
      /\ at'[c] \in {"joined", "locked"} /\ job'[c] \in {"confirm", "retry"}
  BY <1>1, CallerTyped
<1>5. held' = [held EXCEPT ![c] = doc] /\ since' = [since EXCEPT ![c] = stamp] /\ doc \subseteq 0..made
      /\ acked' \subseteq 0..made
  BY <1>1, CallerTyped
<1>6. SingleStep(c)
  <2>1. Locked' => Locked
    BY <1>1, CallerTyped DEF Locked
  <2>2. job'[c] = "retry" => ~Retrying
    BY <1>4
  <2> QED  BY <1>4, <2>1, <2>2 DEF SingleStep, TransferInvariant, CallerInvariant, Single, transfer
<1>7. CalmStep(c)
  BY <1>2, <1>4 DEF CalmStep, Rests, ReadsOn, Retries
<1>8. StillFor(c)'
  BY <1>4 DEF StillFor, Unnoticed
<1>9. ImportStep(c)
  BY <1>2, <1>4 DEF ImportStep, TransferInvariant, ImportInvariant, Unwritten, transfer
<1> HIDE DEF point, work, doc, stamp
<1> QED  BY <1>1, <1>3, <1>5, <1>6, <1>7, <1>8, <1>9, MovesAll DEF transfer

LEMMA TurnStops ==
    ASSUME NEW c \in Callers, NEW q, NEW saved, NEW w, Turn(c, q, saved, w), at \in [Callers -> Points],
           at'[c] = "immediates"
    PROVE  immediates # {}
BY DEF Turn, Goto

(* The owner of a write goes on after it, or gives up. *)
LEMMA OwnerSteps ==
    ASSUME TransferInvariant, NEW c \in Callers, at[c] = "owner", QueueInvariant',
           NEW p \in Waiting \cup {"sleep"}, at' = [at EXCEPT ![c] = p],
           p = "immediates" => immediates # {},
           p = "flushed" => Carriers' = {} /\ immediates = {},
           UNCHANGED <<job, held, since, acked, outcome>>, spoiled => spoiled',
           Carriers' \subseteq Carriers
    PROVE  SingleStep(c) /\ CalmStep(c) /\ StillFor(c)' /\ ImportStep(c)
<1>1. at'[c] = p
  BY CallerTyped
<1>2. SingleStep(c)
  BY DEF SingleStep, Locked, TransferInvariant, CallerInvariant, Single
<1>3. CalmStep(c)
  BY <1>1 DEF CalmStep, Rests, ReadsOn, Retries, Waiting
<1>4. StillFor(c)'
  <2>1. saveInFlight # NoSave
    BY DEF TransferInvariant, QueueInvariant, Owned
  <2>2. Carriers # {}
    BY <2>1 DEF Carriers, Snapshots, Flying
  <2>3. StillFor(c)
    BY DEF TransferInvariant, CallerInvariant, Still
  <2>4. job[c] = "refresh" => spoiled
    BY <2>2, <2>3 DEF StillFor, Unnoticed
  <2> QED  BY <1>1, <2>4 DEF StillFor, Unnoticed, Waiting
<1>5. ImportStep(c)
  BY <1>1 DEF ImportStep, TransferInvariant, ImportInvariant, Unwritten, Waiting
<1> QED  BY <1>2, <1>3, <1>4, <1>5

LEMMA SaveFailsAll ==
    ASSUME TransferInvariant, NEW c \in Callers, SaveFails(c), UNCHANGED transfer
    PROVE  TransferInvariant'
<1> QueueInvariant
  BY DEF TransferInvariant
<1>1. /\ QueueInvariant'
      /\ at[c] = "owner" /\ saveInFlight \in Pending
      /\ Snapshots = Copies(pendingSaves) \cup {Copy(saveInFlight)}
      /\ failure => failure'
  BY SaveFailsSteps
<1>2. UNCHANGED <<world, rows, made, store, disk, immediates, since, acked, transfer>>
  BY DEF SaveFails
<1>3. RowCopies' = RowCopies /\ saveInFlight # NoSave
  BY <1>1, <1>2, RowsSame DEF QueueInvariant, Owned
<1>4. /\ at \in [Callers -> Points] /\ job \in [Callers -> Jobs] /\ held \in [Callers -> Content]
      /\ acked' \subseteq 0..made
      /\ \A d \in Callers : held[d] \subseteq 0..made
  BY <1>2, CallerTyped
<1>5. ASSUME pendingSaves # <<>>, Keeps(Copies(pendingSaves), Snapshots'),
             job' = job, held' = held,
             NEW p \in Waiting, at' = [at EXCEPT ![c] = p], p # "flushed"
      PROVE  TransferInvariant'
  <2>1. Keeps(Snapshots, Snapshots')
    <3>1. Keeps(Snapshots, Copies(pendingSaves))
      <4>1. PICK y : y \in Copies(pendingSaves)
        <5>1. pendingSaves \in Seq(Pending)
          BY QueueTyped
        <5>2. Len(pendingSaves) \in 1..Len(pendingSaves)
          BY <1>5, <5>1, LastKeeps DEF QueueInvariant, Versions
        <5> QED  BY <5>2 DEF Copies
      <4>2. Copy(saveInFlight).version <= y.version
        <5>1. saveInFlight.version < y.version
          BY <1>3, <4>1 DEF QueueInvariant, Versions
        <5>2. y.version \in Nat /\ saveInFlight.version \in Nat
          BY <1>1, <4>1, QueueTyped DEF CopyType, Pending
        <5> QED  BY <5>1, <5>2 DEF Copy
      <4>3. \A x \in Copies(pendingSaves) : x.version <= x.version
        BY QueueTyped DEF CopyType
      <4> QED  BY <1>1, <4>1, <4>2, <4>3 DEF Keeps
    <3> QED  BY <1>5, <3>1, KeepsOn, QueueTyped
  <2>2. Carriers' \subseteq Carriers
    BY <1>3, <2>1 DEF Carriers, Keeps
  <2>3. p = "immediates" => immediates # {}
    <3>1. \/ at'[c] = "sleep"
          \/ at'[c] = "idle"
          \/ Turn(c, pendingSaves, savedVersion, NoSave)
      BY <1>4 DEF SaveFails, Goto, End
    <3> QED  BY <1>4, <1>5, <3>1, TurnStops DEF Waiting
  <2>4. SingleStep(c) /\ CalmStep(c) /\ StillFor(c)' /\ ImportStep(c)
    <3>1. /\ p \in Waiting \cup {"sleep"} /\ UNCHANGED <<job, held, since, acked, outcome>>
          /\ spoiled => spoiled'
          /\ p = "flushed" => Carriers' = {} /\ immediates = {}
      BY <1>2, <1>5 DEF transfer
    <3> QED  BY <1>1, <1>5, <2>2, <2>3, <3>1, OwnerSteps
  <2>5. Alters(c)
    BY <1>1, <1>2, <1>4, <1>5, <2>2 DEF Alters, transfer
  <2> QED  BY <1>1, <1>4, <1>5, <2>1, <2>4, <2>5, AltersAll
<1>6. ASSUME Snapshots' = Snapshots, job' = job, held' = held, at' = [at EXCEPT ![c] = "sleep"]
      PROVE  TransferInvariant'
  <2>1. Keeps(Snapshots, Snapshots') /\ Carriers' = Carriers
    BY <1>3, <1>6, KeepsAll, QueueTyped DEF Carriers
  <2>2. SingleStep(c) /\ CalmStep(c) /\ StillFor(c)' /\ ImportStep(c)
    <3> DEFINE p == "sleep"
    <3>1. /\ p \in Waiting \cup {"sleep"} /\ UNCHANGED <<job, held, since, acked, outcome>>
          /\ spoiled => spoiled'
          /\ p = "flushed" => Carriers' = {} /\ immediates = {}
          /\ p = "immediates" => immediates # {}
          /\ at' = [at EXCEPT ![c] = p]
      BY <1>2, <1>6 DEF transfer
    <3> HIDE DEF p
    <3> QED  BY <1>1, <2>1, <3>1, OwnerSteps
  <2>3. Alters(c)
    BY <1>1, <1>2, <1>4, <1>6, <2>1 DEF Alters, transfer
  <2> QED  BY <1>1, <1>4, <1>6, <2>1, <2>2, <2>3, AltersAll
<1>7. ASSUME pendingSaves = <<>>, Snapshots' = {}, failure' = TRUE,
             job' = [job EXCEPT ![c] = "none"], held' = [held EXCEPT ![c] = {}],
             at' = [at EXCEPT ![c] = "idle"]
      PROVE  TransferInvariant'
  <2>1. at'[c] = "idle" /\ job'[c] = "none" /\ held'[c] = {}
    BY <1>4, <1>7
  <2>2. Carriers' \subseteq Carriers
    BY <1>3, <1>7 DEF Carriers
  <2>3. Alters(c)
    BY <1>1, <1>2, <1>4, <1>7, <2>2 DEF Alters, transfer
  <2>4. \A d \in Callers : held'[d] \subseteq 0..made
    BY <1>4, <1>7
  <2>5. DataInvariant'
    <3>1. Snapshots = {Copy(saveInFlight)}
      BY <1>1, <1>7, NoCopies
    <3> QED  BY <1>1, <1>2, <1>7, <2>4, <3>1, DataGivenUp DEF TransferInvariant, transfer
  <2>6. SingleStep(c)
    <3>1. Locked' => Locked
      BY <1>4, <1>7 DEF Locked
    <3> QED  BY <1>2, <2>1, <3>1
             DEF SingleStep, TransferInvariant, CallerInvariant, Single, transfer
  <2>7. CalmStep(c)
    <3>1. immediates = {} => Carriers' = {}
      BY <1>3, <1>7 DEF Carriers, RowCopies
    <3> QED  BY <1>7, <2>1, <3>1 DEF CalmStep, Rests, ReadsOn
  <2>8. StillFor(c)'
    BY <2>1 DEF StillFor, Unnoticed
  <2>9. ImportStep(c)
    BY <1>2, <2>1 DEF ImportStep, transfer
  <2>10. CallerInvariant' /\ ImportInvariant'
    BY <2>3, <2>5, <2>6, <2>7, <2>8, <2>9, AltersCaller, AltersImport
    DEF TransferInvariant, DataInvariant
  <2> QED  BY <1>1, <2>5, <2>10 DEF TransferInvariant
<1> QED  BY <1>5, <1>6, <1>7, SaveFailsSteps

LEMMA SavedAll ==
    ASSUME TransferInvariant, NEW c \in Callers, Saved(c), UNCHANGED transfer
    PROVE  TransferInvariant'
<1> DEFINE s == saveInFlight
<1> QueueInvariant
  BY DEF TransferInvariant
<1>1. /\ QueueInvariant'
      /\ at[c] = "owner" /\ s \in Pending /\ job' = job
      /\ Snapshots = Copies(pendingSaves) \cup {Copy(s)}
      /\ Keeps(Copies(pendingSaves), Snapshots')
  BY SavedSteps
<1>2. PICK p \in Waiting : /\ at' = [at EXCEPT ![c] = p]
                           /\ p = "flushed" => Snapshots' = {} /\ immediates = {}
  BY SavedSteps
<1>3. /\ disk' = Stored(s.data) /\ failure' = FALSE
      /\ UNCHANGED <<world, rows, made, store, held, since, acked, immediates, outcome, spoiled, overtaken>>
      /\ Quiet /\ ~Importing
  BY DEF Saved, transfer
<1>4. /\ DataInvariant'
      /\ disk' \subseteq 0..made
      /\ overtaken \/ disk \cap store \subseteq disk'
  BY <1>1, <1>3, DataSaved DEF TransferInvariant
<1>5. s.data \subseteq disk' /\ disk' \subseteq s.data \cup disk
  BY <1>3 DEF Stored
<1>6. /\ Copy(s) \in Carriers /\ Copy(s).data = s.data /\ Copy(s).version = s.version
      /\ RowCopies' = RowCopies /\ Carriers' \subseteq Copies(pendingSaves) \cup RowCopies
      /\ Carriers' \subseteq Carriers
  BY <1>1, <1>3, RowsSame DEF Carriers, Keeps, Copy
<1>7. /\ at \in [Callers -> Points] /\ held \in [Callers -> Content] /\ at'[c] = p
      /\ \A d \in Callers : d # c => at'[d] = at[d]
  BY <1>2, CallerTyped
<1>8. Single'
  BY <1>1, <1>3 DEF Single, Locked, TransferInvariant, CallerInvariant
<1>9. Calm'
  <2>1. ASSUME NEW d \in Callers, Rests(d)' PROVE Carriers' = {} /\ immediates' = {}
    <3>1. CASE d = c
      <4>1. p = "flushed"
        BY <1>7, <2>1, <3>1 DEF Rests, ReadsOn, Waiting
      <4> QED  BY <1>2, <1>3, <4>1, <1>6 DEF Carriers, RowCopies
    <3>2. CASE d # c
      <4>1. Rests(d)
        BY <1>3, <1>7, <2>1, <3>2 DEF Rests, ReadsOn
      <4>2. immediates = {} /\ \A x, y \in Carriers : x = y
        BY <4>1 DEF TransferInvariant, CallerInvariant, Calm
      <4>3. Copies(pendingSaves) = {}
        <5> SUFFICES ASSUME NEW x \in Copies(pendingSaves) PROVE FALSE
          OBVIOUS
        <5>1. s.version < x.version /\ x \in Carriers
          BY <1>1 DEF QueueInvariant, Owned, Versions, Carriers
        <5>2. x = Copy(s)
          BY <1>6, <4>2, <5>1
        <5>3. s.version \in Nat
          BY <1>1 DEF Pending
        <5> QED  BY <1>6, <5>1, <5>2, <5>3
      <4> QED  BY <1>3, <1>6, <4>2, <4>3 DEF RowCopies
    <3> QED  BY <3>1, <3>2
  <2>2. Carriers' = {} /\ immediates' = {} => Settled'
    <3> HAVE Carriers' = {} /\ immediates' = {}
    <3>1. Arriving' = {}
      BY DEF Carriers, Arriving, Rowed
    <3> QED  BY <1>4, <3>1 DEF DataInvariant, Covered, Settled
  <2>3. ASSUME NEW d \in Callers, at'[d] = "joined", ~Retrying' PROVE FALSE
    <3>1. at[d] = "joined"
      BY <1>7, <2>3 DEF Waiting
    <3>2. \A r \in Callers : job[r] # "retry"
      BY <1>1, <2>3 DEF Retrying
    <3> QED  BY <1>3, <3>1, <3>2 DEF Quiet, Continues
  <2> QED  BY <2>1, <2>2, <2>3 DEF Calm
<1>10. \A d \in Callers : Unnoticed(d) => spoiled
  BY <1>6 DEF TransferInvariant, CallerInvariant, Still, StillFor
<1>11. Still'
  <2> SUFFICES ASSUME NEW d \in Callers PROVE StillFor(d)'
    BY DEF Still
  <2>1. StillFor(d)
    BY DEF TransferInvariant, CallerInvariant, Still
  <2>2. CASE d = c
    <3>1. p = "flushed" => Carriers' = {}
      BY <1>2, <1>6 DEF Carriers, RowCopies
    <3> QED  BY <1>1, <1>3, <1>7, <1>10, <2>2, <3>1 DEF StillFor, Unnoticed, Waiting
  <2>3. CASE d # c
    <3>1. at[d] # "persisting"
      BY <1>3 DEF Importing
    <3> QED  BY <1>1, <1>3, <1>6, <1>7, <1>10, <2>1, <2>3, <3>1 DEF StillFor, Unnoticed
  <2> QED  BY <2>2, <2>3
<1>12. Unwritten'
  <2>1. \A d \in Callers : Import \in held[d] /\ at[d] \in {"backup", "persisting"} => d # c
    BY <1>1
  <2> QED  BY <1>1, <1>3, <1>5, <1>6, <1>7, <2>1 DEF Unwritten, TransferInvariant, ImportInvariant
<1>13. Imported'
  <2> SUFFICES ASSUME ~spoiled PROVE Imported'
    BY <1>3 DEF Imported
  <2>1. \A d \in Callers : job[d] # "refresh"
    BY <1>10 DEF Unnoticed
  <2>2. \A d \in Callers : at'[d] = "read" => at[d] = "read"
    BY <1>7 DEF Waiting
  <2>3. outcome = "done" => Import \in disk'
    BY <1>4, <1>5, <1>6 DEF Imported, TransferInvariant, ImportInvariant
  <2> QED  BY <1>1, <1>3, <1>6, <2>1, <2>2, <2>3 DEF Imported, TransferInvariant, ImportInvariant
<1>14. ConfirmedIsSaved'
  BY <1>3, <1>4 DEF ConfirmedIsSaved, TransferInvariant, ImportInvariant
<1> QED  BY <1>1, <1>4, <1>8, <1>9, <1>11, <1>12, <1>13, <1>14
         DEF TransferInvariant, CallerInvariant, ImportInvariant

LEMMA RetryAll ==
    ASSUME TransferInvariant, NEW c \in Callers, UNCHANGED transfer,
           Retry(c) \/ Unlocked(c) \/ (Recover(c) /\ ~Retrying /\ ~Locked)
    PROVE  TransferInvariant'
<1> QueueInvariant
  BY DEF TransferInvariant
<1>1. /\ at[c] # "owner" /\ waits[c] = {} /\ Persist(c)
      /\ UNCHANGED <<world, rows, made, store, disk, savedVersion, immediates, held, since, acked, faults, transfer>>
      /\ calls' \in 0..world.calls /\ held' \in [Callers -> Content]
  BY RetryTyped
<1>2. /\ QueueInvariant' /\ (failure => failure')
      /\ job' = [job EXCEPT ![c] = "retry"]
      /\ Keeps(Snapshots \cup {NewCopy}, Snapshots')
  BY <1>1, PersistSteps
<1>3. PICK p \in Waiting : at' = [at EXCEPT ![c] = p] /\ p # "flushed"
  BY <1>1, PersistSteps
<1>4. /\ at \in [Callers -> Points] /\ job \in [Callers -> Jobs] /\ held \in [Callers -> Content]
      /\ \A d \in Callers : held[d] \subseteq 0..made
  BY CallerTyped
<1>5. /\ at'[c] = p /\ job'[c] = "retry"
      /\ \A d \in Callers : d # c => at'[d] = at[d] /\ job'[d] = job[d]
  BY <1>2, <1>3, <1>4
<1>6. ~Locked /\ at[c] \in {"idle", "locked", "flushed"} /\ \A r \in Callers : job[r] = "retry" => r = c
  <2>1. Unlocked(c) => job[c] = "retry"
    BY DEF Unlocked, QueueInvariant, Places
  <2>2. Unlocked(c) => \A r \in Callers : job[r] = "retry" => r = c
    BY <2>1 DEF TransferInvariant, CallerInvariant, Single
  <2> QED  BY <2>2 DEF Retry, Unlocked, Recover, Retrying
<1>7. p = "immediates" => immediates # {}
  <2>1. \E q : Turn(c, q, savedVersion, saveInFlight)
    BY <1>1 DEF Persist, Flushing
  <2> QED  BY <1>4, <1>5, <2>1, TurnStops
<1>8. DataInvariant' /\ NewCopy \in Snapshots'
  BY <1>1, <1>2, <1>4, DataPersisted DEF TransferInvariant, transfer
<1>9. Carriers' \subseteq Carriers \cup {NewCopy} /\ NewCopy.data = store
  BY <1>1, <1>2, RowsSame DEF Carriers, Keeps, NewCopy
<1>10. \A d \in Callers : job'[d] \notin {"transfer", "refresh"} /\ at'[d] # "persisting"
  <2> SUFFICES ASSUME NEW d \in Callers PROVE job'[d] \notin {"transfer", "refresh"} /\ at'[d] # "persisting"
    OBVIOUS
  <2>1. job[d] \notin {"transfer", "refresh"} /\ at[d] # "persisting"
    BY <1>6 DEF Locked, QueueInvariant, Places
  <2> QED  BY <1>3, <1>5, <2>1 DEF Waiting
<1>11. Single'
  BY <1>5, <1>6, <1>10 DEF Single, Locked
<1>12. Calm'
  <2>1. ASSUME NEW d \in Callers, Rests(d)'
        PROVE  /\ immediates' = {}
               /\ \A x, y \in Carriers' : x = y
               /\ Carriers' # {} => \E r \in Callers : Retries(r)'
               /\ Settled'
    <3>1. d # c
      BY <1>3, <1>5, <2>1 DEF Rests, ReadsOn, Waiting
    <3>2. Rests(d)
      BY <1>1, <1>5, <2>1, <3>1 DEF Rests, ReadsOn
    <3>3. /\ immediates = {} /\ Settled
          /\ Carriers # {} => \E r \in Callers : Retries(r)
      BY <3>2 DEF TransferInvariant, CallerInvariant, Calm
    <3>4. Carriers = {}
      BY <1>6, <3>3 DEF Retries
    <3>5. Retries(c)'
      BY <1>3, <1>5, <1>7, <3>3 DEF Retries, Waiting
    <3>6. Settled'
      BY <1>1, <1>2, <3>3 DEF Settled, transfer
    <3> QED  BY <1>1, <1>9, <3>3, <3>4, <3>5, <3>6
  <2>2. Retrying'
    BY <1>5 DEF Retrying
  <2> QED  BY <2>1, <2>2 DEF Calm
<1>13. Still'
  BY <1>10 DEF Still, StillFor, Unnoticed
<1>14. Unwritten'
  <2>1. \A d \in Callers : at[d] \in {"backup", "persisting"} => d # c
    BY <1>6
  <2> QED  BY <1>1, <1>5, <1>9, <1>10, <2>1 DEF Unwritten, TransferInvariant, ImportInvariant, transfer
<1>15. Imported'
  <2>1. \A d \in Callers : at'[d] = "read" => at[d] = "read"
    BY <1>3, <1>5 DEF Waiting
  <2> QED  BY <1>1, <1>9, <1>10, <2>1 DEF Imported, TransferInvariant, ImportInvariant, transfer
<1>16. ConfirmedIsSaved'
  BY <1>1 DEF ConfirmedIsSaved, TransferInvariant, ImportInvariant, transfer
<1> QED  BY <1>2, <1>8, <1>11, <1>12, <1>13, <1>14, <1>15, <1>16
         DEF TransferInvariant, CallerInvariant, ImportInvariant

(* The change stamp a caller took is not ahead of the edits. *)
Stamped == \A c \in Callers : since[c] <= made

(* An edit, with its snapshot or its row on its way: the reloads and the import under   *)
(* way are not to go on as if nothing had happened.                                     *)
LEMMA EditAll ==
    ASSUME TransferInvariant, Stamped, QueueInvariant', DataInvariant', Quiet,
           made' = made + 1, store' = store \cup {made + 1},
           rows \subseteq rows', rows' \subseteq rows \cup {made + 1},
           Carriers' \subseteq Carriers \cup {EditCopy},
           UNCHANGED <<disk, flush, acked, world, overtaken, outcome>>,
           spoiled => spoiled', \A d \in Callers : Unnoticed(d) => spoiled'
    PROVE  TransferInvariant'
<1>1. UNCHANGED <<job, at, held, since, waits>>
  BY DEF flush
<1>2. /\ \A d \in Callers : at[d] # "flushed"
      /\ \A d \in Callers : at[d] = "joined" => Retrying
  BY DEF Quiet, Continues, Retrying
<1>3. /\ made \in Nat /\ made + 1 \notin acked /\ made + 1 \notin disk /\ made + 1 # Import
      /\ \A d \in Callers : since[d] \in Nat
  <2>1. made \in Nat /\ made + 1 \notin acked /\ made + 1 \notin disk
    BY NextIsNew DEF TransferInvariant, DataInvariant
  <2> QED  BY <2>1, CallerTyped, Limits DEF Import
<1>4. \A d \in Callers : since'[d] # made'
  BY <1>1, <1>3 DEF Stamped
<1>5. \A d \in Callers : ~Rests(d)'
  BY <1>1, <1>2, <1>4 DEF Rests, ReadsOn
<1>6. Single'
  BY <1>1 DEF Single, Locked, TransferInvariant, CallerInvariant
<1>7. Calm'
  BY <1>1, <1>2, <1>5 DEF Calm, Retrying
<1>8. Still'
  <2> SUFFICES ASSUME NEW d \in Callers PROVE StillFor(d)'
    BY DEF Still
  <2>1. StillFor(d)
    BY DEF TransferInvariant, CallerInvariant, Still
  <2> QED  BY <1>1, <1>2, <1>4, <2>1 DEF StillFor, Unnoticed
<1>9. EditCopy.data = store'
  BY DEF EditCopy
<1>10. Unwritten'
  BY <1>1, <1>3, <1>9 DEF Unwritten, TransferInvariant, ImportInvariant
<1>11. Imported'
  BY <1>1, <1>3, <1>9 DEF Imported, TransferInvariant, ImportInvariant
<1>12. ConfirmedIsSaved'
  BY <1>3 DEF ConfirmedIsSaved, TransferInvariant, ImportInvariant
<1> QED  BY <1>6, <1>7, <1>8, <1>10, <1>11, <1>12
         DEF TransferInvariant, CallerInvariant, ImportInvariant

LEMMA EditsHold ==
    ASSUME TransferInvariant, Stamped
    PROVE  /\ EditSnapshot /\ UNCHANGED transfer => TransferInvariant'
           /\ Convert => TransferInvariant'
           /\ EditRow /\ UNCHANGED transfer => TransferInvariant'
<1> QueueInvariant /\ DataInvariant
  BY DEF TransferInvariant
<1>1. ~Locked => \A d \in Callers : ~Unnoticed(d)
  BY DEF Locked, Unnoticed, QueueInvariant, Places
<1>2. ASSUME NEW row \in SUBSET {made + 1}, Snapshot(row), UNCHANGED <<outcome, overtaken>>,
             spoiled' \in BOOLEAN, spoiled => spoiled', \A d \in Callers : Unnoticed(d) => spoiled'
      PROVE  TransferInvariant'
  <2>1. /\ QueueInvariant'
        /\ made' = made + 1 /\ store' = store \cup {made + 1}
        /\ Keeps(Snapshots \cup {EditCopy}, Snapshots')
        /\ UNCHANGED <<disk, immediates, flush, acked, world>>
    BY <1>2, SnapshotSteps
  <2>2. DataInvariant'
    BY <1>2, <2>1, DataSnapshot
  <2>3. Carriers' \subseteq Carriers \cup {EditCopy}
    BY <2>1, RowsSame DEF Carriers, Keeps
  <2>4. Quiet /\ rows \subseteq rows' /\ rows' \subseteq rows \cup {made + 1}
    BY <1>2 DEF Snapshot, Made
  <2> QED  BY <1>2, <2>1, <2>2, <2>3, <2>4, EditAll
<1>3. ASSUME EditSnapshot, UNCHANGED transfer PROVE TransferInvariant'
  <2>1. PICK row \in SUBSET {made + 1} : Snapshot(row)
    BY <1>3 DEF EditSnapshot
  <2>2. spoiled' \in BOOLEAN /\ (spoiled => spoiled') /\ UNCHANGED <<outcome, overtaken>>
    BY <1>3 DEF transfer, QueueInvariant, TransferTypeOK
  <2>3. \A d \in Callers : ~Unnoticed(d)
    BY <1>1, <1>3 DEF EditSnapshot
  <2> QED  BY <1>2, <2>1, <2>2, <2>3
<1>4. ASSUME Convert PROVE TransferInvariant'
  <2>1. /\ {made + 1} \in SUBSET {made + 1} /\ Snapshot({made + 1})
        /\ spoiled' \in BOOLEAN /\ (spoiled => spoiled')
        /\ \A d \in Callers : Unnoticed(d) => spoiled'
        /\ UNCHANGED <<outcome, overtaken>>
    BY <1>4 DEF Convert, QueueInvariant, TransferTypeOK
  <2> QED  BY <1>2, <2>1
<1>5. ASSUME EditRow, UNCHANGED transfer PROVE TransferInvariant'
  <2>1. /\ QueueInvariant'
        /\ made' = made + 1 /\ store' = store \cup {made + 1}
        /\ immediates' = immediates \cup
             {[version |-> pendingVersion + 1, row |-> made + 1, data |-> store']}
        /\ Snapshots' = Snapshots /\ RowCopies' = RowCopies \cup {EditCopy}
        /\ UNCHANGED <<disk, rows, failure, flush, acked, world>>
    BY <1>5, EditRowSteps
  <2>2. UNCHANGED <<outcome, spoiled, overtaken>>
    BY <1>5 DEF transfer
  <2>3. DataInvariant'
    BY <2>1, <2>2, DataRow
  <2>4. Carriers' \subseteq Carriers \cup {EditCopy}
    BY <2>1 DEF Carriers
  <2>5. Quiet /\ \A d \in Callers : ~Unnoticed(d)
    BY <1>1, <1>5 DEF EditRow
  <2>6. /\ rows \subseteq rows' /\ rows' \subseteq rows \cup {made + 1}
        /\ spoiled => spoiled' /\ \A d \in Callers : Unnoticed(d) => spoiled'
        /\ UNCHANGED <<disk, flush, acked, world, overtaken, outcome>>
    BY <2>1, <2>2, <2>5
  <2> QED  BY <2>1, <2>3, <2>4, <2>5, <2>6, EditAll
<1> QED  BY <1>3, <1>4, <1>5

LEMMA RowSavedAll ==
    ASSUME TransferInvariant, NEW i \in immediates, RowSaved(i), UNCHANGED transfer
    PROVE  TransferInvariant'
<1> QueueInvariant /\ DataInvariant
  BY DEF TransferInvariant
<1>1. /\ QueueInvariant'
      /\ disk' = disk \cup {i.row} /\ immediates' = immediates \ {i} /\ Snapshots' = Snapshots
      /\ \A c \in Callers : at[c] # "persisting"
      /\ UNCHANGED <<world, rows, made, store, failure, job, at, held, since, acked>>
  BY RowSavedSteps
<1>2. UNCHANGED <<outcome, spoiled, overtaken>>
  BY DEF transfer
<1>3. DataInvariant'
  BY <1>1, <1>2, DataRowSaved
<1>4. Carriers' \subseteq Carriers /\ Copy(i) \in Carriers /\ i.row # Import
  BY <1>1, QueueTyped DEF Carriers, RowCopies, Immediate, Edits, Import
<1>5. Single'
  BY <1>1, <1>2 DEF Single, Locked, TransferInvariant, CallerInvariant
<1>6. Calm'
  <2>1. \A c \in Callers : ~Rests(c)'
    <3>1. \A c \in Callers : ~Rests(c)
      BY DEF Calm, TransferInvariant, CallerInvariant
    <3> QED  BY <1>1, <3>1 DEF Rests, ReadsOn
  <2>2. Settled => Settled'
    BY <1>1, <1>2 DEF Settled
  <2> QED  BY <1>1, <2>1, <2>2 DEF Calm, Retrying, TransferInvariant, CallerInvariant
<1>7. Still'
  <2> SUFFICES ASSUME NEW c \in Callers PROVE StillFor(c)'
    BY DEF Still
  <2>1. StillFor(c)
    BY DEF TransferInvariant, CallerInvariant, Still
  <2> QED  BY <1>1, <1>2, <1>4, <2>1 DEF StillFor, Unnoticed
<1>8. ConfirmedIsSaved'
  BY <1>1, <1>2
  DEF ConfirmedIsSaved, TransferInvariant, ImportInvariant
<1>9. Unwritten'
  BY <1>1, <1>2, <1>4 DEF Unwritten, TransferInvariant, ImportInvariant
<1>10. Imported'
  BY <1>1, <1>2, <1>4 DEF Imported, TransferInvariant, ImportInvariant
<1> QED  BY <1>1, <1>3, <1>5, <1>6, <1>7, <1>8, <1>9, <1>10
         DEF TransferInvariant, CallerInvariant, ImportInvariant

LEMMA RowFailsAll ==
    ASSUME TransferInvariant, NEW i \in immediates, RowFails(i), UNCHANGED transfer
    PROVE  TransferInvariant'
<1> QueueInvariant /\ DataInvariant
  BY DEF TransferInvariant
<1>1. /\ QueueInvariant'
      /\ failure' = TRUE /\ immediates' = immediates \ {i}
      /\ Keeps(Snapshots \cup {Copy(i)}, Snapshots')
      /\ \A c \in Callers :
            \/ at'[c] = at[c] /\ job'[c] = job[c] /\ held'[c] = held[c]
            \/ at[c] = "immediates" /\ at'[c] = "idle" /\ job'[c] = "none" /\ held'[c] = {}
      /\ UNCHANGED <<world, rows, made, store, disk, since, acked>>
  BY RowFailsSteps
<1>2. UNCHANGED <<outcome, spoiled, overtaken>>
  BY DEF transfer
<1>3. \A c \in Callers : held'[c] \subseteq 0..made
  BY <1>1, CallerTyped
<1>4. DataInvariant'
  BY <1>1, <1>2, <1>3, DataRowFails
<1>5. Carriers' \subseteq Carriers
  BY <1>1 DEF Carriers, RowCopies, Keeps
<1>6. Single'
  BY <1>1, <1>2 DEF Single, Locked, TransferInvariant, CallerInvariant
<1>7. Calm'
  <2>1. \A c \in Callers : ~Rests(c)'
    <3>1. \A c \in Callers : ~Rests(c)
      BY DEF Calm, TransferInvariant, CallerInvariant
    <3> QED  BY <1>1, <3>1 DEF Rests, ReadsOn
  <2> QED  BY <1>1, <2>1 DEF Calm, Settled
<1>8. Still'
  <2> SUFFICES ASSUME NEW c \in Callers PROVE StillFor(c)'
    BY DEF Still
  <2>1. StillFor(c)
    BY DEF TransferInvariant, CallerInvariant, Still
  <2> QED  BY <1>1, <1>2, <1>5, <2>1 DEF StillFor, Unnoticed
<1>9. ConfirmedIsSaved'
  BY <1>1, <1>2
  DEF ConfirmedIsSaved, TransferInvariant, ImportInvariant
<1>10. Unwritten'
  BY <1>1, <1>2, <1>5 DEF Unwritten, TransferInvariant, ImportInvariant
<1>11. Imported'
  BY <1>1, <1>2, <1>5 DEF Imported, TransferInvariant, ImportInvariant
<1> QED  BY <1>1, <1>4, <1>6, <1>7, <1>8, <1>9, <1>10, <1>11
         DEF TransferInvariant, CallerInvariant, ImportInvariant

LEMMA PersistedAll ==
    ASSUME TransferInvariant, NEW c \in Callers, Persisted(c), QueueInvariant'
    PROVE  TransferInvariant'
<1> QueueInvariant /\ DataInvariant
  BY DEF TransferInvariant
<1>1. /\ Pushes(c, "refresh") /\ at[c] = "persisting" /\ job[c] = "transfer"
      /\ disk' = Stored(held[c]) /\ Made({Import}) /\ held' = [held EXCEPT ![c] = {}]
      /\ since' = since /\ UNCHANGED <<outcome, spoiled, overtaken>>
  BY PersistedPushes DEF QueueInvariant, Places, transfer
<1>2. /\ job' = [job EXCEPT ![c] = "refresh"]
      /\ UNCHANGED <<world, made, store, immediates, failure, acked>>
  BY <1>1 DEF Pushes
<1>3. /\ Keeps(Snapshots, Snapshots')
      /\ \E p \in Waiting : /\ TurnTo(c, p, pendingSaves, saveInFlight)
                            /\ p = "flushed" => Snapshots' = {} /\ immediates = {}
  BY <1>1, TurnNow DEF Pushes
<1>4. PICK p \in Waiting : /\ at' = [at EXCEPT ![c] = p]
                           /\ p = "flushed" => Snapshots' = {} /\ immediates = {}
  BY <1>3 DEF TurnTo
<1>5. /\ at'[c] = p /\ job'[c] = "refresh" /\ held'[c] = {}
      /\ \A d \in Callers : d # c => at'[d] = at[d] /\ job'[d] = job[d] /\ held'[d] = held[d]
  BY <1>1, <1>2, <1>4, CallerTyped
<1>6. /\ Carriers' \subseteq Carriers
      /\ p = "flushed" => Carriers' = {} /\ immediates' = {}
  BY <1>2, <1>3, <1>4, RowsSame DEF Carriers, Keeps, RowCopies
<1>7. /\ disk' = disk \cup {Import}
      /\ rows' \subseteq rows \cup {Import} /\ Import \in rows'
  <2>1. held[c] = disk \cup {Import}
    BY <1>1 DEF TransferInvariant, CallerInvariant, Still, StillFor
  <2> QED  BY <1>1, <2>1 DEF Stored, Made
<1>8. outcome = "tried" /\ \A d \in Callers : d # c => job[d] \notin {"transfer", "refresh"}
  BY <1>1 DEF Locked, TransferInvariant, CallerInvariant, Single
<1>9. DataInvariant'
  <2>1. Import \notin store
    BY <1>1 DEF TransferInvariant, ImportInvariant, Unwritten
  <2>2. \A i \in immediates : i.row # Import
    BY QueueTyped DEF Immediate, Edits, Import
  <2>3. \A d \in Callers : held'[d] \subseteq 0..made
    BY <1>5, CallerTyped
  <2> QED  BY <1>1, <1>2, <1>3, <1>7, <2>1, <2>2, <2>3, DataImported
<1>10. Single'
  BY <1>1, <1>5, <1>8 DEF Single, Locked, TransferInvariant, CallerInvariant
<1>11. Calm'
  <2>1. Settled => Settled'
    BY <1>1, <1>2, <1>7 DEF Settled
  <2>2. Carriers' = {} /\ immediates' = {} => Settled'
    <3> HAVE Carriers' = {} /\ immediates' = {}
    <3>1. Arriving' = {}
      BY DEF Carriers, Arriving, Rowed
    <3> QED  BY <1>9, <3>1 DEF DataInvariant, Covered, Settled
  <2>3. ASSUME NEW d \in Callers, d # c, Rests(d)
        PROVE  /\ immediates' = {} /\ \A x, y \in Carriers' : x = y
               /\ Carriers' # {} => \E r \in Callers : Retries(r)'
               /\ Settled'
    <3>1. /\ immediates = {} /\ \A x, y \in Carriers : x = y
          /\ Carriers # {} => \E r \in Callers : Retries(r)
          /\ Settled
      BY <2>3 DEF TransferInvariant, CallerInvariant, Calm
    <3>2. \A r \in Callers : Retries(r) => Retries(r)'
      BY <1>1, <1>5 DEF Retries
    <3> QED  BY <1>2, <1>6, <2>1, <3>1, <3>2
  <2>4. \A d \in Callers : Rests(d)' => p = "flushed" \/ (d # c /\ Rests(d))
    BY <1>1, <1>2, <1>5 DEF Rests, ReadsOn, Waiting
  <2>5. ASSUME NEW d \in Callers, at'[d] = "joined", ~Retrying' PROVE Settled'
    <3>1. at[d] = "joined" /\ ~Retrying
      BY <1>1, <1>5, <2>5 DEF Retrying, Waiting
    <3> QED  BY <2>1, <3>1 DEF TransferInvariant, CallerInvariant, Calm
  <2> QED  BY <1>6, <2>2, <2>3, <2>4, <2>5 DEF Calm
<1>12. Still'
  <2> SUFFICES ASSUME NEW d \in Callers PROVE StillFor(d)'
    BY DEF Still
  <2>1. CASE d = c
    <3>1. ~spoiled => Carriers = {}
      BY <1>1 DEF TransferInvariant, CallerInvariant, Still, StillFor, Unnoticed
    <3> QED  BY <1>1, <1>5, <1>6, <2>1, <3>1 DEF StillFor, Unnoticed
  <2>2. CASE d # c
    <3>1. at[d] # "persisting"
      BY <1>8, <2>2 DEF QueueInvariant, Places
    <3> QED  BY <1>5, <1>8, <2>2, <3>1 DEF StillFor, Unnoticed
  <2> QED  BY <2>1, <2>2
<1>13. ConfirmedIsSaved'
  BY <1>1, <1>2, <1>5, <1>7
  DEF ConfirmedIsSaved, Waiting, TransferInvariant, ImportInvariant
<1>14. Unwritten'
  BY <1>1, <1>2, <1>5, <1>7, <1>8 DEF Unwritten
<1>15. Imported'
  BY <1>1, <1>5, <1>7, <1>8 DEF Imported, Waiting
<1> QED  BY <1>9, <1>10, <1>11, <1>12, <1>13, <1>14, <1>15
         DEF TransferInvariant, CallerInvariant, ImportInvariant

LEMMA ReloadedAll ==
    ASSUME TransferInvariant, NEW c \in Callers, Reloaded(c), QueueInvariant',
           \/ job[c] = "fetch" /\ UNCHANGED <<outcome, spoiled>>
           \/ job[c] = "refresh" /\ outcome' = "done" /\ spoiled' = (spoiled \/ ~Unchanged(c))
    PROVE  TransferInvariant'
<1> QueueInvariant /\ DataInvariant
  BY DEF TransferInvariant
<1>1. /\ End(c) /\ since' = [since EXCEPT ![c] = 0] /\ at[c] = "read"
      /\ UNCHANGED <<world, rows, made, disk, queue, failure, acked>>
  BY DEF Reloaded, FetchApplies
<1>2. spoiled \in BOOLEAN
  BY DEF QueueInvariant, TransferTypeOK
<1>3. CASE ~Unchanged(c)
  <2>1. UNCHANGED <<store, overtaken>>
    BY <1>3 DEF Reloaded, FetchApplies
  <2>2. acked' \subseteq 0..made /\ acked' = acked
    BY <1>1, CallerTyped
  <2>3. \/ outcome' = outcome /\ spoiled' = spoiled
        \/ outcome' = "done" /\ job[c] = "refresh" /\ spoiled' = TRUE
    BY <1>2, <1>3
  <2>4. /\ spoiled => spoiled'
        /\ \/ outcome' = outcome
           \/ outcome' = "done" /\ job[c] = "refresh" /\ spoiled'
    BY <2>3
  <2> QED  BY <1>1, <2>1, <2>2, <2>4, EndsHold
<1>4. CASE Unchanged(c)
  <2>1. /\ store' = held[c] /\ overtaken' = Overtaken(c)
        /\ spoiled' = spoiled
    BY <1>2, <1>4 DEF Reloaded, FetchApplies
  <2>2. Rests(c)
    BY <1>1, <1>4 DEF Rests, ReadsOn, Unchanged
  <2>3. /\ immediates = {} /\ \A x, y \in Carriers : x = y
        /\ Carriers # {} => \E r \in Callers : Retries(r)
    BY <2>2 DEF TransferInvariant, CallerInvariant, Calm
  <2>4. UNCHANGED <<pendingSaves, saveInFlight, immediates>>
    BY <1>1 DEF queue
  <2>5. /\ at'[c] = "idle" /\ job'[c] = "none" /\ held'[c] = {}
        /\ \A d \in Callers : d # c => at'[d] = at[d] /\ job'[d] = job[d] /\ held'[d] = held[d]
                                       /\ since'[d] = since[d]
    BY <1>1, CallerTyped DEF End, Goto, Begin
  <2>6. \A d \in Callers : held'[d] \subseteq 0..made
    BY <2>5, CallerTyped
  <2>7. /\ DataInvariant' /\ (overtaken' \/ store' \subseteq disk)
        /\ Snapshots' = Snapshots /\ RowCopies' = RowCopies
    BY <1>1, <2>1, <2>3, <2>4, <2>6, DataReloaded DEF TransferInvariant, ImportInvariant
  <2>8. Carriers' = Carriers
    BY <2>7 DEF Carriers
  <2>9. job[c] = "refresh" =>
           \A d \in Callers : d # c => job[d] \notin {"transfer", "refresh"}
    BY DEF TransferInvariant, CallerInvariant, Single
  <2>10. Single'
    BY <2>5, <2>9 DEF Single, Locked, TransferInvariant, CallerInvariant
  <2>11. Settled'
    BY <1>1, <2>7 DEF Settled
  <2>12. Calm'
    <3>1. ASSUME NEW d \in Callers, Retries(d) PROVE Retries(d)'
      <4>1. d # c
        BY <3>1 DEF Retries
      <4> QED  BY <2>5, <3>1, <4>1 DEF Retries
    <3> QED  BY <2>3, <2>4, <2>8, <2>11, <3>1 DEF Calm
  <2>13. Still'
    <3> SUFFICES ASSUME NEW d \in Callers PROVE StillFor(d)'
      BY DEF Still
    <3>1. StillFor(d)
      BY DEF TransferInvariant, CallerInvariant, Still
    <3> QED  BY <1>1, <2>1, <2>5, <2>8, <3>1 DEF StillFor, Unnoticed
  <2>14. ConfirmedIsSaved'
    BY <1>1, <2>7 DEF ConfirmedIsSaved
  <2>15. Unwritten'
    <3>1. Import \notin rows => Import \notin store'
      BY <1>1, <2>1 DEF TransferInvariant, ImportInvariant, Unwritten
    <3>2. outcome' = "none" => outcome = "none"
      OBVIOUS
    <3> QED  BY <1>1, <2>5, <2>8, <3>1, <3>2 DEF Unwritten, TransferInvariant, ImportInvariant
  <2>16. Imported'
    <3> SUFFICES ASSUME ~spoiled PROVE Imported'
      BY <1>1, <2>1 DEF Imported
    <3>1. Imported
      BY DEF TransferInvariant, ImportInvariant
    <3>2. \A d \in Callers : at'[d] = "read" => at[d] = "read" /\ held'[d] = held[d]
      BY <2>5
    <3>3. \A d \in Callers : job'[d] = "refresh" => job[d] = "refresh"
      BY <2>5
    <3>4. ASSUME outcome' = "done"
          PROVE  /\ Import \in disk
                 /\ Import \in store' /\ \A x \in Carriers : Import \in x.data
                 /\ \A r \in Callers : at[r] = "read" => Import \in held[r]
      <4>1. CASE job[c] = "fetch"
        BY <1>1, <2>1, <3>1, <3>4, <4>1 DEF Imported
      <4>2. CASE job[c] = "refresh"
        <5>1. Carriers = {}
          BY <4>2 DEF TransferInvariant, CallerInvariant, Still, StillFor, Unnoticed
        <5> QED  BY <1>1, <2>1, <3>1, <4>2, <5>1 DEF Imported
      <4> QED  BY <4>1, <4>2
    <3> QED  BY <1>1, <2>5, <2>8, <3>1, <3>2, <3>3, <3>4 DEF Imported
  <2> QED  BY <2>7, <2>10, <2>12, <2>13, <2>14, <2>15, <2>16
           DEF TransferInvariant, CallerInvariant, ImportInvariant
<1> QED  BY <1>3, <1>4

-----------------------------------------------------------------------------
(* Every step, and what follows.                                            *)

LEMMA InitHolds == TransferInit => TransferInvariant /\ Stamped
<1> SUFFICES ASSUME TransferInit PROVE TransferInvariant /\ Stamped
  OBVIOUS
<1>1. QueueInvariant
  BY InitTyped
<1>2. /\ store = {} /\ disk = {} /\ acked = {} /\ rows = {} /\ immediates = {} /\ made = 0
      /\ pendingSaves = <<>> /\ saveInFlight = NoSave /\ outcome = "none"
      /\ \A c \in Callers :
            job[c] = "none" /\ at[c] = "idle" /\ held[c] = {} /\ since[c] = 0
  BY DEF TransferInit, Init
<1>3. Carriers = {}
  BY <1>2, NoCopies DEF Carriers, Snapshots, RowCopies, Flying
<1>4. Numbered /\ Chained /\ Covered
  BY <1>2, <1>3 DEF Numbered, Chained, Covered
<1>5. Single /\ Calm /\ Still /\ Stamped
  BY <1>2, <1>3 DEF Single, Locked, Calm, Rests, ReadsOn, Still, StillFor, Unnoticed, Stamped
<1>6. Unwritten /\ Imported /\ ConfirmedIsSaved
  BY <1>2, <1>3 DEF Unwritten, Imported, ConfirmedIsSaved
<1> QED  BY <1>1, <1>4, <1>5, <1>6
         DEF TransferInvariant, DataInvariant, CallerInvariant, ImportInvariant

LEMMA StutterHolds == TransferInvariant /\ Stamped /\ UNCHANGED allVars => TransferInvariant' /\ Stamped'
<1> SUFFICES ASSUME TransferInvariant, Stamped, UNCHANGED allVars PROVE TransferInvariant' /\ Stamped'
  OBVIOUS
<1>1. /\ UNCHANGED <<world, rows, made, store, disk, pendingSaves, saveInFlight, immediates, failure>>
      /\ UNCHANGED <<job, at, held, since, acked, outcome, spoiled, overtaken>>
  BY DEF allVars, vars, queue, flush, transfer
<1>2. QueueInvariant'
  BY StutterTyped DEF TransferInvariant
<1>3. Snapshots' = Snapshots /\ Carriers' = Carriers /\ Arriving' = Arriving
  BY <1>1 DEF Snapshots, Carriers, RowCopies, Copies, Flying, Arriving, Rowed
<1>4. DataInvariant'
  BY <1>1, <1>3 DEF TransferInvariant, DataInvariant, Numbered, Chained, Covered
<1>5. CallerInvariant' /\ Stamped'
  <2>1. Single' /\ Stamped'
    BY <1>1 DEF TransferInvariant, CallerInvariant, Single, Locked, Stamped
  <2>2. Calm'
    BY <1>1, <1>3 DEF TransferInvariant, CallerInvariant, Calm, Rests, ReadsOn, Retries, Retrying,
                      Settled
  <2>3. Still'
    BY <1>1, <1>3 DEF TransferInvariant, CallerInvariant, Still, StillFor, Unnoticed
  <2> QED  BY <2>1, <2>2, <2>3 DEF CallerInvariant
<1>6. ImportInvariant'
  BY <1>1, <1>3 DEF TransferInvariant, ImportInvariant, Unwritten, Imported,
                    ConfirmedIsSaved
<1> QED  BY <1>2, <1>4, <1>5, <1>6 DEF TransferInvariant

LEMMA StampedStays == QueueInvariant /\ Stamped /\ TransferNext => Stamped'
<1> SUFFICES ASSUME QueueInvariant, Stamped, TransferNext PROVE Stamped'
  OBVIOUS
<1>1. made \in Nat /\ since \in [Callers -> 0..MaxEdits] /\ MaxEdits \in Nat
  BY WorldTyped, Limits DEF QueueInvariant, TransferTypeOK, TypeOK
<1>2. ASSUME since' = since, made' \in {made, made + 1} PROVE Stamped'
  BY <1>1, <1>2 DEF Stamped
<1>3. ASSUME NEW c \in Callers, NEW stamp \in {0, made}, since' = [since EXCEPT ![c] = stamp],
             made' = made
      PROVE  Stamped'
  BY <1>1, <1>3 DEF Stamped
<1>4. CASE QueueEvent
  BY <1>2, <1>4 DEF QueueEvent, EditSnapshot, Snapshot, EditRow, RowSaved, RowFails, SaveFails,
                    TimerFires, Fetch, Confirm, Retry, flush
<1>5. CASE Convert
  BY <1>2, <1>5 DEF Convert, Snapshot, flush
<1>6. ASSUME NEW c \in Callers, QueueStep(c) PROVE Stamped'
  BY <1>2, <1>3, <1>6 DEF QueueStep, Continue, Wake, Saved, Flushed, FetchBegins, FetchReads, FetchGivesUp,
                          Reloaded, FetchApplies, Confirmed, Recover, Recovered, Unlocked
<1>7. ASSUME NEW c \in Callers, TransferStep(c) \/ Transfer(c) \/ TransferFails(c) PROVE Stamped'
  BY <1>2, <1>3, <1>7 DEF TransferStep, Capture, Load, Dispatch, Abort, Persisted, Refreshed, Reloaded,
                          FetchApplies, FetchGivesUp, Transfer, TransferFails
<1> QED  BY <1>4, <1>5, <1>6, <1>7 DEF TransferNext

LEMMA StepHolds == TransferInvariant /\ Stamped /\ TransferNext => TransferInvariant' /\ Stamped'
<1> SUFFICES ASSUME TransferInvariant, Stamped, TransferNext PROVE TransferInvariant' /\ Stamped'
  OBVIOUS
<1>1. QueueInvariant' /\ Stamped'
  BY StepTyped, StampedStays DEF TransferInvariant
<1>2. CASE QueueEvent
  BY <1>1, <1>2, EditsHold, RowSavedAll, RowFailsAll, SaveFailsAll, PushesHold, RetryAll DEF QueueEvent
<1>3. CASE Convert
  BY <1>1, <1>3, EditsHold
<1>4. ASSUME NEW c \in Callers, QueueStep(c) PROVE TransferInvariant'
  <2>1. ASSUME Continue(c) \/ Wake(c), UNCHANGED transfer PROVE TransferInvariant'
    BY <1>1, <2>1, PushesHold
  <2>2. ASSUME Saved(c), UNCHANGED transfer PROVE TransferInvariant'
    BY <2>2, SavedAll
  <2>3. ASSUME Flushed(c) \/ FetchGivesUp(c) \/ Confirmed(c) \/ Recovered(c), UNCHANGED transfer
        PROVE  TransferInvariant'
    BY <1>1, <2>3, EndsAll
  <2>4. ASSUME FetchBegins(c), UNCHANGED transfer PROVE TransferInvariant'
    BY <1>1, <2>4, WorksAll
  <2>5. ASSUME FetchReads(c), job[c] = "refresh" => LastToRead(c), UNCHANGED transfer
        PROVE  TransferInvariant'
    BY <1>1, <2>5, WorksAll
  <2>6. ASSUME Recover(c) \/ Unlocked(c), UNCHANGED transfer PROVE TransferInvariant'
    BY <2>6, RecoverWaits, RetryAll
  <2>7. ASSUME job[c] = "fetch", Reloaded(c), UNCHANGED <<outcome, spoiled>> PROVE TransferInvariant'
    BY <1>1, <2>7, ReloadedAll
  <2> QED  BY <1>4, <2>1, <2>2, <2>3, <2>4, <2>5, <2>6, <2>7 DEF QueueStep
<1>5. ASSUME NEW c \in Callers, TransferStep(c) PROVE TransferInvariant'
  <2>1. ASSUME Capture(c) \/ Load(c) \/ Dispatch(c) PROVE TransferInvariant'
    BY <1>1, <2>1, WorksAll
  <2>2. ASSUME Persisted(c) PROVE TransferInvariant'
    BY <1>1, <2>2, PersistedAll
  <2>3. ASSUME Refreshed(c) PROVE TransferInvariant'
    BY <1>1, <2>3, ReloadedAll, EndsAll DEF Refreshed
  <2> QED  BY <1>5, <2>1, <2>2, <2>3 DEF TransferStep
<1>6. ASSUME NEW c \in Callers, Transfer(c) \/ TransferFails(c) PROVE TransferInvariant'
  BY <1>1, <1>6, PushesHold, EndsAll
<1> QED  BY <1>1, <1>2, <1>3, <1>4, <1>5, <1>6 DEF TransferNext

(* The whole invariant. *)
THEOREM TransferIsSafe == TransferSpec => [](TransferInvariant /\ Stamped)
BY InitHolds, StutterHolds, StepHolds, PTL DEF TransferSpec

-----------------------------------------------------------------------------
(* The properties.                                                          *)

(* What a flush writes, the last snapshot queued, is the newest and has what the others   *)
(* have of the store: flushPendingSave may drop the others (store.ts flushPendingSave).   *)
THEOREM LastIsTheNewest == TransferSpec => []LastIsNewest
<1>1. TransferInvariant => LastIsNewest
  <2> SUFFICES ASSUME TransferInvariant, NEW n \in 1..Len(pendingSaves)
               PROVE  LET last == pendingSaves[Len(pendingSaves)]
                      IN  /\ pendingSaves[n].version <= last.version
                          /\ pendingSaves[n].data \cap store \subseteq last.data
    BY DEF LastIsNewest
  <2> DEFINE last == pendingSaves[Len(pendingSaves)]
  <2>1. /\ pendingSaves \in Seq(Pending) /\ Len(pendingSaves) \in Nat
        /\ Sorted(pendingSaves) /\ Chained
    BY QueueTyped, CopiesTyped DEF TransferInvariant, QueueInvariant, Versions, DataInvariant
  <2>2. Len(pendingSaves) \in 1..Len(pendingSaves) /\ n <= Len(pendingSaves)
    BY <2>1
  <2>3. pendingSaves[n].version <= last.version
    BY <2>1, <2>2 DEF Sorted
  <2>4. Copy(pendingSaves[n]) \in Carriers /\ Copy(last) \in Carriers
    BY <2>2 DEF Carriers, Snapshots, Copies
  <2>5. Copy(pendingSaves[n]).data \cap store \subseteq Copy(last).data
    <3>1. Copy(pendingSaves[n]).version <= Copy(last).version
      BY <2>3 DEF Copy
    <3> QED  BY <2>1, <2>4, <3>1 DEF Chained
  <2> QED  BY <2>3, <2>5 DEF Copy
<1> QED  BY <1>1, TransferIsSafe, PTL

(* No edit on the screen is neither saved, nor on its way, nor lost with a failure shown, *)
(* but for a reload that a save overtook: through drops at the queue's limit, failed      *)
(* rows and snapshots, an import and its reload (store.ts, store-settings.ts fetchData,    *)
(* data-transfer-transaction.ts).                                                          *)
THEOREM NothingIsLostUnseen == TransferSpec => []NothingLostUnseen
<1>1. TransferInvariant => NothingLostUnseen
  <2> SUFFICES ASSUME TransferInvariant PROVE NothingLostUnseen
    OBVIOUS
  <2>1. Arriving \subseteq Underway
    <3> SUFFICES ASSUME NEW e \in Arriving PROVE e \in Underway
      OBVIOUS
    <3>1. CASE e \in Rowed
      <4>1. PICK i \in immediates : e = i.row
        BY <3>1 DEF Rowed
      <4>2. e \in i.data
        BY <4>1 DEF TransferInvariant, DataInvariant, Numbered
      <4> QED  BY <4>2 DEF Underway
    <3>2. ASSUME NEW x \in Copies(pendingSaves), e \in x.data PROVE e \in Underway
      <4>1. PICK n \in 1..Len(pendingSaves) : x = Copy(pendingSaves[n])
        BY <3>2 DEF Copies
      <4>2. e \in pendingSaves[n].data
        BY <3>2, <4>1 DEF Copy
      <4> QED  BY <4>2 DEF Underway
    <3>3. ASSUME NEW x \in Flying(saveInFlight), e \in x.data PROVE e \in Underway
      <4>1. saveInFlight # NoSave /\ e \in saveInFlight.data
        BY <3>3 DEF Flying, Copy
      <4> QED  BY <4>1 DEF Underway
    <3> QED  BY <3>1, <3>2, <3>3 DEF Arriving, Snapshots
  <2>2. overtaken \/ failure \/ store \subseteq disk \cup Arriving
    BY DEF TransferInvariant, DataInvariant, Covered
  <2> QED  BY <2>1, <2>2 DEF NothingLostUnseen
<1> QED  BY <1>1, TransferIsSafe, PTL

(* Whoever was told that an edit is durable was told the truth, whoever's flush gave up   *)
(* on it meanwhile (pending-capture-persistence.ts).                                      *)
THEOREM ConfirmationsAreTrue == TransferSpec => []ConfirmedIsSaved
<1>1. TransferInvariant => ConfirmedIsSaved
  BY DEF TransferInvariant, ImportInvariant
<1> QED  BY <1>1, TransferIsSafe, PTL

(* What an import reported as done stays, whatever is saved after it: neither a retry,     *)
(* nor an edit, nor a reload that read the database before it takes it away               *)
(* (data-transfer-transaction.ts runDataTransferTransaction).                              *)
THEOREM ImportsStay == TransferSpec => []ImportStays
<1>1. TransferInvariant => ImportStays
  BY DEF TransferInvariant, ImportInvariant, Imported, ImportStays, Excused
<1> QED  BY <1>1, TransferIsSafe, PTL

(* A reload takes an unsaved edit off the screen only while a failure is shown: a caller   *)
(* that reads on after its flush finds the store saved (store-settings.ts fetchData).      *)
THEOREM ReloadsLoseOnlyFailed == TransferSpec => ReloadLosesOnlyFailed
<1>1. ASSUME TransferInvariant, [TransferNext]_allVars
      PROVE  store \ disk \subseteq store' \/ failure \/ overtaken
  <2>1. ASSUME NEW c \in Callers, Reloaded(c)
        PROVE  store \ disk \subseteq store' \/ failure \/ overtaken
    <3>1. CASE Unchanged(c)
      <4>1. Rests(c)
        BY <2>1, <3>1 DEF Reloaded, FetchApplies, Rests, ReadsOn, Unchanged
      <4> QED  BY <1>1, <4>1 DEF TransferInvariant, CallerInvariant, Calm, Settled
    <3>2. CASE ~Unchanged(c)
      BY <2>1, <3>2 DEF Reloaded, FetchApplies
    <3> QED  BY <3>1, <3>2
  <2>2. CASE QueueEvent
    BY <2>2 DEF QueueEvent, EditSnapshot, Snapshot, EditRow, RowSaved, RowFails, SaveFails,
                TimerFires, Fetch, Confirm, Retry
  <2>3. CASE Convert
    BY <2>3 DEF Convert, Snapshot
  <2>4. ASSUME NEW c \in Callers, QueueStep(c)
        PROVE  store \ disk \subseteq store' \/ failure \/ overtaken
    BY <2>1, <2>4 DEF QueueStep, Continue, Wake, Saved, Flushed, FetchBegins, FetchReads, FetchGivesUp,
                      Confirmed, Recover, Recovered, Unlocked
  <2>5. ASSUME NEW c \in Callers, TransferStep(c) \/ Transfer(c) \/ TransferFails(c)
        PROVE  store \ disk \subseteq store' \/ failure \/ overtaken
    BY <2>1, <2>5 DEF TransferStep, Capture, Load, Dispatch, Persisted, Refreshed, FetchGivesUp,
                      Transfer, TransferFails
  <2>6. CASE UNCHANGED allVars
    BY <2>6 DEF allVars, vars
  <2> QED  BY <1>1, <2>2, <2>3, <2>4, <2>5, <2>6 DEF TransferNext
<1> QED  BY <1>1, TransferIsSafe, PTL DEF TransferSpec, ReloadLosesOnlyFailed

(* A caller that will come back to the queue, or a user who is shown the failure. *)
Drivers == {"immediates", "inflight", "owner", "sleep"}
Driven == timer \/ failure \/ \E c \in Callers : at[c] \in Drivers

LEMMA DrivenStays ==
    ASSUME QueueInvariant, QueueIsDriven, TransferNext, pendingSaves' # <<>>
    PROVE  Driven'
<1>0. at \in [Callers -> Points]
  BY QueueTyped
<1>1. pendingSaves # <<>> => Driven
  BY DEF QueueIsDriven, Driven, Drivers
<1>2. ASSUME NEW c \in Callers, NEW p \in Waiting, at' = [at EXCEPT ![c] = p],
             p = "flushed" => Snapshots' = {}
      PROVE  Driven'
  <2>1. QueueInvariant'
    BY StepTyped
  <2>2. pendingSaves' \in Seq(Pending) /\ Sorted(pendingSaves')
    BY <2>1 DEF QueueInvariant, TransferTypeOK, TypeOK, Versions
  <2>3. 1..Len(pendingSaves') # {}
    BY <2>2, EmptySeq, CopiesTyped
  <2>4. Snapshots' # {}
    <3>1. Copies(pendingSaves') # {}
      BY <2>3 DEF Copies
    <3> QED  BY <3>1 DEF Snapshots
  <2>5. at'[c] \in Drivers
    BY <1>0, <1>2, <2>4 DEF Waiting, Drivers
  <2> QED  BY <2>5 DEF Driven
<1>3. ASSUME NEW c \in Callers, NEW p, at' = [at EXCEPT ![c] = p], at[c] \notin Drivers,
             UNCHANGED <<pendingSaves, timer>>, failure => failure'
      PROVE  Driven'
  BY <1>0, <1>1, <1>3 DEF Driven
<1>4. ASSUME NEW c \in Callers, NEW work, Pushes(c, work) PROVE Driven'
  <2>1. \E p \in Waiting : at' = [at EXCEPT ![c] = p] /\ (p = "flushed" => Snapshots' = {})
    BY <1>4, TurnNow DEF Pushes, TurnTo
  <2> QED  BY <1>2, <2>1
<1>5. ASSUME NEW c \in Callers, UNCHANGED transfer,
             Retry(c) \/ Unlocked(c) \/ (Recover(c) /\ ~Retrying /\ ~Locked)
      PROVE  Driven'
  <2>1. /\ at[c] # "owner" /\ waits[c] = {} /\ Persist(c)
        /\ UNCHANGED <<world, rows, made, store, disk, savedVersion, immediates, held, since, acked, faults, transfer>>
        /\ calls' \in 0..world.calls /\ held' \in [Callers -> Content]
    BY <1>5, RetryTyped
  <2>2. \E p \in Waiting : at' = [at EXCEPT ![c] = p] /\ p # "flushed"
    BY <2>1, PersistSteps
  <2> QED  BY <1>2, <2>2
<1>6. CASE QueueEvent
  <2>1. ASSUME EditSnapshot PROVE Driven'
    BY <2>1 DEF EditSnapshot, Snapshot, Driven
  <2>2. ASSUME EditRow PROVE Driven'
    BY <1>1, <2>2 DEF EditRow
  <2>3. ASSUME NEW i \in immediates, RowSaved(i) PROVE Driven'
    BY <1>1, <2>3 DEF RowSaved, Driven
  <2>4. ASSUME NEW i \in immediates, RowFails(i) PROVE Driven'
    BY <2>4 DEF RowFails, RecordFailure, Driven
  <2>5. ASSUME NEW c \in Callers, SaveFails(c), UNCHANGED transfer PROVE Driven'
    <3>1. \/ \E p \in Waiting : at' = [at EXCEPT ![c] = p] /\ p # "flushed"
          \/ at' = [at EXCEPT ![c] = "sleep"]
          \/ failure' = TRUE
      BY <2>5, SaveFailsSteps
    <3>2. ASSUME at' = [at EXCEPT ![c] = "sleep"] PROVE Driven'
      <4>1. at'[c] \in Drivers
        BY <1>0, <3>2 DEF Drivers
      <4> QED  BY <4>1 DEF Driven
    <3> QED  BY <1>2, <3>1, <3>2 DEF Driven
  <2>6. ASSUME NEW c \in Callers, TimerFires(c) PROVE Driven'
    BY <1>4, <2>6, TimerPushes
  <2>7. ASSUME NEW c \in Callers, Fetch(c) PROVE Driven'
    BY <1>4, <2>7, FetchPushes
  <2>8. ASSUME NEW c \in Callers, Confirm(c) PROVE Driven'
    BY <1>4, <2>8, ConfirmPushes
  <2> QED  BY <1>5, <1>6, <2>1, <2>2, <2>3, <2>4, <2>5, <2>6, <2>7, <2>8 DEF QueueEvent
<1>7. CASE Convert
  BY <1>7 DEF Convert, Snapshot, Driven
<1>8. ASSUME NEW c \in Callers, QueueStep(c) PROVE Driven'
  <2>1. ASSUME Continue(c) \/ Wake(c) PROVE Driven'
    BY <1>4, <2>1, ContinuePushes
  <2>2. ASSUME Saved(c), UNCHANGED transfer PROVE Driven'
    BY <1>2, <2>2, SavedSteps
  <2>3. ASSUME Flushed(c) \/ FetchBegins(c) \/ FetchReads(c) \/ FetchGivesUp(c) \/ Reloaded(c)
                  \/ Confirmed(c) \/ Recovered(c)
        PROVE  Driven'
    <3>1. at[c] \notin Drivers
      BY <2>3 DEF Flushed, FetchBegins, FetchReads, FetchGivesUp, Reloaded, FetchApplies, Confirmed,
                  Recovered, Drivers
    <3>2. UNCHANGED <<queue, failure>> /\ \E p : at' = [at EXCEPT ![c] = p]
      BY <2>3 DEF Flushed, FetchBegins, FetchReads, FetchGivesUp, Reloaded, FetchApplies, Confirmed,
                  Recovered, End, Goto
    <3> QED  BY <1>3, <3>1, <3>2 DEF queue
  <2>4. ASSUME Recover(c), Retrying \/ Locked, UNCHANGED transfer PROVE Driven'
    <3>1. at[c] \notin Drivers
      BY <2>4 DEF Recover, Drivers
    <3> QED  BY <1>3, <2>4, <3>1, RecoverTyped DEF queue
  <2> QED  BY <1>5, <1>8, <2>1, <2>2, <2>3, <2>4 DEF QueueStep
<1>9. ASSUME NEW c \in Callers, TransferStep(c) \/ Transfer(c) \/ TransferFails(c) PROVE Driven'
  <2>1. ASSUME Transfer(c) PROVE Driven'
    BY <1>4, <2>1, TransferPushes
  <2>2. ASSUME Persisted(c) PROVE Driven'
    BY <1>4, <2>2, PersistedPushes
  <2>3. ASSUME Capture(c) \/ Load(c) \/ Dispatch(c) \/ Refreshed(c) \/ TransferFails(c) PROVE Driven'
    <3>1. at[c] \notin Drivers
      BY <2>3 DEF Capture, Load, Dispatch, Refreshed, Reloaded, FetchApplies, FetchGivesUp,
                  TransferFails, Drivers
    <3>2. UNCHANGED <<queue, failure>> /\ \E p : at' = [at EXCEPT ![c] = p]
      BY <2>3 DEF Capture, Load, Dispatch, Refreshed, Reloaded, FetchApplies, FetchGivesUp,
                  TransferFails, Abort, End, Goto
    <3> QED  BY <1>3, <3>1, <3>2 DEF queue
  <2> QED  BY <1>9, <2>1, <2>2, <2>3 DEF TransferStep
<1> QED  BY <1>6, <1>7, <1>8, <1>9 DEF TransferNext

(* A queued save always has someone to write it: the timer, a flush that will come back   *)
(* to it, or a user who is shown the failure (store.ts debouncedSave, flushPendingSave).   *)
THEOREM QueueIsAlwaysDriven == TransferSpec => []QueueIsDriven
<1>1. TransferInit => QueueIsDriven
  BY DEF TransferInit, Init, QueueIsDriven
<1>2. ASSUME QueueInvariant, QueueIsDriven, [TransferNext]_allVars PROVE QueueIsDriven'
  <2>1. CASE TransferNext
    BY <1>2, <2>1, DrivenStays DEF QueueIsDriven, Driven, Drivers
  <2>2. CASE UNCHANGED allVars
    BY <1>2, <2>2 DEF QueueIsDriven, allVars, vars, queue, flush
  <2> QED  BY <1>2, <2>1, <2>2
<1> QED  BY <1>1, <1>2, QueueIsInOrder, PTL DEF TransferSpec

=============================================================================
