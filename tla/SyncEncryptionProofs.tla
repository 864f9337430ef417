------------------------- MODULE SyncEncryptionProofs -------------------------
(***************************************************************************)
(* Proofs about SyncEncryption, for any devices, passphrases, worlds and   *)
(* bounds.  KeyInvariant: the types, and that a device which syncs with    *)
(* encryption on holds the key its salt stands for; it rests on salts      *)
(* telling keys apart wherever a key is kept.  TransitionInvariant: until  *)
(* two opposite transitions cross, nothing is lost, every mixture is owed  *)
(* by a journal, and a commit claims no more than there is; it rests on    *)
(* what a running operation still knows of the remote.                     *)
(***************************************************************************)
EXTENDS SyncEncryption, TLAPS

USE EncryptionConstants

(* A key that is in use somewhere. *)
Known(k) ==
    \/ \E n \in Artifacts : remote[n].key = k
    \/ \E d \in Devices : local[d].key = k
    \/ \E d \in Devices : op[d].target = k
    \/ \E d \in Devices, n \in Artifacts : op[d].snap[n].key = k

SaltsTellKeys ==
    \A k, l \in Key : Known(k) /\ Known(l) /\ Salt(k) = Salt(l) => k = l

AttachmentStays == remote["attachment"].key # Absent

(* What is true of the transition a device is running. *)
OperationSound(d) ==
    /\ op[d].kind \in {"enable", "change", "provide"} => op[d].target \in Key
    /\ op[d].kind = "disable" => op[d].target = Clear
    /\ op[d].proven => op[d].kind \in Transitions \cup {"provide"}
    /\ op[d].kind = "enable" => local[d].state = "off"
    /\ op[d].kind = "provide" => local[d].state = "no-key"
    /\ op[d].kind = "cycle" /\ local[d].state = "enabled" => local[d].key \in Key
    /\ op[d].kind \in Transitions => op[d].snap["attachment"].key # Absent
    /\ op[d].kind = "change" /\ (op[d].proven \/ op[d].snap["attachment"].key = op[d].target)
            => local[d].journal = "change"

KeyFits(d) ==
    local[d].state = "enabled" /\ local[d].journal = "none"
        => local[d].key \in Key /\ Salt(local[d].key) = local[d].salt

KeyInvariant ==
    /\ TypeOK
    /\ SaltsTellKeys
    /\ AttachmentStays
    /\ \A d \in Devices : OperationSound(d)
    /\ \A d \in Devices : KeyFits(d)

-----------------------------------------------------------------------------
(* Types.                                                                   *)

LEMMA KeysAreKeys ==
    /\ Clear \notin Key /\ Absent \notin Key /\ NoKey \notin Key
    /\ Clear # Absent
    /\ \A k \in Key : Salt(k) \in Salts
BY DEF Clear, Absent, NoKey, Key, Salt

LEMMA NoneTyped == None \in File /\ None.key = Absent
BY DEF None, File

LEMMA IdleTyped ==
    Idle \in Operation /\ Idle.kind = "idle" /\ ~Idle.proven /\ Idle.target = NoKey
        /\ \A n \in Artifacts : Idle.snap[n].key = Absent
BY NoneTyped DEF Idle, Operation

(* A started operation. *)
LEMMA RunningTyped ==
    ASSUME remote \in [Artifacts -> File], NEW d,
           NEW kind \in Transitions \cup {"provide", "cycle"},
           NEW target \in Key \cup {NoKey, Clear}
    PROVE  /\ Running(d, kind, target) \in Operation
           /\ Running(d, kind, target).kind = kind
           /\ Running(d, kind, target).target = target
           /\ Running(d, kind, target).snap = remote
           /\ ~Running(d, kind, target).proven
BY IdleTyped DEF Running, Operation

(* A write, and what it does to the operations of all devices. *)
LEMMA WrittenTyped ==
    ASSUME remote \in [Artifacts -> File], op \in [Devices -> Operation],
           NEW d \in Devices, NEW n \in Artifacts, NEW file \in File, Written(d, n, file)
    PROVE  /\ remote' \in [Artifacts -> File]
           /\ op' \in [Devices -> Operation]
           /\ remote' = [remote EXCEPT ![n] = file]
           /\ \A e \in Devices : /\ op'[e].kind = op[e].kind
                                 /\ op'[e].target = op[e].target
                                 /\ op'[e].proven = op[e].proven
                                 /\ e # d => op'[e].snap = op[e].snap
           /\ op'[d].snap = [op[d].snap EXCEPT ![n] = file]
<1>1. remote' = [remote EXCEPT ![n] = file]
  BY DEF Written
<1>2. op'[d] = [op[d] EXCEPT !.snap[n] = file, !.late = FALSE]
  BY DEF Written
<1>3. /\ op'[d] \in Operation
      /\ op'[d].kind = op[d].kind /\ op'[d].target = op[d].target
      /\ op'[d].proven = op[d].proven
      /\ op'[d].snap = [op[d].snap EXCEPT ![n] = file]
  <2>1. op[d] \in Operation /\ op[d].snap \in [Artifacts -> File]
    BY DEF Operation
  <2> DEFINE snap == [op[d].snap EXCEPT ![n] = file]
  <2>2. snap \in [Artifacts -> File]
    BY <2>1
  <2>3. op'[d] = [op[d] EXCEPT !.snap = snap, !.late = FALSE]
    BY <1>2, <2>1 DEF Operation
  <2> HIDE DEF snap
  <2>4. /\ op'[d] \in Operation
        /\ op'[d].kind = op[d].kind /\ op'[d].target = op[d].target
        /\ op'[d].proven = op[d].proven /\ op'[d].snap = snap
    BY <2>1, <2>2, <2>3 DEF Operation
  <2> QED
    BY <2>4 DEF snap
<1>4. ASSUME NEW e \in Devices, e # d
      PROVE  /\ op'[e] \in Operation
             /\ op'[e].kind = op[e].kind /\ op'[e].target = op[e].target
             /\ op'[e].proven = op[e].proven /\ op'[e].snap = op[e].snap
  <2>1. CASE op[e].kind = "idle"
    BY <1>4, <2>1 DEF Written
  <2>2. CASE op[e].kind # "idle"
    <3>1. op'[e] = [op[e] EXCEPT !.stale = @ \cup {n}]
      BY <1>4, <2>2 DEF Written
    <3> QED
      BY <3>1 DEF Operation
  <2> QED
    BY <2>1, <2>2
<1>5. op' \in [Devices -> Operation]
  <2>1. op' = [e \in Devices |-> op'[e]]
    BY DEF Written
  <2>2. \A e \in Devices : op'[e] \in Operation
    BY <1>3, <1>4
  <2> QED
    BY <2>1, <2>2
<1> QED
  BY <1>1, <1>3, <1>4, <1>5

LEMMA SpendTyped ==
    ASSUME TypeOK, world' = world, NEW bound \in {"transitions", "faults", "stalls"},
           spent[bound] < world[bound], Spend(bound)
    PROVE  spent' \in [edits : 0 .. MaxEdits, transitions : 0 .. world'.transitions,
                       faults : 0 .. world'.faults, stalls : 0 .. world'.stalls]
<1>1. /\ world.transitions \in Nat /\ world.faults \in Nat /\ world.stalls \in Nat
      /\ spent \in [edits : 0 .. MaxEdits, transitions : 0 .. world.transitions,
                    faults : 0 .. world.faults, stalls : 0 .. world.stalls]
  BY DEF TypeOK
<1>2. CASE bound = "transitions"
  BY <1>1, <1>2 DEF Spend
<1>3. CASE bound = "faults"
  BY <1>1, <1>3 DEF Spend
<1>4. CASE bound = "stalls"
  BY <1>1, <1>4 DEF Spend
<1> QED
  BY <1>2, <1>3, <1>4

LEMMA ReleaseTyped ==
    ASSUME TypeOK, NEW d \in Devices, Release(d)
    PROVE  /\ op' \in [Devices -> Operation] /\ lease' \in Devices \cup {Nobody}
           /\ op' = [op EXCEPT ![d] = Idle]
BY IdleTyped DEF Release, TypeOK

LEMMA BeginTyped ==
    ASSUME TypeOK, NEW d \in Devices, NEW kind \in Transitions,
           NEW target \in Key \cup {NoKey, Clear}, Begin(d, kind, target)
    PROVE  /\ world' \in Worlds /\ remote' \in [Artifacts -> File]
           /\ store' \in [Devices -> SUBSET (1 .. MaxEdits)]
           /\ op' \in [Devices -> Operation] /\ lease' \in Devices \cup {Nobody}
           /\ published' \in SUBSET (1 .. MaxEdits)
           /\ spent' \in [edits : 0 .. MaxEdits, transitions : 0 .. world'.transitions,
                          faults : 0 .. world'.faults, stalls : 0 .. world'.stalls]
<1>1. op' \in [Devices -> Operation]
  BY RunningTyped DEF Begin, TypeOK
<1>2. spent' \in [edits : 0 .. MaxEdits, transitions : 0 .. world'.transitions,
                  faults : 0 .. world'.faults, stalls : 0 .. world'.stalls]
  BY SpendTyped DEF Begin, TypeOK
<1> QED
  BY <1>1, <1>2 DEF Begin, Acquire, TypeOK

(* The keys transitions work towards. *)
LEMMA FreshSalt == FreshSalts # {} => (CHOOSE s \in FreshSalts : TRUE) \in FreshSalts
OBVIOUS

LEMMA EnableKeyTyped ==
    ASSUME NEW p \in Passphrases, FreshSalts # {}, NEW k \in EnableKey(p)
    PROVE  /\ k \in Key
           /\ \/ \E n \in Artifacts : remote[n].key = k
              \/ Salt(k) \in FreshSalts
<1>1. CASE Sealed("sealed")
  BY <1>1 DEF EnableKey, Sealed, Artifacts, Documents
<1>2. CASE ~Sealed("sealed") /\ Sealed("attachment")
  BY <1>2 DEF EnableKey, Sealed, Artifacts, Documents
<1>3. CASE ~Sealed("sealed") /\ ~Sealed("attachment")
  <2>1. \E s \in FreshSalts : k = << p, s >>
    BY <1>3, FreshSalt DEF EnableKey
  <2> QED
    BY <2>1 DEF Key, Salt, FreshSalts
<1> QED
  BY <1>1, <1>2, <1>3

LEMMA ChangeKeyTyped ==
    ASSUME NEW q \in Passphrases, FreshSalts # {}
    PROVE  /\ << q, CHOOSE s \in FreshSalts : TRUE >> \in Key
           /\ Salt(<< q, CHOOSE s \in FreshSalts : TRUE >>) \in FreshSalts
BY FreshSalt DEF Key, Salt, FreshSalts

LEMMA InitTyped == Init => TypeOK
<1> SUFFICES ASSUME Init PROVE TypeOK
  OBVIOUS
<1>1. world \in Worlds /\ world.key \in Key \cup {Clear}
      /\ world.transitions \in Nat /\ world.faults \in Nat /\ world.stalls \in Nat
  BY DEF Init
<1>2. remote \in [Artifacts -> File]
  <2>1. [key |-> world.key, edits |-> {}] \in File
    BY <1>1 DEF File
  <2> QED
    BY <2>1, NoneTyped DEF Init
<1>3. local \in [Devices -> Local]
  <2>1. CASE world.key = Clear
    BY <2>1 DEF Init, Local, States, Journals
  <2>2. CASE world.key # Clear
    <3>1. world.key \in Key /\ Salt(world.key) \in Salts
      BY <1>1, <2>2, KeysAreKeys
    <3> QED
      BY <2>2, <3>1 DEF Init, Local, States, Journals
  <2> QED
    BY <2>1, <2>2
<1>4. op \in [Devices -> Operation]
  BY IdleTyped DEF Init
<1>5. spent \in [edits : 0 .. MaxEdits, transitions : 0 .. world.transitions,
                 faults : 0 .. world.faults, stalls : 0 .. world.stalls]
  BY <1>1 DEF Init
<1> QED
  BY <1>1, <1>2, <1>3, <1>4, <1>5 DEF TypeOK, Init

-----------------------------------------------------------------------------
(* The invariant of the keys.                                               *)

(* Keys in use tell their salts apart as long as only one new key comes     *)
(* into use, and that with a salt nobody uses.                              *)
LEMMA SaltsKept ==
    ASSUME SaltsTellKeys, NEW new \in Key,
           Known(new) \/ Salt(new) \in FreshSalts,
           \A k \in Key : Known(k)' => Known(k) \/ k = new
    PROVE  SaltsTellKeys'
<1>1. ASSUME NEW k \in Key, Known(k), Salt(k) \in FreshSalts PROVE FALSE
  <2>1. Salt(k) \in SaltsInUse
    BY <1>1 DEF Known, SaltsInUse
  <2> QED
    BY <1>1, <2>1 DEF FreshSalts
<1>2. ASSUME NEW k \in Key, NEW l \in Key, Known(k)', Known(l)', Salt(k) = Salt(l)
      PROVE  k = l
  <2>1. (Known(k) \/ k = new) /\ (Known(l) \/ l = new)
    BY <1>2
  <2>2. CASE Known(new)
    BY <1>2, <2>1, <2>2 DEF SaltsTellKeys
  <2>3. CASE Salt(new) \in FreshSalts
    BY <1>1, <1>2, <2>1, <2>3 DEF SaltsTellKeys
  <2> QED
    BY <2>2, <2>3
<1> QED
  BY <1>2 DEF SaltsTellKeys

LEMMA SaltsKeptUnchanged ==
    ASSUME SaltsTellKeys, \A k \in Key : Known(k)' => Known(k)
    PROVE  SaltsTellKeys'
<1> SUFFICES ASSUME NEW k \in Key, NEW l \in Key, Known(k)', Known(l)', Salt(k) = Salt(l)
             PROVE  k = l
  BY DEF SaltsTellKeys
<1> QED
  BY DEF SaltsTellKeys

(* A step changes the operation and the state of one device only.           *)
LEMMA OthersStay ==
    ASSUME KeyInvariant, NEW d \in Devices,
           \A e \in Devices : e # d =>
               /\ local'[e] = local[e]
               /\ op'[e].kind = op[e].kind /\ op'[e].target = op[e].target
               /\ op'[e].proven = op[e].proven /\ op'[e].snap = op[e].snap,
           TypeOK', SaltsTellKeys', AttachmentStays', OperationSound(d)', KeyFits(d)'
    PROVE  KeyInvariant'
<1>1. ASSUME NEW e \in Devices PROVE OperationSound(e)' /\ KeyFits(e)'
  <2>1. CASE e = d
    BY <2>1
  <2>2. CASE e # d
    <3>1. OperationSound(e) /\ KeyFits(e)
      BY DEF KeyInvariant
    <3>2. OperationSound(e)'
      BY <2>2, <3>1 DEF OperationSound
    <3>3. KeyFits(e)'
      BY <2>2, <3>1 DEF KeyFits
    <3> QED
      BY <3>2, <3>3
  <2> QED
    BY <2>1, <2>2
<1> QED
  BY <1>1 DEF KeyInvariant

LEMMA IdleSound == ASSUME NEW d \in Devices, op'[d] = Idle PROVE OperationSound(d)'
BY IdleTyped DEF OperationSound, Transitions

(* A write of a key that is in use, to an artifact of a running operation.  *)
LEMMA WriteKeeps ==
    ASSUME KeyInvariant, NEW d \in Devices, NEW n \in Artifacts, NEW file \in File,
           Written(d, n, file), UNCHANGED << world, local, store, lease, spent >>,
           published' \in SUBSET (1 .. MaxEdits), crossed' \in BOOLEAN,
           file.key \in Key => Known(file.key),
           n = "attachment" => /\ file.key # Absent
                               /\ op[d].kind = "change" => local[d].journal = "change"
    PROVE  KeyInvariant'
<1>1. remote \in [Artifacts -> File] /\ op \in [Devices -> Operation]
  BY DEF KeyInvariant, TypeOK
<1>2. /\ remote' \in [Artifacts -> File] /\ op' \in [Devices -> Operation]
      /\ remote' = [remote EXCEPT ![n] = file]
      /\ \A e \in Devices : /\ op'[e].kind = op[e].kind
                            /\ op'[e].target = op[e].target
                            /\ op'[e].proven = op[e].proven
                            /\ e # d => op'[e].snap = op[e].snap
      /\ op'[d].snap = [op[d].snap EXCEPT ![n] = file]
  BY <1>1, WrittenTyped
<1>3. TypeOK'
  BY <1>2 DEF KeyInvariant, TypeOK
<1>4. op[d].snap \in [Artifacts -> File]
  BY <1>1 DEF Operation
<1>5. SaltsTellKeys'
  <2>1. ASSUME NEW k \in Key, Known(k)' PROVE Known(k)
    <3>1. CASE \E a \in Artifacts : remote'[a].key = k
      BY <1>1, <1>2, <3>1 DEF Known
    <3>2. CASE \E e \in Devices : local'[e].key = k
      BY <3>2 DEF Known
    <3>3. CASE \E e \in Devices : op'[e].target = k
      BY <1>2, <3>3 DEF Known
    <3>4. CASE \E e \in Devices, a \in Artifacts : op'[e].snap[a].key = k
      <4>1. PICK e \in Devices, a \in Artifacts : op'[e].snap[a].key = k
        BY <3>4
      <4>2. CASE e = d /\ a = n
        BY <1>2, <1>4, <4>1, <4>2
      <4>3. CASE ~(e = d /\ a = n)
        <5>1. op'[e].snap[a] = op[e].snap[a]
          BY <1>2, <1>4, <4>3
        <5> QED
          BY <4>1, <5>1 DEF Known
      <4> QED
        BY <4>2, <4>3
    <3> QED
      BY <2>1, <3>1, <3>2, <3>3, <3>4 DEF Known
  <2> QED
    BY <2>1, SaltsKeptUnchanged DEF KeyInvariant
<1>6. AttachmentStays'
  BY <1>1, <1>2 DEF KeyInvariant, AttachmentStays, Artifacts
<1>7. OperationSound(d)'
  <2>1. OperationSound(d)
    BY DEF KeyInvariant
  <2>2. CASE n = "attachment"
    <3>1. op'[d].snap["attachment"] = file
      BY <1>2, <1>4, <2>2 DEF Artifacts
    <3> QED
      BY <1>2, <2>1, <2>2, <3>1 DEF OperationSound
  <2>3. CASE n # "attachment"
    <3>1. op'[d].snap["attachment"] = op[d].snap["attachment"]
      BY <1>2, <1>4, <2>3 DEF Artifacts
    <3> QED
      BY <1>2, <2>1, <3>1 DEF OperationSound
  <2> QED
    BY <2>2, <2>3
<1>8. KeyFits(d)'
  BY DEF KeyInvariant, KeyFits
<1> QED
  BY <1>2, <1>3, <1>5, <1>6, <1>7, <1>8, OthersStay
(* A step that ends an operation, with what becomes of the device's state.  *)
LEMMA ReleaseKeeps ==
    ASSUME KeyInvariant, NEW d \in Devices, Release(d),
           UNCHANGED << world, crossed, remote, store, published >>,
           spent' \in [edits : 0 .. MaxEdits, transitions : 0 .. world.transitions,
                       faults : 0 .. world.faults, stalls : 0 .. world.stalls],
           NEW entry \in Local, local' = [local EXCEPT ![d] = entry],
           entry.key \in Key => Known(entry.key),
           entry.state = "enabled" /\ entry.journal = "none"
               => entry.key \in Key /\ Salt(entry.key) = entry.salt
    PROVE  KeyInvariant'
<1>1. /\ op' \in [Devices -> Operation] /\ lease' \in Devices \cup {Nobody}
      /\ op' = [op EXCEPT ![d] = Idle]
  BY ReleaseTyped DEF KeyInvariant
<1>2. local \in [Devices -> Local] /\ op \in [Devices -> Operation]
  BY DEF KeyInvariant, TypeOK
<1>3. TypeOK'
  BY <1>1, <1>2 DEF KeyInvariant, TypeOK
<1>4. SaltsTellKeys'
  <2>1. ASSUME NEW k \in Key, Known(k)' PROVE Known(k)
    <3>1. CASE \E a \in Artifacts : remote'[a].key = k
      BY <3>1 DEF Known
    <3>2. CASE \E e \in Devices : local'[e].key = k
      BY <1>2, <2>1, <3>2 DEF Known
    <3>3. CASE \E e \in Devices : op'[e].target = k
      BY <1>1, <1>2, <2>1, <3>3, IdleTyped, KeysAreKeys DEF Known
    <3>4. CASE \E e \in Devices, a \in Artifacts : op'[e].snap[a].key = k
      BY <1>1, <1>2, <2>1, <3>4, IdleTyped, KeysAreKeys DEF Known
    <3> QED
      BY <2>1, <3>1, <3>2, <3>3, <3>4 DEF Known
  <2> QED
    BY <2>1, SaltsKeptUnchanged DEF KeyInvariant
<1>5. AttachmentStays'
  BY DEF KeyInvariant, AttachmentStays
<1>6. OperationSound(d)'
  BY <1>1, <1>2, IdleSound
<1>7. KeyFits(d)'
  BY <1>2 DEF KeyFits
<1> QED
  BY <1>1, <1>2, <1>3, <1>4, <1>5, <1>6, <1>7, OthersStay

(* A step that starts an operation on a snapshot of the remote.             *)
Starts(d, kind, target, entry) ==
    /\ op' = [op EXCEPT ![d] = Running(d, kind, target)]
    /\ UNCHANGED << world, crossed, remote, published >>
    /\ lease' \in Devices \cup {Nobody}
    /\ store' \in [Devices -> SUBSET (1 .. MaxEdits)]
    /\ spent' \in [edits : 0 .. MaxEdits, transitions : 0 .. world.transitions,
                   faults : 0 .. world.faults, stalls : 0 .. world.stalls]
    /\ entry \in Local /\ local' = [local EXCEPT ![d] = entry]
    /\ entry.key \in Key => Known(entry.key)
    /\ entry.state = "enabled" /\ entry.journal = "none"
           => entry.key \in Key /\ Salt(entry.key) = entry.salt

LEMMA StartKeeps ==
    ASSUME KeyInvariant, NEW d \in Devices,
           NEW kind \in Transitions \cup {"provide", "cycle"},
           NEW target \in Key \cup {NoKey, Clear}, NEW entry,
           Starts(d, kind, target, entry),
           target \in Key => Known(target) \/ Salt(target) \in FreshSalts,
           kind \in {"enable", "change", "provide"} => target \in Key,
           kind = "disable" => target = Clear,
           kind = "enable" => entry.state = "off",
           kind = "provide" => entry.state = "no-key",
           kind = "cycle" /\ entry.state = "enabled" => entry.key \in Key,
           kind = "change" => remote["attachment"].key # target
    PROVE  KeyInvariant'
<1> USE DEF Starts
<1>1. /\ remote \in [Artifacts -> File] /\ op \in [Devices -> Operation]
      /\ local \in [Devices -> Local]
  BY DEF KeyInvariant, TypeOK
<1>2. /\ Running(d, kind, target) \in Operation
      /\ Running(d, kind, target).kind = kind
      /\ Running(d, kind, target).target = target
      /\ Running(d, kind, target).snap = remote
      /\ ~Running(d, kind, target).proven
  BY <1>1, RunningTyped
<1> DEFINE run == Running(d, kind, target)
<1>3. op'[d] = run /\ \A e \in Devices : e # d => op'[e] = op[e]
  BY <1>1
<1>4. local'[d] = entry /\ \A e \in Devices : e # d => local'[e] = local[e]
  BY <1>1
<1> HIDE DEF run
<1>5. TypeOK'
  BY <1>1, <1>2 DEF KeyInvariant, TypeOK
<1>6. ASSUME NEW k \in Key, Known(k)' PROVE Known(k) \/ k = target
  <2>1. CASE \E a \in Artifacts : remote'[a].key = k
    BY <2>1 DEF Known
  <2>2. CASE \E e \in Devices : local'[e].key = k
    BY <1>4, <1>6, <2>2 DEF Known
  <2>3. CASE \E e \in Devices : op'[e].target = k
    BY <1>2, <1>3, <2>3 DEF Known, run
  <2>4. CASE \E e \in Devices, a \in Artifacts : op'[e].snap[a].key = k
    BY <1>2, <1>3, <2>4 DEF Known, run
  <2> QED
    BY <1>6, <2>1, <2>2, <2>3, <2>4 DEF Known
<1>7. SaltsTellKeys'
  <2>1. CASE target \in Key
    BY <1>6, <2>1, SaltsKept DEF KeyInvariant
  <2>2. CASE target \notin Key
    BY <1>6, <2>2, SaltsKeptUnchanged DEF KeyInvariant
  <2> QED
    BY <2>1, <2>2
<1>8. AttachmentStays'
  BY DEF KeyInvariant, AttachmentStays
<1>9. OperationSound(d)'
  <2>1. remote["attachment"].key # Absent
    BY DEF KeyInvariant, AttachmentStays
  <2>2. /\ op'[d].kind = kind /\ op'[d].target = target /\ ~op'[d].proven
        /\ op'[d].snap = remote
    BY <1>2, <1>3 DEF run
  <2> QED
    BY <1>4, <2>1, <2>2 DEF OperationSound, Transitions
<1>10. KeyFits(d)'
  BY <1>4 DEF KeyFits
<1> QED
  BY <1>3, <1>4, <1>5, <1>7, <1>8, <1>9, <1>10, OthersStay

(* A step that changes the remote in no way and starts or ends nothing.     *)
LEMMA StateKeeps ==
    ASSUME KeyInvariant, NEW d \in Devices, UNCHANGED remote,
           \A e \in Devices : /\ op'[e].kind = op[e].kind /\ op'[e].target = op[e].target
                              /\ op'[e].snap = op[e].snap
                              /\ e # d => op'[e].proven = op[e].proven,
           NEW entry \in Local, local' = [local EXCEPT ![d] = entry],
           entry.key \in Key => Known(entry.key), TypeOK',
           OperationSound(d)', KeyFits(d)'
    PROVE  KeyInvariant'
<1>1. local \in [Devices -> Local]
  BY DEF KeyInvariant, TypeOK
<1>2. \A k \in Key : Known(k)' => Known(k)
  BY <1>1 DEF Known
<1>3. SaltsTellKeys'
  BY <1>2, SaltsKeptUnchanged DEF KeyInvariant
<1>4. AttachmentStays'
  BY DEF KeyInvariant, AttachmentStays
<1> QED
  BY <1>1, <1>3, <1>4, OthersStay

LEMMA LocalKnown ==
    ASSUME KeyInvariant, NEW d \in Devices
    PROVE  /\ local[d] \in Local /\ local = [local EXCEPT ![d] = local[d]]
           /\ Known(local[d].key)
           /\ OperationSound(d) /\ KeyFits(d)
           /\ op[d] \in Operation /\ op = [op EXCEPT ![d] = op[d]]
           /\ op[d].snap \in [Artifacts -> File]
           /\ remote \in [Artifacts -> File]
           /\ spent \in [edits : 0 .. MaxEdits, transitions : 0 .. world.transitions,
                         faults : 0 .. world.faults, stalls : 0 .. world.stalls]
<1>1. /\ local \in [Devices -> Local] /\ op \in [Devices -> Operation]
      /\ remote \in [Artifacts -> File]
      /\ spent \in [edits : 0 .. MaxEdits, transitions : 0 .. world.transitions,
                    faults : 0 .. world.faults, stalls : 0 .. world.stalls]
  BY DEF KeyInvariant, TypeOK
<1>2. op[d] \in Operation /\ op[d].snap \in [Artifacts -> File]
  BY <1>1 DEF Operation
<1> QED
  BY <1>1, <1>2 DEF KeyInvariant, Known

-----------------------------------------------------------------------------
(* Each action keeps it: the steps of a running operation.                  *)

LEMMA StartJournalKeeps ==
    ASSUME KeyInvariant, NEW d \in Devices, StartJournal(d) PROVE KeyInvariant'
<1> DEFINE entry == [local[d] EXCEPT !.journal = op[d].kind]
<1>1. local[d] \in Local /\ op[d] \in Operation
  BY LocalKnown
<1>2. entry \in Local /\ local' = [local EXCEPT ![d] = entry]
  BY <1>1 DEF StartJournal, Local, Journals
<1>3. entry.key = local[d].key /\ entry.journal = op[d].kind /\ entry.state = local[d].state
  BY <1>1 DEF Local
<1>4. op' = [op EXCEPT ![d].late = FALSE]
  BY DEF StartJournal
<1>5. op'[d] \in Operation /\ op'[d].kind = op[d].kind /\ op'[d].target = op[d].target
      /\ op'[d].snap = op[d].snap /\ op'[d].proven = op[d].proven
  BY <1>1, <1>4 DEF KeyInvariant, TypeOK, Operation
<1>6. TypeOK'
  BY <1>2, <1>4, <1>5 DEF KeyInvariant, TypeOK, StartJournal
<1>7. local'[d] = entry /\ op[d].kind \in Transitions
  BY <1>2 DEF KeyInvariant, TypeOK, StartJournal
<1> HIDE DEF entry
<1>8. OperationSound(d)'
  BY <1>3, <1>5, <1>7, LocalKnown DEF OperationSound, Transitions
<1>9. KeyFits(d)'
  BY <1>3, <1>7 DEF KeyFits, Transitions
<1>10. \A e \in Devices : e # d => op'[e] = op[e]
  BY <1>4 DEF KeyInvariant, TypeOK
<1>11. /\ \A e \in Devices : /\ op'[e].kind = op[e].kind /\ op'[e].target = op[e].target
                             /\ op'[e].snap = op[e].snap
                             /\ e # d => op'[e].proven = op[e].proven
       /\ UNCHANGED remote /\ Known(entry.key)
  BY <1>3, <1>5, <1>10, LocalKnown DEF StartJournal
<1> QED
  BY <1>2, <1>6, <1>8, <1>9, <1>11, StateKeeps

LEMMA RewriteKeeps ==
    ASSUME KeyInvariant, NEW d \in Devices, Rewrite(d) PROVE KeyInvariant'
<1>1. PICK n \in InPlace(d) : Written(d, n, [op[d].snap[n] EXCEPT !.key = op[d].target])
  BY DEF Rewrite
<1>2. n \in Artifacts /\ op[d].kind \in Transitions /\ local[d].journal = op[d].kind
  BY <1>1 DEF InPlace, Artifacts, Documents, Rewrite, Journaled, Transitions
<1> DEFINE file == [op[d].snap[n] EXCEPT !.key = op[d].target]
<1>3. op[d].target \in Key \cup {Clear}
  BY <1>2, LocalKnown DEF OperationSound, Transitions
<1>4. op[d].snap[n] \in File
  BY <1>2, LocalKnown
<1>5. file \in File /\ file.key = op[d].target
  BY <1>3, <1>4 DEF File
<1>6. Known(file.key) /\ file.key # Absent
  BY <1>3, <1>5, KeysAreKeys DEF Known
<1> HIDE DEF file
<1>7. published' \in SUBSET (1 .. MaxEdits) /\ crossed' \in BOOLEAN
  BY DEF Rewrite, KeyInvariant, TypeOK
<1>8. Written(d, n, file)
  BY <1>1 DEF file
<1> QED
  BY <1>2, <1>5, <1>6, <1>7, <1>8, WriteKeeps DEF Rewrite

LEMMA CreateTargetKeeps ==
    ASSUME KeyInvariant, NEW d \in Devices, CreateTarget(d) PROVE KeyInvariant'
<1> DEFINE file == [op[d].snap[Source(d)] EXCEPT !.key = op[d].target]
<1>1. /\ Source(d) \in Artifacts /\ Target(d) \in Artifacts /\ Target(d) # "attachment"
      /\ op[d].kind \in {"enable", "disable"}
  BY DEF Source, Target, Artifacts, Documents, CreateTarget, ToMove
<1>2. op[d].target \in Key \cup {Clear}
  BY <1>1, LocalKnown DEF OperationSound
<1>3. op[d].snap[Source(d)] \in File
  BY <1>1, LocalKnown
<1>4. file \in File /\ file.key = op[d].target
  BY <1>2, <1>3 DEF File
<1>5. Known(file.key)
  BY <1>4 DEF Known
<1>6. /\ published' \in SUBSET (1 .. MaxEdits) /\ crossed' \in BOOLEAN
      /\ Written(d, Target(d), file)
  BY DEF CreateTarget, KeyInvariant, TypeOK
<1> HIDE DEF file
<1> QED
  BY <1>1, <1>4, <1>5, <1>6, WriteKeeps DEF CreateTarget

LEMMA RemoveSourceKeeps ==
    ASSUME KeyInvariant, NEW d \in Devices, RemoveSource(d) PROVE KeyInvariant'
<1>1. Source(d) \in Artifacts /\ Source(d) # "attachment"
  BY DEF Source, Artifacts, Documents
<1>2. None \in File /\ None.key \notin Key
  BY NoneTyped, KeysAreKeys
<1>3. published' \in SUBSET (1 .. MaxEdits) /\ crossed' \in BOOLEAN
  BY DEF RemoveSource, KeyInvariant, TypeOK
<1> QED
  BY <1>1, <1>2, <1>3, WriteKeeps DEF RemoveSource

LEMMA UploadKeeps ==
    ASSUME KeyInvariant, NEW d \in Devices, Upload(d) PROVE KeyInvariant'
<1> DEFINE file == [key |-> IF Enabled(d) THEN local[d].key ELSE Clear, edits |-> store[d]]
<1>1. Document(d) \in Artifacts /\ Document(d) # "attachment"
  BY DEF Document, Artifacts, Documents
<1>2. Enabled(d) => local[d].key \in Key
  BY LocalKnown DEF Upload, OperationSound, Enabled
<1>3. store[d] \in SUBSET (1 .. MaxEdits)
  BY DEF KeyInvariant, TypeOK
<1>4. file \in File /\ (file.key \in Key => Known(file.key))
  BY <1>2, <1>3, LocalKnown, KeysAreKeys DEF File
<1>5. /\ published' \in SUBSET (1 .. MaxEdits) /\ crossed' \in BOOLEAN
      /\ Written(d, Document(d), file)
  BY <1>3 DEF Upload, KeyInvariant, TypeOK
<1> HIDE DEF file
<1> QED
  BY <1>1, <1>4, <1>5, WriteKeeps DEF Upload

LEMMA ProveKeeps ==
    ASSUME KeyInvariant, NEW d \in Devices, Prove(d) PROVE KeyInvariant'
<1>1. op[d] \in Operation /\ local[d] \in Local
  BY LocalKnown
<1>2. op' = [op EXCEPT ![d].proven = TRUE]
  BY DEF Prove
<1>3. op'[d] \in Operation /\ op'[d].kind = op[d].kind /\ op'[d].target = op[d].target
      /\ op'[d].snap = op[d].snap
  BY <1>1, <1>2 DEF KeyInvariant, TypeOK, Operation
<1>4. TypeOK'
  BY <1>2, <1>3 DEF KeyInvariant, TypeOK, Prove
<1>5. op[d].kind = "change" => op[d].snap["attachment"].key = op[d].target
  <2>1. SUFFICES ASSUME op[d].kind = "change" PROVE op[d].snap["attachment"].key = op[d].target
    OBVIOUS
  <2>2. InPlace(d) = {n \in {"attachment", "sealed"} :
                         op[d].snap[n].key \notin {Absent, op[d].target}}
    BY <2>1 DEF InPlace
  <2>3. InPlace(d) = {}
    BY DEF Prove, Pending
  <2>4. op[d].snap["attachment"].key # Absent
    BY <2>1, LocalKnown DEF OperationSound, Transitions
  <2> QED
    BY <2>2, <2>3, <2>4
<1>6. OperationSound(d)'
  BY <1>3, <1>5, LocalKnown DEF OperationSound, Prove
<1>7. KeyFits(d)'
  BY LocalKnown DEF KeyFits, Prove
<1>8. \A e \in Devices : e # d => op'[e] = op[e]
  BY <1>2 DEF KeyInvariant, TypeOK
<1> QED
  BY <1>1, <1>3, <1>4, <1>6, <1>7, <1>8, LocalKnown, StateKeeps DEF Prove

LEMMA CommittedTyped ==
    ASSUME KeyInvariant, NEW d \in Devices, op[d].proven
    PROVE  /\ Committed(d) \in Local
           /\ Committed(d).key \in Key => Known(Committed(d).key)
           /\ Committed(d).state = "enabled" =>
                  Committed(d).key \in Key /\ Salt(Committed(d).key) = Committed(d).salt
<1>1. CASE op[d].kind = "disable"
  BY <1>1, KeysAreKeys DEF Committed, Local, States, Journals
<1>2. CASE op[d].kind # "disable"
  <2>1. op[d].target \in Key /\ Salt(op[d].target) \in Salts
    BY <1>2, LocalKnown, KeysAreKeys DEF OperationSound, Transitions
  <2>2. Committed(d) = [state |-> "enabled", key |-> op[d].target,
                        salt |-> Salt(op[d].target), journal |-> "none"]
    BY <1>2 DEF Committed
  <2> QED
    BY <2>1, <2>2 DEF Local, States, Journals, Known
<1> QED
  BY <1>1, <1>2

LEMMA CommitKeeps ==
    ASSUME KeyInvariant, NEW d \in Devices, Commit(d) PROVE KeyInvariant'
BY CommittedTyped, ReleaseKeeps, LocalKnown DEF Commit

(* What a crash between the two stores leaves: an enable and an unlocking   *)
(* are not in the state yet, and a change is in the journal.                *)
LEMMA HalfCommittedTyped ==
    ASSUME KeyInvariant, NEW d \in Devices, op[d].proven
    PROVE  /\ HalfCommitted(d) \in Local
           /\ HalfCommitted(d).key \in Key => Known(HalfCommitted(d).key)
           /\ ~(HalfCommitted(d).state = "enabled" /\ HalfCommitted(d).journal = "none")
<1>1. local[d] \in Local
  BY LocalKnown
<1>2. CASE op[d].kind = "disable"
  <2>1. HalfCommitted(d) = [state |-> "off", key |-> local[d].key, salt |-> 0,
                            journal |-> "none"]
    BY <1>2 DEF HalfCommitted, Committed
  <2> QED
    BY <1>1, <2>1, LocalKnown DEF Local, States, Journals
<1>3. CASE op[d].kind # "disable"
  <2>1. HalfCommitted(d) = [local[d] EXCEPT !.key = op[d].target]
    BY <1>3 DEF HalfCommitted
  <2>2. op[d].target \in Key /\ Known(op[d].target)
    BY <1>3, LocalKnown DEF OperationSound, Transitions, Known
  <2>3. ~(local[d].state = "enabled" /\ local[d].journal = "none")
    BY <1>3, LocalKnown DEF OperationSound, Transitions
  <2> QED
    BY <1>1, <2>1, <2>2, <2>3 DEF Local
<1> QED
  BY <1>2, <1>3

LEMMA CrashInCommitKeeps ==
    ASSUME KeyInvariant, NEW d \in Devices, CrashInCommit(d) PROVE KeyInvariant'
<1>1. spent' \in [edits : 0 .. MaxEdits, transitions : 0 .. world.transitions,
                  faults : 0 .. world.faults, stalls : 0 .. world.stalls]
  BY SpendTyped DEF CrashInCommit, KeyInvariant
<1>2. CASE local' = [local EXCEPT ![d] = HalfCommitted(d)]
  BY <1>1, <1>2, HalfCommittedTyped, ReleaseKeeps DEF CrashInCommit
<1>3. CASE local' = [local EXCEPT ![d] = Committed(d)]
  BY <1>1, <1>3, CommittedTyped, ReleaseKeeps DEF CrashInCommit
<1> QED
  BY <1>2, <1>3 DEF CrashInCommit
LEMMA GiveUpKeeps ==
    ASSUME KeyInvariant, NEW d \in Devices, GiveUp(d) PROVE KeyInvariant'
BY LocalKnown, ReleaseKeeps DEF GiveUp, KeyFits

LEMMA EndCycleKeeps ==
    ASSUME KeyInvariant, NEW d \in Devices, EndCycle(d) PROVE KeyInvariant'
BY LocalKnown, ReleaseKeeps DEF EndCycle, KeyFits

LEMMA CrashKeeps ==
    ASSUME KeyInvariant, NEW d \in Devices, Crash(d) PROVE KeyInvariant'
<1>1. spent' \in [edits : 0 .. MaxEdits, transitions : 0 .. world.transitions,
                  faults : 0 .. world.faults, stalls : 0 .. world.stalls]
  BY SpendTyped DEF Crash, KeyInvariant
<1> QED
  BY <1>1, LocalKnown, ReleaseKeeps DEF Crash, KeyFits

-----------------------------------------------------------------------------
(* The users' choices.                                                      *)

LEMMA EnableKeeps ==
    ASSUME KeyInvariant, NEW d \in Devices, NEW p \in Passphrases, Enable(d, p)
    PROVE  KeyInvariant'
<1>1. PICK k \in EnableKey(p) : Begin(d, "enable", k)
  BY DEF Enable
<1>2. k \in Key /\ (Known(k) \/ Salt(k) \in FreshSalts)
  BY <1>1, EnableKeyTyped DEF Enable, Known
<1>3. /\ op' = [op EXCEPT ![d] = Running(d, "enable", k)]
      /\ UNCHANGED << world, crossed, remote, published >>
      /\ local' = [local EXCEPT ![d] = local[d]]
  BY <1>1, LocalKnown DEF Begin, Enable
<1>4. /\ store' \in [Devices -> SUBSET (1 .. MaxEdits)] /\ lease' \in Devices \cup {Nobody}
      /\ spent' \in [edits : 0 .. MaxEdits, transitions : 0 .. world'.transitions,
                     faults : 0 .. world'.faults, stalls : 0 .. world'.stalls]
  BY <1>1, <1>2, BeginTyped DEF KeyInvariant, Transitions
<1>5. Starts(d, "enable", k, local[d])
  BY <1>3, <1>4, LocalKnown DEF Starts, KeyFits
<1> QED
  BY <1>2, <1>5, StartKeeps DEF Enable, Transitions

LEMMA DisableKeeps ==
    ASSUME KeyInvariant, NEW d \in Devices, Disable(d) PROVE KeyInvariant'
<1>1. Begin(d, "disable", Clear)
  BY DEF Disable
<1>2. /\ op' = [op EXCEPT ![d] = Running(d, "disable", Clear)]
      /\ UNCHANGED << world, crossed, remote, published >>
      /\ local' = [local EXCEPT ![d] = local[d]]
  BY <1>1, LocalKnown DEF Begin, Disable
<1>3. /\ store' \in [Devices -> SUBSET (1 .. MaxEdits)] /\ lease' \in Devices \cup {Nobody}
      /\ spent' \in [edits : 0 .. MaxEdits, transitions : 0 .. world'.transitions,
                     faults : 0 .. world'.faults, stalls : 0 .. world'.stalls]
  BY <1>1, BeginTyped DEF KeyInvariant, Transitions
<1>4. Starts(d, "disable", Clear, local[d])
  BY <1>2, <1>3, LocalKnown DEF Starts, KeyFits
<1> QED
  BY <1>4, StartKeeps, KeysAreKeys DEF Transitions

LEMMA ChangeKeeps ==
    ASSUME KeyInvariant, NEW d \in Devices, NEW p \in Passphrases, NEW q \in Passphrases,
           Change(d, p, q)
    PROVE  KeyInvariant'
<1> DEFINE target == << q, CHOOSE s \in FreshSalts : TRUE >>
<1> DEFINE entry ==
      IF Desktop(d)
      THEN [local[d] EXCEPT !.key = remote["sealed"].key, !.salt = Salt(remote["sealed"].key)]
      ELSE local[d]
<1>1. Begin(d, "change", target) /\ local' = [local EXCEPT ![d] = entry]
  BY DEF Change, KeyInvariant, TypeOK
<1>2. target \in Key /\ Salt(target) \in FreshSalts
  BY ChangeKeyTyped DEF Change
<1> HIDE DEF target
<1>3. /\ op' = [op EXCEPT ![d] = Running(d, "change", target)]
      /\ UNCHANGED << world, crossed, remote, published >>
  BY <1>1 DEF Begin
<1>4. /\ store' \in [Devices -> SUBSET (1 .. MaxEdits)] /\ lease' \in Devices \cup {Nobody}
      /\ spent' \in [edits : 0 .. MaxEdits, transitions : 0 .. world'.transitions,
                     faults : 0 .. world'.faults, stalls : 0 .. world'.stalls]
  BY <1>1, <1>2, BeginTyped DEF KeyInvariant, Transitions
<1>5. /\ entry \in Local
      /\ entry.key \in Key => Known(entry.key)
      /\ entry.state = "enabled" /\ entry.journal = "none"
             => entry.key \in Key /\ Salt(entry.key) = entry.salt
  <2>1. CASE Desktop(d)
    <3>1. remote["sealed"].key \in Key
      BY <2>1 DEF Change, Confirmed, Sealed
    <3>2. Salt(remote["sealed"].key) \in Salts
      BY <3>1, KeysAreKeys
    <3>3. /\ entry = [local[d] EXCEPT !.key = remote["sealed"].key,
                                      !.salt = Salt(remote["sealed"].key)]
          /\ local[d] \in Local
      BY <2>1, LocalKnown
    <3>4. entry \in Local /\ entry.key = remote["sealed"].key
          /\ entry.salt = Salt(remote["sealed"].key)
      BY <3>1, <3>2, <3>3 DEF Local
    <3>5. Known(remote["sealed"].key)
      BY DEF Known, Artifacts, Documents
    <3> QED
      BY <3>1, <3>4, <3>5
  <2>2. CASE ~Desktop(d)
    BY <2>2, LocalKnown DEF KeyFits
  <2> QED
    BY <2>1, <2>2
<1>6. remote["attachment"].key # target
  <2>1. "attachment" \in Artifacts
    BY DEF Artifacts
  <2>2. Salt(remote["attachment"].key) \in SaltsInUse
    BY <2>1 DEF SaltsInUse
  <2> QED
    BY <1>2, <2>2 DEF FreshSalts
<1> HIDE DEF entry
<1>7. Starts(d, "change", target, entry)
  BY <1>1, <1>3, <1>4, <1>5 DEF Starts
<1> QED
  BY <1>2, <1>6, <1>7, StartKeeps DEF Transitions

LEMMA ProvideKeeps ==
    ASSUME KeyInvariant, NEW d \in Devices, NEW p \in Passphrases, Provide(d, p)
    PROVE  KeyInvariant'
<1> DEFINE target == remote["sealed"].key
<1>1. target \in Key /\ Known(target)
  BY DEF Provide, Sealed, Known, Artifacts, Documents
<1>2. /\ op' = [op EXCEPT ![d] = Running(d, "provide", target)]
      /\ UNCHANGED << world, crossed, remote, published >>
      /\ local' = [local EXCEPT ![d] = local[d]]
      /\ lease' \in Devices \cup {Nobody}
      /\ store' \in [Devices -> SUBSET (1 .. MaxEdits)] /\ spent' = spent
  BY LocalKnown DEF Provide, Acquire, KeyInvariant, TypeOK
<1> HIDE DEF target
<1>3. Starts(d, "provide", target, local[d])
  BY <1>2, LocalKnown DEF Starts, KeyFits
<1> QED
  BY <1>1, <1>3, StartKeeps DEF Provide

LEMMA ProvideNothingKeeps ==
    ASSUME KeyInvariant, NEW d \in Devices, ProvideNothing(d) PROVE KeyInvariant'
<1> DEFINE entry == [state |-> "off", key |-> NoKey, salt |-> 0, journal |-> "none"]
<1>1. entry \in Local /\ local' = [local EXCEPT ![d] = entry] /\ entry.key \notin Key
  BY KeysAreKeys DEF Local, States, Journals, ProvideNothing
<1>2. TypeOK' /\ local'[d] = entry
  BY <1>1 DEF KeyInvariant, TypeOK, ProvideNothing
<1>3. OperationSound(d)' /\ KeyFits(d)'
  BY <1>2, LocalKnown DEF OperationSound, KeyFits, ProvideNothing, Transitions
<1> HIDE DEF entry
<1> QED
  BY <1>1, <1>2, <1>3, StateKeeps DEF ProvideNothing

-----------------------------------------------------------------------------
(* Cycles and faults.                                                       *)

LEMMA EditKeeps ==
    ASSUME KeyInvariant, NEW d \in Devices, Edit(d) PROVE KeyInvariant'
<1>1. /\ spent.edits + 1 \in 1 .. MaxEdits
      /\ spent' \in [edits : 0 .. MaxEdits, transitions : 0 .. world.transitions,
                     faults : 0 .. world.faults, stalls : 0 .. world.stalls]
  BY LocalKnown DEF Edit, Spend
<1>2. TypeOK'
  BY <1>1 DEF KeyInvariant, TypeOK, Edit
<1>3. OperationSound(d)' /\ KeyFits(d)'
  BY LocalKnown DEF OperationSound, KeyFits, Edit
<1> QED
  BY <1>2, <1>3, LocalKnown, StateKeeps DEF Edit

LEMMA BeginCycleKeeps ==
    ASSUME KeyInvariant, NEW d \in Devices, BeginCycle(d) PROVE KeyInvariant'
<1>1. /\ op' = [op EXCEPT ![d] = Running(d, "cycle", NoKey)]
      /\ UNCHANGED << world, crossed, remote, published >>
      /\ local' = [local EXCEPT ![d] = local[d]]
      /\ lease' \in Devices \cup {Nobody} /\ spent' = spent
  BY LocalKnown DEF BeginCycle
<1>2. store' \in [Devices -> SUBSET (1 .. MaxEdits)]
  <2>1. Document(d) \in Artifacts
    BY DEF Document, Artifacts, Documents
  <2>2. remote[Document(d)].edits \in SUBSET (1 .. MaxEdits)
    BY <2>1, LocalKnown DEF File
  <2> QED
    BY <2>2 DEF BeginCycle, KeyInvariant, TypeOK
<1>3. Starts(d, "cycle", NoKey, local[d])
  BY <1>1, <1>2, LocalKnown DEF Starts, KeyFits
<1>4. local[d].state = "enabled" => local[d].key \in Key
  BY LocalKnown DEF BeginCycle, MayCycle, MayRead, KeyFits
<1> QED
  BY <1>3, <1>4, StartKeeps, KeysAreKeys

LEMMA DiscoverKeeps ==
    ASSUME KeyInvariant, NEW d \in Devices, Discover(d) PROVE KeyInvariant'
<1> DEFINE entry ==
      IF Sealed("sealed")
      THEN [local[d] EXCEPT !.state = "no-key", !.salt = Salt(remote["sealed"].key)]
      ELSE [local[d] EXCEPT !.state = "remote-plaintext"]
<1>1. local' = [local EXCEPT ![d] = entry]
  BY DEF Discover, KeyInvariant, TypeOK
<1>2. entry \in Local /\ entry.key = local[d].key /\ entry.state # "enabled"
  <2>1. local[d] \in Local
    BY LocalKnown
  <2>2. CASE Sealed("sealed")
    <3>1. Salt(remote["sealed"].key) \in Salts
      BY <2>2, KeysAreKeys DEF Sealed
    <3> QED
      BY <2>1, <2>2, <3>1 DEF Local, States
  <2>3. CASE ~Sealed("sealed")
    BY <2>1, <2>3 DEF Local, States
  <2> QED
    BY <2>2, <2>3
<1> HIDE DEF entry
<1>3. TypeOK' /\ local'[d] = entry
  BY <1>1, <1>2 DEF KeyInvariant, TypeOK, Discover
<1>4. OperationSound(d)' /\ KeyFits(d)'
  BY <1>2, <1>3, LocalKnown DEF OperationSound, KeyFits, Discover, MayCycle, MayRead, Transitions
<1> QED
  BY <1>1, <1>2, <1>3, <1>4, LocalKnown, StateKeeps DEF Discover

LEMMA StallKeeps ==
    ASSUME KeyInvariant, NEW d \in Devices, Stall(d) PROVE KeyInvariant'
<1>1. spent' \in [edits : 0 .. MaxEdits, transitions : 0 .. world.transitions,
                  faults : 0 .. world.faults, stalls : 0 .. world.stalls]
  BY SpendTyped DEF Stall, KeyInvariant
<1>2. op' = [op EXCEPT ![d].late = TRUE] /\ op[d] \in Operation
  BY LocalKnown DEF Stall
<1>3. op'[d] \in Operation /\ op'[d].kind = op[d].kind /\ op'[d].target = op[d].target
      /\ op'[d].snap = op[d].snap /\ op'[d].proven = op[d].proven
  BY <1>2 DEF KeyInvariant, TypeOK, Operation
<1>4. \A e \in Devices : e # d => op'[e] = op[e]
  BY <1>2 DEF KeyInvariant, TypeOK
<1>5. TypeOK'
  BY <1>1, <1>2, <1>3 DEF KeyInvariant, TypeOK, Stall
<1>6. OperationSound(d)' /\ KeyFits(d)'
  BY <1>3, LocalKnown DEF OperationSound, KeyFits, Stall
<1> QED
  BY <1>3, <1>4, <1>5, <1>6, LocalKnown, StateKeeps DEF Stall
-----------------------------------------------------------------------------
(* The theorems.                                                            *)

LEMMA InitKeeps == Init => KeyInvariant
<1> SUFFICES ASSUME Init PROVE KeyInvariant
  OBVIOUS
<1>1. world.key \in Key \cup {Clear}
  BY DEF Init
<1>2. SaltsTellKeys
  <2>1. ASSUME NEW k \in Key, Known(k) PROVE k = world.key
    <3>1. CASE \E n \in Artifacts : remote[n].key = k
      BY <2>1, <3>1, NoneTyped, KeysAreKeys DEF Init
    <3>2. CASE \E d \in Devices : local[d].key = k
      BY <2>1, <3>2, KeysAreKeys DEF Init
    <3>3. CASE \E d \in Devices : op[d].target = k
      BY <2>1, <3>3, IdleTyped, KeysAreKeys DEF Init
    <3>4. CASE \E d \in Devices, n \in Artifacts : op[d].snap[n].key = k
      BY <2>1, <3>4, IdleTyped, KeysAreKeys DEF Init
    <3> QED
      BY <2>1, <3>1, <3>2, <3>3, <3>4 DEF Known
  <2> QED
    BY <2>1 DEF SaltsTellKeys
<1>3. AttachmentStays
  BY <1>1, KeysAreKeys DEF Init, AttachmentStays, Artifacts, Documents
<1>4. ASSUME NEW d \in Devices PROVE OperationSound(d) /\ KeyFits(d)
  BY <1>1, IdleTyped DEF Init, OperationSound, KeyFits, Transitions
<1> QED
  BY <1>2, <1>3, <1>4, InitTyped DEF KeyInvariant

LEMMA NextKeeps == KeyInvariant /\ [Next]_vars => KeyInvariant'
<1> SUFFICES ASSUME KeyInvariant, [Next]_vars PROVE KeyInvariant'
  OBVIOUS
<1>1. CASE UNCHANGED vars
  BY <1>1 DEF vars, KeyInvariant, TypeOK, SaltsTellKeys, Known, AttachmentStays,
              OperationSound, KeyFits
<1>2. ASSUME NEW d \in Devices, Step(d) PROVE KeyInvariant'
  BY <1>2, StartJournalKeeps, RewriteKeeps, CreateTargetKeeps, RemoveSourceKeeps,
     ProveKeeps, CommitKeeps, GiveUpKeeps, UploadKeeps, EndCycleKeeps DEF Step
<1>3. ASSUME NEW d \in Devices, Choice(d) PROVE KeyInvariant'
  BY <1>3, DisableKeeps, ProvideNothingKeeps, EnableKeeps, ProvideKeeps, ChangeKeeps
     DEF Choice
<1>4. ASSUME NEW d \in Devices,
             Edit(d) \/ BeginCycle(d) \/ Discover(d) \/ Crash(d) \/ CrashInCommit(d) \/ Stall(d)
      PROVE  KeyInvariant'
  BY <1>4, EditKeeps, BeginCycleKeeps, DiscoverKeeps, CrashKeeps, CrashInCommitKeeps,
     StallKeeps
<1> QED
  BY <1>1, <1>2, <1>3, <1>4 DEF Next

(* What the invariant says of the keys a device syncs with.                 *)
LEMMA KeyMatches == KeyInvariant => KeyMatchesSalt
<1> SUFFICES ASSUME KeyInvariant, NEW d \in Devices,
                    local[d].state = "enabled", local[d].journal = "none"
             PROVE  /\ local[d].key \in Key /\ Salt(local[d].key) = local[d].salt
                    /\ \A n \in Artifacts : Sealed(n) /\ Salt(remote[n].key) = local[d].salt
                                              => remote[n].key = local[d].key
  BY DEF KeyMatchesSalt
<1>1. local[d].key \in Key /\ Salt(local[d].key) = local[d].salt
  BY LocalKnown DEF KeyFits
<1>2. ASSUME NEW n \in Artifacts, Sealed(n), Salt(remote[n].key) = local[d].salt
      PROVE  remote[n].key = local[d].key
  <2>1. Known(remote[n].key) /\ Known(local[d].key)
    BY DEF Known
  <2> QED
    BY <1>1, <1>2, <2>1 DEF KeyInvariant, SaltsTellKeys, Sealed
<1> QED
  BY <1>1, <1>2

(* Every behaviour stays within the types.                                  *)
THEOREM EncryptionTypeCorrect == Spec => []TypeOK
<1>1. KeyInvariant => TypeOK
  BY DEF KeyInvariant
<1> QED
  BY <1>1, InitKeeps, NextKeeps, PTL DEF Spec

(* A device that syncs with encryption on holds the key its salt stands     *)
(* for, and can open whatever on the remote bears that salt, through every  *)
(* interleaving of transitions, cycles, crashes and stalled leases.         *)
THEOREM EncryptionKeyMatchesSalt == Spec => []KeyMatchesSalt
BY KeyMatches, InitKeeps, NextKeeps, PTL DEF Spec

-----------------------------------------------------------------------------
(* Nothing is lost, every mixture is owed by a journal, and a commit claims *)
(* no more than there is, until two opposite transitions cross.             *)

(* What a running operation knows: the versions that are still current are  *)
(* of what it read or wrote last.                                           *)
SnapFits(d) ==
    op[d].kind # "idle" => \A n \in Artifacts \ op[d].stale : op[d].snap[n] = remote[n]

CycleKnows(d) ==
    op[d].kind = "cycle" =>
        /\ local[d].state \in {"off", "enabled"}
        /\ op[d].snap[Document(d)].edits \subseteq store[d]

TransitionKnows(d) ==
    /\ op[d].proven /\ op[d].kind \in Transitions => ~Pending(d)
    /\ op[d].kind = "change" => op[d].snap["plain"].key = Absent
    /\ op[d].kind = "provide" => local[d].journal = "none"

(* A cycle does not change the key of the document it uploads.              *)
UploadKey(d) == IF Enabled(d) THEN local[d].key ELSE Clear

CycleFits(d) == op[d].kind = "cycle" => op[d].snap[Document(d)].key = UploadKey(d)

(* The document a transition moves to never loses what it held when the     *)
(* device last knew it.                                                     *)
TargetKept(d) ==
    op[d].kind \in {"enable", "disable"} =>
        /\ op[d].snap[Target(d)].edits \subseteq remote[Target(d)].edits
        /\ op[d].snap[Target(d)].key # Absent => remote[Target(d)].key # Absent

(* A device with a journal that has not proven its work: it cannot close    *)
(* the journal from here.                                                   *)
Owing(d) == local[d].journal # "none" /\ ~op[d].proven

AllAt(k) == \A n \in Artifacts : remote[n].key \in {Absent, k}
Whole == \E k \in Key \cup {Clear} : AllAt(k)

CommitHolds(d) ==
    op[d].proven /\ op[d].kind \in Transitions /\ lease = d =>
        AllAt(op[d].target) \/ \E e \in Devices \ {d} : Owing(e)

DeviceSound(d) ==
    /\ SnapFits(d) /\ CycleKnows(d) /\ TransitionKnows(d)
    /\ ~crossed => CycleFits(d) /\ TargetKept(d) /\ CommitHolds(d)

NamesFit ==
    /\ remote["plain"].key \in {Clear, Absent}
    /\ remote["sealed"].key \in Key \cup {Absent}
    /\ \A n \in Artifacts : remote[n].key = Absent => remote[n].edits = {}

Kept == \A i \in published : \E n \in Documents : i \in remote[n].edits
DocumentRemains == \E n \in Documents : remote[n].key # Absent
Owed == Whole \/ \E d \in Devices : Owing(d)

TransitionInvariant ==
    /\ KeyInvariant
    /\ NamesFit
    /\ \A d \in Devices : DeviceSound(d)
    /\ ~crossed => Kept /\ DocumentRemains /\ Owed

LEMMA NamesDiffer ==
    /\ Artifacts = {"plain", "sealed", "attachment"} /\ Documents = {"plain", "sealed"}
    /\ \A d : Source(d) \in Documents /\ Target(d) \in Documents /\ Source(d) # Target(d)
    /\ \A d : Document(d) \in Documents
BY DEF Artifacts, Documents, Source, Target, Document

(* A step that leaves the remote alone disturbs nothing but the device that *)
(* takes it, and the journal it may close.                                  *)
LEMMA QuietKeeps ==
    ASSUME TransitionInvariant, KeyInvariant', NEW d \in Devices,
           UNCHANGED << remote, published, crossed >>,
           \A e \in Devices \ {d} :
               /\ op'[e] = op[e] /\ local'[e] = local[e] /\ store'[e] = store[e]
               /\ lease' = e => lease = e,
           DeviceSound(d)',
           ~crossed /\ Owing(d) => Owing(d)' \/ (Whole /\ lease' \notin Devices \ {d})
    PROVE  TransitionInvariant'
<1>1. NamesFit' /\ (Kept => Kept') /\ (DocumentRemains => DocumentRemains') /\ (Whole <=> Whole')
  <2>1. NamesFit'
    BY DEF TransitionInvariant, NamesFit
  <2>2. Kept => Kept'
    BY DEF Kept
  <2>3. DocumentRemains => DocumentRemains'
    BY DEF DocumentRemains
  <2>4. Whole <=> Whole'
    BY DEF Whole, AllAt
  <2> QED
    BY <2>1, <2>2, <2>3, <2>4
<1>2. \A e \in Devices \ {d} : Owing(e) => Owing(e)'
  BY DEF Owing
<1>3. ~crossed => Owed'
  BY <1>1, <1>2 DEF TransitionInvariant, Owed
<1>4. ASSUME NEW e \in Devices \ {d} PROVE DeviceSound(e)'
  <2>1. DeviceSound(e) /\ op'[e] = op[e] /\ local'[e] = local[e] /\ store'[e] = store[e]
    BY <1>4 DEF TransitionInvariant
  <2>2. /\ Document(e)' = Document(e) /\ UploadKey(e)' = UploadKey(e)
        /\ Target(e)' = Target(e) /\ (Pending(e)' <=> Pending(e))
    BY <2>1 DEF Document, UploadKey, Enabled, Target, Pending, InPlace, ToMove, Source
  <2>3. SnapFits(e)' /\ CycleKnows(e)' /\ TransitionKnows(e)'
    <3>1. SnapFits(e)'
      BY <2>1 DEF DeviceSound, SnapFits
    <3>2. CycleKnows(e)'
      BY <2>1, <2>2 DEF DeviceSound, CycleKnows
    <3>3. TransitionKnows(e)'
      BY <2>1, <2>2 DEF DeviceSound, TransitionKnows
    <3> QED
      BY <3>1, <3>2, <3>3
  <2>4. ASSUME ~crossed PROVE CycleFits(e)' /\ TargetKept(e)' /\ CommitHolds(e)'
    <3>1. CycleFits(e)'
      BY <2>1, <2>2, <2>4 DEF DeviceSound, CycleFits
    <3>2. TargetKept(e)'
      BY <2>1, <2>2, <2>4 DEF DeviceSound, TargetKept
    <3>3. CommitHolds(e)'
      <4>1. SUFFICES ASSUME op[e].proven, op[e].kind \in Transitions, lease' = e
                     PROVE  AllAt(op[e].target) \/ \E f \in Devices \ {e} : Owing(f)'
        BY <2>1 DEF CommitHolds, AllAt
      <4>2. AllAt(op[e].target) \/ \E f \in Devices \ {e} : Owing(f)
        BY <1>4, <2>1, <2>4, <4>1 DEF DeviceSound, CommitHolds
      <4>3. Owing(d) => Owing(d)'
        BY <1>4, <2>4, <4>1
      <4> QED
        BY <1>2, <4>2, <4>3
    <3> QED
      BY <3>1, <3>2, <3>3
  <2> QED
    BY <2>3, <2>4 DEF DeviceSound
<1> QED
  BY <1>1, <1>3, <1>4 DEF TransitionInvariant

(* What the invariant says of one device.                                   *)
LEMMA DeviceKnown ==
    ASSUME TransitionInvariant, NEW d \in Devices
    PROVE  /\ KeyInvariant /\ NamesFit /\ DeviceSound(d)
           /\ SnapFits(d) /\ CycleKnows(d) /\ TransitionKnows(d)
           /\ ~crossed => /\ CycleFits(d) /\ TargetKept(d) /\ CommitHolds(d)
                          /\ Kept /\ DocumentRemains /\ Owed
           /\ op \in [Devices -> Operation] /\ local \in [Devices -> Local]
           /\ store \in [Devices -> SUBSET (1 .. MaxEdits)]
           /\ lease \in Devices \cup {Nobody} /\ crossed \in BOOLEAN
BY DEF TransitionInvariant, DeviceSound, KeyInvariant, TypeOK

(* A device without an operation.                                           *)
LEMMA IdleIsSound ==
    ASSUME NEW d \in Devices, op'[d] = Idle PROVE DeviceSound(d)'
<1>1. op'[d].kind = "idle" /\ ~op'[d].proven
  BY IdleTyped
<1> QED
  BY <1>1 DEF DeviceSound, SnapFits, CycleKnows, TransitionKnows, CycleFits, TargetKept,
             CommitHolds, Transitions

(* Operations that a device has not written with only get older.            *)
LEMMA WrittenAges ==
    ASSUME KeyInvariant, NEW d \in Devices, NEW n \in Artifacts, NEW file \in File,
           Written(d, n, file), op[d].kind # "idle"
    PROVE  /\ op'[d].stale = op[d].stale /\ op'[d].kind # "idle"
           /\ \A e \in Devices \ {d} : op[e].kind # "idle" => op'[e].stale = op[e].stale \cup {n}
           /\ remote'[n] = file /\ \A m \in Artifacts \ {n} : remote'[m] = remote[m]
           /\ op'[d].snap[n] = file /\ \A m \in Artifacts \ {n} : op'[d].snap[m] = op[d].snap[m]
<1>1. op \in [Devices -> Operation] /\ remote \in [Artifacts -> File]
  BY DEF KeyInvariant, TypeOK
<1>2. op[d] \in Operation /\ op[d].snap \in [Artifacts -> File]
  BY <1>1 DEF Operation
<1>3. /\ op'[d].kind = op[d].kind /\ op'[d].snap = [op[d].snap EXCEPT ![n] = file]
      /\ remote' = [remote EXCEPT ![n] = file]
  BY <1>1, WrittenTyped
<1>4. op'[d].stale = op[d].stale
  <2> DEFINE snap == [op[d].snap EXCEPT ![n] = file]
  <2>1. op'[d] = [op[d] EXCEPT !.snap = snap, !.late = FALSE]
    BY <1>2 DEF Written, Operation
  <2> HIDE DEF snap
  <2> QED
    BY <1>2, <2>1 DEF Operation
<1>5. ASSUME NEW e \in Devices \ {d}, op[e].kind # "idle"
      PROVE  op'[e].stale = op[e].stale \cup {n}
  <2>1. op'[e] = [op[e] EXCEPT !.stale = @ \cup {n}] /\ op[e] \in Operation
    BY <1>1, <1>5 DEF Written
  <2> QED
    BY <2>1 DEF Operation
<1> QED
  BY <1>1, <1>2, <1>3, <1>4, <1>5

(* A write of an artifact by the operation that has its current version.    *)
LEMMA WriteIsSafe ==
    ASSUME TransitionInvariant, KeyInvariant', NEW d \in Devices, NEW n \in Artifacts,
           NEW file \in File, Written(d, n, file), op[d].kind # "idle",
           UNCHANGED << local, store, lease >>, crossed => crossed',
           n = "plain" => file.key \in {Clear, Absent},
           n = "sealed" => file.key \in Key \cup {Absent},
           file.key = Absent => file.edits = {},
           op[d].kind = "cycle" =>
               n = Document(d) /\ file.edits \subseteq store[d] /\ file.key = UploadKey(d),
           op[d].kind = "change" => n # "plain",
           ~op[d].proven,
           ~crossed' => Kept' /\ DocumentRemains'
                            /\ (Owing(d) \/ file.key = remote[n].key),
           ~crossed' => \A e \in Devices \ {d} :
               op[e].kind \in {"enable", "disable"} /\ Target(e) = n =>
                   remote[n].edits \subseteq file.edits /\ file.key # Absent
    PROVE  TransitionInvariant'
<1>1. KeyInvariant /\ op \in [Devices -> Operation] /\ remote \in [Artifacts -> File]
  BY DEF TransitionInvariant, KeyInvariant, TypeOK
<1>2. /\ \A e \in Devices : /\ op'[e].kind = op[e].kind
                            /\ op'[e].target = op[e].target
                            /\ op'[e].proven = op[e].proven
                            /\ e # d => op'[e].snap = op[e].snap
      /\ op'[d].snap = [op[d].snap EXCEPT ![n] = file]
  BY <1>1, WrittenTyped
<1>3. /\ op'[d].stale = op[d].stale
      /\ \A e \in Devices \ {d} : op[e].kind # "idle" => op'[e].stale = op[e].stale \cup {n}
      /\ remote'[n] = file /\ \A m \in Artifacts \ {n} : remote'[m] = remote[m]
      /\ op'[d].snap[n] = file /\ \A m \in Artifacts \ {n} : op'[d].snap[m] = op[d].snap[m]
  BY <1>1, WrittenAges
<1>4. /\ \A e \in Devices : /\ Document(e)' = Document(e) /\ UploadKey(e)' = UploadKey(e)
                            /\ Target(e)' = Target(e) /\ (Owing(e)' <=> Owing(e))
      /\ \A e \in Devices \ {d} : Pending(e)' <=> Pending(e)
  BY <1>2 DEF Document, UploadKey, Enabled, Target, Pending, InPlace, ToMove, Source, Owing
<1>5. NamesFit'
  BY <1>3, NamesDiffer DEF NamesFit, TransitionInvariant
<1>6. ASSUME ~crossed' PROVE Owed'
  <2>1. CASE Owing(d)
    BY <1>4, <2>1 DEF Owed
  <2>2. CASE file.key = remote[n].key
    <3>1. Whole => Whole'
      BY <1>3, <2>2 DEF Whole, AllAt
    <3>2. Owed
      BY <1>6 DEF TransitionInvariant
    <3> QED
      BY <1>4, <3>1, <3>2 DEF Owed
  <2> QED
    BY <1>6, <2>1, <2>2
<1>7. ASSUME NEW e \in Devices
      PROVE  SnapFits(e)' /\ CycleKnows(e)' /\ TransitionKnows(e)'
  <2>1. SnapFits(e) /\ CycleKnows(e) /\ TransitionKnows(e)
    BY DeviceKnown
  <2>2. SnapFits(e)'
    <3>1. CASE e = d
      <4> SUFFICES ASSUME op'[d].kind # "idle", NEW m \in Artifacts, m \notin op'[d].stale
                   PROVE  op'[d].snap[m] = remote'[m]
        BY <3>1 DEF SnapFits
      <4>1. op[d].kind # "idle" /\ m \notin op[d].stale
        BY <1>2, <1>3
      <4>2. op[d].snap[m] = remote[m]
        BY <2>1, <3>1, <4>1 DEF SnapFits
      <4>3. CASE m = n
        BY <1>3, <4>3
      <4>4. CASE m # n
        BY <1>3, <4>2, <4>4
      <4> QED
        BY <4>3, <4>4
    <3>2. CASE e # d
      BY <1>2, <1>3, <2>1, <3>2 DEF SnapFits
    <3> QED
      BY <3>1, <3>2
  <2>3. CycleKnows(e)'
    <3>1. CASE e = d
      <4>1. CycleKnows(d)'
        BY <1>2, <1>3, <1>4, <2>1, <3>1 DEF CycleKnows
      <4> QED
        BY <3>1, <4>1
    <3>2. CASE e # d
      BY <1>2, <1>4, <2>1, <3>2 DEF CycleKnows
    <3> QED
      BY <3>1, <3>2
  <2>4. TransitionKnows(e)'
    <3>1. CASE e = d
      BY <1>2, <1>3, <2>1, <3>1, NamesDiffer DEF TransitionKnows
    <3>2. CASE e # d
      BY <1>2, <1>4, <2>1, <3>2 DEF TransitionKnows
    <3> QED
      BY <3>1, <3>2
  <2> QED
    BY <2>2, <2>3, <2>4
<1>8. ASSUME NEW e \in Devices, ~crossed'
      PROVE  CycleFits(e)' /\ TargetKept(e)' /\ CommitHolds(e)'
  <2>1. CycleFits(e) /\ TargetKept(e) /\ CommitHolds(e) /\ SnapFits(e)
    BY <1>8, DeviceKnown
  <2>2. CycleFits(e)'
    <3>1. CASE e = d
      <4>1. CycleFits(d)'
        BY <1>2, <1>3, <1>4 DEF CycleFits
      <4> QED
        BY <3>1, <4>1
    <3>2. CASE e # d
      BY <1>2, <1>4, <2>1, <3>2 DEF CycleFits
    <3> QED
      BY <3>1, <3>2
  <2>3. TargetKept(e)'
    <3>1. Target(e) \in Artifacts
      BY NamesDiffer
    <3>2. CASE e = d
      <4>1. Target(d) \in Artifacts /\ TargetKept(d)
        BY <2>1, <3>1, <3>2
      <4>2. TargetKept(d)'
        BY <1>2, <1>3, <1>4, <4>1 DEF TargetKept
      <4> QED
        BY <3>2, <4>2
    <3>3. CASE e # d /\ Target(e) = n
      BY <1>2, <1>3, <1>4, <1>8, <2>1, <3>1, <3>3 DEF TargetKept
    <3>4. CASE e # d /\ Target(e) # n
      BY <1>2, <1>3, <1>4, <2>1, <3>1, <3>4 DEF TargetKept
    <3> QED
      BY <3>2, <3>3, <3>4
  <2>4. CommitHolds(e)'
    <3>1. CASE e = d
      BY <1>2, <3>1 DEF CommitHolds
    <3>2. CASE e # d /\ Owing(d)
      BY <1>4, <3>2 DEF CommitHolds
    <3>3. CASE e # d /\ file.key = remote[n].key
      <4>1. \A k : AllAt(k) => AllAt(k)'
        BY <1>3, <3>3 DEF AllAt
      <4> QED
        BY <1>2, <1>4, <2>1, <4>1 DEF CommitHolds, AllAt
    <3> QED
      BY <1>8, <3>1, <3>2, <3>3
  <2> QED
    BY <2>2, <2>3, <2>4
<1> QED
  BY <1>5, <1>6, <1>7, <1>8 DEF TransitionInvariant, DeviceSound

-----------------------------------------------------------------------------
(* The writes.                                                              *)

(* A request that is not refused finds what the operation knows.            *)
LEMMA CurrentIsKnown ==
    ASSUME TransitionInvariant, NEW d \in Devices, NEW n \in Artifacts,
           op[d].kind # "idle", Current(d, n)
    PROVE  n \notin op[d].stale /\ op[d].snap[n] = remote[n]
<1>1. n \in Artifacts \ op[d].stale
  BY DEF Current
<1> QED
  BY <1>1, DeviceKnown DEF SnapFits

(* A transition that has something left to do owes it.                      *)
LEMMA PendingIsOwing ==
    ASSUME TransitionInvariant, NEW d \in Devices, Journaled(d), Pending(d)
    PROVE  Owing(d) /\ op[d].kind \in Transitions /\ op[d].kind # "idle" /\ ~op[d].proven
BY DeviceKnown DEF Journaled, TransitionKnows, Owing, Transitions

(* A document that grows loses nothing.                                     *)
LEMMA GrowthKeeps ==
    ASSUME remote \in [Artifacts -> File], NEW n \in Artifacts, NEW file \in File,
           remote' = [remote EXCEPT ![n] = file], file.key # Absent,
           remote[n].edits \subseteq file.edits
    PROVE  /\ DocumentRemains => DocumentRemains'
           /\ Kept /\ published' = published => Kept'
           /\ Kept /\ n \in Documents /\ published' = published \cup file.edits => Kept'
<1>1. remote'[n] = file /\ \A m \in Artifacts \ {n} : remote'[m] = remote[m]
  OBVIOUS
<1>2. \A m \in Artifacts : remote[m].edits \subseteq remote'[m].edits
  BY <1>1
<1>3. DocumentRemains => DocumentRemains'
  BY <1>1, NamesDiffer DEF DocumentRemains
<1>4. Kept /\ published' = published => Kept'
  BY <1>2, NamesDiffer DEF Kept
<1>5. Kept /\ n \in Documents /\ published' = published \cup file.edits => Kept'
  BY <1>1, <1>2, NamesDiffer DEF Kept
<1> QED
  BY <1>3, <1>4, <1>5

LEMMA RewriteIsSafe ==
    ASSUME TransitionInvariant, NEW d \in Devices, Rewrite(d) PROVE TransitionInvariant'
<1>1. PICK n \in InPlace(d) :
          Current(d, n) /\ Written(d, n, [op[d].snap[n] EXCEPT !.key = op[d].target])
  BY DEF Rewrite
<1>2. Owing(d) /\ op[d].kind \in Transitions /\ op[d].kind # "idle" /\ ~op[d].proven
  BY <1>1, PendingIsOwing DEF Rewrite, Pending
<1>3. n \in {"attachment", "sealed"} /\ (n = "sealed" => op[d].kind \in {"enable", "change"})
  BY <1>1, <1>2 DEF InPlace, Transitions
<1>4. n \in Artifacts /\ op[d].snap[n] = remote[n]
  BY <1>1, <1>2, <1>3, CurrentIsKnown, NamesDiffer
<1>5. KeyInvariant /\ remote[n] \in File /\ OperationSound(d)
  BY <1>4, DeviceKnown, LocalKnown
<1>6. op[d].target \in Key \cup {Clear} /\ (n = "sealed" => op[d].target \in Key)
  BY <1>2, <1>3, <1>5 DEF OperationSound, Transitions
<1> DEFINE file == [remote[n] EXCEPT !.key = op[d].target]
<1>7. file \in File /\ file.key = op[d].target /\ file.edits = remote[n].edits
  BY <1>5, <1>6 DEF File
<1>8. file.key # Absent
  BY <1>6, <1>7, KeysAreKeys
<1>9. Written(d, n, file)
  BY <1>1, <1>4
<1> HIDE DEF file
<1>10. KeyInvariant'
  BY <1>5, RewriteKeeps
<1>11. remote \in [Artifacts -> File] /\ remote' = [remote EXCEPT ![n] = file]
  BY <1>5, <1>9, LocalKnown DEF Written
<1>12. UNCHANGED << local, store, lease, crossed, published >>
  BY DEF Rewrite
<1>13. ~crossed' => Kept' /\ DocumentRemains'
  BY <1>4, <1>7, <1>8, <1>11, <1>12, GrowthKeeps, DeviceKnown
<1>14. op[d].kind # "cycle" /\ n # "plain"
  BY <1>2, <1>3 DEF Transitions
<1>15. n = "sealed" => file.key \in Key \cup {Absent}
  BY <1>6, <1>7
<1> QED
  BY <1>2, <1>4, <1>7, <1>8, <1>9, <1>10, <1>12, <1>13, <1>14, <1>15, WriteIsSafe

LEMMA CreateTargetIsSafe ==
    ASSUME TransitionInvariant, NEW d \in Devices, CreateTarget(d) PROVE TransitionInvariant'
<1> DEFINE n == Target(d)
<1> DEFINE file == [op[d].snap[Source(d)] EXCEPT !.key = op[d].target]
<1>1. Owing(d) /\ op[d].kind \in {"enable", "disable"} /\ op[d].kind # "idle" /\ ~op[d].proven
  BY PendingIsOwing DEF CreateTarget, Pending, ToMove
<1>2. n \in Documents /\ n \in Artifacts /\ Source(d) \in Artifacts
  BY NamesDiffer
<1>3. KeyInvariant /\ NamesFit /\ OperationSound(d) /\ op[d].snap \in [Artifacts -> File]
  BY DeviceKnown, LocalKnown
<1>4. op[d].snap[n] = remote[n] /\ remote[n].key = Absent
  BY <1>1, <1>2, CurrentIsKnown DEF CreateTarget
<1>5. remote[n].edits = {}
  BY <1>2, <1>3, <1>4 DEF NamesFit
<1>6. /\ op[d].kind = "enable" => n = "sealed" /\ op[d].target \in Key
      /\ op[d].kind = "disable" => n = "plain" /\ op[d].target = Clear
  BY <1>3 DEF OperationSound, Target
<1>7. file \in File /\ file.key = op[d].target
  BY <1>1, <1>2, <1>3, <1>6 DEF File
<1>8. file.key # Absent
  BY <1>1, <1>6, <1>7, KeysAreKeys
<1>9. Written(d, n, file) /\ UNCHANGED << local, store, lease, crossed, published >>
  BY DEF CreateTarget
<1> HIDE DEF file, n
<1>10. KeyInvariant'
  BY <1>3, CreateTargetKeeps
<1>11. remote \in [Artifacts -> File] /\ remote' = [remote EXCEPT ![n] = file]
  BY <1>3, <1>9, LocalKnown DEF Written
<1>12. ~crossed' => Kept' /\ DocumentRemains'
  BY <1>2, <1>5, <1>8, <1>7, <1>9, <1>11, GrowthKeeps, DeviceKnown
<1>13. /\ n = "plain" => file.key \in {Clear, Absent}
       /\ n = "sealed" => file.key \in Key \cup {Absent}
  BY <1>1, <1>6, <1>7
<1> QED
  BY <1>1, <1>2, <1>5, <1>7, <1>8, <1>9, <1>10, <1>12, <1>13, WriteIsSafe

LEMMA RemoveSourceIsSafe ==
    ASSUME TransitionInvariant, NEW d \in Devices, RemoveSource(d) PROVE TransitionInvariant'
<1> DEFINE n == Source(d)
<1>1. Owing(d) /\ op[d].kind \in {"enable", "disable"} /\ op[d].kind # "idle" /\ ~op[d].proven
  BY PendingIsOwing DEF RemoveSource, Pending, ToMove
<1>2. /\ Documents = {n, Target(d)} /\ n # Target(d)
      /\ n \in Artifacts /\ Target(d) \in Artifacts
  BY NamesDiffer DEF Source, Target
<1>3. KeyInvariant /\ OperationSound(d) /\ remote \in [Artifacts -> File]
  BY DeviceKnown, LocalKnown
<1>4. op[d].snap[n] = remote[n]
  BY <1>1, <1>2, CurrentIsKnown DEF RemoveSource
<1>5. Written(d, n, None) /\ UNCHANGED << local, store, lease, published >>
      /\ crossed' = (crossed \/ Crossing(d))
  BY DEF RemoveSource
<1>6. None \in File /\ None.key = Absent /\ None.edits = {}
  BY NoneTyped DEF None
<1>7. remote'[n] = None /\ remote'[Target(d)] = remote[Target(d)]
  BY <1>2, <1>3, <1>5 DEF Written
<1>8. ASSUME ~crossed' PROVE Kept' /\ DocumentRemains'
  <2>1. TargetKept(d) /\ Kept
    BY <1>5, <1>8, DeviceKnown
  <2>2. op[d].target # Absent
    BY <1>1, <1>3, KeysAreKeys DEF OperationSound
  <2>3. /\ remote[n].edits \subseteq remote[Target(d)].edits
        /\ remote[Target(d)].key # Absent
    BY <1>1, <1>4, <2>1, <2>2 DEF TargetKept, RemoveSource, Moved
  <2>4. Kept'
    BY <1>2, <1>5, <1>7, <2>1, <2>3 DEF Kept
  <2>5. DocumentRemains'
    BY <1>2, <1>7, <2>3 DEF DocumentRemains
  <2> QED
    BY <2>4, <2>5
<1>9. ~crossed' => \A e \in Devices \ {d} :
          ~(op[e].kind \in {"enable", "disable"} /\ Target(e) = n)
  BY <1>5 DEF Crossing
<1> HIDE DEF n
<1>10. KeyInvariant'
  BY <1>3, RemoveSourceKeeps
<1>11. op[d].kind # "cycle" /\ op[d].kind # "change"
  BY <1>1
<1>12. crossed => crossed'
  BY <1>5
<1> HIDE DEF Owing
<1> QED
  BY <1>1, <1>2, <1>5, <1>6, <1>8, <1>9, <1>10, <1>11, <1>12, WriteIsSafe

LEMMA UploadIsSafe ==
    ASSUME TransitionInvariant, NEW d \in Devices, Upload(d) PROVE TransitionInvariant'
<1> DEFINE n == Document(d)
<1> DEFINE file == [key |-> UploadKey(d), edits |-> store[d]]
<1>1. n \in Documents /\ n \in Artifacts /\ op[d].kind = "cycle" /\ op[d].kind # "idle"
  BY NamesDiffer DEF Upload
<1>2. KeyInvariant /\ OperationSound(d) /\ CycleKnows(d) /\ remote \in [Artifacts -> File]
      /\ store[d] \in SUBSET (1 .. MaxEdits)
  BY DeviceKnown, LocalKnown
<1>3. op[d].snap[n] = remote[n]
  BY <1>1, CurrentIsKnown DEF Upload
<1>4. remote[n].edits \subseteq store[d]
  BY <1>1, <1>2, <1>3 DEF CycleKnows
<1>5. /\ UploadKey(d) \in Key \cup {Clear} /\ UploadKey(d) # Absent
      /\ n = "plain" => UploadKey(d) = Clear
      /\ n = "sealed" => UploadKey(d) \in Key
  BY <1>1, <1>2, KeysAreKeys DEF UploadKey, Enabled, Document, OperationSound
<1>6. file \in File /\ file.key = UploadKey(d) /\ file.edits = store[d]
  BY <1>2, <1>5 DEF File
<1>7. Written(d, n, file) /\ UNCHANGED << local, store, lease, crossed >>
      /\ published' = published \cup file.edits
  BY DEF Upload, UploadKey
<1>8. ~op[d].proven
  BY <1>1, <1>2 DEF OperationSound, Transitions
<1>9. ~crossed => file.key = remote[n].key
  BY <1>1, <1>3, <1>6, DeviceKnown DEF CycleFits
<1> HIDE DEF file, n
<1>10. KeyInvariant'
  BY <1>2, UploadKeeps
<1>11. remote' = [remote EXCEPT ![n] = file]
  BY <1>7 DEF Written
<1>12. ~crossed' => Kept' /\ DocumentRemains'
  BY <1>1, <1>2, <1>4, <1>5, <1>6, <1>7, <1>11, GrowthKeeps, DeviceKnown
<1>13. op[d].kind # "change" /\ n = Document(d)
  BY <1>1 DEF n
<1>14. ASSUME NEW e \in Devices \ {d}
       PROVE  remote[n].edits \subseteq file.edits /\ file.key # Absent
  BY <1>4, <1>5, <1>6
<1>15. /\ n = "plain" => file.key \in {Clear, Absent}
       /\ n = "sealed" => file.key \in Key \cup {Absent}
       /\ file.key = Absent => file.edits = {}
       /\ file.edits \subseteq store[d] /\ file.key = UploadKey(d)
  BY <1>5, <1>6
<1> QED
  BY <1>1, <1>6, <1>7, <1>8, <1>9, <1>10, <1>12, <1>13, <1>14, <1>15, WriteIsSafe

-----------------------------------------------------------------------------
(* The other steps of a running operation.                                  *)

LEMMA StartJournalIsSafe ==
    ASSUME TransitionInvariant, NEW d \in Devices, StartJournal(d) PROVE TransitionInvariant'
<1>1. KeyInvariant /\ op[d] \in Operation /\ local[d] \in Local
      /\ op \in [Devices -> Operation] /\ local \in [Devices -> Local]
  BY DeviceKnown, LocalKnown
<1>2. op' = [op EXCEPT ![d].late = FALSE] /\ local' = [local EXCEPT ![d].journal = op[d].kind]
      /\ UNCHANGED << remote, published, crossed, lease, store >>
  BY DEF StartJournal
<1>3. /\ op'[d].kind = op[d].kind /\ op'[d].snap = op[d].snap /\ op'[d].stale = op[d].stale
      /\ op'[d].proven = op[d].proven /\ op'[d].target = op[d].target
  BY <1>1, <1>2 DEF Operation
<1>4. op[d].kind \in Transitions /\ ~op[d].proven /\ ~Owing(d)
  BY DeviceKnown DEF StartJournal, TransitionKnows, Owing
<1>5. \A e \in Devices \ {d} : op'[e] = op[e] /\ local'[e] = local[e]
  BY <1>1, <1>2
<1>6. Target(d)' = Target(d)
  BY <1>3 DEF Target
<1>7. SnapFits(d)'
  BY <1>2, <1>3, DeviceKnown DEF SnapFits
<1>8. CycleKnows(d)' /\ CycleFits(d)' /\ TransitionKnows(d)' /\ CommitHolds(d)'
  BY <1>3, <1>4, DeviceKnown DEF CycleKnows, CycleFits, TransitionKnows, CommitHolds, Transitions
<1>9. ~crossed' => TargetKept(d)'
  BY <1>2, <1>3, <1>6, DeviceKnown DEF TargetKept
<1>10. DeviceSound(d)'
  BY <1>7, <1>8, <1>9 DEF DeviceSound
<1> QED
  BY <1>1, <1>2, <1>4, <1>5, <1>10, StartJournalKeeps, QuietKeeps

(* With nothing stale and nothing left to do, all of the remote is at the   *)
(* transition's target.                                                     *)
LEMMA ProvenIsWhole ==
    ASSUME TransitionInvariant, NEW d \in Devices, op[d].kind \in Transitions,
           ~Pending(d), Unchanged(d)
    PROVE  op[d].target \in Key \cup {Clear} /\ AllAt(op[d].target)
<1>1. KeyInvariant /\ OperationSound(d) /\ NamesFit /\ SnapFits(d) /\ TransitionKnows(d)
  BY DeviceKnown, LocalKnown
<1>2. op[d].target \in Key \cup {Clear}
  BY <1>1 DEF OperationSound, Transitions
<1>3. \A n \in Artifacts : op[d].snap[n] = remote[n]
  BY <1>1 DEF SnapFits, Unchanged, Transitions
<1>4. InPlace(d) = {} /\ ~ToMove(d)
  BY DEF Pending
<1>5. CASE op[d].kind = "enable"
  <2>1. InPlace(d) = {n \in {"attachment", "sealed"} :
                         op[d].snap[n].key \notin {Absent, op[d].target}}
    BY <1>5 DEF InPlace
  <2>2. op[d].snap["plain"].key = Absent
    BY <1>4, <1>5 DEF ToMove, Source
  <2> QED
    BY <1>2, <1>3, <1>4, <2>1, <2>2, NamesDiffer DEF AllAt
<1>6. CASE op[d].kind = "change"
  <2>1. InPlace(d) = {n \in {"attachment", "sealed"} :
                         op[d].snap[n].key \notin {Absent, op[d].target}}
    BY <1>6 DEF InPlace
  <2>2. op[d].snap["plain"].key = Absent
    BY <1>1, <1>6 DEF TransitionKnows
  <2> QED
    BY <1>2, <1>3, <1>4, <2>1, <2>2, NamesDiffer DEF AllAt
<1>7. CASE op[d].kind = "disable"
  <2>1. InPlace(d) = {n \in {"attachment"} : op[d].snap[n].key \notin {Absent, op[d].target}}
    BY <1>7 DEF InPlace
  <2>2. op[d].snap["sealed"].key = Absent
    BY <1>4, <1>7 DEF ToMove, Source
  <2>3. remote["plain"].key \in {Clear, Absent} /\ op[d].target = Clear
    BY <1>1, <1>7 DEF NamesFit, OperationSound
  <2> QED
    BY <1>2, <1>3, <1>4, <2>1, <2>2, <2>3, NamesDiffer DEF AllAt
<1> QED
  BY <1>5, <1>6, <1>7 DEF Transitions

LEMMA ProveIsSafe ==
    ASSUME TransitionInvariant, NEW d \in Devices, Prove(d) PROVE TransitionInvariant'
<1>1. KeyInvariant /\ op[d] \in Operation /\ op \in [Devices -> Operation]
      /\ lease \in Devices \cup {Nobody}
  BY DeviceKnown, LocalKnown
<1>2. op' = [op EXCEPT ![d].proven = TRUE] /\ lease = d
      /\ UNCHANGED << remote, published, crossed, lease, store, local >>
  BY DEF Prove
<1>3. /\ op'[d].kind = op[d].kind /\ op'[d].snap = op[d].snap /\ op'[d].stale = op[d].stale
      /\ op'[d].target = op[d].target
  BY <1>1, <1>2 DEF Operation
<1>4. \A e \in Devices \ {d} : op'[e] = op[e] /\ (lease' = e => lease = e)
  BY <1>1, <1>2
<1>5. /\ Target(d)' = Target(d) /\ (Pending(d)' <=> Pending(d)) /\ Document(d)' = Document(d)
      /\ UploadKey(d)' = UploadKey(d)
  BY <1>2, <1>3 DEF Target, Pending, InPlace, ToMove, Source, Document, UploadKey, Enabled
<1>6. SnapFits(d)'
  BY <1>2, <1>3, DeviceKnown DEF SnapFits
<1>7. op[d].kind \in Transitions => Whole /\ AllAt(op[d].target)
  BY ProvenIsWhole DEF Prove, Whole
<1>8. op[d].kind # "cycle" /\ (op[d].kind \in Transitions => ~Pending(d))
  BY DEF Prove, Transitions
<1>9. CycleKnows(d)' /\ CycleFits(d)'
  BY <1>3, <1>8 DEF CycleKnows, CycleFits
<1>10. TransitionKnows(d)'
  BY <1>2, <1>3, <1>5, <1>8, DeviceKnown DEF TransitionKnows
<1>11. ~crossed' => TargetKept(d)'
  BY <1>2, <1>3, <1>5, DeviceKnown DEF TargetKept
<1>12. CommitHolds(d)'
  BY <1>2, <1>3, <1>7 DEF CommitHolds, AllAt
<1>13. DeviceSound(d)'
  BY <1>6, <1>9, <1>10, <1>11, <1>12 DEF DeviceSound
<1>14. Owing(d) => Whole /\ lease' \notin Devices \ {d}
  BY <1>2, <1>7, DeviceKnown DEF Owing, TransitionKnows, Prove
<1> HIDE DEF Owing, Whole
<1> QED
  BY <1>1, <1>2, <1>4, <1>13, <1>14, ProveKeeps, QuietKeeps

(* A step that ends an operation, which closes a journal only when proven.  *)
LEMMA ReleaseIsSafe ==
    ASSUME TransitionInvariant, KeyInvariant', NEW d \in Devices, Release(d),
           UNCHANGED << remote, store, published, crossed >>,
           \A e \in Devices \ {d} : local'[e] = local[e],
           op[d].proven \/ local'[d] = local[d]
    PROVE  TransitionInvariant'
<1>1. op \in [Devices -> Operation] /\ lease \in Devices \cup {Nobody}
  BY DeviceKnown
<1>2. op'[d] = Idle /\ \A e \in Devices \ {d} : op'[e] = op[e] /\ (lease' = e => lease = e)
  BY <1>1 DEF Release
<1>3. DeviceSound(d)'
  BY <1>2, IdleIsSound
<1>4. Owing(d) => Owing(d)'
  BY <1>2, IdleTyped DEF Owing
<1> QED
  BY <1>2, <1>3, <1>4, QuietKeeps

LEMMA EndingIsSafe ==
    ASSUME TransitionInvariant, NEW d \in Devices,
           Commit(d) \/ CrashInCommit(d) \/ GiveUp(d) \/ EndCycle(d) \/ Crash(d)
    PROVE  TransitionInvariant'
<1>1. KeyInvariant /\ local \in [Devices -> Local]
  BY DeviceKnown
<1>2. KeyInvariant'
  BY <1>1, CommitKeeps, CrashInCommitKeeps, GiveUpKeeps, EndCycleKeeps, CrashKeeps
<1>3. Release(d) /\ UNCHANGED << remote, store, published, crossed >>
  BY DEF Commit, CrashInCommit, GiveUp, EndCycle, Crash
<1>4. /\ \A e \in Devices \ {d} : local'[e] = local[e]
      /\ op[d].proven \/ local'[d] = local[d]
  BY <1>1 DEF Commit, CrashInCommit, GiveUp, EndCycle, Crash
<1> QED
  BY <1>2, <1>3, <1>4, ReleaseIsSafe

-----------------------------------------------------------------------------
(* The steps that start an operation.                                       *)

LEMMA StartIsSafe ==
    ASSUME TransitionInvariant, KeyInvariant', NEW d \in Devices,
           NEW kind \in Transitions \cup {"provide", "cycle"},
           NEW target \in Key \cup {NoKey, Clear},
           op' = [op EXCEPT ![d] = Running(d, kind, target)],
           UNCHANGED << remote, published, crossed >>, lease' = d, op[d].kind = "idle",
           \A e \in Devices \ {d} : local'[e] = local[e] /\ store'[e] = store[e],
           local'[d].journal = local[d].journal,
           kind = "change" => remote["plain"].key = Absent,
           kind = "provide" => local[d].journal = "none",
           kind = "cycle" =>
               /\ local[d].state \in {"off", "enabled"} /\ local' = local
               /\ remote[Document(d)].edits \subseteq store'[d]
               /\ ~crossed => remote[Document(d)].key = UploadKey(d)
    PROVE  TransitionInvariant'
<1>1. KeyInvariant /\ op \in [Devices -> Operation] /\ remote \in [Artifacts -> File]
  BY DeviceKnown, LocalKnown
<1> DEFINE run == Running(d, kind, target)
<1>2. run.kind = kind /\ run.snap = remote /\ ~run.proven /\ run.stale = {}
  <2>1. run.stale = {}
    BY DEF Running, Idle
  <2> QED
    BY <1>1, <2>1, RunningTyped
<1>3. op'[d] = run /\ \A e \in Devices \ {d} : op'[e] = op[e]
  BY <1>1
<1> HIDE DEF run
<1>4. /\ op'[d].kind = kind /\ op'[d].snap = remote /\ ~op'[d].proven
      /\ \A n \in Artifacts : op'[d].snap[n] = remote'[n]
  BY <1>2, <1>3
<1>5. SnapFits(d)' /\ TargetKept(d)' /\ CommitHolds(d)'
  <2>1. Target(d)' \in Artifacts
    BY DEF Target, Artifacts, Documents
  <2> QED
    BY <1>4, <2>1 DEF SnapFits, TargetKept, CommitHolds
<1>6. TransitionKnows(d)'
  BY <1>4 DEF TransitionKnows
<1>7. kind = "cycle" => Document(d)' = Document(d) /\ UploadKey(d)' = UploadKey(d)
  BY DEF Document, UploadKey, Enabled
<1>8. CycleKnows(d)' /\ (~crossed' => CycleFits(d)')
  BY <1>4, <1>7 DEF CycleKnows, CycleFits
<1>9. DeviceSound(d)'
  BY <1>5, <1>6, <1>8 DEF DeviceSound
<1>10. Owing(d) => Owing(d)'
  BY <1>4 DEF Owing
<1> QED
  BY <1>3, <1>9, <1>10, QuietKeeps

LEMMA EnableIsSafe ==
    ASSUME TransitionInvariant, NEW d \in Devices, NEW p \in Passphrases, Enable(d, p)
    PROVE  TransitionInvariant'
<1>1. PICK k \in EnableKey(p) : Begin(d, "enable", k)
  BY DEF Enable
<1>2. k \in Key /\ KeyInvariant /\ KeyInvariant'
  BY <1>1, EnableKeyTyped, DeviceKnown, EnableKeeps DEF Enable
<1>3. /\ op' = [op EXCEPT ![d] = Running(d, "enable", k)] /\ lease' = d /\ op[d].kind = "idle"
      /\ UNCHANGED << remote, published, crossed, store, local >>
  BY <1>1 DEF Begin, Acquire, Enable
<1> QED
  BY <1>2, <1>3, StartIsSafe DEF Transitions

LEMMA DisableIsSafe ==
    ASSUME TransitionInvariant, NEW d \in Devices, Disable(d) PROVE TransitionInvariant'
<1>1. KeyInvariant'
  BY DeviceKnown, DisableKeeps
<1>2. /\ op' = [op EXCEPT ![d] = Running(d, "disable", Clear)]
      /\ lease' = d /\ op[d].kind = "idle"
      /\ UNCHANGED << remote, published, crossed, store, local >>
  BY DEF Begin, Acquire, Disable
<1> QED
  BY <1>1, <1>2, StartIsSafe DEF Transitions

LEMMA ChangeIsSafe ==
    ASSUME TransitionInvariant, NEW d \in Devices, NEW p \in Passphrases, NEW q \in Passphrases,
           Change(d, p, q)
    PROVE  TransitionInvariant'
<1> DEFINE target == << q, CHOOSE s \in FreshSalts : TRUE >>
<1>1. target \in Key
  BY ChangeKeyTyped DEF Change
<1>2. KeyInvariant' /\ local \in [Devices -> Local]
  BY DeviceKnown, ChangeKeeps
<1>3. /\ op' = [op EXCEPT ![d] = Running(d, "change", target)]
      /\ lease' = d /\ op[d].kind = "idle"
      /\ UNCHANGED << remote, published, crossed, store >>
      /\ remote["plain"].key = Absent
  BY DEF Begin, Acquire, Change
<1>4. /\ \A e \in Devices \ {d} : local'[e] = local[e]
      /\ local'[d].journal = local[d].journal
  BY <1>2 DEF Change, Local
<1> HIDE DEF target
<1> QED
  BY <1>1, <1>2, <1>3, <1>4, StartIsSafe DEF Transitions

LEMMA ProvideIsSafe ==
    ASSUME TransitionInvariant, NEW d \in Devices, NEW p \in Passphrases, Provide(d, p)
    PROVE  TransitionInvariant'
<1> DEFINE target == remote["sealed"].key
<1>1. target \in Key /\ KeyInvariant'
  BY DeviceKnown, ProvideKeeps DEF Provide, Sealed
<1>2. /\ op' = [op EXCEPT ![d] = Running(d, "provide", target)]
      /\ lease' = d /\ op[d].kind = "idle" /\ local[d].journal = "none"
      /\ UNCHANGED << remote, published, crossed, store, local >>
  BY DEF Acquire, Provide
<1> HIDE DEF target
<1> QED
  BY <1>1, <1>2, StartIsSafe

(* A document a cycle may touch is under the key the device would upload    *)
(* it with.                                                                 *)
LEMMA OpenedIsOwn ==
    ASSUME TransitionInvariant, NEW d \in Devices, ~crossed, MayCycle(d), Opens(d)
    PROVE  remote[Document(d)].key = UploadKey(d)
<1>1. KeyInvariant /\ NamesFit /\ DocumentRemains
  BY DeviceKnown
<1>2. KeyMatchesSalt
  BY <1>1, KeyMatches
<1>3. CASE Enabled(d)
  <2>1. local[d].journal = "none" /\ local[d].state = "enabled"
    BY <1>3 DEF MayCycle, MayRead, Enabled
  <2>2. Sealed("sealed") /\ Salt(remote["sealed"].key) = local[d].salt
    BY <1>1, <1>3, NamesDiffer DEF Opens, NamesFit, DocumentRemains, Sealed
  <2>3. remote["sealed"].key = local[d].key
    BY <1>2, <2>1, <2>2, NamesDiffer DEF KeyMatchesSalt
  <2> QED
    BY <1>3, <2>3 DEF Document, UploadKey
<1>4. CASE ~Enabled(d)
  BY <1>1, <1>4, NamesDiffer DEF Opens, NamesFit, DocumentRemains, Document, UploadKey
<1> QED
  BY <1>3, <1>4

LEMMA BeginCycleIsSafe ==
    ASSUME TransitionInvariant, NEW d \in Devices, BeginCycle(d) PROVE TransitionInvariant'
<1>1. KeyInvariant' /\ store \in [Devices -> SUBSET (1 .. MaxEdits)]
  BY DeviceKnown, BeginCycleKeeps
<1>2. /\ op' = [op EXCEPT ![d] = Running(d, "cycle", NoKey)]
      /\ lease' = d /\ op[d].kind = "idle" /\ local[d].state \in {"off", "enabled"}
      /\ UNCHANGED << remote, published, crossed, local >>
      /\ MayCycle(d) /\ Opens(d)
  BY DEF BeginCycle, MayCycle, MayRead
<1>3. /\ remote[Document(d)].edits \subseteq store'[d]
      /\ \A e \in Devices \ {d} : store'[e] = store[e]
  BY <1>1 DEF BeginCycle
<1>4. ~crossed => remote[Document(d)].key = UploadKey(d)
  BY <1>2, OpenedIsOwn
<1> QED
  BY <1>1, <1>2, <1>3, <1>4, StartIsSafe

-----------------------------------------------------------------------------
(* What happens outside operations.                                         *)

LEMMA EditIsSafe ==
    ASSUME TransitionInvariant, NEW d \in Devices, Edit(d) PROVE TransitionInvariant'
<1>1. KeyInvariant' /\ store \in [Devices -> SUBSET (1 .. MaxEdits)]
  BY DeviceKnown, EditKeeps
<1>2. /\ UNCHANGED << remote, published, crossed, local, op, lease >>
      /\ store[d] \subseteq store'[d] /\ \A e \in Devices \ {d} : store'[e] = store[e]
  BY <1>1 DEF Edit
<1>3. DeviceSound(d) /\ CycleKnows(d)
  BY DeviceKnown
<1>4. CycleKnows(d)'
  BY <1>2, <1>3 DEF CycleKnows, Document, Enabled
<1>5. SnapFits(d)' /\ TransitionKnows(d)' /\ (~crossed' => CycleFits(d)' /\ TargetKept(d)' /\ CommitHolds(d)')
  BY <1>2, <1>3 DEF DeviceSound, SnapFits, TransitionKnows, CycleFits, TargetKept, CommitHolds,
     Pending, InPlace, ToMove, Source, Target, Document, UploadKey, Enabled, AllAt, Owing
<1>6. DeviceSound(d)'
  BY <1>4, <1>5 DEF DeviceSound
<1>7. Owing(d) => Owing(d)'
  BY <1>2 DEF Owing
<1> QED
  BY <1>1, <1>2, <1>6, <1>7, QuietKeeps

(* A device without an operation may change its state, its journal apart.   *)
LEMMA StateIsSafe ==
    ASSUME TransitionInvariant, KeyInvariant', NEW d \in Devices, op[d].kind = "idle",
           UNCHANGED << remote, published, crossed, store, op, lease >>,
           \A e \in Devices \ {d} : local'[e] = local[e],
           local'[d].journal = local[d].journal
    PROVE  TransitionInvariant'
<1>1. ~op[d].proven
  BY DeviceKnown, LocalKnown DEF OperationSound, Transitions
<1>2. DeviceSound(d)'
  BY <1>1 DEF DeviceSound, SnapFits, CycleKnows, TransitionKnows, CycleFits, TargetKept,
              CommitHolds, Transitions
<1>3. Owing(d) => Owing(d)'
  BY DEF Owing
<1> QED
  BY <1>2, <1>3, QuietKeeps

LEMMA FindingIsSafe ==
    ASSUME TransitionInvariant, NEW d \in Devices, Discover(d) \/ ProvideNothing(d)
    PROVE  TransitionInvariant'
<1>1. KeyInvariant' /\ local \in [Devices -> Local]
  BY DeviceKnown, DiscoverKeeps, ProvideNothingKeeps
<1>2. /\ op[d].kind = "idle"
      /\ UNCHANGED << remote, published, crossed, store, op, lease >>
      /\ \A e \in Devices \ {d} : local'[e] = local[e]
  BY <1>1 DEF Discover, ProvideNothing, MayCycle, MayRead
<1>3. local'[d].journal = local[d].journal
  <2>1. local[d] \in Local
    BY <1>1
  <2>2. CASE Discover(d)
    <3>1. local'[d] = IF Sealed("sealed")
                      THEN [local[d] EXCEPT !.state = "no-key", !.salt = Salt(remote["sealed"].key)]
                      ELSE [local[d] EXCEPT !.state = "remote-plaintext"]
      BY <1>1, <2>2 DEF Discover
    <3> QED
      BY <2>1, <3>1 DEF Local
  <2>3. CASE ProvideNothing(d)
    BY <1>1, <2>3 DEF ProvideNothing
  <2> QED
    BY <2>2, <2>3
<1> QED
  BY <1>1, <1>2, <1>3, StateIsSafe

LEMMA StallIsSafe ==
    ASSUME TransitionInvariant, NEW d \in Devices, Stall(d) PROVE TransitionInvariant'
<1>1. KeyInvariant' /\ op[d] \in Operation /\ op \in [Devices -> Operation]
  BY DeviceKnown, LocalKnown, StallKeeps
<1>2. op' = [op EXCEPT ![d].late = TRUE] /\ lease' = Nobody
      /\ UNCHANGED << remote, published, crossed, store, local >>
  BY DEF Stall
<1>3. /\ op'[d].kind = op[d].kind /\ op'[d].snap = op[d].snap /\ op'[d].stale = op[d].stale
      /\ op'[d].proven = op[d].proven /\ op'[d].target = op[d].target
  BY <1>1, <1>2 DEF Operation
<1>4. \A e \in Devices \ {d} : op'[e] = op[e] /\ lease' # e
  BY <1>1, <1>2
<1>5. /\ Target(d)' = Target(d) /\ (Pending(d)' <=> Pending(d)) /\ Document(d)' = Document(d)
      /\ UploadKey(d)' = UploadKey(d)
  BY <1>2, <1>3 DEF Target, Pending, InPlace, ToMove, Source, Document, UploadKey, Enabled
<1>6. SnapFits(d)'
  BY <1>2, <1>3, DeviceKnown DEF SnapFits
<1>7. CycleKnows(d)' /\ (~crossed' => CycleFits(d)')
  BY <1>2, <1>3, <1>5, DeviceKnown DEF CycleKnows, CycleFits
<1>8. TransitionKnows(d)'
  BY <1>2, <1>3, <1>5, DeviceKnown DEF TransitionKnows
<1>9. ~crossed' => TargetKept(d)'
  BY <1>2, <1>3, <1>5, DeviceKnown DEF TargetKept
<1>10. CommitHolds(d)'
  BY <1>2 DEF CommitHolds
<1>11. DeviceSound(d)'
  BY <1>6, <1>7, <1>8, <1>9, <1>10 DEF DeviceSound
<1>12. Owing(d) => Owing(d)'
  BY <1>2, <1>3 DEF Owing
<1> QED
  BY <1>1, <1>2, <1>4, <1>11, <1>12, QuietKeeps

-----------------------------------------------------------------------------
(* The theorems.                                                            *)

LEMMA InitIsSafe == Init => TransitionInvariant
<1> SUFFICES ASSUME Init PROVE TransitionInvariant
  OBVIOUS
<1>1. KeyInvariant
  BY InitKeeps
<1>2. world.key \in Key \cup {Clear} /\ world.key # Absent
  BY KeysAreKeys DEF Init
<1>3. \A n \in Artifacts : /\ remote[n].edits = {} /\ remote[n].key \in {Absent, world.key}
                           /\ n \in Documents => (remote[n].key = Absent <=> (n = "plain") # (world.key = Clear))
  BY <1>2, NoneTyped DEF Init, None
<1>4. NamesFit /\ DocumentRemains
  BY <1>2, <1>3, NamesDiffer DEF NamesFit, DocumentRemains
<1>5. Whole /\ Kept
  BY <1>2, <1>3 DEF Whole, AllAt, Kept, Init
<1>6. ASSUME NEW d \in Devices PROVE DeviceSound(d)
  <2>1. op[d].kind = "idle" /\ ~op[d].proven
    BY IdleTyped DEF Init
  <2> QED
    BY <2>1 DEF DeviceSound, SnapFits, CycleKnows, TransitionKnows, CycleFits, TargetKept,
                CommitHolds, Transitions
<1> QED
  BY <1>1, <1>4, <1>5, <1>6 DEF TransitionInvariant, Owed

LEMMA NextIsSafe == TransitionInvariant /\ [Next]_vars => TransitionInvariant'
<1> SUFFICES ASSUME TransitionInvariant, [Next]_vars PROVE TransitionInvariant'
  OBVIOUS
<1>1. CASE UNCHANGED vars
  <2>1. KeyInvariant'
    BY NextKeeps DEF TransitionInvariant
  <2>2. UNCHANGED << remote, local, store, op, lease, published, crossed >>
    BY <1>1 DEF vars
  <2>3. ASSUME NEW d \in Devices PROVE DeviceSound(d)'
    <3>1. DeviceSound(d)
      BY DEF TransitionInvariant
    <3> QED
      BY <2>2, <3>1 DEF DeviceSound, SnapFits, CycleKnows, TransitionKnows, CycleFits, TargetKept,
         CommitHolds, Pending, InPlace, ToMove, Source, Target, Document, UploadKey, Enabled,
         AllAt, Owing
  <2>4. NamesFit' /\ (~crossed' => Kept' /\ DocumentRemains' /\ Owed')
    BY <2>2 DEF TransitionInvariant, NamesFit, Kept, DocumentRemains, Owed, Whole, AllAt, Owing
  <2> QED
    BY <2>1, <2>3, <2>4 DEF TransitionInvariant
<1>2. ASSUME NEW d \in Devices, Step(d) PROVE TransitionInvariant'
  BY <1>2, StartJournalIsSafe, RewriteIsSafe, CreateTargetIsSafe, RemoveSourceIsSafe,
     ProveIsSafe, EndingIsSafe, UploadIsSafe DEF Step
<1>3. ASSUME NEW d \in Devices, Choice(d) PROVE TransitionInvariant'
  BY <1>3, DisableIsSafe, FindingIsSafe, EnableIsSafe, ProvideIsSafe, ChangeIsSafe DEF Choice
<1>4. ASSUME NEW d \in Devices,
             Edit(d) \/ BeginCycle(d) \/ Discover(d) \/ Crash(d) \/ CrashInCommit(d) \/ Stall(d)
      PROVE  TransitionInvariant'
  BY <1>4, EditIsSafe, BeginCycleIsSafe, FindingIsSafe, EndingIsSafe, StallIsSafe
<1> QED
  BY <1>1, <1>2, <1>3, <1>4 DEF Next

LEMMA TransitionsAreSafe == Spec => []TransitionInvariant
BY InitIsSafe, NextIsSafe, PTL DEF Spec

(* Through any crashes, stalled holders and interleavings of devices, no    *)
(* edit that reached the remote leaves it: a transition that removes a      *)
(* document (sync-encryption.ts) removes nothing the other one lacks, until *)
(* two opposite transitions cross.                                          *)
THEOREM EncryptionLosesNothing == Spec => []NothingLost
<1>1. TransitionInvariant => NothingLost
  BY DEF TransitionInvariant, Kept, NothingLost
<1> QED
  BY <1>1, TransitionsAreSafe, PTL

(* A remote with more than one generation on it is always somebody's        *)
(* journaled debt.                                                          *)
THEOREM MixturesAreJournaled == Spec => []MixtureIsJournaled
<1>1. TransitionInvariant => MixtureIsJournaled
  BY DEF TransitionInvariant, Owed, Whole, AllAt, Owing, MixtureIsJournaled, Present
<1> QED
  BY <1>1, TransitionsAreSafe, PTL

(* A device commits its own state only to a remote that is all as it        *)
(* claims, or whose rest another device's journal owes.                     *)
THEOREM CommitsAreTrue == Spec => CommitsWhatIsThere
<1>1. TransitionInvariant /\ [Next]_vars =>
        [ \A d \in Devices : op[d].kind \in Transitions /\ Commit(d)
            => \/ crossed
               \/ \A n \in Present : remote[n].key = op[d].target
               \/ \E e \in Devices \ {d} : local[e].journal # "none" ]_vars
  <2> SUFFICES ASSUME TransitionInvariant, NEW d \in Devices,
                      op[d].kind \in Transitions, Commit(d), ~crossed
               PROVE  \/ \A n \in Present : remote[n].key = op[d].target
                      \/ \E e \in Devices \ {d} : local[e].journal # "none"
    OBVIOUS
  <2>1. AllAt(op[d].target) \/ \E e \in Devices \ {d} : Owing(e)
    BY DeviceKnown DEF Commit, CommitHolds
  <2> QED
    BY <2>1 DEF AllAt, Owing, Present
<1> QED
  BY <1>1, TransitionsAreSafe, PTL DEF Spec, CommitsWhatIsThere

(* The keys a step writes: a transition its target, a cycle what is there.  *)
LEMMA ClearIsWanted ==
    ASSUME TransitionInvariant, NEW d \in Devices, ~crossed, Step(d),
           NEW n \in Artifacts, remote[n].key # Clear, remote'[n].key = Clear
    PROVE  op[d].kind = "disable"
<1>1. KeyInvariant /\ OperationSound(d) /\ remote \in [Artifacts -> File]
      /\ op[d].snap \in [Artifacts -> File]
  BY DeviceKnown, LocalKnown
<1>2. CASE UNCHANGED remote
  BY <1>2
<1>3. CASE Rewrite(d)
  <2>1. PICK m \in InPlace(d) : Written(d, m, [op[d].snap[m] EXCEPT !.key = op[d].target])
    BY <1>3 DEF Rewrite
  <2>2. m \in Artifacts
    BY <2>1, NamesDiffer DEF InPlace
  <2>3. op[d].snap[m] \in File
    BY <1>1, <2>2
  <2>4. op[d].target = Clear
    BY <1>1, <2>1, <2>3 DEF Written, File
  <2> QED
    BY <1>1, <1>3, <2>4, KeysAreKeys DEF OperationSound, Rewrite, Journaled, Transitions
<1>4. CASE CreateTarget(d)
  <2>1. op[d].snap[Source(d)] \in File
    BY <1>1, NamesDiffer
  <2>2. op[d].target = Clear
    BY <1>1, <1>4, <2>1 DEF CreateTarget, Written, File
  <2> QED
    BY <1>1, <1>4, <2>2, KeysAreKeys DEF OperationSound, CreateTarget, Journaled, Transitions
<1>5. CASE RemoveSource(d)
  BY <1>1, <1>5, NoneTyped, KeysAreKeys DEF RemoveSource, Written
<1>6. CASE Upload(d)
  <2>1. /\ op[d].snap[Document(d)] = remote[Document(d)] /\ Document(d) \in Artifacts
        /\ op[d].kind = "cycle"
    BY <1>6, CurrentIsKnown, NamesDiffer DEF Upload
  <2>2. remote[Document(d)].key = UploadKey(d)
    BY <2>1, DeviceKnown DEF CycleFits
  <2> QED
    BY <1>1, <1>6, <2>1, <2>2 DEF Upload, Written, UploadKey
<1> QED
  BY <1>2, <1>3, <1>4, <1>5, <1>6 DEF Step, StartJournal, Prove, Commit, GiveUp, EndCycle

(* Once nothing is in plaintext, no cycle, however stale, and no transition *)
(* but a disable puts plaintext there again.                                *)
THEOREM DowngradesAreWanted == Spec => NoDowngrade
<1>1. TransitionInvariant /\ [Next]_vars =>
        [ (\A n \in Artifacts : remote[n].key # Clear) /\ (\E n \in Artifacts : remote'[n].key = Clear)
            => crossed \/ \E d \in Devices : op[d].kind = "disable" ]_vars
  <2> SUFFICES ASSUME TransitionInvariant, Next, ~crossed,
                      NEW n \in Artifacts, remote[n].key # Clear, remote'[n].key = Clear
               PROVE  \E d \in Devices : op[d].kind = "disable"
    OBVIOUS
  <2>1. PICK d \in Devices :
            \/ Step(d) \/ Choice(d)
            \/ Edit(d) \/ BeginCycle(d) \/ Discover(d)
            \/ Crash(d) \/ CrashInCommit(d) \/ Stall(d)
    BY DEF Next
  <2>2. CASE Step(d)
    BY <2>2, ClearIsWanted
  <2>3. CASE ~Step(d)
    <3>1. UNCHANGED remote
      BY <2>1, <2>3 DEF Choice, Disable, ProvideNothing, Enable, Provide, Change, Begin, Edit,
         BeginCycle, Discover, Crash, CrashInCommit, Stall
    <3> QED
      BY <3>1
  <2> QED
    BY <2>2, <2>3
<1> QED
  BY <1>1, TransitionsAreSafe, PTL DEF Spec, NoDowngrade

=============================================================================
