---------------------------- MODULE DeviceProofs ----------------------------
(***************************************************************************)
(* The keys OneGuard signs with (passport/keys.py) and the devices of a    *)
(* card (passport/devices.py).                                             *)
(*                                                                         *)
(* For any number of processes and keys: what a process read of the keys   *)
(* stays a part of what is stored, so the key it keeps is never younger    *)
(* than another it would deactivate, and the oldest of all stays active.   *)
(*                                                                         *)
(* The card, for any number of devices, keys and requests.  However its    *)
(* requests overlap, whoever let a device in was let in before it          *)
(* (ApprovedInOrder).  What the operations promise of its rows holds when  *)
(* they come one at a time, CardRequest = {one}: each reads the rows and   *)
(* writes them without a lock, and two that overlap can break it (part     *)
(* "together" of MCPassports keeps what survives that).                    *)
(***************************************************************************)
EXTENDS KeyRing, FiniteSetTheorems, WellFoundedInduction, TLAPS

-----------------------------------------------------------------------------
(* Among subsets of a finite set there are minimal ones. *)
LEMMA Minimal ==
    ASSUME NEW S, IsFiniteSet(S), NEW T \in SUBSET SUBSET S, T # {}
    PROVE  \E s \in T : \A r \in SUBSET s : r # s => r \notin T
<1>1. IsWellFoundedOn(StrictSubsetOrdering(S), FiniteSubsetsOf(S))
  BY FS_StrictSubsetOrderingWellFounded
<1>2. T \subseteq FiniteSubsetsOf(S)
  BY FS_Subset DEF FiniteSubsetsOf
<1>3. \E x \in T : \A y \in T : ~ (<<y, x>> \in StrictSubsetOrdering(S))
  BY <1>1, <1>2, WFMin
<1> QED BY <1>3 DEF StrictSubsetOrdering

(* Every set of numbers has a least one. *)
LEMMA Least ==
    ASSUME NEW T \in SUBSET Nat, T # {}
    PROVE  \E n \in T : \A m \in T : n <= m
<1>1. PICK top \in T : TRUE
  OBVIOUS
<1> DEFINE All == 0..top
           Upto == {s \in SUBSET All : \E n \in T : s = 0..n}
<1>2. IsFiniteSet(All) /\ All \in Upto
  BY <1>1, FS_Interval
<1>3. PICK s \in Upto : \A r \in SUBSET s : r # s => r \notin Upto
  <2>1. Upto \in SUBSET SUBSET All /\ Upto # {}
    BY <1>2
  <2> HIDE DEF Upto, All
  <2> QED BY <1>2, <2>1, Minimal
<1>4. PICK n \in T : s = 0..n
  BY <1>3
<1>5. ASSUME NEW m \in T, m < n
      PROVE  FALSE
  <2>1. 0..m \in SUBSET s /\ n \in s /\ n \notin 0..m
    BY <1>4, <1>5
  <2>2. 0..m \in Upto
    BY <1>3, <2>1
  <2> QED BY <1>3, <2>1, <2>2
<1> QED BY <1>4, <1>5

-----------------------------------------------------------------------------
(***************************************************************************)
(* The signing keys (KeyRing).                                             *)
(***************************************************************************)
\* The keys a process read are still stored, with the times it read.
ReadsArePast ==
  \A p \in Process : \A k \in There(rows[p]) : keys[k].at = rows[p][k].at

\* The parts of TypeOK that do not rest on there being a key to choose.
KeysTyped ==
  /\ clock \in 1..MaxTime
  /\ keys \in Table
  /\ made \in [Process -> 0..MaxTime]
  /\ rows \in [Process -> Table]

IInv == KeysTyped /\ ReadsArePast /\ OldestStaysActive

USE DEF There, Active, Table

\* load() keeps the oldest of the keys it read as active.
LEMMA OldestIsKept ==
  ASSUME NEW p \in Process, KeysTyped, ReadsArePast, NEW k \in There(keys),
         \A j \in There(keys) \ {k} : Older(keys, k, j)
  PROVE  k \notin Pruned(p)
<1> SUFFICES ASSUME k \in Active(rows[p]) PROVE k = Oldest(rows[p], Active(rows[p]))
  BY DEF Pruned
<1> DEFINE t == rows[p]
<1>0. /\ t \in Table /\ keys \in Table /\ Key \subseteq Nat
  BY KeyRingAssumption DEF KeysTyped
<1>1. \A j \in Active(t) : j \in There(keys) /\ keys[j].at = t[j].at
  BY <1>0 DEF ReadsArePast
<1>2. \A j \in Active(t) \ {k} : Older(t, k, j)
  BY <1>0, <1>1 DEF Older
<1>3. \A j \in Active(t) \ {k} : ~ Older(t, j, k)
  BY <1>0, <1>2 DEF Older
<1>4. \A i \in Active(t) : (\A j \in Active(t) \ {i} : Older(t, i, j)) => i = k
  BY <1>3
<1> QED BY <1>2, <1>4 DEF Oldest

LEMMA InitIInv == ASSUME Init PROVE IInv
BY KeyRingAssumption DEF Init, NoKeys, IInv, KeysTyped, ReadsArePast, OldestStaysActive

LEMMA StepIInv == ASSUME IInv, [Next]_vars PROVE IInv'
<1> USE KeyRingAssumption
<1>1. CASE Tick
  BY <1>1 DEF Tick, IInv, KeysTyped, ReadsArePast, OldestStaysActive, Older
<1>2. ASSUME NEW p \in Process, Read(p) PROVE IInv'
  <2>1. KeysTyped'
    BY <1>2 DEF Read, To, AfterRead, IInv, KeysTyped
  <2>2. ReadsArePast'
    BY <1>2 DEF Read, IInv, KeysTyped, ReadsArePast
  <2> QED BY <1>2, <2>1, <2>2 DEF Read, IInv, OldestStaysActive, Older
<1>3. ASSUME NEW p \in Process, Make(p) PROVE IInv'
  BY <1>3 DEF Make, Stamp, IInv, KeysTyped, ReadsArePast, OldestStaysActive, Older
<1>4. ASSUME NEW p \in Process, Insert(p) PROVE IInv'
  <2>1. PICK n \in Key \ There(keys) :
          keys' = [keys EXCEPT ![n] = [at |-> made[p], active |-> TRUE]]
    BY <1>4 DEF Insert
  <2>2. KeysTyped'
    BY <1>4, <2>1 DEF Insert, IInv, KeysTyped
  <2>3. ReadsArePast'
    <3>1. \A k \in There(keys) : keys'[k] = keys[k]
      BY <2>1 DEF IInv, KeysTyped
    <3>2. \A q \in Process : \A k \in There(rows[q]) : k \in There(keys)
      BY DEF IInv, KeysTyped, ReadsArePast
    <3>3. rows' = rows
      BY <1>4 DEF Insert
    <3>4. ASSUME NEW q \in Process, NEW k \in There(rows[q])
          PROVE  keys'[k].at = rows[q][k].at
      <4>1. keys[k].at = rows[q][k].at
        BY DEF IInv, ReadsArePast
      <4>2. keys'[k] = keys[k]
        BY <3>1, <3>2
      <4> QED BY <4>1, <4>2
    <3> HIDE DEF There
    <3> QED BY <3>3, <3>4 DEF ReadsArePast
  <2>4. OldestStaysActive'
    BY <2>1 DEF IInv, KeysTyped, OldestStaysActive, Older
  <2> QED BY <2>2, <2>3, <2>4 DEF IInv
<1>5. ASSUME NEW p \in Process, Prune(p) PROVE IInv'
  <2>1. \A k \in Key : /\ keys'[k].at = keys[k].at
                       /\ k \notin Pruned(p) => keys'[k] = keys[k]
    BY <1>5 DEF Prune, IInv, KeysTyped
  <2>2. KeysTyped'
    BY <1>5 DEF Prune, IInv, KeysTyped
  <2>3. ReadsArePast'
    BY <1>5, <2>1 DEF Prune, IInv, KeysTyped, ReadsArePast
  <2>4. OldestStaysActive'
    <3> SUFFICES ASSUME NEW k \in There(keys)',
                        \A j \in There(keys)' \ {k} : Older(keys', k, j)
                 PROVE  k \in Active(keys)'
      BY DEF OldestStaysActive
    <3>1. k \in There(keys) /\ \A j \in There(keys) \ {k} : Older(keys, k, j)
      BY <2>1 DEF Older
    <3>2. k \notin Pruned(p)
      BY <3>1, OldestIsKept DEF IInv
    <3> QED BY <2>1, <3>1, <3>2 DEF IInv, OldestStaysActive
  <2> QED BY <2>2, <2>3, <2>4 DEF IInv
<1>6. ASSUME NEW p \in Process, Pick(p) PROVE IInv'
  BY <1>6 DEF Pick, IInv, KeysTyped, ReadsArePast, OldestStaysActive, Older
<1>7. ASSUME NEW p \in Process, Sign(p) PROVE IInv'
  <2>1. UNCHANGED <<clock, keys, made, rows>>
    BY <1>7 DEF Sign
  <2> QED BY <2>1 DEF IInv, KeysTyped, ReadsArePast, OldestStaysActive, Older
<1>8. ASSUME NEW p \in Process, NEW k \in Key, Verify(p, k) PROVE IInv'
  BY <1>8 DEF Verify, IInv, KeysTyped, ReadsArePast, OldestStaysActive, Older
<1>9. CASE UNCHANGED vars
  BY <1>9 DEF vars, IInv, KeysTyped, ReadsArePast, OldestStaysActive, Older
<1> QED BY <1>1, <1>2, <1>3, <1>4, <1>5, <1>6, <1>7, <1>8, <1>9 DEF Next

\* The oldest signing key is active in every state, however many processes
\* start together and prune from what they read before.
THEOREM OldestKeyStaysActive == Spec => []OldestStaysActive
<1>1. Init => IInv BY InitIInv
<1>2. IInv /\ [Next]_vars => IInv' BY StepIInv
<1>3. IInv => OldestStaysActive BY DEF IInv
<1> QED BY <1>1, <1>2, <1>3, PTL DEF Spec

----------------------------------------------------------------------------
\* Of keys that are there one is the oldest; of two of one moment, the smaller.
LEMMA OldestExists ==
  ASSUME NEW t \in Table, NEW S \in SUBSET There(t), S # {}
  PROVE  /\ \E k \in S : \A j \in S \ {k} : Older(t, k, j)
         /\ Oldest(t, S) \in S
<1> DEFINE Times == {t[k].at : k \in S}
<1>1. \A k \in S : k \in Nat /\ t[k].at \in Nat
  BY KeyRingAssumption
<1>2. PICK k0 \in S : \A j \in S : t[k0].at <= t[j].at
  <2>1. Times \in SUBSET Nat /\ Times # {}
    BY <1>1
  <2> HIDE DEF Times
  <2>2. \E n \in Times : \A m \in Times : n <= m
    BY <2>1, Least
  <2> QED BY <2>2 DEF Times
<1> DEFINE First1 == {k \in S : t[k].at = t[k0].at}
<1>3. PICK k \in First1 : \A j \in First1 : k <= j
  <2>1. First1 \in SUBSET Nat /\ First1 # {}
    BY <1>1, <1>2
  <2> HIDE DEF First1
  <2> QED BY <2>1, Least
<1>4. \A j \in S \ {k} : Older(t, k, j)
  <2>1. ASSUME NEW j \in S \ {k} PROVE Older(t, k, j)
    <3>1. k \in Nat /\ j \in Nat /\ t[k].at \in Nat /\ t[j].at \in Nat /\ t[k].at <= t[j].at
      BY <1>1, <1>2, <1>3
    <3>2. t[k].at = t[j].at => k <= j
      BY <1>3
    <3> QED BY <3>1, <3>2 DEF Older
  <2> QED BY <2>1
<1>5. k \in S
  BY <1>3
<1> QED BY <1>4, <1>5 DEF Oldest

\* What a process knows at each stage of load(): there are keys once it has
\* read or stored one, and those it is about to choose from are active.
StagesFindKeys ==
  /\ \A p \in Process :
       /\ load[p] \in {"again", "prune", "reread", "pick", "done"} => There(keys) # {}
       /\ load[p] \in {"prune", "pick"} => Active(rows[p]) # {}
       /\ load[p] \in {"insert"} => made[p] # 0
       /\ load[p] = "done" => mine[p] \in Key

\* load: a process that comes to choose its key has one to choose, although
\* others deactivate keys between its reads (next() would raise).
PickFindsOne == \A p \in Process : load[p] = "pick" => Active(rows[p]) # {}

\* Whoever reads keys finds an active one among them.
LEMMA SomeActive ==
  ASSUME IInv, There(keys) # {} PROVE Active(keys) # {}
<1>1. keys \in Table
  BY DEF IInv, KeysTyped
<1>2. PICK k \in There(keys) : \A j \in There(keys) \ {k} : Older(keys, k, j)
  <2> DEFINE S == There(keys)
  <2>1. S \in SUBSET There(keys) /\ S # {}
    OBVIOUS
  <2> HIDE DEF S
  <2>2. \E k \in S : \A j \in S \ {k} : Older(keys, k, j)
    BY <1>1, <2>1, OldestExists
  <2> QED BY <2>2 DEF S
<1>3. k \in Active(keys)
  BY <1>2 DEF IInv, OldestStaysActive
<1> QED BY <1>3

\* The keys only grow in number, and keep their times.
LEMMA KeysStay ==
  ASSUME IInv, [Next]_vars PROVE There(keys) \subseteq There(keys')
<1>1. CASE \E p \in Process : Insert(p)
  BY <1>1 DEF Insert, IInv, KeysTyped
<1>2. CASE \E p \in Process : Prune(p)
  BY <1>2 DEF Prune, IInv, KeysTyped
<1>3. CASE UNCHANGED keys
  BY <1>3
<1> QED BY <1>1, <1>2, <1>3 DEF Next, vars, Tick, Read, Make, Pick, Sign, Verify

\* Every step leaves a process that chooses with a key to choose, and keeps
\* the types.
LEMMA StepStages ==
  ASSUME IInv, IInv', TypeOK, StagesFindKeys, [Next]_vars
  PROVE  TypeOK' /\ StagesFindKeys'
<1> USE KeyRingAssumption
<1>0. There(keys) \subseteq There(keys')
  BY KeysStay
<1>1. ASSUME NEW p \in Process, Read(p) PROVE TypeOK' /\ StagesFindKeys'
  <2>1. TypeOK'
    BY <1>1 DEF Read, To, AfterRead, TypeOK, Stage
  <2>2. StagesFindKeys'
    <3>1. Active(keys) # {} => There(keys) # {}
      OBVIOUS
    <3>2. load[p] \in {"again", "reread"} => Active(keys) # {}
      BY SomeActive DEF StagesFindKeys
    <3>3. ASSUME NEW q \in Process, q # p
          PROVE  load'[q] = load[q] /\ rows'[q] = rows[q]
      BY <1>1, <3>3 DEF Read, To, TypeOK
    <3>4. load'[p] = AfterRead(p) /\ rows'[p] = keys /\ UNCHANGED <<keys, made, mine>>
      BY <1>1 DEF Read, To, TypeOK
    <3>5. /\ load'[p] \in {"make", "prune", "pick"}
          /\ load'[p] \in {"prune", "pick"} => Active(keys) # {}
      BY <1>1, <3>2, <3>4 DEF Read, AfterRead
    <3> HIDE DEF There, Active
    <3> QED BY <3>1, <3>3, <3>4, <3>5 DEF StagesFindKeys
  <2> QED BY <2>1, <2>2
<1>2. ASSUME NEW p \in Process, Make(p) PROVE TypeOK' /\ StagesFindKeys'
  <2> HIDE DEF There, Active
  <2> QED BY <1>2 DEF Make, To, Stamp, TypeOK, Stage, StagesFindKeys
<1>3. ASSUME NEW p \in Process, Insert(p) PROVE TypeOK' /\ StagesFindKeys'
  <2>1. PICK k \in Key \ There(keys) :
          keys' = [keys EXCEPT ![k] = [at |-> made[p], active |-> TRUE]]
    BY <1>3 DEF Insert
  <2>2. TypeOK'
    BY <1>3, <2>1 DEF Insert, To, TypeOK, Stage
  <2>3. k \in There(keys')
    BY <1>3, <2>1 DEF Insert, TypeOK, StagesFindKeys
  <2>4. There(keys') # {}
    BY <2>3
  <2> HIDE DEF There, Active
  <2>5. StagesFindKeys'
    BY <1>3, <2>4 DEF Insert, To, TypeOK, StagesFindKeys
  <2> QED BY <2>2, <2>5
<1>4. ASSUME NEW p \in Process, Prune(p) PROVE TypeOK' /\ StagesFindKeys'
  <2>1. TypeOK'
    BY <1>4 DEF Prune, To, TypeOK, Stage
  <2> HIDE DEF There, Active
  <2>2. Active(rows[p]) # {}
    BY <1>4 DEF Prune, StagesFindKeys
  <2>3. There(keys') # {}
    BY <1>0, <1>4 DEF Prune, StagesFindKeys
  <2>4. StagesFindKeys'
    BY <1>4, <2>2, <2>3 DEF Prune, To, TypeOK, StagesFindKeys
  <2> QED BY <2>1, <2>4
<1>5. ASSUME NEW p \in Process, Pick(p) PROVE TypeOK' /\ StagesFindKeys'
  <2> DEFINE S == Active(rows[p])
  <2>1. rows[p] \in Table /\ S \in SUBSET There(rows[p]) /\ S # {}
    BY <1>5 DEF Pick, TypeOK
  <2>2. Oldest(rows[p], S) \in S
    <3> HIDE DEF S
    <3> QED BY <2>1, OldestExists
  <2>3. mine' = [mine EXCEPT ![p] = Oldest(rows[p], S)] /\ Oldest(rows[p], S) \in Key
    BY <1>5, <2>2 DEF Pick
  <2>4. Known(p) \in SUBSET Key
    BY DEF Known
  <2> HIDE DEF S, There, Active
  <2>5. TypeOK'
    BY <1>5, <2>3, <2>4 DEF Pick, To, TypeOK, Stage
  <2>6. StagesFindKeys'
    BY <1>5, <2>3 DEF Pick, To, TypeOK, StagesFindKeys
  <2> QED BY <2>5, <2>6
<1>6. ASSUME NEW p \in Process, Sign(p) PROVE TypeOK' /\ StagesFindKeys'
  <2> HIDE DEF There, Active
  <2> QED BY <1>6 DEF Sign, TypeOK, StagesFindKeys
<1>7. ASSUME NEW p \in Process, NEW k \in Key, Verify(p, k)
      PROVE  TypeOK' /\ StagesFindKeys'
  <2> HIDE DEF There, Active
  <2> QED BY <1>7 DEF Verify, To, TypeOK, Stage, StagesFindKeys
<1>8. CASE Tick
  <2> HIDE DEF There, Active
  <2> QED BY <1>8 DEF Tick, TypeOK, StagesFindKeys
<1>9. CASE UNCHANGED vars
  <2> HIDE DEF There, Active
  <2> QED BY <1>9 DEF vars, TypeOK, StagesFindKeys
<1> QED BY <1>1, <1>2, <1>3, <1>4, <1>5, <1>6, <1>7, <1>8, <1>9 DEF Next

\* A process that comes to choose its key always finds one, whatever the
\* others deactivate between its reads: load() never fails.
THEOREM LoadFindsAKey == Spec => [](TypeOK /\ PickFindsOne)
<1>1. Init => IInv BY InitIInv
<1>2. IInv /\ [Next]_vars => IInv' BY StepIInv
<1>3. Init => TypeOK /\ StagesFindKeys
  BY KeyRingAssumption DEF Init, NoKeys, TypeOK, Stage, StagesFindKeys
<1>4. IInv /\ IInv' /\ TypeOK /\ StagesFindKeys /\ [Next]_vars => TypeOK' /\ StagesFindKeys'
  BY StepStages
<1>5. StagesFindKeys => PickFindsOne
  BY DEF StagesFindKeys, PickFindsOne
<1> QED BY <1>1, <1>2, <1>3, <1>4, <1>5, PTL DEF Spec

-----------------------------------------------------------------------------
(***************************************************************************)
(* The devices of one card.                                                *)
(***************************************************************************)
CONSTANTS Id, DeviceKey, CardRequest, CardTime

VARIABLES cardClock, dev, req

Card == INSTANCE Devices WITH
  Key <- DeviceKey, Request <- CardRequest, MaxTime <- CardTime,
  clock <- cardClock

\* What a request carries, before it has read the rows and after.
Op == Card!Managed \cup {"enrol", "reset"}
Started == [pc : {"read"}, op : Op, key : DeviceKey, target : Id \cup {Card!NoDevice},
            signer : Id \cup {Card!NoDevice}, now : 0..CardTime]
Loaded == [pc : {"write"}, op : Op, key : DeviceKey, target : Id \cup {Card!NoDevice},
           signer : Id \cup {Card!NoDevice}, now : 0..CardTime, rows : [Id -> Card!Row]]

CardTyped ==
  /\ cardClock \in 0..CardTime
  /\ dev \in [Id -> Card!Row]
  /\ req \in [CardRequest -> {Card!Idle} \cup Started \cup Loaded]

Goes(r) == req[r] # Card!Idle
Manages(r) == Goes(r) /\ req[r].op \in Card!Managed

\* Every request in progress started before now, and a device that waits was
\* enrolled by a request.
Times ==
  /\ cardClock >= 1
  /\ \A d \in Id : dev[d].at <= 1 \/ dev[d].at < cardClock
  /\ \A d \in Id : dev[d].status = "pending" => cardClock >= 2
  /\ \A r \in CardRequest : Goes(r) => 1 <= req[r].now /\ req[r].now < cardClock

\* A request that may yet let its device in.
MayApprove(r) ==
  /\ Goes(r) /\ req[r].op = "approve"
  /\ IF req[r].pc = "read" THEN dev[req[r].target].status = "pending"
     ELSE req[r].rows[req[r].target].status = "pending"

\* A managed device is known to the card, its signer was let in, and earlier
\* than the request when that can let a device in.
Signers ==
  \A r \in CardRequest : Manages(r) =>
    /\ req[r].target \in Id /\ req[r].signer \in Id
    /\ dev[req[r].target].status # "none"
    /\ dev[req[r].signer].status \in {"enrolled", "removed"}
    /\ MayApprove(r) => /\ req[r].target # req[r].signer
                        /\ dev[req[r].signer].at < req[r].now

\* Who let a device in was let in earlier.
Approvers ==
  \A d \in Id : dev[d].by # Card!NoDevice =>
    /\ dev[dev[d].by].status \in {"enrolled", "removed"}
    /\ dev[dev[d].by].at < dev[d].at

\* A device let in a second time is so by a request older than all it signs,
\* and all it has let in.
Again ==
  \A r \in CardRequest : MayApprove(r) =>
    /\ \A q \in CardRequest :
         Manages(q) /\ req[q].signer = req[r].target => req[r].now < req[q].now
    /\ \A d \in Id : dev[d].by = req[r].target => req[r].now < dev[d].at

CardInv == CardTyped /\ Times /\ Signers /\ Approvers /\ Again

\* One request at a time: it writes what it read, its signer is enrolled, one
\* device at most is marked as controller.
Alone ==
  /\ \A r \in CardRequest : req[r].pc = "write" => req[r].rows = dev
  /\ \A r \in CardRequest : Manages(r) => dev[req[r].signer].status = "enrolled"
OneMark ==
  /\ \A d, e \in Card!Enrolled(dev) : dev[d].since # Card!Unset /\ dev[e].since # Card!Unset => d = e
  /\ \A d \in Id : dev[d].status = "pending" => dev[d].since = Card!Unset
AloneTimes ==
  \A r \in CardRequest : Goes(r) =>
    \A d \in Id : dev[d].at <= req[r].now /\ (MayApprove(r) => dev[d].at < req[r].now)
AloneInv == CardInv /\ Alone /\ OneMark /\ AloneTimes /\ Card!OneDevicePerKey

LEMMA CardInitInv ==
  ASSUME Card!DevicesAssumption, Card!Init
  PROVE  CardInv
<1>1. /\ req \in [CardRequest -> {Card!Idle}]
      /\ \A r \in CardRequest : req[r] = Card!Idle
  BY DEF Card!Init
<1>0. cardClock = 1
  BY DEF Card!Init
<1>2. PICK old \in SUBSET Id, k \in [Id -> DeviceKey] :
        /\ \A d, e \in old : d # e => k[d] # k[e]
        /\ dev = [d \in Id |-> IF d \in old
                               THEN [Card!NoRow EXCEPT !.status = "enrolled", !.key = k[d], !.at = 1]
                               ELSE Card!NoRow]
  BY DEF Card!Init
<1>3. ASSUME NEW d \in Id
      PROVE  /\ dev[d] \in Card!Row
             /\ dev[d].at <= 1 /\ dev[d].by = Card!NoDevice /\ dev[d].status # "pending"
  <2>1. (CHOOSE x \in DeviceKey : TRUE) \in DeviceKey /\ k[d] \in DeviceKey
    BY <1>2, <1>3
  <2>2. Card!NoRow \in Card!Row /\ Card!NoRow.at = 0 /\ Card!NoRow.by = Card!NoDevice /\ Card!NoRow.status = "none"
    BY <2>1 DEF Card!NoRow, Card!Row, Card!Unset, Card!NoDevice, Card!DevicesAssumption
  <2> DEFINE First == [status |-> "enrolled", key |-> k[d], at |-> 1, by |-> Card!NoDevice, since |-> Card!Unset]
  <2>3. First \in Card!Row /\ First.at = 1 /\ First.by = Card!NoDevice /\ First.status = "enrolled"
    BY <2>1 DEF Card!Row, Card!Unset, Card!DevicesAssumption
  <2>4. dev[d] = First \/ dev[d] = Card!NoRow
    BY <1>2, <1>3 DEF Card!NoRow
  <2> HIDE DEF First
  <2> QED BY <2>2, <2>3, <2>4
<1>4. CardTyped
  <2>1. cardClock = 1 /\ cardClock \in 0..CardTime
    BY <1>0 DEF Card!DevicesAssumption
  <2>2. dev \in [Id -> Card!Row]
    BY <1>2, <1>3
  <2> QED BY <1>1, <2>1, <2>2 DEF CardTyped
<1>5. \A r \in CardRequest : ~Goes(r) /\ ~Manages(r) /\ ~MayApprove(r)
  BY <1>1 DEF Goes, Manages, MayApprove
<1>6. Times /\ Approvers
  BY <1>0, <1>3, <1>5 DEF Times, Approvers
<1> QED
  BY <1>4, <1>5, <1>6 DEF CardInv, Signers, Again

\* What a request's writes do to the rows: a new device, a device let in, or
\* rows that keep who let them in and may only be removed.
Keeps ==
  \A d \in Id : /\ dev'[d].at = dev[d].at /\ dev'[d].by = dev[d].by /\ dev'[d].key = dev[d].key
                /\ dev'[d].status \in {dev[d].status, "removed"}
Enrols(r) ==
  \E d \in Id : /\ dev[d].status = "none" /\ dev'[d].status \in Card!Live
                /\ dev'[d].by = Card!NoDevice /\ dev'[d].at \in {Card!Unset, req[r].now}
                /\ \A e \in Id \ {d} : dev'[e] = dev[e]
LetsIn(r) ==
  /\ req[r].op = "approve" /\ MayApprove(r)
  /\ dev'[req[r].target] = Card!Approved(req[r], dev[req[r].target])
  /\ \A e \in Id \ {req[r].target} : dev'[e] = dev[e]

LEMMA Loads ==
  ASSUME CardTyped, NEW r \in CardRequest, req[r].pc = "write"
  PROVE  req[r] \in Loaded
BY DEF CardTyped, Started, Loaded, Card!Idle

LEMMA Reads ==
  ASSUME CardTyped, NEW r \in CardRequest, req[r].pc = "read"
  PROVE  req[r] \in Started
BY DEF CardTyped, Started, Loaded, Card!Idle

LEMMA WriteEffect ==
  ASSUME Card!DevicesAssumption, CardInv, NEW r \in CardRequest, Card!Write(r)
  PROVE  dev' \in [Id -> Card!Row] /\ (Keeps \/ Enrols(r) \/ LetsIn(r))
<1> DEFINE x == req[r]
           Goal == dev' \in [Id -> Card!Row] /\ (Keeps \/ Enrols(r) \/ LetsIn(r))
<1>1. /\ x \in Loaded /\ x.pc = "write" /\ x.now \in 0..CardTime /\ x.key \in DeviceKey
      /\ x.rows \in [Id -> Card!Row] /\ x.op \in Op
      /\ dev \in [Id -> Card!Row] /\ 0 \in 0..CardTime
  BY Loads DEF CardInv, CardTyped, Loaded, Card!Write, Card!DevicesAssumption
<1>2. Goes(r)
  BY <1>1 DEF Goes, Card!Idle
<1>3. x.op \in Card!Managed => x.target \in Id /\ x.signer \in Id
  BY <1>2 DEF CardInv, Signers, Manages
<1>4. ASSUME dev' = dev PROVE Goal
  BY <1>1, <1>4 DEF Keeps
<1>5. CASE x.op = "enrol"
  <2>1. Card!EnrolWrites(x)
    BY <1>5 DEF Card!Write
  <2>2. CASE dev' = dev
    BY <1>4, <2>2
  <2>3. ASSUME NEW d \in Id, dev[d].status = "none",
               dev' = [dev EXCEPT ![d] = Card!NewRow(x.rows, x.key, x.now)]
        PROVE  Goal
    <3> DEFINE n == Card!NewRow(x.rows, x.key, x.now)
    <3>1. n \in Card!Row /\ n.status \in Card!Live /\ n.by = Card!NoDevice /\ n.at \in {Card!Unset, x.now}
      BY <1>1 DEF Card!NewRow, Card!Row, Card!Live, Card!Unset
    <3>2. dev'[d] = n /\ (\A e \in Id \ {d} : dev'[e] = dev[e]) /\ dev' \in [Id -> Card!Row]
      BY <1>1, <2>3, <3>1
    <3> QED BY <2>3, <3>1, <3>2 DEF Enrols
  <2> QED BY <2>1, <2>2, <2>3 DEF Card!EnrolWrites
<1>6. CASE x.op = "approve"
  <2>1. Card!ApproveWrites(x) /\ x.target \in Id /\ x.signer \in Id
    BY <1>3, <1>6 DEF Card!Write, Card!Managed
  <2>2. CASE dev' = dev
    BY <1>4, <2>2
  <2>3. ASSUME Card!Approvable(x), dev' = [dev EXCEPT ![x.target] = Card!Approved(x, @)]
        PROVE  Goal
    <3>1. MayApprove(r)
      BY <1>1, <1>2, <1>6, <2>3 DEF MayApprove, Card!Approvable
    <3>2. Card!Approved(x, dev[x.target]) \in Card!Row
      BY <1>1, <2>1, ZenonT(60) DEF Card!Approved, Card!Row
    <3>3. /\ dev' \in [Id -> Card!Row] /\ dev'[x.target] = Card!Approved(x, dev[x.target])
          /\ \A e \in Id \ {x.target} : dev'[e] = dev[e]
      BY <1>1, <2>1, <2>3, <3>2
    <3> QED BY <1>6, <3>1, <3>3 DEF LetsIn
  <2> QED BY <2>1, <2>2, <2>3 DEF Card!ApproveWrites
<1>7. CASE x.op = "remove"
  <2>1. Card!RemoveWrites(x) /\ x.target \in Id
    BY <1>3, <1>7 DEF Card!Write, Card!Managed
  <2>2. CASE dev' = dev
    BY <1>4, <2>2
  <2>3. CASE dev' = [dev EXCEPT ![x.target].status = "removed"]
    BY <1>1, <2>1, <2>3 DEF Keeps, Card!Row
  <2> QED BY <2>1, <2>2, <2>3 DEF Card!RemoveWrites
<1>8. CASE x.op = "transfer"
  <2>1. Card!TransferWrites(x)
    BY <1>8 DEF Card!Write
  <2>2. CASE dev' = dev
    BY <1>4, <2>2
  <2>3. CASE dev' = [d \in Id |-> IF d = x.target THEN [dev[d] EXCEPT !.since = x.now]
                                  ELSE IF x.rows[d].since # Card!Unset
                                       THEN [dev[d] EXCEPT !.since = Card!Unset] ELSE dev[d]]
    <3>1. \A d \in Id : /\ dev[d] \in Card!Row /\ [dev[d] EXCEPT !.since = x.now] \in Card!Row
                        /\ [dev[d] EXCEPT !.since = Card!Unset] \in Card!Row
      BY <1>1 DEF Card!Row, Card!Unset
    <3>2. \A d \in Id : \E s \in {x.now, Card!Unset, dev[d].since} : dev'[d] = [dev[d] EXCEPT !.since = s]
      <4>1. \A d \in Id : dev[d] = [dev[d] EXCEPT !.since = dev[d].since]
        BY <1>1 DEF Card!Row
      <4> QED BY <2>3, <4>1
    <3>3. dev' \in [Id -> Card!Row]
      BY <2>3, <3>1
    <3>4. Keeps
      BY <3>1, <3>2 DEF Keeps, Card!Row
    <3> QED BY <3>3, <3>4
  <2> QED BY <2>1, <2>2, <2>3 DEF Card!TransferWrites
<1>9. CASE x.op = "reset"
  <2> DEFINE Gone(d) == [dev[d] EXCEPT !.status = "removed",
                               !.since = IF x.rows[d].since # Card!Unset THEN Card!Unset ELSE @]
  <2>1. dev' = [d \in Id |-> IF x.rows[d].status \in Card!Live THEN Gone(d) ELSE dev[d]]
    BY <1>9 DEF Card!Write, Card!ResetWrites
  <2>2. \A d \in Id : /\ dev[d] \in Card!Row /\ Gone(d) \in Card!Row /\ Gone(d).at = dev[d].at
                      /\ Gone(d).by = dev[d].by /\ Gone(d).key = dev[d].key /\ Gone(d).status = "removed"
    BY <1>1 DEF Card!Row, Card!Unset
  <2> HIDE DEF Gone
  <2> QED BY <2>1, <2>2 DEF Keeps
<1> QED
  BY <1>1, <1>5, <1>6, <1>7, <1>8, <1>9 DEF Op, Card!Managed

\* A request that starts is younger than all others.
LEMMA StartInv ==
  ASSUME Card!DevicesAssumption, CardInv,
         NEW r \in CardRequest, NEW op \in Op, NEW k \in DeviceKey,
         NEW t \in Id \cup {Card!NoDevice}, NEW s \in Id \cup {Card!NoDevice},
         Card!Start(r, op, k, t, s),
         op \in Card!Managed => t \in Id /\ s \in Card!Enrolled(dev) /\ dev[t].status # "none"
  PROVE  CardInv'
<1> DEFINE new == [pc |-> "read", op |-> op, key |-> k, target |-> t, signer |-> s, now |-> cardClock]
<1>1. /\ req[r] = Card!Idle /\ req' = [req EXCEPT ![r] = new] /\ dev' = dev
      /\ cardClock' = cardClock + 1 /\ cardClock < CardTime
      /\ cardClock \in 0..CardTime /\ CardTime \in Nat /\ cardClock >= 1
  BY DEF Card!Start, CardInv, CardTyped, Times, Card!DevicesAssumption
<1>2. new \in Started
  BY <1>1 DEF Started
<1>3. /\ req'[r] = new /\ \A q \in CardRequest : q # r => req'[q] = req[q]
      /\ \A q \in CardRequest : req[q] # Card!Idle => q # r
  BY <1>1 DEF CardInv, CardTyped
<1>4. CardTyped'
  BY <1>1, <1>2 DEF CardInv, CardTyped
<1>5. /\ Goes(r)' /\ \A q \in CardRequest : q # r => Goes(q)' = Goes(q) /\ Manages(q)' = Manages(q)
      /\ \A q \in CardRequest : q # r => MayApprove(q)' = MayApprove(q)
  BY <1>1, <1>3 DEF Goes, Manages, MayApprove, Card!Idle
<1>6. Manages(r)' => op \in Card!Managed
  BY <1>3 DEF Manages
<1>7. MayApprove(r)' => op = "approve" /\ dev[t].status = "pending"
  BY <1>1, <1>3 DEF MayApprove
<1>8. \A d \in Id : dev[d].at \in Nat /\ dev[d].status \in {"none", "pending", "enrolled", "removed"}
  BY DEF CardInv, CardTyped, Card!Row
<1>9. Times'
  <2>1. \A d \in Id : dev[d].at <= 1 \/ dev[d].at < cardClock + 1
    BY <1>1, <1>8 DEF CardInv, Times
  <2>2. \A d \in Id : dev[d].status = "pending" => cardClock + 1 >= 2
    BY <1>1
  <2>3. \A q \in CardRequest : Goes(q)' => 1 <= req'[q].now /\ req'[q].now < cardClock + 1
    <3>1. ASSUME NEW q \in CardRequest, q # r, Goes(q)' PROVE 1 <= req'[q].now /\ req'[q].now < cardClock + 1
      <4>1. 1 <= req[q].now /\ req[q].now < cardClock /\ req'[q] = req[q]
        BY <1>3, <1>5, <3>1 DEF CardInv, Times
      <4>2. req[q].now \in 0..CardTime
        BY <1>5, <3>1 DEF CardInv, CardTyped, Started, Loaded, Goes
      <4> QED BY <1>1, <4>1, <4>2
    <3>2. 1 <= req'[r].now /\ req'[r].now < cardClock + 1
      BY <1>1, <1>3
    <3> QED BY <3>1, <3>2
  <2> QED BY <1>1, <2>1, <2>2, <2>3 DEF Times
<1>10. Signers'
  <2>1. ASSUME Manages(r)'
        PROVE  /\ t \in Id /\ s \in Id /\ dev[t].status # "none" /\ dev[s].status = "enrolled"
               /\ MayApprove(r)' => t # s /\ dev[s].at < cardClock
    <3>1. t \in Id /\ s \in Id /\ dev[t].status # "none" /\ dev[s].status = "enrolled"
      BY <1>6, <2>1 DEF Card!Enrolled
    <3>2. ASSUME dev[t].status = "pending" PROVE dev[s].at < cardClock
      BY <1>1, <1>8, <3>1, <3>2 DEF CardInv, Times
    <3> QED BY <1>7, <3>1, <3>2
  <2> QED BY <1>1, <1>3, <1>5, <2>1 DEF CardInv, Signers
<1>11. Approvers'
  BY <1>1 DEF CardInv, Approvers
<1>12. Again'
  <2>1. \A q \in CardRequest : Goes(q) => req[q].now < cardClock
    BY DEF CardInv, Times
  <2>2. \A q \in CardRequest : Manages(q) => Goes(q) /\ dev[req[q].signer].status \in {"enrolled", "removed"}
    BY DEF CardInv, Signers, Manages
  <2>3. ASSUME MayApprove(r)'
        PROVE  /\ \A q \in CardRequest : Manages(q)' => req'[q].signer # t
               /\ \A d \in Id : dev[d].by # t
    <3>0. t \in Id /\ dev[t].status = "pending" /\ t # Card!NoDevice
      BY <1>7, <2>3 DEF Card!Managed, Card!DevicesAssumption, Card!NoDevice
    <3>1. ASSUME NEW q \in CardRequest, q # r, Manages(q)' PROVE req'[q].signer # t
      BY <1>3, <1>5, <2>2, <3>0, <3>1
    <3>2. ASSUME Manages(r)' PROVE s # t
      BY <1>6, <3>0, <3>2 DEF Card!Enrolled
    <3>3. \A d \in Id : dev[d].by # t
      BY <3>0 DEF CardInv, Approvers
    <3> QED BY <1>3, <3>1, <3>2, <3>3
  <2>4. ASSUME NEW p \in CardRequest, p # r, MayApprove(p)
        PROVE  /\ \A q \in CardRequest : Manages(q)' /\ req'[q].signer = req[p].target => req[p].now < req'[q].now
               /\ \A d \in Id : dev[d].by = req[p].target => req[p].now < dev[d].at
    <3>1. Goes(p) /\ req[p].now < cardClock
      BY <2>1, <2>4 DEF MayApprove
    <3> QED BY <1>3, <1>5, <2>4, <3>1 DEF CardInv, Again
  <2> QED BY <1>1, <1>3, <1>5, <2>3, <2>4 DEF Again
<1> QED BY <1>4, <1>9, <1>10, <1>11, <1>12 DEF CardInv

LEMMA ReadInv ==
  ASSUME CardInv, NEW r \in CardRequest, Card!ReadRows(r)
  PROVE  CardInv'
<1> DEFINE x == req[r]
           new == [pc |-> "write", op |-> x.op, key |-> x.key, target |-> x.target,
                   signer |-> x.signer, now |-> x.now, rows |-> dev]
<1>1. /\ x.pc = "read" /\ req' = [req EXCEPT ![r] = new] /\ dev' = dev /\ cardClock' = cardClock
      /\ x \in Started
  BY Reads DEF Card!ReadRows, CardInv
<1>2. new \in Loaded
  BY <1>1 DEF Started, Loaded, CardInv, CardTyped
<1>3. /\ req'[r] = new /\ \A q \in CardRequest : q # r => req'[q] = req[q]
  BY <1>1 DEF CardInv, CardTyped
<1>4. CardTyped'
  BY <1>1, <1>2 DEF CardInv, CardTyped
<1>5. \A q \in CardRequest :
        /\ Goes(q)' = Goes(q) /\ Manages(q)' = Manages(q) /\ MayApprove(q)' = MayApprove(q)
        /\ req'[q].target = req[q].target /\ req'[q].signer = req[q].signer /\ req'[q].now = req[q].now
  <2>1. Goes(r) /\ Goes(r)'
    BY <1>1, <1>3 DEF Goes, Card!Idle
  <2>2. Goes(r)' = Goes(r) /\ Manages(r)' = Manages(r) /\ MayApprove(r)' = MayApprove(r)
    BY <1>1, <1>3, <2>1 DEF Goes, Manages, MayApprove
  <2>3. \A q \in CardRequest : q # r => Goes(q)' = Goes(q) /\ Manages(q)' = Manages(q) /\ MayApprove(q)' = MayApprove(q)
    BY <1>1, <1>3 DEF Goes, Manages, MayApprove
  <2> QED BY <1>3, <2>2, <2>3
<1>6. Times'
  BY <1>1, <1>5 DEF CardInv, Times
<1>7. Signers'
  BY <1>1, <1>5 DEF CardInv, Signers
<1>8. Approvers' /\ Again'
  BY <1>1, <1>5 DEF CardInv, Approvers, Again
<1> QED BY <1>4, <1>6, <1>7, <1>8 DEF CardInv

\* A request that writes and ends.
LEMMA WriteInv ==
  ASSUME Card!DevicesAssumption, CardInv, NEW r \in CardRequest, Card!Write(r)
  PROVE  CardInv'
<1> DEFINE x == req[r]
           t == x.target
<1>1. /\ x \in Loaded /\ x.pc = "write" /\ req' = [req EXCEPT ![r] = Card!Idle]
      /\ cardClock' = cardClock /\ cardClock \in Nat
  BY Loads DEF CardInv, CardTyped, Card!Write
<1>2. dev' \in [Id -> Card!Row] /\ (Keeps \/ Enrols(r) \/ LetsIn(r))
  BY WriteEffect
<1>3. req'[r] = Card!Idle /\ \A q \in CardRequest : q # r => req'[q] = req[q]
  BY <1>1 DEF CardInv, CardTyped
<1>4. CardTyped'
  BY <1>1, <1>2 DEF CardInv, CardTyped
<1>5. \A q \in CardRequest : Goes(q)' => q # r /\ Goes(q)
  BY <1>3 DEF Goes
<1>6. \A q \in CardRequest : Manages(q)' => q # r /\ Manages(q)
  BY <1>3, <1>5 DEF Manages
<1>7. Goes(r) /\ 1 <= x.now /\ x.now < cardClock /\ x.now \in Nat
  <2>1. Goes(r)
    BY <1>1 DEF Goes, Card!Idle
  <2> QED BY <1>1, <2>1 DEF CardInv, Times, Loaded
<1>8. \A d \in Id : /\ dev[d].at \in Nat /\ dev'[d].at \in Nat
                    /\ dev[d].status \in {"none", "pending", "enrolled", "removed"}
                    /\ dev[d].by \in Id \cup {Card!NoDevice}
  BY <1>2 DEF CardInv, CardTyped, Card!Row
<1>9. ASSUME LetsIn(r)
      PROVE  /\ t \in Id /\ x.signer \in Id /\ t # x.signer /\ Manages(r) /\ MayApprove(r)
             /\ dev[t].status # "none" /\ dev[x.signer].status \in {"enrolled", "removed"}
             /\ dev[x.signer].at < x.now
             /\ dev'[t].status = "enrolled" /\ dev'[t].at = x.now /\ dev'[t].by = x.signer
             /\ \A e \in Id \ {t} : dev'[e] = dev[e]
  <2>1. Manages(r) /\ MayApprove(r)
    BY <1>7, <1>9 DEF LetsIn, Manages, Card!Managed
  <2>2. /\ t \in Id /\ x.signer \in Id /\ t # x.signer /\ dev[t].status # "none"
        /\ dev[x.signer].status \in {"enrolled", "removed"} /\ dev[x.signer].at < x.now
    BY <2>1 DEF CardInv, Signers
  <2>3. dev'[t].status = "enrolled" /\ dev'[t].at = x.now /\ dev'[t].by = x.signer
    BY <1>9, <2>2 DEF LetsIn, Card!Approved, CardInv, CardTyped, Card!Row
  <2> QED BY <1>9, <2>1, <2>2, <2>3 DEF LetsIn
\* What a device's row becomes, for the parts the invariant speaks of.
<1>10. ASSUME NEW d \in Id
       PROVE  /\ dev[d].status # "none" => dev'[d].status # "none"
              /\ dev[d].status \in {"enrolled", "removed"} => dev'[d].status \in {"enrolled", "removed"}
              /\ dev'[d].status = "pending" => dev[d].status \in {"pending", "none"}
              /\ dev'[d].at \in {dev[d].at, 0, x.now}
  <2>1. CASE Keeps
    BY <1>8, <1>10, <2>1 DEF Keeps
  <2>2. CASE Enrols(r)
    BY <1>8, <1>10, <2>2 DEF Enrols, Card!Live, Card!Unset
  <2>3. CASE LetsIn(r)
    BY <1>9, <1>10, <2>3
  <2> QED BY <1>2, <2>1, <2>2, <2>3
<1>11. Times'
  <2>1. \A d \in Id : dev'[d].at <= 1 \/ dev'[d].at < cardClock
    BY <1>1, <1>7, <1>8, <1>10 DEF CardInv, Times
  <2>2. cardClock >= 2
    BY <1>1, <1>7
  <2>3. \A q \in CardRequest : Goes(q)' => 1 <= req'[q].now /\ req'[q].now < cardClock
    BY <1>3, <1>5 DEF CardInv, Times
  <2> QED BY <1>1, <2>1, <2>2, <2>3 DEF CardInv, Times
\* Who may let a device in afterwards, could before.
<1>12. ASSUME NEW q \in CardRequest, MayApprove(q)'
       PROVE  /\ q # r /\ MayApprove(q) /\ req'[q] = req[q] /\ Manages(q)
              /\ Manages(q)'
  <2>1. q # r /\ Goes(q) /\ req'[q] = req[q] /\ req[q].op = "approve"
    BY <1>3, <1>5, <1>12 DEF MayApprove
  <2>2. Manages(q) /\ Manages(q)'
    BY <2>1 DEF Manages, Goes, Card!Managed
  <2>3. req[q].target \in Id /\ dev[req[q].target].status # "none"
    BY <2>2 DEF CardInv, Signers
  <2>4. MayApprove(q)
    BY <1>10, <1>12, <2>1, <2>3 DEF MayApprove
  <2> QED BY <2>1, <2>2, <2>4
\* A device is let in again only by a request older than those it signed.
<1>13. ASSUME NEW q \in CardRequest, Manages(q)', LetsIn(r), req[q].signer = t
       PROVE  x.now < req[q].now
  BY <1>6, <1>9, <1>13 DEF CardInv, Again
<1>14. Signers'
  <2>1. SUFFICES ASSUME NEW q \in CardRequest, Manages(q)'
        PROVE  /\ req'[q].target \in Id /\ req'[q].signer \in Id
               /\ dev'[req'[q].target].status # "none"
               /\ dev'[req'[q].signer].status \in {"enrolled", "removed"}
               /\ MayApprove(q)' => /\ req'[q].target # req'[q].signer
                                    /\ dev'[req'[q].signer].at < req'[q].now
    BY DEF Signers
  <2>2. q # r /\ Manages(q) /\ req'[q] = req[q]
    BY <1>3, <1>6, <2>1
  <2>3. /\ req[q].target \in Id /\ req[q].signer \in Id /\ dev[req[q].target].status # "none"
        /\ dev[req[q].signer].status \in {"enrolled", "removed"}
        /\ MayApprove(q) => req[q].target # req[q].signer /\ dev[req[q].signer].at < req[q].now
    BY <2>2 DEF CardInv, Signers
  <2>4. ASSUME MayApprove(q)'
        PROVE  req[q].target # req[q].signer /\ dev'[req[q].signer].at < req[q].now
    <3>1. req[q].target # req[q].signer /\ dev[req[q].signer].at < req[q].now
      BY <1>12, <2>3, <2>4
    <3>2. CASE Keeps
      BY <2>3, <3>1, <3>2 DEF Keeps
    <3>3. CASE Enrols(r)
      BY <2>3, <3>1, <3>3 DEF Enrols
    <3>4. CASE LetsIn(r)
      BY <1>9, <1>13, <2>1, <2>3, <3>1, <3>4
    <3> QED BY <1>2, <3>1, <3>2, <3>3, <3>4
  <2> QED BY <1>10, <2>2, <2>3, <2>4
<1>15. Approvers'
  <2>1. SUFFICES ASSUME NEW d \in Id, dev'[d].by # Card!NoDevice
        PROVE  /\ dev'[dev'[d].by].status \in {"enrolled", "removed"}
               /\ dev'[dev'[d].by].at < dev'[d].at
    BY DEF Approvers
  <2>2. CASE Keeps
    <3>1. dev'[d].by = dev[d].by /\ dev[d].by \in Id
      BY <1>8, <2>1, <2>2 DEF Keeps
    <3> QED BY <1>10, <2>1, <2>2, <3>1 DEF Keeps, CardInv, Approvers
  <2>3. CASE Enrols(r)
    <3>1. PICK n \in Id : /\ dev[n].status = "none" /\ dev'[n].by = Card!NoDevice
                          /\ \A e \in Id \ {n} : dev'[e] = dev[e]
      BY <2>3 DEF Enrols
    <3>2. d # n /\ dev'[d] = dev[d] /\ dev[d].by \in Id
      BY <1>8, <2>1, <3>1
    <3>3. dev[d].by # n
      BY <2>1, <3>1, <3>2 DEF CardInv, Approvers
    <3> QED BY <2>1, <3>1, <3>2, <3>3 DEF CardInv, Approvers
  <2>4. CASE LetsIn(r)
    <3>1. CASE d = t
      BY <1>9, <2>4, <3>1
    <3>2. CASE d # t
      <4>1. dev'[d] = dev[d] /\ dev[d].by \in Id
        BY <1>8, <1>9, <2>1, <2>4, <3>2
      <4>2. CASE dev[d].by = t
        BY <1>9, <2>4, <4>1, <4>2 DEF CardInv, Again
      <4>3. CASE dev[d].by # t
        BY <1>9, <2>1, <2>4, <4>1, <4>3 DEF CardInv, Approvers
      <4> QED BY <4>2, <4>3
    <3> QED BY <3>1, <3>2
  <2> QED BY <1>2, <2>2, <2>3, <2>4
<1>16. Again'
  <2>1. SUFFICES ASSUME NEW p \in CardRequest, MayApprove(p)'
        PROVE  /\ \A q \in CardRequest :
                    Manages(q)' /\ req'[q].signer = req'[p].target => req'[p].now < req'[q].now
               /\ \A d \in Id : dev'[d].by = req'[p].target => req'[p].now < dev'[d].at
    BY DEF Again
  <2>2. /\ p # r /\ MayApprove(p) /\ req'[p] = req[p] /\ req[p].target \in Id /\ Manages(p)
        /\ req[p].target # Card!NoDevice
    BY <1>12, <2>1 DEF CardInv, Signers, Card!DevicesAssumption, Card!NoDevice
  <2>3. \A q \in CardRequest :
          Manages(q)' /\ req'[q].signer = req'[p].target => req'[p].now < req'[q].now
    BY <1>3, <1>6, <2>2 DEF CardInv, Again
  <2>4. ASSUME NEW d \in Id, dev'[d].by = req[p].target
        PROVE  req[p].now < dev'[d].at
    <3>1. CASE Keeps
      BY <2>2, <2>4, <3>1 DEF Keeps, CardInv, Again
    <3>2. CASE Enrols(r)
      BY <2>2, <2>4, <3>2 DEF Enrols, CardInv, Again
    <3>3. CASE LetsIn(r)
      <4>1. CASE d = t
        <5>1. x.signer = req[p].target /\ Manages(r)
          BY <1>9, <2>4, <3>3, <4>1
        <5>2. req[p].now < x.now
          BY <2>2, <5>1 DEF CardInv, Again
        <5> QED BY <1>9, <3>3, <4>1, <5>2
      <4>2. CASE d # t
        BY <1>9, <2>2, <2>4, <3>3, <4>2 DEF CardInv, Again
      <4> QED BY <4>1, <4>2
    <3> QED BY <1>2, <3>1, <3>2, <3>3
  <2> QED BY <2>2, <2>3, <2>4
<1> QED BY <1>4, <1>11, <1>14, <1>15, <1>16 DEF CardInv

\* The steps of a request.
LEMMA RequestSteps ==
  ASSUME Card!DevicesAssumption, Card!Next
  PROVE  \E r \in CardRequest :
           \/ \E op \in Op, k \in DeviceKey, t, s \in Id \cup {Card!NoDevice} :
                /\ Card!Start(r, op, k, t, s)
                /\ op \in Card!Managed => t \in Id /\ s \in Card!Enrolled(dev) /\ dev[t].status # "none"
           \/ Card!ReadRows(r)
           \/ Card!Write(r)
<1> DEFINE Starts(r) ==
             \E op \in Op, k \in DeviceKey, t, s \in Id \cup {Card!NoDevice} :
                /\ Card!Start(r, op, k, t, s)
                /\ op \in Card!Managed => t \in Id /\ s \in Card!Enrolled(dev) /\ dev[t].status # "none"
<1>0. Card!NoRow.key \in DeviceKey
  BY DEF Card!NoRow, Card!DevicesAssumption
<1>1. PICK r \in CardRequest : Card!Enrol(r) \/ Card!Manage(r) \/ Card!Reset(r) \/ Card!ReadRows(r) \/ Card!Write(r)
  BY DEF Card!Next
<1>2. ASSUME Card!Enrol(r) PROVE Starts(r)
  <2>1. PICK k \in DeviceKey : Card!Start(r, "enrol", k, Card!NoDevice, Card!NoDevice)
    BY <1>2 DEF Card!Enrol
  <2>2. "enrol" \in Op /\ "enrol" \notin Card!Managed
    BY DEF Op, Card!Managed
  <2> QED BY <2>1, <2>2
<1>3. ASSUME Card!Manage(r) PROVE Starts(r)
  <2>1. PICK op \in Card!Managed, t \in Id, s \in Card!Enrolled(dev) :
          dev[t].status # "none" /\ Card!Start(r, op, Card!NoRow.key, t, s)
    BY <1>3 DEF Card!Manage
  <2>2. op \in Op /\ s \in Id
    BY DEF Op, Card!Enrolled
  <2> QED BY <1>0, <2>1, <2>2
<1>4. ASSUME Card!Reset(r) PROVE Starts(r)
  <2>1. Card!Start(r, "reset", Card!NoRow.key, Card!NoDevice, Card!NoDevice)
    BY <1>4 DEF Card!Reset
  <2>2. "reset" \in Op /\ "reset" \notin Card!Managed
    BY DEF Op, Card!Managed
  <2> QED BY <1>0, <2>1, <2>2
<1> QED BY <1>1, <1>2, <1>3, <1>4

LEMMA CardInductive ==
  ASSUME Card!DevicesAssumption
  PROVE  Card!Spec => []CardInv
<1>1. Card!Init => CardInv
  BY CardInitInv
<1>2. CardInv /\ [Card!Next]_Card!vars => CardInv'
  <2>1. ASSUME CardInv, Card!Next PROVE CardInv'
    BY <2>1, RequestSteps, StartInv, ReadInv, WriteInv
  <2>2. ASSUME CardInv, UNCHANGED Card!vars PROVE CardInv'
    BY <2>2 DEF CardInv, CardTyped, Times, Signers, Approvers, Again, Goes, Manages, MayApprove, Card!vars
  <2> QED BY <2>1, <2>2
<1> QED BY <1>1, <1>2, PTL DEF Card!Spec

\* However requests overlap, whoever let a device in was let in before it
\* (approve, devices.py).
THEOREM ApprovedInOrder ==
  ASSUME Card!DevicesAssumption
  PROVE  Card!Spec => []Card!ApprovedByAnOlder
<1>1. CardInv => Card!ApprovedByAnOlder
  BY DEF CardInv, Approvers, Card!ApprovedByAnOlder
<1> QED BY CardInductive, <1>1, PTL

-----------------------------------------------------------------------------
\* One request at a time.

\* The one controller a card's rows give, by its mark or by being the first.
Earlier(table, c, e) == table[c].at < table[e].at \/ (table[c].at = table[e].at /\ c < e)
Rightful(table, c) ==
  /\ c \in Card!Enrolled(table)
  /\ \/ /\ table[c].since # Card!Unset
        /\ \A e \in Card!Enrolled(table) \ {c} : table[e].since = Card!Unset
     \/ /\ \A e \in Card!Enrolled(table) : table[e].since = Card!Unset
        /\ \A e \in Card!Enrolled(table) \ {c} : Earlier(table, c, e)

LEMMA RightfulControls ==
  ASSUME Card!DevicesAssumption, NEW table \in [Id -> Card!Row], NEW c, Rightful(table, c)
  PROVE  Card!ControllerOf(table) = c
<1> DEFINE live == Card!Enrolled(table)
           marked == {d \in live : table[d].since # Card!Unset}
           Before(s, t, d, e) == s < t \/ (s = t /\ d < e)
<1>1. c \in live /\ live \subseteq Id /\ \A d \in Id : d \in Nat /\ table[d].at \in Nat
  BY DEF Rightful, Card!Enrolled, Card!Row, Card!DevicesAssumption
<1>2. CASE marked # {}
  <2>1. marked = {c}
    BY <1>1, <1>2 DEF Rightful
  <2>2. Card!ControllerOf(table) =
          CHOOSE d \in marked : \A e \in marked \ {d} : Before(table[e].since, table[d].since, e, d)
    BY <1>2 DEF Card!ControllerOf
  <2> QED BY <2>1, <2>2
<1>3. CASE marked = {}
  <2>1. \A e \in live \ {c} : Earlier(table, c, e)
    BY <1>1, <1>3 DEF Rightful
  <2>2. \A e \in live \ {c} : Before(table[c].at, table[e].at, c, e)
    BY <2>1 DEF Earlier
  <2>3. ASSUME NEW d \in live \ {c} PROVE ~Before(table[d].at, table[c].at, d, c)
    BY <1>1, <2>2, <2>3
  <2>4. Card!ControllerOf(table) =
          CHOOSE d \in live : \A e \in live \ {d} : Before(table[d].at, table[e].at, d, e)
    BY <1>1, <1>3 DEF Card!ControllerOf
  <2> HIDE DEF Before, live, marked
  <2> QED BY <1>1, <2>2, <2>3, <2>4
<1> QED BY <1>2, <1>3

LEMMA SomeRightful ==
  ASSUME Card!DevicesAssumption, NEW table \in [Id -> Card!Row], Card!Enrolled(table) # {},
         \A d, e \in Card!Enrolled(table) :
           table[d].since # Card!Unset /\ table[e].since # Card!Unset => d = e
  PROVE  \E c : Rightful(table, c)
<1> DEFINE live == Card!Enrolled(table)
           ats == {table[d].at : d \in live}
<1>1. live \subseteq Id /\ live # {} /\ \A d \in Id : d \in Nat /\ table[d].at \in Nat
  BY DEF Card!Enrolled, Card!Row, Card!DevicesAssumption
<1>2. CASE \E d \in live : table[d].since # Card!Unset
  BY <1>2 DEF Rightful
<1>3. CASE \A d \in live : table[d].since = Card!Unset
  <2>1. PICK at \in ats : \A n \in ats : at <= n
    <3>1. ats \in SUBSET Nat /\ ats # {}
      BY <1>1
    <3> HIDE DEF ats
    <3> QED BY <3>1, Least
  <2> DEFINE firsts == {d \in live : table[d].at = at}
  <2>2. PICK c \in firsts : \A d \in firsts : c <= d
    <3>1. firsts \in SUBSET Nat /\ firsts # {}
      BY <1>1, <2>1
    <3> HIDE DEF firsts
    <3> QED BY <3>1, Least
  <2>3. ASSUME NEW e \in live \ {c} PROVE Earlier(table, c, e)
    <3>1. table[c].at <= table[e].at /\ c \in Nat /\ e \in Nat /\ table[e].at \in Nat /\ table[c].at \in Nat
      BY <1>1, <2>1, <2>2, <2>3
    <3>2. table[e].at = table[c].at => c <= e /\ c # e
      BY <2>2, <2>3
    <3> QED BY <3>1, <3>2 DEF Earlier
  <2>4. c \in live
    BY <2>2
  <2> QED BY <1>3, <2>3, <2>4 DEF Rightful
<1> QED BY <1>2, <1>3

LEMMA NoController ==
  ASSUME NEW table, Card!Enrolled(table) = {}
  PROVE  Card!ControllerOf(table) = Card!NoDevice
BY DEF Card!ControllerOf

LEMMA TheController ==
  ASSUME Card!DevicesAssumption, AloneInv, Card!Enrolled(dev) # {}
  PROVE  Rightful(dev, Card!ControllerOf(dev))
<1>1. dev \in [Id -> Card!Row]
  BY DEF AloneInv, CardInv, CardTyped
<1>2. PICK c : Rightful(dev, c)
  BY <1>1, SomeRightful DEF AloneInv, OneMark
<1> QED BY <1>1, <1>2, RightfulControls

LEMMA AloneInit ==
  ASSUME Card!DevicesAssumption, Card!Init
  PROVE  AloneInv
<1>1. CardInv
  BY CardInitInv
<1>2. \A r \in CardRequest : req[r] = Card!Idle
  BY DEF Card!Init
<1>3. \A r \in CardRequest : ~Goes(r) /\ ~Manages(r) /\ req[r].pc # "write"
  BY <1>2 DEF Goes, Manages, Card!Idle
<1>4. PICK old \in SUBSET Id, k \in [Id -> DeviceKey] :
        /\ \A d, e \in old : d # e => k[d] # k[e]
        /\ dev = [d \in Id |-> IF d \in old
                               THEN [Card!NoRow EXCEPT !.status = "enrolled", !.key = k[d], !.at = 1]
                               ELSE Card!NoRow]
  BY DEF Card!Init
<1>5. ASSUME NEW d \in Id
      PROVE  /\ dev[d].since = Card!Unset /\ dev[d].status \in {"none", "enrolled"}
             /\ dev[d].status = "enrolled" => d \in old /\ dev[d].key = k[d]
  BY <1>4, <1>5 DEF Card!NoRow
<1>6. OneMark
  BY <1>5 DEF OneMark, Card!Enrolled
<1>7. Card!OneDevicePerKey
  <2>1. ASSUME NEW d \in Id, NEW e \in Id, d # e, dev[d].status \in Card!Live, dev[e].status \in Card!Live
        PROVE  dev[d].key # dev[e].key
    <3>1. d \in old /\ e \in old /\ dev[d].key = k[d] /\ dev[e].key = k[e]
      BY <1>5, <2>1 DEF Card!Live
    <3> QED BY <1>4, <2>1, <3>1
  <2> QED BY <2>1 DEF Card!OneDevicePerKey
<1> QED BY <1>1, <1>3, <1>6, <1>7 DEF AloneInv, Alone, AloneTimes

LEMMA AloneStart ==
  ASSUME Card!DevicesAssumption, AloneInv, NEW r, CardRequest = {r},
         NEW op \in Op, NEW k \in DeviceKey,
         NEW t \in Id \cup {Card!NoDevice}, NEW s \in Id \cup {Card!NoDevice},
         Card!Start(r, op, k, t, s),
         op \in Card!Managed => t \in Id /\ s \in Card!Enrolled(dev) /\ dev[t].status # "none"
  PROVE  AloneInv' /\ dev' = dev
<1> DEFINE new == [pc |-> "read", op |-> op, key |-> k, target |-> t, signer |-> s, now |-> cardClock]
<1>1. CardInv'
  BY StartInv DEF AloneInv
<1>2. req[r] = Card!Idle /\ req' = [req EXCEPT ![r] = new] /\ dev' = dev
  BY DEF Card!Start
<1>4. req'[r] = new
  BY <1>2 DEF AloneInv, CardInv, CardTyped
<1>5. Goes(r)' /\ \A q \in CardRequest : Goes(q)' => q = r
  BY <1>4 DEF Goes, Card!Idle
<1>6. Alone'
  <2>1. req'[r].pc # "write"
    BY <1>4
  <2>2. Manages(r)' => s \in Card!Enrolled(dev)
    BY <1>4, <1>5 DEF Manages
  <2> QED BY <1>2, <1>4, <2>1, <2>2 DEF Alone, Card!Enrolled
<1>7. AloneTimes'
  <2>1. \A d \in Id : dev[d].at \in Nat /\ cardClock \in Nat /\ cardClock >= 1
    BY DEF AloneInv, CardInv, CardTyped, Times, Card!Row
  <2>2. \A d \in Id : dev[d].at <= cardClock
    BY <2>1 DEF AloneInv, CardInv, Times
  <2>3. ASSUME MayApprove(r)', NEW d \in Id PROVE dev[d].at < cardClock
    <3>1. op = "approve" /\ t \in Id /\ dev[t].status = "pending"
      BY <1>2, <1>4, <2>3 DEF MayApprove, Card!Managed
    <3>2. cardClock >= 2
      BY <3>1 DEF AloneInv, CardInv, Times
    <3> QED BY <2>1, <3>2 DEF AloneInv, CardInv, Times
  <2> QED BY <1>2, <1>4, <1>5, <2>2, <2>3 DEF AloneTimes
<1>8. OneMark' /\ Card!OneDevicePerKey'
  BY <1>2 DEF AloneInv, OneMark, Card!OneDevicePerKey, Card!Enrolled
<1> QED BY <1>1, <1>2, <1>6, <1>7, <1>8 DEF AloneInv

LEMMA AloneRead ==
  ASSUME AloneInv, NEW r \in CardRequest, Card!ReadRows(r)
  PROVE  AloneInv' /\ dev' = dev
<1> DEFINE x == req[r]
           new == [pc |-> "write", op |-> x.op, key |-> x.key, target |-> x.target,
                   signer |-> x.signer, now |-> x.now, rows |-> dev]
<1>1. /\ x.pc = "read" /\ req' = [req EXCEPT ![r] = new] /\ dev' = dev
  BY DEF Card!ReadRows
<1>2. CardInv'
  BY ReadInv DEF AloneInv
<1>3. req'[r] = new /\ \A q \in CardRequest : q # r => req'[q] = req[q]
  BY <1>1 DEF AloneInv, CardInv, CardTyped
<1>4. Goes(r) /\ Goes(r)'
  BY <1>1, <1>3 DEF Goes, Card!Idle
<1>5. /\ Manages(r)' => Manages(r)
      /\ MayApprove(r)' => MayApprove(r)
      /\ \A q \in CardRequest : q # r => /\ Goes(q)' => Goes(q)
                                         /\ Manages(q)' => Manages(q)
                                         /\ MayApprove(q)' => MayApprove(q)
  BY <1>1, <1>3, <1>4 DEF Manages, MayApprove, Goes
<1>7. Alone'
  <2>1. \A q \in CardRequest : req'[q].pc = "write" => req'[q].rows = dev
    BY <1>3 DEF AloneInv, Alone
  <2>2. \A q \in CardRequest : Manages(q)' => dev[req'[q].signer].status = "enrolled"
    BY <1>3, <1>5 DEF AloneInv, Alone
  <2> QED BY <1>1, <2>1, <2>2 DEF AloneInv, Alone
<1>8. AloneTimes'
  BY <1>1, <1>3, <1>4, <1>5 DEF AloneInv, AloneTimes
<1>9. OneMark' /\ Card!OneDevicePerKey'
  BY <1>1 DEF AloneInv, OneMark, Card!OneDevicePerKey, Card!Enrolled
<1> QED BY <1>1, <1>2, <1>7, <1>8, <1>9 DEF AloneInv

\* What the one request that writes makes of the rows it read, which are the
\* card's: nothing, or
FirstIn(x, n) ==     \* the first device of a card enrols
  /\ x.op = "enrol" /\ dev[n].status = "none" /\ Card!Enrolled(dev) = {}
  /\ \A d \in Id : dev[d].status \in Card!Live => dev[d].key # x.key
  /\ dev'[n] = [status |-> "enrolled", key |-> x.key, at |-> x.now, by |-> Card!NoDevice, since |-> x.now]
  /\ \A e \in Id \ {n} : dev'[e] = dev[e]
WaitsFor(x, n) ==    \* a later one enrols
  /\ x.op = "enrol" /\ dev[n].status = "none"
  /\ \A d \in Id : dev[d].status \in Card!Live => dev[d].key # x.key
  /\ dev'[n] = [status |-> "pending", key |-> x.key, at |-> Card!Unset, by |-> Card!NoDevice, since |-> Card!Unset]
  /\ \A e \in Id \ {n} : dev'[e] = dev[e]
Admitted(x, t) ==    \* the controller lets one in
  /\ x.op = "approve" /\ Card!ControllerOf(dev) = x.signer /\ dev[t].status = "pending" /\ x.target = t
  /\ dev'[t] = Card!Approved(x, dev[t])
  /\ \A e \in Id \ {t} : dev'[e] = dev[e]
Dropped(x, t) ==     \* it removes another
  /\ x.op = "remove" /\ Card!ControllerOf(dev) = x.signer /\ t # x.signer
  /\ dev[t].status \in Card!Live
  /\ dev'[t] = [dev[t] EXCEPT !.status = "removed"]
  /\ \A e \in Id \ {t} : dev'[e] = dev[e]
Handed(x, t) ==      \* it hands its mark over
  /\ x.op = "transfer" /\ Card!ControllerOf(dev) = x.signer /\ t # x.signer
  /\ dev[t].status = "enrolled" /\ x.target = t
  /\ dev'[t] = [dev[t] EXCEPT !.since = x.now]
  /\ \A e \in Id \ {t} : dev'[e] = [dev[e] EXCEPT !.since = Card!Unset]
Cleared(x) ==        \* the operator removes all
  /\ x.op = "reset"
  /\ \A d \in Id : /\ dev'[d].key = dev[d].key
                   /\ dev'[d].status = IF dev[d].status \in Card!Live THEN "removed" ELSE dev[d].status

Effects(x) ==
  dev' = dev \/ Cleared(x)
  \/ \E n \in Id : FirstIn(x, n) \/ WaitsFor(x, n) \/ Admitted(x, n) \/ Dropped(x, n) \/ Handed(x, n)

LEMMA AloneEffects ==
  ASSUME Card!DevicesAssumption, AloneInv, NEW r \in CardRequest, Card!Write(r)
  PROVE  Effects(req[r])
<1> DEFINE x == req[r]
<1>1. /\ x \in Loaded /\ x.pc = "write" /\ x.rows = dev /\ x.op \in Op /\ dev \in [Id -> Card!Row]
      /\ x.key \in DeviceKey /\ x.now \in 0..CardTime
  BY Loads DEF AloneInv, CardInv, CardTyped, Alone, Loaded, Card!Write
<1>2. x.op \in Card!Managed => x.target \in Id
  BY <1>1 DEF AloneInv, CardInv, Signers, Manages, Goes, Card!Idle
<1>3. CASE x.op = "enrol"
  <2>1. Card!EnrolWrites(x)
    BY <1>3 DEF Card!Write
  <2>2. ASSUME ~Card!Known(dev, x.key), NEW n \in Id, dev[n].status = "none",
               dev' = [dev EXCEPT ![n] = Card!NewRow(dev, x.key, x.now)]
        PROVE  FirstIn(x, n) \/ WaitsFor(x, n)
    <3>1. \A d \in Id : dev[d].status \in Card!Live => dev[d].key # x.key
      BY <2>2 DEF Card!Known
    <3>2. dev'[n] = Card!NewRow(dev, x.key, x.now) /\ \A e \in Id \ {n} : dev'[e] = dev[e]
      BY <1>1, <2>2
    <3> QED BY <1>3, <2>2, <3>1, <3>2 DEF FirstIn, WaitsFor, Card!NewRow
  <2> QED BY <1>1, <2>1, <2>2 DEF Card!EnrolWrites, Effects
<1>4. CASE x.op = "approve"
  <2>1. Card!ApproveWrites(x) /\ x.target \in Id
    BY <1>2, <1>4 DEF Card!Write, Card!Managed
  <2>2. ASSUME Card!ControllerSigned(x), Card!Approvable(x),
               dev' = [dev EXCEPT ![x.target] = Card!Approved(x, @)]
        PROVE  Admitted(x, x.target)
    BY <1>1, <1>4, <2>1, <2>2 DEF Admitted, Card!ControllerSigned, Card!Approvable
  <2> QED BY <2>1, <2>2 DEF Card!ApproveWrites, Effects
<1>5. CASE x.op = "remove"
  <2>1. Card!RemoveWrites(x) /\ x.target \in Id
    BY <1>2, <1>5 DEF Card!Write, Card!Managed
  <2>2. ASSUME Card!ControllerSigned(x), Card!Removable(x),
               dev' = [dev EXCEPT ![x.target].status = "removed"]
        PROVE  Dropped(x, x.target)
    BY <1>1, <1>5, <2>1, <2>2 DEF Dropped, Card!ControllerSigned, Card!Removable
  <2> QED BY <2>1, <2>2 DEF Card!RemoveWrites, Effects
<1>6. CASE x.op = "transfer"
  <2>1. Card!TransferWrites(x) /\ x.target \in Id
    BY <1>2, <1>6 DEF Card!Write, Card!Managed
  <2>2. ASSUME Card!ControllerSigned(x), dev[x.target].status = "enrolled",
               x.target # Card!ControllerOf(dev),
               dev' = [d \in Id |-> IF d = x.target THEN [dev[d] EXCEPT !.since = x.now]
                                    ELSE IF dev[d].since # Card!Unset
                                         THEN [dev[d] EXCEPT !.since = Card!Unset] ELSE dev[d]]
        PROVE  Handed(x, x.target)
    <3>1. \A d \in Id : dev[d].since = Card!Unset => dev[d] = [dev[d] EXCEPT !.since = Card!Unset]
      BY <1>1 DEF Card!Row
    <3>2. /\ dev'[x.target] = [dev[x.target] EXCEPT !.since = x.now]
          /\ \A e \in Id \ {x.target} : dev'[e] = [dev[e] EXCEPT !.since = Card!Unset]
      BY <2>1, <2>2, <3>1
    <3> QED BY <1>1, <1>6, <2>2, <3>2 DEF Handed, Card!ControllerSigned
  <2> QED BY <1>1, <2>1, <2>2 DEF Card!TransferWrites, Effects
<1>7. CASE x.op = "reset"
  <2>1. Card!ResetWrites(x)
    BY <1>7 DEF Card!Write
  <2>2. Cleared(x)
    BY <1>1, <1>7, <2>1 DEF Card!ResetWrites, Cleared, Card!Row
  <2> QED BY <2>2 DEF Effects
<1> QED
  BY <1>1, <1>3, <1>4, <1>5, <1>6, <1>7 DEF Op, Card!Managed

LEMMA AloneWrite ==
  ASSUME Card!DevicesAssumption, AloneInv, NEW r, CardRequest = {r}, Card!Write(r)
  PROVE  AloneInv'
<1> DEFINE x == req[r]
<1>1. CardInv'
  BY WriteInv DEF AloneInv
<1>2. req'[r] = Card!Idle
  BY DEF Card!Write, AloneInv, CardInv, CardTyped
<1>3. Alone' /\ AloneTimes'
  BY <1>2 DEF Alone, AloneTimes, Goes, Manages, Card!Idle
<1>4. Effects(x)
  BY AloneEffects
<1>5. dev \in [Id -> Card!Row] /\ dev' \in [Id -> Card!Row]
  BY <1>1 DEF AloneInv, CardInv, CardTyped
<1>6. /\ \A d, e \in Card!Enrolled(dev) : dev[d].since # Card!Unset /\ dev[e].since # Card!Unset => d = e
      /\ \A d \in Id : dev[d].status = "pending" => dev[d].since = Card!Unset
      /\ \A d, e \in Id : d # e /\ dev[d].status \in Card!Live /\ dev[e].status \in Card!Live => dev[d].key # dev[e].key
  BY DEF AloneInv, OneMark, Card!OneDevicePerKey
<1>7. ASSUME dev' = dev PROVE OneMark' /\ Card!OneDevicePerKey'
  BY <1>7 DEF AloneInv, OneMark, Card!OneDevicePerKey, Card!Enrolled
<1>8. ASSUME Cleared(x) PROVE OneMark' /\ Card!OneDevicePerKey'
  BY <1>8 DEF OneMark, Card!OneDevicePerKey, Card!Enrolled, Cleared, Card!Live
<1>9. ASSUME NEW n \in Id, FirstIn(x, n) PROVE OneMark' /\ Card!OneDevicePerKey'
  <2>1. /\ \A e \in Id \ {n} : dev'[e] = dev[e] /\ dev[e].status # "enrolled"
        /\ dev'[n].status = "enrolled" /\ dev'[n].key = x.key
        /\ \A e \in Id : dev[e].status \in Card!Live => dev[e].key # x.key
    BY <1>9 DEF FirstIn, Card!Enrolled
  <2> QED BY <1>6, <2>1 DEF OneMark, Card!OneDevicePerKey, Card!Enrolled, Card!Live
<1>10. ASSUME NEW n \in Id, WaitsFor(x, n) PROVE OneMark' /\ Card!OneDevicePerKey'
  <2>1. /\ \A e \in Id \ {n} : dev'[e] = dev[e]
        /\ dev'[n].status = "pending" /\ dev'[n].key = x.key /\ dev'[n].since = Card!Unset
        /\ \A e \in Id : dev[e].status \in Card!Live => dev[e].key # x.key
    BY <1>10 DEF WaitsFor
  <2> QED BY <1>6, <2>1 DEF OneMark, Card!OneDevicePerKey, Card!Enrolled, Card!Live
<1>11. ASSUME NEW n \in Id, Admitted(x, n) PROVE OneMark' /\ Card!OneDevicePerKey'
  <2>1. /\ \A e \in Id \ {n} : dev'[e] = dev[e]
        /\ dev[n].status = "pending" /\ dev'[n].status = "enrolled"
        /\ dev'[n].key = dev[n].key /\ dev'[n].since = dev[n].since
    BY <1>5, <1>11 DEF Admitted, Card!Approved, Card!Row
  <2> QED BY <1>6, <2>1 DEF OneMark, Card!OneDevicePerKey, Card!Enrolled, Card!Live
<1>12. ASSUME NEW n \in Id, Dropped(x, n) PROVE OneMark' /\ Card!OneDevicePerKey'
  <2>1. (\A e \in Id \ {n} : dev'[e] = dev[e]) /\ dev'[n].status = "removed"
    BY <1>5, <1>12 DEF Dropped, Card!Row
  <2> QED BY <1>6, <2>1 DEF OneMark, Card!OneDevicePerKey, Card!Enrolled, Card!Live
<1>13. ASSUME NEW n \in Id, Handed(x, n) PROVE OneMark' /\ Card!OneDevicePerKey'
  <2>1. /\ \A e \in Id : dev'[e].status = dev[e].status /\ dev'[e].key = dev[e].key
        /\ \A e \in Id \ {n} : dev'[e].since = Card!Unset
        /\ dev[n].status = "enrolled"
    BY <1>5, <1>13 DEF Handed, Card!Row
  <2> QED BY <1>6, <2>1 DEF OneMark, Card!OneDevicePerKey, Card!Enrolled, Card!Live
<1>14. OneMark' /\ Card!OneDevicePerKey'
  BY <1>4, <1>7, <1>8, <1>9, <1>10, <1>11, <1>12, <1>13 DEF Effects
<1> QED BY <1>1, <1>3, <1>14 DEF AloneInv

\* A step of the one request: it changes no row, or it writes and ends.
LEMMA AloneStep ==
  ASSUME Card!DevicesAssumption, NEW one, CardRequest = {one}, AloneInv, [Card!Next]_Card!vars
  PROVE  /\ AloneInv'
         /\ \/ dev' = dev
            \/ /\ req[one].pc = "write" /\ req'[one] = Card!Idle /\ Effects(req[one])
               /\ dev[req[one].signer].status = "enrolled" \/ req[one].op \notin Card!Managed
<1>1. CASE UNCHANGED Card!vars
  <2>1. CardInv'
    BY <1>1 DEF AloneInv, CardInv, CardTyped, Times, Signers, Approvers, Again, Goes, Manages, MayApprove, Card!vars
  <2>2. Alone' /\ AloneTimes'
    BY <1>1 DEF AloneInv, Alone, AloneTimes, Goes, Manages, MayApprove, Card!vars
  <2>3. OneMark' /\ Card!OneDevicePerKey'
    BY <1>1 DEF AloneInv, OneMark, Card!OneDevicePerKey, Card!Enrolled, Card!vars
  <2> QED BY <1>1, <2>1, <2>2, <2>3 DEF AloneInv, Card!vars
<1>2. CASE Card!Next
  <2>1. ASSUME NEW op \in Op, NEW k \in DeviceKey, NEW t \in Id \cup {Card!NoDevice}, NEW s \in Id \cup {Card!NoDevice},
               Card!Start(one, op, k, t, s),
               op \in Card!Managed => t \in Id /\ s \in Card!Enrolled(dev) /\ dev[t].status # "none"
        PROVE  AloneInv' /\ dev' = dev
    BY <2>1, AloneStart
  <2>2. ASSUME Card!ReadRows(one) PROVE AloneInv' /\ dev' = dev
    BY <2>2, AloneRead
  <2>3. ASSUME Card!Write(one)
        PROVE  /\ AloneInv' /\ req[one].pc = "write" /\ req'[one] = Card!Idle /\ Effects(req[one])
               /\ dev[req[one].signer].status = "enrolled" \/ req[one].op \notin Card!Managed
    <3>1. AloneInv' /\ Effects(req[one]) /\ req[one].pc = "write"
      BY <2>3, AloneWrite, AloneEffects DEF Card!Write
    <3>2. req'[one] = Card!Idle
      BY <2>3 DEF Card!Write, AloneInv, CardInv, CardTyped
    <3>3. dev[req[one].signer].status = "enrolled" \/ req[one].op \notin Card!Managed
      BY <3>1 DEF AloneInv, Alone, Manages, Goes, Card!Idle
    <3> QED BY <3>1, <3>2, <3>3
  <2> QED BY <1>2, <2>1, <2>2, <2>3, RequestSteps
<1> QED BY <1>1, <1>2

LEMMA AloneInductive ==
  ASSUME Card!DevicesAssumption, NEW one, CardRequest = {one}
  PROVE  Card!Spec => []AloneInv
<1>1. Card!Init => AloneInv
  BY AloneInit
<1>2. AloneInv /\ [Card!Next]_Card!vars => AloneInv'
  BY AloneStep
<1> QED BY <1>1, <1>2, PTL DEF Card!Spec

\* A key enrolled again is the same device (enrol): no two live rows of a card
\* hold one key.
THEOREM OneKeyOneDevice ==
  ASSUME Card!DevicesAssumption, NEW one, CardRequest = {one}
  PROVE  Card!Spec => []Card!OneDevicePerKey
<1>1. AloneInv => Card!OneDevicePerKey
  BY DEF AloneInv
<1> QED BY AloneInductive, <1>1, PTL

\* Where a row may go: a new one is let in at once on a card without devices
\* alone, a removed one stays so.
LEMMA StatusMoves ==
  ASSUME dev \in [Id -> Card!Row], NEW x, Effects(x), NEW d \in Id
  PROVE  /\ dev[d].status = "none" /\ dev'[d].status = "enrolled" => Card!Enrolled(dev) = {}
         /\ dev[d].status = "removed" => dev'[d].status = "removed"
<1> DEFINE Moves == /\ dev[d].status = "none" /\ dev'[d].status = "enrolled" => Card!Enrolled(dev) = {}
                    /\ dev[d].status = "removed" => dev'[d].status = "removed"
<1>1. ASSUME dev' = dev PROVE Moves
  BY <1>1
<1>2. ASSUME Cleared(x) PROVE Moves
  BY <1>2 DEF Cleared, Card!Live
<1>3. ASSUME NEW n \in Id, FirstIn(x, n) PROVE Moves
  <2>1. CASE d = n
    BY <1>3, <2>1 DEF FirstIn
  <2>2. CASE d # n
    BY <1>3, <2>2 DEF FirstIn
  <2> QED BY <2>1, <2>2
<1>4. ASSUME NEW n \in Id, WaitsFor(x, n) PROVE Moves
  <2>1. CASE d = n
    BY <1>4, <2>1 DEF WaitsFor
  <2>2. CASE d # n
    BY <1>4, <2>2 DEF WaitsFor
  <2> QED BY <2>1, <2>2
<1>5. ASSUME NEW n \in Id, Admitted(x, n) PROVE Moves
  <2>1. CASE d = n
    BY <1>5, <2>1 DEF Admitted
  <2>2. CASE d # n
    BY <1>5, <2>2 DEF Admitted
  <2> QED BY <2>1, <2>2
<1>6. ASSUME NEW n \in Id, Dropped(x, n) PROVE Moves
  <2>1. CASE d = n
    BY <1>6, <2>1 DEF Dropped, Card!Row, Card!Live
  <2>2. CASE d # n
    BY <1>6, <2>2 DEF Dropped
  <2> QED BY <2>1, <2>2
<1>7. ASSUME NEW n \in Id, Handed(x, n) PROVE Moves
  <2>1. dev[d] \in Card!Row
    OBVIOUS
  <2>2. CASE d = n
    <3>1. dev'[d] = [dev[d] EXCEPT !.since = x.now]
      BY <1>7, <2>2 DEF Handed
    <3>2. dev'[d].status = dev[d].status
      BY <2>1, <3>1 DEF Card!Row
    <3> QED BY <3>2
  <2>3. CASE d # n
    <3>1. dev'[d] = [dev[d] EXCEPT !.since = Card!Unset]
      BY <1>7, <2>3 DEF Handed
    <3>2. dev'[d].status = dev[d].status
      BY <2>1, <3>1 DEF Card!Row
    <3> QED BY <3>2
  <2> QED BY <2>2, <2>3
<1>9. Effects(x)
  OBVIOUS
<1> HIDE DEF Moves
<1>8. Moves
  BY <1>1, <1>2, <1>3, <1>4, <1>5, <1>6, <1>7, <1>9 DEF Effects
<1> QED BY <1>8 DEF Moves

\* A device that is not the card's first is never enrolled at once (enrol).
THEOREM LaterDevicesWait ==
  ASSUME Card!DevicesAssumption, NEW one, CardRequest = {one}
  PROVE  Card!Spec => Card!LaterWaits
<1>1. ASSUME AloneInv, [Card!Next]_Card!vars, NEW d \in Id,
             dev[d].status = "none", dev'[d].status = "enrolled"
      PROVE  Card!Enrolled(dev) = {}
  <2>1. Effects(req[one]) /\ dev' # dev
    BY <1>1, AloneStep
  <2>2. dev \in [Id -> Card!Row]
    BY <1>1 DEF AloneInv, CardInv, CardTyped
  <2> QED BY <1>1, <2>1, <2>2, StatusMoves
<1>2. AloneInv /\ [Card!Next]_Card!vars =>
        [\A d \in Id : dev[d].status = "none" /\ dev'[d].status = "enrolled" => Card!Enrolled(dev) = {}]_Card!vars
  BY <1>1
<1> QED BY AloneInductive, <1>2, PTL DEF Card!Spec, Card!LaterWaits

\* A removed device never comes back (approve, remove, transfer, reset).
THEOREM RemovedForGood ==
  ASSUME Card!DevicesAssumption, NEW one, CardRequest = {one}
  PROVE  Card!Spec => Card!RemovedStays
<1>1. ASSUME AloneInv, [Card!Next]_Card!vars, NEW d \in Id, dev[d].status = "removed"
      PROVE  dev'[d].status = "removed"
  <2>1. dev' = dev \/ Effects(req[one])
    BY <1>1, AloneStep
  <2>2. dev \in [Id -> Card!Row]
    BY <1>1 DEF AloneInv, CardInv, CardTyped
  <2> QED BY <1>1, <2>1, <2>2, StatusMoves
<1>2. AloneInv /\ [Card!Next]_Card!vars =>
        [\A d \in Id : dev[d].status = "removed" => dev'[d].status = "removed"]_Card!vars
  BY <1>1
<1> QED BY AloneInductive, <1>2, PTL DEF Card!Spec, Card!RemovedStays

\* A card with an enrolled device keeps one, but for the operator's reset: who
\* removes another stays (remove).
THEOREM DeviceRemains ==
  ASSUME Card!DevicesAssumption, NEW one, CardRequest = {one}
  PROVE  Card!Spec => Card!OneRemains
<1>1. ASSUME AloneInv, [Card!Next]_Card!vars, Card!Enrolled(dev) # {}, Card!Enrolled(dev') = {}
      PROVE  \E r \in CardRequest : Card!Ends(r, "reset")
  <2> DEFINE x == req[one]
  <2>1. /\ x.pc = "write" /\ req'[one] = Card!Idle /\ Effects(x) /\ dev' # dev
        /\ dev[x.signer].status = "enrolled" \/ x.op \notin Card!Managed
    BY <1>1, AloneStep
  <2>2. dev \in [Id -> Card!Row]
    BY <1>1 DEF AloneInv, CardInv, CardTyped
  <2>3. PICK d \in Id : dev[d].status = "enrolled"
    BY <1>1 DEF Card!Enrolled
  <2>4. \A e \in Id : dev'[e].status # "enrolled"
    BY <1>1 DEF Card!Enrolled
  <2>5. CASE Cleared(x)
    BY <2>1, <2>5 DEF Cleared, Card!Ends
  <2>6. ASSUME NEW n \in Id, FirstIn(x, n) \/ WaitsFor(x, n) \/ Admitted(x, n) \/ Handed(x, n) PROVE FALSE
    BY <2>2, <2>3, <2>4, <2>6 DEF FirstIn, WaitsFor, Admitted, Handed, Card!Approved, Card!Row
  <2>7. ASSUME NEW n \in Id, Dropped(x, n) PROVE FALSE
    <3>1. x.signer \in Id
      BY <1>1, <2>1, <2>7, TheController DEF Dropped, Rightful, Card!Enrolled
    <3>2. dev[x.signer].status = "enrolled" /\ dev'[x.signer] = dev[x.signer]
      BY <2>1, <2>7, <3>1 DEF Dropped, Card!Managed
    <3> QED BY <2>4, <3>1, <3>2
  <2> QED BY <2>1, <2>5, <2>6, <2>7 DEF Effects
<1>2. AloneInv /\ [Card!Next]_Card!vars =>
        [Card!Enrolled(dev) # {} /\ Card!Enrolled(dev') = {} => \E r \in CardRequest : Card!Ends(r, "reset")]_Card!vars
  BY <1>1
<1> QED BY AloneInductive, <1>2, PTL DEF Card!Spec, Card!OneRemains

\* What the one request that writes does to a card's control.
LEMMA ControlMoves ==
  ASSUME Card!DevicesAssumption, NEW one, CardRequest = {one}, AloneInv,
         req[one].pc = "write", Effects(req[one]), dev' \in [Id -> Card!Row],
         Card!ControllerOf(dev') # Card!ControllerOf(dev)
  PROVE  \/ Card!ControllerOf(dev) = Card!NoDevice /\ req[one].op = "enrol"
         \/ Card!ControllerOf(dev') = Card!NoDevice /\ req[one].op = "reset"
         \/ /\ req[one].op = "transfer" /\ req[one].signer = Card!ControllerOf(dev)
            /\ req[one].target = Card!ControllerOf(dev')
<1> DEFINE x == req[one]
           c == Card!ControllerOf(dev)
<1>1. dev \in [Id -> Card!Row] /\ Goes(one) /\ x.rows = dev
  BY DEF AloneInv, CardInv, CardTyped, Alone, Goes, Card!Idle
<1>2. ASSUME x.op \in Card!Managed, c = x.signer
      PROVE  Rightful(dev, c)
  <2>1. x.signer \in Id /\ dev[x.signer].status = "enrolled"
    BY <1>1, <1>2 DEF AloneInv, CardInv, Signers, Alone, Manages
  <2>2. Card!Enrolled(dev) # {}
    BY <2>1 DEF Card!Enrolled
  <2> QED BY <2>2, TheController
<1>3. ASSUME NEW n \in Id, FirstIn(x, n) PROVE c = Card!NoDevice /\ x.op = "enrol"
  BY <1>3, NoController DEF FirstIn
<1>4. ASSUME NEW n \in Id, WaitsFor(x, n) PROVE FALSE
  <2>1. /\ Card!Enrolled(dev') = Card!Enrolled(dev)
        /\ \A e \in Card!Enrolled(dev) : dev'[e] = dev[e]
    BY <1>4 DEF WaitsFor, Card!Enrolled
  <2>2. CASE Card!Enrolled(dev) = {}
    BY <2>1, <2>2, NoController
  <2>3. CASE Card!Enrolled(dev) # {}
    <3>1. Rightful(dev, c)
      BY <2>3, TheController
    <3>2. Rightful(dev', c)
      BY <2>1, <3>1 DEF Rightful, Earlier
    <3> QED BY <3>2, RightfulControls
  <2> QED BY <2>2, <2>3
<1>5. ASSUME NEW n \in Id, Admitted(x, n) PROVE FALSE
  <2>1. Rightful(dev, c) /\ c \in Id /\ c # n
    <3>1. Rightful(dev, c)
      BY <1>2, <1>5 DEF Admitted, Card!Managed
    <3> QED BY <1>5, <3>1 DEF Rightful, Card!Enrolled, Admitted
  <2>2. /\ dev'[n].since = Card!Unset /\ dev'[n].at = x.now /\ dev'[n].status = "enrolled"
        /\ \A e \in Id \ {n} : dev'[e] = dev[e]
    <3>1. dev[n].since = Card!Unset
      BY <1>5 DEF AloneInv, OneMark, Admitted
    <3>2. dev[n] \in Card!Row
      BY <1>1
    <3> QED BY <1>5, <3>1, <3>2 DEF Admitted, Card!Approved, Card!Row
  <2>3. dev[c].at < x.now
    <3>1. MayApprove(one)
      BY <1>1, <1>5 DEF MayApprove, Admitted
    <3> QED BY <1>1, <2>1, <3>1 DEF AloneInv, AloneTimes
  <2>4. Card!Enrolled(dev') = Card!Enrolled(dev) \cup {n} /\ n \notin Card!Enrolled(dev)
    BY <1>5, <2>2 DEF Card!Enrolled, Admitted
  <2>5. Rightful(dev', c)
    <3>1. CASE dev[c].since # Card!Unset
      BY <2>1, <2>2, <2>4, <3>1 DEF Rightful, Card!Enrolled
    <3>2. CASE dev[c].since = Card!Unset
      <4>1. Earlier(dev', c, n)
        BY <2>1, <2>2, <2>3 DEF Earlier
      <4>2. \A e \in Card!Enrolled(dev) : dev[e].since = Card!Unset /\ e # n /\ e \in Id
        BY <2>1, <2>4, <3>2 DEF Rightful, Card!Enrolled
      <4>3. \A e \in Card!Enrolled(dev) \ {c} : Earlier(dev, c, e)
        BY <2>1, <3>2 DEF Rightful
      <4>4. \A e \in Card!Enrolled(dev) \ {c} : Earlier(dev', c, e)
        BY <2>1, <2>2, <4>2, <4>3 DEF Earlier
      <4> QED BY <2>1, <2>2, <2>4, <4>1, <4>2, <4>4 DEF Rightful
    <3> QED BY <3>1, <3>2
  <2> QED BY <2>5, RightfulControls
<1>6. ASSUME NEW n \in Id, Dropped(x, n) PROVE FALSE
  <2>1. Rightful(dev, c) /\ c \in Id /\ c # n
    <3>1. Rightful(dev, c)
      BY <1>2, <1>6 DEF Dropped, Card!Managed
    <3> QED BY <1>6, <3>1 DEF Rightful, Card!Enrolled, Dropped
  <2>2. dev'[n].status = "removed" /\ \A e \in Id \ {n} : dev'[e] = dev[e]
    BY <1>1, <1>6 DEF Dropped, Card!Row
  <2>3. Card!Enrolled(dev') = Card!Enrolled(dev) \ {n}
    BY <2>2 DEF Card!Enrolled
  <2>4. \A e \in Card!Enrolled(dev') : dev'[e] = dev[e]
    BY <2>2, <2>3 DEF Card!Enrolled
  <2>5. c \in Card!Enrolled(dev') /\ dev'[c] = dev[c]
    BY <2>1, <2>2, <2>3 DEF Rightful
  <2>6. Rightful(dev', c)
    BY <2>1, <2>3, <2>4, <2>5 DEF Rightful, Earlier
  <2> QED BY <2>6, RightfulControls
<1>7. ASSUME NEW n \in Id, Handed(x, n)
      PROVE  x.op = "transfer" /\ x.signer = c /\ x.target = Card!ControllerOf(dev')
  <2>1. /\ \A e \in Id : dev'[e].status = dev[e].status
        /\ \A e \in Id \ {n} : dev'[e].since = Card!Unset
        /\ dev'[n].since = x.now /\ dev[n].status = "enrolled"
    BY <1>1, <1>7 DEF Handed, Card!Row
  <2>2. x.now # Card!Unset
    BY <1>1 DEF AloneInv, CardInv, Times, Card!Unset
  <2>3. Rightful(dev', n)
    BY <2>1, <2>2 DEF Rightful, Card!Enrolled
  <2> QED BY <1>7, <2>3, RightfulControls DEF Handed
<1>8. ASSUME Cleared(x) PROVE Card!ControllerOf(dev') = Card!NoDevice /\ x.op = "reset"
  <2>1. Card!Enrolled(dev') = {}
    BY <1>8 DEF Cleared, Card!Enrolled, Card!Live
  <2> QED BY <1>8, <2>1, NoController DEF Cleared
<1>9. dev' # dev
  OBVIOUS
<1> HIDE DEF x, c
<1>10. \/ c = Card!NoDevice /\ x.op = "enrol"
       \/ Card!ControllerOf(dev') = Card!NoDevice /\ x.op = "reset"
       \/ x.op = "transfer" /\ x.signer = c /\ x.target = Card!ControllerOf(dev')
  <2>1. Effects(x)
    BY DEF x
  <2> QED BY <1>3, <1>4, <1>5, <1>6, <1>7, <1>8, <1>9, <2>1 DEF Effects
<1> QED BY <1>10 DEF x, c

\* Control of a card moves only by its controller's hand, to the device it
\* named, or to the first device of a card, or to nobody by the operator's
\* reset (enrol, transfer, reset, controller_of).
THEOREM ControlMovesByHand ==
  ASSUME Card!DevicesAssumption, NEW one, CardRequest = {one}
  PROVE  Card!Spec => Card!ControlIsHandedOver
<1>1. ASSUME AloneInv, [Card!Next]_Card!vars, Card!ControllerOf(dev) # Card!ControllerOf(dev')
      PROVE  \/ Card!ControllerOf(dev) = Card!NoDevice /\ Card!Ends(one, "enrol")
             \/ Card!ControllerOf(dev') = Card!NoDevice /\ Card!Ends(one, "reset")
             \/ /\ Card!Ends(one, "transfer") /\ req[one].signer = Card!ControllerOf(dev)
                /\ req[one].target = Card!ControllerOf(dev')
  <2>1. AloneInv' /\ req[one].pc = "write" /\ req'[one] = Card!Idle /\ Effects(req[one])
    BY <1>1, AloneStep
  <2>2. dev' \in [Id -> Card!Row]
    BY <2>1 DEF AloneInv, CardInv, CardTyped
  <2> QED BY <1>1, <2>1, <2>2, ControlMoves DEF Card!Ends
<1>2. AloneInv /\ [Card!Next]_Card!vars =>
        [LET old == Card!ControllerOf(dev)
             new == Card!ControllerOf(dev')
         IN old # new =>
              \/ old = Card!NoDevice /\ \E r \in CardRequest : Card!Ends(r, "enrol")
              \/ new = Card!NoDevice /\ \E r \in CardRequest : Card!Ends(r, "reset")
              \/ \E r \in CardRequest : Card!Ends(r, "transfer") /\ req[r].signer = old /\ req[r].target = new
        ]_Card!vars
  BY <1>1
<1> QED BY AloneInductive, <1>2, PTL DEF Card!Spec, Card!ControlIsHandedOver

=============================================================================
