---------------------------- MODULE ServicesProofs ----------------------------
(***************************************************************************)
(* What TLAPS proves of what runs beside the decisions (MCServices), for   *)
(* any number of processes, step-ups, requests, purchases and runs, and    *)
(* any bounds.                                                             *)
(***************************************************************************)
EXTENDS MCServices, FiniteSets, Sequences, FiniteSetTheorems, WellFoundedInduction, TLAPS

-----------------------------------------------------------------------------
(* Among subsets of a finite set there are minimal ones. *)
LEMMA Minimal ==
    ASSUME NEW S, IsFiniteSet(S), NEW T \in SUBSET SUBSET S, T # {}
    PROVE  \E s \in T : \A r \in SUBSET s : r # s => r \notin T
<1>1. IsWellFoundedOn(StrictSubsetOrdering(S), FiniteSubsetsOf(S))
  BY FS_StrictSubsetOrderingWellFounded
<1>2. T \subseteq FiniteSubsetsOf(S)
  BY FS_Subset DEF FiniteSubsetsOf
<1>3. \E x \in T : \A y \in T : ~ (<<y, x>> \in StrictSubsetOrdering(S))
  BY <1>1, <1>2, WFMin
<1> QED BY <1>3 DEF StrictSubsetOrdering

(* Every set of numbers has a least one. *)
LEMMA Least ==
    ASSUME NEW T \in SUBSET Nat, T # {}
    PROVE  \E n \in T : \A m \in T : n <= m
<1>1. PICK top \in T : TRUE
  OBVIOUS
<1> DEFINE All == 0..top
           Upto == {s \in SUBSET All : \E n \in T : s = 0..n}
<1>2. IsFiniteSet(All) /\ All \in Upto
  BY <1>1, FS_Interval
<1>3. PICK s \in Upto : \A r \in SUBSET s : r # s => r \notin Upto
  <2>1. Upto \in SUBSET SUBSET All /\ Upto # {}
    BY <1>2
  <2> HIDE DEF Upto, All
  <2> QED BY <1>2, <2>1, Minimal
<1>4. PICK n \in T : s = 0..n
  BY <1>3
<1>5. ASSUME NEW m \in T, m < n
      PROVE  FALSE
  <2>1. 0..m \in SUBSET s /\ n \in s /\ n \notin 0..m
    BY <1>4, <1>5
  <2>2. 0..m \in Upto
    BY <1>3, <2>1
  <2> QED BY <1>3, <2>1, <2>2
<1> QED BY <1>4, <1>5

-----------------------------------------------------------------------------
(***************************************************************************)
(* Signed requests: accepted at most once.                                 *)
(***************************************************************************)
\* A delivery reads the clock when it arrives and ends within Delay; it stands
\* before the nonce only when its request was in time.
WorkInv ==
  \A w \in Delivery : Busy(w) =>
    /\ signed[work[w].of] # Never
    /\ work[w].now <= clock
    /\ clock <= work[w].now + Delay
    /\ work[w].at = "nonce" => InTime(signed[work[w].of], work[w].now)

\* Only what was signed is accepted.
SignedInv == \A q \in Request : accepted[q] > 0 => signed[q] # Never

IInv == TypeOK /\ WorkInv /\ SignedInv /\ NonceOrLate /\ AcceptedOnce

USE DEF Time, Never, Idle, Work, Busy, Stored

LEMMA InitInv == Init => IInv
BY TimesAssumption DEF Init, IInv, TypeOK, WorkInv, SignedInv, NonceOrLate, AcceptedOnce

\* Storing a nonce: what was accepted before keeps its nonce or is too late,
\* and what is accepted now was never accepted.
LEMMA TakeNonceInv ==
  ASSUME IInv, NEW w \in Delivery, TakeNonce(w)
  PROVE  IInv'
<1> DEFINE q == work[w].of
           now == work[w].now
           left == [p \in Request |-> IF Expired(p, now) THEN Never ELSE seen[p]]
<1>1. /\ q \in Request /\ now \in Time /\ signed[q] \in Time
      /\ now <= clock /\ clock <= now + Delay
      /\ now - signed[q] <= Skew /\ signed[q] - now <= Skew
  BY DEF IInv, TypeOK, WorkInv, TakeNonce, InTime
<1>2. work' = [work EXCEPT ![w] = Idle] /\ UNCHANGED <<clock, enrolled, signed>>
  BY DEF TakeNonce
<1>3. WorkInv'
  BY <1>2 DEF IInv, TypeOK, WorkInv, InTime
<1>4. CASE left[q] # Never
  <2>1. UNCHANGED <<seen, accepted>>
    BY <1>4 DEF TakeNonce
  <2> QED
    BY <1>2, <1>3, <2>1 DEF IInv, TypeOK, SignedInv, NonceOrLate, AcceptedOnce
<1>5. CASE left[q] = Never
  <2>1. seen' = [left EXCEPT ![q] = Stored(now)] /\ accepted' = [accepted EXCEPT ![q] = @ + 1]
    BY <1>5 DEF TakeNonce
  <2>2. accepted[q] = 0
    <3>1. SUFFICES ASSUME accepted[q] > 0 PROVE FALSE
      BY <1>1 DEF IInv, TypeOK
    <3>2. ~ clock > signed[q] + Skew + Delay
      BY <1>1, TimesAssumption DEF IInv, TypeOK
    <3>3. seen[q] # Never /\ seen[q] \in Time /\ seen[q] + Skew >= signed[q]
      BY <1>1, <3>1, <3>2 DEF IInv, NonceOrLate, TypeOK
    <3>4. ~ seen[q] < now - TTL
      BY <1>1, <3>3, TimesAssumption
    <3> QED
      BY <1>1, <1>5, <3>3, <3>4 DEF Expired
  <2>3. TypeOK'
    <3>1. left \in [Request -> Time \cup {Never}]
      BY DEF IInv, TypeOK
    <3>2. seen' \in [Request -> Time \cup {Never}]
      BY <1>1, <2>1, <3>1
    <3>3. accepted' \in [Request -> Nat]
      BY <1>1, <2>1 DEF IInv, TypeOK
    <3>4. work' \in [Delivery -> Work]
      BY <1>2 DEF IInv, TypeOK
    <3> QED
      BY <1>2, <3>2, <3>3, <3>4 DEF IInv, TypeOK
  <2>4. SignedInv' /\ AcceptedOnce'
    BY <1>1, <1>2, <2>1, <2>2 DEF IInv, TypeOK, SignedInv, AcceptedOnce
  <2>5. NonceOrLate'
    <3>1. SUFFICES ASSUME NEW p \in Request, accepted'[p] > 0
                   PROVE  \/ seen'[p] # Never /\ seen'[p] + Skew >= signed[p]
                          \/ clock > signed[p] + Skew + Delay
      BY <1>2 DEF NonceOrLate
    <3>2. CASE p = q
      <4>1. seen'[q] = now
        BY <1>1, <2>1
      <4>2. now # Never /\ now + Skew >= signed[q]
        BY <1>1, TimesAssumption
      <4> QED
        BY <3>2, <4>1, <4>2
    <3>3. CASE p # q
      <4>1. accepted[p] > 0 /\ seen'[p] = left[p] /\ signed[p] \in Time
        BY <2>1, <3>1, <3>3 DEF IInv, TypeOK, SignedInv
      <4>2. \/ seen[p] # Never /\ seen[p] \in Time /\ seen[p] + Skew >= signed[p]
            \/ clock > signed[p] + Skew + Delay
        BY <4>1 DEF IInv, NonceOrLate, TypeOK
      <4>3. CASE Expired(p, now) /\ seen[p] # Never /\ seen[p] \in Time /\ seen[p] + Skew >= signed[p]
        BY <1>1, <4>1, <4>3, TimesAssumption DEF Expired, IInv, TypeOK
      <4>4. CASE ~Expired(p, now)
        BY <4>1, <4>2, <4>4
      <4> QED
        BY <4>2, <4>3, <4>4
    <3> QED
      BY <3>2, <3>3
  <2> QED
    BY <1>3, <2>3, <2>4, <2>5 DEF IInv
<1> QED
  BY <1>4, <1>5

\* The other steps accept nothing and forget nothing.
LEMMA OtherStepsInv ==
  ASSUME IInv,
         \/ Tick
         \/ \E q \in Request, ts \in Time : Sign(q, ts)
         \/ \E d \in Device : EnrolOrRemove(d)
         \/ \E w \in Delivery, q \in Request : Deliver(w, q)
         \/ \E w \in Delivery : CheckDevice(w)
         \/ UNCHANGED vars
  PROVE  IInv'
<1>1. CASE Tick
  BY <1>1, TimesAssumption DEF IInv, TypeOK, WorkInv, SignedInv, NonceOrLate, AcceptedOnce, Tick, InTime
<1>2. ASSUME NEW q \in Request, NEW ts \in Time, Sign(q, ts) PROVE IInv'
  <2>1. signed' \in [Request -> Time \cup {Never}] /\ UNCHANGED <<clock, enrolled, seen, work, accepted>>
    BY <1>2 DEF IInv, TypeOK, Sign
  <2>2. \A p \in Request : signed[p] # Never => signed'[p] = signed[p]
    BY <1>2 DEF IInv, TypeOK, Sign
  <2>3. WorkInv'
    BY <2>1, <2>2 DEF IInv, TypeOK, WorkInv, InTime
  <2>4. SignedInv' /\ NonceOrLate' /\ AcceptedOnce'
    BY <2>1, <2>2 DEF IInv, TypeOK, SignedInv, NonceOrLate, AcceptedOnce
  <2> QED
    BY <2>1, <2>3, <2>4 DEF IInv, TypeOK
<1>3. ASSUME NEW d \in Device, EnrolOrRemove(d) PROVE IInv'
  BY <1>3 DEF IInv, TypeOK, WorkInv, SignedInv, NonceOrLate, AcceptedOnce, EnrolOrRemove, InTime
<1>4. ASSUME NEW w \in Delivery, NEW q \in Request, Deliver(w, q) PROVE IInv'
  <2>1. work' \in [Delivery -> Work] /\ WorkInv'
    BY <1>4, TimesAssumption DEF IInv, TypeOK, WorkInv, Deliver, InTime
  <2> QED
    BY <1>4, <2>1 DEF IInv, TypeOK, SignedInv, NonceOrLate, AcceptedOnce, Deliver
<1>5. ASSUME NEW w \in Delivery, CheckDevice(w) PROVE IInv'
  <2>1. /\ work[w].at = "device" /\ work[w] \in Work /\ UNCHANGED <<clock, enrolled, signed, seen, accepted>>
        /\ \/ work' = [work EXCEPT ![w] = Idle]
           \/ /\ InTime(signed[work[w].of], work[w].now)
              /\ work' = [work EXCEPT ![w] = [@ EXCEPT !.at = "nonce"]]
    BY <1>5 DEF IInv, TypeOK, CheckDevice
  <2>2. \/ work' \in [Delivery -> Work] /\ work'[w].now = work[w].now
        \/ work' = [work EXCEPT ![w] = Idle]
    BY <2>1 DEF IInv, TypeOK, Work, Idle
  <2>3. work' \in [Delivery -> Work]
    BY <2>1, <2>2 DEF IInv, TypeOK, Work
  <2>4. ASSUME NEW v \in Delivery, Busy(v)'
        PROVE  /\ Busy(v) /\ work'[v].of = work[v].of /\ work'[v].now = work[v].now
               /\ work'[v].at = "nonce" => work[v].at = "nonce" \/ InTime(signed[work[v].of], work[v].now)
    <3>1. CASE v = w
      BY <2>1, <2>4, <3>1 DEF IInv, TypeOK, Work, Idle, Busy
    <3>2. CASE v # w
      BY <2>1, <2>4, <3>2 DEF IInv, TypeOK, Busy
    <3> QED
      BY <3>1, <3>2
  <2>5. WorkInv'
    BY <2>1, <2>4 DEF IInv, WorkInv, InTime
  <2> QED
    BY <2>1, <2>3, <2>5 DEF IInv, TypeOK, SignedInv, NonceOrLate, AcceptedOnce
<1>6. CASE UNCHANGED vars
  BY <1>6 DEF IInv, TypeOK, WorkInv, SignedInv, NonceOrLate, AcceptedOnce, vars, InTime
<1> QED
  BY <1>1, <1>2, <1>3, <1>4, <1>5, <1>6

LEMMA Inductive == Spec => []IInv
<1>1. IInv /\ [Next]_vars => IInv'
  BY TakeNonceInv, OtherStepsInv DEF Next
<1> QED
  BY InitInv, <1>1, PTL DEF Spec

\* Types, for all constants.
THEOREM TypeCorrect == Spec => []TypeOK
<1>1. IInv => TypeOK
  BY DEF IInv
<1> QED
  BY Inductive, <1>1, PTL

\* A request signed for a card takes effect at most once, whatever is sent
\* again: the nonce outlives the time in which its request is in time, and a
\* delivery on its way when the nonce goes is late already.
THEOREM SignedOnce == Spec => []AcceptedOnce
<1>1. IInv => AcceptedOnce
  BY DEF IInv
<1> QED
  BY Inductive, <1>1, PTL

HIDE DEF Time, Never, Idle, Work, Busy, Stored

-----------------------------------------------------------------------------
(***************************************************************************)
(* The lease and the closes (WorkerLease).                                 *)
(***************************************************************************)
(* A close in progress: of a step-up that was asked, going back to Viseca  *)
(* only once Viseca is done with it, and with an "approved" in hand only   *)
(* after Viseca's.                                                         *)
CloseInv(p) ==
    leaseJob[p] # Lease!Idle =>
             /\ row[leaseJob[p].of] # Lease!None
             /\ leaseJob[p].at = "again" => viseca[leaseJob[p].of] # "open"
             /\ leaseJob[p].at \in {"record", "write"} /\ leaseJob[p].says = "approved" =>
                   viseca[leaseJob[p].of] = "approved"

(* A step-up is waited for by the row and by Viseca from the same step on. *)
AskedInv ==
    /\ \A d \in StepUps : row[d] = Lease!None <=> viseca[d] = Lease!None
    /\ \A d \in lapsed : row[d] # Lease!None

LeaseInv ==
    /\ Lease!TypeOK
    /\ AskedInv
    /\ \A p \in Workers : CloseInv(p)
    /\ Lease!CountedIsApproved

-----------------------------------------------------------------------------
(* The job of a process that is at a close. *)
LEMMA AtAClose ==
    ASSUME Lease!TypeOK, NEW p \in Workers, leaseJob[p] # Lease!Idle
    PROVE  /\ leaseJob[p] = [kind |-> leaseJob[p].kind, of |-> leaseJob[p].of, at |-> leaseJob[p].at,
                             says |-> leaseJob[p].says]
           /\ leaseJob[p].kind \in Lease!Kind /\ leaseJob[p].of \in StepUps /\ leaseJob[p].says \in Lease!Result
           /\ leaseJob[p].at \in {"row", "platform", "send", "again", "record", "write"}
BY SMT DEF Lease!TypeOK, Lease!Job, Lease!Idle

(* GoTo moves one close on and leaves the others. *)
LEMMA GoesOn ==
    ASSUME Lease!TypeOK, NEW p \in Workers, leaseJob[p] # Lease!Idle,
           NEW stage \in {"platform", "send", "again", "record", "write"},
           NEW says \in Lease!Result, Lease!GoTo(p, stage, says)
    PROVE  /\ leaseJob' \in [Workers -> Lease!Job]
           /\ \A q \in Workers \ {p} : leaseJob'[q] = leaseJob[q]
           /\ leaseJob'[p] # Lease!Idle /\ leaseJob'[p].of = leaseJob[p].of
           /\ leaseJob'[p].at = stage /\ leaseJob'[p].says = says
<1> DEFINE Closing == [kind : Lease!Kind, of : StepUps,
                       at : {"row", "platform", "send", "again", "record", "write"},
                       says : Lease!Result]
<1>1. leaseJob[p] \in Closing /\ leaseJob \in [Workers -> Lease!Job]
      BY SMT DEF Lease!TypeOK, Lease!Job, Lease!Idle
<1>2. leaseJob' = [leaseJob EXCEPT ![p].at = stage, ![p].says = says]
      BY DEF Lease!GoTo
<1>3. /\ \A q \in Workers \ {p} : leaseJob'[q] = leaseJob[q]
      /\ leaseJob'[p] = [[leaseJob[p] EXCEPT !.at = stage] EXCEPT !.says = says]
      /\ DOMAIN leaseJob' = Workers
      BY <1>1, <1>2, SMT
<1>4. leaseJob'[p].at = stage /\ leaseJob'[p].says = says /\ leaseJob'[p].of = leaseJob[p].of
      BY <1>1, <1>2, SMT
<1>5. leaseJob'[p] \in Closing
    <2>1. [leaseJob[p] EXCEPT !.at = stage] \in Closing
          BY <1>1, SMT
    <2>2. \A j \in Closing : [j EXCEPT !.says = says] \in Closing
          BY SMT
    <2> HIDE DEF Closing
    <2> QED
          BY <1>3, <2>1, <2>2
<1>6. leaseJob'[p] # Lease!Idle
      BY <1>5, SMT DEF Lease!Idle, Lease!Kind
<1>7. leaseJob' \in [Workers -> Lease!Job]
      BY <1>1, <1>2, <1>3, <1>5, SMT DEF Lease!Job
<1> QED
      BY <1>3, <1>4, <1>6, <1>7

(* Ends clears one close and leaves the others. *)
LEMMA Ended ==
    ASSUME Lease!TypeOK, NEW p \in Workers, Lease!Ends(p)
    PROVE  /\ leaseJob' \in [Workers -> Lease!Job]
           /\ \A q \in Workers \ {p} : leaseJob'[q] = leaseJob[q]
           /\ leaseJob'[p] = Lease!Idle
BY SMT DEF Lease!TypeOK, Lease!Job, Lease!Ends

LEMMA Begun ==
    ASSUME Lease!TypeOK, NEW p \in Workers, NEW kind \in Lease!Kind, NEW d \in StepUps,
           NEW says \in Lease!Result, Lease!Begin(p, kind, d, says)
    PROVE  /\ leaseJob' \in [Workers -> Lease!Job]
           /\ \A q \in Workers \ {p} : leaseJob'[q] = leaseJob[q]
           /\ leaseJob'[p] # Lease!Idle /\ leaseJob'[p].of = d /\ leaseJob'[p].at = "row"
<1>1. [kind |-> kind, of |-> d, at |-> "row", says |-> says] \in Lease!Job
      BY SMT DEF Lease!Job
<1>2. /\ leaseJob' = [leaseJob EXCEPT ![p] = [kind |-> kind, of |-> d, at |-> "row", says |-> says]]
      /\ leaseJob \in [Workers -> Lease!Job]
      BY DEF Lease!Begin, Lease!TypeOK
<1>3. leaseJob'[p].kind # "idle"
      BY <1>2, SMT DEF Lease!Kind
<1> QED
      BY <1>1, <1>2, <1>3, SMT DEF Lease!Idle

(* A close elsewhere is not disturbed as long as no row loses its step-up  *)
(* and Viseca neither reopens one nor takes an approval back.              *)
Steady ==
    \A d \in StepUps :
        /\ row[d] # Lease!None => row'[d] # Lease!None
        /\ row[d] # Lease!None /\ viseca[d] # "open" => viseca'[d] # "open"
        /\ row[d] # Lease!None /\ viseca[d] = "approved" => viseca'[d] = "approved"

LEMMA CloseKept ==
    ASSUME Lease!TypeOK, Steady, NEW p \in Workers, CloseInv(p), leaseJob'[p] = leaseJob[p]
    PROVE  CloseInv(p)'
<1>1. CASE leaseJob[p] = Lease!Idle
      BY <1>1 DEF CloseInv
<1>2. CASE leaseJob[p] # Lease!Idle
    <2>1. leaseJob[p].of \in StepUps
          BY <1>2, AtAClose
    <2> QED
          BY <1>2, <2>1 DEF CloseInv, Steady
<1> QED
      BY <1>1, <1>2

(* A step that changes rows and Viseca only in steady ways and moves the   *)
(* close of one process to a sound place keeps the invariant.              *)
LEMMA OneMoves ==
    ASSUME LeaseInv, Lease!TypeOK', AskedInv', Lease!CountedIsApproved', Steady,
           NEW p \in Workers, \A q \in Workers \ {p} : leaseJob'[q] = leaseJob[q],
           CloseInv(p)'
    PROVE  LeaseInv'
<1>1. \A q \in Workers \ {p} : CloseInv(q)'
      BY CloseKept DEF LeaseInv
<1> QED
      BY <1>1 DEF LeaseInv

LEMMA NoneMoves ==
    ASSUME LeaseInv, Lease!TypeOK', AskedInv', Lease!CountedIsApproved', Steady, UNCHANGED leaseJob
    PROVE  LeaseInv'
BY CloseKept DEF LeaseInv

(* A close that ends, or goes on to a stage it is ready for, is sound. *)
LEMMA MovedIsSound ==
    ASSUME LeaseInv, Steady, NEW p \in Workers, leaseJob[p] # Lease!Idle,
           \/ Lease!Ends(p)
           \/ \E stage \in {"platform", "send", "again", "record", "write"}, says \in Lease!Result :
                /\ Lease!GoTo(p, stage, says)
                /\ stage = "again" => viseca'[leaseJob[p].of] # "open"
                /\ stage \in {"record", "write"} /\ says = "approved" =>
                      viseca'[leaseJob[p].of] = "approved"
    PROVE  /\ leaseJob' \in [Workers -> Lease!Job] /\ CloseInv(p)'
           /\ \A q \in Workers \ {p} : leaseJob'[q] = leaseJob[q]
<1>1. Lease!TypeOK
      BY DEF LeaseInv
<1>2. CASE Lease!Ends(p)
      BY <1>1, <1>2, Ended DEF CloseInv
<1>3. ASSUME NEW stage \in {"platform", "send", "again", "record", "write"},
             NEW says \in Lease!Result, Lease!GoTo(p, stage, says),
             stage = "again" => viseca'[leaseJob[p].of] # "open",
             stage \in {"record", "write"} /\ says = "approved" =>
                viseca'[leaseJob[p].of] = "approved"
      PROVE  /\ leaseJob' \in [Workers -> Lease!Job] /\ CloseInv(p)'
             /\ \A q \in Workers \ {p} : leaseJob'[q] = leaseJob[q]
    <2>1. /\ leaseJob' \in [Workers -> Lease!Job]
          /\ \A q \in Workers \ {p} : leaseJob'[q] = leaseJob[q]
          /\ leaseJob'[p] # Lease!Idle /\ leaseJob'[p].of = leaseJob[p].of
          /\ leaseJob'[p].at = stage /\ leaseJob'[p].says = says
        BY <1>1, <1>3, GoesOn
    <2>2. leaseJob[p].of \in StepUps /\ row[leaseJob[p].of] # Lease!None
        BY <1>1, AtAClose DEF LeaseInv, CloseInv
    <2>3. row'[leaseJob[p].of] # Lease!None
        BY <2>2 DEF Steady
    <2> QED
        BY <1>3, <2>1, <2>3 DEF CloseInv
<1> QED
      BY <1>2, <1>3

-----------------------------------------------------------------------------
(* What MCServices assumes of the bounds. *)
LEMMA LeaseBounds == MaxBreaks \in Nat /\ MaxCrashes \in Nat /\ MaxFaults \in Nat
BY Parameters DEF Lease!LeaseAssumption

(* Init, and every step of Next. *)
LEMMA LeaseInitially == Lease!Init => LeaseInv
BY LeaseBounds, SMT
   DEF Lease!Init, LeaseInv, Lease!TypeOK, AskedInv, CloseInv, Lease!CountedIsApproved, Lease!Job, Lease!None, Lease!Idle

LEMMA LeaseStep == LeaseInv /\ [Lease!Next]_(Lease!vars) => LeaseInv'
<1> SUFFICES ASSUME LeaseInv, [Lease!Next]_(Lease!vars) PROVE LeaseInv'
    OBVIOUS
<1> USE LeaseBounds DEF Lease!workers, Lease!memory, Lease!outside, Lease!bounds
<1>1. ASSUME NEW p \in Workers, Lease!TryLease(p) PROVE LeaseInv'
    <2>1. UNCHANGED <<leaseJob, row, viseca, lapsed>> /\ Steady
        BY <1>1 DEF Lease!TryLease, Steady
    <2>2. Lease!TypeOK'
        BY <1>1, SMT DEF Lease!TryLease, LeaseInv, Lease!TypeOK
    <2> QED
        BY <2>1, <2>2, NoneMoves DEF LeaseInv, AskedInv, Lease!CountedIsApproved
<1>2. ASSUME NEW p \in Workers, Lease!RecoverPending(p) PROVE LeaseInv'
    <2>1. UNCHANGED <<leaseJob, row, viseca, lapsed>> /\ Steady
        BY <1>2 DEF Lease!RecoverPending, Steady
    <2>2. Lease!TypeOK'
        BY <1>2, SMT DEF Lease!RecoverPending, Lease!Recovered, LeaseInv, Lease!TypeOK
    <2> QED
        BY <2>1, <2>2, NoneMoves DEF LeaseInv, AskedInv, Lease!CountedIsApproved
<1>3. ASSUME NEW p \in Workers, Lease!ReconcilePlatform(p) PROVE LeaseInv'
    <2>1. UNCHANGED <<leaseJob, row, lapsed>>
        BY <1>3 DEF Lease!ReconcilePlatform
    <2>2. Lease!TypeOK'
        BY <1>3, SMT DEF Lease!ReconcilePlatform, Lease!Unheard, LeaseInv, Lease!TypeOK
    <2>3. \A d \in StepUps :
             viseca'[d] = viseca[d] \/ (viseca[d] = "open" /\ viseca'[d] = "declined")
        BY <1>3, SMT DEF Lease!ReconcilePlatform, Lease!Unheard
    <2>4. Steady /\ AskedInv' /\ Lease!CountedIsApproved'
        BY <2>1, <2>3, SMT DEF Steady, LeaseInv, AskedInv, Lease!CountedIsApproved, Lease!None
    <2> QED
        BY <2>1, <2>2, <2>4, NoneMoves
<1>4. ASSUME NEW p \in Workers, Lease!LeaseLost(p) PROVE LeaseInv'
    <2>1. UNCHANGED <<row, viseca, lapsed>> /\ Steady
        BY <1>4 DEF Lease!LeaseLost, Steady
    <2>2. Lease!TypeOK'
        BY <1>4, SMT DEF Lease!LeaseLost, LeaseInv, Lease!TypeOK, Lease!Job
    <2>3. /\ \A q \in Workers \ {p} : leaseJob'[q] = leaseJob[q]
          /\ leaseJob'[p] \in {Lease!Idle, leaseJob[p]}
        BY <1>4, SMT DEF Lease!LeaseLost, LeaseInv, Lease!TypeOK
    <2>4. CloseInv(p)'
        BY <2>1, <2>3, CloseKept DEF LeaseInv, CloseInv
    <2> QED
        BY <2>1, <2>2, <2>3, <2>4, OneMoves DEF LeaseInv, AskedInv, Lease!CountedIsApproved
<1>5. ASSUME NEW p \in Workers, Lease!ConnectionBreaks(p) PROVE LeaseInv'
    <2>1. UNCHANGED <<leaseJob, row, viseca, lapsed>> /\ Steady
        BY <1>5 DEF Lease!ConnectionBreaks, Steady
    <2>2. Lease!TypeOK'
        BY <1>5, SMT DEF Lease!ConnectionBreaks, Lease!Released, LeaseInv, Lease!TypeOK
    <2> QED
        BY <2>1, <2>2, NoneMoves DEF LeaseInv, AskedInv, Lease!CountedIsApproved
<1>6. ASSUME NEW p \in Workers, Lease!Crash(p) PROVE LeaseInv'
    <2>1. UNCHANGED <<row, viseca, lapsed>> /\ Steady
        BY <1>6 DEF Lease!Crash, Steady
    <2>2. Lease!TypeOK'
        BY <1>6, SMT DEF Lease!Crash, Lease!Released, LeaseInv, Lease!TypeOK, Lease!Job
    <2>3. /\ \A q \in Workers \ {p} : leaseJob'[q] = leaseJob[q]
          /\ leaseJob'[p] = Lease!Idle
        BY <1>6, SMT DEF Lease!Crash, LeaseInv, Lease!TypeOK
    <2>4. CloseInv(p)'
        BY <2>3 DEF CloseInv
    <2> QED
        BY <2>1, <2>2, <2>3, <2>4, OneMoves DEF LeaseInv, AskedInv, Lease!CountedIsApproved
<1>7. ASSUME NEW p \in Workers, NEW d \in StepUps, Lease!AsksCustomer(p, d) PROVE LeaseInv'
    <2>1. UNCHANGED <<leaseJob, lapsed>>
        BY <1>7 DEF Lease!AsksCustomer
    <2>2. Lease!TypeOK'
        BY <1>7, SMT DEF Lease!AsksCustomer, LeaseInv, Lease!TypeOK
    <2>3. /\ row[d] = Lease!None /\ row'[d] = "open" /\ viseca'[d] = "open"
          /\ \A c \in StepUps \ {d} : row'[c] = row[c] /\ viseca'[c] = viseca[c]
        BY <1>7, SMT DEF Lease!AsksCustomer, LeaseInv, Lease!TypeOK
    <2>4. Steady
        BY <2>3 DEF Steady
    <2>5. AskedInv' /\ Lease!CountedIsApproved'
        BY <2>1, <2>3, SMT DEF LeaseInv, Lease!TypeOK, AskedInv, Lease!CountedIsApproved, Lease!None
    <2> QED
        BY <2>1, <2>2, <2>4, <2>5, NoneMoves
<1>8. ASSUME NEW d \in StepUps, Lease!WindowPasses(d) PROVE LeaseInv'
    <2>1. UNCHANGED <<leaseJob, row, viseca>> /\ Steady
        BY <1>8 DEF Lease!WindowPasses, Steady
    <2>2. Lease!TypeOK' /\ AskedInv'
        BY <1>8, SMT DEF Lease!WindowPasses, LeaseInv, Lease!TypeOK, AskedInv
    <2> QED
        BY <2>1, <2>2, NoneMoves DEF LeaseInv, Lease!CountedIsApproved
<1>9. ASSUME NEW d \in StepUps, Lease!VisecaExpires(d) PROVE LeaseInv'
    <2>1. UNCHANGED <<leaseJob, row, lapsed>>
        BY <1>9 DEF Lease!VisecaExpires
    <2>2. Lease!TypeOK'
        BY <1>9, SMT DEF Lease!VisecaExpires, LeaseInv, Lease!TypeOK
    <2>3. /\ viseca[d] = "open" /\ viseca'[d] = "expired"
          /\ \A c \in StepUps \ {d} : viseca'[c] = viseca[c]
        BY <1>9, SMT DEF Lease!VisecaExpires, LeaseInv, Lease!TypeOK
    <2>4. Steady /\ AskedInv' /\ Lease!CountedIsApproved'
        BY <2>1, <2>3, SMT DEF Steady, LeaseInv, AskedInv, Lease!CountedIsApproved, Lease!None
    <2> QED
        BY <2>1, <2>2, <2>4, NoneMoves
<1>10. ASSUME NEW p \in Workers, NEW d \in StepUps, Lease!Answer(p, d) PROVE LeaseInv'
    <2>1. /\ UNCHANGED <<row, viseca, lapsed>> /\ row[d] # Lease!None
          /\ \E says \in Lease!Result : Lease!Begin(p, "answer", d, says)
        BY <1>10 DEF Lease!Answer, Lease!Begin, Lease!Result
    <2>2. /\ leaseJob' \in [Workers -> Lease!Job]
          /\ \A q \in Workers \ {p} : leaseJob'[q] = leaseJob[q]
          /\ leaseJob'[p] # Lease!Idle /\ leaseJob'[p].of = d /\ leaseJob'[p].at = "row"
        BY <2>1, Begun DEF LeaseInv, Lease!Kind
    <2>3. Lease!TypeOK' /\ Steady
        BY <1>10, <2>1, <2>2, SMT DEF Lease!Answer, Lease!Begin, LeaseInv, Lease!TypeOK, Steady
    <2>4. CloseInv(p)'
        BY <2>1, <2>2 DEF CloseInv
    <2> QED
        BY <2>1, <2>2, <2>3, <2>4, OneMoves DEF LeaseInv, AskedInv, Lease!CountedIsApproved
<1>11. ASSUME NEW p \in Workers, NEW d \in StepUps, Lease!ExpireByTimer(p, d) PROVE LeaseInv'
    <2>1. /\ UNCHANGED <<row, viseca, lapsed>> /\ row[d] # Lease!None
          /\ \E says \in Lease!Result : Lease!Begin(p, "timer", d, says)
        BY <1>11, SMT DEF Lease!ExpireByTimer, Lease!Begin, Lease!Result, LeaseInv, Lease!TypeOK, AskedInv, Lease!None
    <2>2. /\ leaseJob' \in [Workers -> Lease!Job]
          /\ \A q \in Workers \ {p} : leaseJob'[q] = leaseJob[q]
          /\ leaseJob'[p] # Lease!Idle /\ leaseJob'[p].of = d /\ leaseJob'[p].at = "row"
        BY <2>1, Begun DEF LeaseInv, Lease!Kind
    <2>3. Lease!TypeOK' /\ Steady
        BY <1>11, <2>1, <2>2, SMT DEF Lease!ExpireByTimer, Lease!Begin, LeaseInv, Lease!TypeOK, Steady
    <2>4. CloseInv(p)'
        BY <2>1, <2>2 DEF CloseInv
    <2> QED
        BY <2>1, <2>2, <2>3, <2>4, OneMoves DEF LeaseInv, AskedInv, Lease!CountedIsApproved
<1>12. ASSUME NEW p \in Workers, NEW d \in StepUps, Lease!ExpireByRead(p, d) PROVE LeaseInv'
    <2>1. /\ UNCHANGED <<row, viseca, lapsed>> /\ row[d] # Lease!None
          /\ \E says \in Lease!Result : Lease!Begin(p, "read", d, says)
        BY <1>12, SMT DEF Lease!ExpireByRead, Lease!Begin, Lease!Result, LeaseInv, Lease!TypeOK, AskedInv, Lease!None
    <2>2. /\ leaseJob' \in [Workers -> Lease!Job]
          /\ \A q \in Workers \ {p} : leaseJob'[q] = leaseJob[q]
          /\ leaseJob'[p] # Lease!Idle /\ leaseJob'[p].of = d /\ leaseJob'[p].at = "row"
        BY <2>1, Begun DEF LeaseInv, Lease!Kind
    <2>3. Lease!TypeOK' /\ Steady
        BY <1>12, <2>1, <2>2, SMT DEF Lease!ExpireByRead, Lease!Begin, LeaseInv, Lease!TypeOK, Steady
    <2>4. CloseInv(p)'
        BY <2>1, <2>2 DEF CloseInv
    <2> QED
        BY <2>1, <2>2, <2>3, <2>4, OneMoves DEF LeaseInv, AskedInv, Lease!CountedIsApproved
<1>13. ASSUME NEW p \in Workers, Lease!ReadRow(p) PROVE LeaseInv'
    <2>1. /\ UNCHANGED <<row, viseca, lapsed>> /\ Steady
          /\ leaseJob[p] # Lease!Idle /\ Lease!TypeOK
        BY <1>13 DEF Lease!ReadRow, Lease!At, Steady, LeaseInv
    <2>2. leaseJob[p].of \in StepUps /\ leaseJob[p].says \in Lease!Result
        BY <2>1, AtAClose
    <2>3. \/ Lease!Ends(p)
          \/ Lease!GoTo(p, "platform", "timeout")
          \/ Lease!GoTo(p, "send", leaseJob[p].says)
        BY <1>13 DEF Lease!ReadRow
    <2>4. /\ leaseJob' \in [Workers -> Lease!Job] /\ CloseInv(p)'
          /\ \A q \in Workers \ {p} : leaseJob'[q] = leaseJob[q]
        BY <2>1, <2>2, <2>3, MovedIsSound DEF Lease!Result
    <2>5. Lease!TypeOK'
        BY <1>13, <2>1, <2>2, <2>4, SMT DEF Lease!ReadRow, Lease!Claims, LeaseInv, Lease!TypeOK
    <2> QED
        BY <2>1, <2>4, <2>5, OneMoves DEF LeaseInv, AskedInv, Lease!CountedIsApproved
<1>14. ASSUME NEW p \in Workers, Lease!ReadPlatform(p) PROVE LeaseInv'
    <2>1. /\ UNCHANGED <<row, viseca, lapsed>> /\ Steady
          /\ leaseJob[p] # Lease!Idle /\ Lease!TypeOK
        BY <1>14 DEF Lease!ReadPlatform, Lease!At, Steady, LeaseInv
    <2>2. leaseJob[p].of \in StepUps /\ viseca[leaseJob[p].of] # Lease!None
        BY <2>1, AtAClose DEF LeaseInv, CloseInv, AskedInv
    <2>3. \/ viseca[leaseJob[p].of] # "open" /\ Lease!GoTo(p, "record", Lease!Said(leaseJob[p].of))
          \/ Lease!GoTo(p, "send", "timeout")
          \/ Lease!GoTo(p, "record", "timeout")
        BY <1>14 DEF Lease!ReadPlatform
    <2>4. viseca[leaseJob[p].of] # "open" =>
             /\ Lease!Said(leaseJob[p].of) \in Lease!Result
             /\ Lease!Said(leaseJob[p].of) = "approved" => viseca[leaseJob[p].of] = "approved"
        BY <2>1, <2>2, SMT DEF Lease!Said, Lease!Result, Lease!TypeOK, Lease!None
    <2>5. /\ leaseJob' \in [Workers -> Lease!Job] /\ CloseInv(p)'
          /\ \A q \in Workers \ {p} : leaseJob'[q] = leaseJob[q]
        BY <2>1, <2>3, <2>4, MovedIsSound DEF Lease!Result
    <2>6. Lease!TypeOK'
        BY <1>14, <2>1, <2>2, <2>5, SMT
        DEF Lease!ReadPlatform, Lease!Claims, Lease!Fault, Lease!NoFault, LeaseInv, Lease!TypeOK
    <2> QED
        BY <2>1, <2>5, <2>6, OneMoves DEF LeaseInv, AskedInv, Lease!CountedIsApproved
<1>15. ASSUME NEW p \in Workers, Lease!Send(p) PROVE LeaseInv'
    <2>1. UNCHANGED <<row, lapsed>> /\ leaseJob[p] # Lease!Idle /\ Lease!TypeOK
        BY <1>15 DEF Lease!Send, Lease!At, LeaseInv
    <2>2. leaseJob[p].of \in StepUps /\ viseca[leaseJob[p].of] # Lease!None /\ leaseJob[p].says \in Lease!Result
        BY <2>1, AtAClose DEF LeaseInv, CloseInv, AskedInv
    <2>3. \/ UNCHANGED viseca
          \/ /\ viseca[leaseJob[p].of] = "open"
             /\ viseca' = Lease!Taken(leaseJob[p].of, leaseJob[p].says)
        BY <1>15 DEF Lease!Send
    <2>4. /\ viseca' \in [StepUps -> {Lease!None, "open", "approved", "declined", "expired"}]
          /\ \A d \in StepUps : \/ viseca'[d] = viseca[d]
                                \/ viseca[d] = "open" /\ viseca'[d] \in {"approved", "declined"}
        BY <2>1, <2>2, <2>3, SMT DEF Lease!Taken, Lease!TypeOK
    <2>5. Steady /\ AskedInv' /\ Lease!CountedIsApproved'
        BY <2>1, <2>4, SMT DEF Steady, LeaseInv, AskedInv, Lease!CountedIsApproved, Lease!None
    <2>6. \/ Lease!Ends(p)
          \/ Lease!GoTo(p, "record", "timeout")
          \/ Lease!GoTo(p, "again", "timeout") /\ viseca[leaseJob[p].of] # "open" /\ UNCHANGED viseca
          \/ /\ Lease!GoTo(p, "record", leaseJob[p].says) /\ viseca[leaseJob[p].of] = "open"
             /\ viseca' = Lease!Taken(leaseJob[p].of, leaseJob[p].says)
        BY <1>15 DEF Lease!Send, Lease!Refused
    <2>7. viseca' = Lease!Taken(leaseJob[p].of, leaseJob[p].says) /\ leaseJob[p].says = "approved" =>
             viseca'[leaseJob[p].of] = "approved"
        BY <2>1, <2>2, SMT DEF Lease!Taken, Lease!TypeOK
    <2>8. /\ leaseJob' \in [Workers -> Lease!Job] /\ CloseInv(p)'
          /\ \A q \in Workers \ {p} : leaseJob'[q] = leaseJob[q]
        BY <2>1, <2>2, <2>5, <2>6, <2>7, MovedIsSound DEF Lease!Result
    <2>9. Lease!TypeOK'
        BY <1>15, <2>1, <2>2, <2>4, <2>8, SMT DEF Lease!Send, Lease!Fault, Lease!NoFault, LeaseInv, Lease!TypeOK
    <2> QED
        BY <2>5, <2>8, <2>9, OneMoves
<1>16. ASSUME NEW p \in Workers, Lease!ReadAgain(p) PROVE LeaseInv'
    <2>1. /\ UNCHANGED <<row, viseca, lapsed>> /\ Steady
          /\ leaseJob[p] # Lease!Idle /\ leaseJob[p].at = "again" /\ Lease!TypeOK
        BY <1>16 DEF Lease!ReadAgain, Lease!At, Steady, LeaseInv
    <2>2. /\ leaseJob[p].of \in StepUps /\ viseca[leaseJob[p].of] # Lease!None
          /\ viseca[leaseJob[p].of] # "open"
        BY <2>1, AtAClose DEF LeaseInv, CloseInv, AskedInv
    <2>3. /\ Lease!Said(leaseJob[p].of) \in Lease!Result
          /\ Lease!Said(leaseJob[p].of) = "approved" => viseca[leaseJob[p].of] = "approved"
        BY <2>1, <2>2, SMT DEF Lease!Said, Lease!Result, Lease!TypeOK, Lease!None
    <2>4. Lease!GoTo(p, "record", Lease!Said(leaseJob[p].of)) \/ Lease!GoTo(p, "record", "timeout")
        BY <1>16 DEF Lease!ReadAgain
    <2>5. /\ leaseJob' \in [Workers -> Lease!Job] /\ CloseInv(p)'
          /\ \A q \in Workers \ {p} : leaseJob'[q] = leaseJob[q]
        BY <2>1, <2>3, <2>4, MovedIsSound DEF Lease!Result
    <2>6. Lease!TypeOK'
        BY <1>16, <2>1, <2>5, SMT DEF Lease!ReadAgain, Lease!Fault, Lease!NoFault, LeaseInv, Lease!TypeOK
    <2> QED
        BY <2>1, <2>5, <2>6, OneMoves DEF LeaseInv, AskedInv, Lease!CountedIsApproved
<1>17. ASSUME NEW p \in Workers, Lease!ReadToRecord(p) PROVE LeaseInv'
    <2>1. /\ UNCHANGED <<row, viseca, lapsed>> /\ Steady
          /\ leaseJob[p] # Lease!Idle /\ leaseJob[p].at = "record" /\ Lease!TypeOK
        BY <1>17 DEF Lease!ReadToRecord, Lease!At, Steady, LeaseInv
    <2>2. /\ leaseJob[p].says \in Lease!Result
          /\ leaseJob[p].says = "approved" => viseca[leaseJob[p].of] = "approved"
        BY <2>1, AtAClose DEF LeaseInv, CloseInv
    <2>3. Lease!Ends(p) \/ Lease!GoTo(p, "write", leaseJob[p].says)
        BY <1>17 DEF Lease!ReadToRecord
    <2>4. /\ leaseJob' \in [Workers -> Lease!Job] /\ CloseInv(p)'
          /\ \A q \in Workers \ {p} : leaseJob'[q] = leaseJob[q]
        BY <2>1, <2>2, <2>3, MovedIsSound
    <2>5. Lease!TypeOK'
        BY <1>17, <2>1, <2>4, SMT DEF Lease!ReadToRecord, LeaseInv, Lease!TypeOK
    <2> QED
        BY <2>1, <2>4, <2>5, OneMoves DEF LeaseInv, AskedInv, Lease!CountedIsApproved
<1>18. ASSUME NEW p \in Workers, Lease!Write(p) PROVE LeaseInv'
    <2>1. /\ UNCHANGED <<viseca, lapsed>> /\ Lease!Ends(p)
          /\ leaseJob[p] # Lease!Idle /\ leaseJob[p].at = "write" /\ Lease!TypeOK
        BY <1>18 DEF Lease!Write, Lease!At, LeaseInv
    <2>2. /\ leaseJob[p].of \in StepUps /\ leaseJob[p].says \in Lease!Result /\ row[leaseJob[p].of] # Lease!None
          /\ leaseJob[p].says = "approved" => viseca[leaseJob[p].of] = "approved"
        BY <2>1, AtAClose DEF LeaseInv, CloseInv
    <2>3. /\ row'[leaseJob[p].of] = leaseJob[p].says
          /\ \A d \in StepUps \ {leaseJob[p].of} : row'[d] = row[d]
        BY <1>18, <2>1, <2>2, SMT DEF Lease!Write, Lease!TypeOK
    <2>4. Steady
        BY <2>1, <2>2, <2>3, SMT DEF Steady, Lease!Result, Lease!None
    <2>5. AskedInv'
        BY <2>1, <2>2, <2>3, SMT DEF LeaseInv, AskedInv, Lease!TypeOK, Lease!Result, Lease!None
    <2>6. Lease!CountedIsApproved'
        BY <2>1, <2>2, <2>3 DEF LeaseInv, Lease!CountedIsApproved
    <2>7. /\ leaseJob' \in [Workers -> Lease!Job] /\ CloseInv(p)'
          /\ \A q \in Workers \ {p} : leaseJob'[q] = leaseJob[q]
        BY <2>1, <2>4, MovedIsSound
    <2>8. Lease!TypeOK'
        BY <1>18, <2>1, <2>2, <2>7, SMT DEF Lease!Write, LeaseInv, Lease!TypeOK
    <2> QED
        BY <2>4, <2>7, <2>8, <2>5, <2>6, OneMoves
<1>19. ASSUME UNCHANGED Lease!vars PROVE LeaseInv'
    <2>1. UNCHANGED <<leaseJob, row, viseca, lapsed>> /\ Steady
        BY <1>19 DEF Lease!vars, Steady
    <2>2. Lease!TypeOK'
        BY <1>19, SMT DEF Lease!vars, LeaseInv, Lease!TypeOK
    <2> QED
        BY <2>1, <2>2, NoneMoves DEF LeaseInv, AskedInv, Lease!CountedIsApproved
<1> QED
    BY <1>1, <1>2, <1>3, <1>4, <1>5, <1>6, <1>7, <1>8, <1>9, <1>10, <1>11, <1>12, <1>13,
       <1>14, <1>15, <1>16, <1>17, <1>18, <1>19
    DEF Lease!Next, Lease!Leads, Lease!Closes

-----------------------------------------------------------------------------
(* A step-up is booked as approved only when Viseca approved it, whichever *)
(* processes answer (C8), expire, read and take over together, and however *)
(* their calls fail (resolve_by_customer, expire, _reconcile_platform).    *)
THEOREM BookedIsApproved == Lease!Spec => []Lease!CountedIsApproved
<1>1. LeaseInv => Lease!CountedIsApproved
    BY DEF LeaseInv
<1> QED
    BY <1>1, LeaseInitially, LeaseStep, PTL DEF Lease!Spec

-----------------------------------------------------------------------------
(***************************************************************************)
(* The reference data (ReferenceSync): what a process takes for synced is  *)
(* in the store.  The store's tables only grow, because the one process    *)
(* that syncs syncs what was served after everything stored before.        *)
(***************************************************************************)
(* The instance counts as FiniteSets does. *)
LEMMA Counts == \A S : Reference!Cardinality(S) = Cardinality(S)
BY DEF Cardinality, Reference!Cardinality

Stage == {"fetch", "tables", "history", "reseed", "load", "known"}
Syncing == [at : Stage, ref : {Reference!None} \cup Reference!Served, tables : BOOLEAN, changed : BOOLEAN,
            text : SUBSET Ids]

Shapes == [pack : 0..MaxPublish, count : 0..Reference!Cardinality(Ids), meta : SUBSET Ids]
Boot == [read : -1..MaxPublish, waits : -1..MaxPublish, returned : -1..MaxPublish]

(* One process leads, and only it syncs. *)
OneSyncs ==
    /\ \A p, q \in Workers : syncRole[p] = "lead" /\ syncRole[q] = "lead" => p = q
    /\ \A p \in Workers : Reference!Syncs(p) => syncRole[p] = "lead"

(* What is being synced was served after what is stored; once its tables   *)
(* are through, it is in the store.                                        *)
SyncOf(p) ==
    Reference!Syncs(p) =>
      /\ sync[p].at \in {"tables", "history", "reseed"} => sync[p].ref # Reference!None
      /\ sync[p].ref # Reference!None => store.pack <= sync[p].ref.pack /\ sync[p].ref.pack <= syncServed.pack
      /\ sync[p].tables => /\ sync[p].at \notin {"fetch", "tables"}
                           /\ sync[p].ref # Reference!None /\ sync[p].ref.pack <= store.pack
                           /\ sync[p].ref.ids \subseteq store.ids

Seen(p) ==
    syncSeen[p] # Reference!None =>
      syncSeen[p].pack <= store.pack /\ syncSeen[p].count <= Reference!Cardinality(store.ids)

SyncInv ==
    /\ Reference!TypeOK
    /\ OneSyncs
    /\ store.pack <= syncServed.pack /\ syncServed.pack <= published
    /\ \A p \in Workers : SyncOf(p) /\ Seen(p)

(* Nothing leaves the store. *)
Keeps == store.pack <= store'.pack /\ store.ids \subseteq store'.ids

-----------------------------------------------------------------------------
LEMMA IdsCount ==
    ASSUME IsFiniteSet(Ids), NEW S \in SUBSET Ids, NEW R \in SUBSET S
    PROVE  /\ Reference!Cardinality(R) \in Nat /\ Reference!Cardinality(S) \in Nat
           /\ Reference!Cardinality(R) <= Reference!Cardinality(S)
<1>1. IsFiniteSet(S)
    BY FS_Subset
<1> QED
    BY <1>1, FS_Subset, FS_CardinalityType, Counts

(* A sync in flight, and what it may sync. *)
LEMMA InFlight ==
    ASSUME Reference!TypeOK, NEW p \in Workers, Reference!Syncs(p)
    PROVE  /\ sync \in [Workers -> {Reference!NoSync} \cup Syncing] /\ sync[p] \in Syncing
           /\ sync[p].ref # Reference!None => sync[p].ref \in Reference!Served
BY SMT DEF Reference!TypeOK, Reference!Syncs, Syncing, Stage

LEMMA NotNone ==
    ASSUME NEW ref \in Reference!Served PROVE ref # Reference!None
BY SMT DEF Reference!Served, Reference!None

LEMMA ShapeOf ==
    ASSUME IsFiniteSet(Ids), Reference!SyncAssumption, NEW ref \in Reference!Served
    PROVE  /\ Reference!Shape(ref).pack = ref.pack
           /\ Reference!Shape(ref).count = Reference!Cardinality(ref.ids)
           /\ Reference!Shape(ref) \in Shapes
<1>1. /\ Reference!Cardinality(ref.ids) \in Nat /\ Reference!Cardinality(Ids) \in Nat
      /\ Reference!Cardinality(ref.ids) <= Reference!Cardinality(Ids)
    BY IdsCount DEF Reference!Served
<1> QED
    BY <1>1, SMT DEF Reference!Shape, Reference!Served, Reference!SyncAssumption, Shapes, Boot

(* What a process has seen stays so while the store keeps its rows. *)
LEMMA SeenKept ==
    ASSUME IsFiniteSet(Ids), Reference!SyncAssumption, SyncInv, Keeps,
           store'.ids \in SUBSET Ids, store'.pack \in Int, NEW p \in Workers, syncSeen'[p] = syncSeen[p]
    PROVE  Seen(p)'
<1>1. Seen(p) /\ Reference!TypeOK
    BY DEF SyncInv
<1>2. /\ store.pack \in Int /\ store'.pack \in Int
      /\ store.ids \in SUBSET Ids /\ store'.ids \in SUBSET Ids
    BY <1>1, SMT DEF Reference!TypeOK, Reference!SyncAssumption
<1>3. /\ Reference!Cardinality(store.ids) \in Nat /\ Reference!Cardinality(store'.ids) \in Nat
      /\ Reference!Cardinality(store.ids) <= Reference!Cardinality(store'.ids)
    BY <1>2, IdsCount DEF Keeps
<1>4. syncSeen[p] # Reference!None => syncSeen[p].pack \in Int /\ syncSeen[p].count \in Int
  <2>1. syncSeen[p] \in {Reference!None} \cup Shapes
    BY <1>1 DEF Reference!TypeOK, Shapes, Boot
  <2> QED
    BY <2>1, SMT DEF Shapes, Boot
<1> QED
    BY <1>1, <1>2, <1>3, <1>4 DEF Seen, Keeps

(* A step of the one that syncs, or of another that does not touch the     *)
(* store, keeps the invariant when it leaves its own process right.        *)
LEMMA OneActs ==
    ASSUME IsFiniteSet(Ids), Reference!SyncAssumption, SyncInv, Reference!TypeOK', Keeps,
           store'.pack <= syncServed'.pack, syncServed' = syncServed, published' = published,
           NEW p \in Workers, SyncOf(p)', Seen(p)',
           \A q \in Workers \ {p} :
              sync'[q] = sync[q] /\ syncSeen'[q] = syncSeen[q] /\ syncRole'[q] = syncRole[q],
           syncRole'[p] = "lead" => Reference!LeaseFree \/ syncRole[p] = "lead",
           syncRole'[p] # "lead" => ~Reference!Syncs(p)',
           store' = store \/ syncRole[p] = "lead"
    PROVE  SyncInv'
<1>1. OneSyncs'
  <2>1. ASSUME NEW q \in Workers, NEW r \in Workers, syncRole'[q] = "lead", syncRole'[r] = "lead"
        PROVE  q = r
    BY <2>1 DEF SyncInv, OneSyncs, Reference!LeaseFree
  <2>2. ASSUME NEW q \in Workers, Reference!Syncs(q)'
        PROVE  syncRole'[q] = "lead"
    BY <2>2 DEF SyncInv, OneSyncs, Reference!Syncs
  <2> QED
    BY <2>1, <2>2 DEF OneSyncs
<1>2. ASSUME NEW q \in Workers, q # p PROVE SyncOf(q)'
  <2>1. CASE store' = store
    BY <1>2, <2>1 DEF SyncInv, SyncOf, Reference!Syncs
  <2>2. CASE syncRole[p] = "lead"
    BY <1>2, <2>2 DEF SyncInv, OneSyncs, SyncOf, Reference!Syncs
  <2> QED
    BY <2>1, <2>2
<1>3. ASSUME NEW q \in Workers, q # p PROVE Seen(q)'
  <2>1. store'.ids \in SUBSET Ids /\ store'.pack \in Int
    BY SMT DEF Reference!TypeOK, Reference!SyncAssumption
  <2> QED
    BY <1>3, <2>1, SeenKept
<1> QED
    BY <1>1, <1>2, <1>3 DEF SyncInv

-----------------------------------------------------------------------------
LEMMA SyncInitially ==
    ASSUME IsFiniteSet(Ids), Reference!SyncAssumption, Reference!Init
    PROVE  SyncInv
<1>1. Reference!TypeOK
    BY SMT DEF Reference!Init, Reference!TypeOK, Reference!SyncAssumption, Reference!Served,
       Reference!Pack, Reference!None, Reference!NoIndex, Reference!NoSync, Reference!NoBoot
<1>2. /\ \A p \in Workers : sync[p] = Reference!NoSync /\ syncSeen[p] = Reference!None /\ syncRole[p] = "down"
      /\ store.pack <= syncServed.pack /\ syncServed.pack <= published
    BY SMT DEF Reference!Init
<1> QED
    BY <1>1, <1>2 DEF SyncInv, OneSyncs, SyncOf, Seen, Reference!Syncs

LEMMA PublishKeeps ==
    ASSUME IsFiniteSet(Ids), Reference!SyncAssumption, SyncInv, Reference!Publish
    PROVE  SyncInv'
<1>1. Reference!TypeOK
    BY DEF SyncInv
<1>2. PICK ids \in SUBSET Ids, hist \in SUBSET Ids, pack \in {syncServed.pack, published'} :
         syncServed' = [pack |-> pack, ids |-> ids, hist |-> hist]
    BY DEF Reference!Publish
<1>3. /\ published' \in 0..MaxPublish /\ published' = published + 1
      /\ published \in Nat /\ syncServed.pack \in 0..MaxPublish
    BY <1>1, SMT DEF Reference!Publish, Reference!SyncAssumption, Reference!TypeOK, Reference!Served
<1>4. /\ syncServed' \in Reference!Served /\ syncServed.pack <= syncServed'.pack /\ syncServed'.pack <= published'
    BY <1>2, <1>3, SMT DEF SyncInv, Reference!Served
<1>5. UNCHANGED <<store, syncRole, syncSeen, sha, index, syncKnown, unresolved, asking, boot,
                  sync, syncFaults, handovers>>
    BY DEF Reference!Publish, Reference!views
<1>6. Reference!TypeOK'
    BY <1>1, <1>3, <1>4, <1>5 DEF Reference!TypeOK
<1>7. \A p \in Workers : SyncOf(p)'
  <2>1. ASSUME NEW p \in Workers, sync[p].ref # Reference!None, Reference!Syncs(p)
        PROVE  sync[p].ref.pack \in Int
    BY <1>1, <2>1, InFlight DEF Reference!Served
  <2>2. store.pack \in Int
    BY <1>1, SMT DEF Reference!TypeOK, Reference!SyncAssumption
  <2> QED
    BY <1>3, <1>4, <1>5, <2>1, <2>2 DEF SyncInv, SyncOf, Reference!Syncs, Reference!Served
<1>8. OneSyncs' /\ \A p \in Workers : Seen(p)'
    BY <1>5 DEF SyncInv, OneSyncs, Seen, Reference!Syncs
<1>9. store'.pack <= syncServed'.pack
    BY <1>1, <1>3, <1>4, <1>5, SMT DEF SyncInv, Reference!TypeOK, Reference!Served, Reference!SyncAssumption
<1> QED
    BY <1>4, <1>6, <1>7, <1>8, <1>9 DEF SyncInv

(* A sync that begins, or is joined. *)
LEMMA BeginsOrJoins ==
    ASSUME SyncInv, NEW p \in Workers, NEW ref \in {Reference!None, syncServed}, Reference!SyncReference(p, ref),
           store' = store, syncServed' = syncServed
    PROVE  /\ sync' \in [Workers -> {Reference!NoSync} \cup Syncing]
           /\ \A q \in Workers \ {p} : sync'[q] = sync[q]
           /\ SyncOf(p)'
<1>1. /\ sync \in [Workers -> {Reference!NoSync} \cup Syncing] /\ syncServed \in Reference!Served
    BY SMT DEF SyncInv, Reference!TypeOK, Syncing, Stage
<1>2. CASE Reference!Syncs(p)
    BY <1>1, <1>2 DEF Reference!SyncReference, SyncInv, SyncOf, Reference!Syncs
<1>3. CASE ~Reference!Syncs(p)
  <2>1. sync' = [sync EXCEPT ![p] = Reference!Begun(ref)]
    BY <1>3 DEF Reference!SyncReference
  <2>2. Reference!Begun(ref) \in Syncing
    BY <1>1, SMT DEF Reference!Begun, Syncing, Stage
  <2>3. sync'[p] = Reference!Begun(ref)
    BY <1>1, <2>1
  <2>4. /\ sync'[p].ref = ref /\ sync'[p].tables = FALSE
        /\ sync'[p].at = IF ref = Reference!None THEN "fetch" ELSE "tables"
        /\ ref = Reference!None => sync'[p].at = "fetch"
    BY <2>3 DEF Reference!Begun
  <2>5. syncServed # Reference!None /\ store.pack <= syncServed.pack /\ syncServed.pack <= syncServed.pack
    BY <1>1, NotNone, SMT DEF SyncInv, Reference!Served, Reference!None
  <2>6. SyncOf(p)'
    BY <2>4, <2>5 DEF SyncOf
  <2> QED
    BY <1>1, <2>1, <2>2, <2>6
<1> QED
    BY <1>2, <1>3

(* A step that leaves the store and what is served alone. *)
LEMMA OneGoesOn ==
    ASSUME IsFiniteSet(Ids), Reference!SyncAssumption, SyncInv, Reference!TypeOK',
           store' = store, syncServed' = syncServed, published' = published,
           NEW p \in Workers, SyncOf(p)', syncSeen'[p] \in {syncSeen[p], Reference!None},
           \A q \in Workers \ {p} :
              sync'[q] = sync[q] /\ syncSeen'[q] = syncSeen[q] /\ syncRole'[q] = syncRole[q],
           syncRole'[p] = "lead" => Reference!LeaseFree \/ syncRole[p] = "lead",
           syncRole'[p] # "lead" => ~Reference!Syncs(p)'
    PROVE  SyncInv'
<1>1. store.ids \in SUBSET Ids /\ store.pack \in Int
    BY SMT DEF SyncInv, Reference!TypeOK, Reference!SyncAssumption
<1>2. Keeps /\ store'.pack <= syncServed'.pack
    BY <1>1, SMT DEF Keeps, SyncInv
<1>3. Seen(p)'
    BY <1>1, <1>2, SeenKept DEF Seen
<1> QED
    BY <1>2, <1>3, OneActs

(* Reading the store's tables into the index. *)
LEMMA Loads ==
    ASSUME Reference!TypeOK, NEW p \in Workers,
           \/ index' = index
           \/ index' = [index EXCEPT ![p] = [ids |-> store.ids, hist |-> store.hist, loaded |-> TRUE]]
    PROVE  index' \in [Workers -> [ids : SUBSET Ids, hist : SUBSET Ids, loaded : BOOLEAN]]
<1> DEFINE Index == [ids : SUBSET Ids, hist : SUBSET Ids, loaded : BOOLEAN]
           new == [ids |-> store.ids, hist |-> store.hist, loaded |-> TRUE]
<1>1. index \in [Workers -> Index] /\ store.ids \in SUBSET Ids /\ store.hist \in SUBSET Ids
    BY DEF Reference!TypeOK
<1>2. new \in Index
    BY <1>1
<1>3. index' = index \/ index' = [index EXCEPT ![p] = new]
    OBVIOUS
<1> HIDE DEF Index, new
<1>4. index' \in [Workers -> Index]
    BY <1>1, <1>2, <1>3
<1> QED
    BY <1>4 DEF Index

LEMMA StartKeeps ==
    ASSUME IsFiniteSet(Ids), Reference!SyncAssumption, SyncInv, NEW p \in Workers, Reference!Start(p)
    PROVE  SyncInv'
<1>1. Reference!TypeOK
    BY DEF SyncInv
<1>2. UNCHANGED <<store, syncServed, syncSeen, sha, syncKnown, unresolved, asking, published,
                  syncFaults, handovers>>
    BY DEF Reference!Start, Reference!bounds
<1>3. ~Reference!Syncs(p)
    BY DEF Reference!Start, SyncInv, OneSyncs
<1>4. /\ sync' \in [Workers -> {Reference!NoSync} \cup Syncing]
      /\ \A q \in Workers \ {p} : sync'[q] = sync[q] 
      /\ SyncOf(p)'
      /\ ~Reference!LeaseFree => ~Reference!Syncs(p)'
  <2>1. CASE Reference!LeaseFree
    BY <1>2, <2>1, BeginsOrJoins DEF Reference!Start
  <2>2. CASE ~Reference!LeaseFree
    BY <1>1, <1>2, <1>3, <2>2 DEF Reference!Start, Reference!TypeOK, Syncing, Stage, SyncInv, SyncOf, Reference!Syncs
  <2> QED
    BY <2>1, <2>2
<1>5. /\ syncRole' \in [Workers -> {"down", "standby", "lead"}]
      /\ \A q \in Workers \ {p} : syncRole'[q] = syncRole[q]
      /\ syncRole'[p] = IF Reference!LeaseFree THEN "lead" ELSE "standby"
  <2>1. /\ syncRole \in [Workers -> {"down", "standby", "lead"}]
        /\ syncRole' = [syncRole EXCEPT ![p] = IF Reference!LeaseFree THEN "lead" ELSE "standby"]
    BY <1>1 DEF Reference!Start, Reference!TypeOK
  <2> QED
    BY <2>1
<1>6. index' \in [Workers -> [ids : SUBSET Ids, hist : SUBSET Ids, loaded : BOOLEAN]]
    BY <1>1, Loads DEF Reference!Start
<1>7. boot' \in [Workers -> Boot]
  <2>1. syncServed.pack \in -1..MaxPublish
    BY <1>1, SMT DEF Reference!TypeOK, Reference!Served, Reference!SyncAssumption
  <2>2. /\ boot \in [Workers -> Boot]
        /\ boot' = [boot EXCEPT ![p].read = syncServed.pack]
    BY <1>1 DEF Reference!TypeOK, Reference!Start, Shapes, Boot
  <2> QED
    BY <2>1, <2>2, SMT DEF Shapes, Boot
<1>8. Reference!TypeOK'
    BY <1>1, <1>2, <1>4, <1>5, <1>6, <1>7 DEF Reference!TypeOK, Syncing, Stage, Shapes, Boot
<1> QED
    BY <1>2, <1>4, <1>5, <1>8, OneGoesOn

LEMMA TakeLeaseKeeps ==
    ASSUME IsFiniteSet(Ids), Reference!SyncAssumption, SyncInv, NEW p \in Workers, Reference!TakeLease(p)
    PROVE  SyncInv'
<1>1. /\ UNCHANGED <<syncServed, store, syncSeen, sha, index, syncKnown, unresolved, asking, boot,
                     published, syncFaults, handovers>>
      /\ Reference!LeaseFree /\ syncRole' = [syncRole EXCEPT ![p] = "lead"]
      /\ Reference!TypeOK
    BY DEF Reference!TakeLease, Reference!views, Reference!bounds, SyncInv
<1>2. /\ sync' \in [Workers -> {Reference!NoSync} \cup Syncing] /\ SyncOf(p)'
      /\ \A q \in Workers \ {p} : sync'[q] = sync[q]
    BY <1>1, BeginsOrJoins DEF Reference!TakeLease
<1>3. Reference!TypeOK'
    BY <1>1, <1>2 DEF Reference!TypeOK, Syncing, Stage
<1> QED
    BY <1>1, <1>2, <1>3, OneGoesOn DEF Reference!TypeOK

(* The holder begins or joins a sync for one of its other reasons. *)
LEMMA TriggerKeeps ==
    ASSUME IsFiniteSet(Ids), Reference!SyncAssumption, SyncInv, NEW p \in Workers,
           \/ Reference!CheckReference(p) \/ Reference!RefreshBootstrap(p)
           \/ \E x \in Ids : Reference!NamesUnknown(p, x)
    PROVE  SyncInv'
<1>1. /\ UNCHANGED <<syncServed, store, syncRole, syncSeen, sha, index, syncKnown, unresolved,
                     published, syncFaults, handovers>>
      /\ syncRole[p] = "lead" /\ Reference!TypeOK
    BY DEF Reference!CheckReference, Reference!RefreshBootstrap, Reference!NamesUnknown, Reference!views, Reference!bounds, SyncInv
<1>2. \E ref \in {Reference!None, syncServed} : Reference!SyncReference(p, ref)
    BY DEF Reference!CheckReference, Reference!RefreshBootstrap, Reference!NamesUnknown
<1>3. /\ sync' \in [Workers -> {Reference!NoSync} \cup Syncing] /\ SyncOf(p)'
      /\ \A q \in Workers \ {p} : sync'[q] = sync[q]
    BY <1>1, <1>2, BeginsOrJoins
<1>4. asking' \in [Workers -> SUBSET Ids]
    BY <1>1, SMT DEF Reference!CheckReference, Reference!RefreshBootstrap, Reference!NamesUnknown, Reference!TypeOK
<1>5. boot' \in [Workers -> Boot]
  <2>1. syncServed.pack \in -1..MaxPublish
    BY <1>1, SMT DEF Reference!TypeOK, Reference!Served, Reference!SyncAssumption
  <2> QED
    BY <1>1, <2>1, SMTT(30) DEF Reference!CheckReference, Reference!RefreshBootstrap, Reference!NamesUnknown, Reference!TypeOK, Shapes, Boot
<1>6. Reference!TypeOK'
    BY <1>1, <1>3, <1>4, <1>5 DEF Reference!TypeOK, Syncing, Stage, Shapes, Boot
<1> QED
    BY <1>1, <1>3, <1>6, OneGoesOn

-----------------------------------------------------------------------------
(* The stages of a sync. *)

(* A sync at one of its stages. *)
LEMMA Flying ==
    ASSUME SyncInv, NEW p \in Workers, NEW stage, Reference!At(p, stage)
    PROVE  /\ Reference!TypeOK /\ SyncOf(p) /\ Seen(p) /\ Reference!Syncs(p)
           /\ sync[p].at = stage /\ syncRole[p] = "lead" /\ sync[p] \in Syncing
           /\ sync \in [Workers -> {Reference!NoSync} \cup Syncing]
           /\ sync[p].ref # Reference!None => sync[p].ref \in Reference!Served
BY InFlight DEF SyncInv, OneSyncs, Reference!At

(* What moves one sync on. *)
LEMMA MovesOn ==
    ASSUME NEW p \in Workers, NEW new \in {Reference!NoSync} \cup Syncing,
           sync \in [Workers -> {Reference!NoSync} \cup Syncing], sync' = [sync EXCEPT ![p] = new]
    PROVE  /\ sync' \in [Workers -> {Reference!NoSync} \cup Syncing]
           /\ \A q \in Workers \ {p} : sync'[q] = sync[q]
           /\ sync'[p] = new
OBVIOUS

LEMMA GoesTo ==
    ASSUME NEW p \in Workers, NEW stage \in Stage, Reference!Goes(p, stage),
           sync \in [Workers -> {Reference!NoSync} \cup Syncing], sync[p] \in Syncing
    PROVE  /\ sync' \in [Workers -> {Reference!NoSync} \cup Syncing]
           /\ \A q \in Workers \ {p} : sync'[q] = sync[q]
           /\ sync'[p].at = stage /\ sync'[p].ref = sync[p].ref /\ sync'[p].tables = sync[p].tables
<1> DEFINE new == [sync[p] EXCEPT !.at = stage]
<1>1. new \in Syncing /\ new.at = stage /\ new.ref = sync[p].ref /\ new.tables = sync[p].tables
    BY DEF Syncing
<1>2. sync' = [sync EXCEPT ![p] = new]
    BY DEF Reference!Goes
<1> HIDE DEF new
<1> QED
    BY <1>1, <1>2, MovesOn

(* A sync that gives a stage up, or has nothing to load, stays about what it was. *)
LEMMA GoesOnSound ==
    ASSUME NEW p \in Workers, NEW stage \in {"load", "known"}, SyncOf(p), Reference!Syncs(p),
           store' = store, syncServed' = syncServed,
           sync'[p].at = stage, sync'[p].ref = sync[p].ref, sync'[p].tables = sync[p].tables
    PROVE  SyncOf(p)'
BY DEF SyncOf

LEMMA FaultCounts ==
    ASSUME Reference!SyncAssumption, Reference!TypeOK, Reference!Fault \/ Reference!NoFault
    PROVE  syncFaults' \in 0..MaxFaults
BY SMT DEF Reference!Fault, Reference!NoFault, Reference!TypeOK, Reference!SyncAssumption

(* A sync counts as one when what it brought is in the store. *)
LEMMA SeesStored ==
    ASSUME IsFiniteSet(Ids), Reference!SyncAssumption, SyncInv, Keeps,
           store'.ids \in SUBSET Ids, store'.pack \in Int,
           NEW p \in Workers, NEW tables \in BOOLEAN, UNCHANGED syncSeen \/ Reference!See(p, tables, TRUE),
           tables => /\ sync[p].ref \in Reference!Served
                     /\ sync[p].ref.pack <= store'.pack /\ sync[p].ref.ids \subseteq store'.ids
    PROVE  /\ syncSeen' \in [Workers -> {Reference!None} \cup Shapes]
           /\ \A q \in Workers \ {p} : syncSeen'[q] = syncSeen[q]
           /\ Seen(p)'
<1> DEFINE Seeing == {Reference!None} \cup Shapes
           shape == Reference!Shape(sync[p].ref)
<1>1. syncSeen \in [Workers -> Seeing]
    BY DEF SyncInv, Reference!TypeOK, Shapes
<1>2. tables => /\ shape \in Seeing
                /\ shape.pack = sync[p].ref.pack
                /\ shape.count = Reference!Cardinality(sync[p].ref.ids)
    BY ShapeOf
<1>3. tables => Reference!Cardinality(sync[p].ref.ids) <= Reference!Cardinality(store'.ids)
    BY IdsCount
<1>4. \/ syncSeen' = syncSeen
      \/ tables /\ syncSeen' = [syncSeen EXCEPT ![p] = shape]
      \/ ~tables /\ syncSeen' = [syncSeen EXCEPT ![p] = syncSeen[p]]
    BY DEF Reference!See, Reference!Succeeds
<1> HIDE DEF shape
<1>5. CASE \/ syncSeen' = syncSeen
           \/ ~tables /\ syncSeen' = [syncSeen EXCEPT ![p] = syncSeen[p]]
  <2>1. syncSeen' = syncSeen
    BY <1>1, <1>5
  <2> QED
    BY <1>1, <2>1, SeenKept
<1>6. CASE tables /\ syncSeen' = [syncSeen EXCEPT ![p] = shape]
  <2>1. /\ syncSeen'[p] = shape /\ syncSeen' \in [Workers -> Seeing]
        /\ \A q \in Workers \ {p} : syncSeen'[q] = syncSeen[q]
    BY <1>1, <1>2, <1>6
  <2> QED
    BY <1>2, <1>3, <1>6, <2>1 DEF Seen
<1> QED
    BY <1>4, <1>5, <1>6

LEMMA FetchKeeps ==
    ASSUME IsFiniteSet(Ids), Reference!SyncAssumption, SyncInv, NEW p \in Workers,
           Reference!FetchReference(p)
    PROVE  SyncInv'
<1>1. /\ UNCHANGED <<syncServed, store, syncRole, syncSeen, sha, index, syncKnown, unresolved,
                     asking, boot, published, handovers>>
      /\ Reference!At(p, "fetch")
    BY DEF Reference!FetchReference, Reference!views
<1>2. /\ Reference!TypeOK /\ Reference!Syncs(p) /\ syncRole[p] = "lead" /\ SyncOf(p)
      /\ sync \in [Workers -> {Reference!NoSync} \cup Syncing] /\ sync[p] \in Syncing
    BY <1>1, Flying
<1>3. syncFaults' \in 0..MaxFaults
    BY <1>2, FaultCounts DEF Reference!FetchReference
<1>4. /\ sync' \in [Workers -> {Reference!NoSync} \cup Syncing]
      /\ \A q \in Workers \ {p} : sync'[q] = sync[q]
      /\ SyncOf(p)'
  <2>1. CASE sync' = [sync EXCEPT ![p].at = "tables", ![p].ref = syncServed]
    <3> DEFINE new == [sync[p] EXCEPT !.at = "tables", !.ref = syncServed]
    <3>1. syncServed \in Reference!Served /\ syncServed # Reference!None /\ store.pack <= syncServed.pack
      BY <1>2, NotNone DEF Reference!TypeOK, SyncInv
    <3>2. new \in Syncing /\ new.at = "tables" /\ new.ref = syncServed /\ new.tables = sync[p].tables
      BY <1>2, <3>1 DEF Syncing, Stage
    <3>3. sync' = [sync EXCEPT ![p] = new]
      BY <2>1
    <3> HIDE DEF new
    <3>4. /\ sync' \in [Workers -> {Reference!NoSync} \cup Syncing]
          /\ \A q \in Workers \ {p} : sync'[q] = sync[q]
          /\ sync'[p] = new
      BY <1>2, <3>2, <3>3, MovesOn
    <3>5. ~sync[p].tables /\ syncServed.pack <= syncServed.pack
      BY <1>1, <1>2, <3>1, SMT DEF Reference!At, SyncOf, Reference!Served, Syncing
    <3>6. SyncOf(p)'
      BY <1>1, <3>1, <3>2, <3>4, <3>5 DEF SyncOf
    <3> QED
      BY <3>4, <3>6
  <2>2. CASE Reference!Goes(p, "load")
    BY <1>1, <1>2, <2>2, GoesTo, GoesOnSound DEF Stage
  <2> QED
    BY <2>1, <2>2 DEF Reference!FetchReference
<1>5. Reference!TypeOK'
    BY <1>1, <1>2, <1>3, <1>4 DEF Reference!TypeOK, Syncing, Stage
<1> QED
    BY <1>1, <1>2, <1>4, <1>5, OneGoesOn

LEMMA TablesKeep ==
    ASSUME IsFiniteSet(Ids), Reference!SyncAssumption, SyncInv, NEW p \in Workers,
           Reference!SyncTables(p)
    PROVE  SyncInv'
<1>1. /\ UNCHANGED <<syncServed, syncRole, sha, index, syncKnown, unresolved, asking, boot,
                     published, handovers>>
      /\ Reference!At(p, "tables")
    BY DEF Reference!SyncTables
<1>2. /\ Reference!TypeOK /\ Reference!Syncs(p) /\ syncRole[p] = "lead" /\ SyncOf(p) /\ Seen(p)
      /\ sync \in [Workers -> {Reference!NoSync} \cup Syncing] /\ sync[p] \in Syncing
      /\ sync[p].ref \in Reference!Served /\ sync[p].ref # Reference!None
    BY <1>1, Flying DEF SyncOf
<1> DEFINE ref == sync[p].ref
<1>3. PICK ok \in BOOLEAN :
         /\ IF ok THEN Reference!NoFault ELSE Reference!Fault
         /\ store' = IF ok THEN [store EXCEPT !.ids = @ \cup ref.ids, !.pack = ref.pack] ELSE store
         /\ sync' = [sync EXCEPT ![p].tables = ok, ![p].changed = ok /\ Reference!Changed(p),
                                 ![p].at = IF Reference!SameHistory(p) THEN "load" ELSE "history"]
         /\ IF Reference!SameHistory(p) THEN Reference!See(p, ok, TRUE) ELSE UNCHANGED syncSeen
    BY DEF Reference!SyncTables
<1>4. syncFaults' \in 0..MaxFaults
    BY <1>2, <1>3, FaultCounts
<1>5. /\ store \in [ids : SUBSET Ids, hist : SUBSET Ids, pack : -1..MaxPublish]
      /\ ref.ids \in SUBSET Ids /\ ref.pack \in 0..MaxPublish /\ MaxPublish \in Nat
      /\ store.pack <= ref.pack /\ ref.pack <= syncServed.pack
    BY <1>2 DEF Reference!TypeOK, Reference!Served, Reference!SyncAssumption, SyncOf
<1>6. /\ store' \in [ids : SUBSET Ids, hist : SUBSET Ids, pack : -1..MaxPublish]
      /\ Keeps /\ store'.pack <= syncServed'.pack /\ store'.pack <= ref.pack
      /\ ok => ref.pack <= store'.pack /\ ref.ids \subseteq store'.ids
  <2> HIDE DEF ref
  <2>1. CASE ok
    <3>1. store' = [store EXCEPT !.ids = store.ids \cup ref.ids, !.pack = ref.pack]
      BY <1>3, <2>1
    <3>2. ref.pack \in -1..MaxPublish /\ store.ids \cup ref.ids \in SUBSET Ids
      BY <1>5, SMT
    <3>3. /\ store' \in [ids : SUBSET Ids, hist : SUBSET Ids, pack : -1..MaxPublish]
          /\ store'.ids = store.ids \cup ref.ids /\ store'.pack = ref.pack
      BY <1>5, <3>1, <3>2
    <3> QED
      BY <1>1, <1>5, <3>3, SMT DEF Keeps
  <2>2. CASE ~ok
    BY <1>1, <1>3, <1>5, <2>2, SMT DEF Keeps, SyncInv
  <2> QED
    BY <2>1, <2>2
<1>7. /\ sync' \in [Workers -> {Reference!NoSync} \cup Syncing]
      /\ \A q \in Workers \ {p} : sync'[q] = sync[q]
      /\ SyncOf(p)'
  <2> DEFINE stage == IF Reference!SameHistory(p) THEN "load" ELSE "history"
             changed == ok /\ Reference!Changed(p)
             new == [sync[p] EXCEPT !.tables = ok, !.changed = changed, !.at = stage]
  <2>1. stage \in Stage \ {"fetch", "tables"} /\ changed \in BOOLEAN
    BY DEF Stage, Reference!Changed
  <2>2. sync' = [sync EXCEPT ![p] = new]
    BY <1>3
  <2> HIDE DEF stage, changed
  <2>3. /\ new \in Syncing /\ new.at \in Stage \ {"fetch", "tables"} 
        /\ new.ref = sync[p].ref /\ new.tables = ok
    BY <1>2, <2>1 DEF Syncing
  <2> HIDE DEF new
  <2>4. /\ sync' \in [Workers -> {Reference!NoSync} \cup Syncing]
        /\ \A q \in Workers \ {p} : sync'[q] = sync[q]
        /\ sync'[p] = new
    BY <1>2, <2>2, <2>3, MovesOn
  <2>5. SyncOf(p)'
    BY <1>1, <1>2, <1>5, <1>6, <2>3, <2>4 DEF SyncOf
  <2> QED
    BY <2>4, <2>5
<1>8. UNCHANGED syncSeen \/ Reference!See(p, ok, TRUE)
    BY <1>3
<1>9. /\ syncSeen' \in [Workers -> {Reference!None} \cup Shapes]
      /\ \A q \in Workers \ {p} : syncSeen'[q] = syncSeen[q]
      /\ Seen(p)'
  <2>1. store'.ids \in SUBSET Ids /\ store'.pack \in Int
    BY <1>5, <1>6
  <2> HIDE DEF ref
  <2> QED
    BY <1>2, <1>6, <1>8, <2>1, SeesStored DEF ref
<1>10. Reference!TypeOK'
    BY <1>1, <1>2, <1>4, <1>6, <1>7, <1>9 DEF Reference!TypeOK, Syncing, Stage, Shapes, Boot
<1> QED
    BY <1>1, <1>2, <1>6, <1>7, <1>9, <1>10, OneActs

LEMMA HistoryKeeps ==
    ASSUME IsFiniteSet(Ids), Reference!SyncAssumption, SyncInv, NEW p \in Workers,
           Reference!CheckHistory(p)
    PROVE  SyncInv'
<1>1. /\ UNCHANGED <<syncServed, store, syncRole, index, syncKnown, unresolved, asking, boot,
                     published, handovers>>
      /\ Reference!At(p, "history") /\ (Reference!Fault \/ Reference!NoFault)
    BY DEF Reference!CheckHistory
<1>2. /\ Reference!TypeOK /\ Reference!Syncs(p) /\ syncRole[p] = "lead" /\ SyncOf(p) /\ Seen(p)
      /\ sync \in [Workers -> {Reference!NoSync} \cup Syncing] /\ sync[p] \in Syncing
      /\ sync[p].ref \in Reference!Served /\ sync[p].ref # Reference!None
    BY <1>1, Flying DEF SyncOf
<1>3. syncFaults' \in 0..MaxFaults
    BY <1>1, <1>2, FaultCounts
<1>4. sha' \in [Workers -> {Reference!None} \cup [hist : SUBSET Ids]]
  <2>1. sha \in [Workers -> {Reference!None} \cup [hist : SUBSET Ids]]
    BY <1>2 DEF Reference!TypeOK
  <2>2. Reference!Expected(p) \in SUBSET Ids
    BY <2>1, SMT DEF Reference!Expected, Reference!Pack, Reference!None
  <2>3. sha' = sha \/ sha' = [sha EXCEPT ![p] = [hist |-> Reference!Expected(p)]]
    BY DEF Reference!CheckHistory
  <2> QED
    BY <2>1, <2>2, <2>3, SMT
<1>5. /\ sync' \in [Workers -> {Reference!NoSync} \cup Syncing]
      /\ \A q \in Workers \ {p} : sync'[q] = sync[q]
      /\ SyncOf(p)'
  <2>1. CASE Reference!Goes(p, "load")
    BY <1>1, <1>2, <2>1, GoesTo, GoesOnSound DEF Stage
  <2>2. CASE sync' = [sync EXCEPT ![p].at = "reseed", ![p].text = syncServed.hist]
    <3> DEFINE new == [sync[p] EXCEPT !.at = "reseed", !.text = syncServed.hist]
    <3>1. syncServed.hist \in SUBSET Ids
      BY <1>2 DEF Reference!TypeOK, Reference!Served
    <3>2. /\ new \in Syncing /\ new.at = "reseed"
          /\ new.ref = sync[p].ref /\ new.tables = sync[p].tables
      BY <1>2, <3>1 DEF Syncing, Stage
    <3>3. sync' = [sync EXCEPT ![p] = new]
      BY <2>2
    <3> HIDE DEF new
    <3>4. /\ sync' \in [Workers -> {Reference!NoSync} \cup Syncing]
          /\ \A q \in Workers \ {p} : sync'[q] = sync[q]
          /\ sync'[p] = new
      BY <1>2, <3>2, <3>3, MovesOn
    <3>5. SyncOf(p)'
      BY <1>1, <1>2, <3>2, <3>4 DEF SyncOf
    <3> QED
      BY <3>4, <3>5
  <2>3. Reference!Goes(p, "load") \/ sync' = [sync EXCEPT ![p].at = "reseed", ![p].text = syncServed.hist]
    BY DEF Reference!CheckHistory, Reference!Goes
  <2> QED
    BY <2>1, <2>2, <2>3
<1>6. Keeps /\ store'.ids \in SUBSET Ids /\ store'.pack \in Int /\ store'.pack <= syncServed'.pack
  <2>1. store.ids \in SUBSET Ids /\ store.pack \in Int /\ store.pack <= syncServed.pack
    BY <1>2, SMT DEF Reference!TypeOK, SyncInv, Reference!SyncAssumption
  <2> QED
    BY <1>1, <2>1 DEF Keeps
<1>7. /\ syncSeen' \in [Workers -> {Reference!None} \cup Shapes]
      /\ \A q \in Workers \ {p} : syncSeen'[q] = syncSeen[q]
      /\ Seen(p)'
  <2>1. UNCHANGED syncSeen \/ Reference!See(p, sync[p].tables, TRUE)
    BY DEF Reference!CheckHistory
  <2>2. sync[p].tables \in BOOLEAN
    BY <1>2 DEF Syncing
  <2>3. sync[p].tables => sync[p].ref.pack <= store'.pack /\ sync[p].ref.ids \subseteq store'.ids
    BY <1>1, <1>2 DEF SyncOf
  <2> QED
    BY <1>2, <1>6, <2>1, <2>2, <2>3, SeesStored
<1>8. Reference!TypeOK'
    BY <1>1, <1>2, <1>3, <1>4, <1>5, <1>7 DEF Reference!TypeOK, Syncing, Stage, Shapes, Boot
<1> QED
    BY <1>1, <1>2, <1>5, <1>6, <1>7, <1>8, OneActs

LEMMA ReseedKeeps ==
    ASSUME IsFiniteSet(Ids), Reference!SyncAssumption, SyncInv, NEW p \in Workers,
           Reference!ReseedHistory(p)
    PROVE  SyncInv'
<1>1. /\ UNCHANGED <<syncServed, syncRole, index, syncKnown, unresolved, asking, boot, published,
                     handovers>>
      /\ Reference!At(p, "reseed") /\ (Reference!Fault \/ Reference!NoFault)
    BY DEF Reference!ReseedHistory
<1>2. /\ Reference!TypeOK /\ Reference!Syncs(p) /\ syncRole[p] = "lead" /\ SyncOf(p) /\ Seen(p)
      /\ sync \in [Workers -> {Reference!NoSync} \cup Syncing] /\ sync[p] \in Syncing
      /\ sync[p].ref \in Reference!Served /\ sync[p].ref # Reference!None
      /\ sync[p].text \in SUBSET Ids
    BY <1>1, Flying DEF SyncOf, Syncing
<1>3. syncFaults' \in 0..MaxFaults
    BY <1>1, <1>2, FaultCounts
<1>4. sha' \in [Workers -> {Reference!None} \cup [hist : SUBSET Ids]]
  <2>1. sha \in [Workers -> {Reference!None} \cup [hist : SUBSET Ids]]
    BY <1>2 DEF Reference!TypeOK
  <2>2. sha' = sha \/ sha' = [sha EXCEPT ![p] = [hist |-> sync[p].text]]
    BY DEF Reference!ReseedHistory
  <2> QED
    BY <1>2, <2>1, <2>2
<1>5. /\ store' \in [ids : SUBSET Ids, hist : SUBSET Ids, pack : -1..MaxPublish]
      /\ store'.ids = store.ids /\ store'.pack = store.pack
  <2>1. store \in [ids : SUBSET Ids, hist : SUBSET Ids, pack : -1..MaxPublish]
    BY <1>2 DEF Reference!TypeOK
  <2>2. store' = store \/ store' = [store EXCEPT !.hist = sync[p].text]
    BY DEF Reference!ReseedHistory
  <2> QED
    BY <1>2, <2>1, <2>2
<1>6. /\ sync' \in [Workers -> {Reference!NoSync} \cup Syncing]
      /\ \A q \in Workers \ {p} : sync'[q] = sync[q]
      /\ SyncOf(p)'
  <2> DEFINE new == [sync[p] EXCEPT !.at = "load", !.changed = TRUE]
  <2>1. \/ Reference!Goes(p, "load") 
        \/ sync' = [sync EXCEPT ![p].at = "load", ![p].changed = TRUE]
    BY DEF Reference!ReseedHistory
  <2>2. /\ new \in Syncing /\ new.at = "load"
        /\ new.ref = sync[p].ref /\ new.tables = sync[p].tables
    BY <1>2 DEF Syncing, Stage
  <2>3. CASE sync' = [sync EXCEPT ![p] = new]
    <3> HIDE DEF new
    <3>1. /\ sync' \in [Workers -> {Reference!NoSync} \cup Syncing]
          /\ \A q \in Workers \ {p} : sync'[q] = sync[q]
          /\ sync'[p] = new
      BY <1>2, <2>2, <2>3, MovesOn
    <3>2. SyncOf(p)'
      BY <1>1, <1>2, <1>5, <2>2, <3>1 DEF SyncOf
    <3> QED
      BY <3>1, <3>2
  <2>4. CASE Reference!Goes(p, "load")
    <3>1. /\ sync' \in [Workers -> {Reference!NoSync} \cup Syncing]
          /\ \A q \in Workers \ {p} : sync'[q] = sync[q]
          /\ sync'[p].at = "load" /\ sync'[p].ref = sync[p].ref /\ sync'[p].tables = sync[p].tables
      BY <1>2, <2>4, GoesTo DEF Stage
    <3>2. SyncOf(p)'
      BY <1>1, <1>2, <1>5, <3>1 DEF SyncOf
    <3> QED
      BY <3>1, <3>2
  <2> QED
    BY <2>1, <2>3, <2>4
<1>7. Keeps /\ store'.ids \in SUBSET Ids /\ store'.pack \in Int /\ store'.pack <= syncServed'.pack
  <2>1. store.ids \in SUBSET Ids /\ store.pack \in Int /\ store.pack <= syncServed.pack
    BY <1>2, SMT DEF Reference!TypeOK, SyncInv, Reference!SyncAssumption
  <2> QED
    BY <1>1, <1>5, <2>1 DEF Keeps
<1>8. /\ syncSeen' \in [Workers -> {Reference!None} \cup Shapes]
      /\ \A q \in Workers \ {p} : syncSeen'[q] = syncSeen[q]
      /\ Seen(p)'
  <2>1. UNCHANGED syncSeen \/ Reference!See(p, sync[p].tables, TRUE)
    BY DEF Reference!ReseedHistory
  <2>2. sync[p].tables \in BOOLEAN
    BY <1>2 DEF Syncing
  <2>3. sync[p].tables => sync[p].ref.pack <= store'.pack /\ sync[p].ref.ids \subseteq store'.ids
    BY <1>2, <1>5 DEF SyncOf
  <2> QED
    BY <1>2, <1>7, <2>1, <2>2, <2>3, SeesStored
<1>9. Reference!TypeOK'
    BY <1>1, <1>2, <1>3, <1>4, <1>5, <1>6, <1>8 DEF Reference!TypeOK, Syncing, Stage, Shapes, Boot
<1> QED
    BY <1>1, <1>2, <1>6, <1>7, <1>8, <1>9, OneActs

LEMMA LoadKeeps ==
    ASSUME IsFiniteSet(Ids), Reference!SyncAssumption, SyncInv, NEW p \in Workers,
           Reference!LoadHistory(p)
    PROVE  SyncInv'
<1>1. /\ UNCHANGED <<syncServed, store, syncRole, syncSeen, sha, syncKnown, unresolved, asking, boot,
                     published, handovers>>
      /\ Reference!At(p, "load") /\ (Reference!Fault \/ Reference!NoFault) /\ Reference!Goes(p, "known")
      /\ \/ index' = index
         \/ index' = [index EXCEPT ![p] = [ids |-> store.ids, hist |-> store.hist, loaded |-> TRUE]]
    BY DEF Reference!LoadHistory
<1>2. /\ Reference!TypeOK /\ Reference!Syncs(p) /\ syncRole[p] = "lead" /\ SyncOf(p)
      /\ sync \in [Workers -> {Reference!NoSync} \cup Syncing] /\ sync[p] \in Syncing
    BY <1>1, Flying
<1>3. syncFaults' \in 0..MaxFaults
    BY <1>1, <1>2, FaultCounts
<1>4. index' \in [Workers -> [ids : SUBSET Ids, hist : SUBSET Ids, loaded : BOOLEAN]]
    BY <1>1, <1>2, Loads
<1>5. /\ sync' \in [Workers -> {Reference!NoSync} \cup Syncing]
      /\ \A q \in Workers \ {p} : sync'[q] = sync[q]
      /\ SyncOf(p)'
    BY <1>1, <1>2, GoesTo, GoesOnSound DEF Stage
<1>6. Reference!TypeOK'
    BY <1>1, <1>2, <1>3, <1>4, <1>5 DEF Reference!TypeOK, Syncing, Stage
<1> QED
    BY <1>1, <1>2, <1>5, <1>6, OneGoesOn

(* A sync that ends, or is cancelled, settles what it was asked for. *)
LEMMA Settles ==
    ASSUME Reference!TypeOK, NEW p \in Workers,
           unresolved' = unresolved \/ \E ids : unresolved' = Reference!Settled(p, ids),
           asking' = [asking EXCEPT ![p] = {}],
           sync' = [sync EXCEPT ![p] = Reference!NoSync]
    PROVE  /\ unresolved' \in [Workers -> SUBSET Ids] /\ asking' \in [Workers -> SUBSET Ids]
           /\ sync' \in [Workers -> {Reference!NoSync} \cup Syncing]
           /\ \A q \in Workers \ {p} : sync'[q] = sync[q]
           /\ ~Reference!Syncs(p)' /\ SyncOf(p)'
<1>1. /\ unresolved \in [Workers -> SUBSET Ids] /\ asking \in [Workers -> SUBSET Ids]
      /\ sync \in [Workers -> {Reference!NoSync} \cup Syncing]
    BY DEF Reference!TypeOK, Syncing, Stage
<1>2. unresolved' \in [Workers -> SUBSET Ids]
  <2>1. ASSUME NEW ids, unresolved' = Reference!Settled(p, ids)
        PROVE  unresolved' \in [Workers -> SUBSET Ids]
    <3>1. unresolved[p] \cup {x \in asking[p] : x \notin ids} \in SUBSET Ids
      BY <1>1
    <3>2. unresolved' = [unresolved EXCEPT ![p] = unresolved[p] \cup {x \in asking[p] : x \notin ids}]
      BY <2>1 DEF Reference!Settled
    <3> QED
      BY <1>1, <3>1, <3>2
  <2> QED
    BY <1>1, <2>1
<1>3. asking' \in [Workers -> SUBSET Ids]
    BY <1>1
<1>4. /\ sync' \in [Workers -> {Reference!NoSync} \cup Syncing] /\ sync'[p] = Reference!NoSync
      /\ \A q \in Workers \ {p} : sync'[q] = sync[q]
    BY <1>1, MovesOn
<1> QED
    BY <1>2, <1>3, <1>4 DEF SyncOf, Reference!Syncs

LEMMA KnownKeeps ==
    ASSUME IsFiniteSet(Ids), Reference!SyncAssumption, SyncInv, NEW p \in Workers,
           Reference!LoadKnownIds(p)
    PROVE  SyncInv'
<1>1. /\ UNCHANGED <<syncServed, store, syncRole, syncSeen, sha, index, published, handovers>>
      /\ Reference!At(p, "known") /\ (Reference!Fault \/ Reference!NoFault)
      /\ asking' = [asking EXCEPT ![p] = {}] /\ sync' = [sync EXCEPT ![p] = Reference!NoSync]
    BY DEF Reference!LoadKnownIds
<1>2. /\ Reference!TypeOK /\ syncRole[p] = "lead"
    BY <1>1, Flying
<1>3. syncFaults' \in 0..MaxFaults
    BY <1>1, <1>2, FaultCounts
<1>4. syncKnown' \in [Workers -> {Reference!None} \cup [ids : SUBSET Ids]]
  <2>1. syncKnown \in [Workers -> {Reference!None} \cup [ids : SUBSET Ids]] /\ store.ids \in SUBSET Ids
    BY <1>2 DEF Reference!TypeOK
  <2>2. syncKnown' = syncKnown \/ syncKnown' = [syncKnown EXCEPT ![p] = [ids |-> store.ids]]
    BY DEF Reference!LoadKnownIds
  <2> QED
    BY <2>1, <2>2
<1>5. unresolved' = unresolved \/ \E ids : unresolved' = Reference!Settled(p, ids)
    BY DEF Reference!LoadKnownIds
<1>6. boot' \in [Workers -> Boot]
  <2>1. /\ boot \in [Workers -> Boot]
        /\ 0 - 1 \in -1..MaxPublish
    BY <1>2, SMT DEF Reference!TypeOK, Reference!SyncAssumption, Shapes, Boot
  <2>2. \/ boot' = boot
        \/ boot' = [boot EXCEPT ![p].returned = boot[p].waits, ![p].waits = 0 - 1]
    BY DEF Reference!LoadKnownIds
  <2> QED
    BY <2>1, <2>2, SMT DEF Shapes, Boot
<1>7. /\ unresolved' \in [Workers -> SUBSET Ids] /\ asking' \in [Workers -> SUBSET Ids]
      /\ sync' \in [Workers -> {Reference!NoSync} \cup Syncing]
      /\ \A q \in Workers \ {p} : sync'[q] = sync[q]
      /\ SyncOf(p)'
    BY <1>1, <1>2, <1>5, Settles
<1>8. Reference!TypeOK'
    BY <1>1, <1>2, <1>3, <1>4, <1>6, <1>7 DEF Reference!TypeOK, Syncing, Stage, Shapes, Boot
<1> QED
    BY <1>1, <1>2, <1>7, <1>8, OneGoesOn

LEMMA StepDownKeeps ==
    ASSUME IsFiniteSet(Ids), Reference!SyncAssumption, SyncInv, NEW p \in Workers, Reference!StepDown(p)
    PROVE  SyncInv'
<1>1. /\ UNCHANGED <<syncServed, store, syncSeen, sha, index, syncKnown, published, syncFaults>>
      /\ asking' = [asking EXCEPT ![p] = {}] /\ sync' = [sync EXCEPT ![p] = Reference!NoSync]
      /\ unresolved' = unresolved \/ \E ids : unresolved' = Reference!Settled(p, ids)
      /\ Reference!TypeOK
    BY DEF Reference!StepDown, SyncInv
<1>2. /\ unresolved' \in [Workers -> SUBSET Ids] /\ asking' \in [Workers -> SUBSET Ids]
      /\ sync' \in [Workers -> {Reference!NoSync} \cup Syncing]
      /\ \A q \in Workers \ {p} : sync'[q] = sync[q]
      /\ ~Reference!Syncs(p)' /\ SyncOf(p)'
    BY <1>1, Settles
<1>3. handovers' \in 0..MaxHandovers
    BY <1>1, SMT DEF Reference!StepDown, Reference!Handover, Reference!TypeOK, Reference!SyncAssumption
<1>4. boot' \in [Workers -> Boot]
  <2>1. /\ boot \in [Workers -> Boot]
        /\ 0 - 1 \in -1..MaxPublish
    BY <1>1, SMT DEF Reference!TypeOK, Reference!SyncAssumption, Shapes, Boot
  <2>2. boot' = [boot EXCEPT ![p].waits = 0 - 1]
    BY DEF Reference!StepDown
  <2> QED
    BY <2>1, <2>2, SMT DEF Shapes, Boot
<1>5. /\ syncRole' \in [Workers -> {"down", "standby", "lead"}]
      /\ \A q \in Workers \ {p} : syncRole'[q] = syncRole[q]
      /\ syncRole'[p] = "standby"
    BY <1>1 DEF Reference!StepDown, Reference!TypeOK
<1>6. Reference!TypeOK'
    BY <1>1, <1>2, <1>3, <1>4, <1>5 DEF Reference!TypeOK, Syncing, Stage, Shapes, Boot
<1> QED
    BY <1>1, <1>2, <1>5, <1>6, OneGoesOn

LEMMA CrashKeeps ==
    ASSUME IsFiniteSet(Ids), Reference!SyncAssumption, SyncInv, NEW p \in Workers, Reference!Crash(p)
    PROVE  SyncInv'
<1>1. /\ UNCHANGED <<syncServed, store, published, syncFaults>>
      /\ Reference!TypeOK
    BY DEF Reference!Crash, SyncInv
<1>2. /\ sync' = [sync EXCEPT ![p] = Reference!NoSync] /\ syncSeen' = [syncSeen EXCEPT ![p] = Reference!None]
      /\ unresolved' = [unresolved EXCEPT ![p] = {}] /\ asking' = [asking EXCEPT ![p] = {}]
      /\ sha' = [sha EXCEPT ![p] = Reference!None] /\ syncKnown' = [syncKnown EXCEPT ![p] = Reference!None]
      /\ index' = [index EXCEPT ![p] = Reference!NoIndex] /\ boot' = [boot EXCEPT ![p] = Reference!NoBoot]
      /\ syncRole' = [syncRole EXCEPT ![p] = "down"]
    BY DEF Reference!Crash
<1>3. handovers' \in 0..MaxHandovers
    BY <1>1, SMT DEF Reference!Crash, Reference!Handover, Reference!TypeOK, Reference!SyncAssumption
<1>4. /\ sync' \in [Workers -> {Reference!NoSync} \cup Syncing]
      /\ \A q \in Workers \ {p} : sync'[q] = sync[q]
      /\ ~Reference!Syncs(p)' /\ SyncOf(p)'
  <2>1. sync \in [Workers -> {Reference!NoSync} \cup Syncing]
    BY <1>1 DEF Reference!TypeOK, Syncing, Stage
  <2> QED
    BY <1>2, <2>1 DEF SyncOf, Reference!Syncs
<1>5. /\ unresolved' \in [Workers -> SUBSET Ids] /\ asking' \in [Workers -> SUBSET Ids]
      /\ sha' \in [Workers -> {Reference!None} \cup [hist : SUBSET Ids]]
      /\ syncKnown' \in [Workers -> {Reference!None} \cup [ids : SUBSET Ids]]
      /\ syncRole' \in [Workers -> {"down", "standby", "lead"}]
      /\ \A q \in Workers \ {p} : syncRole'[q] = syncRole[q]
      /\ syncRole'[p] = "down"
    BY <1>1, <1>2 DEF Reference!TypeOK
<1>6. /\ syncSeen' \in [Workers -> {Reference!None} \cup Shapes]
      /\ \A q \in Workers \ {p} : syncSeen'[q] = syncSeen[q]
      /\ syncSeen'[p] = Reference!None
    BY <1>1, <1>2 DEF Reference!TypeOK, Shapes, Boot
<1>7. index' \in [Workers -> [ids : SUBSET Ids, hist : SUBSET Ids, loaded : BOOLEAN]]
    BY <1>1, <1>2 DEF Reference!TypeOK, Reference!NoIndex
<1>8. boot' \in [Workers -> Boot]
  <2>1. Reference!NoBoot \in Boot
    BY SMT DEF Reference!NoBoot, Reference!SyncAssumption, Shapes, Boot
  <2> QED
    BY <1>1, <1>2, <2>1 DEF Reference!TypeOK, Shapes, Boot
<1>9. Reference!TypeOK'
    BY <1>1, <1>3, <1>4, <1>5, <1>6, <1>7, <1>8 DEF Reference!TypeOK, Syncing, Stage, Shapes, Boot
<1> QED
    BY <1>1, <1>4, <1>5, <1>6, <1>9, OneGoesOn

LEMMA SyncStep ==
    ASSUME IsFiniteSet(Ids), Reference!SyncAssumption
    PROVE  SyncInv /\ [Reference!Next]_(Reference!vars) => SyncInv'
<1> SUFFICES ASSUME SyncInv, [Reference!Next]_(Reference!vars) PROVE SyncInv'
    OBVIOUS
<1>1. CASE Reference!Next
  <2>1. CASE Reference!Publish
    BY <2>1, PublishKeeps
  <2>2. ASSUME NEW p \in Workers,
               \/ Reference!Start(p) \/ Reference!TakeLease(p) \/ Reference!CheckReference(p)
               \/ Reference!RefreshBootstrap(p) \/ Reference!StepDown(p) \/ Reference!Crash(p)
               \/ \E x \in Ids : Reference!NamesUnknown(p, x)
        PROVE  SyncInv'
    BY <2>2, StartKeeps, TakeLeaseKeeps, TriggerKeeps, StepDownKeeps, CrashKeeps
  <2>3. ASSUME NEW p \in Workers, Reference!RunSync(p)
        PROVE  SyncInv'
    BY <2>3, FetchKeeps, TablesKeep, HistoryKeeps, ReseedKeeps, LoadKeeps, KnownKeeps DEF Reference!RunSync
  <2> QED
    BY <1>1, <2>1, <2>2, <2>3 DEF Reference!Next
<1>2. CASE UNCHANGED Reference!vars
  <2>1. UNCHANGED <<syncServed, store, syncRole, syncSeen, sha, index, syncKnown, unresolved, asking, boot, sync,
                    published, syncFaults, handovers>>
    BY <1>2 DEF Reference!vars, Reference!views, Reference!bounds
  <2> QED
    BY <2>1 DEF SyncInv, Reference!TypeOK, OneSyncs, SyncOf, Seen, Reference!Syncs
<1> QED
    BY <1>1, <1>2

(* What a process takes for synced, and will not sync again, is in the     *)
(* store, whatever failed and whoever syncs before or after it             *)
(* (_sync_reference, sync_served).                                         *)
THEOREM SeenStaysStored ==
    ASSUME IsFiniteSet(Ids)
    PROVE  Reference!Spec => []Reference!SeenIsStored
<1>1. Reference!Init => SyncInv
    BY SyncInitially, Parameters
<1>2. SyncInv /\ [Reference!Next]_(Reference!vars) => SyncInv'
    BY SyncStep, Parameters
<1>3. SyncInv => Reference!SeenIsStored
    BY DEF SyncInv, Seen, Reference!SeenIsStored
<1> QED
    BY <1>1, <1>2, <1>3, PTL DEF Reference!Spec

-----------------------------------------------------------------------------
(***************************************************************************)
(* The replay of a scenario (OfflineReplay), which decides its purchases   *)
(* by the ledger as a live run does: for any number of requests, purchases *)
(* and faults, one D2 in progress at a time.                               *)
(***************************************************************************)
(* What the scenario offers, and D2 come one after another: the second is  *)
(* answered when the first is (api/offline.py).                            *)
OneAtATime == Replay!ReplayAssumption /\ IsFiniteSet(Replays) /\ Overlap <= 1

(* The run knows of a purchase; the ledger has a row of it. *)
Counted(r, i) == decided[<<r, i>>] # Replay!None
Booked(r, i) == ledger[<<r, i>>] # Replay!None
Running(r) == task[r] \in Replay!Going

(* A run that was not started has done nothing; the one that is going was  *)
(* started last; no run goes while a D2 stands between stop and start.     *)
OneRun ==
    /\ \A r \in Replays : req[r] # "done" => task[r] = "none"
    /\ \A r \in Replays : task[r] = "none" => \A i \in 1..Length : ~Counted(r, i) /\ ~Booked(r, i)
    /\ \A r \in Replays : Running(r) => r = current /\ req[r] = "done"
    /\ \A r, q \in Replay!InProgress : r = q
    /\ \A r \in Replays : req[r] = "stopped" => \A q \in Replays : ~Running(q)

(* Purchases are counted in turn, each after it is in the ledger, where    *)
(* there is one more at most.                                              *)
InTurn(r) ==
    \A i \in 1..Length : Counted(r, i) => \A j \in 1..i : Counted(r, j) /\ Booked(r, j)
Ahead(r) == \A i \in 1..Length : Booked(r, i) /\ ~Counted(r, i) => i = Replay!Delivered(r) + 1
Even(r) == \A i \in 1..Length : Booked(r, i) => Counted(r, i)

AtStage(r) ==
    /\ task[r] \in {"pause", "lock", "engine"} => Even(r)
    /\ task[r] \in {"lock", "engine", "note"} => Replay!Delivered(r) < Length
    /\ task[r] = "engine" => replayThread = Replay!NextUp(r)
    /\ task[r] = "note" => Booked(r, Replay!Delivered(r) + 1) /\ Ahead(r)

(* The ledger thread decides the next purchase of the run started last,    *)
(* also when that has been stopped meanwhile.                              *)
Deciding ==
    replayThread # Replay!NoPurchase =>
      /\ replayThread \in Replay!Purchase /\ replayThread[1] = current /\ replayThread = Replay!NextUp(current)
      /\ task[current] \in {"engine", "stopped"} /\ Even(current)

(* Without faults: what is left of a run that ended or was stopped, and    *)
(* the expiries.                                                           *)
Left(r) ==
    /\ task[r] = "ended" => Even(r)
    /\ task[r] = "stopped" => Ahead(r)

ReplayInv ==
    /\ Replay!TypeOK
    /\ OneRun
    /\ Deciding
    /\ \A r \in Replays : InTurn(r) /\ AtStage(r)
    /\ Replay!KnowsItsPurchases
    /\ replayFaults = 0 => Replay!CountedHasATimer /\ \A r \in Replays : Left(r)

-----------------------------------------------------------------------------
(* A set of numbers from 1 on that has what is before its members is the   *)
(* interval of its size.                                                   *)
LEMMA Prefix ==
    ASSUME NEW n \in Nat, NEW S \in SUBSET (1..n), \A i \in S : \A j \in 1..i : j \in S
    PROVE  Cardinality(S) \in 0..n /\ S = 1..Cardinality(S)
<1> DEFINE Out == {i \in Nat : i >= 1 /\ i \notin S}
<1>1. n + 1 \in Out
  OBVIOUS
<1>2. PICK m \in Out : \A i \in Out : m <= i
  <2>1. Out \in SUBSET Nat /\ Out # {}
    BY <1>1
  <2> HIDE DEF Out
  <2> QED BY <2>1, Least
<1>3. m \in Nat /\ m >= 1 /\ m \notin S /\ m <= n + 1
  BY <1>1, <1>2
<1>4. ASSUME NEW i \in S PROVE i < m
  BY <1>3, <1>4
<1>5. ASSUME NEW i \in 1..(m - 1) PROVE i \in S
  BY <1>2, <1>3, <1>5
<1>6. S = 1..(m - 1)
  <2>1. \A i \in S : i \in 1..(m - 1)
    BY <1>3, <1>4
  <2> QED BY <1>5, <2>1
<1>7. Cardinality(1..(m - 1)) = m - 1
  <2>1. 1 \in Int /\ m - 1 \in Int
    BY <1>3
  <2>2. Cardinality(1..(m - 1)) = IF 1 > m - 1 THEN 0 ELSE (m - 1) - 1 + 1
    BY <2>1, FS_Interval
  <2> QED BY <1>3, <2>2
<1> QED BY <1>3, <1>6, <1>7

LEMMA CountsAlike == \A S : Replay!Cardinality(S) = Cardinality(S)
BY DEF Cardinality, Replay!Cardinality

(* What is delivered are the first purchases. *)
LEMMA FirstOnes ==
    ASSUME OneAtATime, NEW r \in Replays, InTurn(r)
    PROVE  /\ Replay!Delivered(r) \in 0..Length
           /\ \A i \in 1..Length : Counted(r, i) <=> i <= Replay!Delivered(r)
<1> DEFINE S == {i \in 1..Length : decided[<<r, i>>] # Replay!None}
<1>1. Length \in Nat /\ S \in SUBSET (1..Length)
    BY DEF OneAtATime, Replay!ReplayAssumption
<1>2. \A i \in S : \A j \in 1..i : j \in S
    BY <1>1, SMT DEF InTurn, Counted
<1>3. \A i \in 1..Length : Counted(r, i) <=> i \in S
    BY DEF Counted
<1>4. Replay!Delivered(r) = Cardinality(S)
    BY CountsAlike DEF Replay!Delivered
<1> HIDE DEF S
<1>5. Cardinality(S) \in 0..Length /\ S = 1..Cardinality(S)
    BY <1>1, <1>2, Prefix
<1>6. \A i \in 1..Length : i \in S <=> i <= Cardinality(S)
    BY <1>1, <1>5
<1> QED
    BY <1>3, <1>4, <1>5, <1>6

LEMMA FirstOnesNext ==
    ASSUME OneAtATime, NEW r \in Replays, InTurn(r)'
    PROVE  /\ Replay!Delivered(r)' \in 0..Length
           /\ \A i \in 1..Length : Counted(r, i)' <=> i <= Replay!Delivered(r)'
<1> DEFINE S == {i \in 1..Length : decided'[<<r, i>>] # Replay!None}
<1>1. Length \in Nat /\ S \in SUBSET (1..Length)
    BY DEF OneAtATime, Replay!ReplayAssumption
<1>2. \A i \in S : \A j \in 1..i : j \in S
    BY <1>1, SMT DEF InTurn, Counted
<1>3. \A i \in 1..Length : Counted(r, i)' <=> i \in S
    BY DEF Counted
<1>4. Replay!Delivered(r)' = Cardinality(S)
    BY CountsAlike DEF Replay!Delivered
<1> HIDE DEF S
<1>5. Cardinality(S) \in 0..Length /\ S = 1..Cardinality(S)
    BY <1>1, <1>2, Prefix
<1>6. \A i \in 1..Length : i \in S <=> i <= Cardinality(S)
    BY <1>1, <1>5
<1> QED
    BY <1>3, <1>4, <1>5, <1>6

(* Steps that count no purchase leave the number of those counted. *)
LEMMA SameCount ==
    ASSUME NEW r \in Replays, \A i \in 1..Length : Counted(r, i)' <=> Counted(r, i)
    PROVE  Replay!Delivered(r)' = Replay!Delivered(r) /\ Replay!NextUp(r)' = Replay!NextUp(r)
<1>1. {i \in 1..Length : decided'[<<r, i>>] # Replay!None} = {i \in 1..Length : decided[<<r, i>>] # Replay!None}
    BY DEF Counted
<1> QED
    BY <1>1 DEF Replay!Delivered, Replay!NextUp

LEMMA ReplayInitially ==
    ASSUME OneAtATime, Replay!Init
    PROVE  ReplayInv
<1>1. Replay!TypeOK
  <2>1. replayFaults \in 0..MaxReplayFaults
    BY DEF Replay!Init, OneAtATime, Replay!ReplayAssumption
  <2>2. /\ decided \in [Replay!Purchase -> {Replay!None}] /\ ledger \in [Replay!Purchase -> {Replay!None}]
        /\ req \in [Replays -> {"idle"}] /\ copy \in [Replays -> {"active"}]
        /\ task \in [Replays -> {"none"}]
    BY DEF Replay!Init
  <2>3. /\ mandate = "active" /\ bound = FALSE /\ current = Replay!None /\ replayLock = Replay!None
        /\ replayThread = Replay!NoPurchase /\ replayTimer = {}
    BY DEF Replay!Init
  <2> QED
    BY <2>1, <2>2, <2>3 DEF Replay!TypeOK, Replay!Status
<1>2. /\ \A r \in Replays, i \in 1..Length : ~Counted(r, i) /\ ~Booked(r, i)
      /\ \A r \in Replays : req[r] = "idle" /\ task[r] = "none"
      /\ replayThread = Replay!NoPurchase /\ current = Replay!None
  <2>1. \A r \in Replays, i \in 1..Length : <<r, i>> \in Replay!Purchase
    BY DEF Replay!Purchase
  <2> QED
    BY <2>1 DEF Replay!Init, Counted, Booked
<1>3. OneRun /\ Deciding /\ Replay!KnowsItsPurchases
    BY <1>2 DEF OneRun, Deciding, Replay!KnowsItsPurchases, Replay!InProgress, Running, Replay!Going
<1>4. \A r \in Replays : InTurn(r) /\ AtStage(r) /\ Left(r)
    BY <1>2 DEF InTurn, AtStage, Left, Even, Ahead
<1>5. Replay!CountedHasATimer
    BY DEF Replay!CountedHasATimer, Replay!Init, Replay!None
<1> QED
    BY <1>1, <1>3, <1>4, <1>5 DEF ReplayInv

-----------------------------------------------------------------------------
(* A run that a step does not touch. *)
LEMMA RunStays ==
    ASSUME OneAtATime, NEW r \in Replays, InTurn(r), AtStage(r), task'[r] = task[r],
           task[r] = "engine" => replayThread' = replayThread,
           \A i \in 1..Length : (Counted(r, i)' <=> Counted(r, i)) /\ (Booked(r, i)' <=> Booked(r, i))
    PROVE  InTurn(r)' /\ AtStage(r)' /\ (Left(r) => Left(r)')
<1>1. /\ Replay!Delivered(r)' = Replay!Delivered(r) /\ Replay!NextUp(r)' = Replay!NextUp(r)
      /\ Replay!Delivered(r) \in 0..Length /\ Length \in Nat
    BY SameCount, FirstOnes DEF OneAtATime, Replay!ReplayAssumption
<1>2. InTurn(r)'
  <2>1. \A i \in 1..Length : \A j \in 1..i : j \in 1..Length
    BY <1>1
  <2> QED
    BY <2>1 DEF InTurn
<1>3. Even(r)' <=> Even(r)
    BY DEF Even
<1>4. Ahead(r)' <=> Ahead(r)
    BY <1>1 DEF Ahead
<1>5. AtStage(r)'
  <2>1. task[r] = "note" => Replay!Delivered(r) + 1 \in 1..Length
    BY <1>1, SMT DEF AtStage
  <2> QED
    BY <1>1, <1>3, <1>4, <2>1 DEF AtStage
<1>6. Left(r) => Left(r)'
    BY <1>3, <1>4 DEF Left
<1> QED
    BY <1>2, <1>5, <1>6

(* A step that moves no run, and books or counts no other purchase. *)
LEMMA NothingMoves ==
    ASSUME OneAtATime, ReplayInv, task' = task, replayThread' = replayThread, current' = current, req' = req,
           \A r \in Replays, i \in 1..Length :
              (Counted(r, i)' <=> Counted(r, i)) /\ (Booked(r, i)' <=> Booked(r, i))
    PROVE  /\ OneRun' /\ Deciding'
           /\ \A r \in Replays : InTurn(r)' /\ AtStage(r)' /\ (Left(r) => Left(r)')
<1>1. \A r \in Replays : InTurn(r)' /\ AtStage(r)' /\ (Left(r) => Left(r)')
    BY RunStays DEF ReplayInv
<1>2. OneRun'
    BY DEF ReplayInv, OneRun, Running, Replay!InProgress
<1>3. Deciding'
  <2>1. CASE replayThread # Replay!NoPurchase
    <3>1. current \in Replays
      BY <2>1, SMT DEF ReplayInv, Deciding, Replay!Purchase
    <3>2. Replay!NextUp(current)' = Replay!NextUp(current)
      BY <3>1, SameCount DEF Replay!NextUp
    <3> QED
      BY <2>1, <3>1, <3>2 DEF ReplayInv, Deciding, Even
  <2> QED
    BY <2>1 DEF Deciding
<1> QED
    BY <1>1, <1>2, <1>3

LEMMA PolicyKeeps ==
    ASSUME OneAtATime, ReplayInv, Replay!Revoke \/ Replay!BindPolicy
    PROVE  ReplayInv'
<1>1. /\ decided' = decided /\ ledger' = ledger /\ task' = task /\ replayThread' = replayThread
      /\ current' = current /\ req' = req /\ replayFaults' = replayFaults /\ replayTimer' = replayTimer /\ replayLock' = replayLock
    BY DEF Replay!Revoke, Replay!BindPolicy, Replay!runner, Replay!asked
<1>2. Replay!TypeOK'
  <2>0. mandate \in Replay!Status /\ bound \in BOOLEAN /\ copy \in [Replays -> Replay!Status]
    BY DEF ReplayInv, Replay!TypeOK
  <2>1. /\ mandate' \in {mandate, "revoked"} /\ bound' \in {bound, TRUE}
        /\ copy' = copy \/ copy' = [copy EXCEPT ![current] = "revoked"]
    BY DEF Replay!Revoke, Replay!BindPolicy, Replay!asked
  <2>2. mandate' \in Replay!Status /\ bound' \in BOOLEAN /\ copy' \in [Replays -> Replay!Status]
    BY <2>0, <2>1 DEF Replay!Status
  <2> QED
    BY <1>1, <2>2 DEF ReplayInv, Replay!TypeOK
<1>3. /\ Replay!KnowsItsPurchases'
      /\ Replay!CountedHasATimer => Replay!CountedHasATimer'
    BY <1>1 DEF Replay!CountedHasATimer, Replay!KnowsItsPurchases, ReplayInv
<1>4. /\ OneRun' /\ Deciding'
      /\ \A r \in Replays : InTurn(r)' /\ AtStage(r)' /\ (Left(r) => Left(r)')
    BY <1>1, NothingMoves DEF Counted, Booked
<1> QED
    BY <1>1, <1>2, <1>3, <1>4 DEF ReplayInv

LEMMA ReadPolicyKeeps ==
    ASSUME OneAtATime, ReplayInv, NEW r \in Replays, Replay!ReadPolicy(r)
    PROVE  ReplayInv'
<1>1. /\ decided' = decided /\ ledger' = ledger /\ task' = task /\ replayThread' = replayThread
      /\ current' = current /\ replayFaults' = replayFaults /\ replayTimer' = replayTimer /\ replayLock' = replayLock
      /\ mandate' = mandate /\ bound' = bound
      /\ req' = [req EXCEPT ![r] = "policy"] /\ copy' = [copy EXCEPT ![r] = mandate]
      /\ req[r] = "idle"
    BY DEF Replay!ReadPolicy, Replay!runner
<1>2. Replay!TypeOK'
    BY <1>1 DEF ReplayInv, Replay!TypeOK
<1>3. Replay!InProgress = {}
  <2>1. IsFiniteSet(Replay!InProgress)
    BY FS_Subset DEF OneAtATime, Replay!InProgress
  <2>2. Cardinality(Replay!InProgress) < Overlap /\ Overlap <= 1 /\ Overlap \in Nat
    BY CountsAlike DEF Replay!ReadPolicy, OneAtATime, Replay!ReplayAssumption
  <2>3. Cardinality(Replay!InProgress) = 0
    BY <2>1, <2>2, FS_CardinalityType
  <2> QED
    BY <2>1, <2>3, FS_EmptySet
<1>4. OneRun'
  <2>1. /\ req'[r] = "policy" /\ \A q \in Replays \ {r} : req'[q] = req[q] /\ q \notin Replay!InProgress
    BY <1>1, <1>3 DEF ReplayInv, Replay!TypeOK
  <2>2. \A q \in Replays : q \in Replay!InProgress' => q = r
    BY <2>1 DEF Replay!InProgress
  <2>3. \A q \in Replays : req'[q] # "stopped"
    BY <2>1 DEF Replay!InProgress
  <2> QED
    BY <1>1, <2>1, <2>2, <2>3 DEF ReplayInv, OneRun, Running, Counted, Booked, Replay!InProgress
<1>5. Deciding' /\ Replay!KnowsItsPurchases'
    BY <1>1 DEF ReplayInv, Deciding, Even, Counted, Booked, Replay!NextUp, Replay!Delivered, Replay!KnowsItsPurchases
<1>6. \A q \in Replays : InTurn(q)' /\ AtStage(q)' /\ (Left(q) => Left(q)')
    BY <1>1, RunStays DEF ReplayInv, Counted, Booked
<1>7. Replay!CountedHasATimer => Replay!CountedHasATimer'
    BY <1>1 DEF Replay!CountedHasATimer
<1> QED
    BY <1>1, <1>2, <1>4, <1>5, <1>6, <1>7 DEF ReplayInv

LEMMA CloseKeeps ==
    ASSUME OneAtATime, ReplayInv, NEW x \in Replay!Purchase, NEW how \in Replay!Closing,
           Replay!Close(x, how)
    PROVE  ReplayInv'
<1>1. /\ task' = task /\ replayThread' = replayThread /\ current' = current /\ req' = req /\ replayFaults' = replayFaults
      /\ replayLock' = replayLock /\ mandate' = mandate /\ bound' = bound /\ copy' = copy
      /\ ledger[x] = "waiting" /\ ledger' = [ledger EXCEPT ![x] = how] /\ replayTimer' = replayTimer \ {x}
      /\ decided' = IF x[1] = current /\ decided[x] # Replay!None THEN [decided EXCEPT ![x] = how] ELSE decided
    BY DEF Replay!Close, Replay!asked, Replay!Marked
<1>2. /\ how # Replay!None /\ how # "waiting" /\ "waiting" # Replay!None
      /\ how \in Replay!Outcome \cup Replay!Closing \cup {Replay!None}
    BY DEF Replay!Closing, Replay!None
<1>3. /\ decided \in [Replay!Purchase -> Replay!Outcome \cup Replay!Closing \cup {Replay!None}]
      /\ ledger \in [Replay!Purchase -> Replay!Outcome \cup Replay!Closing \cup {Replay!None}]
    BY DEF ReplayInv, Replay!TypeOK
<1>4. /\ decided' \in [Replay!Purchase -> Replay!Outcome \cup Replay!Closing \cup {Replay!None}]
      /\ ledger' \in [Replay!Purchase -> Replay!Outcome \cup Replay!Closing \cup {Replay!None}]
    BY <1>1, <1>2, <1>3
<1>5. Replay!TypeOK'
    BY <1>1, <1>4 DEF ReplayInv, Replay!TypeOK
<1>6. \A y \in Replay!Purchase :
        /\ decided'[y] = Replay!None <=> decided[y] = Replay!None
        /\ ledger'[y] = Replay!None <=> ledger[y] = Replay!None
        /\ y # x => decided'[y] = decided[y] /\ ledger'[y] = ledger[y]
        /\ ledger'[x] = how
        /\ x[1] = current /\ decided[x] # Replay!None => decided'[x] = how
    BY <1>1, <1>2, <1>3
<1>7. \A r \in Replays, i \in 1..Length : <<r, i>> \in Replay!Purchase /\ <<r, i>>[1] = r
    BY DEF Replay!Purchase
<1>8. \A r \in Replays, i \in 1..Length :
         (Counted(r, i)' <=> Counted(r, i)) /\ (Booked(r, i)' <=> Booked(r, i))
    BY <1>6, <1>7 DEF Counted, Booked
<1>9. Replay!KnowsItsPurchases'
  <2>1. ASSUME current # Replay!None, NEW i \in 1..Length, decided'[<<current, i>>] # Replay!None
        PROVE  decided'[<<current, i>>] = ledger'[<<current, i>>]
    <3>1. current \in Replays
      BY <2>1 DEF ReplayInv, Replay!TypeOK
    <3>2. CASE <<current, i>> = x
      BY <1>6, <1>7, <2>1, <3>1, <3>2
    <3>3. CASE <<current, i>> # x
      BY <1>6, <1>7, <2>1, <3>1, <3>3 DEF ReplayInv, Replay!KnowsItsPurchases
    <3> QED
      BY <3>2, <3>3
  <2> QED
    BY <1>1, <2>1 DEF Replay!KnowsItsPurchases
<1>10. Replay!CountedHasATimer => Replay!CountedHasATimer'
    BY <1>1, <1>2, <1>6 DEF Replay!CountedHasATimer
<1>11. /\ OneRun' /\ Deciding'
       /\ \A r \in Replays : InTurn(r)' /\ AtStage(r)' /\ (Left(r) => Left(r)')
    BY <1>1, <1>8, NothingMoves
<1> QED
    BY <1>1, <1>5, <1>9, <1>10, <1>11 DEF ReplayInv

LEMMA StopKeeps ==
    ASSUME OneAtATime, ReplayInv, NEW r \in Replays, Replay!StopReplay(r)
    PROVE  ReplayInv'
<1>1. /\ decided' = decided /\ ledger' = ledger /\ replayThread' = replayThread
      /\ current' = current /\ replayFaults' = replayFaults /\ replayTimer' = replayTimer
      /\ mandate' = mandate /\ bound' = bound /\ copy' = copy
      /\ req[r] = "policy" /\ req' = [req EXCEPT ![r] = "stopped"]
      /\ task' = [q \in Replays |-> IF q = current /\ Running(q) THEN "stopped" ELSE task[q]]
      /\ replayLock' = replayLock \/ replayLock' = Replay!None
    BY DEF Replay!StopReplay, Replay!Stopped, Running
<1>2. /\ req \in [Replays -> {"idle", "policy", "stopped", "done"}]
      /\ task \in [Replays -> Replay!Going \cup {"none", "ended", "stopped"}]
      /\ OneRun
    BY DEF ReplayInv, Replay!TypeOK
<1>3. /\ req' \in [Replays -> {"idle", "policy", "stopped", "done"}]
      /\ task' \in [Replays -> Replay!Going \cup {"none", "ended", "stopped"}]
    BY <1>1, <1>2
<1>4. Replay!TypeOK'
    BY <1>1, <1>3 DEF ReplayInv, Replay!TypeOK
<1>5. \A q \in Replays :
        /\ req'[q] = IF q = r THEN "stopped" ELSE req[q]
        /\ task'[q] = IF Running(q) THEN "stopped" ELSE task[q]
    BY <1>1, <1>2 DEF OneRun
<1>6. \A q \in Replays : ~Running(q)'
    BY <1>5 DEF Running, Replay!Going
<1>7. OneRun'
  <2>1. Replay!InProgress' = Replay!InProgress
    BY <1>1, <1>5 DEF Replay!InProgress
  <2>2. ASSUME NEW q \in Replays
        PROVE  /\ req'[q] # "done" => task'[q] = "none"
               /\ task'[q] = "none" => \A i \in 1..Length : ~Counted(q, i)' /\ ~Booked(q, i)'
    BY <1>1, <1>2, <1>5 DEF OneRun, Counted, Booked
  <2> QED
    BY <1>2, <1>6, <2>1, <2>2 DEF OneRun
<1>8. \A q \in Replays, i \in 1..Length : (Counted(q, i)' <=> Counted(q, i)) /\ (Booked(q, i)' <=> Booked(q, i))
    BY <1>1 DEF Counted, Booked
<1>9. ASSUME NEW q \in Replays PROVE InTurn(q)' /\ AtStage(q)' /\ (Left(q) => Left(q)')
  <2>1. CASE ~Running(q)
    BY <1>1, <1>5, <1>8, <2>1, RunStays DEF ReplayInv
  <2>2. CASE Running(q)
    <3>1. task'[q] = "stopped"
      BY <1>5, <2>2
    <3>2. Replay!Delivered(q)' = Replay!Delivered(q)
      BY <1>8, SameCount
    <3>3. Ahead(q)
      BY <2>2 DEF ReplayInv, AtStage, Even, Ahead, Running, Replay!Going
    <3>4. InTurn(q)' /\ Ahead(q)'
      BY <1>1, <3>2, <3>3 DEF ReplayInv, InTurn, Ahead, Counted, Booked
    <3> QED
      BY <3>1, <3>4 DEF AtStage, Left
  <2> QED
    BY <2>1, <2>2
<1>10. Deciding'
  <2>1. CASE replayThread # Replay!NoPurchase
    <3>1. current \in Replays /\ task[current] \in {"engine", "stopped"} /\ Even(current)
          /\ replayThread \in Replay!Purchase /\ replayThread[1] = current /\ replayThread = Replay!NextUp(current)
      BY <2>1, SMT DEF ReplayInv, Deciding, Replay!Purchase
    <3>2. Replay!NextUp(current)' = Replay!NextUp(current)
      BY <1>1 DEF Replay!NextUp, Replay!Delivered
    <3>3. task'[current] = "stopped"
      BY <1>5, <3>1 DEF Running, Replay!Going
    <3>4. Even(current)'
      BY <1>1, <3>1 DEF Even, Counted, Booked
    <3> QED
      BY <1>1, <3>1, <3>2, <3>3, <3>4 DEF Deciding
  <2> QED
    BY <1>1, <2>1 DEF Deciding
<1>11. Replay!KnowsItsPurchases' /\ (Replay!CountedHasATimer => Replay!CountedHasATimer')
    BY <1>1 DEF ReplayInv, Replay!CountedHasATimer, Replay!KnowsItsPurchases
<1> QED
    BY <1>1, <1>4, <1>7, <1>9, <1>10, <1>11 DEF ReplayInv

LEMMA InstallKeeps ==
    ASSUME OneAtATime, ReplayInv, NEW r \in Replays, Replay!Install(r)
    PROVE  ReplayInv'
<1>1. /\ decided' = decided /\ ledger' = ledger /\ replayThread' = replayThread /\ replayThread = Replay!NoPurchase
      /\ current' = r /\ replayFaults' = replayFaults /\ replayTimer' = replayTimer /\ replayLock' = replayLock
      /\ mandate' = mandate /\ bound' = bound /\ copy' = copy
      /\ req[r] = "stopped" /\ req' = [req EXCEPT ![r] = "done"] /\ task' = [task EXCEPT ![r] = "pause"]
    BY DEF Replay!Install, Replay!Queued
<1>2. Replay!TypeOK'
    BY <1>1 DEF ReplayInv, Replay!TypeOK, Replay!Going
<1>3. /\ \A q \in Replays : req'[q] = IF q = r THEN "done" ELSE req[q]
      /\ \A q \in Replays : task'[q] = IF q = r THEN "pause" ELSE task[q]
      /\ \A q \in Replays : ~Running(q)
    BY <1>1 DEF ReplayInv, Replay!TypeOK, OneRun
<1>4. \A i \in 1..Length : ~Counted(r, i) /\ ~Booked(r, i)
    BY <1>1 DEF ReplayInv, OneRun
<1>5. \A q \in Replays, i \in 1..Length : (Counted(q, i)' <=> Counted(q, i)) /\ (Booked(q, i)' <=> Booked(q, i))
    BY <1>1 DEF Counted, Booked
<1>6. OneRun'
  <2>1. \A q \in Replays : Running(q)' => q = r
    BY <1>3 DEF Running
  <2>2. Replay!InProgress' \subseteq Replay!InProgress \ {r} /\ r \in Replay!InProgress
    BY <1>1, <1>3 DEF Replay!InProgress
  <2>3. Replay!InProgress' = {}
    BY <2>2 DEF ReplayInv, OneRun
  <2>4. \A q \in Replays : req'[q] # "stopped"
    BY <2>3 DEF Replay!InProgress
  <2> QED
    BY <1>1, <1>3, <1>5, <2>1, <2>3, <2>4 DEF ReplayInv, OneRun
<1>7. Deciding' /\ (Replay!CountedHasATimer => Replay!CountedHasATimer')
    BY <1>1 DEF Deciding, Replay!CountedHasATimer
<1>8. Replay!KnowsItsPurchases'
    BY <1>1, <1>4 DEF Replay!KnowsItsPurchases, Counted
<1>9. ASSUME NEW q \in Replays PROVE InTurn(q)' /\ AtStage(q)' /\ (Left(q) => Left(q)')
  <2>1. CASE q # r
    BY <1>1, <1>3, <1>5, <2>1, RunStays DEF ReplayInv
  <2>2. CASE q = r
    BY <1>3, <1>4, <1>5, <2>2 DEF InTurn, AtStage, Left, Even
  <2> QED
    BY <2>1, <2>2
<1> QED
    BY <1>1, <1>2, <1>6, <1>7, <1>8, <1>9 DEF ReplayInv

-----------------------------------------------------------------------------
(* Steps of the run that goes. *)
LEMMA OneRunOn ==
    ASSUME OneRun, NEW r \in Replays, req[r] = "done", Running(r)' => Running(r),
           task'[r] # "none", req' = req, current' = current,
           \A q \in Replays \ {r} :
              /\ task'[q] = task[q]
              /\ \A i \in 1..Length : (Counted(q, i)' <=> Counted(q, i)) /\ (Booked(q, i)' <=> Booked(q, i))
    PROVE  OneRun'
<1>1. \A q \in Replays : Running(q)' => Running(q)
    BY DEF Running
<1>2. Replay!InProgress' = Replay!InProgress
    BY DEF Replay!InProgress
<1> QED
    BY <1>1, <1>2 DEF OneRun

LEMMA OthersStay ==
    ASSUME OneAtATime, ReplayInv, NEW q \in Replays, q # current, task'[q] = task[q],
           \A i \in 1..Length : (Counted(q, i)' <=> Counted(q, i)) /\ (Booked(q, i)' <=> Booked(q, i))
    PROVE  InTurn(q)' /\ AtStage(q)' /\ (Left(q) => Left(q)')
<1>1. task[q] # "engine"
    BY DEF ReplayInv, OneRun, Running, Replay!Going
<1> QED
    BY <1>1, RunStays DEF ReplayInv

(* The run goes on, books and counts nothing. *)
LEMMA RunGoesOn ==
    ASSUME OneAtATime, ReplayInv, NEW r \in Replays, Running(r), task[r] # "engine",
           NEW stage \in Replay!Going \cup {"ended"}, task' = [task EXCEPT ![r] = stage],
           decided' = decided, ledger' = ledger, req' = req, current' = current,
           replayThread' = replayThread \/ stage = "engine"
    PROVE  /\ task' \in [Replays -> Replay!Going \cup {"none", "ended", "stopped"}]
           /\ task'[r] = stage /\ OneRun' /\ Replay!KnowsItsPurchases'
           /\ \A q \in Replays \ {r} : InTurn(q)' /\ AtStage(q)' /\ (Left(q) => Left(q)')
           /\ InTurn(r)' /\ (Even(r) => Even(r)')
           /\ Replay!NextUp(r)' = Replay!NextUp(r) /\ Replay!Delivered(r)' = Replay!Delivered(r)
           /\ r = current /\ replayThread = Replay!NoPurchase
<1>1. task \in [Replays -> Replay!Going \cup {"none", "ended", "stopped"}]
    BY DEF ReplayInv, Replay!TypeOK
<1>2. /\ task' \in [Replays -> Replay!Going \cup {"none", "ended", "stopped"}]
      /\ task'[r] = stage /\ \A q \in Replays \ {r} : task'[q] = task[q]
    BY <1>1
<1>3. \A q \in Replays, i \in 1..Length : (Counted(q, i)' <=> Counted(q, i)) /\ (Booked(q, i)' <=> Booked(q, i))
    BY DEF Counted, Booked
<1>4. r = current /\ req[r] = "done"
    BY DEF ReplayInv, OneRun
<1>5. replayThread = Replay!NoPurchase
    BY <1>4 DEF ReplayInv, Deciding, Running, Replay!Going
<1>6. OneRun'
  <2>1. stage # "none"
    BY DEF Replay!Going
  <2> QED
    BY <1>2, <1>3, <1>4, <2>1, OneRunOn DEF ReplayInv
<1>7. \A q \in Replays \ {r} : InTurn(q)' /\ AtStage(q)' /\ (Left(q) => Left(q)')
    BY <1>2, <1>3, <1>4, OthersStay
<1>8. InTurn(r)' /\ (Even(r) => Even(r)') /\ Replay!KnowsItsPurchases'
    BY DEF ReplayInv, InTurn, Even, Counted, Booked, Replay!KnowsItsPurchases
<1>9. Replay!NextUp(r)' = Replay!NextUp(r) /\ Replay!Delivered(r)' = Replay!Delivered(r)
    BY <1>3, SameCount
<1> QED
    BY <1>2, <1>4, <1>5, <1>6, <1>7, <1>8, <1>9

LEMMA DeliverKeeps ==
    ASSUME OneAtATime, ReplayInv, NEW r \in Replays, Replay!Deliver(r)
    PROVE  ReplayInv'
<1>1. /\ decided' = decided /\ ledger' = ledger /\ replayThread' = replayThread /\ req' = req /\ copy' = copy
      /\ current' = current /\ replayFaults' = replayFaults /\ replayTimer' = replayTimer /\ replayLock' = replayLock
      /\ mandate' = mandate /\ bound' = bound
      /\ task[r] = "pause" /\ Replay!Delivered(r) < Length /\ task' = [task EXCEPT ![r] = "lock"]
    BY DEF Replay!Deliver, Replay!To, Replay!asked
<1>2. /\ task' \in [Replays -> Replay!Going \cup {"none", "ended", "stopped"}]
      /\ task'[r] = "lock" /\ OneRun' /\ Replay!KnowsItsPurchases'
      /\ \A q \in Replays \ {r} : InTurn(q)' /\ AtStage(q)' /\ (Left(q) => Left(q)')
      /\ InTurn(r)' /\ (Even(r) => Even(r)')
      /\ Replay!NextUp(r)' = Replay!NextUp(r) /\ Replay!Delivered(r)' = Replay!Delivered(r)
      /\ r = current /\ replayThread = Replay!NoPurchase
  <2>1. Running(r) /\ task[r] # "engine" /\ "lock" \in Replay!Going \cup {"ended"}
    BY <1>1 DEF Running, Replay!Going
  <2> QED
    BY <1>1, <2>1, RunGoesOn
<1>3. Replay!TypeOK'
    BY <1>1, <1>2 DEF ReplayInv, Replay!TypeOK
<1>4. AtStage(r)' /\ Left(r)'
    BY <1>1, <1>2 DEF ReplayInv, AtStage, Left
<1>5. Deciding' /\ (Replay!CountedHasATimer => Replay!CountedHasATimer')
    BY <1>1, <1>2 DEF Deciding, Replay!CountedHasATimer
<1> QED
    BY <1>1, <1>2, <1>3, <1>4, <1>5 DEF ReplayInv

LEMMA TakeLockKeeps ==
    ASSUME OneAtATime, ReplayInv, NEW r \in Replays, Replay!TakeLock(r)
    PROVE  ReplayInv'
<1>1. /\ decided' = decided /\ ledger' = ledger /\ req' = req /\ copy' = copy
      /\ current' = current /\ replayFaults' = replayFaults /\ replayTimer' = replayTimer /\ replayLock' = r
      /\ mandate' = mandate /\ bound' = bound
      /\ replayThread = Replay!NoPurchase /\ replayThread' = Replay!NextUp(r)
      /\ task[r] = "lock" /\ task' = [task EXCEPT ![r] = "engine"]
    BY DEF Replay!TakeLock, Replay!To, Replay!asked
<1>2. /\ task' \in [Replays -> Replay!Going \cup {"none", "ended", "stopped"}]
      /\ task'[r] = "engine" /\ OneRun' /\ Replay!KnowsItsPurchases'
      /\ \A q \in Replays \ {r} : InTurn(q)' /\ AtStage(q)' /\ (Left(q) => Left(q)')
      /\ InTurn(r)' /\ (Even(r) => Even(r)')
      /\ Replay!NextUp(r)' = Replay!NextUp(r) /\ Replay!Delivered(r)' = Replay!Delivered(r)
      /\ r = current /\ replayThread = Replay!NoPurchase
  <2>1. Running(r) /\ task[r] # "engine" /\ "engine" \in Replay!Going \cup {"ended"}
    BY <1>1 DEF Running, Replay!Going
  <2> QED
    BY <1>1, <2>1, RunGoesOn
<1>3. Even(r) /\ Replay!Delivered(r) \in 0..Length /\ Replay!Delivered(r) < Length /\ Length \in Nat
    BY <1>1, FirstOnes DEF ReplayInv, AtStage, OneAtATime, Replay!ReplayAssumption
<1>4. Replay!NextUp(r) \in Replay!Purchase /\ Replay!NextUp(r)[1] = r
  <2>1. Replay!Delivered(r) + 1 \in 1..Length
    BY <1>3
  <2> QED
    BY <2>1 DEF Replay!NextUp, Replay!Purchase
<1>5. Replay!TypeOK'
    BY <1>1, <1>2, <1>4 DEF ReplayInv, Replay!TypeOK
<1>6. AtStage(r)' /\ Left(r)'
    BY <1>1, <1>2, <1>3 DEF AtStage, Left
<1>7. Deciding'
    BY <1>1, <1>2, <1>3, <1>4 DEF Deciding
<1>8. Replay!CountedHasATimer => Replay!CountedHasATimer'
    BY <1>1 DEF Replay!CountedHasATimer
<1> QED
    BY <1>1, <1>2, <1>5, <1>6, <1>7, <1>8 DEF ReplayInv

LEMMA RunEndsKeeps ==
    ASSUME OneAtATime, ReplayInv, NEW r \in Replays, Replay!RunEnds(r)
    PROVE  ReplayInv'
<1>1. /\ decided' = decided /\ ledger' = ledger /\ req' = req /\ copy' = copy /\ replayThread' = replayThread
      /\ current' = current /\ replayFaults' = replayFaults /\ replayTimer' = replayTimer /\ replayLock' = replayLock
      /\ mandate' = mandate /\ bound' = bound
      /\ task[r] = "pause" /\ task' = [task EXCEPT ![r] = "ended"]
    BY DEF Replay!RunEnds, Replay!To, Replay!asked
<1>2. /\ task' \in [Replays -> Replay!Going \cup {"none", "ended", "stopped"}]
      /\ task'[r] = "ended" /\ OneRun' /\ Replay!KnowsItsPurchases'
      /\ \A q \in Replays \ {r} : InTurn(q)' /\ AtStage(q)' /\ (Left(q) => Left(q)')
      /\ InTurn(r)' /\ (Even(r) => Even(r)')
      /\ Replay!NextUp(r)' = Replay!NextUp(r) /\ Replay!Delivered(r)' = Replay!Delivered(r)
      /\ r = current /\ replayThread = Replay!NoPurchase
  <2>1. Running(r) /\ task[r] # "engine"
    BY <1>1 DEF Running, Replay!Going
  <2> QED
    BY <1>1, <2>1, RunGoesOn
<1>3. Replay!TypeOK'
    BY <1>1, <1>2 DEF ReplayInv, Replay!TypeOK
<1>4. AtStage(r)' /\ Left(r)'
    BY <1>1, <1>2 DEF ReplayInv, AtStage, Left
<1>5. Deciding' /\ (Replay!CountedHasATimer => Replay!CountedHasATimer')
    BY <1>1, <1>2 DEF Deciding, Replay!CountedHasATimer
<1> QED
    BY <1>1, <1>2, <1>3, <1>4, <1>5 DEF ReplayInv

LEMMA RunFailsKeeps ==
    ASSUME OneAtATime, ReplayInv, NEW r \in Replays, Replay!RunFails(r)
    PROVE  ReplayInv'
<1>1. /\ decided' = decided /\ ledger' = ledger /\ req' = req /\ copy' = copy /\ replayThread' = replayThread
      /\ current' = current /\ replayTimer' = replayTimer /\ (replayLock' = replayLock \/ replayLock' = Replay!None)
      /\ mandate' = mandate /\ bound' = bound
      /\ task[r] \in {"pause", "note"} /\ task' = [task EXCEPT ![r] = "ended"]
    BY DEF Replay!RunFails, Replay!To, Replay!asked
<1>2. /\ task' \in [Replays -> Replay!Going \cup {"none", "ended", "stopped"}]
      /\ task'[r] = "ended" /\ OneRun' /\ Replay!KnowsItsPurchases'
      /\ \A q \in Replays \ {r} : InTurn(q)' /\ AtStage(q)' /\ (Left(q) => Left(q)')
      /\ InTurn(r)' /\ (Even(r) => Even(r)')
      /\ Replay!NextUp(r)' = Replay!NextUp(r) /\ Replay!Delivered(r)' = Replay!Delivered(r)
      /\ r = current /\ replayThread = Replay!NoPurchase
  <2>1. Running(r) /\ task[r] # "engine"
    BY <1>1 DEF Running, Replay!Going
  <2> QED
    BY <1>1, <2>1, RunGoesOn
<1>3. replayFaults' \in 0..MaxReplayFaults /\ replayFaults' # 0
    BY SMT DEF Replay!RunFails, Replay!Fault, ReplayInv, Replay!TypeOK, OneAtATime, Replay!ReplayAssumption
<1>4. Replay!TypeOK'
    BY <1>1, <1>2, <1>3 DEF ReplayInv, Replay!TypeOK
<1>5. AtStage(r)' /\ Deciding'
    BY <1>1, <1>2 DEF AtStage, Deciding
<1> QED
    BY <1>2, <1>3, <1>4, <1>5 DEF ReplayInv

LEMMA ExpiryFailsKeeps ==
    ASSUME OneAtATime, ReplayInv, NEW x \in Replay!Purchase, Replay!ExpiryFails(x)
    PROVE  ReplayInv'
<1>1. /\ decided' = decided /\ ledger' = ledger /\ req' = req /\ copy' = copy /\ replayThread' = replayThread
      /\ current' = current /\ replayTimer' = replayTimer \ {x} /\ replayLock' = replayLock /\ task' = task
      /\ mandate' = mandate /\ bound' = bound
    BY DEF Replay!ExpiryFails, Replay!asked
<1>2. replayFaults' \in 0..MaxReplayFaults /\ replayFaults' # 0
    BY SMT DEF Replay!ExpiryFails, Replay!Fault, ReplayInv, Replay!TypeOK, OneAtATime, Replay!ReplayAssumption
<1>3. Replay!TypeOK'
    BY <1>1, <1>2 DEF ReplayInv, Replay!TypeOK
<1>4. /\ OneRun' /\ Deciding'
      /\ \A r \in Replays : InTurn(r)' /\ AtStage(r)' /\ (Left(r) => Left(r)')
    BY <1>1, NothingMoves DEF Counted, Booked
<1>5. Replay!KnowsItsPurchases'
    BY <1>1 DEF ReplayInv, Replay!KnowsItsPurchases
<1> QED
    BY <1>2, <1>3, <1>4, <1>5 DEF ReplayInv

LEMMA RestartKeeps ==
    ASSUME OneAtATime, ReplayInv, Replay!Restart
    PROVE  ReplayInv'
<1>1. /\ ledger' = ledger /\ copy' = copy /\ mandate' = mandate /\ bound' = bound
      /\ current' = Replay!None /\ replayLock' = Replay!None /\ replayThread' = Replay!NoPurchase /\ replayTimer' = {}
      /\ decided' \in [Replay!Purchase -> {Replay!None}]
      /\ req' = [r \in Replays |-> IF req[r] = "idle" THEN "idle" ELSE "done"]
      /\ task' = [r \in Replays |-> IF task[r] = "none" THEN "none" ELSE "stopped"]
    BY DEF Replay!Restart
<1>2. replayFaults' \in 0..MaxReplayFaults /\ replayFaults' # 0
    BY SMT DEF Replay!Restart, Replay!Fault, ReplayInv, Replay!TypeOK, OneAtATime, Replay!ReplayAssumption
<1>3. Replay!TypeOK'
  <2>1. /\ req' \in [Replays -> {"idle", "done"}] /\ task' \in [Replays -> {"none", "stopped"}]
    BY <1>1
  <2> QED
    BY <1>1, <1>2, <2>1 DEF ReplayInv, Replay!TypeOK
<1>4. \A r \in Replays :
        /\ task'[r] \in {"none", "stopped"} /\ (task[r] = "none" <=> task'[r] = "none")
        /\ req'[r] \in {"idle", "done"} /\ (req'[r] # "done" => req[r] = "idle")
        /\ \A i \in 1..Length : ~Counted(r, i)' /\ (Booked(r, i)' <=> Booked(r, i))
    BY <1>1 DEF Counted, Booked, Replay!Purchase
<1>5. OneRun'
  <2>1. Replay!InProgress' = {} /\ \A r \in Replays : ~Running(r)'
    BY <1>4 DEF Replay!InProgress, Running, Replay!Going
  <2> QED
    BY <1>4, <2>1 DEF ReplayInv, OneRun
<1>6. \A r \in Replays : InTurn(r)' /\ AtStage(r)'
    BY <1>4 DEF InTurn, AtStage
<1>7. Deciding' /\ Replay!KnowsItsPurchases'
    BY <1>1 DEF Deciding, Replay!KnowsItsPurchases
<1> QED
    BY <1>2, <1>3, <1>5, <1>6, <1>7 DEF ReplayInv

LEMMA DecideEventKeeps ==
    ASSUME OneAtATime, ReplayInv, Replay!DecideEvent
    PROVE  ReplayInv'
<1>1. PICK o \in Replay!Outcome : ledger' = [ledger EXCEPT ![replayThread] = o]
    BY DEF Replay!DecideEvent, Replay!Outcome
<1>2. /\ decided' = decided /\ replayThread' = Replay!NoPurchase /\ req' = req /\ copy' = copy
      /\ current' = current /\ replayFaults' = replayFaults /\ replayTimer' = replayTimer /\ replayLock' = replayLock
      /\ mandate' = mandate /\ bound' = bound /\ replayThread # Replay!NoPurchase
      /\ task' = [r \in Replays |-> IF r = replayThread[1] /\ task[r] = "engine" THEN "note" ELSE task[r]]
    BY DEF Replay!DecideEvent, Replay!asked
<1>3. PICK r \in Replays, n \in 1..Length : r = current /\ replayThread = <<r, n>> /\ n = Replay!Delivered(r) + 1
  <2>1. replayThread \in Replay!Purchase /\ replayThread[1] = current /\ replayThread = Replay!NextUp(current)
    BY <1>2 DEF ReplayInv, Deciding
  <2>2. current \in Replays /\ Replay!Delivered(current) + 1 \in 1..Length
    BY <2>1, SMT DEF Replay!Purchase, Replay!NextUp
  <2> QED
    BY <2>1, <2>2 DEF Replay!NextUp
<1>4. /\ replayThread \in Replay!Purchase /\ replayThread[1] = r
      /\ task[r] \in {"engine", "stopped"} /\ Even(r) /\ InTurn(r)
    BY <1>2, <1>3 DEF ReplayInv, Deciding
<1>5. Replay!Delivered(r) \in 0..Length /\ Length \in Nat /\ ~Counted(r, n) /\ Replay!Delivered(r) < Length
  <2>1. Replay!Delivered(r) \in 0..Length /\ \A i \in 1..Length : Counted(r, i) <=> i <= Replay!Delivered(r)
    BY <1>4, FirstOnes
  <2> QED
    BY <1>3, <2>1 DEF OneAtATime, Replay!ReplayAssumption
<1>6. /\ ledger \in [Replay!Purchase -> Replay!Outcome \cup Replay!Closing \cup {Replay!None}]
      /\ task \in [Replays -> Replay!Going \cup {"none", "ended", "stopped"}]
    BY DEF ReplayInv, Replay!TypeOK
<1>7. /\ ledger' \in [Replay!Purchase -> Replay!Outcome \cup Replay!Closing \cup {Replay!None}]
      /\ ledger'[replayThread] = o /\ o # Replay!None
      /\ \A y \in Replay!Purchase : y # replayThread => ledger'[y] = ledger[y]
  <2>1. o # Replay!None
    BY DEF Replay!Outcome, Replay!None
  <2> QED
    BY <1>1, <1>4, <1>6, <2>1
<1>8. /\ task' \in [Replays -> Replay!Going \cup {"none", "ended", "stopped"}]
      /\ task'[r] = IF task[r] = "engine" THEN "note" ELSE "stopped"
      /\ \A q \in Replays : q # r => task'[q] = task[q]
  <2>1. task' \in [Replays -> Replay!Going \cup {"none", "ended", "stopped"}]
    BY <1>2, <1>6 DEF Replay!Going
  <2> QED
    BY <1>2, <1>4, <2>1
<1>9. Replay!TypeOK'
    BY <1>2, <1>7, <1>8 DEF ReplayInv, Replay!TypeOK
<1>10. /\ \A q \in Replays, i \in 1..Length : Counted(q, i)' <=> Counted(q, i)
       /\ \A q \in Replays, i \in 1..Length : q # r \/ i # n => (Booked(q, i)' <=> Booked(q, i))
       /\ Booked(r, n)'
  <2>1. \A q \in Replays, i \in 1..Length : <<q, i>> \in Replay!Purchase
    BY DEF Replay!Purchase
  <2> QED
    BY <1>2, <1>3, <1>7, <2>1 DEF Counted, Booked
<1>11. req[r] = "done" /\ (Running(r)' => Running(r)) /\ OneRun
    BY <1>4, <1>8 DEF ReplayInv, OneRun, Running, Replay!Going
<1>12. \A q \in Replays \ {r} :
         /\ task'[q] = task[q] /\ q # current
         /\ \A i \in 1..Length : (Counted(q, i)' <=> Counted(q, i)) /\ (Booked(q, i)' <=> Booked(q, i))
    BY <1>3, <1>8, <1>10
<1>13. OneRun'
    BY <1>2, <1>8, <1>11, <1>12, OneRunOn
<1>14. \A q \in Replays \ {r} : InTurn(q)' /\ AtStage(q)' /\ (Left(q) => Left(q)')
    BY <1>12, OthersStay
<1>15. Replay!Delivered(r)' = Replay!Delivered(r)
    BY <1>10, SameCount
<1>16. Ahead(r)'
  <2>1. ASSUME NEW i \in 1..Length, Booked(r, i)', ~Counted(r, i)'
        PROVE  i = n
    BY <1>4, <1>10, <2>1 DEF Even
  <2> QED
    BY <1>3, <1>15, <2>1 DEF Ahead
<1>17. InTurn(r)'
  <2>1. \A i \in 1..Length : \A j \in 1..i : j \in 1..Length
    BY <1>5
  <2>2. \A i \in 1..Length : Booked(r, i) => Booked(r, i)'
    BY <1>10
  <2> QED
    BY <1>4, <1>10, <2>1, <2>2 DEF InTurn
<1>18. AtStage(r)' /\ Left(r)'
    BY <1>3, <1>4, <1>5, <1>8, <1>10, <1>15, <1>16 DEF AtStage, Left
<1>19. decided[replayThread] = Replay!None
    BY <1>3, <1>5 DEF Counted
<1>20. Deciding' /\ (Replay!CountedHasATimer => Replay!CountedHasATimer')
    BY <1>2, <1>7, <1>19 DEF Deciding, Replay!CountedHasATimer
<1>21. Replay!KnowsItsPurchases'
  <2>1. \A i \in 1..Length : <<r, i>> \in Replay!Purchase
    BY DEF Replay!Purchase
  <2> QED
    BY <1>2, <1>3, <1>7, <1>19, <2>1 DEF ReplayInv, Replay!KnowsItsPurchases
<1>22. ASSUME NEW q \in Replays PROVE InTurn(q)' /\ AtStage(q)' /\ (Left(q) => Left(q)')
    BY <1>14, <1>17, <1>18
<1> QED
    BY <1>2, <1>9, <1>13, <1>20, <1>21, <1>22 DEF ReplayInv

LEMMA NoteKeeps ==
    ASSUME OneAtATime, ReplayInv, NEW r \in Replays, Replay!Note(r)
    PROVE  ReplayInv'
<1>0. PICK x, n : x = <<r, n>> /\ n = Replay!Delivered(r) + 1
    OBVIOUS
<1>1. /\ ledger' = ledger /\ replayThread' = replayThread /\ req' = req /\ copy' = copy
      /\ current' = current /\ replayFaults' = replayFaults /\ replayLock' = Replay!None
      /\ mandate' = mandate /\ bound' = bound
      /\ task[r] = "note" /\ task' = [task EXCEPT ![r] = "pause"]
      /\ decided' = [decided EXCEPT ![x] = ledger[x]]
      /\ replayTimer' = Replay!Armed(x)
    BY <1>0 DEF Replay!Note, Replay!To, Replay!NextUp, Replay!asked
<1>2. Running(r) /\ r = current /\ req[r] = "done" /\ replayThread = Replay!NoPurchase
  <2>1. Running(r)
    BY <1>1 DEF Running, Replay!Going
  <2>2. r = current /\ req[r] = "done"
    BY <2>1 DEF ReplayInv, OneRun
  <2> QED
    BY <1>1, <2>1, <2>2 DEF ReplayInv, Deciding
<1>3. /\ InTurn(r) /\ Replay!Delivered(r) < Length /\ Booked(r, n) /\ Ahead(r)
    BY <1>0, <1>1 DEF ReplayInv, AtStage
<1>4. Length \in Nat /\ n \in 1..Length /\ \A i \in 1..Length : Counted(r, i) <=> i < n
  <2>1. Replay!Delivered(r) \in 0..Length /\ \A i \in 1..Length : Counted(r, i) <=> i <= Replay!Delivered(r)
    BY <1>3, FirstOnes
  <2>2. Length \in Nat
    BY DEF OneAtATime, Replay!ReplayAssumption
  <2> QED
    BY <1>0, <1>3, <2>1, <2>2
<1>5. /\ decided \in [Replay!Purchase -> Replay!Outcome \cup Replay!Closing \cup {Replay!None}]
      /\ ledger \in [Replay!Purchase -> Replay!Outcome \cup Replay!Closing \cup {Replay!None}]
      /\ task \in [Replays -> Replay!Going \cup {"none", "ended", "stopped"}]
      /\ replayTimer \in SUBSET Replay!Purchase
      /\ x \in Replay!Purchase
    BY <1>0, <1>4 DEF ReplayInv, Replay!TypeOK, Replay!Purchase
<1>6. /\ decided' \in [Replay!Purchase -> Replay!Outcome \cup Replay!Closing \cup {Replay!None}]
      /\ decided'[x] = ledger[x]
      /\ \A y \in Replay!Purchase : y # x => decided'[y] = decided[y]
    BY <1>1, <1>5
<1>7. /\ task' \in [Replays -> Replay!Going \cup {"none", "ended", "stopped"}]
      /\ task'[r] = "pause" /\ \A q \in Replays \ {r} : task'[q] = task[q]
    BY <1>1, <1>5 DEF Replay!Going
<1>8. /\ replayTimer' \in SUBSET Replay!Purchase /\ replayTimer \subseteq replayTimer'
      /\ ledger[x] = "waiting" => x \in replayTimer'
    BY <1>1, <1>5 DEF Replay!Armed
<1>9. Replay!TypeOK'
  <2>1. replayLock' \in Replays \cup {Replay!None}
    BY <1>1
  <2> QED
    BY <1>1, <1>6, <1>7, <1>8, <2>1 DEF ReplayInv, Replay!TypeOK
<1>10. /\ \A q \in Replays, i \in 1..Length : Booked(q, i)' <=> Booked(q, i)
       /\ \A q \in Replays, i \in 1..Length : q # r \/ i # n => (Counted(q, i)' <=> Counted(q, i))
       /\ Counted(r, n)'
  <2>1. \A q \in Replays, i \in 1..Length : <<q, i>> \in Replay!Purchase
    BY DEF Replay!Purchase
  <2>2. ledger[x] # Replay!None
    BY <1>0, <1>3 DEF Booked
  <2> QED
    BY <1>0, <1>1, <1>4, <1>6, <2>1, <2>2 DEF Counted, Booked
<1>11. \A q \in Replays \ {r} :
         /\ task'[q] = task[q] /\ q # current
         /\ \A i \in 1..Length : (Counted(q, i)' <=> Counted(q, i)) /\ (Booked(q, i)' <=> Booked(q, i))
    BY <1>2, <1>7, <1>10
<1>12. OneRun'
    BY <1>1, <1>2, <1>7, <1>11, OneRunOn DEF ReplayInv
<1>13. \A q \in Replays \ {r} : InTurn(q)' /\ AtStage(q)' /\ (Left(q) => Left(q)')
    BY <1>11, OthersStay
<1>14. InTurn(r)'
  <2>1. ASSUME NEW i \in 1..Length, Counted(r, i)', NEW j \in 1..i
        PROVE  Counted(r, j)' /\ Booked(r, j)'
    <3>1. i <= n /\ j \in 1..Length /\ j <= n
      <4>1. i # n => i < n
        BY <1>4, <1>10, <2>1
      <4> QED
        BY <1>4, <4>1
    <3>2. CASE j = n
      <4>1. Counted(r, n)' /\ Booked(r, n)'
        BY <1>3, <1>4, <1>10
      <4> QED
        BY <3>2, <4>1
    <3>3. CASE j # n
      <4>1. j < n
        BY <1>4, <3>1, <3>3
      <4>2. Counted(r, j) /\ j \in 1..j
        BY <1>4, <3>1, <4>1
      <4>3. Booked(r, j)
        BY <1>3, <3>1, <4>2 DEF InTurn
      <4> QED
        BY <1>10, <3>1, <3>3, <4>2, <4>3
    <3> QED
      BY <3>2, <3>3
  <2> QED
    BY <1>1, <2>1 DEF InTurn
<1>15. Even(r)'
  <2>1. ASSUME NEW i \in 1..Length, Booked(r, i)'
        PROVE  Counted(r, i)'
    <3>1. Booked(r, i) /\ (Counted(r, i) \/ i = n)
      BY <1>0, <1>3, <1>10, <2>1 DEF Ahead
    <3> QED
      BY <1>10, <3>1
  <2> QED
    BY <1>1, <2>1 DEF Even
<1>16. AtStage(r)' /\ Left(r)'
    BY <1>7, <1>15 DEF AtStage, Left
<1>17. Deciding' /\ (Replay!CountedHasATimer => Replay!CountedHasATimer')
    BY <1>1, <1>2, <1>6, <1>8 DEF Deciding, Replay!CountedHasATimer
<1>18. Replay!KnowsItsPurchases'
  <2>1. \A i \in 1..Length : <<current, i>> \in Replay!Purchase
    BY <1>2 DEF Replay!Purchase
  <2> QED
    BY <1>1, <1>2, <1>6, <2>1 DEF ReplayInv, Replay!KnowsItsPurchases
<1>19. ASSUME NEW q \in Replays PROVE InTurn(q)' /\ AtStage(q)' /\ (Left(q) => Left(q)')
    BY <1>13, <1>14, <1>16
<1> QED
    BY <1>1, <1>9, <1>12, <1>17, <1>18, <1>19 DEF ReplayInv

-----------------------------------------------------------------------------
LEMMA ReplayStep ==
    ASSUME OneAtATime, ReplayInv, [Replay!Next]_(Replay!vars)
    PROVE  ReplayInv'
<1>1. CASE UNCHANGED Replay!vars
  <2>1. /\ mandate' = mandate /\ bound' = bound /\ req' = req /\ copy' = copy /\ task' = task
        /\ decided' = decided /\ current' = current /\ replayLock' = replayLock /\ replayThread' = replayThread
        /\ replayTimer' = replayTimer /\ ledger' = ledger /\ replayFaults' = replayFaults
    BY <1>1 DEF Replay!vars, Replay!asked, Replay!runner
  <2>2. /\ OneRun' /\ Deciding'
        /\ \A r \in Replays : InTurn(r)' /\ AtStage(r)' /\ (Left(r) => Left(r)')
    BY <2>1, NothingMoves DEF Counted, Booked
  <2>3. Replay!TypeOK'
    BY <2>1 DEF ReplayInv, Replay!TypeOK
  <2>4. Replay!KnowsItsPurchases' /\ (Replay!CountedHasATimer => Replay!CountedHasATimer')
    BY <2>1 DEF ReplayInv, Replay!KnowsItsPurchases, Replay!CountedHasATimer
  <2> QED
    BY <2>1, <2>2, <2>3, <2>4 DEF ReplayInv
<1>2. ASSUME NEW r \in Replays,
             \/ Replay!ReadPolicy(r) \/ Replay!StopReplay(r) \/ Replay!Install(r)
             \/ Replay!Deliver(r) \/ Replay!TakeLock(r) \/ Replay!Note(r)
             \/ Replay!RunEnds(r) \/ Replay!RunFails(r)
      PROVE  ReplayInv'
    BY <1>2, ReadPolicyKeeps, StopKeeps, InstallKeeps, DeliverKeeps, TakeLockKeeps, NoteKeeps,
       RunEndsKeeps, RunFailsKeeps
<1>3. ASSUME NEW x \in Replay!Purchase,
             Replay!Answer(x) \/ Replay!Expire(x) \/ Replay!ReadLapsed(x) \/ Replay!ExpiryFails(x)
      PROVE  ReplayInv'
  <2>1. {"answered", "expired"} \subseteq Replay!Closing
    BY DEF Replay!Closing
  <2> QED
    BY <1>3, <2>1, CloseKeeps, ExpiryFailsKeeps DEF Replay!Answer, Replay!Expire, Replay!ReadLapsed
<1>4. CASE Replay!Revoke \/ Replay!BindPolicy \/ Replay!DecideEvent \/ Replay!Restart
    BY <1>4, PolicyKeeps, DecideEventKeeps, RestartKeeps
<1> QED
    BY <1>1, <1>2, <1>3, <1>4 DEF Replay!Next

LEMMA ReplayInvariant ==
    ASSUME OneAtATime
    PROVE  Replay!Spec => []ReplayInv
<1>1. Replay!Init => ReplayInv
    BY ReplayInitially
<1>2. ReplayInv /\ [Replay!Next]_(Replay!vars) => ReplayInv'
    BY ReplayStep
<1> QED
    BY <1>1, <1>2, PTL DEF Replay!Spec

LEMMA OneReplayKept == ReplayInv => Replay!OneReplay
<1> SUFFICES ASSUME ReplayInv PROVE Replay!OneReplay
  OBVIOUS
<1> DEFINE S == {r \in Replays : task[r] \in Replay!Going}
<1>1. S \subseteq {current}
  BY DEF ReplayInv, OneRun, Running
<1>2. IsFiniteSet({current}) /\ Cardinality({current}) = 1
  BY FS_Singleton
<1>3. IsFiniteSet(S) /\ Cardinality(S) <= 1
  <2> HIDE DEF S
  <2> QED BY <1>1, <1>2, FS_Subset
<1> QED
  BY <1>3, CountsAlike DEF Replay!OneReplay

LEMMA CountedInTurn == ReplayInv => (replayFaults = 0 => Replay!CountsInTurn)
<1> SUFFICES ASSUME ReplayInv, replayFaults = 0, NEW r \in Replays, NEW i \in 1..Length
             PROVE  /\ Counted(r, i) => \A j \in 1..i : Booked(r, j) /\ Counted(r, j)
                    /\ Booked(r, i) /\ ~Counted(r, i) =>
                         task[r] \in {"note", "stopped"} /\ i = Replay!Delivered(r) + 1
  BY DEF Replay!CountsInTurn, Counted, Booked
<1>1. InTurn(r) /\ AtStage(r) /\ Left(r) /\ OneRun
  BY DEF ReplayInv
<1>2. task[r] \in {"pause", "lock", "engine", "note", "none", "ended", "stopped"}
  BY DEF ReplayInv, Replay!TypeOK, Replay!Going
<1>3. Booked(r, i) => task[r] # "none"
  BY <1>1 DEF OneRun
<1>4. /\ Counted(r, i) => \A j \in 1..i : Booked(r, j) /\ Counted(r, j)
      /\ ~Counted(r, i) /\ Booked(r, i) => ~Even(r)
      /\ Ahead(r) /\ ~Counted(r, i) /\ Booked(r, i) => i = Replay!Delivered(r) + 1
  BY <1>1 DEF InTurn, Even, Ahead
<1>5. ~Even(r) => task[r] \in {"note", "none", "stopped"}
  BY <1>1, <1>2 DEF AtStage, Left
<1>6. task[r] \in {"note", "stopped"} => Ahead(r)
  BY <1>1 DEF AtStage, Left
<1> QED
  BY <1>3, <1>4, <1>5, <1>6

(* The replay in progress is stopped before another starts; what the       *)
(* ledger thread decides is the run's that was started last; and what that *)
(* run knows of its purchases is what the ledger says, whoever closed them *)
(* (the _stop_replay, _mark and _fresh of api/offline.py), whatever fails. *)
THEOREM ReplayKeepsItsOwn ==
    ASSUME OneAtATime
    PROVE  Replay!Spec => [](Replay!OneReplay /\ Replay!RecordsIntoCurrent /\ Replay!KnowsItsPurchases)
<1>1. ReplayInv => Replay!OneReplay
    BY OneReplayKept
<1>2. ReplayInv => Replay!RecordsIntoCurrent /\ Replay!KnowsItsPurchases
    BY DEF ReplayInv, Deciding, Replay!RecordsIntoCurrent
<1> QED
    BY <1>1, <1>2, ReplayInvariant, PTL

(* While the store takes what is written and the process goes on: every    *)
(* step-up that was counted expires by itself, and the purchases are       *)
(* decided and counted one by one, a stopped run leaving one in the ledger *)
(* that it does not know of at most (_replay, _arm_expiry).                *)
THEOREM NoneIsForgotten ==
    ASSUME OneAtATime
    PROVE  Replay!Spec => [](replayFaults = 0 => Replay!CountedHasATimer /\ Replay!CountsInTurn)
<1>1. ReplayInv => (replayFaults = 0 => Replay!CountsInTurn)
    BY CountedInTurn
<1>2. ReplayInv => (replayFaults = 0 => Replay!CountedHasATimer)
    BY DEF ReplayInv
<1> QED
    BY <1>1, <1>2, ReplayInvariant, PTL

-----------------------------------------------------------------------------
(* The soft signal (Signals): who loads the model and when, and what the   *)
(* keywords flag.                                                          *)

\* The pool's thread loads for the job at the head of its queue.
Loading == layaThread = "load" => pool # <<>>

\* Who loads holds the lock, once, and what the lifespan took stands.
LoadInv ==
  /\ loads \in Nat /\ loads <= 1 /\ (~tried => loads = 0)
  /\ layaLock # Laya!Nobody => tried
  /\ process = "down" => startup = "none"
  /\ layaLock = "startup" <=> startup = "load"
  /\ layaLock = "pool" <=> layaThread = "load"
  /\ startup \in {"set", "done"} => tried /\ layaLock = Laya!Nobody
  /\ Laya!HealthTruthful

SignalsInv == Laya!TypeOK /\ Loading /\ LoadInv /\ Laya!KeywordsStand

LEMMA SignalsTypes == Laya!SignalsAssumption /\ Laya!TypeOK /\ Loading /\ [Laya!Next]_(Laya!vars) => Laya!TypeOK'
<1> SUFFICES ASSUME Laya!SignalsAssumption, Laya!TypeOK, Loading, [Laya!Next]_(Laya!vars) PROVE Laya!TypeOK'
  OBVIOUS
<1> USE DEF Laya!laya, Laya!shown, Laya!deciding
<1>1. CASE Laya!Start
  <2>1. /\ process' \in {"down", "up", "failed"} /\ loading' \in BOOLEAN
        /\ startup' \in {"none", "lock", "load", "set", "done"}
    BY <1>1 DEF Laya!Start, Laya!TypeOK
  <2> QED BY <1>1, <2>1 DEF Laya!Start, Laya!TypeOK
<1>2. CASE Laya!soft_signals
  BY <1>2 DEF Laya!soft_signals, Laya!SignalsAssumption, Laya!TypeOK
<1>3. CASE Laya!Restart
  <2>1. replayOn' \in BOOLEAN
    BY <1>3, Zenon DEF Laya!Restart, Laya!replay_models
  <2> QED BY <1>3, <2>1 DEF Laya!Restart, Laya!SignalsAssumption, Laya!TypeOK
<1>4. CASE Laya!StartupWarms
  <2>1. /\ startup' \in {"none", "lock", "load", "set", "done"} /\ loading' \in BOOLEAN
        /\ loaded' \in BOOLEAN /\ tried' \in BOOLEAN
        /\ layaLock' \in {Laya!Nobody, "startup", "pool"} /\ loads' \in Nat
    <3>1. /\ loading \in BOOLEAN /\ loaded \in BOOLEAN /\ tried \in BOOLEAN /\ predict \in BOOLEAN
          /\ layaLock \in {Laya!Nobody, "startup", "pool"} /\ loads \in Nat
      BY DEF Laya!TypeOK
    <3>2. CASE Laya!Begins("startup") /\ startup' = "load" /\ UNCHANGED Laya!shown
      BY <3>1, <3>2 DEF Laya!Begins
    <3>3. CASE Laya!Finds /\ Laya!Reported(predict)
      BY <3>1, <3>3 DEF Laya!Finds, Laya!Reported
    <3> QED BY <1>4, <3>2, <3>3 DEF Laya!StartupWarms
  <2> QED BY <1>4, <2>1 DEF Laya!StartupWarms, Laya!TypeOK
<1>5. CASE Laya!StartupLoaded
  BY <1>5 DEF Laya!StartupLoaded, Laya!TypeOK
<1>6. CASE Laya!StartupReports
  BY <1>6 DEF Laya!StartupReports, Laya!Reported, Laya!TypeOK
<1>7. CASE Laya!PoolWarms
  <2>1. /\ tried' \in BOOLEAN /\ layaLock' \in {Laya!Nobody, "startup", "pool"} /\ loads' \in Nat
        /\ layaThread' \in {"idle", "load"}
    <3>1. /\ tried \in BOOLEAN /\ layaLock \in {Laya!Nobody, "startup", "pool"} /\ loads \in Nat
      BY DEF Laya!TypeOK
    <3>2. CASE Laya!Begins("pool") /\ layaThread' = "load"
      BY <3>1, <3>2 DEF Laya!Begins
    <3>3. CASE Laya!Finds /\ UNCHANGED layaThread
      BY <1>7, <3>1, <3>3 DEF Laya!Finds, Laya!PoolWarms
    <3> QED BY <1>7, <3>2, <3>3 DEF Laya!PoolWarms
  <2>2. pool' \in Seq(Laya!Jobs)
    <3>1. pool \in Seq(Laya!Jobs) /\ pool # <<>>
      BY <1>7 DEF Laya!PoolWarms, Laya!TypeOK
    <3>2. Tail(pool) \in Seq(Laya!Jobs)
      BY <3>1
    <3>3. pool' \in {pool, Tail(pool)}
      BY <1>7, Zenon DEF Laya!PoolWarms
    <3> QED BY <3>1, <3>2, <3>3
  <2> QED BY <1>7, <2>1, <2>2 DEF Laya!PoolWarms, Laya!TypeOK
<1>8. CASE Laya!PoolLoaded
  <2>1. pool' \in Seq(Laya!Jobs)
    BY <1>8 DEF Laya!PoolLoaded, Loading, Laya!TypeOK
  <2> QED BY <1>8, <2>1 DEF Laya!PoolLoaded, Laya!TypeOK
<1>9. CASE Laya!PoolAnswers
  <2>1. pool' \in Seq(Laya!Jobs)
    BY <1>9 DEF Laya!PoolAnswers, Laya!TypeOK
  <2>2. score' \in [Laya!Purchase -> {"none", "low", "high", "broken"}]
    BY <1>9 DEF Laya!PoolAnswers, Laya!TypeOK
  <2> QED BY <1>9, <2>1, <2>2 DEF Laya!PoolAnswers, Laya!TypeOK
<1>10. ASSUME NEW p \in Laya!Purchase, Laya!Decide(p) PROVE Laya!TypeOK'
  <2>0. p \in Laya!Jobs /\ "warm" \in Laya!Jobs /\ pool \in Seq(Laya!Jobs)
    BY DEF Laya!Jobs, Laya!TypeOK
  <2>1. pool' \in {pool, Append(pool, p), Append(pool, "warm")}
    BY <1>10, Zenon DEF Laya!Decide
  <2>2. /\ at' \in [Laya!Purchase -> {"idle", "waits", "done"}]
        /\ signal' \in [Laya!Purchase -> {"none", "quiet", "triggered"}]
    BY <1>10 DEF Laya!Decide, Laya!Says, Laya!KeywordSignals, Laya!TypeOK
  <2>3. pool' \in Seq(Laya!Jobs)
    BY <2>0, <2>1
  <2> QED BY <1>10, <2>2, <2>3 DEF Laya!Decide, Laya!TypeOK
<1>11. ASSUME NEW p \in Laya!Purchase, Laya!Answered(p) \/ Laya!OutOfTime(p) PROVE Laya!TypeOK'
  <2>1. /\ at' \in [Laya!Purchase -> {"idle", "waits", "done"}]
        /\ signal' \in [Laya!Purchase -> {"none", "quiet", "triggered"}]
    BY <1>11 DEF Laya!Answered, Laya!OutOfTime, Laya!Says, Laya!Combined, Laya!KeywordSignals, Laya!TypeOK
  <2> QED BY <1>11, <2>1 DEF Laya!Answered, Laya!OutOfTime, Laya!TypeOK
<1>12. CASE UNCHANGED Laya!vars
  BY <1>12 DEF Laya!vars, Laya!TypeOK
<1> QED BY <1>1, <1>2, <1>3, <1>4, <1>5, <1>6, <1>7, <1>8, <1>9, <1>10, <1>11, <1>12 DEF Laya!Next

LEMMA LoadingStep == Laya!TypeOK /\ Loading /\ LoadInv /\ [Laya!Next]_(Laya!vars) => Loading'
<1> SUFFICES ASSUME Laya!TypeOK, Loading, LoadInv, [Laya!Next]_(Laya!vars) PROVE Loading'
  OBVIOUS
<1> USE DEF Loading, Laya!laya, Laya!shown, Laya!deciding
<1>1. CASE Laya!Start \/ Laya!soft_signals \/ Laya!Restart
  BY <1>1 DEF Laya!Start, Laya!soft_signals, Laya!Restart
<1>2. CASE Laya!StartupWarms \/ Laya!StartupLoaded \/ Laya!StartupReports
  BY <1>2 DEF Laya!StartupWarms, Laya!StartupLoaded, Laya!StartupReports
<1>3. CASE Laya!PoolWarms
  BY <1>3 DEF Laya!PoolWarms
<1>4. CASE Laya!PoolLoaded \/ Laya!PoolAnswers
  BY <1>4 DEF Laya!PoolLoaded, Laya!PoolAnswers
<1>5. ASSUME NEW p \in Laya!Purchase, Laya!Decide(p) PROVE Loading'
  <2>1. pool' = pool \/ \E j \in Laya!Jobs : pool' = Append(pool, j)
    BY <1>5 DEF Laya!Decide, Laya!Jobs
  <2>2. pool \in Seq(Laya!Jobs) /\ layaThread' = layaThread
    BY <1>5 DEF Laya!Decide, Laya!TypeOK
  <2> QED BY <2>1, <2>2
<1>6. ASSUME NEW p \in Laya!Purchase, Laya!Answered(p) \/ Laya!OutOfTime(p) PROVE Loading'
  BY <1>6 DEF Laya!Answered, Laya!OutOfTime
<1>7. CASE UNCHANGED Laya!vars
  BY <1>7 DEF Laya!vars
<1> QED BY <1>1, <1>2, <1>3, <1>4, <1>5, <1>6, <1>7 DEF Laya!Next

LEMMA LoadStep == LoadInv /\ [Laya!Next]_(Laya!vars) => LoadInv'
<1> SUFFICES ASSUME LoadInv, [Laya!Next]_(Laya!vars) PROVE LoadInv'
  OBVIOUS
<1> USE DEF LoadInv, Laya!HealthTruthful, Laya!laya, Laya!shown, Laya!deciding, Laya!Nobody
<1>1. CASE Laya!Start
  BY <1>1 DEF Laya!Start
<1>2. CASE Laya!soft_signals \/ Laya!Restart
  BY <1>2 DEF Laya!soft_signals, Laya!Restart
<1>3. CASE Laya!StartupWarms
  BY <1>3 DEF Laya!StartupWarms, Laya!Begins, Laya!Finds, Laya!Reported
<1>4. CASE Laya!StartupLoaded
  BY <1>4 DEF Laya!StartupLoaded
<1>5. CASE Laya!StartupReports
  BY <1>5 DEF Laya!StartupReports, Laya!Reported
<1>6. CASE Laya!PoolWarms
  BY <1>6 DEF Laya!PoolWarms, Laya!Begins, Laya!Finds
<1>7. CASE Laya!PoolLoaded
  BY <1>7 DEF Laya!PoolLoaded
<1>8. CASE Laya!PoolAnswers
  BY <1>8 DEF Laya!PoolAnswers
<1>9. CASE \E p \in Laya!Purchase : Laya!Decide(p) \/ Laya!Answered(p) \/ Laya!OutOfTime(p)
  BY <1>9 DEF Laya!Decide, Laya!Answered, Laya!OutOfTime
<1>10. CASE UNCHANGED Laya!vars
  BY <1>10 DEF Laya!vars
<1> QED BY <1>1, <1>2, <1>3, <1>4, <1>5, <1>6, <1>7, <1>8, <1>9, <1>10 DEF Laya!Next

LEMMA KeywordsStep == Laya!TypeOK /\ Laya!KeywordsStand /\ [Laya!Next]_(Laya!vars) => Laya!KeywordsStand'
<1> SUFFICES ASSUME Laya!TypeOK, Laya!KeywordsStand, [Laya!Next]_(Laya!vars) PROVE Laya!KeywordsStand'
  OBVIOUS
<1> USE DEF Laya!KeywordsStand
<1>1. CASE UNCHANGED <<facts, signal>>
  BY <1>1
<1>2. ASSUME NEW p \in Laya!Purchase, Laya!Decide(p) \/ Laya!Answered(p) \/ Laya!OutOfTime(p) PROVE Laya!KeywordsStand'
  <2>1. UNCHANGED facts /\ signal \in [Laya!Purchase -> {"none", "quiet", "triggered"}]
    BY <1>2 DEF Laya!Decide, Laya!Answered, Laya!OutOfTime, Laya!TypeOK
  <2>2. CASE UNCHANGED signal
    BY <2>1, <2>2
  <2>3. CASE \E s \in {"none", Laya!KeywordSignals(p), Laya!Combined(p, score[p])} : Laya!Says(p, s)
    BY <2>1, <2>3 DEF Laya!Says, Laya!KeywordSignals, Laya!Combined
  <2> QED BY <1>2, <2>2, <2>3 DEF Laya!Decide, Laya!Answered, Laya!OutOfTime
<1>3. CASE Laya!Start \/ Laya!soft_signals \/ Laya!Restart
  BY <1>1, <1>3 DEF Laya!Start, Laya!soft_signals, Laya!Restart, Laya!deciding
<1>4. CASE Laya!StartupWarms \/ Laya!StartupLoaded \/ Laya!StartupReports
  BY <1>1, <1>4 DEF Laya!StartupWarms, Laya!StartupLoaded, Laya!StartupReports, Laya!deciding
<1>5. CASE Laya!PoolWarms \/ Laya!PoolLoaded \/ Laya!PoolAnswers
  BY <1>1, <1>5 DEF Laya!PoolWarms, Laya!PoolLoaded, Laya!PoolAnswers, Laya!deciding
<1>6. CASE UNCHANGED Laya!vars
  BY <1>1, <1>6 DEF Laya!vars, Laya!deciding
<1> QED BY <1>2, <1>3, <1>4, <1>5, <1>6 DEF Laya!Next

LEMMA SignalsStep == Laya!SignalsAssumption /\ SignalsInv /\ [Laya!Next]_(Laya!vars) => SignalsInv'
BY SignalsTypes, LoadingStep, LoadStep, KeywordsStep DEF SignalsInv

LEMMA SignalsInitially == Laya!SignalsAssumption /\ Laya!Init => SignalsInv
<1> SUFFICES ASSUME Laya!SignalsAssumption, Laya!Init PROVE SignalsInv
  OBVIOUS
<1>0. Laya!TypeOK
  <2>1. facts \in [Laya!Purchase -> [flagged: BOOLEAN, left: BOOLEAN]] /\ pool \in Seq(Laya!Jobs)
    BY DEF Laya!Init
  <2>2. /\ at \in [Laya!Purchase -> {"idle", "waits", "done"}]
        /\ score \in [Laya!Purchase -> {"none", "low", "high", "broken"}]
        /\ signal \in [Laya!Purchase -> {"none", "quiet", "triggered"}]
    BY DEF Laya!Init
  <2>3. /\ setting \in Settings /\ process = "down" /\ models = "unset" /\ loading = FALSE /\ loaded = FALSE
        /\ startup = "none" /\ tried = FALSE /\ predict = FALSE /\ layaLock = Laya!Nobody /\ loads = 0
        /\ layaThread = "idle" /\ replayOn = FALSE /\ switches = 0
    BY DEF Laya!Init
  <2>4. switches \in 0..MaxSwitches /\ loads \in Nat
    BY <2>3 DEF Laya!SignalsAssumption
  <2>5. /\ loading \in BOOLEAN /\ loaded \in BOOLEAN /\ tried \in BOOLEAN
        /\ predict \in BOOLEAN /\ replayOn \in BOOLEAN
    BY <2>3
  <2> QED BY <2>1, <2>2, <2>3, <2>4, <2>5, Zenon DEF Laya!TypeOK
<1>1. LoadInv
  BY DEF Laya!Init, LoadInv, Laya!HealthTruthful, Laya!Nobody
<1>2. Laya!KeywordsStand
  BY DEF Laya!Init, Laya!KeywordsStand
<1> QED BY <1>0, <1>1, <1>2 DEF SignalsInv, Laya!Init, Loading

-----------------------------------------------------------------------------
(* The settings of a process that shares its store (Window): a read in     *)
(* between may fail, and the lease may go to another.                      *)

\* A read answers with a window of the platform's.
ReadValue == read.at = "answered" => read.value \in Windows

\* Before the first read has landed nothing is followed and no run is bound.
ReadFirst ==
  /\ settingsAge = Window!Never => state = "starting" /\ read.at # "none"
  /\ state = "starting" => ~holder /\ settingsKnown = {} /\ ctx = Window!Unbound /\ d3.at = "none"

SettingsInv == Window!TypeOK /\ ReadValue /\ ReadFirst /\ Window!OneWindow

LEMMA SettingsTypes == Window!SettingsAssumption /\ Window!TypeOK /\ ReadValue /\ [Window!Next]_(Window!vars) => Window!TypeOK' /\ ReadValue'
<1> SUFFICES ASSUME Window!SettingsAssumption, Window!TypeOK, ReadValue, [Window!Next]_(Window!vars) PROVE Window!TypeOK' /\ ReadValue'
  OBVIOUS
<1> USE DEF Window!SettingsAssumption, Window!TypeOK, ReadValue, Window!Never, Window!platform, Window!records
<1>0. /\ Window!Sent \in [at: {"none", "sent", "answered"}, value: Windows \cup {"none"}] /\ Window!Sent.at = "sent"
      /\ Window!NoRead \in [at: {"none", "sent", "answered"}, value: Windows \cup {"none"}] /\ Window!NoRead.at = "none"
  BY DEF Window!Sent, Window!NoRead
<1>1. ASSUME NEW w \in Windows, Window!Changes(w) PROVE Window!TypeOK' /\ ReadValue'
  BY <1>1 DEF Window!Changes
<1>2. CASE Window!Tick
  BY <1>2 DEF Window!Tick
<1>3. CASE Window!Answers
  BY <1>3 DEF Window!Answers
<1>4. CASE Window!Lands
  <2>1. ctx' \in [Runs -> Windows \cup {DefaultWindow, "none"}] /\ \A r \in Runs \ settingsKnown : ctx'[r] = "none"
    BY <1>4 DEF Window!Lands, Window!Retimed
  <2>2. settingsAge' \in 0..Window!Never
    BY <1>4 DEF Window!Lands
  <2> QED BY <1>4, <1>0, <2>1, <2>2 DEF Window!Lands
<1>5. CASE Window!Fails
  BY <1>5, <1>0 DEF Window!Fails
<1>6. CASE Window!TryLease \/ Window!StepDown
  BY <1>6 DEF Window!TryLease, Window!StepDown
<1>7. ASSUME Window!refresh_bootstrap
      PROVE  /\ read' \in [at: {"none", "sent", "answered"}, value: Windows \cup {"none"}]
             /\ read'.at = "answered" => read'.value \in Windows
  BY <1>7, <1>0 DEF Window!refresh_bootstrap
<1>8. CASE Window!list_scenarios
  BY <1>8, <1>7 DEF Window!list_scenarios
<1>9. ASSUME NEW new, Window!SeesFirst(new) PROVE allowed' \in [Runs -> SUBSET Windows]
  BY <1>9 DEF Window!SeesFirst, Window!Served
<1>10. CASE Window!TakeOver
  BY <1>10, <1>9 DEF Window!TakeOver
<1>11. CASE Window!Restart
  <2>1. ctx' \in [Runs -> Windows \cup {DefaultWindow, "none"}] /\ \A r \in Runs \ settingsKnown' : ctx'[r] = "none"
    BY <1>11 DEF Window!Restart, Window!Unbound
  <2>2. d3' \in [at: {"none", "waits"}, run: Runs]
    BY <1>11 DEF Window!Restart
  <2>3. allowed' \in [Runs -> SUBSET Windows]
    BY <1>11 DEF Window!Restart
  <2>4. /\ state' = "starting" /\ holder' = FALSE /\ settingsWindow' = DefaultWindow /\ read' = Window!Sent
        /\ settingsAge' \in 0..Window!Never /\ settingsKnown' = {}
    BY <1>11 DEF Window!Restart, Window!Started
  <2> QED BY <1>11, <1>0, <2>1, <2>2, <2>3, <2>4 DEF Window!Restart
<1>12. ASSUME Window!_run_started
       PROVE  /\ read' \in [at: {"none", "sent", "answered"}, value: Windows \cup {"none"}]
              /\ read'.at = "answered" => read'.value \in Windows
  BY <1>12, <1>7 DEF Window!_run_started
<1>13. CASE Window!track_run
  <2>1. d3' \in [at: {"none", "waits"}, run: Runs]
    BY <1>13 DEF Window!track_run
  <2> QED BY <1>13, <1>9, <1>12, <2>1 DEF Window!track_run
<1>14. ASSUME NEW r \in Runs, Window!Elsewhere(r) PROVE Window!TypeOK' /\ ReadValue'
  BY <1>14 DEF Window!Elsewhere
<1>15. ASSUME NEW r \in Runs, Window!create_run(r) PROVE Window!TypeOK' /\ ReadValue'
  BY <1>15, <1>7 DEF Window!create_run
<1>16. ASSUME NEW r \in Runs, Window!Arrives(r) PROVE Window!TypeOK' /\ ReadValue'
  BY <1>16, <1>9, <1>12 DEF Window!Arrives
<1>17. ASSUME NEW r \in Runs, Window!_bind_run(r) PROVE Window!TypeOK' /\ ReadValue'
  BY <1>17 DEF Window!_bind_run
<1>18. CASE UNCHANGED Window!vars
  BY <1>18 DEF Window!vars
<1> QED BY <1>1, <1>2, <1>3, <1>4, <1>5, <1>6, <1>8, <1>10, <1>11, <1>13, <1>14,
          <1>15, <1>16, <1>17, <1>18 DEF Window!Next

LEMMA ReadFirstStep == Window!SettingsAssumption /\ Window!TypeOK /\ ReadFirst /\ [Window!Next]_(Window!vars) => ReadFirst'
<1> SUFFICES ASSUME Window!SettingsAssumption, Window!TypeOK, ReadFirst, [Window!Next]_(Window!vars) PROVE ReadFirst'
  OBVIOUS
<1> USE DEF ReadFirst, Window!platform, Window!records
<1>0. Window!Sent.at # "none" /\ settingsAge \in 0..Window!Never /\ Window!Never = Fresh + 1 /\ Fresh \in Nat \ {0}
  BY DEF Window!Sent, Window!TypeOK, Window!Never, Window!SettingsAssumption
<1>1. ASSUME NEW w \in Windows, Window!Changes(w) PROVE ReadFirst'
  BY <1>1 DEF Window!Changes
<1>2. CASE Window!Tick
  <2>1. settingsAge # Window!Never /\ settingsAge' # Window!Never
    BY <1>0, <1>2 DEF Window!Tick
  <2> QED BY <1>2, <2>1 DEF Window!Tick
<1>3. CASE Window!Answers \/ Window!Fails
  BY <1>3 DEF Window!Answers, Window!Fails
<1>4. CASE Window!Lands
  BY <1>0, <1>4 DEF Window!Lands, Window!Retimed, Window!Unbound, Window!TypeOK
<1>5. CASE Window!TryLease \/ Window!StepDown \/ Window!TakeOver
  BY <1>5 DEF Window!TryLease, Window!StepDown, Window!TakeOver
<1>6. CASE Window!Restart
  BY <1>0, <1>6 DEF Window!Restart, Window!Started, Window!Unbound
<1>7. CASE Window!list_scenarios \/ Window!track_run
  BY <1>7 DEF Window!list_scenarios, Window!track_run
<1>8. ASSUME NEW r \in Runs, Window!Elsewhere(r) \/ Window!create_run(r) \/ Window!Arrives(r) \/ Window!_bind_run(r) PROVE ReadFirst'
  BY <1>8 DEF Window!Elsewhere, Window!create_run, Window!Arrives, Window!_bind_run
<1>9. CASE UNCHANGED Window!vars
  BY <1>9 DEF Window!vars
<1> QED BY <1>1, <1>2, <1>3, <1>4, <1>5, <1>6, <1>7, <1>8, <1>9 DEF Window!Next

LEMMA OneWindowStep == Window!TypeOK /\ ReadFirst /\ Window!OneWindow /\ [Window!Next]_(Window!vars) => Window!OneWindow'
<1> SUFFICES ASSUME Window!TypeOK, ReadFirst, Window!OneWindow, [Window!Next]_(Window!vars) PROVE Window!OneWindow'
  OBVIOUS
<1> USE DEF Window!OneWindow, Window!platform, Window!records
<1>1. ASSUME UNCHANGED <<ctx, settingsWindow>> PROVE Window!OneWindow'
  BY <1>1
<1>2. CASE Window!Lands
  BY <1>2 DEF Window!Lands, Window!Retimed, ReadFirst, Window!Unbound
<1>3. CASE Window!Restart
  BY <1>3 DEF Window!Restart, Window!Unbound
<1>4. ASSUME NEW r \in Runs, Window!_bind_run(r) PROVE Window!OneWindow'
  BY <1>4 DEF Window!_bind_run, Window!TypeOK
<1>5. ASSUME NEW w \in Windows, Window!Changes(w) PROVE Window!OneWindow'
  BY <1>1, <1>5 DEF Window!Changes
<1>6. CASE Window!Tick \/ Window!Answers \/ Window!Fails \/ Window!TryLease \/ Window!TakeOver \/ Window!StepDown
  BY <1>1, <1>6 DEF Window!Tick, Window!Answers, Window!Fails, Window!TryLease, Window!TakeOver, Window!StepDown
<1>7. CASE Window!list_scenarios \/ Window!track_run
  BY <1>1, <1>7 DEF Window!list_scenarios, Window!track_run
<1>8. ASSUME NEW r \in Runs, Window!Elsewhere(r) \/ Window!create_run(r) \/ Window!Arrives(r) PROVE Window!OneWindow'
  BY <1>1, <1>8 DEF Window!Elsewhere, Window!create_run, Window!Arrives
<1>9. CASE UNCHANGED Window!vars
  BY <1>1, <1>9 DEF Window!vars
<1> QED BY <1>2, <1>3, <1>4, <1>5, <1>6, <1>7, <1>8, <1>9 DEF Window!Next

LEMMA SettingsInitially == Window!SettingsAssumption /\ Window!Init => SettingsInv
<1> SUFFICES ASSUME Window!SettingsAssumption, Window!Init PROVE SettingsInv
  OBVIOUS
<1>1. since \in [Windows -> 0..(Fresh + 2)] /\ settingsAge \in 0..Window!Never
  BY DEF Window!Init, Window!SettingsAssumption, Window!Never
<1>2. read \in [at: {"none", "sent", "answered"}, value: Windows \cup {"none"}] /\ read.at = "sent"
  BY DEF Window!Init, Window!Sent
<1>3. /\ ctx \in [Runs -> Windows \cup {DefaultWindow, "none"}] /\ \A r \in Runs : ctx[r] = "none"
      /\ d3 \in [at: {"none", "waits"}, run: Runs] /\ allowed \in [Runs -> SUBSET Windows]
  <2>1. (CHOOSE r \in Runs : TRUE) \in Runs
    BY DEF Window!SettingsAssumption
  <2> QED BY <2>1 DEF Window!Init, Window!Unbound
<1>4. Window!TypeOK
  BY <1>1, <1>2, <1>3 DEF Window!Init, Window!TypeOK
<1> QED BY <1>2, <1>3, <1>4 DEF Window!Init, SettingsInv, ReadValue, ReadFirst, Window!OneWindow

LEMMA SettingsStep == Window!SettingsAssumption /\ SettingsInv /\ [Window!Next]_(Window!vars) => SettingsInv'
BY SettingsTypes, ReadFirstStep, OneWindowStep DEF SettingsInv

-----------------------------------------------------------------------------
(* The settings of a process alone (Startup), which leads as soon as it    *)
(* has started; the lemmas are those of Window, with the windows of        *)
(* MoreWindows.                                                            *)

\* A read answers with a window of the platform's.
StartReadValue == read.at = "answered" => read.value \in MoreWindows

\* Before the first read has landed nothing is followed and no run is bound.
StartReadFirst ==
  /\ settingsAge = Startup!Never => state = "starting" /\ read.at # "none"
  /\ state = "starting" => ~holder /\ settingsKnown = {} /\ ctx = Startup!Unbound /\ d3.at = "none"

StartSettingsInv == Startup!TypeOK /\ StartReadValue /\ StartReadFirst /\ Startup!OneWindow

LEMMA StartSettingsTypes == Startup!SettingsAssumption /\ Startup!TypeOK /\ StartReadValue /\ [Startup!Next]_(Startup!vars) => Startup!TypeOK' /\ StartReadValue'
<1> SUFFICES ASSUME Startup!SettingsAssumption, Startup!TypeOK, StartReadValue, [Startup!Next]_(Startup!vars) PROVE Startup!TypeOK' /\ StartReadValue'
  OBVIOUS
<1> USE DEF Startup!SettingsAssumption, Startup!TypeOK, StartReadValue, Startup!Never, Startup!platform, Startup!records
<1>0. /\ Startup!Sent \in [at: {"none", "sent", "answered"}, value: MoreWindows \cup {"none"}] /\ Startup!Sent.at = "sent"
      /\ Startup!NoRead \in [at: {"none", "sent", "answered"}, value: MoreWindows \cup {"none"}] /\ Startup!NoRead.at = "none"
  BY DEF Startup!Sent, Startup!NoRead
<1>1. ASSUME NEW w \in MoreWindows, Startup!Changes(w) PROVE Startup!TypeOK' /\ StartReadValue'
  BY <1>1 DEF Startup!Changes
<1>2. CASE Startup!Tick
  BY <1>2 DEF Startup!Tick
<1>3. CASE Startup!Answers
  BY <1>3 DEF Startup!Answers
<1>4. CASE Startup!Lands
  <2>1. ctx' \in [Runs -> MoreWindows \cup {DefaultWindow, "none"}] /\ \A r \in Runs \ settingsKnown : ctx'[r] = "none"
    BY <1>4 DEF Startup!Lands, Startup!Retimed
  <2>2. settingsAge' \in 0..Startup!Never
    BY <1>4 DEF Startup!Lands
  <2> QED BY <1>4, <1>0, <2>1, <2>2 DEF Startup!Lands
<1>5. CASE Startup!Fails
  BY <1>5, <1>0 DEF Startup!Fails
<1>6. CASE Startup!TryLease \/ Startup!StepDown
  BY <1>6 DEF Startup!TryLease, Startup!StepDown
<1>7. ASSUME Startup!refresh_bootstrap
      PROVE  /\ read' \in [at: {"none", "sent", "answered"}, value: MoreWindows \cup {"none"}]
             /\ read'.at = "answered" => read'.value \in MoreWindows
  BY <1>7, <1>0 DEF Startup!refresh_bootstrap
<1>8. CASE Startup!list_scenarios
  BY <1>8, <1>7 DEF Startup!list_scenarios
<1>9. ASSUME NEW new, Startup!SeesFirst(new) PROVE allowed' \in [Runs -> SUBSET MoreWindows]
  BY <1>9 DEF Startup!SeesFirst, Startup!Served
<1>10. CASE Startup!TakeOver
  BY <1>10, <1>9 DEF Startup!TakeOver
<1>11. CASE Startup!Restart
  <2>1. ctx' \in [Runs -> MoreWindows \cup {DefaultWindow, "none"}] /\ \A r \in Runs \ settingsKnown' : ctx'[r] = "none"
    BY <1>11 DEF Startup!Restart, Startup!Unbound
  <2>2. d3' \in [at: {"none", "waits"}, run: Runs]
    BY <1>11 DEF Startup!Restart
  <2>3. allowed' \in [Runs -> SUBSET MoreWindows]
    BY <1>11 DEF Startup!Restart
  <2>4. /\ state' = "starting" /\ holder' = FALSE /\ settingsWindow' = DefaultWindow /\ read' = Startup!Sent
        /\ settingsAge' \in 0..Startup!Never /\ settingsKnown' = {}
    BY <1>11 DEF Startup!Restart, Startup!Started
  <2> QED BY <1>11, <1>0, <2>1, <2>2, <2>3, <2>4 DEF Startup!Restart
<1>12. ASSUME Startup!_run_started
       PROVE  /\ read' \in [at: {"none", "sent", "answered"}, value: MoreWindows \cup {"none"}]
              /\ read'.at = "answered" => read'.value \in MoreWindows
  BY <1>12, <1>7 DEF Startup!_run_started
<1>13. CASE Startup!track_run
  <2>1. d3' \in [at: {"none", "waits"}, run: Runs]
    BY <1>13 DEF Startup!track_run
  <2> QED BY <1>13, <1>9, <1>12, <2>1 DEF Startup!track_run
<1>14. ASSUME NEW r \in Runs, Startup!Elsewhere(r) PROVE Startup!TypeOK' /\ StartReadValue'
  BY <1>14 DEF Startup!Elsewhere
<1>15. ASSUME NEW r \in Runs, Startup!create_run(r) PROVE Startup!TypeOK' /\ StartReadValue'
  BY <1>15, <1>7 DEF Startup!create_run
<1>16. ASSUME NEW r \in Runs, Startup!Arrives(r) PROVE Startup!TypeOK' /\ StartReadValue'
  BY <1>16, <1>9, <1>12 DEF Startup!Arrives
<1>17. ASSUME NEW r \in Runs, Startup!_bind_run(r) PROVE Startup!TypeOK' /\ StartReadValue'
  BY <1>17 DEF Startup!_bind_run
<1>18. CASE UNCHANGED Startup!vars
  BY <1>18 DEF Startup!vars
<1> QED BY <1>1, <1>2, <1>3, <1>4, <1>5, <1>6, <1>8, <1>10, <1>11, <1>13, <1>14,
          <1>15, <1>16, <1>17, <1>18 DEF Startup!Next

LEMMA StartReadFirstStep == Startup!SettingsAssumption /\ Startup!TypeOK /\ StartReadFirst /\ [Startup!Next]_(Startup!vars) => StartReadFirst'
<1> SUFFICES ASSUME Startup!SettingsAssumption, Startup!TypeOK, StartReadFirst, [Startup!Next]_(Startup!vars) PROVE StartReadFirst'
  OBVIOUS
<1> USE DEF StartReadFirst, Startup!platform, Startup!records
<1>0. Startup!Sent.at # "none" /\ settingsAge \in 0..Startup!Never /\ Startup!Never = Fresh + 1 /\ Fresh \in Nat \ {0}
  BY DEF Startup!Sent, Startup!TypeOK, Startup!Never, Startup!SettingsAssumption
<1>1. ASSUME NEW w \in MoreWindows, Startup!Changes(w) PROVE StartReadFirst'
  BY <1>1 DEF Startup!Changes
<1>2. CASE Startup!Tick
  <2>1. settingsAge # Startup!Never /\ settingsAge' # Startup!Never
    BY <1>0, <1>2 DEF Startup!Tick
  <2> QED BY <1>2, <2>1 DEF Startup!Tick
<1>3. CASE Startup!Answers \/ Startup!Fails
  BY <1>3 DEF Startup!Answers, Startup!Fails
<1>4. CASE Startup!Lands
  BY <1>0, <1>4 DEF Startup!Lands, Startup!Retimed, Startup!Unbound, Startup!TypeOK
<1>5. CASE Startup!TryLease \/ Startup!StepDown \/ Startup!TakeOver
  BY <1>5 DEF Startup!TryLease, Startup!StepDown, Startup!TakeOver
<1>6. CASE Startup!Restart
  BY <1>0, <1>6 DEF Startup!Restart, Startup!Started, Startup!Unbound
<1>7. CASE Startup!list_scenarios \/ Startup!track_run
  BY <1>7 DEF Startup!list_scenarios, Startup!track_run
<1>8. ASSUME NEW r \in Runs, Startup!Elsewhere(r) \/ Startup!create_run(r) \/ Startup!Arrives(r) \/ Startup!_bind_run(r) PROVE StartReadFirst'
  BY <1>8 DEF Startup!Elsewhere, Startup!create_run, Startup!Arrives, Startup!_bind_run
<1>9. CASE UNCHANGED Startup!vars
  BY <1>9 DEF Startup!vars
<1> QED BY <1>1, <1>2, <1>3, <1>4, <1>5, <1>6, <1>7, <1>8, <1>9 DEF Startup!Next

LEMMA StartOneWindowStep == Startup!TypeOK /\ StartReadFirst /\ Startup!OneWindow /\ [Startup!Next]_(Startup!vars) => Startup!OneWindow'
<1> SUFFICES ASSUME Startup!TypeOK, StartReadFirst, Startup!OneWindow, [Startup!Next]_(Startup!vars) PROVE Startup!OneWindow'
  OBVIOUS
<1> USE DEF Startup!OneWindow, Startup!platform, Startup!records
<1>1. ASSUME UNCHANGED <<ctx, settingsWindow>> PROVE Startup!OneWindow'
  BY <1>1
<1>2. CASE Startup!Lands
  BY <1>2 DEF Startup!Lands, Startup!Retimed, StartReadFirst, Startup!Unbound
<1>3. CASE Startup!Restart
  BY <1>3 DEF Startup!Restart, Startup!Unbound
<1>4. ASSUME NEW r \in Runs, Startup!_bind_run(r) PROVE Startup!OneWindow'
  BY <1>4 DEF Startup!_bind_run, Startup!TypeOK
<1>5. ASSUME NEW w \in MoreWindows, Startup!Changes(w) PROVE Startup!OneWindow'
  BY <1>1, <1>5 DEF Startup!Changes
<1>6. CASE Startup!Tick \/ Startup!Answers \/ Startup!Fails \/ Startup!TryLease \/ Startup!TakeOver \/ Startup!StepDown
  BY <1>1, <1>6 DEF Startup!Tick, Startup!Answers, Startup!Fails, Startup!TryLease, Startup!TakeOver, Startup!StepDown
<1>7. CASE Startup!list_scenarios \/ Startup!track_run
  BY <1>1, <1>7 DEF Startup!list_scenarios, Startup!track_run
<1>8. ASSUME NEW r \in Runs, Startup!Elsewhere(r) \/ Startup!create_run(r) \/ Startup!Arrives(r) PROVE Startup!OneWindow'
  BY <1>1, <1>8 DEF Startup!Elsewhere, Startup!create_run, Startup!Arrives
<1>9. CASE UNCHANGED Startup!vars
  BY <1>1, <1>9 DEF Startup!vars
<1> QED BY <1>2, <1>3, <1>4, <1>5, <1>6, <1>7, <1>8, <1>9 DEF Startup!Next

LEMMA StartSettingsInitially == Startup!SettingsAssumption /\ Startup!Init => StartSettingsInv
<1> SUFFICES ASSUME Startup!SettingsAssumption, Startup!Init PROVE StartSettingsInv
  OBVIOUS
<1>1. since \in [MoreWindows -> 0..(Fresh + 2)] /\ settingsAge \in 0..Startup!Never
  BY DEF Startup!Init, Startup!SettingsAssumption, Startup!Never
<1>2. read \in [at: {"none", "sent", "answered"}, value: MoreWindows \cup {"none"}] /\ read.at = "sent"
  BY DEF Startup!Init, Startup!Sent
<1>3. /\ ctx \in [Runs -> MoreWindows \cup {DefaultWindow, "none"}] /\ \A r \in Runs : ctx[r] = "none"
      /\ d3 \in [at: {"none", "waits"}, run: Runs] /\ allowed \in [Runs -> SUBSET MoreWindows]
  <2>1. (CHOOSE r \in Runs : TRUE) \in Runs
    BY DEF Startup!SettingsAssumption
  <2> QED BY <2>1 DEF Startup!Init, Startup!Unbound
<1>4. Startup!TypeOK
  BY <1>1, <1>2, <1>3 DEF Startup!Init, Startup!TypeOK
<1> QED BY <1>2, <1>3, <1>4 DEF Startup!Init, StartSettingsInv, StartReadValue, StartReadFirst, Startup!OneWindow

LEMMA StartSettingsStep == Startup!SettingsAssumption /\ StartSettingsInv /\ [Startup!Next]_(Startup!vars) => StartSettingsInv'
BY StartSettingsTypes, StartReadFirstStep, StartOneWindowStep DEF StartSettingsInv

\* A process that never loses the lease leads once it has started; the window
\* of a run that is followed is one it may have.
Leads == state # "starting" => state = "polling" /\ holder

Followed ==
  /\ \A r \in Runs : (allowed[r] # {} <=> r \in settingsKnown) /\ (r \in settingsKnown => settingsServed \in allowed[r])
  /\ since[settingsServed] = 0
  /\ settingsAge < Fresh => settingsWindow \in MoreWindows /\ since[settingsWindow] <= settingsAge
  /\ read.at = "answered" => since[read.value] = 0 /\ \A r \in settingsKnown : read.value \in allowed[r]
  /\ read.at = "none" => \A r \in settingsKnown : settingsWindow \in allowed[r]

StartInv == StartSettingsInv /\ Leads /\ Followed

LEMMA LeadsStep == Leads /\ [Startup!Next]_(Startup!vars) => Leads'
<1> SUFFICES ASSUME Leads, [Startup!Next]_(Startup!vars) PROVE Leads'
  OBVIOUS
<1> USE DEF Leads, Startup!platform, Startup!records
<1>1. ASSUME NEW w \in MoreWindows, Startup!Changes(w) PROVE Leads'
  BY <1>1 DEF Startup!Changes
<1>2. CASE Startup!Tick \/ Startup!Answers \/ Startup!Lands \/ Startup!Fails \/ Startup!list_scenarios \/ Startup!track_run
  BY <1>2 DEF Startup!Tick, Startup!Answers, Startup!Lands, Startup!Fails, Startup!list_scenarios, Startup!track_run
<1>3. CASE Startup!TryLease \/ Startup!TakeOver \/ Startup!StepDown
  BY <1>3 DEF Startup!TryLease, Startup!TakeOver, Startup!StepDown
<1>4. CASE Startup!Restart
  BY <1>4 DEF Startup!Restart, Startup!Started
<1>5. ASSUME NEW r \in Runs, Startup!Elsewhere(r) \/ Startup!create_run(r) \/ Startup!Arrives(r) \/ Startup!_bind_run(r) PROVE Leads'
  BY <1>5 DEF Startup!Elsewhere, Startup!create_run, Startup!Arrives, Startup!_bind_run
<1>6. CASE UNCHANGED Startup!vars
  BY <1>6 DEF Startup!vars
<1> QED BY <1>1, <1>2, <1>3, <1>4, <1>5, <1>6 DEF Startup!Next

\* A run that is seen first: what the platform served of late is what the
\* worker has, or will have once the read that is asked for has landed.
LEMMA SeenFirst ==
  ASSUME Startup!SettingsAssumption, Startup!TypeOK, StartReadValue, Followed, Leads, state # "starting",
         NEW r \in Runs, r \notin settingsKnown, settingsKnown' = settingsKnown \cup {r}, Startup!SeesFirst({r}), Startup!_run_started,
         UNCHANGED <<settingsServed, since, settingsWindow, settingsAge>>
  PROVE  Followed'
<1> USE DEF Startup!SettingsAssumption, Startup!TypeOK, StartReadValue, Followed
<1>1. settingsServed \in Startup!Served /\ Startup!Served \subseteq MoreWindows
  BY DEF Startup!Served
<1>2. /\ allowed' = [q \in Runs |-> IF q = r THEN Startup!Served ELSE allowed[q]]
  BY DEF Startup!SeesFirst
<1>3. \A q \in Runs : (allowed'[q] # {} <=> q \in settingsKnown') /\ (q \in settingsKnown' => settingsServed' \in allowed'[q])
  BY <1>1, <1>2
<1>4. CASE settingsAge < Fresh
  <2>1. settingsWindow \in Startup!Served /\ (read.at = "answered" => read.value \in Startup!Served)
    BY <1>4 DEF Startup!Served
  <2>2. UNCHANGED read
    BY <1>4 DEF Startup!_run_started
  <2> QED BY <1>2, <1>3, <2>1, <2>2
<1>5. CASE ~(settingsAge < Fresh) /\ read.at = "none"
  <2>1. read'.at = "sent"
    BY <1>5 DEF Startup!_run_started, Startup!refresh_bootstrap, Startup!Sent, Leads
  <2> QED BY <1>3, <1>5, <2>1
<1>6. CASE ~(settingsAge < Fresh) /\ read.at # "none"
  <2>1. UNCHANGED read
    BY <1>6 DEF Startup!_run_started, Startup!refresh_bootstrap
  <2>2. read.at = "answered" => read.value \in Startup!Served
    BY DEF Startup!Served
  <2> QED BY <1>2, <1>3, <1>6, <2>1, <2>2
<1> QED BY <1>4, <1>5, <1>6

LEMMA FollowedStep ==
  Startup!SettingsAssumption /\ StartInv /\ [Startup!Next]_(Startup!vars) => Followed'
<1> SUFFICES ASSUME Startup!SettingsAssumption, StartInv, [Startup!Next]_(Startup!vars) PROVE Followed'
  OBVIOUS
<1>0. Startup!TypeOK /\ StartReadValue /\ StartReadFirst /\ Leads /\ Followed /\ Startup!Sent.at = "sent" /\ Startup!NoRead.at = "none"
  BY DEF StartInv, StartSettingsInv, Startup!Sent, Startup!NoRead
<1> USE <1>0 DEF Startup!SettingsAssumption, Startup!TypeOK, Followed, Startup!platform, Startup!records
<1>1. ASSUME NEW w \in MoreWindows, Startup!Changes(w) PROVE Followed'
  BY <1>1 DEF Startup!Changes
<1>2. CASE Startup!Tick
  <2>1. \A w \in MoreWindows : since'[w] \in 0..(since[w] + 1) /\ since'[settingsServed] = 0
    BY <1>2 DEF Startup!Tick
  <2> QED BY <1>2, <2>1 DEF Startup!Tick
<1>3. CASE Startup!Answers
  BY <1>3 DEF Startup!Answers
<1>4. CASE Startup!Lands
  BY <1>4 DEF Startup!Lands, StartReadValue
<1>5. CASE Startup!Fails \/ Startup!StepDown
  BY <1>5 DEF Startup!Fails, Startup!StepDown
<1>6. CASE Startup!TryLease
  BY <1>6 DEF Startup!TryLease
<1>7. CASE Startup!TakeOver
  BY <1>7 DEF Startup!TakeOver, Leads
<1>8. CASE Startup!Restart
  BY <1>8 DEF Startup!Restart, Startup!Started, Startup!Never
<1>9. ASSUME Startup!refresh_bootstrap, UNCHANGED <<settingsServed, since, settingsWindow, settingsAge, settingsKnown, allowed>> PROVE Followed'
  BY <1>9 DEF Startup!refresh_bootstrap
<1>10. CASE Startup!list_scenarios
  BY <1>9, <1>10 DEF Startup!list_scenarios
<1>11. ASSUME NEW r \in Runs, Startup!create_run(r) PROVE Followed'
  BY <1>9, <1>11 DEF Startup!create_run
<1>12. CASE Startup!track_run
  BY <1>12, SeenFirst DEF Startup!track_run, StartReadFirst
<1>13. ASSUME NEW r \in Runs, Startup!Arrives(r) PROVE Followed'
  BY <1>13, SeenFirst DEF Startup!Arrives, StartReadFirst
<1>14. ASSUME NEW r \in Runs, Startup!Elsewhere(r) \/ Startup!_bind_run(r) PROVE Followed'
  BY <1>14 DEF Startup!Elsewhere, Startup!_bind_run
<1>15. CASE UNCHANGED Startup!vars
  BY <1>15 DEF Startup!vars
<1> QED BY <1>1, <1>2, <1>3, <1>4, <1>5, <1>6, <1>7, <1>8, <1>10, <1>11, <1>12,
          <1>13, <1>14, <1>15 DEF Startup!Next

LEMMA StartInitially == Startup!SettingsAssumption /\ Startup!Init => StartInv
<1> SUFFICES ASSUME Startup!SettingsAssumption, Startup!Init PROVE StartInv
  OBVIOUS
<1>1. Followed
  BY DEF Startup!SettingsAssumption, Startup!Init, Followed, Startup!Never, Startup!Sent
<1> QED BY <1>1, StartSettingsInitially DEF Startup!Init, StartInv, Leads

LEMMA StartStep ==
  Startup!SettingsAssumption /\ StartInv /\ [Startup!Next]_(Startup!vars) => StartInv'
BY StartSettingsStep, LeadsStep, FollowedStep DEF StartInv

LEMMA WindowOfAStart == StartInv => Startup!WindowOfItsStart
<1> SUFFICES ASSUME StartInv, read.at = "none", NEW r \in Runs, ctx[r] # "none" PROVE ctx[r] \in allowed[r]
  BY DEF Startup!WindowOfItsStart
<1>1. ctx[r] = settingsWindow /\ (r \notin settingsKnown => ctx[r] = "none")
  BY DEF StartInv, StartSettingsInv, Startup!OneWindow, Startup!TypeOK
<1> QED BY <1>1 DEF StartInv, Followed

-----------------------------------------------------------------------------
(***************************************************************************)
(* Drafting: how many drafts are accepted, and who waits in a queue.       *)
(***************************************************************************)
DraftFinite == IsFiniteSet(Drafts) /\ IsFiniteSet(Facts) /\ IsFiniteSet(Restores)

(* Of a queue without repetition one place is given up.                    *)
LEMMA TakenBack ==
  ASSUME NEW S, NEW s \in Seq(S), Draft!IsInjective(s), NEW i \in DOMAIN s
  PROVE  /\ Draft!RemoveAt(s, i) \in Seq(S) /\ Draft!IsInjective(Draft!RemoveAt(s, i))
         /\ Draft!Range(Draft!RemoveAt(s, i)) = Draft!Range(s) \ {s[i]}
<1> DEFINE t == Draft!RemoveAt(s, i)
           from(k) == IF k < i THEN k ELSE k + 1
<1>1. i \in 1..Len(s) /\ DOMAIN s = 1..Len(s) /\ Len(s) \in Nat
  OBVIOUS
<1>2. t \in Seq(S) /\ Len(t) = Len(s) - 1 /\ \A k \in 1..Len(t) : t[k] = s[from(k)]
  <2> DEFINE u == SubSeq(s, 1, i - 1)
             v == SubSeq(s, i + 1, Len(s))
  <2>1. u \in Seq(S) /\ Len(u) = i - 1 /\ \A k \in 1..i - 1 : u[k] = s[k]
    BY <1>1
  <2>2. v \in Seq(S) /\ Len(v) = Len(s) - i /\ \A k \in 1..Len(s) - i : v[k] = s[k + i]
    BY <1>1
  <2>3. t = u \o v
    BY DEF Draft!RemoveAt
  <2> HIDE DEF u, v, t
  <2>4. t \in Seq(S) /\ Len(t) = Len(s) - 1
    <3>1. t \in Seq(S) /\ Len(t) = Len(u) + Len(v)
      <4>1. \A a, b \in Seq(S) : a \o b \in Seq(S) /\ Len(a \o b) = Len(a) + Len(b)
        OBVIOUS
      <4> QED BY <4>1, <2>1, <2>2, <2>3
    <3> QED BY <3>1, <2>1, <2>2, <1>1
  <2>5. ASSUME NEW k \in 1..Len(t) PROVE t[k] = s[from(k)]
    <3>1. CASE k < i
      BY <3>1, <2>1, <2>2, <2>3, <2>4, <1>1
    <3>2. CASE k >= i
      <4>1. t[k] = v[k - (i - 1)] /\ k - (i - 1) \in 1..Len(s) - i
        BY <3>2, <2>1, <2>2, <2>3, <2>4, <1>1
      <4> QED BY <4>1, <3>2, <2>2, <2>4, <1>1
    <3> QED BY <3>1, <3>2, <2>4, <1>1
  <2> QED BY <2>4, <2>5
<1>3. DOMAIN t = 1..Len(t) /\ \A k \in DOMAIN t : from(k) \in DOMAIN s /\ from(k) # i
  BY <1>1, <1>2
<1>4. \A k, n \in DOMAIN t : from(k) = from(n) => k = n
  BY <1>1, <1>3
<1>5. \A n \in DOMAIN s : n # i => \E k \in DOMAIN t : from(k) = n
  <2> SUFFICES ASSUME NEW n \in 1..Len(s), n # i PROVE \E k \in 1..Len(s) - 1 : from(k) = n
    BY <1>1, <1>2, <1>3
  <2>1. CASE n < i
    BY <1>1, <2>1
  <2>2. CASE n > i
    BY <1>1, <2>2, n - 1 \in 1..Len(s) - 1
  <2> QED BY <2>1, <2>2, <1>1
<1> HIDE DEF t, from
<1>6. Draft!IsInjective(t)
  BY <1>2, <1>3, <1>4 DEF Draft!IsInjective
<1>7. Draft!Range(t) = Draft!Range(s) \ {s[i]}
  <2>1. ASSUME NEW k \in DOMAIN t PROVE t[k] \in Draft!Range(s) \ {s[i]}
    <3>1. t[k] = s[from(k)] /\ from(k) \in DOMAIN s /\ from(k) # i
      BY <1>2, <1>3
    <3> QED BY <3>1 DEF Draft!IsInjective, Draft!Range
  <2>2. ASSUME NEW n \in DOMAIN s, s[n] # s[i] PROVE s[n] \in Draft!Range(t)
    <3>1. PICK k \in DOMAIN t : from(k) = n
      BY <2>2, <1>5
    <3>2. t[k] = s[n]
      BY <3>1, <1>2, <1>3
    <3> QED BY <3>2 DEF Draft!Range
  <2> QED BY <2>1, <2>2 DEF Draft!Range
<1> QED BY <1>2, <1>6, <1>7 DEF t

(* ... one is added at its end, and the first goes. *)
LEMMA PutAtTheEnd ==
  ASSUME NEW S, NEW s \in Seq(S), Draft!IsInjective(s), NEW x \in S, x \notin Draft!Range(s)
  PROVE  /\ Append(s, x) \in Seq(S) /\ Draft!IsInjective(Append(s, x))
         /\ Draft!Range(Append(s, x)) = Draft!Range(s) \cup {x}
<1> DEFINE t == Append(s, x)
<1>1. /\ t \in Seq(S) /\ Len(t) = Len(s) + 1 /\ t[Len(s) + 1] = x /\ \A k \in 1..Len(s) : t[k] = s[k]
      /\ DOMAIN s = 1..Len(s) /\ DOMAIN t = 1..Len(s) + 1 /\ Len(s) \in Nat
  OBVIOUS
<1> HIDE DEF t
<1>2. \A k \in DOMAIN s : s[k] # x
  BY DEF Draft!Range
<1>3. Draft!IsInjective(t)
  BY <1>1, <1>2 DEF Draft!IsInjective
<1>4. Draft!Range(t) = Draft!Range(s) \cup {x}
  BY <1>1 DEF Draft!Range
<1> QED BY <1>1, <1>3, <1>4 DEF t

LEMMA TakenFirst ==
  ASSUME NEW S, NEW s \in Seq(S), Draft!IsInjective(s), s # << >>
  PROVE  /\ Head(s) \in S /\ Head(s) \in Draft!Range(s)
         /\ Tail(s) \in Seq(S) /\ Draft!IsInjective(Tail(s))
         /\ Draft!Range(Tail(s)) = Draft!Range(s) \ {Head(s)}
<1> DEFINE t == Tail(s)
<1>1. /\ t \in Seq(S) /\ Len(t) = Len(s) - 1 /\ \A k \in 1..Len(s) - 1 : t[k] = s[k + 1]
      /\ DOMAIN s = 1..Len(s) /\ DOMAIN t = 1..Len(s) - 1 /\ Len(s) \in Nat \ {0} /\ Head(s) = s[1]
      /\ s[1] \in S
  OBVIOUS
<1> HIDE DEF t
<1>2. Draft!IsInjective(t)
  BY <1>1 DEF Draft!IsInjective
<1>3. Draft!Range(t) = Draft!Range(s) \ {s[1]}
  <2>1. \A k \in DOMAIN t : t[k] \in Draft!Range(s) \ {s[1]}
    BY <1>1 DEF Draft!IsInjective, Draft!Range
  <2>2. \A n \in DOMAIN s : s[n] # s[1] => n - 1 \in DOMAIN t /\ t[n - 1] = s[n]
    BY <1>1
  <2> QED BY <2>1, <2>2, <1>1 DEF Draft!Range
<1> QED BY <1>1, <1>2, <1>3 DEF t, Draft!Range

(* A set that is bounded stays so, with one more where there is room. *)
LEMMA RoomForOne ==
  ASSUME NEW S, IsFiniteSet(S), NEW T \in SUBSET S, NEW x \in S, NEW n \in Nat,
         Draft!Cardinality(T) < n
  PROVE  Draft!Cardinality(T \cup {x}) <= n
<1>1. IsFiniteSet(T)
  BY FS_Subset
<1>2. Cardinality(T) \in Nat
  BY <1>1, FS_CardinalityType
<1>3. Draft!Cardinality(T) = Cardinality(T) /\ Draft!Cardinality(T \cup {x}) = Cardinality(T \cup {x})
  BY DEF Draft!Cardinality, Cardinality
<1>4. Cardinality(T \cup {x}) = IF x \in T THEN Cardinality(T) ELSE Cardinality(T) + 1
  BY <1>1, FS_AddElement
<1> QED BY <1>2, <1>3, <1>4

LEMMA NoMore ==
  ASSUME NEW S, IsFiniteSet(S), NEW T \in SUBSET S
  PROVE  Draft!Cardinality(T) \in Nat /\ Draft!Cardinality(T) <= Draft!Cardinality(S)
<1>1. Draft!Cardinality(T) = Cardinality(T) /\ Draft!Cardinality(S) = Cardinality(S)
  BY DEF Draft!Cardinality, Cardinality
<1> QED BY <1>1, FS_Subset, FS_CardinalityType

-----------------------------------------------------------------------------
(* The limiter.  The calls it has in its window are the last ones that     *)
(* were accepted, and those before them are too old to count; who was told *)
(* to come back comes when the first of them is, too.                      *)
LimitOf(c) ==
  /\ \E k \in 0..Len(draftAccepted[c]) :
       /\ Len(draftWindow[c]) = Len(draftAccepted[c]) - k
       /\ \A i \in 1..Len(draftWindow[c]) : draftWindow[c][i] = draftAccepted[c][i + k]
       /\ \A i \in 1..k : draftAccepted[c][i] >= DraftWindow
  /\ comeBack[c] # Draft!Never =>
       Len(draftWindow[c]) > 0 /\ draftWindow[c][1] + comeBack[c] >= DraftWindow

LimitInv == \A c \in Draft!Customers : LimitOf(c)

LEMMA LeftLeaves ==
  ASSUME Draft!DraftingAssumption, NEW s \in Seq(0..DraftWindow)
  PROVE  /\ Draft!Left(s) \in 0..Len(s)
         /\ \A i \in 1..Draft!Left(s) : s[i] >= DraftWindow
         /\ Draft!Left(s) < Len(s) => s[Draft!Left(s) + 1] < DraftWindow
<1> DEFINE T == {i \in 1..Len(s) : s[i] < DraftWindow}
<1>1. /\ Len(s) \in Nat /\ \A i \in 1..Len(s) : s[i] \in Int
      /\ DraftWindow \in Nat
  BY DEF Draft!DraftingAssumption
<1>2. \E n \in 0..Len(s) : Draft!Leaves(s, n)
  <2> USE DEF Draft!Leaves
  <2>1. CASE T = {}
    BY <1>1, <2>1, Len(s) \in 0..Len(s)
  <2>2. CASE T # {}
    <3>1. T \in SUBSET Nat
      BY <1>1
    <3> HIDE DEF T
    <3>2. PICK n \in T : \A m \in T : n <= m
      BY <2>2, <3>1, Least
    <3> USE DEF T
    <3>3. n - 1 \in 0..Len(s) /\ s[n] < DraftWindow /\ n \in 1..Len(s)
      BY <1>1, <3>2
    <3>4. \A i \in 1..n - 1 : s[i] >= DraftWindow
      BY <1>1, <3>2, <3>3
    <3>5. Draft!Leaves(s, n - 1)
      BY <1>1, <3>3, <3>4
    <3> QED BY <3>3, <3>5
  <2> QED BY <2>1, <2>2
<1>3. Draft!Left(s) \in 0..Len(s) /\ Draft!Leaves(s, Draft!Left(s))
  BY <1>2, Zenon DEF Draft!Left
<1> QED BY <1>3 DEF Draft!Leaves

LEMMA Suffix ==
  ASSUME NEW S, NEW s \in Seq(S), NEW m \in 0..Len(s)
  PROVE  /\ SubSeq(s, m + 1, Len(s)) \in Seq(S)
         /\ Len(SubSeq(s, m + 1, Len(s))) = Len(s) - m
         /\ \A i \in 1..Len(s) - m : SubSeq(s, m + 1, Len(s))[i] = s[i + m]
<1>1. Len(s) \in Nat /\ m + 1 \in 1..Len(s) + 1 /\ \A i \in (m + 1)..Len(s) : s[i] \in S
  OBVIOUS
<1> QED BY <1>1

LEMMA Remaining ==
  ASSUME Draft!DraftingAssumption, NEW s \in Seq(0..DraftWindow)
  PROVE  /\ Draft!InWindow(s) \in Seq(0..DraftWindow)
         /\ Len(Draft!InWindow(s)) = Len(s) - Draft!Left(s)
         /\ \A i \in 1..Len(s) - Draft!Left(s) : Draft!InWindow(s)[i] = s[i + Draft!Left(s)]
BY LeftLeaves, Suffix DEF Draft!InWindow

LEMMA LimitHolds ==
  ASSUME Draft!DraftingAssumption, Draft!TypeOK, LimitInv
  PROVE  Draft!LimitKept
<1> SUFFICES ASSUME NEW c \in Draft!Customers
             PROVE  /\ Draft!Cardinality({i \in DOMAIN draftAccepted[c] : draftAccepted[c][i] < DraftWindow}) <= Limit
                    /\ comeBack[c] = 0 => Len(Draft!InWindow(draftWindow[c])) < Limit
  BY DEF Draft!LimitKept
<1> DEFINE acc == draftAccepted[c]
           win == draftWindow[c]
           young == {i \in DOMAIN acc : acc[i] < DraftWindow}
<1>1. /\ acc \in Seq(0..DraftWindow) /\ win \in Seq(0..DraftWindow) /\ Len(win) <= Limit
      /\ Limit \in Nat \ {0} /\ DraftWindow \in Nat \ {0} /\ comeBack[c] \in 0..Draft!Never
  BY DEF Draft!TypeOK, Draft!DraftingAssumption
<1>2. PICK k \in 0..Len(acc) : Len(win) = Len(acc) - k /\ \A i \in 1..k : acc[i] >= DraftWindow
  BY DEF LimitInv, LimitOf
<1>3. comeBack[c] # Draft!Never => Len(win) > 0 /\ win[1] + comeBack[c] >= DraftWindow
  BY DEF LimitInv, LimitOf
<1>4. Draft!Cardinality(young) <= Limit
  <2>1. Len(acc) \in Nat /\ DOMAIN acc = 1..Len(acc) /\ \A i \in 1..Len(acc) : acc[i] \in Int
    BY <1>1
  <2>2. young \subseteq (k + 1)..Len(acc)
    BY <1>1, <1>2, <2>1
  <2> HIDE DEF acc, win, young
  <2>3. IsFiniteSet((k + 1)..Len(acc)) /\ Cardinality((k + 1)..Len(acc)) = Len(acc) - k
    <3>1. k \in Int /\ k + 1 \in Int /\ Len(acc) \in Int /\ k <= Len(acc)
      BY <1>2, <2>1
    <3>2. /\ IsFiniteSet((k + 1)..Len(acc))
          /\ Cardinality((k + 1)..Len(acc)) = IF k + 1 > Len(acc) THEN 0 ELSE Len(acc) - (k + 1) + 1
      BY <3>1, FS_Interval
    <3> QED BY <3>1, <3>2
  <2>4. Cardinality(young) <= Len(acc) - k /\ Cardinality(young) \in Nat
    BY <2>2, <2>3, FS_Subset, FS_CardinalityType
  <2> QED BY <1>1, <1>2, <2>1, <2>4 DEF Draft!Cardinality, Cardinality
<1>5. ASSUME comeBack[c] = 0 PROVE Len(Draft!InWindow(win)) < Limit
  <2> HIDE DEF acc, win, young
  <2>1. Draft!Never # 0
    BY <1>1 DEF Draft!Never
  <2>2. Len(win) \in Nat \ {0} /\ win[1] \in Nat /\ win[1] >= DraftWindow
    BY <1>1, <1>3, <1>5, <2>1
  <2>3. Draft!Left(win) \in 0..Len(win) /\ Draft!Left(win) # 0
    <3>1. Draft!Left(win) \in 0..Len(win) /\ (Draft!Left(win) < Len(win) => win[Draft!Left(win) + 1] < DraftWindow)
      BY <1>1, LeftLeaves
    <3> QED BY <1>1, <2>2, <3>1
  <2>4. Len(Draft!InWindow(win)) = Len(win) - Draft!Left(win)
    BY <1>1, Remaining
  <2> QED BY <1>1, <2>2, <2>3, <2>4
<1> QED BY <1>4, <1>5

LEMMA Elements ==
  ASSUME NEW S, NEW s \in Seq(S), NEW i \in 1..Len(s)
  PROVE  s[i] \in S
OBVIOUS

LEMMA Appended ==
  ASSUME NEW S, NEW s \in Seq(S), NEW x \in S
  PROVE  /\ Append(s, x) \in Seq(S) /\ Len(Append(s, x)) = Len(s) + 1 /\ Len(s) \in Nat
         /\ Append(s, x)[Len(s) + 1] = x /\ \A i \in 1..Len(s) : Append(s, x)[i] = s[i]
OBVIOUS

LEMMA CustomersCount ==
  ASSUME NEW d \in Drafts
  PROVE  CustomerOf[d] \in Draft!Customers
BY DEF Draft!Customers

LimitTypes ==
  /\ server \in Servers
  /\ draftWindow \in [Draft!Customers -> Seq(0..DraftWindow)]
  /\ draftAccepted \in [Draft!Customers -> Seq(0..DraftWindow)]
  /\ \A c \in Draft!Customers : Len(draftWindow[c]) <= Limit
  /\ comeBack \in [Draft!Customers -> 0..Draft!Never]

LEMMA LimitInitially ==
  ASSUME Draft!DraftingAssumption, Draft!Init
  PROVE  LimitTypes /\ LimitInv
<1>1. Limit \in Nat \ {0} /\ DraftWindow \in Nat \ {0}
  BY DEF Draft!DraftingAssumption
<1>2. LimitTypes
  BY <1>1 DEF Draft!Init, LimitTypes, Draft!Never
<1>3. LimitInv
  <2> SUFFICES ASSUME NEW c \in Draft!Customers PROVE LimitOf(c)
    BY DEF LimitInv
  <2>1. draftAccepted[c] = << >> /\ draftWindow[c] = << >> /\ comeBack[c] = Draft!Never
    BY DEF Draft!Init
  <2> QED BY <2>1 DEF LimitOf
<1> QED BY <1>2, <1>3

LEMMA LimitAccepts ==
  ASSUME Draft!DraftingAssumption, LimitTypes, LimitInv, NEW d \in Drafts, Draft!create_draft(d)
  PROVE  LimitTypes' /\ LimitInv'
<1> DEFINE c == CustomerOf[d]
           s == draftWindow[c]
           live == Draft!InWindow(s)
           n == Draft!Left(s)
<1>0. /\ Limit \in Nat \ {0} /\ DraftWindow \in Nat \ {0} /\ c \in Draft!Customers
      /\ s \in Seq(0..DraftWindow) /\ Len(s) <= Limit
  BY CustomersCount DEF Draft!DraftingAssumption, LimitTypes
<1>1. /\ n \in 0..Len(s) /\ \A i \in 1..n : s[i] >= DraftWindow
      /\ n < Len(s) => s[n + 1] < DraftWindow
      /\ live \in Seq(0..DraftWindow) /\ Len(live) = Len(s) - n
      /\ \A i \in 1..Len(s) - n : live[i] = s[i + n]
  BY <1>0, LeftLeaves, Remaining
<1>2. PICK k \in 0..Len(draftAccepted[c]) :
        /\ Len(s) = Len(draftAccepted[c]) - k
        /\ \A i \in 1..Len(s) : s[i] = draftAccepted[c][i + k]
        /\ \A i \in 1..k : draftAccepted[c][i] >= DraftWindow
  BY <1>0 DEF LimitInv, LimitOf
<1>3. draftAccepted[c] \in Seq(0..DraftWindow) /\ Len(draftAccepted[c]) \in Nat /\ Len(s) \in Nat
  BY <1>0 DEF LimitTypes
\* What has left the window has left what was accepted, too.
<1>4. /\ k + n \in 0..Len(draftAccepted[c]) /\ Len(live) = Len(draftAccepted[c]) - (k + n)
      /\ \A i \in 1..Len(live) : live[i] = draftAccepted[c][i + (k + n)]
      /\ \A i \in 1..k + n : draftAccepted[c][i] >= DraftWindow
  <2>1. \A i \in 1..Len(live) : live[i] = draftAccepted[c][i + (k + n)]
    <3> TAKE i \in 1..Len(live)
    <3>1. live[i] = s[i + n] /\ i + n \in 1..Len(s) /\ (i + n) + k = i + (k + n)
      <4>1. n \in 0..Len(s) /\ Len(live) = Len(s) - n /\ Len(s) \in Nat /\ k \in Nat /\ i \in 1..Len(s) - n
        BY <1>1, <1>3
      <4>2. live[i] = s[i + n]
        BY <1>1, <4>1
      <4> HIDE DEF live, n, s, c
      <4>3. i + n \in 1..Len(s) /\ (i + n) + k = i + (k + n)
        BY <4>1
      <4> QED BY <4>2, <4>3
    <3> QED BY <1>2, <3>1
  <2>2. \A i \in 1..k + n : draftAccepted[c][i] >= DraftWindow
    <3> TAKE i \in 1..k + n
    <3>1. CASE i <= k
      BY <1>2, <3>1
    <3>2. CASE i > k
      <4>1. i - k \in 1..n /\ i - k \in 1..Len(s) /\ (i - k) + k = i
        BY <3>2, <1>1, <1>2, <1>3
      <4> QED BY <4>1, <1>1, <1>2
    <3> QED BY <3>1, <3>2, <1>1, <1>2
  <2> QED BY <2>1, <2>2, <1>1, <1>2, <1>3
<1> HIDE DEF live, n, c, s
<1>5. ASSUME NEW b \in Draft!Customers, b # c
      PROVE  /\ LimitOf(b)'
             /\ draftWindow'[b] = draftWindow[b] /\ draftAccepted'[b] = draftAccepted[b] /\ comeBack'[b] = comeBack[b]
  <2>1. draftWindow'[b] = draftWindow[b] /\ draftAccepted'[b] = draftAccepted[b] /\ comeBack'[b] = comeBack[b]
    BY <1>5 DEF Draft!create_draft, LimitTypes, c
  <2> QED BY <2>1, <1>5 DEF LimitInv, LimitOf
<1>6. CASE Len(live) < Limit
  <2>1. /\ draftWindow' = [draftWindow EXCEPT ![c] = Append(live, 0)]
        /\ draftAccepted' = [draftAccepted EXCEPT ![c] = Append(draftAccepted[c], 0)]
        /\ comeBack' = [comeBack EXCEPT ![c] = Draft!Never] /\ server' = server
    BY <1>6 DEF Draft!create_draft, c, live, s
  <2> DEFINE win == Append(live, 0)
             acc == Append(draftAccepted[c], 0)
  <2>2. /\ win \in Seq(0..DraftWindow) /\ Len(win) = Len(live) + 1 /\ win[Len(live) + 1] = 0
        /\ \A i \in 1..Len(live) : win[i] = live[i]
    <3>1. 0 \in 0..DraftWindow
      BY <1>0
    <3> QED BY <1>1, <3>1, Appended
  <2>3. /\ acc \in Seq(0..DraftWindow) /\ Len(acc) = Len(draftAccepted[c]) + 1 /\ acc[Len(draftAccepted[c]) + 1] = 0
        /\ \A i \in 1..Len(draftAccepted[c]) : acc[i] = draftAccepted[c][i]
    <3>1. 0 \in 0..DraftWindow
      BY <1>0
    <3> QED BY <1>3, <3>1, Appended
  <2> HIDE DEF win, acc
  <2>4. draftWindow'[c] = win /\ draftAccepted'[c] = acc /\ comeBack'[c] = Draft!Never
    BY <1>0, <2>1 DEF LimitTypes, win, acc
  <2>5. /\ Len(live) \in Nat /\ k + n \in Nat /\ k + n \in 0..Len(acc) /\ Len(win) = Len(acc) - (k + n)
    <3>1. /\ k + n \in 0..Len(draftAccepted[c]) /\ Len(live) = Len(draftAccepted[c]) - (k + n)
          /\ Len(draftAccepted[c]) \in Nat
          /\ Len(win) = Len(live) + 1 /\ Len(acc) = Len(draftAccepted[c]) + 1
      BY <1>3, <1>4, <2>2, <2>3
    <3> HIDE DEF LimitOf
    <3> QED BY <3>1
  <2>6. \A i \in 1..Len(win) : win[i] = acc[i + (k + n)]
    <3> TAKE i \in 1..Len(win)
    <3>0. Len(live) = Len(draftAccepted[c]) - (k + n) /\ Len(draftAccepted[c]) \in Nat
      BY <1>3, <1>4
    <3>1. CASE i \in 1..Len(live)
      <4>1. live[i] = draftAccepted[c][i + (k + n)] /\ win[i] = live[i] /\ i + (k + n) \in 1..Len(draftAccepted[c])
        BY <1>4, <2>2, <2>5, <3>0, <3>1
      <4> QED BY <2>3, <4>1
    <3>2. CASE i = Len(live) + 1
      <4>1. i + (k + n) = Len(draftAccepted[c]) + 1
        BY <2>5, <3>0, <3>2
      <4> QED BY <2>2, <2>3, <3>2, <4>1
    <3> QED BY <2>2, <2>5, <3>1, <3>2
  <2>7. \A i \in 1..k + n : acc[i] >= DraftWindow
    <3> TAKE i \in 1..k + n
    <3>1. i \in 1..Len(draftAccepted[c]) /\ draftAccepted[c][i] >= DraftWindow
      BY <1>3, <1>4, <2>5
    <3> QED BY <2>3, <3>1
  <2>8. LimitOf(c)'
    BY <2>4, <2>5, <2>6, <2>7 DEF LimitOf, Draft!Never
  <2>9. LimitTypes'
    <3>1. /\ draftWindow' \in [Draft!Customers -> Seq(0..DraftWindow)]
          /\ draftAccepted' \in [Draft!Customers -> Seq(0..DraftWindow)]
      BY <1>0, <2>1, <2>2, <2>3 DEF LimitTypes, win, acc
    <3>2. comeBack' \in [Draft!Customers -> 0..Draft!Never]
      BY <1>0, <2>1 DEF LimitTypes, Draft!Never
    <3>3. \A b \in Draft!Customers : Len(draftWindow'[b]) <= Limit
      <4>1. Len(draftWindow'[c]) <= Limit
        BY <1>0, <1>6, <2>2, <2>4, <2>5
      <4> QED BY <1>5, <4>1 DEF LimitTypes
    <3> QED BY <2>1, <3>1, <3>2, <3>3 DEF LimitTypes
  <2> QED BY <1>5, <2>8, <2>9 DEF LimitInv
<1>7. CASE ~(Len(live) < Limit)
  <2>1. /\ draftWindow' = [draftWindow EXCEPT ![c] = live] /\ draftAccepted' = draftAccepted
        /\ comeBack' = [comeBack EXCEPT ![c] = Draft!RetryAfter(live)] /\ server' = server
    BY <1>7 DEF Draft!create_draft, c, live, s
  <2>2. Len(live) \in Nat \ {0} /\ n < Len(s) /\ live[1] = s[1 + n] /\ live[1] < DraftWindow
    BY <1>0, <1>1, <1>3, <1>7
  <2>3. live[1] \in 0..DraftWindow /\ Draft!RetryAfter(live) = DraftWindow - live[1]
    <3>1. \A i \in 1..Len(live) : live[i] \in 0..DraftWindow
      BY <1>1, Elements
    <3> QED BY <2>2, <3>1 DEF Draft!RetryAfter
  <2>4. draftWindow'[c] = live /\ draftAccepted'[c] = draftAccepted[c] /\ comeBack'[c] = DraftWindow - live[1]
    BY <1>0, <2>1, <2>3 DEF LimitTypes
  <2>5. LimitOf(c)'
    <3>1. Len(live) > 0 /\ live[1] + (DraftWindow - live[1]) >= DraftWindow
      BY <1>0, <2>2, <2>3
    <3> QED BY <1>4, <2>4, <3>1 DEF LimitOf
  <2>6. LimitTypes'
    <3>1. draftWindow' \in [Draft!Customers -> Seq(0..DraftWindow)]
      BY <1>0, <1>1, <2>1 DEF LimitTypes
    <3>2. comeBack' \in [Draft!Customers -> 0..Draft!Never]
      BY <1>0, <2>1, <2>3 DEF LimitTypes, Draft!Never
    <3>3. \A b \in Draft!Customers : Len(draftWindow'[b]) <= Limit
      <4>1. Len(draftWindow'[c]) <= Limit
        BY <1>0, <1>1, <1>3, <2>4
      <4> QED BY <1>5, <4>1 DEF LimitTypes
    <3> QED BY <2>1, <3>1, <3>2, <3>3 DEF LimitTypes
  <2> QED BY <1>5, <2>5, <2>6 DEF LimitInv
<1> QED BY <1>6, <1>7

LEMMA LimitTicks ==
  ASSUME Draft!DraftingAssumption, LimitTypes, LimitInv, Draft!Tick
  PROVE  LimitTypes' /\ LimitInv'
<1>0. DraftWindow \in Nat \ {0} /\ Limit \in Nat
  BY DEF Draft!DraftingAssumption
<1>1. ASSUME NEW s \in Seq(0..DraftWindow)
      PROVE  /\ Draft!Older(s) \in Seq(0..DraftWindow) /\ Len(Draft!Older(s)) = Len(s)
             /\ \A i \in 1..Len(s) : Draft!Older(s)[i] = Draft!Capped(s[i], DraftWindow) /\ s[i] \in 0..DraftWindow
  <2>1. Len(s) \in Nat /\ \A i \in 1..Len(s) : s[i] \in 0..DraftWindow
    BY <1>0
  <2>2. \A i \in 1..Len(s) : Draft!Capped(s[i], DraftWindow) \in 0..DraftWindow
    BY <1>0, <2>1 DEF Draft!Capped
  <2> QED BY <2>1, <2>2 DEF Draft!Older
<1>2. ASSUME NEW c \in Draft!Customers
      PROVE  /\ LimitOf(c)'
             /\ draftWindow'[c] \in Seq(0..DraftWindow) /\ draftAccepted'[c] \in Seq(0..DraftWindow)
             /\ Len(draftWindow'[c]) <= Limit /\ comeBack'[c] \in 0..Draft!Never
  <2> DEFINE win == draftWindow[c]
             acc == draftAccepted[c]
  <2>1. win \in Seq(0..DraftWindow) /\ acc \in Seq(0..DraftWindow) /\ Len(win) <= Limit /\ comeBack[c] \in 0..Draft!Never
    BY DEF LimitTypes
  <2>2. /\ draftWindow'[c] = Draft!Older(win) /\ draftAccepted'[c] = Draft!Older(acc)
        /\ comeBack'[c] = IF comeBack[c] \in {0, Draft!Never} THEN comeBack[c] ELSE comeBack[c] - 1
    BY DEF Draft!Tick
  <2>3. PICK k \in 0..Len(acc) :
          /\ Len(win) = Len(acc) - k
          /\ \A i \in 1..Len(win) : win[i] = acc[i + k]
          /\ \A i \in 1..k : acc[i] >= DraftWindow
    BY DEF LimitInv, LimitOf
  <2>4. comeBack[c] # Draft!Never => Len(win) > 0 /\ win[1] + comeBack[c] >= DraftWindow
    BY DEF LimitInv, LimitOf
  <2> HIDE DEF win, acc
  <2>5. Len(win) \in Nat /\ Len(acc) \in Nat /\ Draft!Never = DraftWindow + 1
    BY <2>1 DEF Draft!Never
  <2>6. /\ Draft!Older(win) \in Seq(0..DraftWindow) /\ Len(Draft!Older(win)) = Len(win)
        /\ \A i \in 1..Len(win) : Draft!Older(win)[i] = Draft!Capped(win[i], DraftWindow) /\ win[i] \in 0..DraftWindow
    BY <1>1, <2>1
  <2>7. /\ Draft!Older(acc) \in Seq(0..DraftWindow) /\ Len(Draft!Older(acc)) = Len(acc)
        /\ \A i \in 1..Len(acc) : Draft!Older(acc)[i] = Draft!Capped(acc[i], DraftWindow) /\ acc[i] \in 0..DraftWindow
    BY <1>1, <2>1
  <2>8. \A i \in 1..Len(win) : Draft!Older(win)[i] = Draft!Older(acc)[i + k]
    <3> TAKE i \in 1..Len(win)
    <3>1. i + k \in 1..Len(acc)
      BY <2>3, <2>5
    <3>2. Draft!Older(win)[i] = Draft!Capped(win[i], DraftWindow)
      BY <2>6
    <3>3. Draft!Older(acc)[i + k] = Draft!Capped(acc[i + k], DraftWindow)
      BY <2>7, <3>1
    <3> QED BY <2>3, <3>2, <3>3
  <2>9. \A i \in 1..k : Draft!Older(acc)[i] >= DraftWindow
    <3> TAKE i \in 1..k
    <3>1. i \in 1..Len(acc)
      BY <2>5
    <3>2. Draft!Older(acc)[i] = Draft!Capped(acc[i], DraftWindow) /\ acc[i] \in 0..DraftWindow
      BY <2>7, <3>1
    <3>3. acc[i] >= DraftWindow
      BY <2>3
    <3> QED BY <1>0, <3>2, <3>3 DEF Draft!Capped
  <2>10. comeBack'[c] \in 0..Draft!Never
    BY <1>0, <2>1, <2>2, <2>5
  <2>11. ASSUME comeBack'[c] # Draft!Never
         PROVE  Len(win) > 0 /\ Draft!Older(win)[1] + comeBack'[c] >= DraftWindow
    <3>1. Len(win) > 0 /\ win[1] + comeBack[c] >= DraftWindow /\ win[1] \in 0..DraftWindow
      BY <1>0, <2>1, <2>2, <2>4, <2>5, <2>6, <2>11
    <3>2. Draft!Older(win)[1] = Draft!Capped(win[1], DraftWindow)
      BY <2>5, <2>6, <3>1
    <3> QED BY <1>0, <2>1, <2>2, <2>5, <3>1, <3>2 DEF Draft!Capped
  <2>12. LimitOf(c)'
    BY <2>2, <2>3, <2>6, <2>7, <2>8, <2>9, <2>11 DEF LimitOf, Draft!Never
  <2> QED BY <2>1, <2>2, <2>6, <2>7, <2>10, <2>12
<1>3. LimitTypes'
  <2>1. /\ draftWindow' = [c \in Draft!Customers |-> draftWindow'[c]]
        /\ draftAccepted' = [c \in Draft!Customers |-> draftAccepted'[c]]
        /\ comeBack' = [c \in Draft!Customers |-> comeBack'[c]] /\ server' = server
    BY DEF Draft!Tick
  <2> QED BY <1>2, <2>1 DEF LimitTypes, Draft!Never
<1> QED BY <1>2, <1>3 DEF LimitInv

-----------------------------------------------------------------------------
(* Who waits, and for what.                                                *)
DraftTypes ==
  /\ caller \in [Draft!Askers -> {"none", "waiting", "limited", "timeout", "answered"}]
  /\ draftAge \in [Draft!Askers -> Nat]
  /\ \A x \in Draft!Askers : draftAge[x] <= Draft!Patience(x) + 1
  /\ waited \in [Draft!Callers -> Nat]
  /\ \A x \in Draft!Callers : waited[x] <= Draft!Wait(x)
  /\ draftJob \in [Draft!Jobs -> {"none", "queued", "running", "asks", "done"}]
  /\ call \in [Draft!Callers -> {"none", "queued", "running", "json", "unusable", "dropped"}]
  /\ reading \in [Draft!Callers -> {"none", "llm", "fallback"}]

DraftQueues ==
  /\ queue \in Seq(Draft!Jobs) /\ Draft!IsInjective(queue)
  /\ Draft!Range(queue) = {j \in Draft!Jobs : draftJob[j] = "queued"}
  /\ calls \in Seq(Draft!Callers) /\ Draft!IsInjective(calls)
  /\ Draft!Range(calls) = {x \in Draft!Callers : call[x] = "queued"}
  /\ Draft!QueuesAreWanted

DraftThreads ==
  /\ Draft!Cardinality(Draft!Busy) <= Draft!Threads
  /\ Draft!Cardinality(Draft!Calling) <= PoolSize

(* Nothing is done for who has not asked, nor asked of the model before    *)
(* the compiler does; a draft that asks has a call.                        *)
DraftTurn ==
  /\ \A j \in Draft!Jobs : caller[j] = "none" => draftJob[j] = "none" /\ draftAge[j] = 0
  /\ \A f \in Facts : caller[f] = "none" => call[f] = "none"
  /\ \A d \in Drafts : draftJob[d] \in {"none", "queued"} => reading[d] = "none"
  /\ \A d \in Drafts :
       draftJob[d] \in {"none", "queued", "running"} /\ reading[d] = "none" => call[d] = "none" /\ waited[d] = 0
  /\ \A d \in Drafts : draftJob[d] = "asks" => call[d] \in {"queued", "running", "json", "unusable"}

(* A draft that has a thread waits for the model no longer than the        *)
(* compiler does.                                                          *)
DraftGoesOn(d) ==
  \/ draftJob[d] = "queued" /\ draftAge[d] = 0
  \/ draftJob[d] = "running" /\ reading[d] = "none" /\ draftAge[d] = 0
  \/ draftJob[d] = "asks" /\ draftAge[d] = waited[d]
  \/ draftJob[d] = "running" /\ reading[d] # "none" /\ draftAge[d] <= ReadTime
DraftInTime(d) == caller[d] # "timeout" /\ (caller[d] = "waiting" => DraftGoesOn(d))
DraftsInTime == Draft!Cardinality(Draft!Given) <= Draft!Threads => \A d \in Drafts : DraftInTime(d)

DraftInv == LimitTypes /\ LimitInv /\ DraftTypes /\ DraftQueues /\ DraftThreads /\ DraftTurn /\ DraftsInTime

(* The sets of those who ask, for what, and how long they wait. *)
LEMMA DraftSets ==
  ASSUME Draft!DraftingAssumption
  PROVE  /\ Draft!Callers = Drafts \cup Facts /\ Draft!Jobs = Drafts \cup Restores
         /\ Draft!Askers = Draft!Callers \cup Draft!Jobs
         /\ Drafts \cap Facts = {} /\ Restores \cap (Drafts \cup Facts) = {}
         /\ {PoolSize, ReadTime, DraftTime, FactTime, DecideTime} \subseteq Nat \ {0} /\ ReadTime < DraftTime
         /\ Facts \cap Draft!Jobs = {}
         /\ \A x \in Draft!Askers : Draft!Patience(x) \in Nat \ {0}
         /\ \A x \in Draft!Callers : Draft!Wait(x) \in Nat \ {0}
         /\ \A d \in Drafts : Draft!Patience(d) = DraftTime /\ Draft!Wait(d) = ReadTime
BY DEF Draft!DraftingAssumption, Draft!Callers, Draft!Jobs, Draft!Askers, Draft!Patience, Draft!Wait

(* A job that was given stays so. *)
LEMMA GivenStays ==
  ASSUME DraftFinite, server' = server,
         \A j \in Draft!Jobs : draftJob[j] # "none" => draftJob'[j] # "none",
         Draft!Threads \in Nat, (Draft!Cardinality(Draft!Given) <= Draft!Threads)'
  PROVE  Draft!Cardinality(Draft!Given) <= Draft!Threads
<1>1. IsFiniteSet(Draft!Jobs)
  BY FS_Union DEF DraftFinite, Draft!Jobs
<1>2. Draft!Given \in SUBSET Draft!Given' /\ Draft!Given' \in SUBSET Draft!Jobs
  BY DEF Draft!Given
<1>3. IsFiniteSet(Draft!Given')
  BY <1>1, <1>2, FS_Subset
<1>4. Draft!Cardinality(Draft!Given) \in Nat /\ Draft!Cardinality(Draft!Given) <= Draft!Cardinality(Draft!Given')
  BY <1>2, <1>3, NoMore
<1>5. Draft!Cardinality(Draft!Given') \in Nat
  BY <1>3, NoMore
<1>6. Draft!Threads' = Draft!Threads /\ Draft!Cardinality(Draft!Given') <= Draft!Threads
  BY DEF Draft!Threads
<1> QED BY <1>4, <1>5, <1>6

(* Where no thread takes anything up, none has more to do. *)
LEMMA ThreadsStay ==
  ASSUME DraftFinite, DraftThreads, server' = server, Draft!Threads \in Nat, PoolSize \in Nat,
         Draft!Busy' \subseteq Draft!Busy, Draft!Calling' \subseteq Draft!Calling
  PROVE  DraftThreads'
<1>1. IsFiniteSet(Draft!Busy) /\ IsFiniteSet(Draft!Calling)
  <2>1. IsFiniteSet(Draft!Jobs) /\ IsFiniteSet(Draft!Callers)
    BY FS_Union DEF DraftFinite, Draft!Jobs, Draft!Callers
  <2> QED BY <2>1, FS_Subset DEF Draft!Busy, Draft!Calling
<1>2. /\ Draft!Cardinality(Draft!Busy') \in Nat /\ Draft!Cardinality(Draft!Busy') <= Draft!Cardinality(Draft!Busy)
      /\ Draft!Cardinality(Draft!Busy) \in Nat
  BY <1>1, NoMore
<1>3. /\ Draft!Cardinality(Draft!Calling') \in Nat /\ Draft!Cardinality(Draft!Calling') <= Draft!Cardinality(Draft!Calling)
      /\ Draft!Cardinality(Draft!Calling) \in Nat
  BY <1>1, NoMore
<1>4. Draft!Threads' = Draft!Threads
  BY DEF Draft!Threads
<1> QED BY <1>2, <1>3, <1>4 DEF DraftThreads

LEMMA LimitStays ==
  ASSUME LimitTypes, LimitInv, UNCHANGED <<server, draftAccepted, draftWindow, comeBack>>
  PROVE  LimitTypes' /\ LimitInv'
BY DEF LimitTypes, LimitInv, LimitOf, Draft!Customers, Draft!Never

LEMMA DraftInitially ==
  ASSUME Draft!DraftingAssumption, Draft!Init
  PROVE  DraftInv
<1>1. LimitTypes /\ LimitInv
  BY LimitInitially
<1>2. DraftTypes /\ DraftTurn
  BY DraftSets DEF Draft!Init, DraftTypes, DraftTurn
<1>3. DraftQueues
  BY DraftSets DEF Draft!Init, DraftQueues, Draft!QueuesAreWanted, Draft!IsInjective, Draft!Range
<1>4. DraftThreads
  <2>1. Draft!Busy = {} /\ Draft!Calling = {}
    BY DEF Draft!Init, Draft!Busy, Draft!Calling
  <2>2. Draft!Cardinality({}) = 0
    BY FS_EmptySet DEF Draft!Cardinality, Cardinality
  <2>3. Draft!Threads \in Nat /\ PoolSize \in Nat
    BY <1>1 DEF LimitTypes, Draft!Threads, Draft!DraftingAssumption
  <2> QED BY <2>1, <2>2, <2>3 DEF DraftThreads
<1>5. DraftsInTime
  BY DraftSets DEF Draft!Init, DraftsInTime, DraftInTime
<1> QED BY <1>1, <1>2, <1>3, <1>4, <1>5 DEF DraftInv

LEMMA InTimeStays ==
  ASSUME DraftFinite, LimitTypes, Draft!DraftingAssumption, DraftsInTime, server' = server,
         \A j \in Draft!Jobs : draftJob[j] # "none" => draftJob'[j] # "none",
         \A d \in Drafts : DraftInTime(d) => DraftInTime(d)'
  PROVE  DraftsInTime'
<1>1. Draft!Threads \in Nat
  BY DEF LimitTypes, Draft!Threads, Draft!DraftingAssumption
<1> SUFFICES ASSUME (Draft!Cardinality(Draft!Given) <= Draft!Threads)' PROVE \A d \in Drafts : DraftInTime(d)'
  BY DEF DraftsInTime
<1>2. Draft!Cardinality(Draft!Given) <= Draft!Threads
  BY <1>1, GivenStays
<1> QED BY <1>2 DEF DraftsInTime

LEMMA DraftNumbers ==
  ASSUME Draft!DraftingAssumption, LimitTypes
  PROVE  Draft!Threads \in Nat /\ PoolSize \in Nat
BY DEF LimitTypes, Draft!Threads, Draft!DraftingAssumption

LEMMA JobStartsKeeps ==
  ASSUME Draft!DraftingAssumption, DraftFinite, DraftInv, Draft!JobStarts
  PROVE  DraftInv'
<1> DEFINE h == Head(queue)
<1>1. /\ queue # << >> /\ Draft!Cardinality(Draft!Busy) < Draft!Threads
      /\ draftJob' = [draftJob EXCEPT ![h] = "running"] /\ queue' = Tail(queue)
      /\ UNCHANGED <<server, draftAccepted, draftWindow, comeBack, caller, draftAge, calls, call, waited, reading>>
  BY DEF Draft!JobStarts, Draft!limits
<1>2. /\ h \in Draft!Jobs /\ draftJob[h] = "queued"
      /\ queue' \in Seq(Draft!Jobs) /\ Draft!IsInjective(queue') /\ Draft!Range(queue') = Draft!Range(queue) \ {h}
  <2>1. queue \in Seq(Draft!Jobs) /\ Draft!IsInjective(queue)
    BY DEF DraftInv, DraftQueues
  <2>2. h \in Draft!Jobs /\ h \in Draft!Range(queue)
    BY <1>1, <2>1, TakenFirst
  <2> QED BY <1>1, <2>1, <2>2, TakenFirst DEF DraftInv, DraftQueues
<1>3. \A j \in Draft!Jobs : draftJob'[j] = IF j = h THEN "running" ELSE draftJob[j]
  BY <1>1 DEF DraftInv, DraftTypes
<1> HIDE DEF h
<1>4. LimitTypes' /\ LimitInv'
  BY <1>1, LimitStays DEF DraftInv
<1>5. DraftTypes'
  BY <1>1 DEF DraftInv, DraftTypes
<1>6. DraftQueues'
  <2>1. Draft!Range(queue') = {j \in Draft!Jobs : draftJob'[j] = "queued"}
    BY <1>2, <1>3 DEF DraftInv, DraftQueues
  <2>2. Draft!QueuesAreWanted'
    BY <1>1, <1>2, <1>3, DraftSets DEF DraftInv, DraftQueues, Draft!QueuesAreWanted, Draft!Asking
  <2> QED BY <1>1, <1>2, <2>1, <2>2 DEF DraftInv, DraftQueues
<1>7. DraftThreads'
  <2>1. Draft!Busy' = Draft!Busy \cup {h} /\ Draft!Calling' = Draft!Calling /\ Draft!Threads' = Draft!Threads
    BY <1>1, <1>2, <1>3 DEF Draft!Busy, Draft!Calling, Draft!Threads
  <2>2. IsFiniteSet(Draft!Jobs)
    BY FS_Union DEF DraftFinite, Draft!Jobs
  <2>3. Draft!Busy \in SUBSET Draft!Jobs
    BY DEF Draft!Busy
  <2>4. Draft!Cardinality(Draft!Busy \cup {h}) <= Draft!Threads
    BY <1>1, <1>2, <2>2, <2>3, DraftNumbers, RoomForOne DEF DraftInv
  <2> QED BY <2>1, <2>4 DEF DraftInv, DraftThreads
<1>8. DraftTurn'
  BY <1>1, <1>2, <1>3, DraftSets DEF DraftInv, DraftTurn
<1>9. DraftsInTime'
  <2>1. \A d \in Drafts : DraftInTime(d) => DraftInTime(d)'
    BY <1>1, <1>2, <1>3, DraftSets DEF DraftInv, DraftTurn, DraftInTime, DraftGoesOn
  <2> QED BY <1>1, <1>3, <2>1, InTimeStays DEF DraftInv
<1> QED BY <1>4, <1>5, <1>6, <1>7, <1>8, <1>9 DEF DraftInv

LEMMA CallStartsKeeps ==
  ASSUME Draft!DraftingAssumption, DraftFinite, DraftInv, Draft!CallStarts
  PROVE  DraftInv'
<1> DEFINE h == Head(calls)
<1>1. /\ calls # << >> /\ Draft!Cardinality(Draft!Calling) < PoolSize
      /\ call' = [call EXCEPT ![h] = "running"] /\ calls' = Tail(calls)
      /\ UNCHANGED <<server, draftAccepted, draftWindow, comeBack, caller, draftAge, queue, draftJob, waited, reading>>
  BY DEF Draft!CallStarts, Draft!limits
<1>2. /\ h \in Draft!Callers /\ call[h] = "queued"
      /\ calls' \in Seq(Draft!Callers) /\ Draft!IsInjective(calls') /\ Draft!Range(calls') = Draft!Range(calls) \ {h}
  <2>1. calls \in Seq(Draft!Callers) /\ Draft!IsInjective(calls)
    BY DEF DraftInv, DraftQueues
  <2>2. h \in Draft!Callers /\ h \in Draft!Range(calls)
    BY <1>1, <2>1, TakenFirst
  <2> QED BY <1>1, <2>1, <2>2, TakenFirst DEF DraftInv, DraftQueues
<1>3. \A x \in Draft!Callers : call'[x] = IF x = h THEN "running" ELSE call[x]
  BY <1>1 DEF DraftInv, DraftTypes
<1> HIDE DEF h
<1>4. LimitTypes' /\ LimitInv'
  BY <1>1, LimitStays DEF DraftInv
<1>5. DraftTypes'
  BY <1>1 DEF DraftInv, DraftTypes
<1>6. DraftQueues'
  <2>1. Draft!Range(calls') = {x \in Draft!Callers : call'[x] = "queued"}
    BY <1>2, <1>3 DEF DraftInv, DraftQueues
  <2>2. Draft!QueuesAreWanted'
    BY <1>1, <1>2, DraftSets DEF DraftInv, DraftQueues, Draft!QueuesAreWanted, Draft!Asking
  <2> QED BY <1>1, <1>2, <2>1, <2>2 DEF DraftInv, DraftQueues
<1>7. DraftThreads'
  <2>1. Draft!Calling' = Draft!Calling \cup {h} /\ Draft!Busy' = Draft!Busy /\ Draft!Threads' = Draft!Threads
    BY <1>1, <1>2, <1>3 DEF Draft!Busy, Draft!Calling, Draft!Threads
  <2>2. IsFiniteSet(Draft!Callers)
    BY FS_Union DEF DraftFinite, Draft!Callers
  <2>3. Draft!Calling \in SUBSET Draft!Callers
    BY DEF Draft!Calling
  <2>4. Draft!Cardinality(Draft!Calling \cup {h}) <= PoolSize
    BY <1>1, <1>2, <2>2, <2>3, DraftNumbers, RoomForOne DEF DraftInv
  <2> QED BY <2>1, <2>4 DEF DraftInv, DraftThreads
<1>8. DraftTurn'
  BY <1>1, <1>2, <1>3, DraftSets DEF DraftInv, DraftTurn
<1>9. DraftsInTime'
  <2>1. \A d \in Drafts : DraftInTime(d) => DraftInTime(d)'
    BY <1>1 DEF DraftInTime, DraftGoesOn
  <2> QED BY <1>1, <2>1, InTimeStays DEF DraftInv
<1> QED BY <1>4, <1>5, <1>6, <1>7, <1>8, <1>9 DEF DraftInv

LEMMA DraftAccepted ==
  ASSUME Draft!DraftingAssumption, DraftFinite, DraftInv, NEW d \in Drafts, Draft!create_draft(d)
  PROVE  DraftInv'
<1>1. /\ caller[d] = "none" /\ UNCHANGED <<server, draftAge, calls, call, waited, reading>>
      /\ \/ /\ caller' = [caller EXCEPT ![d] = "waiting"]
            /\ draftJob' = [draftJob EXCEPT ![d] = "queued"] /\ queue' = Append(queue, d)
         \/ /\ caller' = [caller EXCEPT ![d] = "limited"]
            /\ UNCHANGED <<draftJob, queue>>
  BY DEF Draft!create_draft
<1>2. LimitTypes' /\ LimitInv'
  BY LimitAccepts DEF DraftInv
<1>3. d \in Draft!Jobs /\ d \in Draft!Askers /\ draftJob[d] = "none" /\ draftAge[d] = 0 /\ d \notin Draft!Range(queue)
  BY <1>1, DraftSets DEF DraftInv, DraftTurn, DraftQueues
<1>4. CASE UNCHANGED <<draftJob, queue>> /\ caller' = [caller EXCEPT ![d] = "limited"]
  <2>1. \A x \in Draft!Askers : caller'[x] = IF x = d THEN "limited" ELSE caller[x]
    BY <1>4 DEF DraftInv, DraftTypes
  <2>2. DraftTypes'
    BY <1>1, <1>4 DEF DraftInv, DraftTypes
  <2>3. DraftQueues'
    <3>1. Draft!QueuesAreWanted'
      BY <1>1, <1>3, <1>4, <2>1, DraftSets DEF DraftInv, DraftQueues, Draft!QueuesAreWanted, Draft!Asking
    <3> QED BY <1>1, <1>4, <3>1 DEF DraftInv, DraftQueues
  <2>4. DraftThreads'
    BY <1>1, <1>4 DEF DraftInv, DraftThreads, Draft!Busy, Draft!Calling, Draft!Threads
  <2>5. DraftTurn'
    BY <1>1, <1>4, <2>1, DraftSets DEF DraftInv, DraftTurn
  <2>6. DraftsInTime'
    <3>1. \A e \in Drafts : DraftInTime(e) => DraftInTime(e)'
      BY <1>1, <1>4, <2>1, DraftSets DEF DraftInTime, DraftGoesOn
    <3> QED BY <1>1, <1>4, <3>1, InTimeStays DEF DraftInv
  <2> QED BY <1>2, <2>2, <2>3, <2>4, <2>5, <2>6 DEF DraftInv
<1>5. CASE /\ caller' = [caller EXCEPT ![d] = "waiting"]
           /\ draftJob' = [draftJob EXCEPT ![d] = "queued"] /\ queue' = Append(queue, d)
  <2>1. /\ \A x \in Draft!Askers : caller'[x] = IF x = d THEN "waiting" ELSE caller[x]
        /\ \A j \in Draft!Jobs : draftJob'[j] = IF j = d THEN "queued" ELSE draftJob[j]
    BY <1>5 DEF DraftInv, DraftTypes
  <2>2. DraftTypes'
    BY <1>1, <1>5 DEF DraftInv, DraftTypes
  <2>3. /\ queue' \in Seq(Draft!Jobs) /\ Draft!IsInjective(queue')
        /\ Draft!Range(queue') = Draft!Range(queue) \cup {d}
    BY <1>3, <1>5, PutAtTheEnd DEF DraftInv, DraftQueues
  <2>4. DraftQueues'
    <3>1. Draft!Range(queue') = {j \in Draft!Jobs : draftJob'[j] = "queued"}
      BY <1>3, <2>1, <2>3 DEF DraftInv, DraftQueues
    <3>2. Draft!QueuesAreWanted'
      BY <1>1, <1>3, <2>1, <2>3, DraftSets DEF DraftInv, DraftQueues, Draft!QueuesAreWanted, Draft!Asking
    <3> QED BY <1>1, <2>3, <3>1, <3>2 DEF DraftInv, DraftQueues
  <2>5. DraftThreads'
    <3>1. Draft!Busy' \subseteq Draft!Busy /\ Draft!Calling' \subseteq Draft!Calling
      BY <1>1, <2>1 DEF Draft!Busy, Draft!Calling
    <3> QED BY <1>1, <3>1, ThreadsStay, DraftNumbers DEF DraftInv
  <2>6. DraftTurn'
    BY <1>1, <1>3, <2>1, DraftSets DEF DraftInv, DraftTurn
  <2>7. DraftsInTime'
    <3>1. \A e \in Drafts : DraftInTime(e) => DraftInTime(e)'
      BY <1>1, <1>3, <2>1, DraftSets DEF DraftInTime, DraftGoesOn
    <3> QED BY <1>1, <2>1, <3>1, InTimeStays DEF DraftInv
  <2> QED BY <1>2, <2>2, <2>4, <2>5, <2>6, <2>7 DEF DraftInv
<1> QED BY <1>1, <1>4, <1>5

LEMMA PolicyAsked ==
  ASSUME Draft!DraftingAssumption, DraftFinite, DraftInv, NEW r \in Restores, Draft!_restore_policy(r)
  PROVE  DraftInv'
<1>1. /\ caller[r] = "none" /\ caller' = [caller EXCEPT ![r] = "waiting"]
      /\ draftJob' = [draftJob EXCEPT ![r] = "queued"] /\ queue' = Append(queue, r)
      /\ UNCHANGED <<server, draftAccepted, draftWindow, comeBack, draftAge, calls, call, waited, reading>>
  BY DEF Draft!_restore_policy, Draft!limits
<1>2. r \in Draft!Jobs /\ r \in Draft!Askers /\ draftJob[r] = "none" /\ r \notin Draft!Range(queue)
  BY <1>1, DraftSets DEF DraftInv, DraftTurn, DraftQueues
<1>3. /\ \A x \in Draft!Askers : caller'[x] = IF x = r THEN "waiting" ELSE caller[x]
      /\ \A j \in Draft!Jobs : draftJob'[j] = IF j = r THEN "queued" ELSE draftJob[j]
      /\ queue' \in Seq(Draft!Jobs) /\ Draft!IsInjective(queue')
      /\ Draft!Range(queue') = Draft!Range(queue) \cup {r}
  <2>1. /\ queue' \in Seq(Draft!Jobs) /\ Draft!IsInjective(queue')
        /\ Draft!Range(queue') = Draft!Range(queue) \cup {r}
    BY <1>1, <1>2, PutAtTheEnd DEF DraftInv, DraftQueues
  <2> QED BY <1>1, <2>1 DEF DraftInv, DraftTypes
<1>4. LimitTypes' /\ LimitInv'
  BY <1>1, LimitStays DEF DraftInv
<1>5. DraftTypes'
  BY <1>1 DEF DraftInv, DraftTypes
<1>6. DraftQueues'
  <2>1. Draft!Range(queue') = {j \in Draft!Jobs : draftJob'[j] = "queued"}
    BY <1>2, <1>3 DEF DraftInv, DraftQueues
  <2>2. Draft!QueuesAreWanted'
    BY <1>1, <1>2, <1>3, DraftSets DEF DraftInv, DraftQueues, Draft!QueuesAreWanted, Draft!Asking
  <2> QED BY <1>1, <1>3, <2>1, <2>2 DEF DraftInv, DraftQueues
<1>7. DraftThreads'
  <2>1. Draft!Busy' \subseteq Draft!Busy /\ Draft!Calling' \subseteq Draft!Calling
    BY <1>1, <1>3 DEF Draft!Busy, Draft!Calling
  <2> QED BY <1>1, <2>1, ThreadsStay, DraftNumbers DEF DraftInv
<1>8. DraftTurn'
  BY <1>1, <1>2, <1>3, DraftSets DEF DraftInv, DraftTurn
<1>9. DraftsInTime'
  <2>1. \A d \in Drafts : DraftInTime(d) => DraftInTime(d)'
    BY <1>1, <1>3, DraftSets DEF DraftInTime, DraftGoesOn
  <2> QED BY <1>1, <1>3, <2>1, InTimeStays DEF DraftInv
<1> QED BY <1>4, <1>5, <1>6, <1>7, <1>8, <1>9 DEF DraftInv

LEMMA CompilerAsks ==
  ASSUME Draft!DraftingAssumption, DraftFinite, DraftInv, NEW d \in Drafts, Draft!compile_instruction(d)
  PROVE  DraftInv'
<1>1. /\ draftJob[d] = "running" /\ reading[d] = "none"
      /\ UNCHANGED <<server, draftAccepted, draftWindow, comeBack, caller, draftAge, queue, waited>>
      /\ \/ /\ calls' = Append(calls, d) /\ call' = [call EXCEPT ![d] = "queued"]
            /\ draftJob' = [draftJob EXCEPT ![d] = "asks"] /\ reading' = reading
         \/ reading' = [reading EXCEPT ![d] = "fallback"] /\ UNCHANGED <<draftJob, calls, call>>
  BY DEF Draft!compile_instruction, Draft!Submitted, Draft!limits
<1>2. /\ d \in Draft!Jobs /\ d \in Draft!Callers /\ call[d] = "none" /\ waited[d] = 0
      /\ d \notin Draft!Range(calls) /\ d \notin Draft!Range(queue)
  BY <1>1, DraftSets DEF DraftInv, DraftTurn, DraftQueues
<1>4. LimitTypes' /\ LimitInv'
  BY <1>1, LimitStays DEF DraftInv
<1>5. CASE /\ calls' = Append(calls, d) /\ call' = [call EXCEPT ![d] = "queued"]
           /\ draftJob' = [draftJob EXCEPT ![d] = "asks"] /\ reading' = reading
  <2>1. /\ \A x \in Draft!Callers : call'[x] = IF x = d THEN "queued" ELSE call[x]
        /\ \A j \in Draft!Jobs : draftJob'[j] = IF j = d THEN "asks" ELSE draftJob[j]
    BY <1>5 DEF DraftInv, DraftTypes
  <2>2. /\ calls' \in Seq(Draft!Callers) /\ Draft!IsInjective(calls')
        /\ Draft!Range(calls') = Draft!Range(calls) \cup {d}
    BY <1>2, <1>5, PutAtTheEnd DEF DraftInv, DraftQueues
  <2>3. DraftTypes'
    BY <1>1, <1>5 DEF DraftInv, DraftTypes
  <2>4. DraftQueues'
    <3>1. /\ Draft!Range(calls') = {x \in Draft!Callers : call'[x] = "queued"}
          /\ Draft!Range(queue') = {j \in Draft!Jobs : draftJob'[j] = "queued"}
      BY <1>1, <1>2, <2>1, <2>2 DEF DraftInv, DraftQueues
    <3>2. Draft!QueuesAreWanted'
      BY <1>1, <1>2, <2>1, <2>2, DraftSets DEF DraftInv, DraftQueues, Draft!QueuesAreWanted, Draft!Asking
    <3> QED BY <1>1, <2>2, <3>1, <3>2 DEF DraftInv, DraftQueues
  <2>5. DraftThreads'
    <3>1. Draft!Busy' \subseteq Draft!Busy /\ Draft!Calling' \subseteq Draft!Calling
      BY <1>1, <2>1 DEF Draft!Busy, Draft!Calling
    <3> QED BY <1>1, <3>1, ThreadsStay, DraftNumbers DEF DraftInv
  <2>6. DraftTurn'
    BY <1>1, <1>2, <1>5, <2>1, DraftSets DEF DraftInv, DraftTurn
  <2>7. DraftsInTime'
    <3>1. \A e \in Drafts : DraftInTime(e) => DraftInTime(e)'
      BY <1>1, <1>2, <1>5, <2>1, DraftSets DEF DraftInTime, DraftGoesOn
    <3> QED BY <1>1, <2>1, <3>1, InTimeStays DEF DraftInv
  <2> QED BY <1>4, <2>3, <2>4, <2>5, <2>6, <2>7 DEF DraftInv
<1>6. CASE reading' = [reading EXCEPT ![d] = "fallback"] /\ UNCHANGED <<draftJob, calls, call>>
  <2>1. \A x \in Draft!Callers : reading'[x] = IF x = d THEN "fallback" ELSE reading[x]
    BY <1>6 DEF DraftInv, DraftTypes
  <2>2. DraftTypes'
    BY <1>1, <1>6 DEF DraftInv, DraftTypes
  <2>3. DraftQueues'
    BY <1>1, <1>6 DEF DraftInv, DraftQueues, Draft!QueuesAreWanted, Draft!Asking
  <2>4. DraftThreads'
    BY <1>1, <1>6 DEF DraftInv, DraftThreads, Draft!Busy, Draft!Calling, Draft!Threads
  <2>5. DraftTurn'
    BY <1>1, <1>2, <1>6, <2>1, DraftSets DEF DraftInv, DraftTurn
  <2>6. DraftsInTime'
    <3>1. \A e \in Drafts : DraftInTime(e) => DraftInTime(e)'
      BY <1>1, <1>6, <2>1, DraftSets DEF DraftInTime, DraftGoesOn
    <3> QED BY <1>1, <1>6, <3>1, InTimeStays DEF DraftInv
  <2> QED BY <1>4, <2>2, <2>3, <2>4, <2>5, <2>6 DEF DraftInv
<1> QED BY <1>1, <1>5, <1>6

LEMMA JobEndsKeeps ==
  ASSUME Draft!DraftingAssumption, DraftFinite, DraftInv, NEW j \in Draft!Jobs, Draft!JobEnds(j)
  PROVE  DraftInv'
<1>1. /\ draftJob[j] = "running" /\ draftJob' = [draftJob EXCEPT ![j] = "done"]
      /\ caller' = IF caller[j] = "waiting" THEN [caller EXCEPT ![j] = "answered"] ELSE caller
      /\ UNCHANGED <<server, draftAccepted, draftWindow, comeBack, draftAge, queue, calls, call, waited, reading>>
  BY DEF Draft!JobEnds, Draft!limits
<1>2. caller[j] # "none" /\ j \in Draft!Askers
  BY <1>1, DraftSets DEF DraftInv, DraftTurn
<1>3. /\ \A x \in Draft!Askers : caller'[x] = IF x = j /\ caller[j] = "waiting" THEN "answered" ELSE caller[x]
      /\ \A k \in Draft!Jobs : draftJob'[k] = IF k = j THEN "done" ELSE draftJob[k]
  BY <1>1 DEF DraftInv, DraftTypes
<1>4. LimitTypes' /\ LimitInv'
  BY <1>1, LimitStays DEF DraftInv
<1>5. DraftTypes'
  BY <1>1 DEF DraftInv, DraftTypes
<1>6. DraftQueues'
  <2>1. Draft!Range(queue') = {k \in Draft!Jobs : draftJob'[k] = "queued"}
    BY <1>1, <1>3 DEF DraftInv, DraftQueues
  <2>2. Draft!QueuesAreWanted'
    BY <1>1, <1>3, DraftSets DEF DraftInv, DraftQueues, Draft!QueuesAreWanted, Draft!Asking
  <2> QED BY <1>1, <2>1, <2>2 DEF DraftInv, DraftQueues
<1>7. DraftThreads'
  <2>1. Draft!Busy' \subseteq Draft!Busy /\ Draft!Calling' \subseteq Draft!Calling
    BY <1>1, <1>3 DEF Draft!Busy, Draft!Calling
  <2> QED BY <1>1, <2>1, ThreadsStay, DraftNumbers DEF DraftInv
<1>8. DraftTurn'
  BY <1>1, <1>2, <1>3, DraftSets DEF DraftInv, DraftTurn
<1>9. DraftsInTime'
  <2>1. \A d \in Drafts : DraftInTime(d) => DraftInTime(d)'
    BY <1>1, <1>3, DraftSets DEF DraftInTime, DraftGoesOn
  <2> QED BY <1>1, <1>3, <2>1, InTimeStays DEF DraftInv
<1> QED BY <1>4, <1>5, <1>6, <1>7, <1>8, <1>9 DEF DraftInv

LEMMA DraftGivesUp ==
  ASSUME Draft!DraftingAssumption, DraftFinite, DraftInv, NEW d \in Drafts, Draft!_compile(d)
  PROVE  DraftInv'
<1>1. /\ caller[d] = "waiting" /\ draftAge[d] >= DraftTime /\ caller' = [caller EXCEPT ![d] = "timeout"]
      /\ UNCHANGED <<server, draftAccepted, draftWindow, comeBack, draftAge, calls, call, waited, reading>>
      /\ \/ draftJob[d] = "queued" /\ draftJob' = [draftJob EXCEPT ![d] = "done"] /\ Draft!Withdrawn(d, queue, queue')
         \/ draftJob[d] # "queued" /\ UNCHANGED <<draftJob, queue>>
  BY DEF Draft!_compile, Draft!limits
<1>2. d \in Draft!Jobs /\ d \in Draft!Askers /\ d \in Draft!Callers
  BY DraftSets
<1>3. /\ \A x \in Draft!Askers : caller'[x] = IF x = d THEN "timeout" ELSE caller[x]
      /\ \A j \in Draft!Jobs : draftJob'[j] = IF j = d /\ draftJob[d] = "queued" THEN "done" ELSE draftJob[j]
  BY <1>1 DEF DraftInv, DraftTypes
<1>4. LimitTypes' /\ LimitInv'
  BY <1>1, LimitStays DEF DraftInv
<1>5. DraftTypes'
  BY <1>1 DEF DraftInv, DraftTypes
<1>6. DraftQueues'
  <2>1. /\ queue' \in Seq(Draft!Jobs) /\ Draft!IsInjective(queue')
        /\ Draft!Range(queue') = Draft!Range(queue) \ {d}
    <3>1. CASE Draft!Withdrawn(d, queue, queue')
      <4>1. PICK i \in DOMAIN queue : queue[i] = d /\ queue' = Draft!RemoveAt(queue, i)
        BY <3>1 DEF Draft!Withdrawn
      <4> QED BY <4>1, TakenBack DEF DraftInv, DraftQueues
    <3>2. CASE draftJob[d] # "queued" /\ queue' = queue
      BY <1>2, <3>2 DEF DraftInv, DraftQueues
    <3> QED BY <1>1, <3>1, <3>2
  <2>2. Draft!Range(queue') = {j \in Draft!Jobs : draftJob'[j] = "queued"}
    BY <1>2, <1>3, <2>1 DEF DraftInv, DraftQueues
  <2>3. Draft!QueuesAreWanted'
    BY <1>1, <1>3, <2>1, DraftSets DEF DraftInv, DraftQueues, Draft!QueuesAreWanted, Draft!Asking
  <2> QED BY <1>1, <2>1, <2>2, <2>3 DEF DraftInv, DraftQueues
<1>7. DraftThreads'
  <2>1. Draft!Busy' \subseteq Draft!Busy /\ Draft!Calling' \subseteq Draft!Calling
    BY <1>1, <1>3 DEF Draft!Busy, Draft!Calling
  <2> QED BY <1>1, <2>1, ThreadsStay, DraftNumbers DEF DraftInv
<1>8. DraftTurn'
  BY <1>1, <1>2, <1>3, DraftSets DEF DraftInv, DraftTurn
<1>9. DraftsInTime'
  \* Its time is not up while it is on its way.
  <2>1. ~DraftInTime(d)
    BY <1>1, <1>2, DraftSets DEF DraftInv, DraftTypes, DraftInTime, DraftGoesOn
  <2>2. \A e \in Drafts : DraftInTime(e) => DraftInTime(e)'
    BY <1>1, <1>3, <2>1, DraftSets DEF DraftInTime, DraftGoesOn
  <2> QED BY <1>1, <1>3, <2>2, InTimeStays DEF DraftInv
<1> QED BY <1>4, <1>5, <1>6, <1>7, <1>8, <1>9 DEF DraftInv

LEMMA FactAsked ==
  ASSUME Draft!DraftingAssumption, DraftFinite, DraftInv, NEW f \in Facts, Draft!AsksFact(f)
  PROVE  DraftInv'
<1>1. /\ caller[f] = "none" /\ caller' = [caller EXCEPT ![f] = "waiting"]
      /\ calls' = Append(calls, f) /\ call' = [call EXCEPT ![f] = "queued"]
      /\ UNCHANGED <<server, draftAccepted, draftWindow, comeBack, draftAge, queue, draftJob, waited, reading>>
  BY DEF Draft!AsksFact, Draft!Submitted, Draft!limits
<1>2. f \in Draft!Callers /\ f \in Draft!Askers /\ f \notin Draft!Jobs /\ call[f] = "none" /\ f \notin Draft!Range(calls)
  BY <1>1, DraftSets DEF DraftInv, DraftTurn, DraftQueues
<1>3. /\ \A x \in Draft!Askers : caller'[x] = IF x = f THEN "waiting" ELSE caller[x]
      /\ \A x \in Draft!Callers : call'[x] = IF x = f THEN "queued" ELSE call[x]
      /\ calls' \in Seq(Draft!Callers) /\ Draft!IsInjective(calls')
      /\ Draft!Range(calls') = Draft!Range(calls) \cup {f}
  <2>1. /\ calls' \in Seq(Draft!Callers) /\ Draft!IsInjective(calls')
        /\ Draft!Range(calls') = Draft!Range(calls) \cup {f}
    BY <1>1, <1>2, PutAtTheEnd DEF DraftInv, DraftQueues
  <2> QED BY <1>1, <2>1 DEF DraftInv, DraftTypes
<1>4. LimitTypes' /\ LimitInv'
  BY <1>1, LimitStays DEF DraftInv
<1>5. DraftTypes'
  BY <1>1 DEF DraftInv, DraftTypes
<1>6. DraftQueues'
  <2>1. Draft!Range(calls') = {x \in Draft!Callers : call'[x] = "queued"}
    BY <1>2, <1>3 DEF DraftInv, DraftQueues
  <2>2. Draft!QueuesAreWanted'
    BY <1>1, <1>2, <1>3, DraftSets DEF DraftInv, DraftQueues, Draft!QueuesAreWanted, Draft!Asking
  <2> QED BY <1>1, <1>3, <2>1, <2>2 DEF DraftInv, DraftQueues
<1>7. DraftThreads'
  <2>1. Draft!Busy' \subseteq Draft!Busy /\ Draft!Calling' \subseteq Draft!Calling
    BY <1>1, <1>3 DEF Draft!Busy, Draft!Calling
  <2> QED BY <1>1, <2>1, ThreadsStay, DraftNumbers DEF DraftInv
<1>8. DraftTurn'
  BY <1>1, <1>2, <1>3, DraftSets DEF DraftInv, DraftTurn
<1>9. DraftsInTime'
  <2>1. \A d \in Drafts : DraftInTime(d) => DraftInTime(d)'
    BY <1>1, <1>3, DraftSets DEF DraftInTime, DraftGoesOn
  <2> QED BY <1>1, <1>3, <2>1, InTimeStays DEF DraftInv
<1> QED BY <1>4, <1>5, <1>6, <1>7, <1>8, <1>9 DEF DraftInv

LEMMA CallEndsKeeps ==
  ASSUME Draft!DraftingAssumption, DraftFinite, DraftInv, NEW x \in Draft!Callers, Draft!CallEnds(x)
  PROVE  DraftInv'
<1>1. /\ call[x] = "running" /\ call' \in [Draft!Callers -> {"none", "queued", "running", "json", "unusable", "dropped"}]
      /\ call'[x] \in {"json", "unusable"} /\ \A y \in Draft!Callers : y # x => call'[y] = call[y]
      /\ UNCHANGED <<server, draftAccepted, draftWindow, comeBack, caller, draftAge, queue, draftJob, calls, waited, reading>>
  BY DEF Draft!CallEnds, Draft!limits, DraftInv, DraftTypes
<1>4. LimitTypes' /\ LimitInv'
  BY <1>1, LimitStays DEF DraftInv
<1>5. DraftTypes'
  BY <1>1 DEF DraftInv, DraftTypes
<1>6. DraftQueues'
  <2>1. Draft!Range(calls') = {y \in Draft!Callers : call'[y] = "queued"}
    BY <1>1 DEF DraftInv, DraftQueues
  <2>2. Draft!QueuesAreWanted'
    BY <1>1 DEF DraftInv, DraftQueues, Draft!QueuesAreWanted, Draft!Asking
  <2> QED BY <1>1, <2>1, <2>2 DEF DraftInv, DraftQueues
<1>7. DraftThreads'
  <2>1. Draft!Busy' \subseteq Draft!Busy /\ Draft!Calling' \subseteq Draft!Calling
    BY <1>1 DEF Draft!Busy, Draft!Calling
  <2> QED BY <1>1, <2>1, ThreadsStay, DraftNumbers DEF DraftInv
<1>8. DraftTurn'
  BY <1>1, DraftSets DEF DraftInv, DraftTurn
<1>9. DraftsInTime'
  <2>1. \A d \in Drafts : DraftInTime(d) => DraftInTime(d)'
    BY <1>1 DEF DraftInTime, DraftGoesOn
  <2> QED BY <1>1, <2>1, InTimeStays DEF DraftInv
<1> QED BY <1>4, <1>5, <1>6, <1>7, <1>8, <1>9 DEF DraftInv

(* The asker goes on: with what the model said, or because its time is up. *)
LEMMA GoesOnKeeps ==
  ASSUME Draft!DraftingAssumption, DraftFinite, DraftInv, NEW x \in Draft!Callers, NEW with \in {"llm", "fallback"},
         Draft!Asking(x), Draft!GoesOn(x, with),
         UNCHANGED <<server, draftAccepted, draftWindow, comeBack, draftAge, queue, waited>>,
         \/ call[x] # "queued" /\ UNCHANGED <<calls, call>>
         \/ /\ call[x] = "queued" /\ Draft!Withdrawn(x, calls, calls')
            /\ call' = [call EXCEPT ![x] = "dropped"]
  PROVE  DraftInv'
<1>1. /\ reading' = [reading EXCEPT ![x] = with]
      /\ IF x \in Drafts THEN draftJob' = [draftJob EXCEPT ![x] = "running"] /\ caller' = caller
                         ELSE caller' = [caller EXCEPT ![x] = "answered"] /\ draftJob' = draftJob
      /\ IF x \in Drafts THEN draftJob[x] = "asks" ELSE caller[x] = "waiting"
  BY DEF Draft!GoesOn, Draft!Asking
<1>2. /\ \A y \in Draft!Callers : reading'[y] = IF y = x THEN with ELSE reading[y]
      /\ \A y \in Draft!Askers : caller'[y] = IF y = x /\ x \notin Drafts THEN "answered" ELSE caller[y]
      /\ \A j \in Draft!Jobs : draftJob'[j] = IF j = x THEN "running" ELSE draftJob[j]
      /\ \A y \in Draft!Callers : call'[y] = IF y = x /\ call[x] = "queued" THEN "dropped" ELSE call[y]
  BY <1>1, DraftSets DEF DraftInv, DraftTypes
<1>4. LimitTypes' /\ LimitInv'
  BY LimitStays DEF DraftInv
<1>5. DraftTypes'
  BY <1>1, DraftSets DEF DraftInv, DraftTypes
<1>6. DraftQueues'
  <2>1. /\ calls' \in Seq(Draft!Callers) /\ Draft!IsInjective(calls')
        /\ Draft!Range(calls') = Draft!Range(calls) \ {x}
    <3>1. CASE Draft!Withdrawn(x, calls, calls')
      <4>1. PICK i \in DOMAIN calls : calls[i] = x /\ calls' = Draft!RemoveAt(calls, i)
        BY <3>1 DEF Draft!Withdrawn
      <4> QED BY <4>1, TakenBack DEF DraftInv, DraftQueues
    <3>2. CASE call[x] # "queued" /\ calls' = calls
      BY <3>2 DEF DraftInv, DraftQueues
    <3> QED BY <3>1, <3>2
  <2>2. Draft!Range(calls') = {y \in Draft!Callers : call'[y] = "queued"}
    BY <1>2, <2>1 DEF DraftInv, DraftQueues
  <2>3. Draft!Range(queue') = {j \in Draft!Jobs : draftJob'[j] = "queued"}
    <3>1. x \in Draft!Jobs => draftJob[x] # "queued"
      BY <1>1, DraftSets
    <3> QED BY <1>2, <3>1 DEF DraftInv, DraftQueues
  <2>4. Draft!QueuesAreWanted'
    BY <1>1, <1>2, <2>1, DraftSets DEF DraftInv, DraftQueues, Draft!QueuesAreWanted, Draft!Asking
  <2> QED BY <2>1, <2>2, <2>3, <2>4 DEF DraftInv, DraftQueues
<1>7. DraftThreads'
  <2>1. Draft!Busy' \subseteq Draft!Busy /\ Draft!Calling' \subseteq Draft!Calling
    BY <1>1, <1>2, DraftSets DEF Draft!Busy, Draft!Calling
  <2> QED BY <2>1, ThreadsStay, DraftNumbers DEF DraftInv
<1>8. DraftTurn'
  BY <1>1, <1>2, DraftSets DEF DraftInv, DraftTurn
<1>9. DraftsInTime'
  <2>1. \A d \in Drafts : DraftInTime(d) => DraftInTime(d)'
    BY <1>1, <1>2, DraftSets DEF DraftInv, DraftTypes, DraftInTime, DraftGoesOn
  <2> QED BY <1>2, <2>1, InTimeStays DEF DraftInv
<1> QED BY <1>4, <1>5, <1>6, <1>7, <1>8, <1>9 DEF DraftInv

(* Time passes only while no thread has something to do: a draft that      *)
(* waits then has asked the model, and the compiler still waits for it.    *)
LEMMA DraftTicks ==
  ASSUME Draft!DraftingAssumption, DraftFinite, DraftInv, Draft!Tick
  PROVE  DraftInv'
<1>1. /\ ~Draft!Ready /\ ~Draft!Due
      /\ draftAge' = [x \in Draft!Askers |->
           IF caller[x] = "waiting" THEN Draft!Capped(draftAge[x], Draft!Patience(x) + 1) ELSE draftAge[x]]
      /\ waited' = [x \in Draft!Callers |->
           IF Draft!Asking(x) THEN Draft!Capped(waited[x], Draft!Wait(x)) ELSE waited[x]]
      /\ UNCHANGED <<server, caller, queue, draftJob, calls, call, reading>>
  BY DEF Draft!Tick
<1>4. LimitTypes' /\ LimitInv'
  BY LimitTicks DEF DraftInv
<1>5. DraftTypes'
  <2>1. \A x \in Draft!Askers : draftAge'[x] \in Nat /\ draftAge'[x] <= Draft!Patience(x) + 1
    BY <1>1, DraftSets DEF DraftInv, DraftTypes, Draft!Capped
  <2>2. \A x \in Draft!Callers : waited'[x] \in Nat /\ waited'[x] <= Draft!Wait(x)
    BY <1>1, DraftSets DEF DraftInv, DraftTypes, Draft!Capped
  <2>3. draftAge' \in [Draft!Askers -> Nat] /\ waited' \in [Draft!Callers -> Nat]
    BY <1>1, <2>1, <2>2
  <2> QED BY <1>1, <2>1, <2>2, <2>3 DEF DraftInv, DraftTypes
<1>6. DraftQueues'
  BY <1>1 DEF DraftInv, DraftQueues, Draft!QueuesAreWanted, Draft!Asking
<1>7. DraftThreads'
  BY <1>1 DEF DraftInv, DraftThreads, Draft!Busy, Draft!Calling, Draft!Threads
<1>8. DraftTurn'
  <2>1. \A j \in Draft!Jobs : caller[j] = "none" => draftAge'[j] = draftAge[j]
    BY <1>1, DraftSets
  <2>2. \A d \in Drafts : draftJob[d] # "asks" => waited'[d] = waited[d]
    BY <1>1, DraftSets DEF Draft!Asking
  <2> QED BY <1>1, <2>1, <2>2, DraftSets DEF DraftInv, DraftTurn
<1>9. DraftsInTime'
  <2> SUFFICES ASSUME (Draft!Cardinality(Draft!Given) <= Draft!Threads)', NEW d \in Drafts PROVE DraftInTime(d)'
    BY DEF DraftsInTime
  <2>1. Draft!Cardinality(Draft!Given) <= Draft!Threads
    BY <1>1, GivenStays, DraftNumbers DEF DraftInv
  <2>2. DraftInTime(d)
    BY <2>1 DEF DraftInv, DraftsInTime
  <2>3. d \in Draft!Jobs /\ d \in Draft!Askers /\ d \in Draft!Callers /\ Draft!Wait(d) = ReadTime /\ Draft!Patience(d) = DraftTime
    BY DraftSets
  <2>4. CASE caller[d] # "waiting"
    BY <1>1, <2>2, <2>4 DEF DraftInTime
  <2>5. CASE caller[d] = "waiting"
    <3>1. draftJob[d] # "running"
      BY <1>1, <2>3 DEF Draft!Ready
    <3>2. draftJob[d] # "queued"
      <4> SUFFICES ASSUME draftJob[d] = "queued" PROVE FALSE
        OBVIOUS
      <4>1. queue # << >>
        BY <2>3 DEF DraftInv, DraftQueues, Draft!Range
      <4>2. Draft!Cardinality(Draft!Busy) < Draft!Threads
        <5>1. IsFiniteSet(Draft!Given)
          <6>1. IsFiniteSet(Draft!Jobs)
            BY FS_Union DEF DraftFinite, Draft!Jobs
          <6> QED BY <6>1, FS_Subset DEF Draft!Given
        <5>2. Draft!Busy \subseteq Draft!Given \ {d} /\ d \in Draft!Given
          BY <2>3 DEF Draft!Busy, Draft!Given
        <5>3. /\ IsFiniteSet(Draft!Given \ {d}) /\ Cardinality(Draft!Given) \in Nat
              /\ Cardinality(Draft!Given \ {d}) = Cardinality(Draft!Given) - 1
          BY <5>1, <5>2, FS_RemoveElement, FS_CardinalityType
        <5>4. /\ Draft!Cardinality(Draft!Busy) \in Nat
              /\ Draft!Cardinality(Draft!Busy) <= Draft!Cardinality(Draft!Given \ {d})
          BY <5>2, <5>3, NoMore
        <5>5. /\ Draft!Cardinality(Draft!Given) = Cardinality(Draft!Given)
              /\ Draft!Cardinality(Draft!Given \ {d}) = Cardinality(Draft!Given \ {d})
          BY DEF Draft!Cardinality, Cardinality
        <5> QED BY <2>1, <5>3, <5>4, <5>5, DraftNumbers DEF DraftInv
      <4> QED BY <1>1, <4>1, <4>2 DEF Draft!Ready
    <3>3. draftJob[d] = "asks" /\ draftAge[d] = waited[d]
      BY <2>2, <2>5, <3>1, <3>2 DEF DraftInTime, DraftGoesOn
    <3>4. Draft!Asking(d) /\ call[d] \in {"queued", "running"}
      BY <1>1, <2>3, <3>3 DEF Draft!Ready, Draft!Asking, DraftInv, DraftTurn
    <3>5. waited[d] \in Nat /\ waited[d] < ReadTime
      BY <1>1, <2>3, <3>4, DraftSets DEF Draft!Due, Draft!Late, DraftInv, DraftTypes
    <3>6. waited'[d] = waited[d] + 1 /\ draftAge'[d] = draftAge[d] + 1
      <4>1. ReadTime \in Nat /\ DraftTime \in Nat /\ ReadTime < DraftTime
        BY DraftSets
      <4> QED BY <1>1, <2>3, <2>5, <3>3, <3>4, <3>5, <4>1 DEF Draft!Capped
    <3> QED BY <1>1, <2>5, <3>3, <3>6 DEF DraftInTime, DraftGoesOn
  <2> QED BY <2>4, <2>5
<1> QED BY <1>4, <1>5, <1>6, <1>7, <1>8, <1>9 DEF DraftInv

LEMMA DraftStep ==
  ASSUME Draft!DraftingAssumption, DraftFinite, DraftInv, [Draft!Next]_(Draft!vars)
  PROVE  DraftInv'
<1>1. CASE UNCHANGED Draft!vars
  <2>1. UNCHANGED <<server, draftAccepted, draftWindow, comeBack, caller, draftAge, queue, draftJob, calls, call, waited, reading>>
    BY <1>1 DEF Draft!vars
  <2>2. LimitTypes' /\ LimitInv'
    BY <2>1, LimitStays DEF DraftInv
  <2>3. DraftTypes' /\ DraftTurn'
    BY <2>1 DEF DraftInv, DraftTypes, DraftTurn
  <2>4. DraftQueues' /\ DraftThreads'
    BY <2>1 DEF DraftInv, DraftQueues, DraftThreads, Draft!QueuesAreWanted, Draft!Asking, Draft!Busy, Draft!Calling, Draft!Threads
  <2>5. DraftsInTime'
    BY <2>1 DEF DraftInv, DraftsInTime, DraftInTime, DraftGoesOn, Draft!Given, Draft!Threads
  <2> QED BY <2>2, <2>3, <2>4, <2>5 DEF DraftInv
<1>2. ASSUME NEW d \in Drafts, Draft!create_draft(d) \/ Draft!compile_instruction(d) \/ Draft!_compile(d)
      PROVE  DraftInv'
  BY <1>2, DraftAccepted, CompilerAsks, DraftGivesUp
<1>3. ASSUME NEW x \in Draft!Callers, Draft!parse_and_validate(x)
      PROVE  DraftInv'
  <2>1. call[x] # "queued" /\ Draft!Asking(x)
    BY <1>3 DEF Draft!parse_and_validate
  <2>2. Draft!GoesOn(x, "llm") \/ Draft!GoesOn(x, "fallback")
    BY <1>3 DEF Draft!parse_and_validate
  <2>3. UNCHANGED <<server, draftAccepted, draftWindow, comeBack, draftAge, queue, calls, call, waited>>
    BY <1>3 DEF Draft!parse_and_validate, Draft!limits
  <2> QED BY <2>1, <2>2, <2>3, GoesOnKeeps
<1>4. ASSUME NEW x \in Draft!Callers, Draft!with_deadline(x)
      PROVE  DraftInv'
  <2>1. Draft!Asking(x) /\ Draft!GoesOn(x, "fallback")
    BY <1>4 DEF Draft!with_deadline, Draft!Late
  <2>2. \/ call[x] # "queued" /\ UNCHANGED <<calls, call>>
        \/ /\ call[x] = "queued" /\ Draft!Withdrawn(x, calls, calls')
           /\ call' = [call EXCEPT ![x] = "dropped"]
    BY <1>4 DEF Draft!with_deadline
  <2>3. UNCHANGED <<server, draftAccepted, draftWindow, comeBack, draftAge, queue, waited>>
    BY <1>4 DEF Draft!with_deadline, Draft!limits
  <2> QED BY <2>1, <2>2, <2>3, GoesOnKeeps
<1>5. CASE Draft!Next
  BY <1>2, <1>3, <1>4, <1>5, DraftTicks, JobStartsKeeps, CallStartsKeeps, JobEndsKeeps, PolicyAsked, FactAsked, CallEndsKeeps
  DEF Draft!Next
<1> QED BY <1>1, <1>5

LEMMA DraftTypesHold ==
  ASSUME Draft!DraftingAssumption, DraftInv
  PROVE  Draft!TypeOK
<1>1. \A x \in Draft!Askers : draftAge[x] \in 0..(Draft!Patience(x) + 1)
  BY DraftSets DEF DraftInv, DraftTypes
<1>2. \A x \in Draft!Callers : waited[x] \in 0..Draft!Wait(x)
  BY DraftSets DEF DraftInv, DraftTypes
<1> QED BY <1>1, <1>2 DEF Draft!TypeOK, DraftInv, LimitTypes, DraftTypes, DraftQueues, DraftThreads

(* With a thread for each job, a draft that is on its way is in time.      *)
LEMMA WaitsBounded ==
  ASSUME Draft!DraftingAssumption, DraftInv
  PROVE  Draft!TypeOK /\ Draft!LimitKept /\ Draft!QueuesAreWanted /\ Draft!ModelNeverFailsADraft
<1>1. Draft!TypeOK
  BY DraftTypesHold
<1>2. Draft!LimitKept
  BY <1>1, LimitHolds DEF DraftInv
<1>3. Draft!QueuesAreWanted
  BY DEF DraftInv, DraftQueues
<1>4. Draft!ModelNeverFailsADraft
  BY DEF DraftInv, DraftsInTime, DraftInTime, Draft!ModelNeverFailsADraft
<1> QED BY <1>1, <1>2, <1>3, <1>4

-----------------------------------------------------------------------------
(***************************************************************************)
(* The whole: each component keeps its invariant while it runs, and rests  *)
(* otherwise.                                                              *)
(***************************************************************************)
CopiesInv ==
  /\ part = "lease" => LeaseInv
  /\ part = "reference" => SyncInv
  /\ part = "signals" => SignalsInv
  /\ part = "window" => SettingsInv
  /\ part = "startup" => StartInv

LEMMA CopiesInitially == IsFiniteSet(Ids) /\ WholeInit => CopiesInv
<1> SUFFICES ASSUME IsFiniteSet(Ids), WholeInit PROVE CopiesInv
  OBVIOUS
<1>1. LeaseInv /\ SyncInv /\ SignalsInv
  <2>1. Lease!Init /\ Reference!Init /\ Laya!Init
    BY DEF WholeInit
  <2> QED BY <2>1, Parameters, LeaseInitially, SyncInitially, SignalsInitially
<1>2. part = "startup" => StartInv
  BY Parameters, StartInitially DEF WholeInit
<1>3. part = "window" => SettingsInv
  BY Parameters, SettingsInitially DEF WholeInit
<1> QED BY <1>1, <1>2, <1>3 DEF CopiesInv

\* What rests stays as it is.
LEMMA Rests ==
  /\ UNCHANGED leaseVars => UNCHANGED Lease!vars
  /\ UNCHANGED syncVars => UNCHANGED Reference!vars
  /\ UNCHANGED replayVars => UNCHANGED Replay!vars
  /\ UNCHANGED layaVars => UNCHANGED Laya!vars
  /\ UNCHANGED draftVars => UNCHANGED Draft!vars
  /\ UNCHANGED settingsVars => UNCHANGED Window!vars /\ UNCHANGED Startup!vars
<1>1. UNCHANGED leaseVars => UNCHANGED Lease!vars
  BY DEF leaseVars, Lease!vars, Lease!workers, Lease!memory, Lease!outside, Lease!bounds
<1>2. UNCHANGED syncVars => UNCHANGED Reference!vars
  BY DEF syncVars, Reference!vars, Reference!views, Reference!bounds
<1>3. UNCHANGED replayVars => UNCHANGED Replay!vars
  BY DEF replayVars, Replay!vars, Replay!asked, Replay!runner
<1>4. UNCHANGED layaVars => UNCHANGED Laya!vars
  BY DEF layaVars, Laya!vars, Laya!laya, Laya!shown, Laya!deciding
<1>5. UNCHANGED settingsVars => UNCHANGED Window!vars /\ UNCHANGED Startup!vars
  BY DEF settingsVars, Window!vars, Startup!vars
<1>6. UNCHANGED draftVars => UNCHANGED Draft!vars
  BY DEF draftVars, Draft!vars
<1> QED BY <1>1, <1>2, <1>3, <1>4, <1>5, <1>6

\* A step of the whole is one of the component that runs, or leaves it alone.
LEMMA OneRuns ==
  ASSUME [WholeNext]_whole
  PROVE  /\ part' = part
         /\ part = "lease" => [Lease!Next]_(Lease!vars)
         /\ part = "reference" => [Reference!Next]_(Reference!vars)
         /\ part = "replay" => [Replay!Next]_(Replay!vars)
         /\ part = "signals" => [Laya!Next]_(Laya!vars)
         /\ part = "drafting" => [Draft!Next]_(Draft!vars)
         /\ part = "window" => [Window!Next]_(Window!vars)
         /\ part = "startup" => [Startup!Next]_(Startup!vars)
<1>1. CASE UNCHANGED whole
  BY <1>1, Rests DEF whole
<1>2. CASE WholeNext
  BY <1>2 DEF WholeNext
<1> QED BY <1>1, <1>2

LEMMA CopiesStep == IsFiniteSet(Ids) /\ CopiesInv /\ [WholeNext]_whole => CopiesInv'
<1> SUFFICES ASSUME IsFiniteSet(Ids), CopiesInv, [WholeNext]_whole PROVE CopiesInv'
  OBVIOUS
<1>1. part = "lease" => LeaseInv'
  BY OneRuns, LeaseStep DEF CopiesInv
<1>2. part = "reference" => SyncInv'
  BY OneRuns, SyncStep, Parameters DEF CopiesInv
<1>3. part = "signals" => SignalsInv'
  BY OneRuns, SignalsStep, Parameters DEF CopiesInv
<1>4. part = "window" => SettingsInv'
  BY OneRuns, SettingsStep, Parameters DEF CopiesInv
<1>5. part = "startup" => StartInv'
  BY OneRuns, StartStep, Parameters DEF CopiesInv
<1> QED BY OneRuns, <1>1, <1>2, <1>3, <1>4, <1>5 DEF CopiesInv

(* What is kept in two places agrees, whatever fails in between: the       *)
(* ledger of each process with what Viseca approved, the digests it        *)
(* remembers with the tables it loaded them from, the model that /healthz  *)
(* names with the one that answers, the window of the worker with its      *)
(* runs' (worker.py claim_close, sync_reference_data, _load_settings;      *)
(* signals.py LayaSignals; app.py _load_signals_model).                    *)
THEOREM CopiesAreAlike == ASSUME IsFiniteSet(Ids) PROVE WholeSpec => []CopiesAgree
<1>1. CopiesInv => CopiesAgree
  <2>1. LeaseInv => Lease!TypeOK /\ Lease!CountedIsApproved
    BY DEF LeaseInv
  <2>2. SyncInv => Reference!TypeOK /\ Reference!SeenIsStored
    BY DEF SyncInv, Seen, Reference!SeenIsStored
  <2>3. SignalsInv => Laya!TypeOK /\ Laya!LoadedOnce /\ Laya!HealthTruthful /\ Laya!KeywordsStand
    BY DEF SignalsInv, LoadInv, Laya!LoadedOnce
  <2>4. SettingsInv => Window!TypeOK /\ Window!OneWindow
    BY DEF SettingsInv
  <2>5. StartInv => Startup!TypeOK /\ Startup!WindowOfItsStart
    BY WindowOfAStart DEF StartInv, StartSettingsInv
  <2> QED BY <2>1, <2>2, <2>3, <2>4, <2>5 DEF CopiesInv, CopiesAgree
<1>2. WholeInit => CopiesInv
  BY CopiesInitially
<1>3. CopiesInv /\ [WholeNext]_whole => CopiesInv'
  BY CopiesStep
<1> QED BY <1>1, <1>2, <1>3, PTL DEF WholeSpec

(* Of two replays at a time the one that was started last goes on, records *)
(* into its own run and knows its purchases, whatever fails; while the     *)
(* store takes what is written, every step-up that was counted expires by  *)
(* itself, and the purchases are counted in turn (_stop_replay, _replay,   *)
(* _mark and _arm_expiry of api/offline.py).                               *)
THEOREM ReplaysKeepToThemselves ==
  ASSUME IsFiniteSet(Replays), Overlap <= 1
  PROVE  WholeSpec => []ReplayKeepsToItself
<1> DEFINE Kept == part = "replay" => ReplayInv
<1>0. OneAtATime
  BY Parameters DEF OneAtATime
<1>1. WholeInit => Kept
  BY <1>0, ReplayInitially DEF WholeInit
<1>2. Kept /\ [WholeNext]_whole => Kept'
  BY <1>0, OneRuns, ReplayStep
<1>3. Kept => ReplayKeepsToItself
  BY <1>0, OneReplayKept, CountedInTurn DEF ReplayKeepsToItself, ReplayInv, Deciding, Replay!RecordsIntoCurrent
<1> QED BY <1>1, <1>2, <1>3, PTL DEF WholeSpec

(* No customer has more drafts accepted in a window than the limit, and    *)
(* who comes back when told to is let in; nothing waits in a queue for who *)
(* has given up; and a model that never answers fails no draft, as long as *)
(* the executor has a thread for each job it was given (ratelimit.py;      *)
(* _compile of api/routes_customer.py; with_deadline of llm/validate.py).  *)
THEOREM WaitsEnd ==
  ASSUME IsFiniteSet(Drafts), IsFiniteSet(Facts), IsFiniteSet(Restores)
  PROVE  WholeSpec => []WaitsAreBounded
<1> DEFINE Kept == part = "drafting" => DraftInv
<1>0. DraftFinite /\ Draft!DraftingAssumption
  BY Parameters DEF DraftFinite
<1>1. WholeInit => Kept
  BY <1>0, DraftInitially DEF WholeInit
<1>2. Kept /\ [WholeNext]_whole => Kept'
  BY <1>0, OneRuns, DraftStep
<1>3. Kept => WaitsAreBounded
  BY <1>0, WaitsBounded DEF WaitsAreBounded
<1> QED BY <1>1, <1>2, <1>3, PTL DEF WholeSpec

=============================================================================
