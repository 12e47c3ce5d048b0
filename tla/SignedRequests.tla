--------------------------- MODULE SignedRequests ---------------------------
(***************************************************************************)
(* passport/devices.py, verify_request: a request that changes what a card *)
(* may do is accepted when its device is enrolled, its time is near the    *)
(* server's and its nonce is new.  Nonces are kept for TTL only, and a     *)
(* request may be delivered any number of times, early or late: by a       *)
(* client that retries, or a network that repeats.                         *)
(*                                                                         *)
(* Each delivery runs on a store thread of its own and is two transactions *)
(* with the signature check between them.  What one device signs under one *)
(* nonce is one request: its time is fixed (Signed).                       *)
(***************************************************************************)
EXTENDS Integers

CONSTANTS
  Device,     \* devices of one card
  Nonce,      \* nonces a device may draw; a client never draws one twice
  Delivery,   \* deliveries that may be in progress together
  Skew,       \* MAX_SKEW_S: how far a request's time may be from the server's
  TTL,        \* NONCE_TTL: how long a nonce is kept
  Delay,      \* bound on the time between a delivery's clock read and its end
  Horizon     \* bound on the clock, for TLC

ASSUME TimesAssumption ==
  /\ Skew \in Nat /\ TTL \in Nat /\ Delay \in Nat /\ Horizon \in Nat
  /\ TTL >= 2 * Skew + Delay

VARIABLES
  clock,      \* the server's time
  enrolled,   \* the devices enrolled on the card
  signed,     \* the requests signed so far: their time, or Never
  seen,       \* DeviceNonce: when a nonce was stored, or Never
  work,       \* what each delivery does
  accepted    \* how often a request was accepted (an observation)

vars == <<clock, enrolled, signed, seen, work, accepted>>

Never == -1
Request == Device \X Nonce
Time == 0..Horizon
Idle == [at |-> "idle"]
Work == {Idle} \cup [at : {"device", "nonce"}, of : Request, now : Time]

TypeOK ==
  /\ clock \in Time
  /\ enrolled \in SUBSET Device
  /\ signed \in [Request -> Time \cup {Never}]
  /\ seen \in [Request -> Time \cup {Never}]
  /\ work \in [Delivery -> Work]
  /\ accepted \in [Request -> Nat]

Init ==
  /\ clock = 0
  /\ enrolled \in SUBSET Device
  /\ signed = [q \in Request |-> Never]
  /\ seen = [q \in Request |-> Never]
  /\ work = [w \in Delivery |-> Idle]
  /\ accepted = [q \in Request |-> 0]

----------------------------------------------------------------------------
Busy(w) == work[w] # Idle

\* Time passes, but no delivery outlives Delay: every store call has a time-out.
Tick ==
  /\ clock < Horizon
  /\ \A w \in Delivery : Busy(w) => clock < work[w].now + Delay
  /\ clock' = clock + 1
  /\ UNCHANGED <<enrolled, signed, seen, work, accepted>>

\* A device signs a request; its clock may be off, and the nonce is fresh.
Sign(q, ts) ==
  /\ signed[q] = Never
  /\ signed' = [signed EXCEPT ![q] = ts]
  /\ UNCHANGED <<clock, enrolled, seen, work, accepted>>

\* Enrolment and removal, in Devices.
EnrolOrRemove(d) ==
  /\ enrolled' = IF d \in enrolled THEN enrolled \ {d} ELSE enrolled \cup {d}
  /\ UNCHANGED <<clock, signed, seen, work, accepted>>

\* A signed request reaches the API, for the first time or again.
Deliver(w, q) ==
  /\ ~Busy(w)
  /\ signed[q] # Never
  /\ work' = [work EXCEPT ![w] = [at |-> "device", of |-> q, now |-> clock]]
  /\ UNCHANGED <<clock, enrolled, signed, seen, accepted>>

InTime(ts, now) == now - ts <= Skew /\ ts - now <= Skew

\* The first transaction reads the device; then the signature and the time
\* are checked.  Refused here, nothing is stored.
CheckDevice(w) ==
  /\ work[w].at = "device"
  /\ LET ok == work[w].of[1] \in enrolled /\ InTime(signed[work[w].of], work[w].now)
     IN work' = [work EXCEPT ![w] = IF ok THEN [@ EXCEPT !.at = "nonce"] ELSE Idle]
  /\ UNCHANGED <<clock, enrolled, signed, seen, accepted>>

Expired_M(q, now) == seen[q] # Never /\ seen[q] < now - Skew
\* The second transaction deletes the nonces that are too old, for every
\* device, and stores this one; one that is there already is refused, and the
\* transaction with its deletions is undone.
Expired(q, now) == seen[q] # Never /\ seen[q] < now - TTL

Stored(now) == now

TakeNonce(w) ==
  LET q == work[w].of
      now == work[w].now
      left == [p \in Request |-> IF Expired(p, now) THEN Never ELSE seen[p]]
  IN /\ work[w].at = "nonce"
     /\ work' = [work EXCEPT ![w] = Idle]
     /\ IF left[q] # Never
        THEN UNCHANGED <<seen, accepted>>
        ELSE /\ seen' = [left EXCEPT ![q] = Stored(now)]
             /\ accepted' = [accepted EXCEPT ![q] = @ + 1]
     /\ UNCHANGED <<clock, enrolled, signed>>

Next ==
  \/ Tick
  \/ \E q \in Request, ts \in Time : Sign(q, ts)
  \/ \E d \in Device : EnrolOrRemove(d)
  \/ \E w \in Delivery, q \in Request : Deliver(w, q)
  \/ \E w \in Delivery : CheckDevice(w) \/ TakeNonce(w)

Spec == Init /\ [][Next]_vars

----------------------------------------------------------------------------
\* A signed request is accepted at most once, however often it is delivered
\* and however late: a nonce is forgotten only when its request is too old.
AcceptedOnce == \A q \in Request : accepted[q] <= 1

\* What AcceptedOnce rests on: an accepted request either still has its nonce,
\* stored at a time near the request's own, or no delivery that is in
\* progress or still to come can be in time.
NonceOrLate ==
  \A q \in Request : accepted[q] > 0 =>
    \/ seen[q] # Never /\ seen[q] + Skew >= signed[q]
    \/ clock > signed[q] + Skew + Delay
=============================================================================
