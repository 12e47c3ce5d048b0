---------------------------- MODULE AppDecisions ----------------------------
(***************************************************************************)
(* The customer's app while she is signed in: the decisions it shows       *)
(* (frontend/src/state/DecisionsProvider.tsx, mergeDecisions.ts), the      *)
(* reads that keep them current, and the answer she taps                   *)
(* (screens/Approvals, api/approvals.ts).  Reads overlap: one starts with  *)
(* every tick of a timer, whether or not an earlier one has come back, and *)
(* each shows the server as it was when it was served.                     *)
(*                                                                         *)
(* The server is what C6 and C8 make of it: a step-up waits until it is    *)
(* answered, here or on another phone, or expires.  Purchases that are     *)
(* never asked about are left out: nothing of them changes.                *)
(***************************************************************************)
EXTENDS Naturals, FiniteSets

CONSTANTS
  Hers, His,   \* the step-ups of two customers
  Reads,       \* reads that may be under way together
  Calls,       \* answers that may be under way together
  MaxTime,     \* bound on the clock
  MaxTaps,     \* bound on the answers to one step-up
  Looks,       \* she may look at another step-up, and back
  Losses       \* requests and replies may be lost

AppAssumption == MaxTime \in Nat /\ MaxTaps \in Nat /\ {Looks, Losses} \subseteq BOOLEAN

VARIABLES
  server,      \* the step-ups at the server
  now,         \* the clock
  signedInAs,  \* the customer the provider is mounted for
  rows,        \* decisions: what the app shows of them
  status,      \* "loading", "ready" or "error"
  started,     \* the first read has gone out
  reads,       \* the reads under way
  calls,       \* the answers under way (C8)
  resolving,   \* step-ups whose buttons are disabled
  failed,      \* step-ups that say the answer could not be sent
  taps,        \* the answers sent
  answered     \* observed: step-ups whose answer was reported back as taken

screen == <<rows, status, started>>
card == <<resolving, failed, taps, answered>>
vars == <<server, now, signedInAs, screen, reads, calls, card>>

Customer == {"her", "him"}
StepUp == Hers \cup His
Owner(d) == IF d \in Hers THEN "her" ELSE "him"

None == [st |-> "none", due |-> 0]
Final == {"approved", "declined", "expired"}
Row == [st: {"none", "pending"} \cup Final, due: 0..MaxTime]
Nothing == [d \in StepUp |-> None]
Read == [at: {"idle", "sent", "served"}, first: BOOLEAN, seen: [StepUp -> Row]]
NoRead == [at |-> "idle", first |-> FALSE, seen |-> Nothing]
Call == [at: {"idle", "sent", "taken", "refused"}, on: StepUp, answer: {"approved", "declined"}]
NoCall == [at |-> "idle", on |-> CHOOSE d \in StepUp : TRUE, answer |-> "declined"]

TypeOK ==
  /\ server \in [StepUp -> Row] /\ now \in 0..MaxTime
  /\ signedInAs \in Customer
  /\ rows \in [StepUp -> Row] /\ status \in {"loading", "ready", "error"}
  /\ started \in BOOLEAN
  /\ reads \in [Reads -> Read] /\ calls \in [Calls -> Call]
  /\ resolving \in SUBSET StepUp /\ failed \in SUBSET StepUp
  /\ taps \in [StepUp -> 0..MaxTaps] /\ answered \in SUBSET StepUp

Init ==
  /\ server = Nothing /\ now = 0
  /\ signedInAs \in Customer
  /\ rows = Nothing /\ status = "loading" /\ started = FALSE
  /\ reads = [r \in Reads |-> NoRead]
  /\ calls = [c \in Calls |-> NoCall]
  /\ resolving = {} /\ failed = {} /\ taps = [d \in StepUp |-> 0] /\ answered = {}

-----------------------------------------------------------------------------
(* The server and the clock. *)

Arrives(d) ==
  /\ server[d] = None
  /\ \E t \in now + 1..MaxTime : server' = [server EXCEPT ![d] = [st |-> "pending", due |-> t]]
  /\ UNCHANGED <<now, signedInAs, screen, reads, calls, card>>

(* The platform accepted the step-up: its deadline is the one that counts. *)
Accepted(d) ==
  /\ server[d].st = "pending"
  /\ \E t \in now + 1..MaxTime : server' = [server EXCEPT ![d].due = t]
  /\ UNCHANGED <<now, signedInAs, screen, reads, calls, card>>

Closes(d, how) == server' = [server EXCEPT ![d] = [st |-> how, due |-> 0]]

(* Answered on another of her phones, or expired. *)
ClosedElsewhere(d) ==
  /\ server[d].st = "pending"
  /\ \/ \E a \in {"approved", "declined"} : Closes(d, a)
     \/ server[d].due <= now /\ Closes(d, "expired")
  /\ UNCHANGED <<now, signedInAs, screen, reads, calls, card>>

Tick ==
  /\ now < MaxTime /\ now' = now + 1
  /\ UNCHANGED <<server, signedInAs, screen, reads, calls, card>>

-----------------------------------------------------------------------------
(* Reading: one effect per sign-in and retry; its cleanup cancels the reads *)
(* that are still out.                                                      *)

(* What they bring is dropped: they may as well be gone. *)
Cancelled == [r \in Reads |-> NoRead]

(* Keyed by customer: another one starts from nothing. *)
continueAs(c) ==
  /\ c # signedInAs /\ signedInAs' = c
  /\ rows' = Nothing /\ status' = "loading" /\ started' = FALSE
  /\ reads' = Cancelled
  /\ resolving' = {} /\ failed' = {}
  /\ UNCHANGED <<server, now, calls, taps, answered>>

retry ==
  /\ status = "error"
  /\ status' = "loading" /\ started' = FALSE /\ reads' = Cancelled
  /\ UNCHANGED <<server, now, signedInAs, rows, calls, card>>

(* read(true) when the effect starts, read(false) at each tick of its timer. *)
Sends(r) ==
  /\ reads[r].at = "idle"
  /\ reads' = [reads EXCEPT ![r] = [at |-> "sent", first |-> ~started, seen |-> Nothing]]
  /\ started' = TRUE
  /\ UNCHANGED <<server, now, signedInAs, rows, status, calls, card>>

(* C6, for the customer the read was sent for. *)
Serves(r) ==
  /\ reads[r].at = "sent"
  /\ reads' = [reads EXCEPT ![r].at = "served",
       ![r].seen = [d \in StepUp |-> IF Owner(d) = signedInAs THEN server[d] ELSE None]]
  /\ UNCHANGED <<server, now, signedInAs, screen, calls, card>>

(* mergeDecisions, of one row. *)
Merged(old, new) ==
  IF new = None \/ (old.st = "expired" /\ new.st = "pending") THEN old
  ELSE [st |-> new.st, due |-> IF old.due # 0 THEN old.due ELSE new.due]

Lands(r) ==
  /\ reads[r].at = "served"
  /\ reads' = [reads EXCEPT ![r] = NoRead]
  /\ rows' = [d \in StepUp |-> Merged(rows[d], reads[r].seen[d])]
  /\ status' = "ready"
  /\ UNCHANGED <<server, now, signedInAs, started, calls, card>>

Fails(r) ==
  /\ reads[r].at # "idle" /\ Losses
  /\ reads' = [reads EXCEPT ![r] = NoRead]
  /\ status' = IF reads[r].first THEN "error" ELSE status
  /\ UNCHANGED <<server, now, signedInAs, rows, started, calls, card>>

(* The clock of the app expires what nobody answered; it answers nothing. *)
Expires(d) ==
  /\ rows[d].st = "pending" /\ rows[d].due <= now
  /\ rows' = [rows EXCEPT ![d].st = "expired"]
  /\ UNCHANGED <<server, now, signedInAs, status, started, reads, calls, card>>

-----------------------------------------------------------------------------
(* Answering. *)

Shows(d, a) == UNCHANGED rows

(* The tap on the card of a step-up that waits (PendingCard.handle). *)
handle(d, c) ==
  /\ rows[d].st = "pending" /\ d \notin resolving /\ calls[c].at = "idle"
  /\ taps[d] < MaxTaps /\ taps' = [taps EXCEPT ![d] = @ + 1]
  /\ \E a \in {"approved", "declined"} :
       /\ calls' = [calls EXCEPT ![c] = [at |-> "sent", on |-> d, answer |-> a]]
       /\ Shows(d, a)
  /\ resolving' = resolving \cup {d} /\ failed' = failed \ {d}
  /\ UNCHANGED <<server, now, signedInAs, status, started, reads, answered>>

(* The card is keyed by its step-up: looking at another and back makes a new *)
(* one, with its buttons enabled.                                            *)
setFocusedIndex(d) ==
  /\ Looks /\ d \in resolving
  /\ \E e \in StepUp \ {d} : rows[e].st = "pending"
  /\ resolving' = resolving \ {d} /\ failed' = failed \ {d}
  /\ UNCHANGED <<server, now, signedInAs, screen, reads, calls, taps, answered>>

(* C8: the first answer counts, if it comes in time. *)
Resolves(c) ==
  /\ calls[c].at = "sent"
  /\ LET d == calls[c].on IN
     IF server[d].st = "pending" /\ now < server[d].due
       THEN Closes(d, calls[c].answer) /\ calls' = [calls EXCEPT ![c].at = "taken"]
       ELSE UNCHANGED server /\ calls' = [calls EXCEPT ![c].at = "refused"]
  /\ UNCHANGED <<now, signedInAs, screen, reads, card>>

(* The reply: final on every screen at once, or an error on the card. *)
Returns(c) ==
  /\ \/ calls[c].at \in {"taken", "refused"}
     \/ calls[c].at = "sent" /\ Losses
  /\ LET d == calls[c].on
         mine == Owner(d) = signedInAs
         taken == calls[c].at = "taken" IN
     /\ \/ /\ taken
           /\ rows' = IF mine /\ rows[d] # None
                        THEN [rows EXCEPT ![d].st = calls[c].answer] ELSE rows
           /\ answered' = answered \cup {d} /\ UNCHANGED failed
        \/ /\ ~taken \/ Losses
           /\ failed' = IF mine THEN failed \cup {d} ELSE failed
           /\ UNCHANGED <<rows, answered>>
     /\ resolving' = resolving \ {d}
  /\ calls' = [calls EXCEPT ![c] = NoCall]
  /\ UNCHANGED <<server, now, signedInAs, status, started, reads, taps>>

Next ==
  \/ Tick \/ retry
  \/ \E c \in Customer : continueAs(c)
  \/ \E d \in StepUp : Arrives(d) \/ Accepted(d) \/ ClosedElsewhere(d) \/ Expires(d) \/ setFocusedIndex(d)
  \/ \E r \in Reads : Sends(r) \/ Serves(r) \/ Lands(r) \/ Fails(r)
  \/ \E d \in StepUp, c \in Calls : handle(d, c)
  \/ \E c \in Calls : Resolves(c) \/ Returns(c)

Spec == Init /\ [][Next]_vars

(* The timer sends reads as long as the customer is signed in, the server   *)
(* serves them, and not every reply is lost.                                *)
Fairness ==
  /\ \A r \in Reads : WF_vars(Sends(r))
  /\ SF_vars(\E r \in Reads : Serves(r)) /\ SF_vars(\E r \in Reads : Lands(r))
FairSpec == Spec /\ Fairness

-----------------------------------------------------------------------------
(* Keyed by customer: what is on screen is the signed-in customer's, even   *)
(* while reads for the one before her come back.                            *)
OwnRowsOnly == \A d \in StepUp : rows[d] # None => Owner(d) = signedInAs

(* frontend/README.md: a purchase is approved only when the API says final  *)
(* and approved.  No answer is shown that the server did not take.          *)
NoInventedAnswer ==
  \A d \in StepUp : rows[d].st \in {"approved", "declined"} => server[d].st = rows[d].st

(* mergeDecisions: what expired on screen waits for nobody, whatever an     *)
(* older or a newer read says.                                              *)
ExpiredWaitsNoMore ==
  [][\A d \in StepUp : rows[d].st = "expired" => rows'[d].st # "pending"]_vars

(* mergeDecisions: a repeated read does not disturb a running countdown.    *)
CountdownRuns ==
  [][\A d \in StepUp :
       rows[d].st = "pending" /\ rows'[d].st = "pending" => rows'[d].due = rows[d].due]_vars

(* What is settled at the server is shown so in the end, also where the app *)
(* had given it up.                                                         *)
ShowsTheAnswer ==
  \A d \in StepUp :
    server[d].st \in Final ~> rows[d].st = server[d].st \/ Owner(d) # signedInAs

=============================================================================
