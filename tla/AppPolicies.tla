----------------------------- MODULE AppPolicies -----------------------------
(***************************************************************************)
(* The policies the customer's app shows                                   *)
(* (frontend/src/state/PolicyProvider.tsx).  They are read again after     *)
(* every poll of the decisions, every answer, and every change she makes   *)
(* herself (C2, C4, C5), so reads overlap with one another and with her    *)
(* changes.  Each read and each change takes a number when it starts.      *)
(*                                                                         *)
(* A policy is the version the server has of it, counted up by every       *)
(* change, hers or not (another phone, the operator, the ledger's usage).  *)
(***************************************************************************)
EXTENDS Naturals, FiniteSets

CONSTANTS
  Changes,     \* the changes she makes
  MaxNumber,   \* bound on the numbers given out
  MaxVersion,  \* bound on the server's versions
  InTurn,      \* the server serves reads in the order they were sent
  Losses       \* reads may fail

PoliciesAssumption ==
  {MaxNumber, MaxVersion} \subseteq Nat \ {0} /\ {InTurn, Losses} \subseteq BOOLEAN

VARIABLES
  version,         \* the server's
  policies,        \* policiesByCard: the version shown, 0 for none
  status,          \* "loading", "ready" or "error"
  counter, lastApplied, lastLocalChange,
  reads,           \* the read of each number
  change           \* where each of her changes is, and what it made

vars == <<version, policies, status, counter, lastApplied, lastLocalChange, reads, change>>

Number == 1..MaxNumber
Read == [at: {"none", "sent", "served", "ended", "failed"}, seen: 0..MaxVersion]
Change == [at: {"none", "sent", "taken", "shown"}, made: 0..MaxVersion]

TypeOK ==
  /\ version \in 1..MaxVersion /\ policies \in 0..MaxVersion
  /\ status \in {"loading", "ready", "error"}
  /\ {counter, lastApplied, lastLocalChange} \subseteq 0..MaxNumber
  /\ reads \in [Number -> Read] /\ change \in [Changes -> Change]

Sent(rs, n) == [rs EXCEPT ![n] = [at |-> "sent", seen |-> 0]]

(* Signing in mounts the provider, which reads at once. *)
Init ==
  /\ version = 1 /\ policies = 0 /\ status = "loading"
  /\ counter = 1 /\ lastApplied = 0 /\ lastLocalChange = 0
  /\ reads = Sent([n \in Number |-> [at |-> "none", seen |-> 0]], 1)
  /\ change = [c \in Changes |-> [at |-> "none", made |-> 0]]

-----------------------------------------------------------------------------
(* Reading. *)

refreshPolicies ==
  /\ counter < MaxNumber
  /\ counter' = counter + 1 /\ reads' = Sent(reads, counter + 1)
  /\ UNCHANGED <<version, policies, status, lastApplied, lastLocalChange, change>>

retry ==
  /\ status = "error" /\ counter < MaxNumber
  /\ status' = "loading"
  /\ counter' = counter + 1 /\ reads' = Sent(reads, counter + 1)
  /\ UNCHANGED <<version, policies, lastApplied, lastLocalChange, change>>

(* C3, at the server. *)
Serves(n) ==
  /\ reads[n].at = "sent"
  /\ InTurn => \A m \in Number : m < n => reads[m].at # "sent"
  /\ reads' = [reads EXCEPT ![n] = [at |-> "served", seen |-> version]]
  /\ UNCHANGED <<version, policies, status, counter, lastApplied, lastLocalChange, change>>

(* A bug a change could bring: a read that started before her change counts. *)
Counts_M(n) == n >= lastApplied

(* A read already superseded, or started before her change, is dropped. *)
Counts(n) == n >= lastApplied /\ n >= lastLocalChange

Lands(n) ==
  /\ reads[n].at = "served"
  /\ reads' = [reads EXCEPT ![n].at = "ended"]
  /\ IF Counts(n)
       THEN lastApplied' = n /\ policies' = reads[n].seen /\ status' = "ready"
       ELSE UNCHANGED <<lastApplied, policies, status>>
  /\ UNCHANGED <<version, counter, lastLocalChange, change>>

(* A failed read keeps what is on screen. *)
Fails(n) ==
  /\ reads[n].at \in {"sent", "served"} /\ Losses
  /\ reads' = [reads EXCEPT ![n].at = "failed"]
  /\ status' = IF status = "ready" THEN status ELSE "error"
  /\ UNCHANGED <<version, policies, counter, lastApplied, lastLocalChange, change>>

-----------------------------------------------------------------------------
(* Changing. *)

Elsewhere ==
  /\ version < MaxVersion /\ version' = version + 1
  /\ UNCHANGED <<policies, status, counter, lastApplied, lastLocalChange, reads, change>>

Asks(c) ==
  /\ change[c].at = "none" /\ policies # 0
  /\ change' = [change EXCEPT ![c].at = "sent"]
  /\ UNCHANGED <<version, policies, status, counter, lastApplied, lastLocalChange, reads>>

Taken(c) ==
  /\ change[c].at = "sent" /\ version < MaxVersion
  /\ version' = version + 1
  /\ change' = [change EXCEPT ![c] = [at |-> "taken", made |-> version + 1]]
  /\ UNCHANGED <<policies, status, counter, lastApplied, lastLocalChange, reads>>

(* The reply: shown at once (setPolicyForCard, revokePolicyForCard), then   *)
(* read again.                                                              *)
setPolicyForCard(c) ==
  /\ change[c].at = "taken" /\ counter + 2 <= MaxNumber
  /\ policies' = change[c].made
  /\ lastLocalChange' = counter + 1 /\ counter' = counter + 2
  /\ reads' = Sent(reads, counter + 2)
  /\ change' = [change EXCEPT ![c].at = "shown"]
  /\ UNCHANGED <<version, status, lastApplied>>

Next ==
  \/ refreshPolicies \/ retry \/ Elsewhere
  \/ \E n \in Number : Serves(n) \/ Lands(n) \/ Fails(n)
  \/ \E c \in Changes : Asks(c) \/ Taken(c) \/ setPolicyForCard(c)

Spec == Init /\ [][Next]_vars

-----------------------------------------------------------------------------
(* lastLocalChange: no read, whenever it started and comes back, replaces   *)
(* what is shown by a policy older than a change of hers already shown.     *)
HerChangeStands ==
  [][\A n \in Number, c \in Changes :
       Lands(n) /\ change[c].at = "shown" => policies' = policies \/ policies' >= change[c].made]_vars

(* lastApplied: as long as the server serves reads in turn, none that       *)
(* lands late shows an older policy than the one on screen.                 *)
ReadsNeverGoBack ==
  [][InTurn /\ (\E n \in Number : Lands(n)) => policies' >= policies]_vars

(* Dropping reads loses nothing: once all are back, and her changes too,    *)
(* what is shown is what the last read saw.                                 *)
LastReadShown ==
  (\A n \in Number : reads[n].at \notin {"sent", "served"}) /\ status = "ready" /\ ~Losses =>
    LET read == {n \in Number : reads[n].at = "ended"}
    IN \A n \in read : (\A m \in read : m <= n) => policies = reads[n].seen

=============================================================================
