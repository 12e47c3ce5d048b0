---------------------------- MODULE PassportBook ----------------------------
(***************************************************************************)
(* passport/book.py: the passport of one policy and the receipts of its    *)
(* decisions, written by a reconciliation that any process may run: a      *)
(* sweep in the background, and the request that just changed something.   *)
(* Inside a process the book's lock lets one pass run at a time; between   *)
(* processes only the primary keys stand.  A pass reads the policies in    *)
(* one transaction and issues in another; C2, C4, C5, C8 and the devices   *)
(* change what it reads at any time.                                       *)
(*                                                                         *)
(* What a document says is abstracted to what the passes compare: the      *)
(* policy's terms (instruction, checks, platform id), the facts read again *)
(* at the time of issue (devices, remembered confirmations), and whether   *)
(* the policy has ended.                                                   *)
(***************************************************************************)
EXTENDS Integers, Sequences, SequencesExt

CONSTANTS
  Process,      \* processes on one store
  Purchase,     \* step-ups decided under the policy
  Device,       \* devices enrolled on the card
  MaxChanges,   \* bound on changes of the policy's terms and of the facts
  MaxCrashes    \* bound on process deaths

None == "none"

BookAssumption ==
  /\ MaxChanges \in Nat /\ MaxCrashes \in Nat
  /\ Device \cap {None, "timeout", "unnamed"} = {}

VARIABLES
  clock,      \* orders what is stored: decisions and versions
  policy,     \* the Mandate row: its status, terms, and who it came from
  facts,      \* the card's devices and the policy's confirmations, as a count of changes
  versions,   \* the Passport rows, by version
  dec,        \* the Decision rows
  receipt,    \* the Receipt rows
  noted,      \* each process's _answers: the device noted for a purchase
  asking,     \* C8 calls between note_answer and their answer
  task,       \* each process's pass inside the book's lock
  todo,       \* passes a request of the process has still to run
  crashes

store == <<clock, policy, facts, versions, dec, receipt>>
memory == <<noted, asking, task, todo>>
vars == <<store, memory, crashes>>

NoTask == [pc |-> "none"]
Reason == {"confirmed", "operator_run", "backfill", "changed", "revoked"}
Version == [terms : 0..MaxChanges, facts : Nat, ended : BOOLEAN, at : Nat, reason : Reason]
Answer == Device \cup {"timeout", "unnamed"}

TypeOK ==
  /\ policy \in [status : {"none", "active", "ended"}, terms : 0..MaxChanges,
                 first : {"confirmed", "operator_run"}]
  /\ facts \in Nat /\ clock \in Nat
  /\ versions \in Seq(Version)
  /\ dec \in [Purchase -> [state : {"none", "pending", "closed"}, by : Answer \cup {None}, at : Nat]]
  /\ receipt \in [Purchase -> [version : Nat, answer : Answer \cup {None}, issued : BOOLEAN]]
  /\ noted \in [Process -> [Purchase -> Device \cup {None}]]
  /\ asking \in [Process -> SUBSET (Purchase \X Device)]

Init ==
  /\ clock = 0
  /\ \E first \in {"confirmed", "operator_run"} :
       policy = [status |-> "none", terms |-> 0, first |-> first]
  /\ facts = 0
  /\ versions = <<>>
  /\ dec = [d \in Purchase |-> [state |-> "none", by |-> None, at |-> 0]]
  /\ receipt = [d \in Purchase |-> [version |-> 0, answer |-> None, issued |-> FALSE]]
  /\ noted = [p \in Process |-> [d \in Purchase |-> None]]
  /\ asking = [p \in Process |-> {}]
  /\ task = [p \in Process |-> NoTask]
  /\ todo = [p \in Process |-> {}]
  /\ crashes = 0

----------------------------------------------------------------------------
(* What changes under the book: C2, C4, C5, the devices, and decisions.    *)

Reissue(p, reason) == todo' = [todo EXCEPT ![p] = @ \cup {reason}]

\* C2, or D3 under the scenario's instruction; the passport is reissued after
\* the card's earlier policy was ended, at the platform too.
Confirm(p) ==
  /\ policy.status = "none"
  /\ policy' = [policy EXCEPT !.status = "active"]
  /\ Reissue(p, policy.first)
  /\ UNCHANGED <<clock, facts, versions, dec, receipt, noted, asking, task, crashes>>

Tighten(p) ==
  /\ policy.status = "active" /\ policy.terms < MaxChanges
  /\ policy' = [policy EXCEPT !.terms = @ + 1]
  /\ Reissue(p, "confirmed")
  /\ UNCHANGED <<clock, facts, versions, dec, receipt, noted, asking, task, crashes>>

Revoke(p) ==
  /\ policy.status = "active"
  /\ policy' = [policy EXCEPT !.status = "ended"]
  /\ Reissue(p, "confirmed")
  /\ UNCHANGED <<clock, facts, versions, dec, receipt, noted, asking, task, crashes>>

\* A device enrolled, removed or made controller; a step-up approved.
ChangeFacts(p) ==
  /\ facts < MaxChanges
  /\ facts' = facts + 1
  /\ Reissue(p, "confirmed")
  /\ UNCHANGED <<clock, policy, versions, dec, receipt, noted, asking, task, crashes>>

\* A purchase asks the customer.
StepUp(d) ==
  /\ policy.status = "active"
  /\ dec[d].state = "none"
  /\ clock' = clock + 1
  /\ dec' = [dec EXCEPT ![d] = [state |-> "pending", by |-> None, at |-> clock + 1]]
  /\ UNCHANGED <<policy, facts, versions, receipt, memory, crashes>>

TimesOut(d) ==
  /\ dec[d].state = "pending"
  /\ dec' = [dec EXCEPT ![d].state = "closed", ![d].by = "timeout"]
  /\ UNCHANGED <<clock, policy, facts, versions, receipt, memory, crashes>>

\* C8: the device is noted before the answer is given; the first answer counts.
NoteAnswer(p, d, dv) ==
  /\ dec[d].state = "pending"
  /\ <<d, dv>> \notin asking[p]
  /\ noted' = [noted EXCEPT ![p][d] = dv]
  /\ asking' = [asking EXCEPT ![p] = @ \cup {<<d, dv>>}]
  /\ UNCHANGED <<store, task, todo, crashes>>

Resolve(p, d, dv) ==
  /\ <<d, dv>> \in asking[p]
  /\ asking' = [asking EXCEPT ![p] = @ \ {<<d, dv>>}]
  /\ IF dec[d].state = "pending"
     THEN /\ dec' = [dec EXCEPT ![d].state = "closed", ![d].by = dv]
          /\ todo' = [todo EXCEPT ![p] = @ \cup {d, "confirmed"}]
     ELSE UNCHANGED <<dec, todo>>
  /\ UNCHANGED <<clock, policy, facts, versions, receipt, noted, task, crashes>>

----------------------------------------------------------------------------
(* sync_passports *)

Free(p) == task[p] = NoTask

\* The policies a pass looks at: the active, and the ended whose passport does
\* not say so yet.
Listed == \/ policy.status = "active"
          \/ policy.status = "ended" /\ versions # <<>> /\ ~Last(versions).ended

ListPassports(p, reason) ==
  /\ Free(p)
  /\ task' = [task EXCEPT ![p] =
       IF Listed THEN [pc |-> "passport", reason |-> reason,
                       copy |-> [terms |-> policy.terms, ended |-> policy.status # "active"]]
       ELSE NoTask]
  /\ UNCHANGED <<store, noted, asking, crashes>>

ReissuePassports(p) ==
  \E r \in todo[p] \cap {"confirmed", "operator_run"} :
    /\ ListPassports(p, r)
    /\ todo' = [todo EXCEPT ![p] = @ \ {r}]

SweepPassports(p) == ListPassports(p, "backfill") /\ UNCHANGED todo

Says(v) == [terms |-> v.terms, facts |-> v.facts, ended |-> v.ended]

\* A new version is due when what the policy, read before, and the facts, read
\* now, say is not what the latest version says; a revoked passport is final.
Due(body) ==
  IF versions = <<>> THEN ~body.ended
  ELSE ~Last(versions).ended /\ Says(Last(versions)) # Says(body)

ReasonOf(body, first) ==
  IF versions = <<>> THEN first ELSE IF body.ended THEN "revoked" ELSE "changed"

ComparePassport(p) ==
  LET t == task[p]
      body == [terms |-> t.copy.terms, facts |-> facts, ended |-> t.copy.ended,
               at |-> clock, reason |-> ReasonOf([ended |-> t.copy.ended], t.reason)]
  IN /\ t.pc = "passport"
     /\ task' = [task EXCEPT ![p] =
          IF Due(body) THEN [pc |-> "issue", body |-> body, number |-> Len(versions) + 1]
          ELSE NoTask]
     /\ UNCHANGED <<store, noted, asking, todo, crashes>>

\* The insert fails when another process issued that version (primary key);
\* the next pass compares again.
Issuable(t) == t.number = Len(versions) + 1

IssuePassport(p) ==
  /\ task[p].pc = "issue"
  /\ IF Issuable(task[p])
     THEN /\ versions' = Append(versions, task[p].body)
          /\ clock' = clock + 1
     ELSE UNCHANGED <<versions, clock>>
  /\ task' = [task EXCEPT ![p] = NoTask]
  /\ UNCHANGED <<policy, facts, dec, receipt, noted, asking, todo, crashes>>

----------------------------------------------------------------------------
(* sync_receipts *)

Closed(d) == dec[d].state = "closed"
Missing == {d \in Purchase : dec[d].state # "none" /\ ~receipt[d].issued}
Unanswered == {d \in Purchase : Closed(d) /\ receipt[d].issued /\ receipt[d].answer = None}

\* The pass keeps copies of the decisions it read.
ListReceipts(p, wanted) ==
  /\ Free(p)
  /\ LET new == Missing \cap wanted
         due == Unanswered \cap wanted
     IN /\ new \cup due # {}
        /\ task' = [task EXCEPT ![p] = [pc |-> "receipts", new |-> new, due |-> due, copy |-> dec]]
  /\ UNCHANGED <<store, noted, asking, crashes>>

AnswerReceipt(p) ==
  \E d \in todo[p] \cap Purchase :
    \/ /\ ListReceipts(p, {d})
       /\ todo' = [todo EXCEPT ![p] = @ \ {d}]
    \/ /\ Free(p) /\ d \notin Missing \cup Unanswered
       /\ todo' = [todo EXCEPT ![p] = @ \ {d}]
       /\ UNCHANGED <<store, noted, asking, task, crashes>>

SweepReceipts(p) == ListReceipts(p, Purchase) /\ UNCHANGED todo

\* The version in force when the decision was made, or the first one.
InForce(copy) ==
  LET before == {i \in 1..Len(versions) : versions[i].at < copy.at}
  IN IF versions = <<>> THEN 0
     ELSE IF before = {} THEN 1
     ELSE CHOOSE i \in before : \A j \in before : j <= i

\* resolution: who closed it, with the device this process noted for it.
Resolution(p, d, copy) ==
  IF copy.state # "closed" THEN None
  ELSE IF copy.by = "timeout" THEN "timeout"
  ELSE IF noted[p][d] = None THEN "unnamed" ELSE noted[p][d]

\* One transaction for the missing receipts; if another process issued one
\* meanwhile, one for each, skipping what exists.  Then the answers are
\* forgotten, and those whose step-up was answered since are re-signed, each
\* only if no other process did (resolved_at is still NULL).
IssueReceipts(p) ==
  LET t == task[p]
      add == {d \in t.new : ~receipt[d].issued}
  IN /\ t.pc = "receipts"
     /\ receipt' = [d \in Purchase |->
          IF d \in add
          THEN [issued |-> TRUE, version |-> InForce(t.copy[d]), answer |-> Resolution(p, d, t.copy[d])]
          ELSE receipt[d]]
     /\ noted' = [noted EXCEPT ![p] = [d \in Purchase |->
          IF d \in add /\ Resolution(p, d, t.copy[d]) # None THEN None ELSE @[d]]]
     /\ task' = [task EXCEPT ![p] = [pc |-> "resign", due |-> t.due, copy |-> t.copy]]
     /\ UNCHANGED <<clock, policy, facts, versions, dec, asking, todo, crashes>>

Resignable_M(d) == TRUE
Resignable(d) == receipt[d].answer = None

ResignReceipt(p, d) ==
  LET t == task[p]
  IN /\ t.pc = "resign" /\ d \in t.due
     /\ receipt' = IF Resignable(d)
                   THEN [receipt EXCEPT ![d].answer = Resolution(p, d, t.copy[d])]
                   ELSE receipt
     /\ noted' = IF Resignable(d) THEN [noted EXCEPT ![p][d] = None] ELSE noted
     /\ task' = [task EXCEPT ![p].due = @ \ {d}]
     /\ UNCHANGED <<clock, policy, facts, versions, dec, asking, todo, crashes>>

EndReceipts(p) ==
  /\ task[p].pc = "resign" /\ task[p].due = {}
  /\ task' = [task EXCEPT ![p] = NoTask]
  /\ UNCHANGED <<store, noted, asking, todo, crashes>>

\* A process dies: its notes, its calls and what they had still to do are gone.
Crash(p) ==
  /\ crashes < MaxCrashes
  /\ crashes' = crashes + 1
  /\ noted' = [noted EXCEPT ![p] = [d \in Purchase |-> None]]
  /\ asking' = [asking EXCEPT ![p] = {}]
  /\ task' = [task EXCEPT ![p] = NoTask]
  /\ todo' = [todo EXCEPT ![p] = {}]
  /\ UNCHANGED store

Changes(p) == Confirm(p) \/ Tighten(p) \/ Revoke(p) \/ ChangeFacts(p)
Answers(p) == \E d \in Purchase, dv \in Device : NoteAnswer(p, d, dv) \/ Resolve(p, d, dv)
Passports(p) == ReissuePassports(p) \/ SweepPassports(p) \/ ComparePassport(p) \/ IssuePassport(p)
Receipts(p) ==
  \/ AnswerReceipt(p) \/ SweepReceipts(p) \/ IssueReceipts(p) \/ EndReceipts(p)
  \/ \E d \in Purchase : ResignReceipt(p, d)

Next ==
  \/ \E p \in Process : Changes(p) \/ Answers(p) \/ Passports(p) \/ Receipts(p) \/ Crash(p)
  \/ \E d \in Purchase : StepUp(d) \/ TimesOut(d)

Spec == Init /\ [][Next]_vars

\* The sweep runs every few seconds in every process, and takes the book's
\* lock in its turn (a threading.Lock that every pass gives back); a pass that
\* has begun goes on.
Fairness ==
  /\ \A p \in Process :
       /\ SF_vars(SweepPassports(p)) /\ SF_vars(SweepReceipts(p))
       /\ WF_vars(ComparePassport(p)) /\ WF_vars(IssuePassport(p))
       /\ WF_vars(IssueReceipts(p)) /\ WF_vars(EndReceipts(p))
       /\ WF_vars(\E d \in Purchase : ResignReceipt(p, d))
FairSpec == Spec /\ Fairness

----------------------------------------------------------------------------
\* passport.md: a revoked passport never changes again, whichever process
\* compares with what it read before.
RevokedIsFinal == \A i \in 1..Len(versions) : versions[i].ended => i = Len(versions)

\* A version is issued only when what it says has changed, though two
\* processes find the same change.
NoEmptyVersion ==
  \A i \in 1..Len(versions) - 1 : Says(versions[i]) # Says(versions[i + 1])

\* A receipt that carries an answer is not signed with another one.
AnswerStays ==
  [][ \A d \in DOMAIN receipt : receipt[d].answer # None => receipt'[d] = receipt[d] ]_vars

\* passport.md: a receipt names the version in force when the decision was made
\* (the first one, for a decision older than every version): no later version
\* was in force already, and the one named was.
VersionInForce ==
  \A d \in Purchase : receipt[d].issued /\ receipt[d].version # 0 =>
    LET n == receipt[d].version
    IN /\ n > 1 => versions[n].at < dec[d].at
       /\ \A i \in n + 1..Len(versions) : versions[i].at >= dec[d].at

\* A receipt tells the customer's answer from the timeout's, even when it was
\* signed from a copy of the decision.
AnswerIsTheDecisions ==
  \A d \in Purchase : receipt[d].answer # None =>
    Closed(d) /\ (receipt[d].answer = "timeout" <=> dec[d].by = "timeout")

\* The documents catch up with the store: the latest version says what the
\* policy and the card's devices say, every decision has a receipt, every
\* answered one its answer.
UpToDate ==
  /\ policy.status = "active" =>
       versions # <<>> /\ Says(Last(versions)) = [terms |-> policy.terms, facts |-> facts, ended |-> FALSE]
  /\ policy.status = "ended" /\ versions # <<>> => Last(versions).ended
  /\ \A d \in Purchase : dec[d].state # "none" => receipt[d].issued
  /\ \A d \in Purchase : Closed(d) => receipt[d].answer # None
CatchesUp == <>[]UpToDate

=============================================================================
