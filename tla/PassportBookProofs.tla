------------------------- MODULE PassportBookProofs -------------------------
(***************************************************************************)
(* What TLAPS proves of PassportBook, for any processes, decisions,        *)
(* devices, changes and deaths: its types, that a revoked passport is      *)
(* final, that no version repeats the one before it, that a receipt's      *)
(* answer is the decision's and stays; and, for one process, that a        *)
(* receipt names the version in force when the decision was made.          *)
(***************************************************************************)
EXTENDS PassportBook, TLAPS

(* What a pass holds, at each of its stages. *)
DecRows == [Purchase -> [state : {"none", "pending", "closed"}, by : Answer \cup {None}, at : Nat]]
Tasks ==
    {NoTask}
    \cup [pc : {"passport"}, reason : {"confirmed", "operator_run", "backfill"},
          copy : [terms : 0..MaxChanges, ended : BOOLEAN]]
    \cup [pc : {"issue"}, body : Version, number : Nat]
    \cup [pc : {"receipts"}, new : SUBSET Purchase, due : SUBSET Purchase, copy : DecRows]
    \cup [pc : {"resign"}, due : SUBSET Purchase, copy : DecRows]

TypeInv == TypeOK /\ task \in [Process -> Tasks]

(* What is about to be issued was due when it was compared, and still is   *)
(* while its number is free. *)
IssueOf(p) ==
    task[p].pc = "issue" =>
        /\ task[p].number <= Len(versions) + 1
        /\ Issuable(task[p]) => Due(task[p].body)
IssueInv == \A p \in Process : IssueOf(p)

(* Receipts are issued for decisions, and answered where these are closed. *)
ReceiptInv ==
    \A d \in Purchase :
        /\ receipt[d].issued => dec[d].state # "none"
        /\ ~receipt[d].issued => receipt[d].answer = None /\ receipt[d].version = 0

(* A pass holds rows that are so still, or were pending and have closed.   *)
CopyOf(p, d) ==
    task[p].pc \in {"receipts", "resign"} =>
        LET copy == task[p].copy[d]
        IN /\ copy.state # "none" => dec[d].state # "none" /\ dec[d].at = copy.at
           /\ copy.state = "closed" => dec[d] = copy
           /\ task[p].pc = "receipts" /\ d \in task[p].new => copy.state # "none"
           /\ d \in task[p].due => copy.state = "closed" /\ receipt[d].issued
CopyInv == \A p \in Process, d \in Purchase : CopyOf(p, d)

(* Of the versions before a time one is the last. *)
Before(a) == {i \in 1..Len(versions) : versions[i].at < a}
LastBefore ==
    \A a \in Nat : Before(a) # {} => \E i \in Before(a) : \A j \in Before(a) : j <= i

IInv ==
    /\ TypeInv /\ LastBefore /\ IssueInv /\ ReceiptInv /\ CopyInv
    /\ RevokedIsFinal /\ NoEmptyVersion /\ AnswerIsTheDecisions

(* No decision is of a later time, no receipt of a version to come. *)
TimeInv ==
    \A d \in Purchase :
        dec[d].at <= clock /\ receipt[d].version \in 0..Len(versions)

(* With one process nothing is issued between a comparison and its version. *)
SingleOf(p) ==
    task[p].pc = "issue" =>
        \A d \in Purchase : receipt[d].issued => dec[d].at <= task[p].body.at
SingleInv == \A p \in Process : SingleOf(p)

(* What VersionInForce says of one receipt. *)
NamedInForce(d) ==
    receipt[d].issued /\ receipt[d].version # 0 =>
        /\ receipt[d].version > 1 => versions[receipt[d].version].at < dec[d].at
        /\ \A i \in receipt[d].version + 1..Len(versions) : versions[i].at >= dec[d].at

OrderInv == TimeInv /\ SingleInv /\ VersionInForce

OneProcess == \A p, q \in Process : p = q

-----------------------------------------------------------------------------
(* Lemmas about what the passes hold *)

LEMMA TaskFacts ==
    ASSUME TypeInv, NEW p \in Process
    PROVE  /\ task[p] \in Tasks
           /\ task[p].pc = "passport" =>
                /\ task[p].reason \in {"confirmed", "operator_run", "backfill"}
                /\ task[p].copy \in [terms : 0..MaxChanges, ended : BOOLEAN]
           /\ task[p].pc = "issue" => task[p].body \in Version /\ task[p].number \in Nat
           /\ task[p].pc = "receipts" =>
                /\ task[p].new \in SUBSET Purchase /\ task[p].due \in SUBSET Purchase
                /\ task[p].copy \in DecRows
           /\ task[p].pc = "resign" => task[p].due \in SUBSET Purchase /\ task[p].copy \in DecRows
BY DEF TypeInv, Tasks, NoTask

(* What a version says depends on its three fields. *)
LEMMA LastOfAppend ==
    ASSUME NEW s \in Seq(Version), NEW v \in Version
    PROVE  /\ Append(s, v) \in Seq(Version) /\ Len(Append(s, v)) = Len(s) + 1
           /\ \A i \in 1..Len(s) : Append(s, v)[i] = s[i]
           /\ Append(s, v)[Len(s) + 1] = v /\ Append(s, v) # <<>>
           /\ Len(s) \in Nat /\ (s = <<>> <=> Len(s) = 0)
           /\ Last(s) = s[Len(s)]
BY DEF Last

(* The answer a receipt is signed with: none, the timeout's or a device's. *)
LEMMA ResolutionIs ==
    ASSUME BookAssumption, TypeInv, NEW p \in Process, NEW d \in Purchase, NEW copy
    PROVE  /\ Resolution(p, d, copy) \in Answer \cup {None}
           /\ Resolution(p, d, copy) = None <=> copy.state # "closed"
           /\ copy.state = "closed" => (Resolution(p, d, copy) = "timeout" <=> copy.by = "timeout")
<1>1. noted[p][d] \in Device \cup {None}
  BY DEF TypeInv, TypeOK
<1> QED
  BY <1>1 DEF BookAssumption, Resolution, Answer, None

LEMMA VersionsTyped ==
    ASSUME TypeInv
    PROVE  /\ versions \in Seq(Version) /\ Len(versions) \in Nat
           /\ \A i \in 1..Len(versions) : versions[i] \in Version /\ versions[i].at \in Nat
<1>1. versions \in Seq(Version) /\ Len(versions) \in Nat
  BY DEF TypeInv, TypeOK
<1>2. \A v \in Version : v.at \in Nat
  BY DEF Version
<1> QED
  BY <1>1, <1>2

(* The version in force is the last before the decision, or the first. *)
LEMMA InForceIs ==
    ASSUME TypeInv, LastBefore, NEW copy, copy.at \in Nat
    PROVE  /\ InForce(copy) \in 0..Len(versions)
           /\ InForce(copy) # 0 =>
                /\ InForce(copy) > 1 => versions[InForce(copy)].at < copy.at
                /\ \A i \in InForce(copy) + 1..Len(versions) : versions[i].at >= copy.at
<1> DEFINE before == Before(copy.at)
<1>1. /\ versions \in Seq(Version) /\ Len(versions) \in Nat
      /\ \A i \in 1..Len(versions) : versions[i].at \in Nat
  BY VersionsTyped
<1>2. before \subseteq 1..Len(versions)
  BY DEF Before
<1>3. InForce(copy) = IF versions = <<>> THEN 0
                      ELSE IF before = {} THEN 1
                      ELSE CHOOSE i \in before : \A j \in before : j <= i
  BY DEF InForce, Before
<1>4. CASE versions = <<>>
  <2>1. InForce(copy) = 0
    BY <1>3, <1>4
  <2> QED
    BY <1>1, <2>1
<1>5. CASE versions # <<>> /\ before = {}
  <2>1. InForce(copy) = 1 /\ Len(versions) >= 1
    BY <1>1, <1>3, <1>5
  <2>2. \A i \in 1..Len(versions) : versions[i].at >= copy.at
    BY <1>1, <1>5 DEF Before
  <2> QED
    BY <1>1, <2>1, <2>2
<1>6. CASE versions # <<>> /\ before # {}
  <2>1. InForce(copy) \in before /\ \A j \in before : j <= InForce(copy)
    BY <1>3, <1>6 DEF LastBefore
  <2>2. versions[InForce(copy)].at < copy.at
    BY <2>1 DEF Before
  <2>3. \A i \in InForce(copy) + 1..Len(versions) : i \in 1..Len(versions) /\ i \notin before
    BY <1>1, <1>2, <2>1
  <2>4. \A i \in InForce(copy) + 1..Len(versions) : versions[i].at >= copy.at
    BY <1>1, <2>3 DEF Before
  <2> QED
    BY <1>1, <1>2, <2>1, <2>2, <2>4
<1> QED
  BY <1>4, <1>5, <1>6

-----------------------------------------------------------------------------
(* The steps, by what they do to the documents and to the passes *)

(* A decision begins, or one that waits is closed. *)
DecMoves ==
    \A d \in Purchase :
        \/ dec'[d] = dec[d]
        \/ /\ dec[d].state = "none" /\ dec'[d].state = "pending"
           /\ dec'[d].at = clock + 1 /\ clock' = clock + 1
        \/ /\ dec[d].state = "pending" /\ dec'[d].state = "closed"
           /\ dec'[d].at = dec[d].at

(* A step of what the book reads; one that begins or ends a pass; one that *)
(* lists receipts. *)
Outside ==
    /\ UNCHANGED <<versions, receipt, task>>
    /\ DecMoves /\ clock' \in {clock, clock + 1}
Turns(p) ==
    /\ UNCHANGED <<versions, receipt, dec, clock>>
    /\ \E x \in Tasks : x.pc \in {"none", "passport"} /\ task' = [task EXCEPT ![p] = x]
Lists(p) ==
    /\ UNCHANGED <<versions, receipt, dec, clock>>
    /\ \E new \in SUBSET Missing, due \in SUBSET Unanswered :
          task' = [task EXCEPT ![p] = [pc |-> "receipts", new |-> new, due |-> due, copy |-> dec]]

Kinds ==
    \/ Outside
    \/ \E p \in Process :
          \/ Turns(p) \/ ComparePassport(p) \/ IssuePassport(p)
          \/ Lists(p) \/ IssueReceipts(p) \/ \E d \in Purchase : ResignReceipt(p, d)

LEMMA StepKinds ==
    ASSUME TypeInv, Next
    PROVE  Kinds
<1> USE DEF Kinds
<1>0. /\ dec \in DecRows /\ clock \in Nat
      /\ policy.terms \in 0..MaxChanges
  BY DEF TypeInv, TypeOK, DecRows
<1>1. NoTask \in Tasks /\ NoTask.pc = "none"
  BY DEF Tasks, NoTask
<1>2. ASSUME UNCHANGED <<versions, receipt, task, dec, clock>> PROVE Outside
  BY <1>2 DEF Outside, DecMoves
<1>3. ASSUME NEW p \in Process, Changes(p) PROVE Outside
  BY <1>2, <1>3 DEF Changes, Confirm, Tighten, Revoke, ChangeFacts
<1>4. ASSUME NEW d \in Purchase, StepUp(d) PROVE Outside
  BY <1>0, <1>4 DEF StepUp, Outside, DecMoves, memory, DecRows
<1>5. ASSUME NEW d \in Purchase, TimesOut(d) PROVE Outside
  BY <1>0, <1>5 DEF TimesOut, Outside, DecMoves, memory, DecRows
<1>6. ASSUME NEW p \in Process, NEW d \in Purchase, NEW dv \in Device, NoteAnswer(p, d, dv)
      PROVE  Outside
  BY <1>2, <1>6 DEF NoteAnswer, store
<1>7. ASSUME NEW p \in Process, NEW d \in Purchase, NEW dv \in Device, Resolve(p, d, dv)
      PROVE  Outside
  BY <1>0, <1>2, <1>7 DEF Resolve, Outside, DecMoves, DecRows
<1>8. ASSUME NEW p \in Process, NEW r \in {"confirmed", "operator_run", "backfill"},
             ListPassports(p, r)
      PROVE  Turns(p)
  <2> DEFINE x == [pc |-> "passport", reason |-> r,
                   copy |-> [terms |-> policy.terms, ended |-> policy.status # "active"]]
  <2>1. x \in Tasks /\ x.pc = "passport"
    BY <1>0 DEF Tasks
  <2>2. /\ UNCHANGED <<versions, receipt, dec, clock>>
        /\ task' = [task EXCEPT ![p] = IF Listed THEN x ELSE NoTask]
    BY <1>8 DEF ListPassports, store
  <2> HIDE DEF x
  <2> QED
    BY <1>1, <2>1, <2>2 DEF Turns
<1>9. ASSUME NEW p \in Process, Passports(p)
      PROVE  Turns(p) \/ ComparePassport(p) \/ IssuePassport(p)
  BY <1>8, <1>9 DEF Passports, ReissuePassports, SweepPassports
<1>10. ASSUME NEW p \in Process, NEW wanted, ListReceipts(p, wanted) PROVE Lists(p)
  BY <1>10 DEF ListReceipts, Lists, store
<1>11. ASSUME NEW p \in Process, AnswerReceipt(p) PROVE Lists(p) \/ Outside
  BY <1>2, <1>10, <1>11 DEF AnswerReceipt, store
<1>12. ASSUME NEW p \in Process, EndReceipts(p) \/ Crash(p) PROVE Turns(p)
  BY <1>1, <1>12 DEF EndReceipts, Crash, Turns, store
<1>13. ASSUME NEW p \in Process, Receipts(p)
       PROVE  \/ Lists(p) \/ Outside \/ Turns(p) \/ IssueReceipts(p)
              \/ \E d \in Purchase : ResignReceipt(p, d)
  BY <1>10, <1>11, <1>12, <1>13 DEF Receipts, SweepReceipts
<1>14. ASSUME NEW p \in Process, Answers(p) PROVE Outside
  BY <1>6, <1>7, <1>14 DEF Answers
<1> QED
  BY <1>3, <1>4, <1>5, <1>9, <1>12, <1>13, <1>14 DEF Next

(* The types of what the passes leave alone. *)
LEMMA RowTypes ==
    ASSUME BookAssumption, TypeInv, Next
    PROVE  /\ policy' \in [status : {"none", "active", "ended"}, terms : 0..MaxChanges,
                           first : {"confirmed", "operator_run"}]
           /\ facts' \in Nat /\ clock' \in Nat /\ dec' \in DecRows
           /\ noted' \in [Process -> [Purchase -> Device \cup {None}]]
           /\ asking' \in [Process -> SUBSET (Purchase \X Device)]
<1> DEFINE Types ==
        /\ policy' \in [status : {"none", "active", "ended"}, terms : 0..MaxChanges,
                        first : {"confirmed", "operator_run"}]
        /\ facts' \in Nat /\ clock' \in Nat /\ dec' \in DecRows
        /\ noted' \in [Process -> [Purchase -> Device \cup {None}]]
        /\ asking' \in [Process -> SUBSET (Purchase \X Device)]
<1>1. /\ policy \in [status : {"none", "active", "ended"}, terms : 0..MaxChanges,
                     first : {"confirmed", "operator_run"}]
      /\ facts \in Nat /\ clock \in Nat /\ dec \in DecRows
      /\ noted \in [Process -> [Purchase -> Device \cup {None}]]
      /\ asking \in [Process -> SUBSET (Purchase \X Device)]
  BY DEF TypeInv, TypeOK, DecRows
<1>2. ASSUME NEW p \in Process, Confirm(p) \/ Revoke(p) \/ ChangeFacts(p) PROVE Types
  BY <1>1, <1>2 DEF Confirm, Revoke, ChangeFacts
<1>3. ASSUME NEW p \in Process, Tighten(p) PROVE Types
  <2>1. policy.terms + 1 \in 0..MaxChanges
    BY <1>1, <1>3 DEF Tighten, BookAssumption
  <2> QED
    BY <1>1, <1>3, <2>1 DEF Tighten
<1>4. ASSUME NEW d \in Purchase, StepUp(d) PROVE Types
  BY <1>1, <1>4 DEF StepUp, memory, DecRows
<1>5. ASSUME NEW d \in Purchase, TimesOut(d) PROVE Types
  BY <1>1, <1>5, ZenonT(60) DEF TimesOut, memory, DecRows, Answer
<1>6. ASSUME NEW p \in Process, NEW d \in Purchase, NEW dv \in Device, NoteAnswer(p, d, dv)
      PROVE  Types
  BY <1>1, <1>6 DEF NoteAnswer, store
<1>7. ASSUME NEW p \in Process, NEW d \in Purchase, NEW dv \in Device, Resolve(p, d, dv)
      PROVE  Types
  <2>1. dec' \in DecRows
    BY <1>1, <1>7 DEF Resolve, DecRows, Answer
  <2> QED
    BY <1>1, <1>7, <2>1 DEF Resolve
<1>8. ASSUME NEW p \in Process, Passports(p) PROVE Types
  BY <1>1, <1>8 DEF Passports, ReissuePassports, SweepPassports, ListPassports,
     ComparePassport, IssuePassport, store
<1>9. ASSUME NEW p \in Process,
             AnswerReceipt(p) \/ SweepReceipts(p) \/ EndReceipts(p)
      PROVE  Types
  <2>1. UNCHANGED <<store, noted, asking>>
    BY <1>9 DEF AnswerReceipt, SweepReceipts, ListReceipts, EndReceipts
  <2> QED
    BY <1>1, <2>1 DEF store
<1>13. ASSUME NEW p \in Process, Crash(p) PROVE Types
  <2>1. [d \in Purchase |-> None] \in [Purchase -> Device \cup {None}]
    OBVIOUS
  <2> QED
    BY <1>1, <1>13, <2>1 DEF Crash, store
<1>10. ASSUME NEW p \in Process, IssueReceipts(p) PROVE Types
  BY <1>1, <1>10 DEF IssueReceipts
<1>11. ASSUME NEW p \in Process, NEW d \in Purchase, ResignReceipt(p, d) PROVE Types
  BY <1>1, <1>11 DEF ResignReceipt
<1>12. Types
  BY <1>2, <1>3, <1>4, <1>5, <1>6, <1>7, <1>8, <1>9, <1>10, <1>11, <1>13 DEF Next, Changes, Answers,
     Receipts
<1> QED
  BY <1>12

(* What IssueReceipts leaves of a receipt, and of a pass. *)
LEMMA Issued ==
    ASSUME BookAssumption, TypeInv, LastBefore, NEW p \in Process, IssueReceipts(p)
    PROVE  /\ UNCHANGED <<versions, dec, clock>>
           /\ \A d \in Purchase :
                \/ receipt'[d] = receipt[d]
                \/ /\ d \in task[p].new /\ ~receipt[d].issued /\ receipt'[d].issued
                   /\ receipt'[d].answer = Resolution(p, d, task[p].copy[d])
                   /\ receipt'[d].version = InForce(task[p].copy[d])
           /\ receipt' \in [Purchase -> [version : Nat, answer : Answer \cup {None},
                                         issued : BOOLEAN]]
           /\ task' = [task EXCEPT ![p] = [pc |-> "resign", due |-> task[p].due,
                                           copy |-> task[p].copy]]
           /\ task[p].pc = "receipts" /\ task' \in [Process -> Tasks]
<1> DEFINE New(d) == [issued |-> TRUE, version |-> InForce(task[p].copy[d]),
                      answer |-> Resolution(p, d, task[p].copy[d])]
<1>1. /\ UNCHANGED <<versions, dec, clock>> /\ task[p].pc = "receipts"
      /\ task' = [task EXCEPT ![p] = [pc |-> "resign", due |-> task[p].due,
                                      copy |-> task[p].copy]]
      /\ receipt' = [d \in Purchase |->
                       IF d \in {e \in task[p].new : ~receipt[e].issued} THEN New(d) ELSE receipt[d]]
  BY DEF IssueReceipts
<1>2. \A d \in Purchase : task[p].copy[d].at \in Nat
  BY <1>1, TaskFacts DEF DecRows
<1>3. \A d \in Purchase : New(d) \in [version : Nat, answer : Answer \cup {None}, issued : BOOLEAN]
  BY <1>2, InForceIs, ResolutionIs, VersionsTyped
<1>4. receipt \in [Purchase -> [version : Nat, answer : Answer \cup {None}, issued : BOOLEAN]]
  BY DEF TypeInv, TypeOK
<1>5. receipt' \in [Purchase -> [version : Nat, answer : Answer \cup {None}, issued : BOOLEAN]]
  <2> HIDE DEF New
  <2> QED
    BY <1>1, <1>3, <1>4
<1>6. \A d \in Purchase :
        \/ receipt'[d] = receipt[d]
        \/ d \in task[p].new /\ ~receipt[d].issued /\ receipt'[d] = New(d)
  <2> HIDE DEF New
  <2> QED
    BY <1>1
<1>7. [pc |-> "resign", due |-> task[p].due, copy |-> task[p].copy] \in Tasks
  BY <1>1, TaskFacts DEF Tasks
<1>8. task' \in [Process -> Tasks]
  BY <1>1, <1>7 DEF TypeInv
<1> QED
  BY <1>1, <1>5, <1>6, <1>8

(* What ResignReceipt leaves of a receipt, and of a pass. *)
LEMMA Resigned ==
    ASSUME BookAssumption, TypeInv, NEW p \in Process, NEW e \in Purchase, ResignReceipt(p, e)
    PROVE  /\ UNCHANGED <<versions, dec, clock>>
           /\ e \in task[p].due /\ task[p].pc = "resign"
           /\ \A d \in Purchase :
                \/ receipt'[d] = receipt[d]
                \/ /\ d = e /\ receipt[d].answer = None
                   /\ receipt'[d].answer = Resolution(p, d, task[p].copy[d])
                   /\ receipt'[d].issued = receipt[d].issued
                   /\ receipt'[d].version = receipt[d].version
           /\ receipt' \in [Purchase -> [version : Nat, answer : Answer \cup {None},
                                         issued : BOOLEAN]]
           /\ \A q \in Process : task'[q] = task[q] \/ q = p
           /\ task'[p].pc = "resign" /\ task'[p].due \subseteq task[p].due
           /\ task'[p].copy = task[p].copy /\ task' \in [Process -> Tasks]
<1> DEFINE a == Resolution(p, e, task[p].copy[e])
<1>1. /\ UNCHANGED <<versions, dec, clock>> /\ e \in task[p].due /\ task[p].pc = "resign"
      /\ task' = [task EXCEPT ![p].due = @ \ {e}]
      /\ receipt' = IF receipt[e].answer = None THEN [receipt EXCEPT ![e].answer = a] ELSE receipt
  BY DEF ResignReceipt, Resignable
<1>2. a \in Answer \cup {None}
  BY ResolutionIs
<1>3. receipt \in [Purchase -> [version : Nat, answer : Answer \cup {None}, issued : BOOLEAN]]
  BY DEF TypeInv, TypeOK
<1>4. /\ \A d \in Purchase :
           \/ receipt'[d] = receipt[d]
           \/ /\ d = e /\ receipt[d].answer = None
              /\ receipt'[d].answer = a
              /\ receipt'[d].issued = receipt[d].issued
              /\ receipt'[d].version = receipt[d].version
      /\ receipt' \in [Purchase -> [version : Nat, answer : Answer \cup {None}, issued : BOOLEAN]]
  <2> HIDE DEF a
  <2> QED
    BY <1>1, <1>2, <1>3
<1>5. /\ task \in [Process -> Tasks]
      /\ task[p] \in [pc : {"resign"}, due : SUBSET Purchase, copy : DecRows]
  BY <1>1 DEF TypeInv, Tasks, NoTask
<1>6. /\ \A q \in Process : task'[q] = task[q] \/ q = p
      /\ task'[p] = [task[p] EXCEPT !.due = @ \ {e}]
  BY <1>1, <1>5
<1>7. /\ task'[p].pc = "resign" /\ task'[p].due = task[p].due \ {e}
      /\ task'[p].copy = task[p].copy
      /\ task'[p] \in [pc : {"resign"}, due : SUBSET Purchase, copy : DecRows]
  BY <1>5, <1>6
<1>8. task' \in [Process -> Tasks]
  <2>1. task'[p] \in Tasks
    BY <1>7 DEF Tasks
  <2> QED
    BY <1>1, <1>5, <2>1
<1> QED
  BY <1>1, <1>4, <1>6, <1>7, <1>8

(* What a comparison leaves behind: nothing, or a version that is due. *)
LEMMA Compared ==
    ASSUME TypeInv, NEW p \in Process, ComparePassport(p)
    PROVE  /\ UNCHANGED <<versions, receipt, dec, clock>>
           /\ \/ task' = [task EXCEPT ![p] = NoTask]
              \/ \E body \in Version :
                    /\ Due(body) /\ body.at = clock
                    /\ task' = [task EXCEPT ![p] =
                                  [pc |-> "issue", body |-> body, number |-> Len(versions) + 1]]
<1> DEFINE t == task[p]
           body == [terms |-> t.copy.terms, facts |-> facts, ended |-> t.copy.ended,
                    at |-> clock, reason |-> ReasonOf([ended |-> t.copy.ended], t.reason)]
<1>1. /\ t.pc = "passport" /\ UNCHANGED <<versions, receipt, dec, clock>>
      /\ task' = [task EXCEPT ![p] =
                    IF Due(body) THEN [pc |-> "issue", body |-> body, number |-> Len(versions) + 1]
                    ELSE NoTask]
  BY DEF ComparePassport, store
<1>2. body \in Version
  <2>1. t.copy.terms \in 0..MaxChanges /\ t.copy.ended \in BOOLEAN /\ t.reason \in Reason
    BY <1>1, TaskFacts DEF Reason
  <2>2. ReasonOf([ended |-> t.copy.ended], t.reason) \in Reason
    BY <2>1 DEF ReasonOf, Reason
  <2>3. facts \in Nat /\ clock \in Nat
    BY DEF TypeInv, TypeOK
  <2> QED
    BY <2>1, <2>2, <2>3 DEF Version
<1>3. body.at = clock
  OBVIOUS
<1> HIDE DEF body
<1> QED
  BY <1>1, <1>2, <1>3

(* Every variable keeps its type. *)
LEMMA TypeStep ==
    ASSUME BookAssumption, TypeInv, LastBefore, Next
    PROVE  TypeInv'
<1> DEFINE Good ==
        /\ versions' \in Seq(Version) /\ task' \in [Process -> Tasks]
        /\ receipt' \in [Purchase -> [version : Nat, answer : Answer \cup {None},
                                      issued : BOOLEAN]]
<1>1. /\ versions \in Seq(Version) /\ task \in [Process -> Tasks]
      /\ receipt \in [Purchase -> [version : Nat, answer : Answer \cup {None},
                                   issued : BOOLEAN]]
      /\ dec \in DecRows
  BY DEF TypeInv, TypeOK, DecRows
<1>2. NoTask \in Tasks
  BY DEF Tasks
<1>3. ASSUME Outside PROVE Good
  BY <1>1, <1>3 DEF Outside
<1>4. ASSUME NEW p \in Process, Turns(p) PROVE Good
  BY <1>1, <1>4 DEF Turns
<1>5. ASSUME NEW p \in Process, ComparePassport(p) PROVE Good
  <2>1. CASE task' = [task EXCEPT ![p] = NoTask]
    BY <1>1, <1>2, <1>5, <2>1, Compared
  <2>2. CASE task' # [task EXCEPT ![p] = NoTask]
    <3>1. PICK body \in Version :
            task' = [task EXCEPT ![p] =
                       [pc |-> "issue", body |-> body, number |-> Len(versions) + 1]]
      BY <1>5, <2>2, Compared
    <3>2. [pc |-> "issue", body |-> body, number |-> Len(versions) + 1] \in Tasks
      BY VersionsTyped DEF Tasks
    <3>3. UNCHANGED <<versions, receipt>>
      BY <1>5, Compared
    <3> QED
      BY <1>1, <3>1, <3>2, <3>3
  <2> QED
    BY <2>1, <2>2
<1>6. ASSUME NEW p \in Process, IssuePassport(p) PROVE Good
  <2>1. task[p].body \in Version
    BY <1>6, TaskFacts DEF IssuePassport
  <2>2. versions' \in Seq(Version)
    BY <1>1, <1>6, <2>1 DEF IssuePassport
  <2> QED
    BY <1>1, <1>2, <1>6, <2>2 DEF IssuePassport
<1>7. ASSUME NEW p \in Process, Lists(p) PROVE Good
  <2>1. PICK new \in SUBSET Missing, due \in SUBSET Unanswered :
          task' = [task EXCEPT ![p] = [pc |-> "receipts", new |-> new, due |-> due, copy |-> dec]]
    BY <1>7 DEF Lists
  <2>2. [pc |-> "receipts", new |-> new, due |-> due, copy |-> dec] \in Tasks
    BY <1>1 DEF Tasks, Missing, Unanswered
  <2> QED
    BY <1>1, <1>7, <2>1, <2>2 DEF Lists
<1>8. ASSUME NEW p \in Process, IssueReceipts(p) PROVE Good
  BY <1>1, <1>8, Issued
<1>9. ASSUME NEW p \in Process, NEW d \in Purchase, ResignReceipt(p, d) PROVE Good
  BY <1>1, <1>9, Resigned
<1>10. Good
  BY <1>1, <1>3, <1>4, <1>5, <1>6, <1>7, <1>8, <1>9, StepKinds DEF Kinds, Outside
<1> QED
  BY <1>10, RowTypes DEF TypeInv, TypeOK, DecRows

-----------------------------------------------------------------------------
(* Passports *)

(* What makes a version due is that the last one does not say it. *)
LEMMA DueIs ==
    ASSUME TypeInv, NEW body, Due(body)
    PROVE  versions # <<>> =>
             /\ Len(versions) \in 1..Len(versions)
             /\ ~versions[Len(versions)].ended /\ Says(versions[Len(versions)]) # Says(body)
<1>1. versions \in Seq(Version)
  BY DEF TypeInv, TypeOK
<1> QED
  BY <1>1 DEF Due, Last

(* The passport grows by one version, which was due. *)
LEMMA VersionsStep ==
    ASSUME IInv, Next
    PROVE  \/ versions' = versions
           \/ \E p \in Process, body \in Version :
                 /\ IssuePassport(p) /\ body = task[p].body /\ Due(body)
                 /\ versions' = Append(versions, body)
<1>1. ASSUME NEW p \in Process, IssuePassport(p), versions' # versions
      PROVE  \E body \in Version : body = task[p].body /\ Due(body)
                                   /\ versions' = Append(versions, body)
  BY <1>1, TaskFacts DEF IssuePassport, IInv, IssueInv, IssueOf
<1>2. ASSUME NEW p \in Process, NEW d \in Purchase, ResignReceipt(p, d) PROVE versions' = versions
  BY <1>2 DEF ResignReceipt
<1>3. ASSUME NEW p \in Process, ComparePassport(p) \/ IssueReceipts(p) \/ Turns(p) \/ Lists(p)
      PROVE  versions' = versions
  BY <1>3 DEF ComparePassport, IssueReceipts, store, Turns, Lists
<1> QED
  BY <1>1, <1>2, <1>3, StepKinds DEF Kinds, Outside, IInv

LEMMA FinalStep ==
    ASSUME IInv, Next
    PROVE  RevokedIsFinal' /\ NoEmptyVersion'
<1>1. CASE versions' = versions
  BY <1>1 DEF IInv, RevokedIsFinal, NoEmptyVersion, Says
<1>2. ASSUME NEW body \in Version, Due(body), versions' = Append(versions, body)
      PROVE  RevokedIsFinal' /\ NoEmptyVersion'
  <2> DEFINE n == Len(versions)
  <2>1. /\ n \in Nat /\ Len(versions') = n + 1 /\ versions'[n + 1] = body
        /\ \A i \in 1..n : versions'[i] = versions[i]
        /\ versions = <<>> <=> n = 0
    BY <1>2, VersionsTyped DEF IInv
  <2>2. n # 0 => ~versions[n].ended /\ Says(versions[n]) # Says(body)
    BY <1>2, <2>1, DueIs DEF IInv
  <2> HIDE DEF n
  <2>3. \A i \in 1..n : versions[i].ended => i = n
    BY DEF IInv, RevokedIsFinal, n
  <2>4. \A i \in 1..n - 1 : Says(versions[i]) # Says(versions[i + 1])
    BY DEF IInv, NoEmptyVersion, n
  <2>5. RevokedIsFinal'
    BY <2>1, <2>2, <2>3 DEF RevokedIsFinal
  <2>6. ASSUME NEW i \in 1..n PROVE Says(versions'[i]) # Says(versions'[i + 1])
    <3>1. CASE i = n
      BY <2>1, <2>2, <3>1
    <3>2. CASE i \in 1..n - 1
      BY <2>1, <2>4, <3>2
    <3> QED
      BY <2>1, <3>1, <3>2
  <2>7. NoEmptyVersion'
    BY <2>1, <2>6 DEF NoEmptyVersion
  <2> QED
    BY <2>5, <2>7
<1> QED
  BY <1>1, <1>2, VersionsStep

LEMMA LastBeforeStep ==
    ASSUME IInv, Next
    PROVE  LastBefore'
<1>1. CASE versions' = versions
  BY <1>1 DEF IInv, LastBefore, Before
<1>2. ASSUME NEW body \in Version, versions' = Append(versions, body)
      PROVE  LastBefore'
  <2> DEFINE n == Len(versions)
  <2>1. /\ n \in Nat /\ Len(versions') = n + 1 /\ versions'[n + 1] = body
        /\ \A i \in 1..n : versions'[i] = versions[i]
    BY <1>2, VersionsTyped DEF IInv
  <2> HIDE DEF n
  <2>2. SUFFICES ASSUME NEW a \in Nat, Before(a)' # {}
                 PROVE  \E i \in Before(a)' : \A j \in Before(a)' : j <= i
    BY DEF LastBefore
  <2>3. Before(a) = {i \in 1..n : versions[i].at < a}
    BY DEF Before, n
  <2>4. Before(a)' = {i \in 1..n + 1 : versions'[i].at < a}
    BY <2>1 DEF Before
  <2>5. CASE body.at < a
    <3>1. n + 1 \in Before(a)' /\ \A j \in Before(a)' : j <= n + 1
      BY <2>1, <2>4, <2>5
    <3> QED
      BY <3>1
  <2>6. CASE ~(body.at < a)
    <3>1. Before(a)' = Before(a)
      BY <2>1, <2>3, <2>4, <2>6
    <3> QED
      BY <2>2, <3>1 DEF IInv, LastBefore
  <2> QED
    BY <2>5, <2>6
<1> QED
  BY <1>1, <1>2, VersionsStep

(* A pass that has a version to issue found it due, and it is due as long  *)
(* as no other process has issued that version. *)
LEMMA IssueInvStep ==
    ASSUME IInv, Next
    PROVE  IssueInv'
<1> SUFFICES ASSUME NEW p \in Process, task'[p].pc = "issue" PROVE IssueOf(p)'
  BY DEF IssueInv, IssueOf
<1>0. Len(versions) \in Nat /\ task \in [Process -> Tasks]
  BY VersionsTyped DEF IInv, TypeInv
<1>1. CASE task'[p] = task[p]
  <2>1. /\ task[p].number <= Len(versions) + 1
        /\ Issuable(task[p]) => Due(task[p].body)
        /\ task[p].number \in Nat
    BY <1>1, TaskFacts DEF IInv, IssueInv, IssueOf
  <2>2. CASE versions' = versions
    BY <1>1, <2>1, <2>2 DEF IssueOf, Issuable, Due, Says
  <2>3. CASE versions' # versions
    <3>1. Len(versions') = Len(versions) + 1
      BY <2>3, VersionsStep, VersionsTyped DEF IInv
    <3> QED
      BY <1>0, <1>1, <2>1, <3>1 DEF IssueOf, Issuable
  <2> QED
    BY <2>2, <2>3
<1>2. CASE task'[p] # task[p]
  <2>1. ASSUME NEW q \in Process, Turns(q) PROVE FALSE
    BY <1>0, <1>2, <2>1 DEF Turns
  <2>2. ASSUME NEW q \in Process, IssuePassport(q) PROVE FALSE
    BY <1>0, <1>2, <2>2 DEF IssuePassport, NoTask
  <2>3. ASSUME NEW q \in Process, Lists(q) PROVE FALSE
    BY <1>0, <1>2, <2>3 DEF Lists
  <2>4. ASSUME NEW q \in Process, IssueReceipts(q) PROVE FALSE
    BY <1>0, <1>2, <2>4 DEF IssueReceipts
  <2>5. ASSUME NEW q \in Process, NEW d \in Purchase, ResignReceipt(q, d) PROVE FALSE
    <3>1. task[q].pc = "resign" /\ task'[q].pc = "resign" /\ (q = p \/ task'[p] = task[p])
      BY <2>5, Resigned DEF ResignReceipt
    <3> QED
      BY <1>2, <3>1
  <2>6. ASSUME NEW q \in Process, ComparePassport(q)
        PROVE  IssueOf(p)'
    <3>1. q = p /\ task' # [task EXCEPT ![p] = NoTask] /\ versions' = versions
      BY <1>0, <1>2, <2>6, Compared DEF IInv, NoTask
    <3>2. PICK body \in Version :
            /\ Due(body)
            /\ task' = [task EXCEPT ![p] =
                          [pc |-> "issue", body |-> body, number |-> Len(versions) + 1]]
      BY <2>6, <3>1, Compared DEF IInv
    <3>3. task'[p].number = Len(versions) + 1 /\ task'[p].body = body
      BY <1>0, <3>2
    <3> QED
      BY <1>0, <3>1, <3>2, <3>3 DEF IssueOf, Due, Says
  <2> QED
    BY <1>2, <2>1, <2>2, <2>3, <2>4, <2>5, <2>6, StepKinds DEF Kinds, Outside, IInv
<1> QED
  BY <1>1, <1>2

-----------------------------------------------------------------------------
(* Receipts *)

(* A decision goes on, and its time stays. *)
LEMMA DecStep ==
    ASSUME TypeInv, Next
    PROVE  DecMoves /\ clock' \in {clock, clock + 1}
<1>1. ASSUME dec' = dec PROVE DecMoves
  BY <1>1 DEF DecMoves
<1>2. ASSUME NEW p \in Process, Turns(p) \/ Lists(p) \/ ComparePassport(p) \/ IssuePassport(p)
                                \/ IssueReceipts(p)
      PROVE  dec' = dec /\ clock' \in {clock, clock + 1}
  BY <1>2 DEF Turns, Lists, ComparePassport, IssuePassport, IssueReceipts, store
<1>3. ASSUME NEW p \in Process, NEW d \in Purchase, ResignReceipt(p, d)
      PROVE  dec' = dec /\ clock' = clock
  BY <1>3 DEF ResignReceipt
<1> QED
  BY <1>1, <1>2, <1>3, StepKinds DEF Kinds, Outside

(* A receipt is issued, or signed again, by a pass over decisions that are *)
(* still what it read. *)
LEMMA ReceiptStep ==
    ASSUME BookAssumption, IInv, Next, NEW d \in Purchase
    PROVE  \/ receipt'[d] = receipt[d]
           \/ /\ dec' = dec /\ clock' = clock /\ versions' = versions
              /\ receipt'[d].issued
              /\ \E p \in Process :
                    LET copy == task[p].copy[d]
                    IN /\ \/ /\ copy.state # "none" /\ ~receipt[d].issued
                             /\ receipt'[d].version = InForce(copy)
                          \/ /\ copy.state = "closed" /\ receipt[d].issued
                             /\ receipt[d].answer = None
                             /\ receipt'[d].version = receipt[d].version
                       /\ copy.at \in Nat /\ dec[d].at = copy.at /\ dec[d].state # "none"
                       /\ copy.state = "closed" => dec[d] = copy
                       /\ receipt'[d].answer = Resolution(p, d, copy)
<1>1. ASSUME NEW p \in Process, IssueReceipts(p), receipt'[d] # receipt[d]
      PROVE  /\ UNCHANGED <<dec, clock, versions>> /\ receipt'[d].issued
             /\ LET copy == task[p].copy[d]
                IN /\ copy.state # "none" /\ ~receipt[d].issued
                   /\ receipt'[d].version = InForce(copy)
                   /\ copy.at \in Nat /\ dec[d].at = copy.at /\ dec[d].state # "none"
                   /\ copy.state = "closed" => dec[d] = copy
                   /\ receipt'[d].answer = Resolution(p, d, copy)
  <2>1. /\ UNCHANGED <<dec, clock, versions>> /\ task[p].pc = "receipts"
        /\ d \in task[p].new /\ ~receipt[d].issued /\ receipt'[d].issued
        /\ receipt'[d].answer = Resolution(p, d, task[p].copy[d])
        /\ receipt'[d].version = InForce(task[p].copy[d])
    BY <1>1, Issued DEF IInv
  <2>2. task[p].copy[d].at \in Nat
    BY <2>1, TaskFacts DEF DecRows, IInv
  <2>3. CopyOf(p, d)
    BY DEF IInv, CopyInv
  <2> QED
    BY <2>1, <2>2, <2>3 DEF CopyOf
<1>2. ASSUME NEW p \in Process, NEW e \in Purchase, ResignReceipt(p, e), receipt'[d] # receipt[d]
      PROVE  /\ UNCHANGED <<dec, clock, versions>> /\ receipt'[d].issued
             /\ LET copy == task[p].copy[d]
                IN /\ copy.state = "closed" /\ receipt[d].issued
                   /\ receipt[d].answer = None
                   /\ receipt'[d].version = receipt[d].version
                   /\ copy.at \in Nat /\ dec[d].at = copy.at /\ dec[d].state # "none"
                   /\ copy.state = "closed" => dec[d] = copy
                   /\ receipt'[d].answer = Resolution(p, d, copy)
  <2>1. /\ UNCHANGED <<dec, clock, versions>> /\ task[p].pc = "resign"
        /\ d \in task[p].due /\ receipt[d].answer = None
        /\ receipt'[d].answer = Resolution(p, d, task[p].copy[d])
        /\ receipt'[d].issued = receipt[d].issued
        /\ receipt'[d].version = receipt[d].version
    BY <1>2, Resigned DEF IInv
  <2>2. task[p].copy[d].at \in Nat
    BY <2>1, TaskFacts DEF DecRows, IInv
  <2>3. CopyOf(p, d)
    BY DEF IInv, CopyInv
  <2> QED
    BY <2>1, <2>2, <2>3 DEF CopyOf
<1>3. CASE receipt' = receipt
  BY <1>3
<1>4. ASSUME NEW p \in Process, Turns(p) \/ Lists(p) \/ ComparePassport(p) \/ IssuePassport(p)
      PROVE  receipt' = receipt
  BY <1>4 DEF Turns, Lists, ComparePassport, IssuePassport, store
<1>5. CASE \E p \in Process : IssueReceipts(p)
  BY <1>1, <1>5
<1>6. CASE \E p \in Process, e \in Purchase : ResignReceipt(p, e)
  BY <1>2, <1>6
<1> QED
  BY <1>3, <1>4, <1>5, <1>6, StepKinds DEF Kinds, Outside, IInv

LEMMA ReceiptInvStep ==
    ASSUME BookAssumption, IInv, Next
    PROVE  ReceiptInv'
<1> SUFFICES ASSUME NEW d \in Purchase
             PROVE  /\ receipt'[d].issued => dec'[d].state # "none"
                    /\ ~receipt'[d].issued => receipt'[d].answer = None /\ receipt'[d].version = 0
  BY DEF ReceiptInv
<1>1. DecMoves
  BY DecStep DEF IInv
<1>2. CASE receipt'[d] = receipt[d]
  BY <1>1, <1>2 DEF DecMoves, IInv, ReceiptInv
<1> QED
  BY <1>2, ReceiptStep

(* What a receipt answers is what the decision was closed with, *)
LEMMA AnswerStep ==
    ASSUME BookAssumption, IInv, Next
    PROVE  AnswerIsTheDecisions'
<1> SUFFICES ASSUME NEW d \in Purchase, receipt'[d].answer # None
             PROVE  /\ dec'[d].state = "closed"
                    /\ receipt'[d].answer = "timeout" <=> dec'[d].by = "timeout"
  BY DEF AnswerIsTheDecisions, Closed
<1>1. DecMoves
  BY DecStep DEF IInv
<1>2. CASE receipt'[d] = receipt[d]
  <2>1. /\ dec[d].state = "closed"
        /\ receipt[d].answer = "timeout" <=> dec[d].by = "timeout"
    BY <1>2 DEF IInv, AnswerIsTheDecisions, Closed
  <2> QED
    BY <1>1, <1>2, <2>1 DEF DecMoves
<1>3. CASE receipt'[d] # receipt[d]
  <2>1. PICK p \in Process :
          /\ dec' = dec /\ receipt'[d].answer = Resolution(p, d, task[p].copy[d])
          /\ task[p].copy[d].state = "closed" => dec[d] = task[p].copy[d]
    BY <1>3, ReceiptStep
  <2> QED
    BY <2>1, ResolutionIs DEF IInv
<1> QED
  BY <1>2, <1>3

(* and it is answered once. *)
LEMMA StaysStep ==
    ASSUME BookAssumption, IInv, Next, NEW d \in Purchase, receipt[d].answer # None
    PROVE  receipt'[d] = receipt[d]
BY ReceiptStep DEF IInv, ReceiptInv

(* What a pass copied stays true of the decisions. *)
LEMMA CopyInvStep ==
    ASSUME BookAssumption, IInv, Next
    PROVE  CopyInv'
<1> SUFFICES ASSUME NEW p \in Process, NEW d \in Purchase, task'[p].pc \in {"receipts", "resign"}
             PROVE  CopyOf(p, d)'
  BY DEF CopyInv, CopyOf
<1>0. /\ task \in [Process -> Tasks] /\ CopyOf(p, d) /\ DecMoves
      /\ receipt[d].issued => receipt'[d].issued
  BY DecStep, ReceiptStep DEF IInv, TypeInv, CopyInv
<1>1. ASSUME \/ task'[p] = task[p]
             \/ /\ task[p].pc \in {"receipts", "resign"} /\ task'[p].pc = "resign"
                /\ task'[p].copy = task[p].copy /\ task'[p].due \subseteq task[p].due
      PROVE  CopyOf(p, d)'
  <2> DEFINE copy == task[p].copy[d]
  <2>1. /\ copy.state # "none" => dec[d].state # "none" /\ dec[d].at = copy.at
        /\ copy.state = "closed" => dec[d] = copy
        /\ task[p].pc = "receipts" /\ d \in task[p].new => copy.state # "none"
        /\ d \in task[p].due => copy.state = "closed" /\ receipt[d].issued
    BY <1>0, <1>1 DEF CopyOf
  <2>2. /\ copy.state # "none" => dec'[d].state # "none" /\ dec'[d].at = copy.at
        /\ copy.state = "closed" => dec'[d] = copy
    BY <1>0, <2>1 DEF DecMoves
  <2> QED
    BY <1>0, <1>1, <2>1, <2>2 DEF CopyOf
<1>2. CASE task'[p] # task[p]
  <2>1. ASSUME NEW q \in Process, Turns(q) PROVE FALSE
    BY <1>0, <1>2, <2>1 DEF Turns
  <2>2. ASSUME NEW q \in Process, IssuePassport(q) PROVE FALSE
    BY <1>0, <1>2, <2>2 DEF IssuePassport, NoTask
  <2>3. ASSUME NEW q \in Process, ComparePassport(q) PROVE FALSE
    BY <1>0, <1>2, <2>3, Compared DEF NoTask, IInv
  <2>4. ASSUME NEW q \in Process, Lists(q) PROVE CopyOf(p, d)'
    <3>1. PICK new \in SUBSET Missing, due \in SUBSET Unanswered :
            /\ q = p /\ UNCHANGED <<dec, receipt>>
            /\ task'[p] = [pc |-> "receipts", new |-> new, due |-> due, copy |-> dec]
      BY <1>0, <1>2, <2>4 DEF Lists
    <3>2. /\ d \in new => dec[d].state # "none"
          /\ d \in due => dec[d].state = "closed" /\ receipt[d].issued
      BY DEF Missing, Unanswered, Closed
    <3> QED
      BY <3>1, <3>2 DEF CopyOf
  <2>5. ASSUME NEW q \in Process, IssueReceipts(q) PROVE CopyOf(p, d)'
    <3>1. /\ q = p /\ task[p].pc = "receipts"
          /\ task'[p] = [pc |-> "resign", due |-> task[p].due, copy |-> task[p].copy]
      BY <1>0, <1>2, <2>5, Issued DEF IInv
    <3> QED
      BY <1>1, <3>1
  <2>6. ASSUME NEW q \in Process, NEW e \in Purchase, ResignReceipt(q, e) PROVE CopyOf(p, d)'
    <3>1. /\ q = p /\ task[p].pc = "resign" /\ task'[p].pc = "resign"
          /\ task'[p].copy = task[p].copy /\ task'[p].due \subseteq task[p].due
      BY <1>2, <2>6, Resigned DEF IInv
    <3> QED
      BY <1>1, <3>1
  <2> QED
    BY <1>2, <2>1, <2>2, <2>3, <2>4, <2>5, <2>6, StepKinds DEF Kinds, Outside, IInv
<1> QED
  BY <1>1, <1>2

-----------------------------------------------------------------------------
(* The invariant, and what follows from it *)

LEMMA Initially ==
    ASSUME BookAssumption, Init
    PROVE  IInv
<1>1. /\ versions = <<>> /\ Len(versions) = 0 /\ \A i \in 1..Len(versions) : FALSE
      /\ \A p \in Process : task[p].pc = "none"
      /\ \A d \in Purchase : receipt[d] = [version |-> 0, answer |-> None, issued |-> FALSE]
  BY DEF Init, NoTask
<1>2. TypeInv
  <2>1. NoTask \in Tasks
    BY DEF Tasks
  <2> QED
    BY <2>1 DEF Init, TypeInv, TypeOK, BookAssumption
<1>3. LastBefore /\ RevokedIsFinal /\ NoEmptyVersion
  BY <1>1 DEF LastBefore, Before, RevokedIsFinal, NoEmptyVersion
<1>4. IssueInv /\ CopyInv
  BY <1>1 DEF IssueInv, IssueOf, CopyInv, CopyOf
<1>5. ReceiptInv /\ AnswerIsTheDecisions
  BY <1>1 DEF ReceiptInv, AnswerIsTheDecisions
<1> QED
  BY <1>2, <1>3, <1>4, <1>5 DEF IInv

LEMMA Stepwise ==
    BookAssumption => (IInv /\ [Next]_vars => IInv')
<1>1. ASSUME BookAssumption, IInv, Next PROVE IInv'
  <2>1. TypeInv'
    BY <1>1, TypeStep DEF IInv
  <2> QED
    BY <1>1, <2>1, LastBeforeStep, IssueInvStep, ReceiptInvStep, CopyInvStep, FinalStep,
       AnswerStep DEF IInv
<1>2. ASSUME IInv, UNCHANGED vars PROVE IInv'
  <2>1. UNCHANGED <<clock, policy, facts, versions, dec, receipt, noted, asking, task, todo,
                    crashes>>
    BY <1>2 DEF vars, store, memory
  <2>2. TypeInv' /\ LastBefore' /\ RevokedIsFinal' /\ NoEmptyVersion'
    BY <1>2, <2>1 DEF IInv, TypeInv, TypeOK, LastBefore, Before, RevokedIsFinal,
       NoEmptyVersion, Says
  <2>3. IssueInv' /\ ReceiptInv' /\ CopyInv' /\ AnswerIsTheDecisions'
    BY <1>2, <2>1 DEF IInv, IssueInv, IssueOf, Issuable, Due, Says, ReceiptInv, CopyInv,
       CopyOf, AnswerIsTheDecisions, Closed
  <2> QED
    BY <2>2, <2>3 DEF IInv
<1> QED
  BY <1>1, <1>2

THEOREM Invariant ==
    ASSUME BookAssumption
    PROVE  Spec => []IInv
<1>1. Init => IInv
  BY Initially
<1>2. IInv /\ [Next]_vars => IInv'
  BY Stepwise
<1> QED
  BY <1>1, <1>2, PTL DEF Spec

(* Every variable keeps its type, in every instance. *)
THEOREM TypeCorrect ==
    ASSUME BookAssumption
    PROVE  Spec => []TypeOK
<1>1. IInv => TypeOK
  BY DEF IInv, TypeInv
<1> QED
  BY <1>1, Invariant, PTL

(* A revoked passport gets no further version, whichever process compares  *)
(* with a policy row it read before (sync_passports, passport.md). *)
THEOREM RevokedForGood ==
    ASSUME BookAssumption
    PROVE  Spec => []RevokedIsFinal
<1>1. IInv => RevokedIsFinal
  BY DEF IInv
<1> QED
  BY <1>1, Invariant, PTL

(* No version repeats the one before it, though several processes find the *)
(* same change and each writes a version for it (sync_passports). *)
THEOREM VersionsSaySomething ==
    ASSUME BookAssumption
    PROVE  Spec => []NoEmptyVersion
<1>1. IInv => NoEmptyVersion
  BY DEF IInv
<1> QED
  BY <1>1, Invariant, PTL

(* A receipt is answered for closed decisions only, with the customer's    *)
(* answer or the timeout's as the decision has it (sync_receipts). *)
THEOREM AnswersAreTrue ==
    ASSUME BookAssumption
    PROVE  Spec => []AnswerIsTheDecisions
<1>1. IInv => AnswerIsTheDecisions
  BY DEF IInv
<1> QED
  BY <1>1, Invariant, PTL

(* A receipt that carries an answer is never signed again with another,    *)
(* though several processes sign receipts from copies of the decisions     *)
(* (sync_receipts, its UPDATE of unresolved receipts only). *)
THEOREM AnsweredOnce ==
    ASSUME BookAssumption
    PROVE  Spec => AnswerStays
<1> DEFINE Stays == \A d \in DOMAIN receipt :
                        receipt[d].answer # None => receipt'[d] = receipt[d]
<1>1. IInv /\ [Next]_vars => [Stays]_vars
  <2>1. ASSUME IInv, Next PROVE Stays
    <3>1. DOMAIN receipt = Purchase
      BY <2>1 DEF IInv, TypeInv, TypeOK
    <3> QED
      BY <2>1, <3>1, StaysStep
  <2> QED
    BY <2>1
<1>2. Spec => [][Stays]_vars
  BY <1>1, Invariant, PTL DEF Spec
<1> QED
  BY <1>2 DEF AnswerStays

-----------------------------------------------------------------------------
(* The version in force, with one process *)

LEMMA SingleStep ==
    ASSUME BookAssumption, OneProcess, IInv, OrderInv, Next
    PROVE  SingleInv'
<1> SUFFICES ASSUME NEW p \in Process, task'[p].pc = "issue",
                    NEW d \in Purchase, receipt'[d].issued
             PROVE  dec'[d].at <= task'[p].body.at
  BY DEF SingleInv, SingleOf
<1>0. /\ task \in [Process -> Tasks] /\ DecMoves
      /\ receipt[d].issued => dec[d].state # "none"
      /\ dec[d].at <= clock /\ \A q \in Process : q = p
  BY DecStep DEF IInv, TypeInv, ReceiptInv, OrderInv, TimeInv, OneProcess
<1>1. ASSUME NEW q \in Process, ComparePassport(q) PROVE dec'[d].at <= task'[p].body.at
  <2>1. UNCHANGED <<dec, receipt>> /\ q = p /\ task' # [task EXCEPT ![p] = NoTask]
    BY <1>0, <1>1, Compared DEF IInv, NoTask
  <2>2. task'[p].body.at = clock
    BY <1>0, <1>1, <2>1, Compared DEF IInv
  <2> QED
    BY <1>0, <2>1, <2>2
<1>2. CASE Outside
  BY <1>0, <1>2 DEF Outside, DecMoves, OrderInv, SingleInv, SingleOf
<1>3. ASSUME NEW q \in Process,
             \/ Turns(q) \/ IssuePassport(q) \/ Lists(q) \/ IssueReceipts(q)
             \/ \E e \in Purchase : ResignReceipt(q, e)
      PROVE  FALSE
  <2>1. q = p
    BY <1>0
  <2>2. CASE Turns(p) \/ IssuePassport(p) \/ Lists(p) \/ IssueReceipts(p)
    BY <1>0, <2>2 DEF Turns, IssuePassport, Lists, IssueReceipts, NoTask
  <2>3. CASE \E e \in Purchase : ResignReceipt(p, e)
    BY <2>3, Resigned DEF IInv
  <2> QED
    BY <1>3, <2>1, <2>2, <2>3
<1> QED
  BY <1>1, <1>2, <1>3, StepKinds DEF Kinds, IInv

LEMMA TimeStep ==
    ASSUME BookAssumption, IInv, OrderInv, Next
    PROVE  TimeInv'
<1> SUFFICES ASSUME NEW d \in Purchase
             PROVE  dec'[d].at <= clock' /\ receipt'[d].version \in 0..Len(versions')
  BY DEF TimeInv
<1>1. /\ DecMoves /\ clock' \in {clock, clock + 1} /\ clock \in Nat
      /\ dec[d].at <= clock /\ dec[d].at \in Nat
      /\ receipt[d].version \in 0..Len(versions)
  BY DecStep DEF IInv, TypeInv, TypeOK, OrderInv, TimeInv
<1>2. dec'[d].at <= clock'
  BY <1>1 DEF DecMoves
<1>3. Len(versions) \in Nat /\ Len(versions') \in {Len(versions), Len(versions) + 1}
  BY VersionsStep, VersionsTyped DEF IInv
<1>4. receipt'[d].version \in 0..Len(versions)
  BY <1>1, ReceiptStep, InForceIs DEF IInv
<1> QED
  BY <1>2, <1>3, <1>4

LEMMA InForceStep ==
    ASSUME BookAssumption, IInv, OrderInv, Next
    PROVE  VersionInForce'
<1> SUFFICES ASSUME NEW d \in Purchase PROVE NamedInForce(d)'
  BY DEF VersionInForce, NamedInForce
<1>0. /\ NamedInForce(d) /\ DecMoves /\ receipt[d].version \in 0..Len(versions)
      /\ receipt[d].issued => dec[d].state # "none"
      /\ Len(versions) \in Nat
  BY DecStep, VersionsTyped DEF OrderInv, VersionInForce, NamedInForce, TimeInv, IInv, ReceiptInv
<1>1. CASE receipt'[d] = receipt[d] /\ versions' = versions
  BY <1>0, <1>1 DEF NamedInForce, DecMoves
<1>2. CASE receipt'[d] = receipt[d] /\ versions' # versions
  <2>1. PICK p \in Process, body \in Version :
          IssuePassport(p) /\ body = task[p].body /\ versions' = Append(versions, body)
    BY <1>2, VersionsStep
  <2>2. /\ dec' = dec /\ receipt[d].issued => dec[d].at <= body.at
        /\ body.at \in Nat /\ dec[d].at \in Nat
    BY <2>1 DEF IssuePassport, OrderInv, SingleInv, SingleOf, IInv, TypeInv, TypeOK, Version
  <2>3. /\ Len(versions') = Len(versions) + 1 /\ versions'[Len(versions) + 1] = body
        /\ \A i \in 1..Len(versions) : versions'[i] = versions[i]
    BY <2>1, VersionsTyped DEF IInv
  <2> QED
    BY <1>0, <1>2, <2>1, <2>2, <2>3 DEF NamedInForce, IssuePassport
<1>3. CASE receipt'[d] # receipt[d]
  <2>1. PICK p \in Process :
          LET copy == task[p].copy[d]
          IN /\ dec' = dec /\ versions' = versions
             /\ copy.at \in Nat /\ dec[d].at = copy.at
             /\ \/ receipt'[d].version = InForce(copy)
                \/ receipt[d].issued /\ receipt'[d].version = receipt[d].version
    BY <1>3, ReceiptStep
  <2>2. CASE receipt'[d].version = InForce(task[p].copy[d])
    BY <2>1, <2>2, InForceIs DEF NamedInForce, IInv
  <2>3. CASE receipt[d].issued /\ receipt'[d].version = receipt[d].version
    BY <1>0, <2>1, <2>3 DEF NamedInForce
  <2> QED
    BY <2>1, <2>2, <2>3
<1> QED
  BY <1>1, <1>2, <1>3

LEMMA OrderInductive ==
    BookAssumption /\ OneProcess => (IInv /\ OrderInv /\ [Next]_vars => OrderInv')
<1>1. ASSUME BookAssumption, OneProcess, IInv, OrderInv, Next PROVE OrderInv'
  BY <1>1, SingleStep, TimeStep, InForceStep DEF OrderInv
<1>2. ASSUME OrderInv, UNCHANGED vars PROVE OrderInv'
  <2>1. UNCHANGED <<clock, versions, dec, receipt, task>>
    BY <1>2 DEF vars, store, memory
  <2> QED
    BY <1>2, <2>1 DEF OrderInv, TimeInv, SingleInv, SingleOf, VersionInForce
<1> QED
  BY <1>1, <1>2

(* A receipt names the version that was in force when the decision was     *)
(* made, however late it is issued and whatever died between (in_force,    *)
(* passport.md).  It takes one process: another's version may be issued    *)
(* with the time of an earlier comparison. *)
THEOREM NamesTheVersion ==
    ASSUME BookAssumption, OneProcess
    PROVE  Spec => []VersionInForce
<1>1. Init => OrderInv
  <2> SUFFICES ASSUME Init PROVE OrderInv
    OBVIOUS
  <2>1. /\ \A p \in Process : task[p].pc = "none"
        /\ \A d \in Purchase : receipt[d] = [version |-> 0, answer |-> None, issued |-> FALSE]
        /\ \A d \in Purchase : dec[d].at = 0
        /\ clock = 0 /\ Len(versions) = 0
    BY DEF Init, NoTask
  <2> QED
    BY <2>1 DEF OrderInv, TimeInv, SingleInv, SingleOf, VersionInForce
<1>2. IInv /\ OrderInv /\ [Next]_vars => OrderInv'
  BY OrderInductive
<1>3. OrderInv => VersionInForce
  BY DEF OrderInv
<1> QED
  BY <1>1, <1>2, <1>3, Invariant, PTL DEF Spec

=============================================================================
