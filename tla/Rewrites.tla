------------------------------ MODULE Rewrites ------------------------------
(***************************************************************************)
(* Tier 3: once a decision is posted, a model may rewrite its message      *)
(* (engine/tier3.py), while the customer answers and the window closes     *)
(* (viseca/worker.py: _post_new, _rewrite, _store_rewrite, the ledger's    *)
(* resolve and set_explanation).                                           *)
(*                                                                         *)
(* A message is [lead, says]: the outcome it opens with ("none" for a      *)
(* text of the model's, which need not have one) and what it repeats of    *)
(* the decision's numbers and names.  The engine thread runs one job at a  *)
(* time, so a job is one step; another process (Standby) has an engine     *)
(* thread of its own, and its jobs come between any two statements of ours.*)
(*                                                                         *)
(* An operator whose name ends in _M is a mutation of the one after it.    *)
(***************************************************************************)
EXTENDS Integers, FiniteSets, Sequences

CONSTANTS
    Decisions, StepUps, \* the decisions of a run, those that wait for the customer
    Threads,            \* threads that write (TIER3_THREADS)
    Standby,            \* another process answers C8 too
    Early               \* an answer may come while the POST is still retried

RewritesAssumption ==
    /\ StepUps \subseteq Decisions
    /\ Threads \in Nat \ {0}
    /\ Standby \in BOOLEAN /\ Early \in BOOLEAN

VARIABLES
    row,      \* the decisions table: <<>> or <<[message, source, answer]>>
    task,     \* the rewrite of a decision: none, scheduled, waiting, writing, wrote, checked, over
    snap,     \* the message the rewrite started from
    text,     \* what it will store
    out,      \* decisions for the listeners, in the order the loop resumes their senders
    shown,    \* what the listeners were last told
    models    \* the run has a provider (D5)

vars == <<row, task, snap, text, out, shown, models>>

Facts == {"amount", "name"}
Strange == {"number", "shop_text", "placeholder"}
None == [lead |-> "none", says |-> {}]

Init ==
    /\ row = [d \in Decisions |-> << >>]
    /\ task = [d \in Decisions |-> "none"]
    /\ snap = [d \in Decisions |-> None] /\ text = [d \in Decisions |-> None]
    /\ out = << >>
    /\ shown = [d \in Decisions |-> << >>]
    /\ models = TRUE

Template(d) == [lead |-> IF d \in StepUps THEN "asked" ELSE "decided", says |-> Facts]
Asked(d) == row[d] # << >> /\ d \in StepUps /\ row[d][1].answer = "none"
Tell(d, r) == out' = Append(out, [id |-> d, row |-> r])

(* decide_event: the decision is stored before it is posted. *)
Record(d) ==
    /\ row[d] = << >>
    /\ row' = [row EXCEPT ![d] = <<[message |-> Template(d), source |-> "template", answer |-> "none"]>>]
    /\ UNCHANGED <<task, snap, text, out, shown, models>>

(* The platform has it: listeners are told, a rewrite is scheduled if      *)
(* there is a provider. *)
Posted(d) ==
    /\ row[d] # << >> /\ task[d] = "none"
    /\ Tell(d, [message |-> Template(d), source |-> "template", answer |-> "none"])
    /\ task' = [task EXCEPT ![d] = IF models THEN "scheduled" ELSE "over"]
    /\ UNCHANGED <<row, snap, text, shown, models>>

SwitchOff == models /\ models' = FALSE /\ UNCHANGED <<row, task, snap, text, out, shown>>

(* The row is read; the explanation waits for a thread. *)
Start(d) ==
    /\ task[d] = "scheduled"
    /\ IF row[d][1].source = "template"
       THEN /\ task' = [task EXCEPT ![d] = "waiting"]
            /\ snap' = [snap EXCEPT ![d] = row[d][1].message]
       ELSE task' = [task EXCEPT ![d] = "over"] /\ UNCHANGED snap
    /\ UNCHANGED <<row, text, out, shown, models>>

Writing == {d \in Decisions : task[d] = "writing"}
TakeThread(d) ==
    /\ task[d] = "waiting" /\ Cardinality(Writing) < Threads
    /\ task' = [task EXCEPT ![d] = "writing"]
    /\ UNCHANGED <<row, snap, text, out, shown, models>>

(* acceptable: everything the template states, and nothing of its own. *)
Acceptable(said, template) == template.says \subseteq said /\ said \cap Strange = {}

(* The model answers anything, or nothing in time: then the template. *)
Rewritten(d) ==
    /\ task[d] = "writing"
    /\ \/ /\ text' = text
          /\ task' = [task EXCEPT ![d] = "over"]
       \/ \E said \in SUBSET (Facts \cup Strange) :
            IF Acceptable(said, snap[d])
            THEN /\ text' = [text EXCEPT ![d] = [lead |-> "none", says |-> said]]
                 /\ task' = [task EXCEPT ![d] = "wrote"]
            ELSE text' = text /\ task' = [task EXCEPT ![d] = "over"]
    /\ UNCHANGED <<row, snap, out, shown, models>>

StillThere(d) == row[d][1].source = "template" /\ row[d][1].message = snap[d]
SetExplanation(d) ==
    /\ row' = [row EXCEPT ![d][1].message = text[d], ![d][1].source = "model"]
    /\ Tell(d, row'[d][1])
    /\ task' = [task EXCEPT ![d] = "over"]

(* _store_rewrite: over the template it rewrote, or not at all. *)
Store_M(d) ==
    /\ task[d] = "wrote"
    /\ SetExplanation(d)
    /\ UNCHANGED <<snap, text, shown, models>>
Store(d) ==
    /\ task[d] = "wrote"
    /\ IF ~StillThere(d) THEN task' = [task EXCEPT ![d] = "over"] /\ UNCHANGED <<row, out>>
       ELSE IF Standby THEN task' = [task EXCEPT ![d] = "checked"] /\ UNCHANGED <<row, out>>
       ELSE SetExplanation(d)
    /\ UNCHANGED <<snap, text, shown, models>>
StoreChecked(d) ==
    /\ task[d] = "checked"
    /\ SetExplanation(d)
    /\ UNCHANGED <<snap, text, shown, models>>

(* ledger.resolve: the customer's answer re-renders the message it was     *)
(* asked with, the timeout has one of its own. *)
Answered(message, answer) ==
    IF answer = "expired" THEN [lead |-> "expired", says |-> {}]
    ELSE [message EXCEPT !.lead = answer]
Resolve(d, answer) ==
    row' = [row EXCEPT ![d][1].message = Answered(row[d][1].message, answer), ![d][1].answer = answer]

Answers == {"approved", "declined", "expired"}
Close(d, answer) ==
    /\ Asked(d)
    /\ Early \/ task[d] \notin {"none", "scheduled"}
    /\ Resolve(d, answer)
    /\ Tell(d, row'[d][1])
    /\ UNCHANGED <<task, snap, text, shown, models>>
StandbyClose(d, answer) ==
    /\ Standby /\ Asked(d) /\ task[d] \notin {"none", "scheduled"}
    /\ Resolve(d, answer)
    /\ UNCHANGED <<task, snap, text, out, shown, models>>

Notify ==
    /\ out # << >>
    /\ shown' = [shown EXCEPT ![Head(out).id] = <<Head(out).row>>]
    /\ out' = Tail(out)
    /\ UNCHANGED <<row, task, snap, text, models>>

Rewrite(d) == Start(d) \/ TakeThread(d) \/ Rewritten(d) \/ Store(d) \/ StoreChecked(d)
Next ==
    \/ SwitchOff
    \/ Notify
    \/ \E d \in Decisions :
        \/ Record(d) \/ Posted(d) \/ Rewrite(d)
        \/ \E answer \in Answers : Close(d, answer) \/ StandbyClose(d, answer)

Spec == Init /\ [][Next]_vars

(* The loop and the threads run, and a model's answer is waited for no     *)
(* longer than TIER3_TIMEOUT_S.  Nothing makes a customer answer. *)
Fairness ==
    /\ WF_vars(Notify) /\ SF_vars(\E d \in Decisions : TakeThread(d))
    /\ \A d \in Decisions :
        WF_vars(Start(d)) /\ WF_vars(Rewritten(d))
        /\ WF_vars(Store(d)) /\ WF_vars(StoreChecked(d))
FairSpec == Spec /\ Fairness

-----------------------------------------------------------------------------
(* Properties *)

TypeOK ==
    /\ \A d \in Decisions :
        row[d] # << >> => row[d][1].answer \in Answers \cup {"none"}
    /\ task \in [Decisions -> {"none", "scheduled", "waiting", "writing", "wrote", "checked", "over"}]
    /\ Cardinality(Writing) <= Threads

(* Q2: an answered step-up says how it was answered (_store_rewrite). *)
AnswerStands ==
    \A d \in StepUps :
        row[d] # << >> /\ row[d][1].answer # "none" => row[d][1].message.lead = row[d][1].answer

(* E8: through a rewrite and an answer, in either order, the message keeps *)
(* every number and name of the template, and gains none. *)
FactsKept ==
    \A d \in Decisions :
        row[d] # << >> /\ row[d][1].answer # "expired" => row[d][1].message.says = Facts

(* What the listeners see of a step-up never goes back to waiting. *)
ShownNeverReopens ==
    [][\A d \in StepUps :
        shown[d] # << >> /\ shown[d][1].answer # "none" => shown'[d][1].answer = shown[d][1].answer]_vars

(* Every rewrite that was scheduled ends, with fewer threads than          *)
(* decisions. *)
RewritesEnd ==
    \A d \in Decisions : task[d] = "scheduled" ~> task[d] = "over"

(* A message the model wrote, like an answer, reaches the listeners        *)
(* without a reload. *)
ShownCatchesUp ==
    \A d \in Decisions :
        task[d] = "over" ~> (shown[d] = row[d])
=============================================================================
