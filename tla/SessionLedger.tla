--------------------------- MODULE SessionLedger ---------------------------
(***************************************************************************)
(* The engine's memory of one mandate (engine/ledger.py): the decision     *)
(* rows, what a purchase sees of the ones before it (view), how the period *)
(* rules, the protections and the session watch use that (engine/policy.py,*)
(* protections.py, decide.py), and how answers and timeouts change rows    *)
(* (record, resolve).                                                      *)
(*                                                                         *)
(* One engine thread reads the view, decides and records (pipeline.py):    *)
(* that is one step here.  Purchases may come in any order of their        *)
(* simulated time, and in two live runs under the mandate.  Time and money *)
(* are whole numbers.  Every purchase has one cart line, `item' is the     *)
(* shop and that line, and none names a related purchase (A5).             *)
(*                                                                         *)
(* An operator whose name ends in _M is a mutation of the one after it.    *)
(***************************************************************************)
EXTENDS Integers, FiniteSetsExt, Decide

CONSTANTS
    Purchase,     \* live authorization ids
    Unseen,       \* the row of a purchase never decided
    Facts,        \* what a purchase can be (see WellFormed)
    Setting,      \* Policy.uncertainty_policy
    Limit,        \* the spending limit per period
    LimitDays,    \* and its period
    MaxOrders,    \* the number of purchases per period
    CountDays,    \* and its period
    OrderLimit,   \* the stated per-order limit
    SingleItem,   \* Policy.single_item
    OldDevices,   \* devices the customer's history knows
    DuplicateWindow, SplitWindow

(* doubt: a restriction no data can check; wanted: the requested item. *)
WellFormed(f) ==
    /\ DOMAIN f = {"run", "card", "ts", "amount", "item", "device", "hurried",
                   "doubt", "wanted"}
    /\ f.run \in Nat /\ f.ts \in Nat /\ f.amount \in Nat \ {0}
    /\ f.hurried \in BOOLEAN /\ f.doubt \in BOOLEAN /\ f.wanted \in BOOLEAN

ASSUME LedgerAssumption ==
    /\ \A f \in Facts : WellFormed(f)
    /\ Setting \in Settings /\ SingleItem \in BOOLEAN
    /\ Limit \in Nat /\ LimitDays \in Nat /\ MaxOrders \in Nat
    /\ CountDays \in Nat /\ OrderLimit \in Nat
    /\ DuplicateWindow \in Nat /\ SplitWindow \in Nat
    /\ SplitWindow <= DuplicateWindow

VARIABLES
    row,   \* row[p]: the decisions row of p, or Unseen
    seen,  \* seen[p]: what p was decided with: the rows there were
    yes    \* yes[p]: and those of them the customer had approved

vars == <<row, seen, yes>>

Answers == {"none", "pending", "approved", "declined", "expired"}
Rows ==
    [fact : Facts, outcome : {"approve", "step_up", "decline"}, answer : Answers,
     spent : Nat, reserved : Nat, trust : {"normal", "elevated", "frozen"},
     step : 1..7, reasons : SUBSET {"reserved", "doubt"}]

ASSUME UnseenAssumption == Unseen \notin Rows

-----------------------------------------------------------------------------
(* Reading rows *)

Stored == {p \in Purchase : row[p] # Unseen}
FinalApproval(p) == row[p].outcome = "approve" \/ row[p].answer = "approved"
Pending(p) == row[p].answer = "pending"
CustomerYes(p) == row[p].answer = "approved"

(* The rows of this run before the purchase, in simulated time (M6). *)
Before(f) == {p \in Stored : row[p].fact.run = f.run /\ row[p].fact.ts < f.ts}

(* The earlier live runs under the same mandate. *)
EarlierRuns(f) == {p \in Stored : row[p].fact.run < f.run}

(* The view has one window, the policy's shortest period, on one card. *)
WindowDays == IF CountDays < LimitDays THEN CountDays ELSE LimitDays
Window(f) ==
    {p \in Before(f) : /\ row[p].fact.card = f.card
                       /\ row[p].fact.ts >= f.ts - WindowDays}

Spends == [p \in Stored |-> row[p].spent]
Reserves == [p \in Stored |-> row[p].reserved]
Spent(f) == SumFunctionOnSet(Spends, Window(f))
Reserved(f) == SumFunctionOnSet(Reserves, Window(f))

-----------------------------------------------------------------------------
(* The rules *)

(* C2: a limit broken by waiting amounts alone is "reserved" (M5); a rule  *)
(* over another period than the view's is unknown (P3). *)
PeriodRule_M(f) == IF Spent(f) + f.amount <= Limit THEN "pass" ELSE "fail"
PeriodRule(f) ==
    IF LimitDays # WindowDays THEN "unknown"
    ELSE IF Spent(f) + Reserved(f) + f.amount <= Limit THEN "pass"
    ELSE IF Spent(f) + f.amount <= Limit THEN "reserved"
    ELSE "fail"

CountRule_M(f) ==
    IF Cardinality({p \in Window(f) : FinalApproval(p)}) + 1 <= MaxOrders
    THEN "pass" ELSE "fail"
CountRule(f) ==
    LET approved == Cardinality({p \in Window(f) : FinalApproval(p)})
        waiting == Cardinality({p \in Window(f) : Pending(p)})
    IN IF CountDays # WindowDays THEN "unknown"
       ELSE IF approved + waiting + 1 <= MaxOrders THEN "pass"
       ELSE IF approved + 1 <= MaxOrders THEN "reserved"
       ELSE "fail"

(* Ask once, then remember: a doubt the customer said yes to at this shop  *)
(* and item, in this run before the purchase or in an earlier one, passes. *)
ConfirmedBy_M(f) ==
    {p \in Before(f) \cup EarlierRuns(f) : "doubt" \in row[p].reasons}
ConfirmedBy(f) ==
    {p \in Before(f) \cup EarlierRuns(f) :
        CustomerYes(p) /\ "doubt" \in row[p].reasons}
Confirmed(f) == \E p \in ConfirmedBy(f) : row[p].fact.item = f.item

Doubt(f) == IF ~f.doubt \/ Confirmed(f) THEN "pass" ELSE "unknown"
OrderRule(f) == IF f.amount <= OrderLimit THEN "pass" ELSE "fail"

RuleResults(f) == {PeriodRule(f), CountRule(f), Doubt(f), OrderRule(f)} \ {"pass"}

-----------------------------------------------------------------------------
(* Protections and signs that read the ledger *)

(* An order at this shop that is, or may still be, approved. *)
Priors(f, window) ==
    {p \in Before(f) : /\ row[p].fact.item = f.item
                       /\ row[p].fact.ts >= f.ts - window
                       /\ FinalApproval(p) \/ Pending(p)}

(* A3: the same order within five percent of its amount. *)
Near(a, b) == 20 * (IF a > b THEN a - b ELSE b - a) <= b
Repeats_M(f) ==
    \E p \in Priors(f, DuplicateWindow) :
        FinalApproval(p) /\ Near(f.amount, row[p].fact.amount)
Repeats(f) ==
    \E p \in Priors(f, DuplicateWindow) : Near(f.amount, row[p].fact.amount)

(* A4: two orders in place of one over the per-order limit. *)
Splits(f) ==
    \E p \in Priors(f, SplitWindow) : row[p].fact.amount + f.amount > OrderLimit

(* A8: a final approval of the requested item, in this run or an earlier   *)
(* one, fulfils a single-item mandate. *)
Bought_M(f) ==
    SingleItem /\ f.wanted /\ \E p \in Before(f) : row[p].fact.wanted /\ FinalApproval(p)
Bought(f) ==
    /\ SingleItem /\ f.wanted
    /\ \E p \in Before(f) \cup EarlierRuns(f) : row[p].fact.wanted /\ FinalApproval(p)

(* W1: a device neither the history nor an approval of this run knows. *)
NewDevice(f) ==
    /\ f.device \notin OldDevices
    /\ \A p \in Before(f) : FinalApproval(p) => row[p].fact.device # f.device

(* _frozen walks this card's decisions, earlier runs first and then by     *)
(* simulated time: a frozen decision turns the watch on, a later step-up   *)
(* the customer approved (or the frozen one itself) turns it off.  Rows of *)
(* one instant come in no fixed order: `tie' says which one was last. *)
OnCard(f) == {p \in Before(f) \cup EarlierRuns(f) : row[p].fact.card = f.card}
Follows(p, q, tie) ==
    LET a == row[p].fact  b == row[q].fact
    IN \/ a.run > b.run
       \/ a.run = b.run /\ (a.ts > b.ts \/ (tie /\ a.ts = b.ts))
Cleared_M(q, f, tie) ==
    \E p \in OnCard(f) :
        row[p].answer \in {"approved", "declined"} /\ (p = q \/ Follows(p, q, tie))
Cleared(q, f, tie) ==
    \E p \in OnCard(f) : CustomerYes(p) /\ (p = q \/ Follows(p, q, tie))
Frozen(f, tie) == \E q \in OnCard(f) : row[q].trust = "frozen" /\ ~Cleared(q, f, tie)

FindingsOf(f, tie) ==
    [authority |-> "active",
     rules |-> RuleResults(f),
     protections |-> (IF Repeats(f) \/ Splits(f) THEN {"ask"} ELSE {})
                     \cup (IF Bought(f) THEN {"bought"} ELSE {}),
     strong |-> (IF NewDevice(f) THEN {"W1"} ELSE {})
                \cup (IF f.hurried THEN {"W2"} ELSE {}),
     weak |-> 0, soft |-> FALSE, watch |-> Frozen(f, tie)]

-----------------------------------------------------------------------------
(* The writes *)

(* The deciding ids of step 4 that a later purchase goes by. *)
StepFourReasons(f) ==
    ({PeriodRule(f), CountRule(f)} \cap {"reserved"})
        \cup (IF Doubt(f) = "unknown" THEN {"doubt"} ELSE {})

(* record: an approval is spend, a step-up is reserved, a decline neither. *)
NewRow(f, tie) ==
    LET in == FindingsOf(f, tie)
        verdict == Decision(in, Setting)
        asks == verdict.outcome = "step_up"
    IN [fact |-> f, outcome |-> verdict.outcome,
        answer |-> IF asks THEN "pending" ELSE "none",
        spent |-> IF verdict.outcome = "approve" THEN f.amount ELSE 0,
        reserved |-> IF asks THEN f.amount ELSE 0,
        trust |-> Trust(in), step |-> verdict.step,
        reasons |-> IF verdict.step = 4 THEN StepFourReasons(f) ELSE {}]

(* decide_event answers a purchase it has a row of from that row (M7). *)
Recorded_M(p, f, tie) == [row EXCEPT ![p] = NewRow(f, tie)]
Recorded(p, f, tie) ==
    [row EXCEPT ![p] = IF @ = Unseen THEN NewRow(f, tie) ELSE @]

DecideEvent(p, f) ==
    /\ p \in Stored => row[p].fact = f
    /\ \E tie \in BOOLEAN : row' = Recorded(p, f, tie)
    /\ IF row[p] = Unseen
       THEN /\ seen' = [seen EXCEPT ![p] = Stored]
            /\ yes' = [yes EXCEPT ![p] = {q \in Stored : CustomerYes(q)}]
       ELSE UNCHANGED <<seen, yes>>

(* resolve: an approval moves what was reserved to spent, anything else    *)
(* releases it.  Only a pending step-up can be closed. *)
Closed_M(p, answer) ==
    [row EXCEPT ![p].answer = answer,
                ![p].spent = IF answer = "approved" THEN row[p].fact.amount ELSE 0]
Closed(p, answer) ==
    [row EXCEPT ![p].answer = answer,
                ![p].spent = IF answer = "approved" THEN row[p].fact.amount ELSE 0,
                ![p].reserved = 0]

CustomerAnswers(p, answer) ==
    /\ p \in Stored /\ Pending(p)
    /\ row' = Closed(p, answer)
    /\ UNCHANGED <<seen, yes>>

TimesOut(p) ==
    /\ p \in Stored /\ Pending(p)
    /\ row' = Closed(p, "expired")
    /\ UNCHANGED <<seen, yes>>

Init ==
    /\ row = [p \in Purchase |-> Unseen]
    /\ seen = [p \in Purchase |-> {}] /\ yes = [p \in Purchase |-> {}]

Next ==
    \E p \in Purchase :
        \/ \E f \in Facts : DecideEvent(p, f)
        \/ CustomerAnswers(p, "approved") \/ CustomerAnswers(p, "declined")
        \/ TimesOut(p)

Spec == Init /\ [][Next]_vars

-----------------------------------------------------------------------------
(* Properties *)

TypeOK ==
    /\ row \in [Purchase -> Rows \cup {Unseen}]
    /\ seen \in [Purchase -> SUBSET Purchase]
    /\ yes \in [Purchase -> SUBSET Purchase]

Automatic(p) == p \in Stored /\ row[p].outcome = "approve"

(* A row's money follows its state through answers, timeouts and           *)
(* redeliveries: spent exactly when finally approved, reserved exactly     *)
(* while the customer is asked, never both (M4, M5, M7).                   *)
MoneyFollowsAnswers ==
    \A p \in Stored :
        /\ row[p].spent = IF FinalApproval(p) THEN row[p].fact.amount ELSE 0
        /\ row[p].reserved = IF Pending(p) THEN row[p].fact.amount ELSE 0
        /\ Pending(p) => row[p].outcome = "step_up"

(* What the engine approves by itself fits the period limit and the number *)
(* of orders, and still does when every purchase it was decided next to    *)
(* and that was waiting then has been approved since (M5, C2).             *)
ApprovalsFitTheWindow ==
    \A p \in Stored :
        LET known == Window(row[p].fact) \cap seen[p]
        IN Automatic(p) /\ Setting # "approve" =>
            /\ SumFunctionOnSet(Spends, known) + row[p].fact.amount <= Limit
            /\ Cardinality({q \in known : FinalApproval(q)}) + 1 <= MaxOrders

(* Purchases of one run and card decided in the order of simulated time.   *)
InOrder ==
    \A p, q \in Stored :
        q \in seen[p] /\ row[q].fact.run = row[p].fact.run
            => row[q].fact.ts < row[p].fact.ts

(* When they come in order, a period's spend passes the limit only by a    *)
(* purchase the customer was asked about because of that limit (M5).  Of a *)
(* limit for a longer period than the view's the rule knows nothing (P3).  *)
OverspendWasAsked ==
    InOrder /\ LimitDays = WindowDays => \A p \in Stored :
        \/ Spent(row[p].fact) + row[p].spent <= Limit
        \/ \E q \in Window(row[p].fact) \cup {p} :
              CustomerYes(q) /\ row[q].reasons # {}

(* The same order again is never approved by the engine while an earlier   *)
(* one is approved or may still be: not even when that one is approved     *)
(* only afterwards (A3).                                                   *)
RepeatsAreAsked ==
    \A p \in Stored : Automatic(p) =>
        \A q \in seen[p] \cap Priors(row[p].fact, DuplicateWindow) :
            ~Near(row[p].fact.amount, row[q].fact.amount)

(* A single-item mandate never gets its item twice by the engine alone,    *)
(* the later live runs under it included (A8).                             *)
ItemBoughtOnce ==
    SingleItem => \A p, q \in Stored :
        Automatic(p) /\ Automatic(q) /\ row[p].fact.wanted /\ row[q].fact.wanted
            => q \notin seen[p] \cap (Before(row[p].fact) \cup EarlierRuns(row[p].fact))

(* A restriction no data can check is passed only after the customer said  *)
(* yes to it for that shop and item: a pending, refused or expired ask     *)
(* teaches nothing.                                                        *)
DoubtsNeedAYes ==
    Setting # "approve" => \A p \in Stored :
        Automatic(p) /\ row[p].fact.doubt =>
            \E q \in yes[p] : row[q].fact.doubt /\ row[q].fact.item = row[p].fact.item

(* After a burst from a new device the engine approves nothing on that     *)
(* card, in this run or a later one, before the customer has approved that *)
(* purchase or a later one (W-rule 4).                                     *)
WatchHolds ==
    \A p \in Stored : Automatic(p) =>
        \A q \in seen[p] \cap OnCard(row[p].fact) : row[q].trust = "frozen" =>
            \E r \in yes[p] \cap OnCard(row[p].fact) : r = q \/ Follows(r, q, TRUE)

(* A decision is final: a redelivery, an answer or a timeout never changes *)
(* the outcome, and a closed row never changes again (M7).                 *)
DecidedForGood ==
    [][\A p \in Stored :
          /\ row'[p].outcome = row[p].outcome /\ row'[p].trust = row[p].trust
          /\ ~Pending(p) => row'[p] = row[p]]_vars

=============================================================================
