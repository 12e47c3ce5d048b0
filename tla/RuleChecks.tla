----------------------------- MODULE RuleChecks -----------------------------
(***************************************************************************)
(* Rules.tla on one purchase, one policy and one ledger, and what may      *)
(* happen to them: the shop writes more into its text, the customer says   *)
(* yes to the ask, orders are made and answered, the policy is tightened,  *)
(* the declined agent proposes what it was told would be approved.         *)
(*                                                                         *)
(* Every step compares the decision before it with the decision after.     *)
(***************************************************************************)
EXTENDS Rules

CONSTANTS
    Purchases,   \* what may be proposed
    Policies,    \* what the customer may have confirmed
    Ledgers,     \* and what the ledger may hold
    Statements,  \* what a shop may add to its text: <<item, field, value>>
    Orders,      \* orders that may be made on the card meanwhile
    Additions    \* rules that may be added (C4), by id

(* What the source lets these be: a line as facts.py reads it, a rule in the *)
(* vocabulary of draft.py, FIELDS (a period limit is a total or a count, a  *)
(* rule on alcohol or on billing forbids it), orders and amounts in CHF.    *)
IsLine(l) ==
    /\ l = [sizes |-> l.sizes, letters |-> l.letters, returns |-> l.returns,
            words |-> l.words, count |-> l.count]
    /\ IsFiniteSet(l.sizes) /\ IsFiniteSet(l.letters) /\ IsFiniteSet(l.returns)
    /\ l.returns \subseteq Nat \cup {Exchange}
IsPurchase(q) ==
    /\ q = [amount |-> q.amount, shop |-> q.shop, shopType |-> q.shopType,
            returnable |-> q.returnable, lines |-> q.lines]
    /\ q.amount \in Nat \ {0}
    /\ q.lines = [i \in Items(q) |-> q.lines[i]]
    /\ Items(q) # {} /\ "*" \notin Items(q)
    /\ \A i \in Items(q) : IsLine(q.lines[i])
IsRule(r) ==
    /\ r = [field |-> r.field, op |-> r.op, value |-> r.value, days |-> r.days, asks |-> r.asks]
    /\ r.days \in Nat
    /\ r.days > 0 => /\ r.field \in {"total", "count"} /\ r.op \in {"<", "<="}
                     /\ \E limit \in r.value : limit \in Nat /\ r.value = {limit}
    /\ r.field = "count" => r.days > 0
    /\ r.field \in {"alcohol", "recurring"} => r.op = "=" /\ r.value = {"false"}
    /\ r.field = "known_shop" => r.op = "=" /\ r.value = {"true"}
    /\ r.field = "item_type" => r.op \in {"in", "not_in"}
    /\ r.field = "returns" => r.op = ">=" /\ r.value \subseteq Nat
(* The item the customer asked for is one that the policy lets through. *)
Admits(r, i) == r.field = "item_type" => (TypeOf[i] \in r.value) = (r.op = "in")
LetsIn(d, i) ==
    /\ \A id \in DOMAIN d.rules : Admits(d.rules[id], i)
    /\ d.allowed # {} => TypeOf[i] \in d.allowed
    /\ TypeOf[i] \notin d.blocked
IsPolicy(d) ==
    /\ d = [rules |-> d.rules, requested |-> d.requested, allowed |-> d.allowed,
            blocked |-> d.blocked, shopType |-> d.shopType, knownShop |-> d.knownShop,
            nothingExtra |-> d.nothingExtra, setting |-> d.setting]
    /\ d.rules = [id \in DOMAIN d.rules |-> d.rules[id]]
    /\ \A id \in DOMAIN d.rules : IsRule(d.rules[id])
    /\ \A i \in d.requested : LetsIn(d, i)
IsOrder(o) == o \in [age : Nat, amount : Nat, waiting : BOOLEAN]
IsLedger(l) ==
    /\ l = [past |-> l.past, known |-> l.known, lastPrice |-> l.lastPrice,
            confirmed |-> l.confirmed]
    /\ IsFiniteSet(l.past) /\ \A o \in l.past : IsOrder(o)

(* A flag is read off the rules of its draft (draft.py, to_draft): a rule   *)
(* that is added later covers no flag by allowing more than the flag does.  *)
Keeps(id, d) ==
    LET r == Additions[id]
        for(flag, field, ops) == id = flag \/ (r.field = field /\ r.op \in ops)
        is(field, ops) == r.field = field /\ r.op \in ops /\ ~r.asks
    IN /\ id \notin {"C5", "C10"}
       /\ \A i \in d.requested : Admits(r, i)
       /\ d.allowed # {} /\ for("C3", "item_type", {"in"})
            => is("item_type", {"in"}) /\ r.value \subseteq d.allowed
       /\ d.blocked # {} /\ for("C4", "item_type", {"not_in"})
            => is("item_type", {"not_in"}) /\ d.blocked \subseteq r.value
       /\ d.shopType # {} /\ for("C8", "shop_type", {"=", "in"})
            => is("shop_type", {"=", "in"}) /\ r.value \subseteq d.shopType
       /\ d.knownShop /\ for("C9", "known_shop", {"="})
            => is("known_shop", {"="}) /\ id = "C9"

RuleChecksAssumption ==
    /\ \A q \in Purchases : IsPurchase(q)
    /\ \A d \in Policies : IsPolicy(d) /\ \A id \in DOMAIN Additions : Keeps(id, d)
    /\ \A id \in DOMAIN Additions : IsRule(Additions[id])
    /\ \A l \in Ledgers : IsLedger(l) /\ l.confirmed = {}
    /\ \A s \in Statements : /\ s[2] \in {"sizes", "letters", "returns", "words"}
                             /\ s[2] = "returns" => s[3] \in Nat \cup {Exchange}
    /\ \A o \in Orders : IsOrder(o)

VARIABLES p, pol, led,
    yes  \* what the customer has said yes to: <<rule, shop, items>>

vars == <<p, pol, led, yes>>

Init == p \in Purchases /\ pol \in Policies /\ led \in Ledgers /\ yes = {}

(* The shop's text states one thing more. *)
Stating(says, field, value) ==
    LET more(f) == IF f = field THEN {value} ELSE {}
    IN [sizes |-> says.sizes \cup more("sizes"), letters |-> says.letters \cup more("letters"),
        returns |-> says.returns \cup more("returns"), words |-> says.words \cup more("words"),
        count |-> says.count]
ShopSays(i, field, value) ==
    /\ i \in Items(p)
    /\ p' = [p EXCEPT !.lines[i] = Stating(@, field, value)]
    /\ UNCHANGED <<pol, led, yes>>

(* The customer approves the step-up: its deciding rules are remembered    *)
(* and the order is a final approval.  The same cart comes again. *)
Asking == {id \in Ids(pol) : Result(id, p, pol, led) \in {"unknown", "reserved"}}
CustomerSaysYes ==
    /\ Outcome(p, pol, led) = "step_up"
    /\ led' = [past |-> led.past \cup {[age |-> 0, amount |-> p.amount, waiting |-> FALSE]},
               known |-> led.known \cup {p.shop},
               lastPrice |-> [led.lastPrice EXCEPT ![p.shop] = {p.amount}],
               confirmed |-> led.confirmed \cup ConfirmationKeys(Asking, p)]
    /\ yes' = yes \cup {<<id, p.shop, Items(p)>> : id \in Asking}
    /\ UNCHANGED <<p, pol>>

AnotherOrder(o) ==
    /\ o \notin led.past
    /\ led' = [led EXCEPT !.past = @ \cup {o}]
    /\ UNCHANGED <<p, pol, yes>>

Answered(o) ==
    /\ o \in led.past /\ o.waiting
    /\ \/ led' = [led EXCEPT !.past = (@ \ {o}) \cup {[o EXCEPT !.waiting = FALSE]}]
       \/ led' = [led EXCEPT !.past = @ \ {o}]
    /\ UNCHANGED <<p, pol, yes>>

(* C4: an addition is a rule of a new id; nothing in force changes. *)
Tighten(id) ==
    /\ id \notin DOMAIN pol.rules
    /\ pol' = [pol EXCEPT !.rules = [j \in DOMAIN @ \cup {id} |->
                                        IF j = id THEN Additions[id] ELSE @[j]]]
    /\ UNCHANGED <<p, led, yes>>

(* The agent proposes the purchase again, changed to meet what it was told: *)
(* it adds nothing but the item the customer asked for. *)
Told == WouldApproveIf(p, pol, led)
Meets(b, q) ==
    CASE b.kind = "remove" -> Items(q) \cap b.items = {}
      [] b.kind = "requires" /\ b.what = "known_shop" -> q.shop \in led.known
      [] b.kind = "requires" /\ b.what = "requested_item" -> Wanted(q, pol) # {}
      [] b.kind = "requires" /\ b.what \notin {"known_shop", "requested_item"} -> TRUE
      [] b.kind = "field" /\ b.field = "count" -> FALSE  \* the ledger's, not the agent's
      [] b.kind = "field" /\ b.field # "count" ->
            \A f \in FactsFor(b.field, q, pol, led) :
                f # {} /\ \A v \in f : Within(v, b.op, b.value)
ProposesAgain(q) ==
    /\ q # p /\ p' = q
    /\ Items(q) \subseteq Items(p) \cup pol.requested
    /\ Told # {} /\ \A b \in Told : Meets(b, q)
    /\ UNCHANGED <<pol, led, yes>>

Next ==
    \/ \E s \in Statements : ShopSays(s[1], s[2], s[3])
    \/ CustomerSaysYes
    \/ (\E o \in Orders : AnotherOrder(o) \/ Answered(o))
    \/ (\E id \in DOMAIN Additions : Tighten(id))
    \/ (\E q \in Purchases : ProposesAgain(q))

Spec == Init /\ [][Next]_vars

-----------------------------------------------------------------------------
(* Properties *)

(* Shop text is untrusted: whatever the shop adds to it, a broken rule     *)
(* does not become a met one (facts.py: a contradiction is unknown, the    *)
(* strictest line wins, the catalogue's alcohol stands). *)
ShopTextNeverClears ==
    [][(\E s \in Statements : ShopSays(s[1], s[2], s[3]))
        => \A id \in Ids(pol) :
              Result(id, p, pol, led) = "fail" => Result(id, p, pol, led)' # "pass"]_vars

(* "Ask once, then remember", and no further: a rule that is met by what   *)
(* is remembered was asked about at this shop, and for every item of the   *)
(* cart, or for the shop as a whole when it is about knowing the shop      *)
(* (policy.py, add_ledger_results, _known_shop_with_ledger). *)
OnTheShop(id) == id \notin DOMAIN pol.rules \/ pol.rules[id].field = "known_shop"
Answers(id, q) == {y \in yes : y[1] = id /\ y[2] = q.shop}
YesGoesNoFurther ==
    \A q \in Purchases : \A id \in Ids(pol) :
        (/\ Result(id, q, pol, led) = "pass"
         /\ Result(id, q, pol, [led EXCEPT !.confirmed = {}]) # "pass")
        => /\ Answers(id, q) # {}
           /\ OnTheShop(id) \/ Items(q) \subseteq UNION {y[3] : y \in Answers(id, q)}

(* M5: a period rule is broken by the waiting orders alone exactly when    *)
(* declining them all would let this purchase pass (policy.py,             *)
(* evaluate_period_rule, evaluate_count_rule). *)
WithoutWaiting == [led EXCEPT !.past = Approved(@)]
WaitingAloneAsks ==
    \A id \in PeriodRules(pol) :
        LET now == Result(id, p, pol, led)
            then == Result(id, p, pol, WithoutWaiting)
        IN (now = "reserved") = (now # "pass" /\ then = "pass")

(* One more order, waiting or approved, never makes a period rule more     *)
(* lenient. *)
Strictness == [pass |-> 0, unknown |-> 1, reserved |-> 2, fail |-> 3]
OrdersNeverLoosen ==
    [][(\E o \in Orders : AnotherOrder(o))
        => \A id \in PeriodRules(pol) :
              Strictness[Result(id, p, pol, led)'] >= Strictness[Result(id, p, pol, led)]]_vars

(* E3: an agent that proposes what would_approve_if names does not meet    *)
(* the same refusal: every rule that had failed, and that it could do      *)
(* anything about, is no longer in the way (explain.py, rule_bound, _merged). *)
Actionable ==
    {id \in Ids(pol) :
        /\ Result(id, p, pol, led) = "fail"
        /\ id \in DOMAIN pol.rules => pol.rules[id].field # "count"}
BoundsAreEnough ==
    [][(\E q \in Purchases : ProposesAgain(q))
        => \A id \in Actionable :
              \/ id \in DOMAIN pol.rules /\ OnLastPrice(pol.rules[id]) /\ p'.shop # p.shop
              \/ Result(id, p, pol, led)' \notin {"fail", "reserved"}]_vars

(* T5, "then tighten only": a rule added to the policy never makes the     *)
(* decision on a purchase more lenient. *)
Severity == [approve |-> 0, step_up |-> 1, decline |-> 2]
Loosened == Severity[Outcome(p, pol, led)'] < Severity[Outcome(p, pol, led)]

(* The same where the added rule brings no shorter period than the policy  *)
(* has: the ledger is still read over the window of the rules in force. *)
TightenKeepsDecisions ==
    [][(\E id \in DOMAIN Additions :
            /\ Tighten(id)
            /\ Additions[id].days = 0 \/ PeriodRules(pol) = {}
               \/ Additions[id].days >= Window(pol))
        => ~Loosened]_vars

=============================================================================
