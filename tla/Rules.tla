-------------------------------- MODULE Rules --------------------------------
(***************************************************************************)
(* What the engine makes of one purchase before it decides: the facts read *)
(* from the shop's text (engine/facts.py), the customer's rules on them    *)
(* (engine/policy.py), the rules that need the ledger (add_ledger_results) *)
(* and what a declined agent is told (engine/explain.py, with_bounds).     *)
(* Pure functions, as in the source.                                       *)
(*                                                                         *)
(* A fact is a set: {} when it is not known, {v} when it is v.             *)
(*   purchase  [amount, shop, shopType, returnable, lines]; lines[i] is    *)
(*             what the shop says about item i: sizes, letters (letter     *)
(*             sizes), returns (return days), words, and the count ordered *)
(*   policy    [rules, requested, allowed, blocked, shopType, knownShop,   *)
(*             nothingExtra, setting]; rules[id] is a typed rule           *)
(*             [field, op, value, days, asks], value a set                 *)
(*   ledger    [past, known, lastPrice, confirmed]; past is the approved   *)
(*             and the waiting orders on the card, by their age in days    *)
(*                                                                         *)
(* An operator whose name ends in _M is a mutation of the one after it.    *)
(***************************************************************************)
EXTENDS Integers, FiniteSets, FiniteSetsExt
LOCAL INSTANCE Functions

CONSTANTS TypeOf,  \* TypeOf[i]: the catalogue's category of item i
          Listed   \* Listed[i]: the words the catalogue describes it with

NotADrink == {"books", "clothing", "electronics", "household", "sporting_goods"}
Exchange == -1  \* "exchange only", stated in place of a number of days

D == INSTANCE Decide

-----------------------------------------------------------------------------
(* Facts *)

(* A text that says two things says nothing. *)
OnlyOne(S) == IF Cardinality(S) = 1 THEN S ELSE {}

Size(says) == OnlyOne(says.sizes)
Letter(says) == OnlyOne(says.letters)

(* "Exchange only" names no days, and contradicts any that are named. *)
Returns(says) == IF Exchange \in says.returns THEN {} ELSE OnlyOne(says.returns)

(* The catalogue naming alcohol wins over what the shop says; otherwise    *)
(* the two are read together.  "soft": soft drinks are named. *)
Verdict(words) ==
    IF "alcohol" \in words
    THEN IF "free" \in words THEN {} ELSE {"true"}
    ELSE IF "drinks" \in words /\ words \cap {"free", "soft"} = {} THEN {}
    ELSE {"false"}
Alcohol(i, says) ==
    IF TypeOf[i] \in NotADrink THEN {"false"}
    ELSE IF Verdict(Listed[i]) = {"true"} THEN {"true"}
    ELSE Verdict(says.words \cup Listed[i])

Items(p) == DOMAIN p.lines
Ordered(p) == [i \in Items(p) |-> p.lines[i].count]

(* order_return_window: the strictest the lines state, unless one line     *)
(* contradicts itself. *)
OrderReturns(p) ==
    LET stated == UNION {Returns(p.lines[i]) : i \in Items(p)}
    IN IF p.returnable = "false" THEN {0}
       ELSE IF \E i \in Items(p) : Cardinality(p.lines[i].returns) > 1 THEN {}
       ELSE IF stated = {} THEN {} ELSE {Min(stated)}

Billed(i, says) ==
    TypeOf[i] \in {"subscriptions", "membership"} \/ "monthly" \in says.words
Recurring(p) ==
    IF \E i \in Items(p) : Billed(i, p.lines[i]) THEN "true" ELSE "false"

(* The lines that are the requested item (all of them if none was named). *)
Wanted(p, pol) ==
    IF pol.requested = {} THEN Items(p) ELSE Items(p) \cap pol.requested

IsKnown(p, led) == IF p.shop \in led.known THEN "true" ELSE "false"

(* What a rule on this field is checked against: one fact per value, none  *)
(* when no data can check it. *)
FactsFor(field, p, pol, led) ==
    CASE field = "total" -> {{p.amount}}
      [] field = "quantity" -> {{SumFunctionOnSet(Ordered(p), Wanted(p, pol))}}
      [] field = "size" ->
            IF Wanted(p, pol) = {} THEN {{}}
            ELSE {Size(p.lines[i]) : i \in Wanted(p, pol)}
      [] field = "letter" ->
            IF Wanted(p, pol) = {} THEN {{}}
            ELSE {Letter(p.lines[i]) : i \in Wanted(p, pol)}
      [] field = "item_type" -> {{TypeOf[i]} : i \in Items(p)}
      [] field = "alcohol" -> {Alcohol(i, p.lines[i]) : i \in Items(p)}
      [] field = "recurring" -> {{Recurring(p)}}
      [] field = "returns" -> {OrderReturns(p)}
      [] field = "returnable" ->
            {{p.returnable} \cap {"true", "false"}}
      [] field = "shop_type" -> {p.shopType}
      [] field = "known_shop" -> {{IsKnown(p, led)}}
      [] OTHER -> {}

-----------------------------------------------------------------------------
(* One rule *)

Within(v, op, value) ==
    CASE op = "in" -> v \in value
      [] op = "not_in" -> v \notin value
      [] op = "=" -> {v} = value
      [] op = "<" -> \A limit \in value : v < limit
      [] op = "<=" -> \A limit \in value : v <= limit
      [] op = ">=" -> \A limit \in value : v >= limit

(* A broken rule of a customer who said "ask me if it changed" asks. *)
Broken(r) == IF r.asks THEN "unknown" ELSE "fail"

Unchecked(r) == r.field = "unverifiable"
OnLastPrice(r) == r.field = "last_price"

(* Every value must meet the rule; one that is not known leaves it open,   *)
(* one that does not breaks it. *)
TypedRule(r, p, pol, led) ==
    LET facts == FactsFor(r.field, p, pol, led)
    IN IF facts = {} THEN "unknown"
       ELSE IF \E v \in UNION facts : ~Within(v, r.op, r.value) THEN Broken(r)
       ELSE IF {} \in facts THEN "unknown" ELSE "pass"

(* The flags the customer stated, where no typed rule covers the same. *)
Covered(pol, field, ops) ==
    \E id \in DOMAIN pol.rules : pol.rules[id].field = field /\ pol.rules[id].op \in ops

FlagIds == {"C3", "C4", "C5", "C8", "C9", "C10"}
Checked(pol) ==
    {f \in FlagIds :
        \/ f = "C3" /\ pol.allowed # {} /\ ~Covered(pol, "item_type", {"in"})
        \/ f = "C4" /\ pol.blocked # {} /\ ~Covered(pol, "item_type", {"not_in"})
        \/ f = "C5" /\ pol.requested # {}
        \/ f = "C8" /\ pol.shopType # {} /\ ~Covered(pol, "shop_type", {"=", "in"})
        \/ f = "C9" /\ pol.knownShop /\ ~Covered(pol, "known_shop", {"="})
        \/ f = "C10" /\ pol.nothingExtra}

Excess(p, pol) ==
    IF pol.requested # {} THEN Items(p) \ pol.requested
    ELSE {i \in Items(p) : pol.allowed # {} /\ TypeOf[i] \notin pol.allowed}

(* The cart lines of these types, or those of any other. *)
OfType(p, types, in) == {i \in Items(p) : (TypeOf[i] \in types) = in}
Met(holds) == IF holds THEN "pass" ELSE "fail"
CheckAllowedTypes(p, pol) == Met(OfType(p, pol.allowed, FALSE) = {})
CheckBlockedTypes(p, pol) == Met(OfType(p, pol.blocked, TRUE) = {})
CheckRequestedItem(p, pol) == Met(Wanted(p, pol) # {})
CheckShopType(p, pol) ==
    IF p.shopType = {} THEN "unknown" ELSE Met(p.shopType \subseteq pol.shopType)
CheckKnownShop(p, led) == Met(IsKnown(p, led) = "true")
CheckNothingExtra(p, pol) == Met(Excess(p, pol) = {})

Flag(f, p, pol, led) ==
    CASE f = "C3" -> CheckAllowedTypes(p, pol)
      [] f = "C4" -> CheckBlockedTypes(p, pol)
      [] f = "C5" -> CheckRequestedItem(p, pol)
      [] f = "C8" -> CheckShopType(p, pol)
      [] f = "C9" -> CheckKnownShop(p, led)
      [] f = "C10" -> CheckNothingExtra(p, pol)

-----------------------------------------------------------------------------
(* The rules that need the ledger *)

PeriodRules(pol) == {id \in DOMAIN pol.rules : pol.rules[id].days > 0}

(* The ledger is read over one window, the policy's shortest period. *)
Window(pol) == Min({pol.rules[id].days : id \in PeriodRules(pol)})
InWindow(pol, led) == {o \in led.past : o.age <= Window(pol)}
Sum(orders) == MapThenSumSet(LAMBDA o : o.amount, orders)
Waiting(orders) == {o \in orders : o.waiting}
Approved(orders) == {o \in orders : ~o.waiting}

(* C2: what this purchase would bring the total, or the count, to, with    *)
(* the waiting orders and without. *)
Total(r, p, orders) ==
    IF r.field = "count" THEN Cardinality(orders) + 1 ELSE Sum(orders) + p.amount

PeriodRule_M(r, p, pol, led) ==
    LET orders == InWindow(pol, led)
    IN IF r.days # Window(pol) THEN "unknown"
       ELSE IF Within(Total(r, p, orders), r.op, r.value) THEN "pass"
       ELSE IF Waiting(orders) # {} THEN "reserved" ELSE "fail"
PeriodRule(r, p, pol, led) ==
    LET orders == InWindow(pol, led)
    IN IF r.days # Window(pol) THEN "unknown"
       ELSE IF Within(Total(r, p, orders), r.op, r.value) THEN "pass"
       ELSE IF Within(Total(r, p, Approved(orders)), r.op, r.value) THEN "reserved"
       ELSE "fail"

LastPriceRule(r, p, led) ==
    IF led.lastPrice[p.shop] = {} THEN "unknown"
    ELSE IF Within(p.amount, r.op, led.lastPrice[p.shop]) THEN "pass" ELSE Broken(r)

(* What the customer said yes to: a rule at a shop, and per item. *)
AtShop(id, p) == <<id, p.shop, "*">>
AtItem(id, p, i) == <<id, p.shop, i>>
ConfirmationKeys(ids, p) ==
    {AtShop(id, p) : id \in ids}
    \cup {AtItem(id, p, i) : id \in ids, i \in Items(p)}

(* C9: with no approved purchase yet nobody can tell whether the shop is   *)
(* known; a yes to that is remembered for the shop. *)
KnownShop(id, result, p, led) ==
    IF result = "pass" THEN "pass"
    ELSE IF result = "fail" /\ led.known # {} THEN "fail"
    ELSE IF AtShop(id, p) \in led.confirmed THEN "pass" ELSE "unknown"

(* Ask once, then remember: for every item of the cart, at this shop. *)
Remembered(id, p, led) == \A i \in Items(p) : AtItem(id, p, i) \in led.confirmed

RuleResult(id, p, pol, led) ==
    LET r == pol.rules[id]
        typed == TypedRule(r, p, pol, led)
    IN IF r.days > 0 THEN PeriodRule(r, p, pol, led)
       ELSE IF r.field = "known_shop" THEN KnownShop(id, typed, p, led)
       ELSE IF OnLastPrice(r) THEN LastPriceRule(r, p, led)
       ELSE IF Unchecked(r) /\ Remembered(id, p, led) THEN "pass" ELSE typed

FlagResult(f, p, pol, led) ==
    LET result == Flag(f, p, pol, led)
    IN IF f = "C9" THEN KnownShop(f, result, p, led) ELSE result

Ids(pol) == DOMAIN pol.rules \cup Checked(pol)
Result(id, p, pol, led) ==
    IF id \in DOMAIN pol.rules THEN RuleResult(id, p, pol, led) ELSE FlagResult(id, p, pol, led)

Failing(p, pol, led) ==
    {id \in Ids(pol) : Result(id, p, pol, led) \in {"fail", "reserved"}}

(* decide() on these rules alone. *)
Findings(p, pol, led) ==
    [authority |-> "active", protections |-> {}, strong |-> {}, weak |-> 0,
     soft |-> FALSE, watch |-> FALSE,
     rules |-> {Result(id, p, pol, led) : id \in Ids(pol)} \ {"pass"}]
Outcome(p, pol, led) == D!Decision(Findings(p, pol, led), pol.setting).outcome

-----------------------------------------------------------------------------
(* What would make it a yes (E3) *)

Remove(items) == IF items = {} THEN {} ELSE {[kind |-> "remove", items |-> items]}
Requires(what) == {[kind |-> "requires", what |-> what]}
FieldBound(field, op, value) ==
    {[kind |-> "field", field |-> field, op |-> op, value |-> value]}

(* The room the approved and the waiting orders leave. *)
Room(r, pol, led) ==
    LET room == Max(r.value) - Sum(InWindow(pol, led)) IN Max({room, 0})

TypedBound(r, p, pol, led) ==
    IF r.field = "known_shop" THEN Requires("known_shop")
    ELSE IF r.field = "item_type" THEN Remove(OfType(p, r.value, r.op = "not_in"))
    ELSE IF r.field = "count" THEN FieldBound("count", r.op, r.value)
    ELSE IF r.days > 0 THEN FieldBound("total", r.op, {Room(r, pol, led)})
    ELSE IF OnLastPrice(r) THEN FieldBound("total", r.op, led.lastPrice[p.shop])
    ELSE FieldBound(r.field, r.op, r.value)

FlagBound(f, p, pol) ==
    CASE f = "C3" -> Remove(OfType(p, pol.allowed, FALSE))
      [] f = "C4" -> Remove(OfType(p, pol.blocked, TRUE))
      [] f = "C10" -> Remove(Excess(p, pol))
      [] f = "C5" -> Requires("requested_item")
      [] f = "C8" -> FieldBound("shop_type", "in", pol.shopType)
      [] f = "C9" -> Requires("known_shop")

(* A count rule that allows nothing has no counterfactual, and no bound. *)
NoneAllowed(r) ==
    r.field = "count" /\ (r.value = {0} \/ (r.op = "<" /\ r.value = {1}))

RuleBound(id, p, pol, led) ==
    IF Result(id, p, pol, led) = "reserved" THEN Requires("unanswered_declined")
    ELSE IF id \notin DOMAIN pol.rules THEN FlagBound(id, p, pol)
    ELSE IF NoneAllowed(pol.rules[id]) THEN {}
    ELSE TypedBound(pol.rules[id], p, pol, led)

(* Every remove_items in one entry. *)
Merged(bounds) ==
    LET removals == {b \in bounds : b.kind = "remove"}
    IN (bounds \ removals) \cup Remove(UNION {b.items : b \in removals})

WouldApproveIf(p, pol, led) ==
    IF Outcome(p, pol, led) # "decline" THEN {}
    ELSE Merged(UNION {RuleBound(id, p, pol, led) : id \in Failing(p, pol, led)})
=============================================================================
