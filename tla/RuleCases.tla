------------------------------ MODULE RuleCases ------------------------------
(***************************************************************************)
(* Small instances for RuleChecks (carts of shoes, a drink and a plan at   *)
(* two shops), for ModelFacts (shoes and a shirt, whose text says more     *)
(* than the patterns find) and for Familiarity (a shop the customer knows, *)
(* one of almost its name, one abroad that bills again).                   *)
(***************************************************************************)
EXTENDS Integers

Types == [shoes |-> "sporting_goods", shirt |-> "clothing",
          drink |-> "groceries", plan |-> "subscriptions"]
Words == [i \in DOMAIN Types |-> {}]

(* Typed rules, under the ids the compiler gives them (draft.py, _base_id). *)
Rule(field, op, value) ==
    [field |-> field, op |-> op, value |-> value, days |-> 0, asks |-> FALSE]
Asks(r) == [r EXCEPT !.asks = TRUE]
Per(days, r) == [r EXCEPT !.days = days]

SizeRule == Rule("size", "=", {43})
ReturnsRule == Rule("returns", ">=", {14})
Official == Rule("unverifiable", "=", {"official"})

Policy(rules, uncertain) ==
    [rules |-> rules, requested |-> {}, allowed |-> {}, blocked |-> {},
     shopType |-> {}, knownShop |-> FALSE, nothingExtra |-> FALSE, setting |-> uncertain]

-----------------------------------------------------------------------------
(* RuleChecks *)

Silent == [sizes |-> {}, letters |-> {}, returns |-> {}, words |-> {}, count |-> 1]
Shoes == {[Silent EXCEPT !.sizes = s, !.returns = r] :
             s \in {{}, {42}, {43}}, r \in {{}, {14}}}
Drink == {[Silent EXCEPT !.words = w] : w \in {{}, {"alcohol"}, {"drinks"}}}
Carts == {[shoes |-> s] : s \in Shoes} \cup {[drink |-> d] : d \in Drink}
         \cup {[shoes |-> s, plan |-> Silent] : s \in Shoes}
         \cup {[drink |-> d, plan |-> Silent] : d \in Drink}

Purchase(carts, amounts, shops, types, returnable) ==
    [amount : amounts, shop : shops, shopType : types,
     returnable : returnable, lines : carts]
SpentPurchase ==
    Purchase({[shoes |-> Silent], [shoes |-> Silent, plan |-> Silent]},
             1..3, {"old", "new"}, {{"sports"}}, {"unknown"})
ToldPurchase ==
    {q \in Purchase(Carts, {1, 3}, {"old", "new"}, {{}, {"sports"}}, {"unknown"}) :
        "shoes" \in DOMAIN q.lines => /\ q.lines["shoes"].returns = {}
                                      /\ q.lines["shoes"].sizes # {42}}
ReadPurchase == Purchase(Carts, {2}, {"old"}, {{}, {"sports"}}, {"unknown", "false"})

Cap == Rule("total", "<=", {2})
Under == Rule("total", "<", {2})
NoAlcohol == Rule("alcohol", "=", {"false"})
NoRecurring == Rule("recurring", "=", {"false"})
OnlyFood == Rule("item_type", "in", {"groceries"})
NoPlans == Rule("item_type", "not_in", {"subscriptions"})
FamiliarShop == Rule("known_shop", "=", {"true"})
SportsShop == Rule("shop_type", "=", {"sports"})
SamePrice == Rule("last_price", "=", {})
NoDearer == Rule("last_price", "<=", {})
One == Rule("quantity", "<=", {1})
Week == Per(7, Rule("total", "<=", {4}))
Day == Per(1, Rule("total", "<", {4}))
OnePerWeek == Per(7, Rule("count", "<=", {1}))
TwoPerDay == Per(1, Rule("count", "<", {3}))

OneItem == [Policy([C1 |-> Cap, C6 |-> SizeRule], "ask") EXCEPT !.requested = {"shoes"},
                                                                !.nothingExtra = TRUE]
Flags == [Policy([C1 |-> Under], "ask") EXCEPT !.allowed = {"groceries", "sporting_goods"},
             !.blocked = {"subscriptions"}, !.shopType = {"sports"}, !.knownShop = TRUE]

ReadPolicies ==
    {Policy([C6 |-> SizeRule, C7 |-> ReturnsRule], "ask"),
     Policy([A |-> NoAlcohol, R |-> NoRecurring], "approve"),
     Policy([C3 |-> OnlyFood, A |-> NoAlcohol, C7same |-> Asks(ReturnsRule)], "decline"),
     OneItem}
PeriodPolicies ==
    {Policy([C2 |-> Week, Cn |-> OnePerWeek, U1 |-> Official], "ask"),
     Policy([Cn |-> OnePerWeek], "approve"), Policy([C2 |-> Week], "ask"),
     Policy([C2 |-> Day, Cn |-> OnePerWeek], "approve"),
     Policy([C3 |-> OnlyFood, C4 |-> NoPlans, C2 |-> Day, Cn |-> TwoPerDay], "decline")}
ShopPolicies ==
    {Policy([C1 |-> Cap, C9same |-> Asks(FamiliarShop), U1 |-> Official], "ask"),
     Policy([C1 |-> NoDearer, C1same |-> Asks(SamePrice), C9 |-> FamiliarShop], "ask"),
     Policy([C8 |-> SportsShop, C9 |-> FamiliarShop, Cq |-> One], "decline"),
     OneItem, Flags}

AllPolicies == PeriodPolicies \cup ShopPolicies

Order(age, amount, waiting) == [age |-> age, amount |-> amount, waiting |-> waiting]
NewOrders == {Order(0, 1, TRUE), Order(0, 2, FALSE), Order(3, 3, FALSE), Order(3, 2, TRUE)}

Ledger(known) ==
    [past |-> {}, known |-> known, confirmed |-> {},
     lastPrice |-> [s \in {"old", "new"} |-> IF s \in known THEN {2} ELSE {}]]
NewLedger == Ledger({})
OldLedger == Ledger({"old"})
SpentLedger == [OldLedger EXCEPT !.past = {Order(0, 2, FALSE), Order(3, 2, TRUE)}]
OldLedgers == {OldLedger}
NewLedgers == {NewLedger, OldLedger}
AllLedgers == {NewLedger, OldLedger, SpentLedger}

ExchangeOnly == -1  \* Rules!Exchange
ShopText ==
    {<<"shoes", "sizes", 42>>, <<"shoes", "sizes", 43>>,
     <<"shoes", "returns", 14>>, <<"shoes", "returns", 7>>,
     <<"shoes", "returns", ExchangeOnly>>, <<"plan", "returns", 30>>,
     <<"drink", "words", "alcohol">>, <<"drink", "words", "free">>,
     <<"drink", "words", "soft">>, <<"drink", "words", "drinks">>,
     <<"shoes", "words", "monthly">>}

Additions == [C1 |-> Under, C2 |-> Week, Cn |-> OnePerWeek, C9 |-> FamiliarShop, C4 |-> NoPlans]

-----------------------------------------------------------------------------
(* ModelFacts *)

M == 4  \* a letter size, and a number that may be taken for one
Readable == {M, 14, 43, 99}

Line(sizes, letters, returns, also, directed, settled) ==
    [sizes |-> sizes, letters |-> letters, returns |-> returns, also |-> also,
     directed |-> directed, settled |-> settled, words |-> {}, count |-> 1]
Also(sizes, letters, returns) == [sizes |-> sizes, letters |-> letters, returns |-> returns]

(* What the patterns find, and what else the text states. *)
ShoesLines ==
    {Line(s, {}, r, Also(t, {}, u), d, e) :
        s \in {{}, {42}, {42, 43}}, r \in {{}, {30}}, t \in {{}, {43}, {99}},
        u \in {{}, {14}, {43}}, d \in BOOLEAN, e \in {{}, {"returns"}}}
ShirtLines ==
    {Line({}, l, r, Also({}, m, {14}), FALSE, e) :
        l \in {{}, {M}, {3, M}}, r \in {{}, {0}}, m \in {{}, {M}}, e \in {{}, {"sizes"}}}

Bought(lines) ==
    [amount |-> 1, shop |-> "shop", shopType |-> {}, returnable |-> "unknown", lines |-> lines]
TextPurchases ==
    {Bought([shoes |-> s]) : s \in ShoesLines}
    \cup {Bought([shirt |-> s]) : s \in ShirtLines}
    \cup {Bought([shoes |-> s, shirt |-> t]) : s \in {x \in ShoesLines : x.also.sizes # {99}},
                                               t \in {x \in ShirtLines : x.settled = {}}}

Wants(rules, requested) == [Policy(rules, "ask") EXCEPT !.requested = requested]
TextPolicies ==
    {Wants([C6 |-> SizeRule, C7 |-> ReturnsRule], {"shoes"}),
     Wants([C6 |-> Rule("letter", "=", {M})], {"shirt"}),
     Wants([C7 |-> ReturnsRule], {}), Wants([C7same |-> Asks(ReturnsRule)], {}),
     Wants([C7 |-> Rule("returns", ">=", {30}), U1 |-> Official], {}),
     Wants([C6 |-> SizeRule, U1 |-> Official], {"shoes"})}

-----------------------------------------------------------------------------
(* Familiarity *)

Countries == [harbor |-> "CH", harbour |-> "CH", gym |-> "DE"]
Names == {{"harbor", "harbour"}}
KnownHarbor == {[shop |-> "harbor", device |-> "phone", amount |-> 20]}
=============================================================================
