------------------------------- MODULE Preview -------------------------------
(***************************************************************************)
(* What a customer is shown of a policy before and beside the decisions:   *)
(* the preview of a draft over the card's past purchases (compiler/        *)
(* dryrun.py, and api/policies.py form_dry_run for a form), and the meter  *)
(* of what is spent and left (usage).  Each has an evaluator of its own,   *)
(* compared here with the engine's rules (Rules) on the same purchases.    *)
(*                                                                         *)
(* past holds the purchases of one customer in the order they were made:   *)
(* [card, shop, amount, day, status].  The preview reads the approved ones *)
(* as the history; the meter reads the card's purchases as its latest run. *)
(***************************************************************************)
EXTENDS Rules, Sequences

CONSTANTS
  Policies, Cards, Shops, Amounts, Statuses,
  PreviewDays,   \* WINDOW_DAYS: how far back the preview goes
  MaxGap,        \* bound on the days between two purchases
  MaxPast        \* bound on the purchases

(* What a rule of a draft can be: an amount or a count over some days, an   *)
(* amount of one order, the price paid before, a shop bought from before,   *)
(* or what nobody can check.                                                *)
Stated(r) ==
  /\ r.days \in Nat /\ r.asks \in BOOLEAN
  /\ r.op \in {"<", "<=", "=", ">="}
  /\ r.field \in {"total", "count"} => \E n \in r.value : n \in Nat /\ r.value = {n}
  /\ \/ r.field = "total"
     \/ r.field = "count" /\ r.days > 0
     \/ r.field = "known_shop" /\ r.op = "=" /\ r.value = {"true"} /\ r.days = 0
     \/ r.field \in {"last_price", "unverifiable"} /\ r.days = 0

(* A draft of such rules; the flag's id is no other rule's. *)
IsDraft(p) ==
  /\ IsFiniteSet(DOMAIN p.rules)
  /\ \A id \in DOMAIN p.rules :
       Stated(p.rules[id]) /\ (id = "C9" => p.rules[id].field = "known_shop")
  /\ {p.requested, p.allowed, p.blocked, p.shopType} = {{}}
  /\ p.knownShop \in BOOLEAN /\ p.nothingExtra = FALSE

PreviewAssumption ==
  /\ {PreviewDays, MaxGap, MaxPast} \subseteq Nat
  /\ Statuses \subseteq {"approved", "waiting", "declined"}
  /\ Amounts \subseteq Nat
  /\ \A p \in Policies : IsDraft(p)

(* All the limits over days are over the same days. *)
OneWindow(p) ==
  \A id, other \in {x \in DOMAIN p.rules : p.rules[x].days > 0} :
    p.rules[id].days = p.rules[other].days

(* What a form can state: "at most", and to ask at a shop not known yet. *)
OnForm(p) ==
  \A id \in DOMAIN p.rules :
    \/ p.rules[id].field = "total" /\ p.rules[id].op = "<=" /\ ~p.rules[id].asks
    \/ p.rules[id].field = "known_shop" /\ p.knownShop

(* Limits alone, "at most" over days. *)
OfLimits(p) ==
  \A id \in DOMAIN p.rules :
    p.rules[id].field = "total" /\ (p.rules[id].days > 0 => p.rules[id].op = "<=")

VARIABLES past, pol

vars == <<past, pol>>

Row == [card: Cards, shop: Shops, amount: Amounts, day: Nat, status: Statuses]

TypeOK ==
  /\ past \in Seq(Row) /\ pol \in Policies
  /\ \A i, j \in DOMAIN past : i < j => past[i].day <= past[j].day

Init == past = <<>> /\ pol \in Policies

Last == past[Len(past)]
Today == IF past = <<>> THEN 0 ELSE Last.day

Buys(card, shop, amount, status, gap) ==
  /\ Len(past) < MaxPast /\ (past = <<>> => gap = 0)
  /\ past' = Append(past, [card |-> card, shop |-> shop, amount |-> amount, day |-> Today + gap,
                           status |-> status])
  /\ UNCHANGED pol

Next == \E c \in Cards, s \in Shops, a \in Amounts, k \in Statuses, g \in 0..MaxGap : Buys(c, s, a, k, g)

Spec == Init /\ [][Next]_vars

-----------------------------------------------------------------------------
(* recent_rows: from the day after start to the last day of the history. *)
Recent(i) == past[i].day > Today - PreviewDays
IsApproved(i) == past[i].status = "approved"
Approvals(card) == {i \in DOMAIN past : past[i].card = card /\ IsApproved(i)}
Prior(card, i) == {j \in Approvals(card) : j < i}

(* Shops the card bought from before. *)
Seen(card, i) == {past[j].shop : j \in Prior(card, i)}

RuleIds == DOMAIN pol.rules
FamiliarRules == {id \in RuleIds : pol.rules[id].field = "known_shop"}

-----------------------------------------------------------------------------
(* compiler/dryrun.py *)

_known_shop(card, i) == IF past[i].shop \in Seen(card, i) THEN "fit" ELSE "ask"

(* on_fail *)
BreaksAs(r) == IF r.asks THEN "ask" ELSE "violate"

_last_price(r, card, i) ==
  LET before == {j \in Prior(card, i) : past[j].shop = past[i].shop} IN
  IF before = {} THEN "ask"
  ELSE IF Within(past[i].amount, r.op, {past[Max(before)].amount}) THEN "fit" ELSE BreaksAs(r)

InPeriod(r, card, i) == {j \in Prior(card, i) : past[j].day >= past[i].day - r.days}

(* A bug a change could bring: the purchase itself is not counted. *)
PeriodTotal_M(r, card, i) ==
  IF r.field = "count" THEN Cardinality(InPeriod(r, card, i))
                       ELSE MapThenSumSet(LAMBDA j : past[j].amount, InPeriod(r, card, i))

PeriodTotal(r, card, i) ==
  IF r.field = "count" THEN Cardinality(InPeriod(r, card, i)) + 1
    ELSE MapThenSumSet(LAMBDA j : past[j].amount, InPeriod(r, card, i)) + past[i].amount

_check(r, card, i) ==
  CASE OnLastPrice(r) -> _last_price(r, card, i)
    [] r.days > 0 -> IF Within(PeriodTotal(r, card, i), r.op, r.value) THEN "fit" ELSE "violate"
    [] r.field = "total" /\ r.days = 0 -> IF Within(past[i].amount, r.op, r.value) THEN "fit" ELSE BreaksAs(r)
    [] r.field = "known_shop" -> _known_shop(card, i)
    [] Unchecked(r) -> "ask"

(* dry_run: the worst verdict; the flag counts where no rule says the same. *)
dry_run(card, i) ==
  LET verdicts == {_check(pol.rules[id], card, i) : id \in RuleIds}
                    \cup IF pol.knownShop /\ FamiliarRules = {} THEN {_known_shop(card, i)} ELSE {} IN
  IF "violate" \in verdicts THEN "violate" ELSE IF "ask" \in verdicts THEN "ask" ELSE "fit"

(* What is shown of each purchase. *)
Shown(card) == [i \in {j \in Approvals(card) : Recent(j)} |-> dry_run(card, i)]

-----------------------------------------------------------------------------
(* api/policies.py *)

(* per_order_cap: the lowest, and "under" is lower than "at most". *)
CapRules == {id \in RuleIds : /\ pol.rules[id].field = "total" /\ pol.rules[id].days = 0
                              /\ pol.rules[id].op \in {"<", "<=", "="}}
OverCap(amount) ==
  \E id \in CapRules :
    /\ \A other \in CapRules : Max(pol.rules[id].value) <= Max(pol.rules[other].value)
    /\ ~Within(amount, IF pol.rules[id].op = "<" THEN "<" ELSE "<=", pol.rules[id].value)

form_dry_run(card) ==
  [i \in {j \in Approvals(card) : Recent(j)} |->
     IF OverCap(past[i].amount) THEN "violate"
     ELSE IF pol.knownShop /\ past[i].shop \notin Seen(card, i) THEN "ask" ELSE "fit"]

(* period_limit: the shortest window, and its lowest limit. *)
LimitRules == {id \in RuleIds : pol.rules[id].field = "total" /\ pol.rules[id].days > 0}
period_limit ==
  LET days == Min({pol.rules[id].days : id \in LimitRules}) IN
  [days |-> days,
   limit |-> Min({Max(pol.rules[id].value) : id \in {x \in LimitRules : pol.rules[x].days = days}})]

(* The card's purchases in the window that ends with the last of them. *)
Metered(card) ==
  {i \in DOMAIN past : past[i].card = card /\ past[i].day >= Today - period_limit.days}

(* usage: approvals are spent, and what waits for an answer is pending. *)
usage(card) ==
  LET sum(status) == MapThenSumSet(LAMBDA i : past[i].amount,
                                   {i \in Metered(card) : past[i].status = status}) IN
  [spent |-> sum("approved"), pending |-> sum("waiting")]

-----------------------------------------------------------------------------
(* The engine on the same purchases: what it is given for one of them. *)

Purchase(shop, amount) ==
  [amount |-> amount, shop |-> shop, shopType |-> {}, returnable |-> "unknown",
   lines |-> [book |-> [sizes |-> {}, letters |-> {}, returns |-> {}, words |-> {}, count |-> 1]]]

(* The history is the customer's, on any card; the ledger is the card's.    *)
ViewOf(card, day, before, statuses) ==
  LET approved == {j \in before : IsApproved(j)} IN
  [past |-> {[order |-> j, age |-> day - past[j].day, amount |-> past[j].amount,
              waiting |-> past[j].status = "waiting"] :
               j \in {x \in before : past[x].card = card /\ past[x].status \in statuses}},
   known |-> {past[j].shop : j \in approved},
   lastPrice |-> [s \in Shops |-> LET at == {j \in approved : past[j].shop = s} IN
                                  IF at = {} THEN {} ELSE {past[Max(at)].amount}],
   confirmed |-> {}]

Decided(card, i) ==
  Outcome(Purchase(past[i].shop, past[i].amount), pol,
          ViewOf(card, past[i].day, 1..(i - 1), {"approved"}))

-----------------------------------------------------------------------------
(* A draft's preview is true to the engine: a purchase shown as fitting     *)
(* would be approved, and one shown as breaking a rule declined, had the    *)
(* policy been in force when it was made.                                   *)
PreviewTruthful ==
  \A card \in Cards : \A i \in DOMAIN Shown(card) :
    /\ Shown(card)[i] = "fit" => Decided(card, i) = "approve"
    /\ Shown(card)[i] = "violate" => Decided(card, i) = "decline"

(* The two previews agree on the policies a form can state without a        *)
(* window: a customer who writes the same rule in words is shown the same.  *)
FormAgrees ==
  LimitRules = {} => \A card \in Cards : form_dry_run(card) = Shown(card)

(* The meter and the engine count alike: the next purchase on that day      *)
(* passes the limit exactly when the room shown is enough for it.           *)
MeterTellsTheRoom ==
  \A card \in Cards, a \in Amounts :
    (past # <<>> /\ Last.card = card /\ LimitRules # {}) =>
      LET view == ViewOf(card, Today, DOMAIN past, {"approved", "waiting"})
          room == period_limit.limit - usage(card).spent - usage(card).pending IN
      (a <= room) = (\A id \in LimitRules :
         PeriodRule(pol.rules[id], Purchase(Last.shop, a), pol, view) \in {"pass", "unknown"})

=============================================================================
