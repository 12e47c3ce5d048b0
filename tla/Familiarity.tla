---------------------------- MODULE Familiarity ----------------------------
(***************************************************************************)
(* What a run makes familiar, purchase by purchase: the shops, devices,    *)
(* countries and amounts a customer is known by (store/history.py, the     *)
(* view of engine/ledger.py), the signs that compare a purchase with them  *)
(* (engine/warnings.py), and the protections against lookalike shops,      *)
(* hidden charges and repeated orders (A3, A5, A6, A7 of                   *)
(* engine/protections.py).  Decide makes an outcome of them.               *)
(*                                                                         *)
(* Purchases are 1..Count, in the order of their time.  A shop always      *)
(* sells the same item; all purchases are within the windows of A3.        *)
(*                                                                         *)
(* An operator whose name ends in _M is a mutation of the one after it.    *)
(***************************************************************************)
EXTENDS Decide, Integers, FiniteSetsExt

CONSTANTS
    Count,
    Shops, CountryOf,   \* CountryOf[s]
    Alike,              \* pairs of shops whose names are two edits apart or less
    Recurring,          \* shops whose item bills again
    Devices, Amounts,
    History,            \* approved purchases before the run: [shop, device, amount]
    Limit,              \* the per-order limit, 0 for none
    NothingExtra, KnownShopOnly, Setting

NoDevice == "no device"

FamiliarityAssumption ==
    /\ Count \in Nat /\ Limit \in Nat /\ Setting \in Settings
    /\ NothingExtra \in BOOLEAN /\ KnownShopOnly \in BOOLEAN
    /\ NoDevice \notin Devices

Purchases == 1..Count

VARIABLE row  \* row[i]: <<>>, or <<decided purchase>>

vars == row

Init == row = [i \in Purchases |-> << >>]

(* The event's own fields.  `odd`: by itself, a weak sign (night W5, a     *)
(* price out of range W6) or a burst (W2).  A link to a purchase that was  *)
(* not declined says nothing (_requote); `wanted` matters where an item    *)
(* bills again. *)
Events ==
    {e \in [shop : Shops, device : Devices \cup {NoDevice}, amount : Amounts,
            odd : {"no", "weak", "burst"}, requotes : BOOLEAN, wanted : BOOLEAN] :
        e.wanted \/ e.shop \in Recurring}

Decided == {i \in Purchases : row[i] # << >>}
R(i) == row[i][1]

Final(i) == R(i).outcome = "approve" \/ R(i).answer = "approved"
Waiting(i) == R(i).answer = "pending"

-----------------------------------------------------------------------------
(* LedgerView: history, then this run's final approvals. *)

Learned_M(n) == {i \in Decided : i < n /\ (Final(i) \/ Waiting(i))}
Learned(n) == {i \in Decided : i < n /\ Final(i)}

KnownShops(n) == {h.shop : h \in History} \cup {R(i).shop : i \in Learned(n)}
KnownDevices(n) ==
    ({h.device : h \in History} \cup {R(i).device : i \in Learned(n)}) \ {NoDevice}
KnownCountries(n) == {CountryOf[s] : s \in KnownShops(n)}
Largest(n) == {h.amount : h \in History} \cup {R(i).amount : i \in Learned(n)}

(* Nothing to compare with: signs that need it say so, and ask nothing. *)
NoBaseline(n) == KnownShops(n) = {}

-----------------------------------------------------------------------------
(* Signs *)

NewDevice(e, n) ==
    \/ e.device = NoDevice
    \/ e.device \notin KnownDevices(n) /\ ~NoBaseline(n)
Burst(e) == e.odd = "burst"
NewCountry(e, n) == CountryOf[e.shop] \notin KnownCountries(n) /\ ~NoBaseline(n)
AboveNormal(e, n) ==
    /\ Limit = 0 \/ e.amount > Limit
    /\ ~NoBaseline(n)
    /\ \A a \in Largest(n) : e.amount > a

Weak(e, n) ==
    Cardinality({s \in {"W3", "W4", "W5"} :
        \/ s = "W3" /\ NewCountry(e, n)
        \/ s = "W4" /\ AboveNormal(e, n)
        \/ s = "W5" /\ e.odd = "weak"})

-----------------------------------------------------------------------------
(* Protections *)

(* A5: linked to a purchase of this run that was declined. *)
Declined(n) == {i \in Decided : i < n /\ R(i).outcome = "decline"}
Requote(e, n) == e.requotes /\ Declined(n) # {}

Earlier(e, n) == {i \in Decided : i < n /\ R(i).shop = e.shop /\ (Final(i) \/ Waiting(i))}
Near(a, b) == 20 * (IF a > b THEN a - b ELSE b - a) <= b

(* A3, unless the purchase is a re-quote. *)
Duplicate(e, n) ==
    ~Requote(e, n) /\ \E i \in Earlier(e, n) : Near(e.amount, R(i).amount)

HiddenCharge(e) == e.shop \in Recurring /\ ~e.wanted

(* A7: a known shop has almost this name, and it is another shop. *)
Lookalike(e, n) ==
    /\ e.shop \notin KnownShops(n)
    /\ \E s \in KnownShops(n) : {s, e.shop} \in Alike

Protections(e, n) ==
    UNION {IF Duplicate(e, n) THEN {"ask"} ELSE {},
           IF HiddenCharge(e) THEN {IF NothingExtra THEN "decline" ELSE "ask"} ELSE {},
           IF Lookalike(e, n) THEN {IF KnownShopOnly THEN "decline" ELSE "ask"} ELSE {}}

(* The known-shop rule; whatever else a rule of the customer says. *)
ShopRule(e, n) ==
    IF ~KnownShopOnly \/ e.shop \in KnownShops(n) THEN "pass"
    ELSE IF NoBaseline(n) THEN "unknown" ELSE "fail"

FindingsOf(e, n, rule) ==
    [authority |-> "active",
     rules |-> {rule, ShopRule(e, n)} \ {"pass"},
     protections |-> Protections(e, n),
     strong |-> (IF NewDevice(e, n) THEN {"W1"} ELSE {}) \cup (IF Burst(e) THEN {"W2"} ELSE {}),
     weak |-> Weak(e, n), soft |-> FALSE, watch |-> FALSE]

-----------------------------------------------------------------------------
(* One purchase after the other; the customer answers at any time. *)

Decide(n) ==
    /\ row[n] = << >> /\ \A i \in 1..n - 1 : row[i] # << >>
    /\ \E e \in {x \in Events : x.requotes => Declined(n) # {}}, rule \in {"pass", "fail", "unknown"} :
        LET outcome == Decision(FindingsOf(e, n, rule), Setting).outcome
        IN row' = [row EXCEPT ![n] =
               <<[shop |-> e.shop, device |-> e.device, amount |-> e.amount,
                  outcome |-> outcome,
                  answer |-> IF outcome = "step_up" THEN "pending" ELSE "none"]>>]

Answer(n) ==
    /\ n \in Decided /\ Waiting(n)
    /\ \E answer \in {"approved", "declined", "expired"} :
        row' = [row EXCEPT ![n][1].answer = answer]

Next == \E n \in Purchases : Decide(n) \/ Answer(n)

Spec == Init /\ [][Next]_vars

-----------------------------------------------------------------------------
(* Properties *)

CustomerYes(i) == R(i).answer = "approved"
All == Count + 1

(* W1 and W-rule 1: a device is familiar because it was before the run, or *)
(* because the customer said yes to a purchase made from it, and never     *)
(* because an agent's purchases went through one after the other.          *)
DevicesVouchedFor ==
    History # {} =>
        \A d \in KnownDevices(All) \ {h.device : h \in History} :
            \E i \in Decided : CustomerYes(i) /\ R(i).device = d

(* W-rule 5: with no history at all, one purchase teaches without being    *)
(* asked about, and no more than one device comes in that way. *)
OneFreeDevice ==
    Cardinality({d \in KnownDevices(All) :
        /\ d \notin {h.device : h \in History}
        /\ ~\E i \in Decided : CustomerYes(i) /\ R(i).device = d}) <= 1

(* W1: what comes without a device is asked about, baseline or not. *)
NoDeviceAsks == \A i \in Decided : R(i).device = NoDevice => R(i).outcome # "approve"

(* A7: of two shops of almost one name, where history knows one, the other *)
(* becomes known by the customer's yes alone, and with it C9 and A7 end    *)
(* for it. *)
LookalikesVouchedFor ==
    \A s \in KnownShops(All) :
        (\E h \in History : {h.shop, s} \in Alike) /\ s \notin {h.shop : h \in History} =>
            \E i \in Decided : CustomerYes(i) /\ R(i).shop = s

=============================================================================
