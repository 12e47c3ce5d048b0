----------------------------- MODULE ModelFacts -----------------------------
(***************************************************************************)
(* Tier 2: when a rule is left open, a model may read the sizes and the    *)
(* return window of an item from the shop's text (engine/tier2.py,         *)
(* facts.tier2_candidates, the stage in pipeline.decide_event).  The model *)
(* may answer anything, or nothing.                                        *)
(*                                                                         *)
(* A line of a purchase has, beside what Rules reads (what the English     *)
(* patterns find), `also`: what the text states in other words, by fact;   *)
(* `directed`: it holds text aimed at the agent; `settled`: the facts the  *)
(* shop says it does not state.                                            *)
(*                                                                         *)
(* Letter sizes are 1 (XXS) to 8 (XXXL).                                   *)
(*                                                                         *)
(* An operator whose name ends in _M is a mutation of the one after it.    *)
(***************************************************************************)
EXTENDS Rules

CONSTANTS Purchases, Policies, Values  \* what a model may answer

(* A purchase and its lines are records of what the shop says; days are    *)
(* counted from 0 on.  A return period is only ever a least one: that is   *)
(* all the compiler makes of an instruction. *)
ModelFactsAssumption ==
    /\ \A q \in Purchases :
        /\ q = [amount |-> q.amount, shop |-> q.shop, shopType |-> q.shopType,
                returnable |-> q.returnable, lines |-> q.lines]
        /\ q.lines = [i \in DOMAIN q.lines |-> q.lines[i]]
        /\ \A i \in DOMAIN q.lines :
            /\ {"sizes", "letters", "returns", "words", "count"} \subseteq DOMAIN q.lines[i]
            /\ q.lines[i].returns \subseteq Nat \cup {Exchange}
    /\ \A which \in Policies : \A id \in DOMAIN which.rules :
        which.rules[id].field = "returns" =>
            /\ which.rules[id].op = ">=" /\ which.rules[id].value \subseteq Int
            /\ which.rules[id].asks \in BOOLEAN

VARIABLES
    p, pol,  \* the purchase as the patterns read it, and the policy
    read,    \* the purchase as it is decided
    phase    \* rules, asked, decided

vars == <<p, pol, read, phase>>

Sizes == {"sizes", "letters"}
ModelFields == Sizes \cup {"returns"}
FieldOf == [size |-> "sizes", letter |-> "letters", returns |-> "returns"]

Nobody == [known |-> {}, past |-> {}, confirmed |-> {}, lastPrice |-> [s \in {} |-> {}]]

Init ==
    /\ p \in Purchases /\ pol \in Policies
    /\ read = p
    /\ phase = "rules"

Verdicts(q) ==
    [id \in Ids(pol) |-> IF id \in DOMAIN pol.rules THEN TypedRule(pol.rules[id], q, pol, Nobody)
                         ELSE Flag(id, q, pol, Nobody)]
Open == {id \in Ids(pol) : Verdicts(p)[id] = "unknown"}

(* The facts the open rules wait for; all of them when none says which. *)
Relevant ==
    LET named == {FieldOf[pol.rules[id].field] :
                     id \in {j \in Open \cap DOMAIN pol.rules : pol.rules[j].field \in DOMAIN FieldOf}}
    IN IF named = {} THEN ModelFields ELSE named

Known(f, says) == Cardinality(says[f]) = 1 /\ Exchange \notin says[f]

(* Not known, and not because the shop contradicts itself or says so. *)
MayResolve(f, says) ==
    /\ ~Known(f, says)
    /\ says[f] = {}
    /\ f \notin says.settled

Candidates ==
    {a \in Items(p) \X ModelFields :
        ~p.lines[a[1]].directed /\ MayResolve(a[2], p.lines[a[1]])}

(* Nothing about the size where the shop has left one size open itself:    *)
(* the other would pick a side. *)
LeftOpen(f, says) == ~Known(f, says) /\ ~MayResolve(f, says)
Asks ==
    {a \in Candidates :
        /\ a[2] \in Relevant
        /\ a[2] \in Sizes => \A f \in Sizes : ~LeftOpen(f, p.lines[a[1]])}

(* What the text states of a fact, wherever tier 2 looks for it. *)
Stated(f, says) == says[f] \cup says.also[f]
InRange(f, v) == CASE f = "sizes" -> v \in 16..60 [] f = "letters" -> v \in 1..8 [] f = "returns" -> v \in 0..365

(* An answer is taken when the text states that value of that fact. *)
Accepted_M(f, v, says) == InRange(f, v) /\ v \in UNION {Stated(g, says) : g \in ModelFields}
Accepted(f, v, says) == InRange(f, v) /\ v \in Stated(f, says)

(* answer[a]: {} for none, else the one value given. *)
Taken(answer, i, f) ==
    IF <<i, f>> \in DOMAIN answer
    THEN {v \in answer[<<i, f>>] : Accepted(f, v, p.lines[i])}
    ELSE {}
Resolved(answer) ==
    [p EXCEPT !.lines =
        [i \in Items(p) |->
            [x \in DOMAIN p.lines[i] |->
                IF x \in ModelFields /\ Taken(answer, i, x) # {}
                THEN Taken(answer, i, x) ELSE p.lines[i][x]]]]

(* No rule open, no provider, no time left or nothing to ask: the rules'   *)
(* own facts stand. *)
WithoutModel ==
    /\ phase = "rules"
    /\ phase' = "decided"
    /\ UNCHANGED <<p, pol, read>>

Ask ==
    /\ phase = "rules" /\ Open # {} /\ Asks # {}
    /\ phase' = "asked"
    /\ UNCHANGED <<p, pol, read>>

Answers == [Asks -> {{}} \cup {{v} : v \in Values}]
ModelAnswers ==
    /\ phase = "asked"
    /\ \E answer \in Answers : read' = Resolved(answer)
    /\ phase' = "decided"
    /\ UNCHANGED <<p, pol>>

ModelFails ==
    /\ phase = "asked"
    /\ phase' = "decided"
    /\ UNCHANGED <<p, pol, read>>

Next == WithoutModel \/ Ask \/ ModelAnswers \/ ModelFails

Spec == Init /\ [][Next]_vars

-----------------------------------------------------------------------------
(* Properties *)

Lines == Items(p)
Changed(i, f) == read.lines[i][f] # p.lines[i][f]

(* rules.md 4a: whatever a model answers, a rule the patterns found broken *)
(* stays broken and one they found met is not left open.  (A met rule may  *)
(* turn out broken: another line states fewer return days; and broken      *)
(* means asking where the customer said so.) *)
ModelClosesOnly ==
    phase = "decided" =>
        \A id \in Ids(pol) :
            CASE Verdicts(p)[id] = "fail" -> Verdicts(read)[id] = "fail"
              [] Verdicts(p)[id] = "pass" ->
                    (Verdicts(read)[id] = "unknown" => id \in DOMAIN pol.rules /\ pol.rules[id].asks)
              [] OTHER -> TRUE

(* P3: a fact the shop contradicts itself on, or says it does not state,   *)
(* is not settled by the model (facts.tier2_may_resolve, tier2._asks). *)
SettledStays ==
    \A i \in Lines : \A f \in ModelFields :
        Changed(i, f) => p.lines[i][f] = {} /\ f \notin p.lines[i].settled

(* A model-read fact is one this line's text states of this very fact, and *)
(* never of a line whose text speaks to the agent (tier2._accept,          *)
(* facts.tier2_candidates). *)
ReadFromItsText ==
    \A i \in Lines : \A f \in ModelFields :
        Changed(i, f) => /\ read.lines[i][f] \subseteq Stated(f, p.lines[i])
                         /\ ~p.lines[i].directed

(* Where the shop left one size open itself, neither size is read by the   *)
(* model: the other one would pick a side (tier2._asks). *)
NoSizeWhereOneIsOpen ==
    \A i \in Lines :
        (\E f \in Sizes : LeftOpen(f, p.lines[i])) => \A f \in Sizes : ~Changed(i, f)

=============================================================================
