------------------------------ MODULE Compiler ------------------------------
(***************************************************************************)
(* From a customer's words to a policy: the parser's reading (parser.py),  *)
(* a language model's (llm.py), what either may not do (lint.py), which    *)
(* of them is shown (compiler/__init__.py), and the checks the customer    *)
(* keeps (C1, C2 of api/routes_customer.py).                               *)
(*                                                                         *)
(* An instruction is what it states, not its letters: amounts with a       *)
(* boundary word and a scope, counts, "same price as last time", "ask me   *)
(* if it changed", nights, and further restrictions known by their kind.   *)
(* What a reading does with places, hours, sizes and terms is not told     *)
(* apart: they are kinds.  Amounts are in CHF.                             *)
(*                                                                         *)
(* An operator whose name ends in _M is a mutation of the one after it.    *)
(***************************************************************************)
EXTENDS Integers, Sequences, FiniteSetsExt, SequencesExt

CONSTANTS
    Instructions,   \* what customers may write
    Histories,      \* the last price at each shop "last time" may mean
    Values, Days,   \* numbers and windows a model may answer; window 0: one purchase
    Kinds,          \* further kinds of restriction (C3, C9, ...)
    MaxRules,       \* rules in a model's answer
    Forms,          \* what the form may be filled in with: [order, period, days], 0 none
    Prices          \* of the purchases a policy is asked about

Ops == {"<", "<=", "="}

(* An amount or a count the customer writes: word "none" when no English   *)
(* boundary word stands by it, plain when its scope is in words the        *)
(* parser knows. *)
Clauses ==
    [unit : {"order", "item", "count"}, value : Nat, word : Ops \cup {"none"},
     days : Nat, plain : BOOLEAN]

CompilerAssumption ==
    /\ \A i \in Instructions :
        /\ i.clauses \in Seq(Clauses)
        /\ i.ask \in {"no", "same", "clause", "price"} /\ i.nights \in Nat
        /\ i.same \in BOOLEAN /\ i.kinds \subseteq Kinds /\ i.foreign \subseteq i.kinds
    /\ Histories \subseteq Seq(Nat) /\ Forms \subseteq [order : Nat, period : Nat, days : Nat]
    /\ Values \cup Days \cup Prices \subseteq Nat /\ MaxRules \in Nat
    /\ Kinds \cap {"order", "item", "count", "period"} = {}

VARIABLES
    said,    \* the instruction
    paid,    \* the customer's history, one of Histories
    draft,   \* <<>>, or <<draft shown to the customer>>
    policy   \* <<>>, or <<rules confirmed>>

vars == <<said, paid, draft, policy>>

Init == said \in Instructions /\ paid \in Histories /\ draft = << >> /\ policy = << >>

Amounts(s) == {c \in Range(s.clauses) : c.unit # "count"}
Stated(s) == {c.value : c \in Amounts(s)}
Numbers(s) == {c.value : c \in Range(s.clauses)} \cup {s.nights}
Windows(s) == {c.days : c \in Range(s.clauses)} \cup Numbers(s)
BoundaryWords(s, v) == {c.word : c \in {a \in Amounts(s) : a.value = v}} \ {"none"}

(* The elements of a sequence at the places in S. *)
InOrder(S) == [k \in 1..Cardinality(S) |-> CHOOSE i \in S : Cardinality({j \in S : j <= i}) = k]
Chosen(s, S) == [k \in 1..Cardinality(S) |-> s[InOrder(S)[k]]]

-----------------------------------------------------------------------------
(* Rules: `from` says where a value came from, `said` the clause whose     *)
(* words it carries (0 for none). *)

Rule(unit, op, value, days, source, from, clause) ==
    [unit |-> unit, op |-> op, value |-> value, days |-> days, source |-> source,
     from |-> from, clause |-> clause, asks |-> FALSE]

IsAmount(r) == r.unit # "count" /\ r.from # "reference"
IsCap(r) == r.unit = "order" /\ r.days = 0 /\ IsAmount(r)
HasCap(rules) == \E r \in Range(rules) : IsCap(r)

(* `last_price_at_shop`: each shop's own last price, known at purchase. *)
Reference(op, clause) == Rule("order", op, 0, 0, "inferred", "reference", clause)

LowestOf(rules) ==
    CHOOSE r \in rules : \A q \in rules :
        r.value < q.value \/ (r.value = q.value /\ (r.op = "<" \/ q.op # "<"))

(* Nights times the price of one; a period's limit as one payment's. *)
StayCap(s, rules) ==
    LET units == {r \in Range(rules) : r.unit = "item" /\ r.op # "=" /\ IsAmount(r)}
        unit == LowestOf(units)
    IN IF s.nights = 0 \/ HasCap(rules) \/ units = {} THEN << >>
       ELSE << Rule("order", unit.op, unit.value * s.nights, 0, "inferred", "nights", 0) >>

PeriodCap(rules) ==
    LET limits == {r \in Range(rules) : r.unit = "order" /\ r.days > 0 /\ r.op # "="}
        limit == LowestOf(limits)
    IN IF HasCap(rules) \/ limits = {} \/ \E r \in Range(rules) : r.unit = "item" THEN << >>
       ELSE << Rule("order", limit.op, limit.value, 0, "inferred", "period", limit.clause) >>

WithCaps(s, rules) ==
    LET stay == rules \o StayCap(s, rules) IN stay \o PeriodCap(stay)

(* What history says of "same price as last time". *)
FromHistory(op, clause) ==
    CASE Len(paid) > 1 -> << Reference(op, clause) >>
      [] Len(paid) = 1 -> << Rule("order", op, paid[1], 0, "inferred", "history", clause) >>
      [] OTHER -> << >>

-----------------------------------------------------------------------------
(* Ids: a rule's kind, whether it asks, and its number among those. *)

Kind(r) == IF r.unit = "order" /\ r.days > 0 THEN "period" ELSE r.unit
Base(r) == <<Kind(r), r.asks>>
IdOf(rules, i) == Append(Base(rules[i]), Cardinality({j \in 1..i : Base(rules[j]) = Base(rules[i])}))

(* The id without "-same": what a record of asking covers. *)
Stem(id) == <<id[1], id[3]>>

(* Of rules that check the same the first is kept. *)
Key(r) == <<r.unit, r.op, r.value, r.days, r.from = "reference">>
Firsts(rules) == {i \in DOMAIN rules : \A j \in 1..(i - 1) : Key(rules[j]) # Key(rules[i])}
Distinct(rules) == Chosen(rules, Firsts(rules))

Finalized(rules, kinds, questions, covered) ==
    [rules |-> Distinct(rules), kinds |-> kinds, questions |-> questions, covered |-> covered]

-----------------------------------------------------------------------------
(* The parser: every amount, its scope where it knows the words, one       *)
(* payment where it does not. *)

ReadClause(s, i) ==
    LET c == s.clauses[i]
        op == IF c.word = "none" THEN "<=" ELSE c.word
        source == IF c.word = "none" THEN "inferred" ELSE "exact"
    IN IF c.plain \/ c.unit = "count" THEN Rule(c.unit, op, c.value, c.days, source, "stated", i)
       ELSE Rule("order", op, c.value, 0, source, "stated", i)

Readable(s) == {i \in DOMAIN s.clauses : s.clauses[i].unit # "count" \/ s.clauses[i].plain}

SamePrice(s) == IF s.same THEN FromHistory("=", -1) ELSE << >>

(* The rules compiled from the clause just before "ask me if it changed".  *)
AskedFor(s, rules) ==
    LET before == CASE s.ask = "same" -> -1 [] s.ask = "clause" -> Len(s.clauses)
                    [] OTHER -> -2
    IN {i \in DOMAIN rules : rules[i].clause = before}

(* One rule is covered or none; the parser asks on a price from history. *)
AskIfChanged(s, rules) ==
    IF Cardinality(AskedFor(s, rules)) # 1 THEN rules
    ELSE [i \in DOMAIN rules |->
            [rules[i] EXCEPT !.asks =
                i \in AskedFor(s, rules) /\ rules[i].from \in {"history", "reference"}]]

(* "If a price changes, ask me", when no price is named. *)
PriceChange(s) ==
    IF s.ask = "price" /\ ~s.same
    THEN << [Reference("=", -3) EXCEPT !.asks = TRUE] >> ELSE << >>

AskedAbout(s, rules) ==
    LET asked == AskedFor(s, rules)
        one == IF Cardinality(asked) = 1 THEN asked ELSE {}
    IN {Stem(IdOf(rules, i)) : i \in one \cup {j \in DOMAIN rules : rules[j].clause = -3}}

Parse(s) ==
    LET read == Chosen([i \in DOMAIN s.clauses |-> ReadClause(s, i)], Readable(s))
        rules == Distinct(AskIfChanged(s, WithCaps(s, read) \o SamePrice(s)) \o PriceChange(s))
        questions == (IF HasCap(rules) THEN {} ELSE {"limit"})
                     \cup (IF s.same /\ paid = << >> THEN {"price"} ELSE {})
    IN Finalized(rules, s.kinds \ s.foreign, questions, AskedAbout(s, rules))

-----------------------------------------------------------------------------
(* The model: any rules, in any order, over the values offered.  `last`:   *)
(* "the last price" instead of a value; `quoted`: its words are in the     *)
(* instruction. *)

RawRules ==
    {r \in [unit : {"order", "item", "count"}, op : Ops, value : Values, days : Days,
            last : BOOLEAN, quoted : BOOLEAN, asks : BOOLEAN] :
        /\ r.last => r.unit = "order" /\ r.days = 0 /\ r.quoted
                     /\ \A v \in Values : r.value <= v
        /\ r.unit = "count" => ~r.asks}

Answers == [rules : SeqOf(RawRules, MaxRules), kinds : SUBSET Kinds,
            questions : SUBSET {"limit", "amounts"}]

(* Per item only where the parser reads the amount per item; the boundary  *)
(* is the customer's where the words give one. *)
PerItem(s, v) == {c.unit = "item" : c \in {a \in Amounts(s) : a.value = v /\ a.days = 0}} # {FALSE}
OnlyWord(s, r) ==
    LET words == BoundaryWords(s, r.value)
    IN IF r.unit # "count" /\ Cardinality(words) = 1 THEN CHOOSE w \in words : TRUE ELSE r.op

Convert(s, r) ==
    LET source == IF r.quoted THEN "exact" ELSE "inferred"
        unit == IF r.unit = "item" /\ ~PerItem(s, r.value) THEN "order" ELSE r.unit
        rule ==
            IF r.last THEN FromHistory(r.op, 0)[1]
            ELSE Rule(unit, IF r.unit = "count" /\ r.op = "=" THEN "<=" ELSE OnlyWord(s, r),
                      r.value, r.days, source, "stated", 0)
    IN [rule EXCEPT !.asks = r.asks]

(* What fits no check is none: the customer is asked instead. *)
IsCheck(r) == IF r.last THEN paid # << >> ELSE r.unit # "count" \/ r.days > 0

Read(s, answer) ==
    LET checks == {i \in DOMAIN answer.rules : IsCheck(answer.rules[i])}
        specs == Chosen([i \in DOMAIN answer.rules |-> Convert(s, answer.rules[i])], checks)
        rules == WithCaps(s, specs)
        doubts == IF checks = DOMAIN answer.rules THEN {} ELSE {"unreadable"}
        left == answer.questions \ (IF Len(rules) > Len(specs) THEN {"limit"} ELSE {})
    IN Finalized(rules, answer.kinds, left \cup doubts, {})

-----------------------------------------------------------------------------
(* Lint *)

AmountsUsed(s, d) ==
    \/ "amounts" \in d.questions
    \/ Stated(s) \subseteq {r.value : r \in {q \in Range(d.rules) : IsAmount(q)}}

(* Every number stated, unless the compiler worked it out; the customer's  *)
(* boundary; a count's window stated too. *)
NumberStated(s, r) ==
    r.from = "stated" =>
        IF r.unit = "count" THEN r.value \in Numbers(s) /\ r.days \in Windows(s)
        ELSE /\ r.value \in Stated(s)
             /\ BoundaryWords(s, r.value) # {} => r.op \in BoundaryWords(s, r.value)

AskedOnly(d, covered) ==
    \A i \in DOMAIN d.rules : d.rules[i].asks => Stem(IdOf(d.rules, i)) \in covered

(* Bounds of one unit and window that nothing meets. *)
Conflict(rules) ==
    \E r, q \in {x \in Range(rules) : x.from # "reference"} :
        /\ r.unit = q.unit /\ r.days = q.days /\ r.op = "="
        /\ CASE q.op = "=" -> r.value # q.value
             [] q.op = "<" -> r.value >= q.value
             [] OTHER -> r.value > q.value

Issues(s, d, covered) ==
    (IF AmountsUsed(s, d) THEN {} ELSE {"amounts"})
    \cup (IF \A r \in Range(d.rules) : NumberStated(s, r) THEN {} ELSE {"check"})
    \cup (IF AskedOnly(d, covered) THEN {} ELSE {"check"})
    \cup (IF HasCap(d.rules) \/ "limit" \in d.questions \/ "amounts" \in d.questions
          THEN {} ELSE {"limit"})
    \cup (IF Conflict(d.rules) THEN {"check"} ELSE {})

(* A model's reading keeps every kind of restriction the parser found. *)
Coverage(d) == {Base(r) : r \in Range(d.rules)} \cup (d.kinds \X {FALSE})
KeepsFloor(read, floor) == Coverage(floor) \subseteq Coverage(read)

Shown(d, issues, by) ==
    LET asked == d.questions \cup issues
        more == IF HasCap(d.rules) THEN {} ELSE {"limit"}
    IN << [rules |-> d.rules, kinds |-> d.kinds, questions |-> asked \cup more, by |-> by] >>

Fallback(s) == Shown(Parse(s), Issues(s, Parse(s), Parse(s).covered), "fallback")

-----------------------------------------------------------------------------
(* C1: one draft of the instruction.  The model may be unavailable. *)
CompileWithParser ==
    /\ draft = << >>
    /\ draft' = Fallback(said)
    /\ UNCHANGED <<said, paid, policy>>

CompileWithModel ==
    /\ draft = << >>
    /\ \E floor \in {Parse(said)}, fallback \in {Fallback(said)}, answer \in Answers :
        \E read \in {Read(said, answer)} :
            draft' = IF KeepsFloor(read, floor) /\ Issues(said, read, floor.covered) = {}
                     THEN Shown(read, {}, "llm") ELSE fallback
    /\ UNCHANGED <<said, paid, policy>>

(* The form's rules are the customer's own, and no words go with them. *)
BuildForm ==
    /\ draft = << >>
    /\ \E f \in Forms :
        LET order == IF f.order = 0 THEN << >>
                     ELSE << Rule("order", "<=", f.order, 0, "exact", "form", 0) >>
            period == IF f.period = 0 \/ f.days = 0 THEN << >>
                      ELSE << Rule("order", "<=", f.period, f.days, "exact", "form", 0) >>
        IN draft' = Shown([rules |-> order \o period, kinds |-> {}, questions |-> {}], {}, "form")
    /\ UNCHANGED <<said, paid, policy>>

(* C2: the checks sent back, which are all `exact` ones and a cap. *)
LintAccepted_M(rules, kept) == {i \in DOMAIN rules : rules[i].source = "exact"} \subseteq kept
LintAccepted(rules, kept) ==
    /\ {i \in DOMAIN rules : rules[i].source = "exact"} \subseteq kept
    /\ \E i \in kept : IsCap(rules[i])

ConfirmDraft ==
    /\ draft # << >> /\ policy = << >>
    /\ \E kept \in SUBSET DOMAIN draft[1].rules :
        /\ LintAccepted(draft[1].rules, kept)
        /\ policy' = << {draft[1].rules[i] : i \in kept} >>
    /\ UNCHANGED <<said, paid, draft>>

Next == CompileWithParser \/ CompileWithModel \/ BuildForm \/ ConfirmDraft

Spec == Init /\ [][Next]_vars

-----------------------------------------------------------------------------
TypeOK ==
    /\ said \in Instructions
    /\ draft # << >> =>
        /\ draft[1].by \in {"llm", "fallback", "form"}
        /\ \A i, j \in DOMAIN draft[1].rules :
            IdOf(draft[1].rules, i) = IdOf(draft[1].rules, j) => i = j

Read1 == draft # << >> /\ draft[1].by # "form"

(* A purchase of that price keeps the rule. *)
Fits(r, price) ==
    r.unit = "order" /\ r.from # "reference" =>
        CASE r.op = "<" -> price < r.value [] r.op = "=" -> price = r.value
          [] OTHER -> price <= r.value

(* What history or the nights make of the words. *)
Resolved(s) ==
    (IF Len(paid) = 1 THEN {paid[1]} ELSE {}) \cup {s.nights * v : v \in Stated(s)}

(* No policy lets one purchase cost more than an amount the customer wrote *)
(* or the compiler worked out from their words, whichever checks they drop *)
(* and whatever a model answered.  (_has_amount_cap, lint_accepted, T2)    *)
SpendIsStated ==
    policy # << >> =>
        LET most == IF Read1 THEN Stated(said) \cup Resolved(said) ELSE {f.order : f \in Forms}
        IN \A price \in Prices :
            (\A r \in policy[1] : Fits(r, price)) => \E m \in most : price <= m

(* What is shown with nothing asked uses every amount the customer wrote   *)
(* and every kind of restriction the parser reads.  (T1, lint_against_floor) *)
NothingLost ==
    Read1 /\ draft[1].questions = {} =>
        /\ Stated(said) \subseteq {r.value : r \in Range(draft[1].rules)}
        /\ \A c \in Range(said.clauses) : c.plain =>
            \E r \in Range(draft[1].rules) : Kind(r) = Kind(c)
        /\ said.kinds \ said.foreign \subseteq draft[1].kinds

(* At most one rule asks instead of declining, and none unless the         *)
(* customer said so.  (_check_on_fail)  *)
AsksOnce ==
    Read1 => Cardinality({i \in DOMAIN draft[1].rules : draft[1].rules[i].asks})
                <= (IF said.ask = "no" THEN 0 ELSE 1)

=============================================================================
