------------------------------ MODULE MCPolicy ------------------------------
(***************************************************************************)
(* The life of a policy, for TLC: in force (PolicyLifecycle), on two cards *)
(* with a failure, and in two runs; compiled from a customer's words       *)
(* (Compiler); previewed and metered (Preview).  `part' says which of them *)
(* a behaviour is about, and with which bounds; the others rest in their   *)
(* initial states.                                                         *)
(***************************************************************************)
EXTENDS PolicyLifecycle, TLC

CONSTANTS  \* of the compiler: see there
    Instructions, Histories, Values, Days, Kinds, MaxRules, Forms, Prices

CONSTANTS  \* of what is shown: see Preview
    Drafts,         \* what an instruction can state, with one window at most
    FormDrafts,     \* those of them that a form can state
    MeteredDrafts,  \* those of limits alone, which the meter is about
    Shops, Charges, PreviewDays, MaxGap, MaxPast

VARIABLE part  \* the component that runs; the others rest

(* Instructions with one or two amounts, a count, a price as before, some  *)
(* in words the parser does not know, some with "... ask me if it changed". *)

Clause(unit, value, word, days) ==
    [unit |-> unit, value |-> value, word |-> word, days |-> days, plain |-> TRUE]

MoreKinds == {"C3"}

Says(clauses) ==
    [clauses |-> clauses, same |-> FALSE, ask |-> "no", nights |-> 0, kinds |-> MoreKinds,
     foreign |-> {}]

OneOrder == Clause("order", 2, "<=", 0)
InAWeek == Clause("order", 5, "<", 7)

SomeInstructions ==
    {[Says(<< OneOrder, InAWeek >>) EXCEPT !.ask = "clause"],
     [Says(<< [InAWeek EXCEPT !.plain = FALSE] >>) EXCEPT !.foreign = MoreKinds],
     [Says(<< Clause("item", 2, "<=", 0) >>) EXCEPT !.nights = 3, !.same = TRUE, !.ask = "same"],
     [Says(<< [OneOrder EXCEPT !.word = "none"], Clause("count", 1, "none", 7) >>)
        EXCEPT !.ask = "price"],
     Says(<< [OneOrder EXCEPT !.unit = "item"], [OneOrder EXCEPT !.word = "<"] >>),
     [Says(<< >>) EXCEPT !.same = TRUE, !.ask = "same"]}

NoOneOrTwoPrices == {<< >>, << 3 >>, << 3, 4 >>}
TwoAndFive == {2, 5}
NoneOrAWeek == {0, 7}
UpToTwelve == 1..12
OldAndNew == {"old", "new"}
OneAndThree == {1, 3}
SomeForms == [order : {0, 2}, period : {0, 5}, days : {0, 7}]

(* Drafts and forms over a few purchases of a book. *)

Types == [book |-> "books"]
Words == [book |-> {}]

Check(field, op, value) ==
    [field |-> field, op |-> op, value |-> value, days |-> 0, asks |-> FALSE]
Asks(r) == [r EXCEPT !.asks = TRUE]
Per(days, r) == [r EXCEPT !.days = days]
Draft(rules, knownShop) ==
    [rules |-> rules, requested |-> {}, allowed |-> {}, blocked |-> {}, shopType |-> {},
     knownShop |-> knownShop, nothingExtra |-> FALSE, setting |-> "ask"]

Cap == Check("total", "<=", {2})
FamiliarShop == Check("known_shop", "=", {"true"})
SamePrice == Check("last_price", "=", {})
TwoDays == Per(2, Check("total", "<=", {4}))
Under == Per(2, Check("total", "<=", {3}))
OnePerTwoDays == Per(2, Check("count", "<=", {1}))

SomeFormDrafts ==
    {Draft([per_order_limit |-> Cap], FALSE),
     Draft([per_order_limit |-> Cap, known_shop |-> FamiliarShop], TRUE),
     Draft([known_shop |-> FamiliarShop], TRUE),
     Draft([period_limit |-> TwoDays, per_order_limit |-> Cap], FALSE)}

SomeDrafts ==
    SomeFormDrafts \cup
    {Draft([C1 |-> Asks(Cap)], FALSE), Draft([C1 |-> SamePrice], FALSE),
     Draft([C1 |-> Asks(SamePrice), C2 |-> TwoDays], FALSE),
     Draft([C1 |-> Cap, C2 |-> OnePerTwoDays], TRUE),
     Draft([C2 |-> TwoDays, C3 |-> Under], FALSE),
     Draft([C1 |-> Cap, C11 |-> Check("unverifiable", "=", {"official"})], FALSE)}
SomeMeteredDrafts ==
    {d \in SomeDrafts : /\ \E id \in DOMAIN d.rules : d.rules[id].days > 0
                    /\ \A id \in DOMAIN d.rules : d.rules[id].field = "total"}

(* Cards are alike, and so are runs; nothing but invariants is asked of them. *)
Alike == Permutations(Cards) \cup Permutations(Runs)

VARIABLE
  scope  \* the cards, the runs and the failures of a part, of those there are
VARIABLES
  said, paid, draft, agreed
VARIABLES
  past, pol

draftVars == <<said, paid, draft, agreed>>
shownVars == <<past, pol>>

Reading == INSTANCE Compiler WITH policy <- agreed
\* The preview reads the purchases of one card, the meter those of several.
Previewed == INSTANCE Preview WITH
  TypeOf <- Types, Listed <- Words, Policies <- Drafts, Amounts <- Charges,
  Cards <- {"card"}, Statuses <- {"approved", "declined"}
Meter == INSTANCE Preview WITH
  TypeOf <- Types, Listed <- Words, Policies <- MeteredDrafts, Amounts <- Charges,
  Statuses <- {"approved", "waiting", "declined"}

\* What the components say of their parameters.
ASSUME Parameters ==
  /\ Reading!CompilerAssumption
  /\ Previewed!PreviewAssumption
  /\ Meter!PreviewAssumption
  /\ \A d \in Drafts : Previewed!OneWindow(d)
  /\ \A d \in FormDrafts : Previewed!OnForm(d)
  /\ \A d \in MeteredDrafts : Meter!OfLimits(d)

\* A policy in force on any card, with one run and a failure; two runs of a
\* card, with none.
Scopes ==
  CASE part = "inforce" ->
         {[cards |-> Cards, runs |-> {r}, failures |-> MaxFailures] : r \in Runs}
    [] part = "runs" -> {[cards |-> {c}, runs |-> Runs, failures |-> 0] : c \in Cards}
    [] OTHER -> {[cards |-> {}, runs |-> {}, failures |-> 0]}

InScope ==
  /\ \A m \in Stored : row[m].card \in scope.cards
  /\ \A r \in Runs : run[r] # Nothing => r \in scope.runs /\ run[r].card \in scope.cards
  /\ req # Nothing => req.policy.card \in scope.cards
  /\ d3 # Nothing => d3.run \in scope.runs
  /\ failures <= scope.failures

Parts == {"inforce", "runs", "draft", "preview", "meter"}

WholeInit ==
  /\ part \in Parts
  /\ scope \in Scopes
  /\ Init
  /\ Reading!Init
  /\ part # "draft" => /\ said = CHOOSE s \in Instructions : TRUE
                       /\ paid = CHOOSE h \in Histories : TRUE
  /\ IF part = "meter" THEN Meter!Init
     ELSE Previewed!Init /\ (part # "preview" => pol = CHOOSE d \in Drafts : TRUE)

whole == <<part, scope, draftVars, shownVars, vars>>

WholeNext ==
  \/ /\ part \in {"inforce", "runs"} /\ Next
     /\ UNCHANGED <<part, scope, draftVars, shownVars>>
     /\ InScope'
  \/ /\ part = "draft" /\ Reading!Next
     /\ UNCHANGED <<part, scope, shownVars, vars>>
  \/ /\ part = "preview" /\ Previewed!Next
     /\ UNCHANGED <<part, scope, draftVars, vars>>
  \/ /\ part = "meter" /\ Meter!Next
     /\ UNCHANGED <<part, scope, draftVars, vars>>

WholeSpec == WholeInit /\ [][WholeNext]_whole

----------------------------------------------------------------------------

\* C5: of two runs, none goes on under a policy that ended in the store.
RunsFollowTheRows == part = "runs" => RevokeStopsHere /\ RunsFollowTheStore

\* C1, C2: a draft, the parser's or a model's, has no limit the instruction
\* does not state, loses none it does, and asks only where it says so.
ReadingsKeepTheInstruction ==
  Reading!TypeOK /\ Reading!SpendIsStated /\ Reading!NothingLost /\ Reading!AsksOnce

\* What a preview, the form and the meter tell is what the engine would do.
PreviewsKeepTheirWord ==
  /\ part = "preview" => Previewed!TypeOK /\ Previewed!PreviewTruthful
  /\ part = "preview" /\ pol \in FormDrafts => Previewed!FormAgrees
  /\ part = "meter" => Meter!TypeOK /\ Meter!MeterTellsTheRoom
=============================================================================
