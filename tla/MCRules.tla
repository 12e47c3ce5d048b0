------------------------------ MODULE MCRules ------------------------------
(***************************************************************************)
(* What is decided of one purchase, for TLC: decide() over all its inputs  *)
(* (Decide, DecideChecks); the rules on one purchase and ledger, as the    *)
(* shop says more, the ledger fills, the agent tries again and the policy  *)
(* is tightened (RuleChecks); the facts a model reads (ModelFacts); what   *)
(* becomes familiar with the purchases, with and without a history         *)
(* (Familiarity).  `part' says which of them a behaviour is about, and     *)
(* with which bounds; the others rest in their initial states.             *)
(***************************************************************************)
EXTENDS DecideChecks, RuleCases

CONSTANTS  \* of the rules: see RuleChecks
  Catalogue, Described,                       \* TypeOf, Listed
  PurchasesRead, PoliciesRead, LedgersRead, Sentences,
  PurchasesMade, PoliciesMade, LedgersNew, MoreOrders,
  PurchasesTold, LedgersMade, MoreRules

CONSTANTS  \* of what is read, and of what is known: see ModelFacts, Familiarity
  Texts, Wishes, Values,          \* purchases with a text, policies, what a model may say
  Count, Shops, CountryOf, Alike, Renewing, Devices, Amounts, History,
  Limit, NothingExtra, KnownShopOnly, Setting  \* the customer's policy

VARIABLE part  \* the component that runs; the others rest

VARIABLES
  rulesP, rulesPol, led, yes
VARIABLES
  textP, textPol, read, phase
VARIABLES
  teaches

rulesVars == <<rulesP, rulesPol, led, yes>>
textVars == <<textP, textPol, read, phase>>
knownVars == <<teaches>>

Text == INSTANCE RuleChecks WITH
  TypeOf <- Catalogue, Listed <- Described, Purchases <- PurchasesRead,
  Policies <- PoliciesRead, Ledgers <- LedgersRead, Statements <- Sentences,
  Orders <- {}, Additions <- << >>, p <- rulesP, pol <- rulesPol
Spent == INSTANCE RuleChecks WITH
  TypeOf <- Catalogue, Listed <- Described, Purchases <- PurchasesMade,
  Policies <- PoliciesMade, Ledgers <- LedgersNew, Statements <- {},
  Orders <- MoreOrders, Additions <- << >>, p <- rulesP, pol <- rulesPol
Bounds == INSTANCE RuleChecks WITH
  TypeOf <- Catalogue, Listed <- Described, Purchases <- PurchasesTold,
  Policies <- PoliciesMade, Ledgers <- LedgersMade, Statements <- {},
  Orders <- {}, Additions <- << >>, p <- rulesP, pol <- rulesPol
Tightened == INSTANCE RuleChecks WITH
  TypeOf <- Catalogue, Listed <- Described, Purchases <- PurchasesMade,
  Policies <- PoliciesMade, Ledgers <- LedgersMade, Statements <- {},
  Orders <- {}, Additions <- MoreRules, p <- rulesP, pol <- rulesPol
Reading == INSTANCE ModelFacts WITH
  TypeOf <- Catalogue, Listed <- Described, Purchases <- Texts, Policies <- Wishes,
  p <- textP, pol <- textPol
KnownFace == INSTANCE Familiarity WITH Recurring <- Renewing, row <- teaches
Newcomer == INSTANCE Familiarity WITH
  Recurring <- Renewing, History <- {}, NothingExtra <- ~NothingExtra,
  KnownShopOnly <- ~KnownShopOnly, row <- teaches

\* What the components say of their parameters.
ASSUME Parameters ==
  /\ Text!RuleChecksAssumption /\ Spent!RuleChecksAssumption
  /\ Bounds!RuleChecksAssumption /\ Tightened!RuleChecksAssumption
  /\ Reading!ModelFactsAssumption
  /\ KnownFace!FamiliarityAssumption
  /\ Newcomer!FamiliarityAssumption

Parts == {"decide", "text", "ledger", "bounds", "tighten", "read", "familiar", "newcomer"}

\* Where a component that rests is left.
AnyPurchase == CHOOSE q \in PurchasesMade : TRUE
AnyPolicy == CHOOSE d \in PoliciesMade : TRUE
AnyLedger == CHOOSE l \in LedgersNew : TRUE
AnyText == CHOOSE q \in Texts : TRUE
AnyWish == CHOOSE d \in Wishes : TRUE

WholeInit ==
  /\ part \in Parts
  /\ Init
  /\ CASE part = "text" -> Text!Init
       [] part = "bounds" -> Bounds!Init
       [] part = "tighten" -> Tightened!Init
       [] part = "ledger" -> Spent!Init
       [] OTHER -> /\ rulesP = AnyPurchase /\ rulesPol = AnyPolicy /\ led = AnyLedger
                   /\ Spent!Init
  /\ IF part = "read" THEN Reading!Init
     ELSE /\ textP = AnyText /\ textPol = AnyWish
          /\ read = textP /\ phase = "rules"
  /\ KnownFace!Init

whole == <<part, rulesVars, textVars, knownVars, vars>>

WholeNext ==
  \/ /\ part = "decide" /\ Next
     /\ UNCHANGED <<part, rulesVars, textVars, knownVars>>
  \/ /\ part = "text" /\ Text!Next
     /\ UNCHANGED <<part, textVars, knownVars, vars>>
  \/ /\ part = "ledger" /\ Spent!Next
     /\ UNCHANGED <<part, textVars, knownVars, vars>>
  \/ /\ part = "bounds" /\ Bounds!Next
     /\ UNCHANGED <<part, textVars, knownVars, vars>>
  \/ /\ part = "tighten" /\ Tightened!Next
     /\ UNCHANGED <<part, textVars, knownVars, vars>>
  \/ /\ part = "read" /\ Reading!Next
     /\ UNCHANGED <<part, rulesVars, knownVars, vars>>
  \/ /\ part = "familiar" /\ KnownFace!Next
     /\ UNCHANGED <<part, rulesVars, textVars, vars>>
  \/ /\ part = "newcomer" /\ Newcomer!Next
     /\ UNCHANGED <<part, rulesVars, textVars, vars>>

WholeSpec == WholeInit /\ [][WholeNext]_whole

----------------------------------------------------------------------------

\* What a policy's rules say of one purchase.  A limit that only waiting
\* purchases break asks (P4); a yes answers for its own rule, shop and item
\* only (ASK); more orders, or one more sentence of the shop's text, make
\* nothing pass that did not (facts.py); a tightened policy decides no purchase
\* more leniently (T5), and what a declined agent is told it needs is enough.
RulesStand ==
  /\ [](part = "ledger" => Spent!WaitingAloneAsks /\ Spent!YesGoesNoFurther)
  /\ Spent!OrdersNeverLoosen
  /\ Text!ShopTextNeverClears
  /\ Tightened!TightenKeepsDecisions
  /\ Bounds!BoundsAreEnough

\* Tier 2: a model's answer becomes a fact only where one was open, is stated
\* by the shop's text, and settles nothing the shop has left open.
ModelsOnlyRead == part = "read" =>
  /\ Reading!ModelClosesOnly /\ Reading!SettledStays
  /\ Reading!ReadFromItsText /\ Reading!NoSizeWhereOneIsOpen

\* W1, A7: a device or a shop that was strange becomes known by a purchase the
\* customer vouched for; a customer with no history yet gets one device.
OnlyVouchedIsKnown ==
  /\ part = "familiar" => KnownFace!DevicesVouchedFor /\ KnownFace!LookalikesVouchedFor
  /\ part = "newcomer" => Newcomer!OneFreeDevice /\ Newcomer!NoDeviceAsks
=============================================================================
