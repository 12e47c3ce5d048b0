\* decide() on every input; rules, ledger, read facts and familiarity on small ones.
CONSTANTS
  MaxWeak = 4
  Catalogue <- Types
  Described <- Words
  PurchasesRead <- ReadPurchase
  PoliciesRead <- ReadPolicies
  LedgersRead <- OldLedgers
  Sentences <- ShopText
  PurchasesMade <- SpentPurchase
  PoliciesMade <- AllPolicies
  LedgersNew <- NewLedgers
  MoreOrders <- NewOrders
  PurchasesTold <- ToldPurchase
  LedgersMade <- AllLedgers
  MoreRules <- Additions
  Texts <- TextPurchases
  Wishes <- TextPolicies
  Values <- Readable
  Count = 3
  Shops = {"harbor", "harbour", "gym"}
  CountryOf <- Countries
  Alike <- Names
  Renewing = {"gym"}
  Devices = {"phone", "other"}
  Amounts = {20}
  History <- KnownHarbor
  Limit = 0
  NothingExtra = FALSE
  KnownShopOnly = FALSE
  Setting = "approve"
SPECIFICATION WholeSpec
INVARIANTS MostRestrictiveWins  OnlyVouchedIsKnown
PROPERTIES NeverLoosens 
CHECK_DEADLOCK FALSE
