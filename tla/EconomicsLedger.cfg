SPECIFICATION EconomicSpec
CONSTANTS
  base = base
  addon = addon
  resale = resale
  other = other
  baseCase = baseCase
  baseCase2 = baseCase2
  addonCase = addonCase
  resaleCase = resaleCase
  otherCase = otherCase
  reseller = reseller
  goodwill = goodwill
  Families = {base, addon, resale, other}
  Terms <- MCTerms
  Cases = {baseCase, baseCase2, otherCase}
  FamilyOf <- MCFamilyOf
  OccurredAt <- MCOccurredAt
  Suppliers = {reseller}
  Enrolled <- MCEnrolled
  Pools = {goodwill}
  PoolTerms <- MCPoolTerms
  PremiumCap = 2
  Amounts <- MCAmounts
  MaxRevision = 3
  Horizon = 0
  NoCase = NoCase
  NoSupplier = NoSupplier
INVARIANTS
  EntitlementIsHead
  LedgerNets
  SupplierConserved
  ReleasedWithLastFamily
  PoolsCoverAdjustments
  NoOrphanFamily
  NoStrandedCase
PROPERTIES
  ClosureIsFinal
CHECK_DEADLOCK FALSE
