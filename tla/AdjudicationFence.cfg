SPECIFICATION Spec
CONSTANTS
  north = north
  south = south
  n1 = n1
  n2 = n2
  n3 = n3
  s1 = s1
  caseN1 = caseN1
  caseN2 = caseN2
  caseS = caseS
  plan = plan
  extra = extra
  goodwill = goodwill
  Gateways = {north}
  Grants = {n1, n2}
  GatewayOf <- MCGatewayOf
  RouteOf <- MCRouteOf
  MaxRound = 1
  Modes = {"FinishOnly", "Cancellable"}
  Deciding = TRUE
  Families = {plan}
  Terms <- MCTerms
  Cases = {caseN1, caseN2}
  FamilyOf <- MCFamilyOf
  OccurredAt <- MCOccurredAt
  Suppliers = {}
  Enrolled <- MCEmpty
  Pools = {}
  PoolTerms <- MCEmpty
  PremiumCap = 9
  Amounts = {}
  MaxRevision = 1
  Horizon = 1
  NoCase = NoCase
  NoSupplier = NoSupplier
SYMMETRY TokenSymmetry
INVARIANTS
  FenceComplete
  Chronology
  DispositionsAgree
  RetiredIsUnspent
  PrefixesAreDense
CHECK_DEADLOCK FALSE
