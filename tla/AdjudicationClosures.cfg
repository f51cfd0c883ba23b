SPECIFICATION Spec
CONSTANTS
  north = north
  south = south
  n1 = n1
  n2 = n2
  n3 = n3
  s1 = s1
  caseN1 = caseN1
  caseN2 = caseN2
  caseS = caseS
  plan = plan
  extra = extra
  goodwill = goodwill
  Gateways = {north}
  Grants = {n1}
  GatewayOf <- MCGatewayOf
  RouteOf <- MCRouteOf
  MaxRound = 2
  Modes = {"FinishOnly"}
  Deciding = TRUE
  Families = {plan, extra}
  Terms <- MCTerms
  Cases = {caseN1, caseN2}
  FamilyOf <- MCFamilyOf
  OccurredAt <- MCOccurredAt
  Suppliers = {}
  Enrolled <- MCEmpty
  Pools = {goodwill}
  PoolTerms <- MCPoolTerms
  PremiumCap = 9
  Amounts = {1}
  MaxRevision = 1
  Horizon = 1
  NoCase = NoCase
  NoSupplier = NoSupplier
PROPERTIES
  ClosesAtOnce
CHECK_DEADLOCK FALSE
