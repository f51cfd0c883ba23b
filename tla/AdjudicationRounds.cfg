SPECIFICATION Spec
CONSTANTS
  north = north
  south = south
  n1 = n1
  n2 = n2
  n3 = n3
  s1 = s1
  caseN1 = caseN1
  caseN2 = caseN2
  caseS = caseS
  plan = plan
  extra = extra
  goodwill = goodwill
  Gateways = {north, south}
  Grants = {}
  GatewayOf <- MCGatewayOf
  RouteOf <- MCRouteOf
  MaxRound = 3
  Modes = {"FinishOnly", "Cancellable"}
  Deciding = FALSE
  Families = {plan}
  Terms <- MCTerms
  Cases = {}
  FamilyOf <- MCFamilyOf
  OccurredAt <- MCOccurredAt
  Suppliers = {}
  Enrolled <- MCEmpty
  Pools = {}
  PoolTerms <- MCEmpty
  PremiumCap = 9
  Amounts = {}
  MaxRevision = 1
  Horizon = 0
  NoCase = NoCase
  NoSupplier = NoSupplier
SYMMETRY GatewaySymmetry
INVARIANTS
  RoundsAreCurrent
  CloseRightHeld
CHECK_DEADLOCK FALSE
