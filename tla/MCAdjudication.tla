--------------------------- MODULE MCAdjudication ---------------------------
(***************************************************************************)
(* Instances of Adjudication for TLC.  Capacity is ample here: what the    *)
(* economics promises is checked by the runs of MCEconomics.               *)
(***************************************************************************)
EXTENDS Adjudication, TLC

CONSTANTS north, south, n1, n2, n3, s1, caseN1, caseN2, caseS, plan, extra,
          goodwill

\* Grants n1, n2, n3 are the north gateway's.
MCGatewayOf == [t \in Grants |-> IF t = s1 THEN south ELSE north]
MCRouteOf == [c \in Cases |-> IF c = caseS THEN south ELSE north]

\* extra, where enrolled, depends on plan.
MCFamilyOf == [c \in Cases |-> IF c = caseN2 /\ extra \in Families
                               THEN extra ELSE plan]
MCOccurredAt == [c \in Cases |-> 0]
MCTerms == [f \in Families |->
  [book |-> "Retail", supplier_pool |-> NoSupplier,
   prerequisites |-> IF f = extra THEN {plan} ELSE {},
   ordinary_atoms |-> 1, correction_atoms |-> {0},
   starts_at |-> 0, occurs_before |-> 1,
   received_by |-> Horizon, accepted_by |-> Horizon, correction_by |-> Horizon]]
MCEmpty == [x \in {} |-> 0]
MCPoolTerms == [p \in Pools |->
  [funding |-> 2, gross |-> 2, positive |-> 2, negative |-> 0,
   authorizations |-> {"Positive"}]]

\* The grants and the cases of one gateway are alike; so are the gateways
\* where there is neither.
TokenSymmetry == Permutations({n1, n2}) \union Permutations({caseN1, caseN2})
GatewaySymmetry == Permutations({north, south})
=============================================================================
