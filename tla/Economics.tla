----------------------------- MODULE Economics -----------------------------
(***************************************************************************)
(* The economic half of central adjudication (adjudication/runtime): the   *)
(* family heads, cases, supplier capacity, adjustment pools and posted     *)
(* actions of one enrolled registration, and the commands that change      *)
(* them: the admission of a case (by IMPORT), DECIDE, CORRECT and the      *)
(* closing of families (by CLOSE).  Each command is one journal transition *)
(* of the central host, so it is one action.                               *)
(*                                                                         *)
(* Times are whatever the authority of each command observed: they are     *)
(* not ordered with one another.  A command carries the roles and the      *)
(* assent its terms ask for; a replayed command returns the saved result   *)
(* and changes nothing.                                                    *)
(***************************************************************************)
EXTENDS Sums, FiniteSets

CONSTANTS
  Families,     \* the families of the enrollment, at most 32 in the code
  Terms,        \* the enrolled terms of each family
  Cases,        \* case keys
  FamilyOf,     \* the family a case key names
  OccurredAt,   \* occurred_at of a case's submission
  Suppliers,    \* supplier capacity pools
  Enrolled,     \* their positions at enrollment
  Pools,        \* adjustment pools
  PoolTerms,    \* their caps and authorised directions
  PremiumCap,   \* premium_cap: the cap on ordinary positive retail amounts
  Amounts,      \* signed amounts an adjustment may carry (bounds the model)
  MaxRevision,  \* corrections stop here (bounds the model)
  Horizon,      \* the latest time an authority observes (bounds the model)
  NoCase, NoSupplier

Time == 0..Horizon
Never == -1

FamilyTerms ==
  [book : {"Retail", "Supplier"}, supplier_pool : Suppliers \union {NoSupplier},
   prerequisites : SUBSET Families, ordinary_atoms : Int,
   correction_atoms : SUBSET Int, starts_at : Nat, occurs_before : Nat,
   received_by : Nat, accepted_by : Nat, correction_by : Nat]

Direction == {"Positive", "Negative", "Zero"}
Cap == [funding : Nat, gross : Nat, positive : Nat, negative : Nat,
        authorizations : SUBSET Direction]

SupplierState == [maximum : Nat, held : Nat, consumed : Nat, released : Nat]

\* What the validation of ENROLL guarantees of the terms.  A family whose
\* prerequisites lead back to it is refused (CYCLE): every non-empty set of
\* families has a member with no prerequisite inside the set.
ASSUME EnrollmentAssumption ==
  /\ IsFiniteSet(Families)
  /\ NoCase \notin Cases /\ NoSupplier \notin Suppliers
  /\ FamilyOf \in [Cases -> Families]
  /\ OccurredAt \in [Cases -> Nat]
  /\ Terms \in [Families -> FamilyTerms]
  /\ \A f \in Families :
       /\ (Terms[f].book = "Retail") <=> (Terms[f].supplier_pool = NoSupplier)
       /\ Terms[f].starts_at < Terms[f].occurs_before
       /\ Terms[f].received_by <= Terms[f].accepted_by
       /\ Terms[f].accepted_by <= Terms[f].correction_by
  /\ \A S \in (SUBSET Families) \ {{}} :
       \E f \in S : Terms[f].prerequisites \intersect S = {}
ASSUME CapacityAssumption ==
  /\ Enrolled \in [Suppliers -> SupplierState]
  /\ \A s \in Suppliers :
       LET e == Enrolled[s] IN e.consumed + e.held + e.released = e.maximum
  /\ IsFiniteSet(Pools) /\ PoolTerms \in [Pools -> Cap]
  /\ PremiumCap \in Nat
ASSUME BoundAssumption ==
  Amounts \subseteq Int /\ MaxRevision \in Nat /\ Horizon \in Nat

VARIABLES
  family,    \* family heads
  case,      \* centrally admitted cases
  supplier,  \* supplier capacity
  pool,      \* use of the adjustment pools
  actions    \* the actions posted to the books

economicVars == <<family, case, supplier, pool, actions>>

-----------------------------------------------------------------------------
(* Types.                                                                  *)

\* "none" is a case the central host has not admitted.
CaseStatus == {"none", "OrdinaryPending", "AdjustmentPending",
               "FinalAllow", "FinalDeny"}

Receipt == [position : Nat, received_at : Nat]
NoReceipt == [position |-> 0, received_at |-> 0]

CaseState == [status : CaseStatus, receipt : Receipt, revision : Nat,
              signed : Int]
Unadmitted == [status |-> "none", receipt |-> NoReceipt, revision |-> 0,
               signed |-> 0]

\* The head of a consumed entitlement is a digest; it stands for the case,
\* the revision and the amount it binds.
EntitlementHead == [case : Cases \union {NoCase}, revision : Nat, signed : Int]
Unconsumed == [case |-> NoCase, revision |-> 0, signed |-> 0]

FamilyState == [closed : BOOLEAN, unavailable : BOOLEAN, first_closure : Nat,
                closed_at : Nat \union {Never}, entitlement : EntitlementHead,
                ordinary_positive : Nat]

AdjustmentState == [funding_used : Nat, gross_used : Nat,
                    positive_used : Nat, negative_used : Nat]

Action == [case : Cases, revision : Nat, signed_atoms : Int,
           kind : {"Ordinary", "Adjustment", "Inverse", "Replacement"}]

EconomicTypeOK ==
  /\ family \in [Families -> FamilyState]
  /\ case \in [Cases -> CaseState]
  /\ supplier \in [Suppliers -> SupplierState]
  /\ pool \in [Pools -> AdjustmentState]
  /\ actions \subseteq Action

\* ENROLL: every family open and unconsumed, pools unused, suppliers as stated.
EconomicInit ==
  /\ family = [f \in Families |->
        [closed |-> FALSE, unavailable |-> FALSE, first_closure |-> 0,
         closed_at |-> Never, entitlement |-> Unconsumed,
         ordinary_positive |-> 0]]
  /\ case = [c \in Cases |-> Unadmitted]
  /\ supplier = Enrolled
  /\ pool = [p \in Pools |-> [funding_used |-> 0, gross_used |-> 0,
                              positive_used |-> 0, negative_used |-> 0]]
  /\ actions = {}

-----------------------------------------------------------------------------
(* Admission and decisions.                                                *)

Magnitude(n) == IF n < 0 THEN -n ELSE n
PositivePart(n) == IF n > 0 THEN n ELSE 0
DirectionOf(n) ==
  IF n > 0 THEN "Positive" ELSE IF n < 0 THEN "Negative" ELSE "Zero"

Consumed(f) == family[f].entitlement # Unconsumed

\* Faulty variant: the status the case was admitted with.
AdmittedStatus(c) == case[c].status
\* effective_status: a closure transfers pending cases without visiting them.
EffectiveStatus(c) ==
  IF case[c].status = "OrdinaryPending" /\ family[FamilyOf[c]].unavailable
  THEN "AdjustmentPending" ELSE case[c].status

\* The new-case half of IMPORT.
Admit(c, receipt) ==
  /\ case[c].status = "none"
  /\ case' = [case EXCEPT ![c] =
       [status |-> IF family[FamilyOf[c]].unavailable
                   THEN "AdjustmentPending" ELSE "OrdinaryPending",
        receipt |-> receipt, revision |-> 0, signed |-> 0]]
  /\ UNCHANGED <<family, supplier, pool, actions>>

\* action: an amount of zero posts nothing.
Post(c, revision, kind, n) ==
  IF n = 0 THEN {}
  ELSE {[case |-> c, revision |-> revision, kind |-> kind, signed_atoms |-> n]}

Entitlement(c, revision, n) ==
  [case |-> c, revision |-> revision, signed |-> n]

Decidable(c, now) ==
  /\ EffectiveStatus(c) \in {"OrdinaryPending", "AdjustmentPending"}
  /\ case[c].receipt.received_at <= now

Deny(c, now) ==
  /\ Decidable(c, now)
  /\ case' = [case EXCEPT ![c].status = "FinalDeny"]
  /\ UNCHANGED <<family, supplier, pool, actions>>

\* The common tail of an ALLOW: final at revision 1, entitlement consumed.
Allow(c, kind, n, ordinaryPositive) ==
  /\ case' = [case EXCEPT ![c].status = "FinalAllow", ![c].revision = 1,
                          ![c].signed = n]
  /\ family' = [family EXCEPT
                  ![FamilyOf[c]].entitlement = Entitlement(c, 1, n),
                  ![FamilyOf[c]].ordinary_positive = ordinaryPositive]
  /\ actions' = actions \union Post(c, 1, kind, n)

OrdinaryTotal ==
  SumOver([f \in Families |-> family[f].ordinary_positive], Families)

InWindow(c, now) ==
  LET t == Terms[FamilyOf[c]]
  IN /\ t.starts_at <= OccurredAt[c] /\ OccurredAt[c] < t.occurs_before
     /\ case[c].receipt.received_at <= t.received_by
     /\ now <= t.accepted_by

AllowRetail(c, n) ==
  /\ OrdinaryTotal + PositivePart(n) <= PremiumCap
  /\ Allow(c, "Ordinary", n, PositivePart(n))
  /\ UNCHANGED supplier

\* Faulty variant: what is consumed stays held as well.
AllowSupplierUnheld(c, n, s) ==
  /\ n >= 0 /\ n <= supplier[s].held
  /\ supplier' = [supplier EXCEPT ![s].consumed = @ + n]
  /\ Allow(c, "Ordinary", n, 0)
AllowSupplier(c, n, s) ==
  /\ n >= 0 /\ n <= supplier[s].held
  /\ supplier' = [supplier EXCEPT ![s].held = @ - n, ![s].consumed = @ + n]
  /\ Allow(c, "Ordinary", n, 0)

AllowOrdinary(c, now) ==
  LET f == FamilyOf[c]
      n == Terms[f].ordinary_atoms
  IN /\ Decidable(c, now)
     /\ ~Consumed(f)
     /\ EffectiveStatus(c) = "OrdinaryPending" /\ ~family[f].unavailable
     /\ \A g \in Terms[f].prerequisites : Consumed(g)
     /\ InWindow(c, now)
     /\ \/ Terms[f].book = "Retail" /\ AllowRetail(c, n)
        \/ Terms[f].book = "Supplier"
           /\ AllowSupplier(c, n, Terms[f].supplier_pool)
     /\ UNCHANGED pool

\* Faulty variant: opposite directions net out of the gross use.
UsedNet(p, n) ==
  [funding_used  |-> pool[p].funding_used + n,
   gross_used    |-> pool[p].gross_used + n,
   positive_used |-> pool[p].positive_used + PositivePart(n),
   negative_used |-> pool[p].negative_used + PositivePart(-n)]
Used(p, n) ==
  [funding_used  |-> pool[p].funding_used + Magnitude(n),
   gross_used    |-> pool[p].gross_used + Magnitude(n),
   positive_used |-> pool[p].positive_used + PositivePart(n),
   negative_used |-> pool[p].negative_used + PositivePart(-n)]

WithinCap(use, cap) ==
  /\ use.funding_used <= cap.funding   /\ use.gross_used <= cap.gross
  /\ use.positive_used <= cap.positive /\ use.negative_used <= cap.negative

AllowAdjustment(c, p, n, now) ==
  LET f == FamilyOf[c]
  IN /\ Decidable(c, now)
     /\ ~Consumed(f)
     /\ EffectiveStatus(c) = "AdjustmentPending" /\ family[f].unavailable
     /\ DirectionOf(n) \in PoolTerms[p].authorizations
     /\ WithinCap(Used(p, n), PoolTerms[p])
     /\ pool' = [pool EXCEPT ![p] = Used(p, n)]
     /\ Allow(c, "Adjustment", n, family[f].ordinary_positive)
     /\ UNCHANGED supplier

\* Faulty variant: the inverse takes back what was first allowed.
CorrectFromFirst(c, expected, n, now) ==
  LET r == case[c].revision
      first == {a \in actions : a.case = c /\ a.revision = 1}
      old == IF first = {} THEN 0 ELSE (CHOOSE a \in first : TRUE).signed_atoms
  IN /\ case[c].status = "FinalAllow" /\ r = expected /\ r < MaxRevision
     /\ n \in Terms[FamilyOf[c]].correction_atoms
     /\ case' = [case EXCEPT ![c].revision = r + 1, ![c].signed = n]
     /\ family' = [family EXCEPT
                     ![FamilyOf[c]].entitlement = Entitlement(c, r + 1, n)]
     /\ actions' = actions \union Post(c, r + 1, "Inverse", -old)
                           \union Post(c, r + 1, "Replacement", n)
     /\ UNCHANGED <<supplier, pool>>
\* Faulty variant: the family keeps the head of the first decision.
CorrectStaleHead(c, expected, n, now) ==
  LET r == case[c].revision
  IN /\ case[c].status = "FinalAllow" /\ r = expected /\ r < MaxRevision
     /\ n \in Terms[FamilyOf[c]].correction_atoms
     /\ case' = [case EXCEPT ![c].revision = r + 1, ![c].signed = n]
     /\ actions' = actions \union Post(c, r + 1, "Inverse", -case[c].signed)
                           \union Post(c, r + 1, "Replacement", n)
     /\ UNCHANGED <<family, supplier, pool>>
\* CORRECT: the inverse of the current amount and its replacement; capacity
\* and pool use stay as they were decided.
Correct(c, expected, n, now) ==
  LET f == FamilyOf[c]
      r == case[c].revision
  IN /\ case[c].status = "FinalAllow" /\ r = expected /\ r < MaxRevision
     /\ n \in Terms[f].correction_atoms /\ now <= Terms[f].correction_by
     /\ family[f].entitlement.case = c
     /\ case' = [case EXCEPT ![c].revision = r + 1, ![c].signed = n]
     /\ family' = [family EXCEPT ![f].entitlement = Entitlement(c, r + 1, n)]
     /\ actions' = actions \union Post(c, r + 1, "Inverse", -case[c].signed)
                           \union Post(c, r + 1, "Replacement", n)
     /\ UNCHANGED <<supplier, pool>>

-----------------------------------------------------------------------------
(* Closing families.                                                       *)

\* A family loses its ordinary path with a prerequisite that is unavailable
\* and unconsumed: nothing ordinary can consume it any more.
Deprived(f, U) ==
  \E g \in Terms[f].prerequisites : g \in U /\ ~Consumed(g)

\* Faulty variant: a single pass over the families, not a fixed point.
UnavailableOnce(S) ==
  LET U == S \union {f \in Families : family[f].unavailable}
  IN U \union {f \in Families : Deprived(f, U)}
\* The families unavailable once S is closed.  The loop of close marks
\* families until nothing changes, which is the least set that holds S, what
\* was unavailable before and every family deprived of a prerequisite.
Unavailable(S) ==
  LET Before == S \union {f \in Families : family[f].unavailable}
      Stable(U) == /\ Before \subseteq U
                   /\ \A f \in Families : Deprived(f, U) => f \in U
  IN {f \in Families : \A U \in SUBSET Families : Stable(U) => f \in U}

FamiliesOf(s) == {f \in Families : Terms[f].supplier_pool = s}

\* Faulty variant: capacity is released with the first of its families.
ReleasesEarly(s, S) == FamiliesOf(s) \intersect S # {}
\* What is still held is released once the last family of a supplier closes.
Releases(s, S) ==
  /\ FamiliesOf(s) \intersect S # {}
  /\ \A f \in FamiliesOf(s) : family[f].closed \/ f \in S

\* Faulty variant: a later closure rewrites the first one.
FirstClosureLatest(f, n, S) == IF f \in Unavailable(S) THEN n ELSE 0
FirstClosure(f, n, S) ==
  IF f \in Unavailable(S) /\ family[f].first_closure = 0 THEN n
  ELSE family[f].first_closure

\* close: the certificate of round n closes the families S at time `at'.
CloseFamilies(n, S, at) ==
  /\ \A f \in S : ~family[f].closed
  /\ family' = [f \in Families |->
       [closed |-> family[f].closed \/ f \in S,
        unavailable |-> f \in Unavailable(S),
        first_closure |-> FirstClosure(f, n, S),
        closed_at |-> IF f \in S THEN at ELSE family[f].closed_at,
        entitlement |-> family[f].entitlement,
        ordinary_positive |-> family[f].ordinary_positive]]
  /\ supplier' = [s \in Suppliers |->
       IF Releases(s, S)
       THEN [supplier[s] EXCEPT !.held = 0, !.released = @ + supplier[s].held]
       ELSE supplier[s]]
  /\ UNCHANGED <<case, pool, actions>>

-----------------------------------------------------------------------------
(* The decisions authorities may take of the admitted cases.               *)

Decide(c) ==
  \E now \in Time :
    \/ Deny(c, now)
    \/ AllowOrdinary(c, now)
    \/ \E p \in Pools, n \in Amounts : AllowAdjustment(c, p, n, now)

CorrectSome(c) ==
  \E now \in Time, r \in 1..MaxRevision, n \in Terms[FamilyOf[c]].correction_atoms :
    Correct(c, r, n, now)

Ruling == \E c \in Cases : Decide(c) \/ CorrectSome(c)

-----------------------------------------------------------------------------
(* The economics on its own: cases are admitted and families closed at any *)
(* moment, whatever the receipts and the rounds behind them.  The          *)
(* adjudication protocol is one such environment.                          *)

Admission ==
  \E c \in Cases, t \in Time :
    Admit(c, [position |-> 1, received_at |-> t])

Closing ==
  \E S \in (SUBSET Families) \ {{}}, t \in Time :
    CloseFamilies(1 + Cardinality({f \in Families : family[f].closed}), S, t)

EconomicNext == Admission \/ Ruling \/ Closing

EconomicSpec == EconomicInit /\ [][EconomicNext]_economicVars

-----------------------------------------------------------------------------
(* Properties.                                                             *)

Posted(c) == {a \in actions : a.case = c}
Total(A) == SumOver([a \in A |-> a.signed_atoms], A)
OrdinaryActions(F) ==
  {a \in actions : a.kind = "Ordinary" /\ FamilyOf[a.case] \in F}

\* A family's entitlement names the one case allowed in it, at the revision
\* and with the amount that case has now, whatever decisions and corrections
\* raced for it (consume in DECIDE and CORRECT).
EntitlementIsHead ==
  /\ \A f \in Families :
       Consumed(f) => LET e == family[f].entitlement IN
         /\ e.case \in Cases /\ FamilyOf[e.case] = f
         /\ case[e.case].status = "FinalAllow"
         /\ e.revision = case[e.case].revision /\ e.signed = case[e.case].signed
  /\ \A c \in Cases :
       case[c].status = "FinalAllow" => family[FamilyOf[c]].entitlement.case = c

\* The actions posted for a case always add up to the amount in force, and a
\* case that is not allowed has posted nothing (DECIDE's action, CORRECT's
\* inverse and replacement, zero amounts left out).
LedgerNets ==
  \A c \in Cases :
    /\ Total(Posted(c)) = case[c].signed
    /\ case[c].status # "FinalAllow" => Posted(c) = {}

\* Supplier capacity is conserved, and what is consumed is what the ordinary
\* decisions of the supplier's families posted: corrections, adjustments and
\* closures neither spend nor return it.
SupplierConserved ==
  \A s \in Suppliers :
    /\ supplier[s].held + supplier[s].consumed + supplier[s].released
         = Enrolled[s].maximum
    /\ supplier[s].consumed
         = Enrolled[s].consumed + Total(OrdinaryActions(FamiliesOf(s)))

\* Capacity is released exactly when the last family of a supplier has
\* closed: never while an ordinary decision could still need it, and always
\* once none can (close).
ReleasedWithLastFamily ==
  \A s \in Suppliers : FamiliesOf(s) # {} =>
    LET done == \A f \in FamiliesOf(s) : family[f].closed
    IN /\ done => supplier[s].held = 0
       /\ supplier[s].released # Enrolled[s].released => done

\* No pool is used beyond its caps, and the gross use of all pools is the
\* magnitude of every adjustment ever allowed: opposite directions do not
\* cancel and corrections give nothing back (DECIDE on the adjustment path).
PoolsCoverAdjustments ==
  LET adjustments == {a \in actions : a.kind = "Adjustment"}
  IN /\ \A p \in Pools : WithinCap(pool[p], PoolTerms[p])
     /\ SumOver([p \in Pools |-> pool[p].gross_used], Pools)
          = SumOver([a \in adjustments |-> Magnitude(a.signed_atoms)], adjustments)

\* The positive ordinary retail amounts decided over all families stay within
\* the enrollment's premium cap, however the decisions interleave.
PremiumCapped ==
  LET retail == OrdinaryActions({f \in Families : Terms[f].book = "Retail"})
  IN SumOver([a \in retail |-> PositivePart(a.signed_atoms)], retail) <= PremiumCap

\* A family that is still available can still be decided: none of its
\* prerequisites is unavailable and unconsumed.  And a family that was not
\* closed itself is unavailable only because a prerequisite is.
NoOrphanFamily ==
  \A f \in Families :
    /\ ~family[f].unavailable =>
         \A g \in Terms[f].prerequisites : family[g].unavailable => Consumed(g)
    /\ family[f].unavailable /\ ~family[f].closed =>
         \E g \in Terms[f].prerequisites : family[g].unavailable

\* A pending case is always on the path its family allows: closing a family
\* moves its pending cases to adjustment without rewriting them, and a case
\* admitted for adjustment never finds its family available.
NoStrandedCase ==
  \A c \in Cases :
    case[c].status \in {"OrdinaryPending", "AdjustmentPending"} =>
      EffectiveStatus(c) = IF family[FamilyOf[c]].unavailable
                           THEN "AdjustmentPending" ELSE "OrdinaryPending"

\* Closing is for good: no later decision, correction or closure reopens a
\* family, moves its closing time or replaces the closure that first made it
\* unavailable (a decision writes the whole family head back).
ClosureIsFinal ==
  [][\A f \in Families :
       /\ family[f].closed => family'[f].closed
                              /\ family'[f].closed_at = family[f].closed_at
       /\ family[f].unavailable =>
            /\ family'[f].unavailable
            /\ family'[f].first_closure = family[f].first_closure
    ]_economicVars

=============================================================================
