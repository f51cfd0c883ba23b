------------------------- MODULE AdjudicationProofs -------------------------
(***************************************************************************)
(* Proofs about central adjudication, for any enrollment, in three parts.  *)
(*                                                                         *)
(* The economics, in an environment that may run any command at any        *)
(* moment: its types, that an entitlement is the head of the one case      *)
(* allowed in its family, that pending cases follow their family, that no  *)
(* family is left without a prerequisite, when capacity is released, that  *)
(* closing is final, and that the books add up: the sums over the posted   *)
(* actions are what cases, suppliers, pools and the premium cap say.       *)
(*                                                                         *)
(* The protocol, for any number of gateways, grants, cases and rounds: the *)
(* safety properties the runs check.  The invariant of the economics is    *)
(* kept because every step of the protocol is one of the steps the first   *)
(* part allows its environment.                                            *)
(*                                                                         *)
(* The registry: the protocol implements ClosedAtOnce, where a round of    *)
(* many commands at several hosts is one closure at one moment.            *)
(***************************************************************************)
EXTENDS Adjudication, SumTheorems, FiniteSetTheorems, TLAPS

(***************************************************************************)
(* Part 1.  The economics.                                                 *)
(***************************************************************************)

(* Any step an environment of the economics may take: what CLOSE is told   *)
(* of round, families and time, and IMPORT of the receipt, is arbitrary.   *)
EconomicStep ==
  \/ \E c \in Cases, receipt \in Receipt : Admit(c, receipt)
  \/ Ruling
  \/ \E n \in Nat \ {0}, S \in SUBSET Families, at \in Nat :
       CloseFamilies(n, S, at)
  \/ UNCHANGED economicVars

-----------------------------------------------------------------------------
(* What the commands do to the points, without the record updates.         *)

KeepsClosure(f) ==
  /\ family'[f].closed = family[f].closed
  /\ family'[f].unavailable = family[f].unavailable
  /\ family'[f].first_closure = family[f].first_closure
  /\ family'[f].closed_at = family[f].closed_at

\* The admission of case c on the path its family allows.
Admits(c) ==
  /\ UNCHANGED <<family, supplier, pool, actions>>
  /\ case[c].status = "none"
  /\ case'[c].status = IF family[FamilyOf[c]].unavailable
                       THEN "AdjustmentPending" ELSE "OrdinaryPending"
  /\ \A d \in Cases \ {c} : case'[d] = case[d]

\* The denial of case c.
Denies(c) ==
  /\ UNCHANGED <<family, supplier, pool, actions>>
  /\ case[c].status \in {"OrdinaryPending", "AdjustmentPending"}
  /\ case'[c].status = "FinalDeny"
  /\ case'[c].receipt = case[c].receipt
  /\ \A d \in Cases \ {c} : case'[d] = case[d]

\* A decision or correction of case c at revision r for the amount n.
Binds(c, r, n) ==
  /\ family[FamilyOf[c]].entitlement.case \in {NoCase, c}
  /\ \A f \in Families : KeepsClosure(f)
  /\ \A f \in Families :
       family'[f].entitlement = IF f = FamilyOf[c] THEN Entitlement(c, r, n)
                                ELSE family[f].entitlement
  /\ \A d \in Cases \ {c} : case'[d] = case[d]
  /\ case[c].status # "none" /\ case'[c].status = "FinalAllow"
  /\ case'[c].revision = r /\ case'[c].signed = n
  /\ case'[c].receipt = case[c].receipt

Ruled(r, x, y, z) == [r EXCEPT !.status = x, !.revision = y, !.signed = z]
Revised(r, y, z) == [r EXCEPT !.revision = y, !.signed = z]
Consuming(q, e, z) == [q EXCEPT !.entitlement = e, !.ordinary_positive = z]

Drawn(r, x, y) == [r EXCEPT !.held = x, !.consumed = y]

\* An ordinary decision moves held capacity to consumed and nothing else.
Draws ==
  \A s \in Suppliers :
    /\ supplier'[s].maximum = supplier[s].maximum
    /\ supplier'[s].released = supplier[s].released
    /\ supplier'[s].held <= supplier[s].held
    /\ supplier'[s].held + supplier'[s].consumed
         = supplier[s].held + supplier[s].consumed

\* A pool changes only to a use within its caps.
Uses ==
  \A p \in Pools : pool'[p] = pool[p] \/ WithinCap(pool'[p], PoolTerms[p])

\* An allowed decision or a correction, with what it draws and uses.
Rules(c) ==
  \E r \in Nat, n \in Int : Binds(c, r, n) /\ Draws /\ Uses

\* The closing of the families S.
Closes(n, S, at) ==
  /\ UNCHANGED <<case, pool, actions>>
  /\ \A f \in S : ~family[f].closed
  /\ \A f \in Families :
       /\ family'[f].closed <=> family[f].closed \/ f \in S
       /\ family'[f].closed_at = IF f \in S THEN at ELSE family[f].closed_at
       /\ family'[f].unavailable <=> f \in Unavailable(S)
       /\ family'[f].first_closure = FirstClosure(f, n, S)
       /\ family'[f].entitlement = family[f].entitlement
  /\ \A s \in Suppliers :
       IF Releases(s, S)
       THEN /\ supplier'[s].held = 0
            /\ supplier'[s].released = supplier[s].released + supplier[s].held
            /\ supplier'[s].consumed = supplier[s].consumed
            /\ supplier'[s].maximum = supplier[s].maximum
       ELSE supplier'[s] = supplier[s]

LEMMA RuledCase ==
  ASSUME NEW r \in CaseState
  PROVE  \A x \in CaseStatus, y \in Nat, z \in Int :
           /\ Ruled(r, x, y, z) \in CaseState
           /\ Ruled(r, x, y, z).status = x
           /\ Ruled(r, x, y, z).revision = y
           /\ Ruled(r, x, y, z).signed = z
           /\ Ruled(r, x, y, z).receipt = r.receipt
  BY DEF CaseState, Ruled

LEMMA RevisedCase ==
  ASSUME NEW r \in CaseState
  PROVE  \A y \in Nat, z \in Int :
           /\ Revised(r, y, z) \in CaseState
           /\ Revised(r, y, z).status = r.status
           /\ Revised(r, y, z).revision = y
           /\ Revised(r, y, z).signed = z
           /\ Revised(r, y, z).receipt = r.receipt
  BY DEF CaseState, Revised

LEMMA DrawnSupplier ==
  ASSUME NEW r \in SupplierState
  PROVE  \A x \in Nat, y \in Nat :
           LET u == Drawn(r, x, y)
           IN /\ u \in SupplierState
              /\ u.maximum = r.maximum /\ u.released = r.released
              /\ u.held = x /\ u.consumed = y
  BY DEF SupplierState, Drawn

LEMMA ConsumingFamily ==
  ASSUME NEW q \in FamilyState
  PROVE  \A e \in EntitlementHead, z \in Nat :
           LET u == Consuming(q, e, z)
           IN /\ u \in FamilyState /\ u.entitlement = e
              /\ u.closed = q.closed /\ u.unavailable = q.unavailable
              /\ u.first_closure = q.first_closure /\ u.closed_at = q.closed_at
  BY DEF FamilyState, Consuming

LEMMA AllowBinds ==
  ASSUME EconomicTypeOK, NEW c \in Cases, NEW kind, NEW n \in Int,
         NEW p \in Nat, Allow(c, kind, n, p), ~Consumed(FamilyOf[c]),
         case[c].status # "none"
  PROVE  /\ Binds(c, 1, n)
         /\ family' \in [Families -> FamilyState]
         /\ case' \in [Cases -> CaseState]
<1>. DEFINE f == FamilyOf[c]
            e == Entitlement(c, 1, n)
            u == Ruled(case[c], "FinalAllow", 1, n)
            q == Consuming(family[f], e, p)
<1>1. f \in Families /\ e \in EntitlementHead /\ c # NoCase
  BY EnrollmentAssumption DEF Entitlement, EntitlementHead
<1>2. /\ u \in CaseState
      /\ u.status = "FinalAllow" /\ u.revision = 1 /\ u.signed = n
      /\ u.receipt = case[c].receipt
  BY RuledCase DEF EconomicTypeOK, CaseStatus
<1>3. /\ q \in FamilyState /\ q.entitlement = e
      /\ q.closed = family[f].closed /\ q.unavailable = family[f].unavailable
      /\ q.first_closure = family[f].first_closure
      /\ q.closed_at = family[f].closed_at
  BY <1>1, ConsumingFamily DEF EconomicTypeOK
<1>4. case' = [case EXCEPT ![c] = u]
  BY DEF Allow, Ruled
<1>5. family' = [family EXCEPT ![f] = q]
  BY DEF Allow, Consuming
<1>6. family[f].entitlement.case = NoCase
  BY DEF Consumed, Unconsumed
<1>. HIDE DEF u, q, f
<1>7. case' \in [Cases -> CaseState] /\ case'[c] = u
      /\ \A d \in Cases \ {c} : case'[d] = case[d]
  BY <1>2, <1>4 DEF EconomicTypeOK
<1>8. family' \in [Families -> FamilyState] /\ family'[f] = q
      /\ \A g \in Families \ {f} : family'[g] = family[g]
  BY <1>1, <1>3, <1>5 DEF EconomicTypeOK
<1>9. \A g \in Families : KeepsClosure(g)
  BY <1>3, <1>8 DEF KeepsClosure
<1>. QED
  BY <1>2, <1>3, <1>6, <1>7, <1>8, <1>9 DEF Binds, f

LEMMA CorrectBinds ==
  ASSUME EconomicTypeOK, NEW c \in Cases, NEW r \in Nat,
         NEW n \in Terms[FamilyOf[c]].correction_atoms, NEW now,
         Correct(c, r, n, now)
  PROVE  /\ Binds(c, r + 1, n) /\ n \in Int
         /\ family' \in [Families -> FamilyState]
         /\ case' \in [Cases -> CaseState]
<1>. DEFINE f == FamilyOf[c]
            e == Entitlement(c, r + 1, n)
            u == Revised(case[c], r + 1, n)
            q == [family[f] EXCEPT !.entitlement = e]
<1>1. f \in Families /\ e \in EntitlementHead /\ n \in Int /\ r + 1 \in Nat
  BY EnrollmentAssumption DEF Entitlement, EntitlementHead, FamilyTerms
<1>2. /\ u \in CaseState
      /\ u.status = case[c].status /\ u.revision = r + 1 /\ u.signed = n
      /\ u.receipt = case[c].receipt
  BY <1>1, RevisedCase DEF EconomicTypeOK
<1>3. /\ q \in FamilyState /\ q.entitlement = e
      /\ q.closed = family[f].closed /\ q.unavailable = family[f].unavailable
      /\ q.first_closure = family[f].first_closure
      /\ q.closed_at = family[f].closed_at
  BY <1>1 DEF EconomicTypeOK, FamilyState
<1>4. case' = [case EXCEPT ![c] = u]
  BY DEF Correct, Revised
<1>5. family' = [family EXCEPT ![f] = q]
  BY DEF Correct
<1>6. family[f].entitlement.case = c /\ case[c].status = "FinalAllow"
  BY DEF Correct
<1>. HIDE DEF u, q, f
<1>7. case' \in [Cases -> CaseState] /\ case'[c] = u
      /\ \A d \in Cases \ {c} : case'[d] = case[d]
  BY <1>2, <1>4 DEF EconomicTypeOK
<1>8. family' \in [Families -> FamilyState] /\ family'[f] = q
      /\ \A g \in Families \ {f} : family'[g] = family[g]
  BY <1>1, <1>3, <1>5 DEF EconomicTypeOK
<1>9. \A g \in Families : KeepsClosure(g)
  BY <1>3, <1>8 DEF KeepsClosure
<1>. QED
  BY <1>1, <1>2, <1>3, <1>6, <1>7, <1>8, <1>9 DEF Binds, f

(* What is posted are actions.                                             *)
LEMMA PostType ==
  ASSUME NEW c \in Cases, NEW r \in Nat, NEW n \in Int,
         NEW kind \in {"Ordinary", "Adjustment", "Inverse", "Replacement"}
  PROVE  Post(c, r, kind, n) \subseteq Action
  BY DEF Post, Action

LEMMA SupplierDraws ==
  ASSUME EconomicTypeOK, NEW s \in Suppliers, NEW n \in Nat,
         n <= supplier[s].held,
         supplier' = [supplier EXCEPT ![s].held = @ - n,
                                      ![s].consumed = @ + n]
  PROVE  supplier' \in [Suppliers -> SupplierState] /\ Draws
<1>. DEFINE u == Drawn(supplier[s], supplier[s].held - n,
                       supplier[s].consumed + n)
<1>1. supplier[s] \in SupplierState
  BY DEF EconomicTypeOK
<1>2. supplier[s].held - n \in Nat /\ supplier[s].consumed + n \in Nat
  BY <1>1 DEF SupplierState
<1>3. /\ u \in SupplierState
      /\ u.maximum = supplier[s].maximum /\ u.released = supplier[s].released
      /\ u.held = supplier[s].held - n /\ u.consumed = supplier[s].consumed + n
  BY <1>1, <1>2, DrawnSupplier
<1>4. supplier' = [supplier EXCEPT ![s] = u]
  BY DEF Drawn
<1>. HIDE DEF u
<1>5. supplier'[s] = u /\ \A t \in Suppliers \ {s} : supplier'[t] = supplier[t]
  BY <1>4 DEF EconomicTypeOK
<1>6. supplier' \in [Suppliers -> SupplierState]
  BY <1>3, <1>4 DEF EconomicTypeOK
<1>. QED
  BY <1>1, <1>3, <1>5, <1>6 DEF Draws, EconomicTypeOK, SupplierState

(* What each command leaves: the effect on the points, and the types.      *)
LEMMA AdmitStep ==
  ASSUME EconomicTypeOK, NEW c \in Cases, NEW receipt \in Receipt,
         Admit(c, receipt)
  PROVE  EconomicTypeOK' /\ Admits(c) /\ case'[c].receipt = receipt
<1>. DEFINE status == IF family[FamilyOf[c]].unavailable
                      THEN "AdjustmentPending" ELSE "OrdinaryPending"
            u == [status |-> status, receipt |-> receipt, revision |-> 0,
                  signed |-> 0]
<1>1. u \in CaseState
  BY DEF CaseState, CaseStatus
<1>2. case' = [case EXCEPT ![c] = u]
  BY DEF Admit
<1>3. u.status = status /\ u.receipt = receipt
  OBVIOUS
<1>. HIDE DEF u
<1>4. case' \in [Cases -> CaseState] /\ case'[c] = u
      /\ \A d \in Cases \ {c} : case'[d] = case[d]
  BY <1>1, <1>2 DEF EconomicTypeOK
<1>. QED
  BY <1>3, <1>4 DEF Admit, Admits, EconomicTypeOK

LEMMA DenyStep ==
  ASSUME EconomicTypeOK, NEW c \in Cases, NEW now, Deny(c, now)
  PROVE  EconomicTypeOK' /\ Denies(c)
<1>. DEFINE u == [case[c] EXCEPT !.status = "FinalDeny"]
<1>1. u \in CaseState /\ u.status = "FinalDeny"
      /\ u.receipt = case[c].receipt
  BY DEF EconomicTypeOK, CaseState, CaseStatus
<1>2. case' = [case EXCEPT ![c] = u]
  BY DEF Deny
<1>3. case[c].status \in {"OrdinaryPending", "AdjustmentPending"}
  BY DEF Deny, Decidable, EffectiveStatus
<1>. HIDE DEF u
<1>4. case' \in [Cases -> CaseState] /\ case'[c] = u
      /\ \A d \in Cases \ {c} : case'[d] = case[d]
  BY <1>1, <1>2 DEF EconomicTypeOK
<1>. QED
  BY <1>1, <1>3, <1>4 DEF Deny, Denies, EconomicTypeOK

LEMMA AllowOrdinaryStep ==
  ASSUME EconomicTypeOK, NEW c \in Cases, NEW now, AllowOrdinary(c, now)
  PROVE  EconomicTypeOK' /\ Rules(c)
<1>. DEFINE f == FamilyOf[c]
            n == Terms[f].ordinary_atoms
            s == Terms[f].supplier_pool
<1>1. f \in Families /\ n \in Int /\ s \in Suppliers \union {NoSupplier}
      /\ (Terms[f].book = "Supplier" => s \in Suppliers)
  BY EnrollmentAssumption DEF FamilyTerms
<1>2. UNCHANGED pool /\ ~Consumed(f) /\ case[c].status # "none"
  BY DEF AllowOrdinary, Decidable, EffectiveStatus
<1>3. PositivePart(n) \in Nat
  BY <1>1 DEF PositivePart
<1>4. \E p \in Nat : /\ Allow(c, "Ordinary", n, p)
                     /\ Draws /\ supplier' \in [Suppliers -> SupplierState]
  <2>1. CASE Terms[f].book = "Retail" /\ AllowRetail(c, n)
    <3>1. Allow(c, "Ordinary", n, PositivePart(n)) /\ UNCHANGED supplier
      BY <2>1 DEF AllowRetail
    <3>2. Draws /\ supplier' \in [Suppliers -> SupplierState]
      BY <3>1 DEF Draws, EconomicTypeOK, SupplierState
    <3>. QED
      BY <1>3, <3>1, <3>2
  <2>2. CASE Terms[f].book = "Supplier" /\ AllowSupplier(c, n, s)
    <3>1. /\ n >= 0 /\ n <= supplier[s].held /\ Allow(c, "Ordinary", n, 0)
          /\ supplier' = [supplier EXCEPT ![s].held = @ - n,
                                          ![s].consumed = @ + n]
      BY <2>2 DEF AllowSupplier
    <3>2. s \in Suppliers /\ n \in Nat
      BY <1>1, <2>2, <3>1
    <3>3. Draws /\ supplier' \in [Suppliers -> SupplierState]
      BY <3>1, <3>2, SupplierDraws
    <3>. QED
      BY <3>1, <3>3
  <2>. QED
    BY <2>1, <2>2 DEF AllowOrdinary
<1>5. PICK p \in Nat : Allow(c, "Ordinary", n, p)
  BY <1>4
<1>6. /\ Binds(c, 1, n)
      /\ family' \in [Families -> FamilyState] /\ case' \in [Cases -> CaseState]
  BY <1>1, <1>2, <1>5, AllowBinds
<1>7. Post(c, 1, "Ordinary", n) \subseteq Action
  BY <1>1, PostType
<1>8. actions' \subseteq Action
  BY <1>5, <1>7 DEF Allow, EconomicTypeOK
<1>9. EconomicTypeOK' /\ Uses /\ Draws
  BY <1>2, <1>4, <1>6, <1>8 DEF EconomicTypeOK, Uses
<1>. QED
  BY <1>1, <1>6, <1>9 DEF Rules

LEMMA AllowAdjustmentStep ==
  ASSUME EconomicTypeOK, NEW c \in Cases, NEW p \in Pools, NEW n \in Int,
         NEW now, AllowAdjustment(c, p, n, now)
  PROVE  EconomicTypeOK' /\ Rules(c)
<1>. DEFINE f == FamilyOf[c]
            o == family[f].ordinary_positive
<1>1. f \in Families /\ o \in Nat
  BY EnrollmentAssumption DEF EconomicTypeOK, FamilyState
<1>2. /\ ~Consumed(f) /\ UNCHANGED supplier /\ Allow(c, "Adjustment", n, o)
      /\ pool' = [pool EXCEPT ![p] = Used(p, n)]
      /\ WithinCap(Used(p, n), PoolTerms[p])
      /\ case[c].status # "none"
  BY DEF AllowAdjustment, Decidable, EffectiveStatus
<1>3. /\ Binds(c, 1, n)
      /\ family' \in [Families -> FamilyState] /\ case' \in [Cases -> CaseState]
  BY <1>1, <1>2, AllowBinds
<1>4. actions' \subseteq Action
  <2>1. Post(c, 1, "Adjustment", n) \subseteq Action
    BY PostType
  <2>. QED
    BY <1>2, <2>1 DEF Allow, EconomicTypeOK
<1>5. Used(p, n) \in AdjustmentState
  <2>1. Magnitude(n) \in Nat /\ PositivePart(n) \in Nat
        /\ PositivePart(-n) \in Nat
    BY DEF Magnitude, PositivePart
  <2>. QED
    BY <2>1 DEF Used, EconomicTypeOK, AdjustmentState
<1>. HIDE DEF f, o
<1>6. EconomicTypeOK'
  BY <1>2, <1>3, <1>4, <1>5 DEF EconomicTypeOK
<1>7. Draws
  BY <1>2 DEF Draws, EconomicTypeOK, SupplierState
<1>8. Uses
  BY <1>2 DEF Uses, EconomicTypeOK
<1>. QED
  BY <1>3, <1>6, <1>7, <1>8 DEF Rules

LEMMA CorrectStep ==
  ASSUME EconomicTypeOK, NEW c \in Cases, NEW r \in Nat,
         NEW n \in Terms[FamilyOf[c]].correction_atoms, NEW now,
         Correct(c, r, n, now)
  PROVE  EconomicTypeOK' /\ Rules(c)
<1>1. /\ Binds(c, r + 1, n) /\ n \in Int
      /\ family' \in [Families -> FamilyState] /\ case' \in [Cases -> CaseState]
  BY CorrectBinds
<1>2. actions' \subseteq Action
  <2>1. case[c].signed \in Int
    BY DEF EconomicTypeOK, CaseState
  <2>2. /\ Post(c, r + 1, "Inverse", -case[c].signed) \subseteq Action
        /\ Post(c, r + 1, "Replacement", n) \subseteq Action
    BY <1>1, <2>1, PostType
  <2>3. actions' = (actions \union Post(c, r + 1, "Inverse", -case[c].signed))
                     \union Post(c, r + 1, "Replacement", n)
    BY DEF Correct
  <2>. QED
    BY <2>2, <2>3 DEF EconomicTypeOK
<1>3. UNCHANGED <<supplier, pool>>
  BY DEF Correct
<1>4. EconomicTypeOK'
  BY <1>1, <1>2, <1>3 DEF EconomicTypeOK
<1>5. Draws /\ Uses
  BY <1>3 DEF Draws, Uses, EconomicTypeOK, SupplierState
<1>6. r + 1 \in Nat
  OBVIOUS
<1>. QED
  BY <1>1, <1>4, <1>5, <1>6 DEF Rules

-----------------------------------------------------------------------------
(* Closing.  The families unavailable once S is closed are the least       *)
(* stable set.                                                             *)

Stable(S, U) ==
  /\ S \union {f \in Families : family[f].unavailable} \subseteq U
  /\ \A f \in Families : Deprived(f, U) => f \in U

LEMMA LeastStable ==
  ASSUME NEW S \in SUBSET Families, NEW f \in Families
  PROVE  f \in Unavailable(S)
           <=> \A U \in SUBSET Families : Stable(S, U) => f \in U
  BY DEF Unavailable, Stable

LEMMA UnavailableFacts ==
  ASSUME NEW S \in SUBSET Families
  PROVE  /\ Unavailable(S) \in SUBSET Families
         /\ Stable(S, Unavailable(S))
<1>1. Unavailable(S) \in SUBSET Families
  BY DEF Unavailable
<1>2. S \union {f \in Families : family[f].unavailable} \subseteq Unavailable(S)
  BY LeastStable DEF Stable
<1>3. ASSUME NEW f \in Families, Deprived(f, Unavailable(S))
      PROVE  f \in Unavailable(S)
  <2>1. PICK g \in Terms[f].prerequisites : g \in Unavailable(S) /\ ~Consumed(g)
    BY <1>3 DEF Deprived
  <2>2. ASSUME NEW U \in SUBSET Families, Stable(S, U) PROVE f \in U
    <3>1. g \in U
      BY <1>1, <2>1, <2>2, LeastStable
    <3>. QED
      BY <2>1, <2>2, <3>1 DEF Stable, Deprived
  <2>. QED
    BY <2>2, LeastStable
<1>. QED
  BY <1>1, <1>2, <1>3 DEF Stable

(* A family lost without being closed is deprived of a prerequisite:       *)
(* otherwise leaving it out would leave the set stable.                    *)
LEMMA LostToPrerequisite ==
  ASSUME NEW S \in SUBSET Families, NEW f \in Unavailable(S),
         f \notin S, ~family[f].unavailable
  PROVE  Deprived(f, Unavailable(S))
<1>. SUFFICES ASSUME ~Deprived(f, Unavailable(S))
              PROVE  FALSE
  OBVIOUS
<1>. DEFINE U == Unavailable(S) \ {f}
<1>1. f \in Families /\ U \in SUBSET Families /\ f \notin U
  BY UnavailableFacts
<1>2. S \union {g \in Families : family[g].unavailable} \subseteq U
  BY UnavailableFacts DEF Stable
<1>3. ASSUME NEW h \in Families, Deprived(h, U) PROVE h \in U
  <2>1. Deprived(h, Unavailable(S))
    BY <1>3 DEF Deprived
  <2>2. h \in Unavailable(S)
    BY <2>1, UnavailableFacts DEF Stable
  <2>3. h # f
    BY <2>1
  <2>. QED
    BY <2>2, <2>3
<1>4. Stable(S, U)
  BY <1>2, <1>3 DEF Stable
<1>. HIDE DEF U
<1>. QED
  BY <1>1, <1>4, LeastStable

ReleasedState(r, x) == [r EXCEPT !.held = 0, !.released = x]

LEMMA ReleasedSupplier ==
  ASSUME NEW r \in SupplierState
  PROVE  \A x \in Nat :
           LET u == ReleasedState(r, x)
           IN /\ u \in SupplierState
              /\ u.maximum = r.maximum /\ u.consumed = r.consumed
              /\ u.held = 0 /\ u.released = x
  BY DEF SupplierState, ReleasedState

LEMMA CloseStep ==
  ASSUME EconomicTypeOK, NEW n \in Nat, NEW S \in SUBSET Families,
         NEW at \in Nat, CloseFamilies(n, S, at)
  PROVE  EconomicTypeOK' /\ Closes(n, S, at)
<1>1. /\ \A f \in S : ~family[f].closed
      /\ UNCHANGED <<case, pool, actions>>
  BY DEF CloseFamilies
<1>2. ASSUME NEW f \in Families
      PROVE  /\ family'[f] \in FamilyState
             /\ family'[f].closed <=> family[f].closed \/ f \in S
             /\ family'[f].closed_at = IF f \in S THEN at
                                       ELSE family[f].closed_at
             /\ family'[f].unavailable <=> f \in Unavailable(S)
             /\ family'[f].first_closure = FirstClosure(f, n, S)
             /\ family'[f].entitlement = family[f].entitlement
  <2>. DEFINE x == family[f].closed \/ f \in S
              t == IF f \in S THEN at ELSE family[f].closed_at
              y == f \in Unavailable(S)
              m == FirstClosure(f, n, S)
              u == [closed |-> x, unavailable |-> y, first_closure |-> m,
                    closed_at |-> t, entitlement |-> family[f].entitlement,
                    ordinary_positive |-> family[f].ordinary_positive]
  <2>1. family'[f] = u
    BY DEF CloseFamilies
  <2>2. family[f] \in FamilyState
    BY DEF EconomicTypeOK
  <2>3. x \in BOOLEAN /\ y \in BOOLEAN
    OBVIOUS
  <2>4. t \in Nat \union {Never}
    BY <2>2 DEF FamilyState
  <2>5. m \in Nat
    BY <2>2 DEF FirstClosure, FamilyState
  <2>6. u \in FamilyState
    <3>. HIDE DEF x, y, t, m
    <3>. QED
      BY <2>2, <2>3, <2>4, <2>5 DEF FamilyState
  <2>7. (u.closed <=> x) /\ (u.unavailable <=> y)
    OBVIOUS
  <2>8. u.closed_at = t /\ u.first_closure = m
        /\ u.entitlement = family[f].entitlement
    OBVIOUS
  <2>. HIDE DEF u
  <2>. QED
    BY <2>1, <2>6, <2>7, <2>8
<1>3. ASSUME NEW s \in Suppliers
      PROVE  /\ supplier'[s] \in SupplierState
             /\ IF Releases(s, S)
                THEN /\ supplier'[s].held = 0
                     /\ supplier'[s].released
                          = supplier[s].released + supplier[s].held
                     /\ supplier'[s].consumed = supplier[s].consumed
                     /\ supplier'[s].maximum = supplier[s].maximum
                ELSE supplier'[s] = supplier[s]
  <2>1. supplier[s] \in SupplierState
    BY DEF EconomicTypeOK
  <2>2. CASE Releases(s, S)
    <3>1. supplier'[s] = ReleasedState(supplier[s],
                           supplier[s].released + supplier[s].held)
      BY <2>2 DEF CloseFamilies, ReleasedState
    <3>2. supplier[s].released + supplier[s].held \in Nat
      BY <2>1 DEF SupplierState
    <3>. DEFINE x == supplier[s].released + supplier[s].held
                u == ReleasedState(supplier[s], x)
    <3>3. x \in Nat
      BY <3>2
    <3>. HIDE DEF x
    <3>4. /\ u \in SupplierState
          /\ u.maximum = supplier[s].maximum /\ u.consumed = supplier[s].consumed
          /\ u.held = 0 /\ u.released = x
      BY <2>1, <3>3, ReleasedSupplier
    <3>. HIDE DEF u
    <3>. QED
      BY <2>2, <3>1, <3>4 DEF x, u
  <2>3. CASE ~Releases(s, S)
    BY <2>1, <2>3 DEF CloseFamilies
  <2>. QED
    BY <2>2, <2>3
<1>4. family' \in [Families -> FamilyState]
  <2>1. family' = [f \in Families |-> family'[f]]
    BY DEF CloseFamilies
  <2>. QED
    BY <1>2, <2>1
<1>5. supplier' \in [Suppliers -> SupplierState]
  <2>1. supplier' = [s \in Suppliers |-> supplier'[s]]
    BY DEF CloseFamilies
  <2>. QED
    BY <1>3, <2>1
<1>6. EconomicTypeOK'
  BY <1>1, <1>4, <1>5 DEF EconomicTypeOK
<1>. QED
  BY <1>1, <1>2, <1>3, <1>6 DEF Closes

-----------------------------------------------------------------------------
(* The inductive invariant.                                                *)

\* A case pends for adjustment only where its family is unavailable.
PathInv ==
  \A c \in Cases : case[c].status = "AdjustmentPending" =>
                     family[FamilyOf[c]].unavailable

\* A closed family is unavailable, and an unavailable one names its closure.
ClosureInv ==
  \A f \in Families :
    /\ family[f].closed => family[f].unavailable
    /\ family[f].unavailable => family[f].first_closure # 0

\* Capacity is conserved.
CapacityConserved ==
  \A s \in Suppliers :
    supplier[s].held + supplier[s].consumed + supplier[s].released
      = Enrolled[s].maximum

\* No pool is used beyond its caps.
PoolsWithinCaps == \A p \in Pools : WithinCap(pool[p], PoolTerms[p])

EconomicInv ==
  /\ EconomicTypeOK /\ EntitlementIsHead /\ PathInv /\ ClosureInv
  /\ NoOrphanFamily /\ ReleasedWithLastFamily
  /\ CapacityConserved /\ PoolsWithinCaps

(* Every step is one of the effects above.                                 *)
LEMMA StepEffects ==
  ASSUME EconomicTypeOK, EconomicStep
  PROVE  /\ EconomicTypeOK'
         /\ \/ \E c \in Cases : Admits(c) \/ Denies(c) \/ Rules(c)
            \/ \E n \in Nat \ {0}, S \in SUBSET Families, at \in Nat :
                 Closes(n, S, at)
            \/ UNCHANGED economicVars
<1>1. CASE \E c \in Cases, receipt \in Receipt : Admit(c, receipt)
  BY <1>1, AdmitStep
<1>2. CASE Ruling
  <2>1. PICK c \in Cases : Decide(c) \/ CorrectSome(c)
    BY <1>2 DEF Ruling
  <2>2. CASE Decide(c)
    <3>1. PICK now \in Time :
            \/ Deny(c, now)
            \/ AllowOrdinary(c, now)
            \/ \E p \in Pools, n \in Amounts : AllowAdjustment(c, p, n, now)
      BY <2>2 DEF Decide
    <3>2. CASE Deny(c, now)
      BY <3>2, DenyStep
    <3>3. CASE AllowOrdinary(c, now)
      BY <3>3, AllowOrdinaryStep
    <3>4. CASE \E p \in Pools, n \in Amounts : AllowAdjustment(c, p, n, now)
      <4>1. PICK p \in Pools, n \in Int : AllowAdjustment(c, p, n, now)
        BY <3>4, BoundAssumption
      <4>. QED
        BY <4>1, AllowAdjustmentStep
    <3>. QED
      BY <3>1, <3>2, <3>3, <3>4
  <2>3. CASE CorrectSome(c)
    <3>1. PICK now \in Time, r \in 1..MaxRevision,
               n \in Terms[FamilyOf[c]].correction_atoms : Correct(c, r, n, now)
      BY <2>3 DEF CorrectSome
    <3>2. r \in Nat
      BY BoundAssumption
    <3>. QED
      BY <3>1, <3>2, CorrectStep
  <2>. QED
    BY <2>1, <2>2, <2>3
<1>3. CASE \E n \in Nat \ {0}, S \in SUBSET Families, at \in Nat :
             CloseFamilies(n, S, at)
  BY <1>3, CloseStep
<1>4. CASE UNCHANGED economicVars
  BY <1>4 DEF economicVars, EconomicTypeOK
<1>. QED
  BY <1>1, <1>2, <1>3, <1>4 DEF EconomicStep

(* An environment of the specification takes economic steps only.          *)
LEMMA NextIsStep ==
  ASSUME [EconomicNext]_economicVars
  PROVE  EconomicStep
<1>1. CASE Admission
  <2>1. PICK c \in Cases, t \in Time :
          Admit(c, [position |-> 1, received_at |-> t])
    BY <1>1 DEF Admission
  <2>2. [position |-> 1, received_at |-> t] \in Receipt
    BY BoundAssumption DEF Receipt, Time
  <2>. QED
    BY <2>1, <2>2 DEF EconomicStep
<1>2. CASE Closing
  <2>1. PICK S \in (SUBSET Families) \ {{}}, t \in Time :
          CloseFamilies(1 + Cardinality({f \in Families : family[f].closed}),
                        S, t)
    BY <1>2 DEF Closing
  <2>2. IsFiniteSet({f \in Families : family[f].closed})
    BY EnrollmentAssumption, FS_Subset
  <2>3. Cardinality({f \in Families : family[f].closed}) \in Nat
    BY <2>2, FS_CardinalityType
  <2>4. 1 + Cardinality({f \in Families : family[f].closed}) \in Nat \ {0}
    BY <2>3
  <2>5. t \in Nat
    BY BoundAssumption DEF Time
  <2>. QED
    BY <2>1, <2>4, <2>5 DEF EconomicStep
<1>. QED
  BY <1>1, <1>2 DEF EconomicNext, EconomicStep

LEMMA Enrollment ==
  /\ \A c \in Cases : FamilyOf[c] \in Families /\ c # NoCase
  /\ \A f \in Families : Terms[f].prerequisites \in SUBSET Families
  BY EnrollmentAssumption DEF FamilyTerms

LEMMA InitEstablishes == EconomicInit => EconomicInv
<1>. SUFFICES ASSUME EconomicInit PROVE EconomicInv
  OBVIOUS
<1>1. EconomicTypeOK
  <2>1. family \in [Families -> FamilyState]
    BY DEF EconomicInit, FamilyState, Unconsumed, EntitlementHead
  <2>2. case \in [Cases -> CaseState]
    BY DEF EconomicInit, CaseState, CaseStatus, Unadmitted, NoReceipt, Receipt
  <2>3. supplier \in [Suppliers -> SupplierState]
    BY CapacityAssumption DEF EconomicInit
  <2>4. pool \in [Pools -> AdjustmentState] /\ actions = {}
    BY DEF EconomicInit, AdjustmentState
  <2>. QED
    BY <2>1, <2>2, <2>3, <2>4 DEF EconomicTypeOK
<1>2. \A f \in Families :
        /\ ~family[f].closed /\ ~family[f].unavailable
        /\ family[f].entitlement = Unconsumed
  BY DEF EconomicInit
<1>3. \A c \in Cases : case[c].status = "none"
  BY DEF EconomicInit, Unadmitted
<1>4. EntitlementIsHead /\ PathInv /\ ClosureInv /\ NoOrphanFamily
  <2>1. EntitlementIsHead
    BY <1>2, <1>3 DEF EntitlementIsHead, Consumed
  <2>2. PathInv /\ ClosureInv
    BY <1>2, <1>3 DEF PathInv, ClosureInv
  <2>3. NoOrphanFamily
    BY <1>2, Enrollment DEF NoOrphanFamily
  <2>. QED
    BY <2>1, <2>2, <2>3
<1>5. ReleasedWithLastFamily
  <2>1. ASSUME NEW s \in Suppliers, NEW f \in FamiliesOf(s)
        PROVE  ~family[f].closed
    BY <1>2 DEF FamiliesOf
  <2>. QED
    BY <2>1 DEF ReleasedWithLastFamily, EconomicInit
<1>6. CapacityConserved
  <2>1. ASSUME NEW s \in Suppliers
        PROVE  supplier[s].held + supplier[s].consumed + supplier[s].released
                 = Enrolled[s].maximum
    <3>1. supplier[s] = Enrolled[s] /\ Enrolled[s] \in SupplierState
      BY CapacityAssumption DEF EconomicInit
    <3>. QED
      BY <3>1, CapacityAssumption DEF SupplierState
  <2>. QED
    BY <2>1 DEF CapacityConserved
<1>7. PoolsWithinCaps
  BY CapacityAssumption DEF PoolsWithinCaps, WithinCap, EconomicInit, Cap
<1>. QED
  BY <1>1, <1>4, <1>5, <1>6, <1>7 DEF EconomicInv

(* A family once closed, unavailable or consumed stays so.                 *)
LEMMA Monotone ==
  ASSUME EconomicTypeOK, EconomicStep, NEW f \in Families
  PROVE  /\ family[f].closed => family'[f].closed
         /\ family[f].unavailable => family'[f].unavailable
         /\ Consumed(f) => Consumed(f)'
<1>1. CASE \E c \in Cases : Rules(c)
  <2>1. PICK c \in Cases, r \in Nat, n \in Int : Binds(c, r, n)
    BY <1>1 DEF Rules
  <2>2. Entitlement(c, r, n) # Unconsumed
    BY Enrollment DEF Entitlement, Unconsumed
  <2>3. /\ family'[f].closed = family[f].closed
        /\ family'[f].unavailable = family[f].unavailable
        /\ family'[f].entitlement = IF f = FamilyOf[c]
                                    THEN Entitlement(c, r, n)
                                    ELSE family[f].entitlement
    BY <2>1 DEF Binds, KeepsClosure
  <2>4. Consumed(f) => Consumed(f)'
    BY <2>2, <2>3 DEF Consumed
  <2>. QED
    BY <2>3, <2>4, Zenon
<1>2. CASE \E n \in Nat \ {0}, S \in SUBSET Families, at \in Nat :
             Closes(n, S, at)
  <2>1. PICK n \in Nat \ {0}, S \in SUBSET Families, at \in Nat :
          Closes(n, S, at)
    BY <1>2
  <2>2. family[f].unavailable => f \in Unavailable(S)
    BY UnavailableFacts DEF Stable
  <2>. QED
    BY <2>1, <2>2 DEF Closes, Consumed
<1>3. CASE UNCHANGED family
  BY <1>3 DEF Consumed
<1>. QED
  BY <1>1, <1>2, <1>3, StepEffects DEF Admits, Denies, economicVars

LEMMA EntitlementStep ==
  ASSUME EconomicInv, EconomicStep
  PROVE  EntitlementIsHead'
<1>. USE DEF EconomicInv
<1>1. CASE \E c \in Cases : Admits(c) \/ Denies(c)
  <2>1. PICK c \in Cases : Admits(c) \/ Denies(c)
    BY <1>1
  <2>2. /\ case[c].status # "FinalAllow" /\ case'[c].status # "FinalAllow"
        /\ family' = family /\ \A d \in Cases \ {c} : case'[d] = case[d]
    BY <2>1 DEF Admits, Denies
  <2>. QED
    BY <2>2 DEF EntitlementIsHead, Consumed
<1>2. CASE \E c \in Cases : Rules(c)
  <2>1. PICK c \in Cases, r \in Nat, n \in Int : Binds(c, r, n)
    BY <1>2 DEF Rules
  <2>2. ASSUME NEW f \in Families, Consumed(f)'
        PROVE  LET e == family'[f].entitlement IN
               /\ e.case \in Cases /\ FamilyOf[e.case] = f
               /\ case'[e.case].status = "FinalAllow"
               /\ e.revision = case'[e.case].revision
               /\ e.signed = case'[e.case].signed
    <3>1. CASE f = FamilyOf[c]
      <4>1. family'[f].entitlement = Entitlement(c, r, n)
        BY <2>1, <3>1 DEF Binds
      <4>. QED
        BY <2>1, <3>1, <4>1 DEF Binds, Entitlement
    <3>2. CASE f # FamilyOf[c]
      <4>1. family'[f].entitlement = family[f].entitlement
        BY <2>1, <3>2 DEF Binds
      <4>2. Consumed(f)
        BY <2>2, <4>1 DEF Consumed
      <4>. QED
        BY <2>1, <3>2, <4>1, <4>2 DEF EntitlementIsHead, Binds
    <3>. QED
      BY <3>1, <3>2
  <2>3. ASSUME NEW d \in Cases, case'[d].status = "FinalAllow"
        PROVE  family'[FamilyOf[d]].entitlement.case = d
    <3>1. CASE d = c
      BY <2>1, <3>1, Enrollment DEF Binds, Entitlement
    <3>2. CASE d # c
      <4>1. family[FamilyOf[d]].entitlement.case = d
        BY <2>1, <2>3, <3>2 DEF EntitlementIsHead, Binds
      <4>2. FamilyOf[d] # FamilyOf[c]
        BY <2>1, <3>2, <4>1, Enrollment DEF Binds
      <4>. QED
        BY <2>1, <4>1, <4>2, Enrollment DEF Binds
    <3>. QED
      BY <3>1, <3>2
  <2>. QED
    BY <2>2, <2>3 DEF EntitlementIsHead
<1>3. CASE \E n \in Nat \ {0}, S \in SUBSET Families, at \in Nat :
             Closes(n, S, at)
  <2>1. /\ case' = case
        /\ \A f \in Families : family'[f].entitlement = family[f].entitlement
    BY <1>3 DEF Closes
  <2>. QED
    BY <2>1, Enrollment DEF EntitlementIsHead, Consumed
<1>4. CASE UNCHANGED economicVars
  BY <1>4 DEF economicVars, EntitlementIsHead, Consumed
<1>. QED
  BY <1>1, <1>2, <1>3, <1>4, StepEffects

LEMMA PathStep ==
  ASSUME EconomicInv, EconomicStep
  PROVE  PathInv'
<1>. SUFFICES ASSUME NEW d \in Cases, case'[d].status = "AdjustmentPending"
              PROVE  family'[FamilyOf[d]].unavailable
  BY DEF PathInv
<1>. USE DEF EconomicInv
<1>1. SUFFICES family[FamilyOf[d]].unavailable
  BY Monotone, Enrollment
<1>2. CASE \E c \in Cases : Admits(c) \/ Denies(c) \/ Rules(c)
  BY <1>2 DEF Admits, Denies, Rules, Binds, PathInv
<1>3. CASE \E n \in Nat \ {0}, S \in SUBSET Families, at \in Nat :
             Closes(n, S, at)
  BY <1>3 DEF Closes, PathInv
<1>4. CASE UNCHANGED economicVars
  BY <1>4 DEF economicVars, PathInv
<1>. QED
  BY <1>2, <1>3, <1>4, StepEffects

LEMMA ClosureStep ==
  ASSUME EconomicInv, EconomicStep
  PROVE  ClosureInv'
<1>. SUFFICES ASSUME NEW f \in Families
              PROVE  /\ family'[f].closed => family'[f].unavailable
                     /\ family'[f].unavailable => family'[f].first_closure # 0
  BY DEF ClosureInv
<1>. USE DEF EconomicInv
<1>1. CASE \E c \in Cases : Rules(c)
  BY <1>1 DEF Rules, Binds, KeepsClosure, ClosureInv
<1>2. CASE \E n \in Nat \ {0}, S \in SUBSET Families, at \in Nat :
             Closes(n, S, at)
  <2>1. PICK n \in Nat \ {0}, S \in SUBSET Families, at \in Nat :
          Closes(n, S, at)
    BY <1>2
  <2>2. /\ f \in S => f \in Unavailable(S)
        /\ family[f].unavailable => f \in Unavailable(S)
    BY UnavailableFacts DEF Stable
  <2>. QED
    BY <2>1, <2>2 DEF Closes, ClosureInv, FirstClosure
<1>3. CASE UNCHANGED family
  BY <1>3 DEF ClosureInv
<1>. QED
  BY <1>1, <1>2, <1>3, StepEffects DEF Admits, Denies, economicVars

LEMMA OrphanStep ==
  ASSUME EconomicInv, EconomicStep
  PROVE  NoOrphanFamily'
<1>. SUFFICES ASSUME NEW f \in Families
              PROVE  /\ ~family'[f].unavailable =>
                          \A g \in Terms[f].prerequisites :
                            family'[g].unavailable => Consumed(g)'
                     /\ family'[f].unavailable /\ ~family'[f].closed =>
                          \E g \in Terms[f].prerequisites :
                            family'[g].unavailable
  BY DEF NoOrphanFamily
<1>. USE DEF EconomicInv
<1>1. CASE \A g \in Families : KeepsClosure(g)
  <2>1. ASSUME ~family'[f].unavailable, NEW g \in Terms[f].prerequisites,
               family'[g].unavailable
        PROVE  Consumed(g)'
    <3>1. g \in Families
      BY Enrollment
    <3>2. Consumed(g)
      BY <1>1, <2>1, <3>1 DEF KeepsClosure, NoOrphanFamily
    <3>. QED
      BY <3>1, <3>2, Monotone
  <2>2. ASSUME family'[f].unavailable, ~family'[f].closed
        PROVE  \E g \in Terms[f].prerequisites : family'[g].unavailable
    <3>1. family[f].unavailable /\ ~family[f].closed
      BY <1>1, <2>2 DEF KeepsClosure
    <3>2. PICK g \in Terms[f].prerequisites : family[g].unavailable
      BY <3>1 DEF NoOrphanFamily
    <3>. QED
      BY <3>2, Enrollment, Monotone
  <2>. QED
    BY <2>1, <2>2
<1>2. CASE \E n \in Nat \ {0}, S \in SUBSET Families, at \in Nat :
             Closes(n, S, at)
  <2>1. PICK n \in Nat \ {0}, S \in SUBSET Families, at \in Nat :
          Closes(n, S, at)
    BY <1>2
  <2>2. \A g \in Families :
          /\ family'[g].unavailable <=> g \in Unavailable(S)
          /\ family'[g].closed <=> family[g].closed \/ g \in S
    BY <2>1 DEF Closes
  <2>3. ASSUME ~family'[f].unavailable, NEW g \in Terms[f].prerequisites,
               family'[g].unavailable
        PROVE  Consumed(g)'
    <3>1. g \in Families /\ g \in Unavailable(S) /\ f \notin Unavailable(S)
      BY <2>2, <2>3, Enrollment
    <3>2. ~Deprived(f, Unavailable(S))
      BY <3>1, UnavailableFacts DEF Stable
    <3>3. Consumed(g)
      BY <3>1, <3>2 DEF Deprived
    <3>. QED
      BY <3>1, <3>3, Monotone
  <2>4. ASSUME family'[f].unavailable, ~family'[f].closed
        PROVE  \E g \in Terms[f].prerequisites : family'[g].unavailable
    <3>1. f \in Unavailable(S) /\ f \notin S /\ ~family[f].closed
      BY <2>2, <2>4
    <3>2. CASE family[f].unavailable
      <4>1. PICK g \in Terms[f].prerequisites : family[g].unavailable
        BY <3>1, <3>2 DEF NoOrphanFamily
      <4>. QED
        BY <4>1, Enrollment, Monotone
    <3>3. CASE ~family[f].unavailable
      BY <2>2, <3>1, <3>3, LostToPrerequisite, Enrollment DEF Deprived
    <3>. QED
      BY <3>2, <3>3
  <2>. QED
    BY <2>3, <2>4
<1>3. CASE UNCHANGED family
  BY <1>1, <1>3 DEF KeepsClosure
<1>. QED
  BY <1>1, <1>2, <1>3, StepEffects DEF Admits, Denies, Rules, Binds, economicVars

LEMMA ReleaseStep ==
  ASSUME EconomicInv, EconomicStep
  PROVE  ReleasedWithLastFamily'
<1>. SUFFICES ASSUME NEW s \in Suppliers, FamiliesOf(s) # {}
              PROVE  LET done == \A f \in FamiliesOf(s) : family'[f].closed
                     IN /\ done => supplier'[s].held = 0
                        /\ supplier'[s].released # Enrolled[s].released => done
  BY DEF ReleasedWithLastFamily, FamiliesOf
<1>. USE DEF EconomicInv
<1>. DEFINE before == \A f \in FamiliesOf(s) : family[f].closed
            done == \A f \in FamiliesOf(s) : family'[f].closed
<1>0. FamiliesOf(s) \in SUBSET Families
  BY DEF FamiliesOf
<1>1. /\ before => supplier[s].held = 0
      /\ supplier[s].released # Enrolled[s].released => before
  BY DEF ReleasedWithLastFamily
<1>2. before => done
  BY <1>0, Monotone
<1>3. CASE \E c \in Cases : Rules(c)
  <2>1. \A f \in Families : family'[f].closed = family[f].closed
    BY <1>3 DEF Rules, Binds, KeepsClosure
  <2>2. done => before
    BY <1>0, <2>1
  <2>3. supplier'[s].held <= supplier[s].held
        /\ supplier'[s].released = supplier[s].released
    BY <1>3 DEF Rules, Draws
  <2>4. supplier'[s].held \in Nat
    BY StepEffects DEF EconomicTypeOK, SupplierState
  <2>. QED
    BY <1>1, <1>2, <2>2, <2>3, <2>4
<1>4. CASE \E n \in Nat \ {0}, S \in SUBSET Families, at \in Nat :
             Closes(n, S, at)
  <2>1. PICK n \in Nat \ {0}, S \in SUBSET Families, at \in Nat :
          Closes(n, S, at)
    BY <1>4
  <2>2. \A f \in FamiliesOf(s) :
          family'[f].closed <=> family[f].closed \/ f \in S
    BY <1>0, <2>1 DEF Closes
  <2>3. CASE Releases(s, S)
    <3>1. done /\ supplier'[s].held = 0
      BY <2>1, <2>2, <2>3 DEF Closes, Releases
    <3>. QED
      BY <3>1
  <2>4. CASE ~Releases(s, S)
    <3>1. supplier'[s] = supplier[s]
      BY <2>1, <2>4 DEF Closes
    <3>2. done => before
      BY <2>2, <2>4 DEF Releases
    <3>. QED
      BY <1>1, <1>2, <3>1, <3>2
  <2>. QED
    BY <2>3, <2>4
<1>5. CASE UNCHANGED <<family, supplier>>
  BY <1>1, <1>5
<1>. QED
  BY <1>3, <1>4, <1>5, StepEffects DEF Admits, Denies, economicVars

LEMMA CapacityStep ==
  ASSUME EconomicInv, EconomicStep
  PROVE  CapacityConserved' /\ PoolsWithinCaps'
<1>. USE DEF EconomicInv
<1>1. ASSUME NEW s \in Suppliers
      PROVE  supplier'[s].held + supplier'[s].consumed + supplier'[s].released
               = Enrolled[s].maximum
  <2>1. /\ supplier[s] \in SupplierState /\ supplier'[s] \in SupplierState
        /\ supplier[s].held + supplier[s].consumed + supplier[s].released
             = Enrolled[s].maximum
    BY StepEffects DEF EconomicTypeOK, CapacityConserved
  <2>2. CASE \E c \in Cases : Rules(c)
    BY <2>1, <2>2 DEF Rules, Draws, SupplierState
  <2>3. CASE \E n \in Nat \ {0}, S \in SUBSET Families, at \in Nat :
               Closes(n, S, at)
    BY <2>1, <2>3 DEF Closes, SupplierState
  <2>4. CASE UNCHANGED supplier
    BY <2>1, <2>4
  <2>. QED
    BY <2>2, <2>3, <2>4, StepEffects DEF Admits, Denies, economicVars
<1>2. PoolsWithinCaps'
  <2>1. Uses
    BY StepEffects DEF Admits, Denies, Rules, Closes, economicVars, Uses
  <2>. QED
    BY <2>1 DEF Uses, PoolsWithinCaps
<1>. QED
  BY <1>1, <1>2 DEF CapacityConserved

(* The invariant is kept by every step of any environment.                 *)
LEMMA EconomicInvStep ==
  ASSUME EconomicInv, EconomicStep
  PROVE  EconomicInv'
<1>1. EconomicTypeOK'
  BY StepEffects DEF EconomicInv
<1>. QED
  BY <1>1, EntitlementStep, PathStep, ClosureStep, OrphanStep, ReleaseStep,
     CapacityStep DEF EconomicInv

LEMMA EconomicInvariance == EconomicSpec => []EconomicInv
<1>1. EconomicInv /\ [EconomicNext]_economicVars => EconomicInv'
  BY NextIsStep, EconomicInvStep
<1>. QED
  BY <1>1, InitEstablishes, PTL DEF EconomicSpec

-----------------------------------------------------------------------------
(* Theorems.                                                               *)

(* Every value the commands leave has its type, for any enrollment: counts *)
(* of capacity and use never go below zero (the assignments of DECIDE,     *)
(* CORRECT, IMPORT and close).                                             *)
THEOREM EconomicTypes == EconomicSpec => []EconomicTypeOK
  BY EconomicInvariance, PTL DEF EconomicInv

(* A family's entitlement names the one case allowed in it, at the         *)
(* revision and with the amount that case has now (consume in DECIDE and   *)
(* CORRECT), however many cases race for however many families.            *)
THEOREM EntitlementTheorem == EconomicSpec => []EntitlementIsHead
  BY EconomicInvariance, PTL DEF EconomicInv

(* A pending case is always on the path its family allows                  *)
(* (effective_status and the status IMPORT admits it with).                *)
THEOREM PathTheorem == EconomicSpec => []NoStrandedCase
<1>1. EconomicInv => NoStrandedCase
  BY Enrollment DEF EconomicInv, PathInv, NoStrandedCase, EffectiveStatus
<1>. QED
  BY <1>1, EconomicInvariance, PTL

(* A family still available can still be decided, and one lost without     *)
(* being closed has lost a prerequisite, for any graph of prerequisites    *)
(* (the loop of close).                                                    *)
THEOREM OrphanTheorem == EconomicSpec => []NoOrphanFamily
  BY EconomicInvariance, PTL DEF EconomicInv

(* Capacity is released exactly with the last family of its supplier       *)
(* (close).                                                                *)
THEOREM ReleaseTheorem == EconomicSpec => []ReleasedWithLastFamily
  BY EconomicInvariance, PTL DEF EconomicInv

(* No decision, correction or closure reopens a family, moves its closing  *)
(* time or replaces the closure that first made it unavailable.            *)
THEOREM ClosureTheorem == EconomicSpec => ClosureIsFinal
<1>1. ASSUME EconomicInv, [EconomicNext]_economicVars, NEW f \in Families
      PROVE  /\ family[f].closed =>
                  /\ family'[f].closed
                  /\ family'[f].closed_at = family[f].closed_at
             /\ family[f].unavailable =>
                  /\ family'[f].unavailable
                  /\ family'[f].first_closure = family[f].first_closure
  <2>. USE DEF EconomicInv
  <2>1. EconomicStep
    BY <1>1, NextIsStep
  <2>2. /\ family[f].closed => family'[f].closed
        /\ family[f].unavailable => family'[f].unavailable
    BY <1>1, <2>1, Monotone
  <2>3. /\ family[f].closed => family'[f].closed_at = family[f].closed_at
        /\ family[f].unavailable =>
             family'[f].first_closure = family[f].first_closure
    <3>1. CASE \E c \in Cases : Rules(c)
      BY <3>1 DEF Rules, Binds, KeepsClosure
    <3>2. CASE \E n \in Nat \ {0}, S \in SUBSET Families, at \in Nat :
                 Closes(n, S, at)
      BY <1>1, <3>2 DEF Closes, FirstClosure, ClosureInv
    <3>3. CASE UNCHANGED family
      BY <3>3
    <3>. QED
      BY <1>1, <2>1, <3>1, <3>2, <3>3, StepEffects DEF Admits, Denies,
         economicVars
  <2>. QED
    BY <2>2, <2>3
<1>2. EconomicInv /\ [EconomicNext]_economicVars =>
        [\A f \in Families :
           /\ family[f].closed => family'[f].closed
                                  /\ family'[f].closed_at = family[f].closed_at
           /\ family[f].unavailable =>
                /\ family'[f].unavailable
                /\ family'[f].first_closure = family[f].first_closure
        ]_economicVars
  BY <1>1
<1>. QED
  BY <1>2, EconomicInvariance, PTL DEF EconomicSpec, ClosureIsFinal

-----------------------------------------------------------------------------
(* The books.  What the commands post, in terms of sums over the actions.  *)

Quiet(c) ==
  \/ case'[c] = case[c]
  \/ /\ case[c].status # "FinalAllow" /\ case'[c].status # "FinalAllow"
     /\ case'[c].signed \in {0, case[c].signed}

\* Admissions, denials and closings: nothing is posted.
PostsNothing ==
  /\ UNCHANGED <<pool, actions>>
  /\ \A c \in Cases : Quiet(c)
  /\ \A f \in Families :
       /\ family'[f].entitlement = family[f].entitlement
       /\ family'[f].ordinary_positive = family[f].ordinary_positive
  /\ \A s \in Suppliers : supplier'[s].consumed = supplier[s].consumed

\* An ALLOW of case c.
Allows(c, kind, n, positive) ==
  /\ case[c].status # "FinalAllow" /\ ~Consumed(FamilyOf[c])
  /\ case'[c].status = "FinalAllow"
  /\ case'[c].revision = 1 /\ case'[c].signed = n
  /\ \A d \in Cases \ {c} : case'[d] = case[d]
  /\ \A f \in Families :
       IF f = FamilyOf[c]
       THEN /\ family'[f].entitlement # Unconsumed
            /\ family'[f].ordinary_positive = positive
       ELSE family'[f] = family[f]
  /\ actions' = actions \union Post(c, 1, kind, n)

AllowsRetail(c) ==
  LET n == Terms[FamilyOf[c]].ordinary_atoms IN
  /\ Terms[FamilyOf[c]].book = "Retail"
  /\ Allows(c, "Ordinary", n, PositivePart(n))
  /\ OrdinaryTotal + PositivePart(n) <= PremiumCap
  /\ UNCHANGED <<pool, supplier>>

AllowsSupplier(c) ==
  LET n == Terms[FamilyOf[c]].ordinary_atoms IN
  /\ Terms[FamilyOf[c]].book = "Supplier"
  /\ Allows(c, "Ordinary", n, 0)
  /\ \A s \in Suppliers :
       supplier'[s].consumed = IF s = Terms[FamilyOf[c]].supplier_pool
                               THEN supplier[s].consumed + n
                               ELSE supplier[s].consumed
  /\ UNCHANGED pool

Adjusts(c, p, n) ==
  /\ Allows(c, "Adjustment", n, family[FamilyOf[c]].ordinary_positive)
  /\ \A q \in Pools :
       pool'[q].gross_used = IF q = p THEN pool[q].gross_used + Magnitude(n)
                             ELSE pool[q].gross_used
  /\ UNCHANGED supplier

Corrects(c, r, n) ==
  /\ case[c].status = "FinalAllow" /\ case[c].revision = r
  /\ case'[c].status = "FinalAllow"
  /\ case'[c].revision = r + 1 /\ case'[c].signed = n
  /\ \A d \in Cases \ {c} : case'[d] = case[d]
  /\ \A f \in Families :
       /\ Consumed(f) <=> family'[f].entitlement # Unconsumed
       /\ family'[f].ordinary_positive = family[f].ordinary_positive
  /\ actions' = (actions \union Post(c, r + 1, "Inverse", -case[c].signed))
                  \union Post(c, r + 1, "Replacement", n)
  /\ UNCHANGED <<pool, supplier>>

LEMMA AllowEffect ==
  ASSUME EconomicTypeOK, NEW c \in Cases, NEW kind, NEW n \in Int,
         NEW p \in Nat, Allow(c, kind, n, p), ~Consumed(FamilyOf[c]),
         case[c].status # "FinalAllow"
  PROVE  Allows(c, kind, n, p)
<1>. DEFINE f == FamilyOf[c]
            e == Entitlement(c, 1, n)
            u == Ruled(case[c], "FinalAllow", 1, n)
            q == Consuming(family[f], e, p)
<1>1. f \in Families /\ e \in EntitlementHead /\ e # Unconsumed
  BY EnrollmentAssumption DEF Entitlement, EntitlementHead, Unconsumed
<1>2. u.status = "FinalAllow" /\ u.revision = 1 /\ u.signed = n
  BY RuledCase DEF EconomicTypeOK, CaseStatus
<1>3. q.entitlement = e /\ q.ordinary_positive = p
  BY <1>1 DEF EconomicTypeOK, FamilyState, Consuming
<1>4. case' = [case EXCEPT ![c] = u] /\ family' = [family EXCEPT ![f] = q]
  BY DEF Allow, Ruled, Consuming
<1>. HIDE DEF u, q, f, e
<1>5. case'[c] = u /\ \A d \in Cases \ {c} : case'[d] = case[d]
  BY <1>4 DEF EconomicTypeOK
<1>6. family'[f] = q /\ \A g \in Families \ {f} : family'[g] = family[g]
  BY <1>1, <1>4 DEF EconomicTypeOK
<1>7. actions' = actions \union Post(c, 1, kind, n)
  BY DEF Allow
<1>. QED
  BY <1>1, <1>2, <1>3, <1>5, <1>6, <1>7 DEF Allows, f

LEMMA OrdinaryEffect ==
  ASSUME EconomicTypeOK, NEW c \in Cases, NEW now, AllowOrdinary(c, now)
  PROVE  AllowsRetail(c) \/ AllowsSupplier(c)
<1>. DEFINE f == FamilyOf[c]
            n == Terms[f].ordinary_atoms
            s == Terms[f].supplier_pool
<1>1. f \in Families /\ n \in Int /\ PositivePart(n) \in Nat
  BY EnrollmentAssumption DEF FamilyTerms, PositivePart
<1>2. UNCHANGED pool /\ ~Consumed(f) /\ case[c].status # "FinalAllow"
  BY DEF AllowOrdinary, Decidable, EffectiveStatus
<1>3. CASE Terms[f].book = "Retail" /\ AllowRetail(c, n)
  <2>1. Allows(c, "Ordinary", n, PositivePart(n))
    BY <1>1, <1>2, <1>3, AllowEffect DEF AllowRetail
  <2>. QED
    BY <1>2, <1>3, <2>1 DEF AllowRetail, AllowsRetail
<1>4. CASE Terms[f].book = "Supplier" /\ AllowSupplier(c, n, s)
  <2>1. Allows(c, "Ordinary", n, 0)
    BY <1>1, <1>2, <1>4, AllowEffect DEF AllowSupplier
  <2>2. supplier' = [supplier EXCEPT ![s].held = @ - n, ![s].consumed = @ + n]
    BY <1>4 DEF AllowSupplier
  <2>3. ASSUME NEW t \in Suppliers
        PROVE  supplier'[t].consumed = IF t = s THEN supplier[t].consumed + n
                                       ELSE supplier[t].consumed
    BY <2>2 DEF EconomicTypeOK, SupplierState
  <2>. QED
    BY <1>2, <1>4, <2>1, <2>3 DEF AllowsSupplier
<1>. QED
  BY <1>3, <1>4 DEF AllowOrdinary

LEMMA AdjustmentEffect ==
  ASSUME EconomicTypeOK, NEW c \in Cases, NEW p \in Pools, NEW n \in Int,
         NEW now, AllowAdjustment(c, p, n, now)
  PROVE  Adjusts(c, p, n)
<1>. DEFINE o == family[FamilyOf[c]].ordinary_positive
<1>1. o \in Nat
  BY EnrollmentAssumption DEF EconomicTypeOK, FamilyState
<1>2. /\ ~Consumed(FamilyOf[c]) /\ UNCHANGED supplier
      /\ Allow(c, "Adjustment", n, o)
      /\ pool' = [pool EXCEPT ![p] = Used(p, n)]
      /\ case[c].status # "FinalAllow"
  BY DEF AllowAdjustment, Decidable, EffectiveStatus
<1>3. Allows(c, "Adjustment", n, o)
  BY <1>1, <1>2, AllowEffect
<1>4. Used(p, n).gross_used = pool[p].gross_used + Magnitude(n)
  BY DEF Used
<1>5. \A q \in Pools :
        pool'[q].gross_used = IF q = p THEN pool[q].gross_used + Magnitude(n)
                              ELSE pool[q].gross_used
  BY <1>2, <1>4 DEF EconomicTypeOK
<1>. QED
  BY <1>2, <1>3, <1>5 DEF Adjusts

LEMMA CorrectEffect ==
  ASSUME EconomicTypeOK, EntitlementIsHead, NEW c \in Cases, NEW r \in Nat,
         NEW n \in Terms[FamilyOf[c]].correction_atoms, NEW now,
         Correct(c, r, n, now)
  PROVE  Corrects(c, r, n) /\ n \in Int
<1>. DEFINE f == FamilyOf[c]
            e == Entitlement(c, r + 1, n)
            u == Revised(case[c], r + 1, n)
            q == [family[f] EXCEPT !.entitlement = e]
<1>1. f \in Families /\ n \in Int /\ r + 1 \in Nat
      /\ e \in EntitlementHead /\ e # Unconsumed
  BY EnrollmentAssumption DEF Entitlement, EntitlementHead, FamilyTerms, Unconsumed
<1>2. u.status = case[c].status /\ u.revision = r + 1 /\ u.signed = n
  BY <1>1, RevisedCase DEF EconomicTypeOK
<1>3. /\ q.entitlement = e
      /\ q.ordinary_positive = family[f].ordinary_positive
  BY <1>1 DEF EconomicTypeOK, FamilyState
<1>4. /\ case' = [case EXCEPT ![c] = u] /\ family' = [family EXCEPT ![f] = q]
      /\ case[c].status = "FinalAllow" /\ case[c].revision = r
      /\ family[f].entitlement.case = c
      /\ actions' = (actions \union Post(c, r + 1, "Inverse", -case[c].signed))
                      \union Post(c, r + 1, "Replacement", n)
      /\ UNCHANGED <<supplier, pool>>
  BY DEF Correct, Revised
<1>5. Consumed(f)
  BY <1>4, Enrollment DEF Consumed, Unconsumed
<1>. HIDE DEF u, q, f, e
<1>6. case'[c] = u /\ \A d \in Cases \ {c} : case'[d] = case[d]
  BY <1>4 DEF EconomicTypeOK
<1>7. family'[f] = q /\ \A g \in Families \ {f} : family'[g] = family[g]
  BY <1>1, <1>4 DEF EconomicTypeOK
<1>8. \A g \in Families :
        /\ Consumed(g) <=> family'[g].entitlement # Unconsumed
        /\ family'[g].ordinary_positive = family[g].ordinary_positive
  BY <1>1, <1>3, <1>5, <1>7 DEF Consumed
<1>. QED
  BY <1>1, <1>2, <1>4, <1>6, <1>8 DEF Corrects

\* Every step posts what one of these commands posts.
LEMMA BooksEffects ==
  ASSUME EconomicInv, EconomicStep
  PROVE  \/ PostsNothing
         \/ \E c \in Cases : AllowsRetail(c) \/ AllowsSupplier(c)
         \/ \E c \in Cases, p \in Pools, n \in Int : Adjusts(c, p, n)
         \/ \E c \in Cases, r \in Nat, n \in Int : Corrects(c, r, n)
<1>. USE DEF EconomicInv
<1>1. CASE \E c \in Cases, receipt \in Receipt : Admit(c, receipt)
  <2>1. PICK c \in Cases, receipt \in Receipt : Admit(c, receipt)
    BY <1>1
  <2>2. /\ UNCHANGED <<family, supplier, pool, actions>>
        /\ case[c].status = "none"
        /\ case' = [case EXCEPT ![c] =
             [status |-> IF family[FamilyOf[c]].unavailable
                         THEN "AdjustmentPending" ELSE "OrdinaryPending",
              receipt |-> receipt, revision |-> 0, signed |-> 0]]
    BY <2>1 DEF Admit
  <2>3. \A d \in Cases : Quiet(d)
    BY <2>2 DEF Quiet, EconomicTypeOK
  <2>. QED
    BY <2>2, <2>3 DEF PostsNothing
<1>2. CASE Ruling
  <2>1. PICK c \in Cases : Decide(c) \/ CorrectSome(c)
    BY <1>2 DEF Ruling
  <2>2. CASE Decide(c)
    <3>1. PICK now \in Time :
            \/ Deny(c, now)
            \/ AllowOrdinary(c, now)
            \/ \E p \in Pools, n \in Amounts : AllowAdjustment(c, p, n, now)
      BY <2>2 DEF Decide
    <3>2. CASE Deny(c, now)
      <4>1. /\ UNCHANGED <<family, supplier, pool, actions>>
            /\ case[c].status # "FinalAllow"
            /\ case' = [case EXCEPT ![c].status = "FinalDeny"]
        BY <3>2 DEF Deny, Decidable, EffectiveStatus
      <4>2. \A d \in Cases : Quiet(d)
        BY <4>1 DEF Quiet, EconomicTypeOK, CaseState
      <4>. QED
        BY <4>1, <4>2 DEF PostsNothing
    <3>3. CASE AllowOrdinary(c, now)
      BY <3>3, OrdinaryEffect
    <3>4. CASE \E p \in Pools, n \in Amounts : AllowAdjustment(c, p, n, now)
      <4>1. PICK p \in Pools, n \in Int : AllowAdjustment(c, p, n, now)
        BY <3>4, BoundAssumption
      <4>. QED
        BY <4>1, AdjustmentEffect
    <3>. QED
      BY <3>1, <3>2, <3>3, <3>4
  <2>3. CASE CorrectSome(c)
    <3>1. PICK now \in Time, r \in 1..MaxRevision,
               n \in Terms[FamilyOf[c]].correction_atoms : Correct(c, r, n, now)
      BY <2>3 DEF CorrectSome
    <3>2. r \in Nat
      BY BoundAssumption
    <3>. QED
      BY <3>1, <3>2, CorrectEffect
  <2>. QED
    BY <2>1, <2>2, <2>3
<1>3. CASE \E n \in Nat \ {0}, S \in SUBSET Families, at \in Nat :
             CloseFamilies(n, S, at)
  <2>1. PICK n \in Nat \ {0}, S \in SUBSET Families, at \in Nat :
          CloseFamilies(n, S, at)
    BY <1>3
  <2>2. UNCHANGED <<case, pool, actions>>
    BY <2>1 DEF CloseFamilies
  <2>3. \A f \in Families :
          /\ family'[f].entitlement = family[f].entitlement
          /\ family'[f].ordinary_positive = family[f].ordinary_positive
    BY <2>1 DEF CloseFamilies
  <2>4. \A s \in Suppliers : supplier'[s].consumed = supplier[s].consumed
    BY <2>1, CloseStep DEF Closes
  <2>. QED
    BY <2>2, <2>3, <2>4 DEF PostsNothing, Quiet
<1>4. CASE UNCHANGED economicVars
  BY <1>4 DEF economicVars, PostsNothing, Quiet
<1>. QED
  BY <1>1, <1>2, <1>3, <1>4 DEF EconomicStep

-----------------------------------------------------------------------------
(* Sums over actions.  The weights are functions on all actions, so that a  *)
(* sum changes only with the set it is taken over.                         *)

Signed == [a \in Action |-> a.signed_atoms]
Magnitudes == [a \in Action |-> Magnitude(a.signed_atoms)]
Positives == [a \in Action |-> PositivePart(a.signed_atoms)]

LEMMA WeightTypes ==
  \A a \in Action :
    /\ Signed[a] = a.signed_atoms /\ Signed[a] \in Int
    /\ Magnitudes[a] = Magnitude(a.signed_atoms) /\ Magnitudes[a] \in Int
    /\ Positives[a] = PositivePart(a.signed_atoms) /\ Positives[a] \in Int
<1>1. \A a \in Action : a.signed_atoms \in Int
  BY DEF Action
<1>. QED
  BY <1>1 DEF Signed, Magnitudes, Positives, Magnitude, PositivePart

LEMMA Weigh ==
  ASSUME NEW A \in SUBSET Action, IsFiniteSet(A)
  PROVE  /\ Total(A) = SumOver(Signed, A)
         /\ SumOver([a \in A |-> Magnitude(a.signed_atoms)], A)
              = SumOver(Magnitudes, A)
         /\ SumOver([a \in A |-> PositivePart(a.signed_atoms)], A)
              = SumOver(Positives, A)
<1>1. \A a \in A : [b \in A |-> b.signed_atoms][a] = Signed[a]
  BY WeightTypes
<1>2. \A a \in A : [b \in A |-> Magnitude(b.signed_atoms)][a] = Magnitudes[a]
  BY WeightTypes
<1>3. \A a \in A : [b \in A |-> PositivePart(b.signed_atoms)][a] = Positives[a]
  BY WeightTypes
<1>4. Total(A) = SumOver(Signed, A)
  BY <1>1, SumCong DEF Total
<1>5. SumOver([a \in A |-> Magnitude(a.signed_atoms)], A) = SumOver(Magnitudes, A)
  BY <1>2, SumCong
<1>6. SumOver([a \in A |-> PositivePart(a.signed_atoms)], A)
        = SumOver(Positives, A)
  BY <1>3, SumCong
<1>. QED
  BY <1>4, <1>5, <1>6

ActionKind == {"Ordinary", "Adjustment", "Inverse", "Replacement"}

ActionSet(A) == A \in SUBSET Action /\ IsFiniteSet(A)

\* A and one more posting.
With(A, c, r, kind, n) == A \union Post(c, r, kind, n)

\* A has nothing of this kind for this revision of the case.
Unposted(A, c, r, kind) ==
  \A a \in A : ~(a.case = c /\ a.revision = r /\ a.kind = kind)

\* The weights w count an action of n atoms as v.
CountsAs(w, n, v) ==
  /\ \A a \in Action : w[a] \in Int
  /\ v \in Int /\ (n = 0 => v = 0)
  /\ \A a \in Action : a.signed_atoms = n => w[a] = v

LEMMA Counting ==
  ASSUME NEW n \in Int
  PROVE  /\ CountsAs(Signed, n, n)
         /\ CountsAs(Magnitudes, n, Magnitude(n))
         /\ CountsAs(Positives, n, PositivePart(n))
  BY WeightTypes DEF CountsAs, Magnitude, PositivePart

\* What one posting adds to a sum over a set that does not hold it yet.
LEMMA PostAdds ==
  ASSUME NEW A, ActionSet(A),
         NEW c \in Cases, NEW r \in Nat, NEW n \in Int, NEW kind \in ActionKind,
         Unposted(A, c, r, kind), NEW w, NEW v, CountsAs(w, n, v)
  PROVE  /\ ActionSet(With(A, c, r, kind, n))
         /\ SumOver(w, With(A, c, r, kind, n)) = SumOver(w, A) + v
<1>. USE DEF ActionSet, CountsAs, Unposted
<1>0. SumOver(w, A) \in Int
  BY SumType
<1>1. CASE n = 0
  <2>. DEFINE B == A \union Post(c, r, kind, n)
  <2>1. B = A
    BY <1>1 DEF Post
  <2>2. v = 0
    BY <1>1
  <2>. HIDE DEF B
  <2>3. SumOver(w, B) = SumOver(w, A)
    BY <2>1, Zenon
  <2>4. ActionSet(B)
    BY <2>1, Zenon
  <2>5. SumOver(w, B) = SumOver(w, A) + v
    BY <1>0, <2>2, <2>3
  <2>. QED
    BY <2>4, <2>5 DEF B, With
<1>2. CASE n # 0
  <2>. DEFINE a == [case |-> c, revision |-> r, kind |-> kind, signed_atoms |-> n]
  <2>1. a \in Action /\ a.signed_atoms = n
    BY DEF Action, ActionKind
  <2>2. a \notin A
    BY DEF ActionKind
  <2>3. Post(c, r, kind, n) = {a}
    BY <1>2 DEF Post
  <2>. HIDE DEF a
  <2>4. IsFiniteSet(A \union {a})
    BY FS_AddElement
  <2>5. SumOver(w, A \union {a}) = SumOver(w, A) + w[a]
    BY <2>1, <2>2, SumAdd
  <2>6. w[a] = v
    BY <2>1
  <2>7. ActionSet(A \union {a})
    BY <2>1, <2>4
  <2>8. With(A, c, r, kind, n) = A \union {a}
    BY <2>3, Zenon DEF With
  <2>9. SumOver(w, With(A, c, r, kind, n)) = SumOver(w, A) + v
    BY <2>5, <2>6, <2>8, Zenon
  <2>. HIDE DEF ActionSet
  <2>. QED
    BY <2>7, <2>8, <2>9, Zenon
<1>. QED
  BY <1>1, <1>2

LEMMA PostedOf ==
  ASSUME NEW c, NEW r, NEW kind, NEW n, NEW a \in Post(c, r, kind, n)
  PROVE  /\ a.case = c /\ a.revision = r /\ a.kind = kind
         /\ a.signed_atoms = n /\ n # 0
  BY DEF Post

-----------------------------------------------------------------------------
(* The invariant of the books.                                             *)

\* Every action is of an allowed case, at a revision it has reached.
ActionsInv ==
  /\ IsFiniteSet(actions)
  /\ \A a \in actions : /\ case[a.case].status = "FinalAllow"
                        /\ a.revision <= case[a.case].revision

Nets == \A c \in Cases : SumOver(Signed, Posted(c)) = case[c].signed

ConsumedPosted ==
  \A s \in Suppliers :
    supplier[s].consumed
      = Enrolled[s].consumed + SumOver(Signed, OrdinaryActions(FamiliesOf(s)))

AdjustmentActions == {a \in actions : a.kind = "Adjustment"}
Gross == [p \in Pools |-> pool[p].gross_used]
GrossPosted == SumOver(Gross, Pools) = SumOver(Magnitudes, AdjustmentActions)

Retail == {f \in Families : Terms[f].book = "Retail"}
PremiumInv ==
  /\ \A f \in Families : ~Consumed(f) => family[f].ordinary_positive = 0
  /\ SumOver(Positives, OrdinaryActions(Retail)) = OrdinaryTotal
  /\ OrdinaryTotal <= PremiumCap

PostingInv ==
  /\ ActionsInv /\ Nets /\ ConsumedPosted /\ GrossPosted /\ PremiumInv

LEMMA Selections ==
  ASSUME EconomicTypeOK, IsFiniteSet(actions), NEW A \in SUBSET actions
  PROVE  A \in SUBSET Action /\ IsFiniteSet(A)
  BY FS_Subset DEF EconomicTypeOK

LEMMA PostingInit == EconomicInit => PostingInv
<1>. SUFFICES ASSUME EconomicInit PROVE PostingInv
  OBVIOUS
<1>1. actions = {} /\ IsFiniteSet(actions)
  BY FS_EmptySet DEF EconomicInit
<1>2. ActionsInv
  BY <1>1 DEF ActionsInv
<1>3. Nets
  <2>1. ASSUME NEW c \in Cases
        PROVE  SumOver(Signed, Posted(c)) = case[c].signed
    <3>1. Posted(c) = {}
      BY <1>1 DEF Posted
    <3>2. case[c].signed = 0
      BY DEF EconomicInit, Unadmitted
    <3>. QED
      BY <3>1, <3>2, SumEmpty
  <2>. QED
    BY <2>1 DEF Nets
<1>4. ConsumedPosted
  <2>1. ASSUME NEW s \in Suppliers
        PROVE  supplier[s].consumed = Enrolled[s].consumed
                 + SumOver(Signed, OrdinaryActions(FamiliesOf(s)))
    <3>1. OrdinaryActions(FamiliesOf(s)) = {}
      BY <1>1 DEF OrdinaryActions
    <3>2. SumOver(Signed, OrdinaryActions(FamiliesOf(s))) = 0
      BY <3>1, SumEmpty
    <3>3. supplier[s] = Enrolled[s] /\ Enrolled[s].consumed \in Nat
      BY CapacityAssumption DEF EconomicInit, SupplierState
    <3>. QED
      BY <3>2, <3>3
  <2>. QED
    BY <2>1 DEF ConsumedPosted
<1>5. GrossPosted
  <2>1. AdjustmentActions = {}
    BY <1>1 DEF AdjustmentActions
  <2>2. \A p \in Pools : Gross[p] = 0
    BY DEF EconomicInit, Gross
  <2>3. SumOver(Gross, Pools) = 0
    BY <2>2, CapacityAssumption, SumZero
  <2>4. SumOver(Magnitudes, AdjustmentActions) = 0
    BY <2>1, SumEmpty
  <2>. QED
    BY <2>3, <2>4 DEF GrossPosted
<1>6. PremiumInv
  <2>1. OrdinaryActions(Retail) = {}
    BY <1>1 DEF OrdinaryActions
  <2>2. \A f \in Families : family[f].ordinary_positive = 0
    BY DEF EconomicInit
  <2>. DEFINE g == [f \in Families |-> family[f].ordinary_positive]
  <2>3. \A f \in Families : g[f] = 0
    BY <2>2
  <2>. HIDE DEF g
  <2>4. SumOver(g, Families) = 0
    BY <2>3, EnrollmentAssumption, SumZero
  <2>5. OrdinaryTotal = 0
    BY <2>4 DEF OrdinaryTotal, g
  <2>6. SumOver(Positives, OrdinaryActions(Retail)) = 0
    BY <2>1, SumEmpty
  <2>. QED
    BY <2>2, <2>5, <2>6, CapacityAssumption DEF PremiumInv
<1>. QED
  BY <1>2, <1>3, <1>4, <1>5, <1>6 DEF PostingInv

\* What an ALLOW posts is new: its case had posted nothing.
LEMMA AllowsNew ==
  ASSUME EconomicTypeOK, ActionsInv, NEW c \in Cases, NEW kind, NEW n, NEW x,
         Allows(c, kind, n, x)
  PROVE  \A a \in actions : a.case # c
  BY DEF ActionsInv, Allows

\* What a correction posts is new: the revision had not been reached.
LEMMA CorrectsNew ==
  ASSUME EconomicTypeOK, ActionsInv, NEW c \in Cases, NEW r \in Nat, NEW n,
         Corrects(c, r, n)
  PROVE  \A a \in actions : a.case = c => a.revision # r + 1
<1>1. \A a \in actions : a.revision \in Nat
  BY DEF EconomicTypeOK, Action
<1>. QED
  BY <1>1 DEF ActionsInv, Corrects

LEMMA QuietBooks ==
  ASSUME EconomicInv, PostingInv, PostsNothing
  PROVE  PostingInv'
<1>. USE DEF EconomicInv, PostingInv
<1>1. actions' = actions /\ pool' = pool
  BY DEF PostsNothing
<1>2. ActionsInv'
  <2>1. \A a \in actions : a.case \in Cases
    BY DEF EconomicTypeOK, Action
  <2>. QED
    BY <1>1, <2>1 DEF ActionsInv, PostsNothing, Quiet
<1>3. Nets'
  <2>1. ASSUME NEW c \in Cases
        PROVE  SumOver(Signed, Posted(c)') = case'[c].signed
    <3>1. Posted(c)' = Posted(c)
      BY <1>1 DEF Posted
    <3>2. SumOver(Signed, Posted(c)) = case[c].signed
      BY DEF Nets
    <3>3. CASE case'[c] = case[c]
      BY <3>1, <3>2, <3>3
    <3>4. CASE case'[c] # case[c]
      <4>1. case[c].status # "FinalAllow" /\ case'[c].signed \in {0, case[c].signed}
        BY <3>4 DEF PostsNothing, Quiet
      <4>2. Posted(c) = {}
        BY <4>1 DEF Posted, ActionsInv
      <4>3. SumOver(Signed, Posted(c)) = 0
        BY <4>2, SumEmpty
      <4>. QED
        BY <3>1, <3>2, <4>1, <4>3
    <3>. QED
      BY <3>3, <3>4
  <2>. QED
    BY <2>1 DEF Nets
<1>4. ConsumedPosted'
  BY <1>1 DEF ConsumedPosted, PostsNothing, OrdinaryActions, FamiliesOf
<1>5. GrossPosted'
  BY <1>1 DEF GrossPosted, Gross, AdjustmentActions
<1>6. PremiumInv'
  <2>1. OrdinaryTotal' = OrdinaryTotal
    <3>. DEFINE g == [f \in Families |-> family[f].ordinary_positive]
                h == [f \in Families |-> family'[f].ordinary_positive]
    <3>1. \A f \in Families : g[f] = h[f]
      BY DEF PostsNothing
    <3>. HIDE DEF g, h
    <3>2. SumOver(g, Families) = SumOver(h, Families)
      BY <3>1, EnrollmentAssumption, SumCong
    <3>. QED
      BY <3>2 DEF OrdinaryTotal, g, h
  <2>2. OrdinaryActions(Retail)' = OrdinaryActions(Retail)
    BY <1>1 DEF OrdinaryActions, Retail
  <2>3. \A f \in Families :
          ~Consumed(f)' => ~Consumed(f)
            /\ family'[f].ordinary_positive = family[f].ordinary_positive
    BY DEF PostsNothing, Consumed
  <2>. QED
    BY <2>1, <2>2, <2>3 DEF PremiumInv
<1>. QED
  BY <1>2, <1>3, <1>4, <1>5, <1>6

\* The selections of actions, one posting later.
LEMMA SelectionsGrow ==
  ASSUME NEW c \in Cases, NEW r, NEW n, NEW kind,
         actions' = actions \union Post(c, r, kind, n)
  PROVE  /\ \A d \in Cases :
              Posted(d)' = IF d = c THEN With(Posted(d), c, r, kind, n)
                           ELSE Posted(d)
         /\ \A F \in SUBSET Families :
              OrdinaryActions(F)' = IF kind = "Ordinary" /\ FamilyOf[c] \in F
                                    THEN With(OrdinaryActions(F), c, r, kind, n)
                                    ELSE OrdinaryActions(F)
         /\ AdjustmentActions' = IF kind = "Adjustment"
                                 THEN With(AdjustmentActions, c, r, kind, n)
                                 ELSE AdjustmentActions
<1>1. ASSUME NEW d \in Cases
      PROVE  Posted(d)' = IF d = c THEN With(Posted(d), c, r, kind, n)
                          ELSE Posted(d)
  BY PostedOf DEF Posted, With
<1>2. ASSUME NEW F \in SUBSET Families
      PROVE  OrdinaryActions(F)' = IF kind = "Ordinary" /\ FamilyOf[c] \in F
                                   THEN With(OrdinaryActions(F), c, r, kind, n)
                                   ELSE OrdinaryActions(F)
  BY PostedOf DEF OrdinaryActions, With
<1>3. AdjustmentActions' = IF kind = "Adjustment"
                           THEN With(AdjustmentActions, c, r, kind, n)
                           ELSE AdjustmentActions
  BY PostedOf DEF AdjustmentActions, With
<1>. QED
  BY <1>1, <1>2, <1>3

\* A sum over a selection of the actions after an ALLOW that it selects.
LEMMA AllowAdds ==
  ASSUME EconomicTypeOK, ActionsInv, NEW c \in Cases,
         NEW kind \in {"Ordinary", "Adjustment"}, NEW n \in Int, NEW x,
         Allows(c, kind, n, x), NEW A \in SUBSET actions,
         NEW w, NEW v, CountsAs(w, n, v)
  PROVE  SumOver(w, With(A, c, 1, kind, n)) = SumOver(w, A) + v
<1>1. ActionSet(A)
  BY Selections DEF ActionsInv, ActionSet
<1>2. Unposted(A, c, 1, kind)
  BY AllowsNew DEF Unposted
<1>3. kind \in ActionKind
  BY DEF ActionKind
<1>. QED
  BY <1>1, <1>2, <1>3, PostAdds

LEMMA AllowsBooks ==
  ASSUME EconomicTypeOK, ActionsInv, Nets, NEW c \in Cases,
         NEW kind \in {"Ordinary", "Adjustment"}, NEW n \in Int, NEW x,
         Allows(c, kind, n, x)
  PROVE  ActionsInv' /\ Nets'
<1>1. actions' = actions \union Post(c, 1, kind, n)
  BY DEF Allows
<1>2. IsFiniteSet(actions')
  <2>1. IsFiniteSet(Post(c, 1, kind, n))
    BY FS_EmptySet, FS_Singleton DEF Post
  <2>. QED
    BY <1>1, <2>1, FS_Union DEF ActionsInv
<1>3. \A a \in actions' : /\ case'[a.case].status = "FinalAllow"
                          /\ a.revision <= case'[a.case].revision
  <2>1. ASSUME NEW a \in actions
        PROVE  /\ case'[a.case].status = "FinalAllow"
               /\ a.revision <= case'[a.case].revision
    <3>1. a.case \in Cases /\ a.case # c
      BY AllowsNew DEF EconomicTypeOK, Action
    <3>. QED
      BY <3>1 DEF Allows, ActionsInv
  <2>2. ASSUME NEW a \in Post(c, 1, kind, n)
        PROVE  /\ case'[a.case].status = "FinalAllow"
               /\ a.revision <= case'[a.case].revision
    BY PostedOf DEF Allows
  <2>. QED
    BY <1>1, <2>1, <2>2
<1>4. Nets'
  <2>1. ASSUME NEW d \in Cases
        PROVE  SumOver(Signed, Posted(d)') = case'[d].signed
    <3>1. CASE d # c
      <4>1. Posted(d)' = Posted(d)
        BY <1>1, <3>1, SelectionsGrow
      <4>. QED
        BY <3>1, <4>1 DEF Nets, Allows
    <3>2. CASE d = c
      <4>1. Posted(c) = {}
        BY AllowsNew DEF Posted
      <4>2. Posted(c)' = With(Posted(c), c, 1, kind, n)
        BY <1>1, SelectionsGrow
      <4>3. SumOver(Signed, With(Posted(c), c, 1, kind, n))
              = SumOver(Signed, Posted(c)) + n
        <5>1. Posted(c) \in SUBSET actions
          BY DEF Posted
        <5>. QED
          BY <5>1, Counting, AllowAdds
      <4>4. SumOver(Signed, Posted(c)) = 0
        BY <4>1, SumEmpty
      <4>5. case'[c].signed = n
        BY DEF Allows
      <4>. QED
        BY <3>2, <4>2, <4>3, <4>4, <4>5
    <3>. QED
      BY <3>1, <3>2
  <2>. QED
    BY <2>1 DEF Nets
<1>. QED
  BY <1>2, <1>3, <1>4 DEF ActionsInv

\* The total of the ordinary amounts after a decision of a family that had none.
LEMMA TotalAfterAllow ==
  ASSUME EconomicTypeOK, PremiumInv, NEW c \in Cases, NEW kind, NEW n,
         NEW x \in Nat, Allows(c, kind, n, x)
  PROVE  OrdinaryTotal' = OrdinaryTotal + x
<1>. DEFINE g == [f \in Families |-> family[f].ordinary_positive]
            h == [f \in Families |-> family'[f].ordinary_positive]
            e == FamilyOf[c]
<1>1. e \in Families /\ IsFiniteSet(Families)
  BY EnrollmentAssumption
<1>2. \A f \in Families : g[f] \in Int
  BY DEF EconomicTypeOK, FamilyState
<1>3. g[e] = 0 /\ h[e] = x
  BY <1>1 DEF Allows, PremiumInv
<1>4. \A f \in Families \ {e} : h[f] = g[f]
  <2>1. \A f \in Families \ {e} : family'[f] = family[f]
    BY DEF Allows
  <2>. QED
    BY <2>1
<1>. HIDE DEF g, h, e
<1>5. Changes(g, h, Families, e)
  BY <1>1, <1>2, <1>3, <1>4 DEF Changes
<1>6. SumOver(h, Families) = SumOver(g, Families) + h[e] - g[e]
  BY <1>1, <1>5, SumExcept
<1>7. SumOver(g, Families) \in Int
  BY <1>1, <1>2, SumType
<1>8. SumOver(h, Families) = SumOver(g, Families) + x
  BY <1>3, <1>6, <1>7
<1>. QED
  BY <1>8 DEF OrdinaryTotal, g, h

LEMMA PremiumInt ==
  ASSUME EconomicTypeOK
  PROVE  OrdinaryTotal \in Int
<1>. DEFINE g == [f \in Families |-> family[f].ordinary_positive]
<1>1. IsFiniteSet(Families) /\ \A f \in Families : g[f] \in Int
  BY EnrollmentAssumption DEF EconomicTypeOK, FamilyState
<1>. HIDE DEF g
<1>2. SumOver(g, Families) \in Int
  BY <1>1, SumType
<1>. QED
  BY <1>2 DEF OrdinaryTotal, g

\* A family decided on the ordinary path or by adjustment keeps the premium's
\* books, provided that its share of them is what the decision posted.
LEMMA PremiumAfterAllow ==
  ASSUME EconomicTypeOK, ActionsInv, PremiumInv, NEW c \in Cases,
         NEW kind \in {"Ordinary", "Adjustment"}, NEW n \in Int, NEW x \in Nat,
         Allows(c, kind, n, x), OrdinaryTotal + x <= PremiumCap,
         x = IF kind = "Ordinary" /\ FamilyOf[c] \in Retail
             THEN PositivePart(n) ELSE 0
  PROVE  PremiumInv'
<1>1. OrdinaryTotal' = OrdinaryTotal + x
  BY TotalAfterAllow
<1>2. SumOver(Positives, OrdinaryActions(Retail)')
        = SumOver(Positives, OrdinaryActions(Retail)) + x
  <2>0. Retail \in SUBSET Families
    BY DEF Retail
  <2>1. actions' = actions \union Post(c, 1, kind, n)
    BY DEF Allows
  <2>2. OrdinaryActions(Retail) \in SUBSET actions
    BY DEF OrdinaryActions
  <2>3. CASE kind = "Ordinary" /\ FamilyOf[c] \in Retail
    <3>1. OrdinaryActions(Retail)'
            = With(OrdinaryActions(Retail), c, 1, kind, n)
      BY <2>0, <2>1, <2>3, SelectionsGrow
    <3>2. CountsAs(Positives, n, x)
      BY <2>3, Counting
    <3>4. SumOver(Positives, With(OrdinaryActions(Retail), c, 1, kind, n))
            = SumOver(Positives, OrdinaryActions(Retail)) + x
      BY <2>2, <3>2, AllowAdds
    <3>. QED
      BY <3>1, <3>4
  <2>4. CASE ~(kind = "Ordinary" /\ FamilyOf[c] \in Retail)
    <3>1. OrdinaryActions(Retail)' = OrdinaryActions(Retail)
      BY <2>0, <2>1, <2>4, SelectionsGrow
    <3>2. SumOver(Positives, OrdinaryActions(Retail)) \in Int
      BY <2>2, Selections, SumType, WeightTypes DEF ActionsInv
    <3>. QED
      BY <2>4, <3>1, <3>2
  <2>. QED
    BY <2>3, <2>4
<1>3. \A f \in Families : ~Consumed(f)' => family'[f].ordinary_positive = 0
  BY DEF Allows, Consumed, PremiumInv
<1>4. Retail' = Retail
  BY DEF Retail
<1>. QED
  BY <1>1, <1>2, <1>3, <1>4 DEF PremiumInv

\* Supplier capacity after an ALLOW: what is consumed grows by what is posted.
LEMMA ConsumedAfterAllow ==
  ASSUME EconomicTypeOK, ActionsInv, ConsumedPosted, NEW c \in Cases,
         NEW kind \in {"Ordinary", "Adjustment"}, NEW n \in Int, NEW x,
         Allows(c, kind, n, x),
         \A s \in Suppliers :
           supplier'[s].consumed
             = IF kind = "Ordinary" /\ s = Terms[FamilyOf[c]].supplier_pool
               THEN supplier[s].consumed + n ELSE supplier[s].consumed
  PROVE  ConsumedPosted'
<1>1. actions' = actions \union Post(c, 1, kind, n)
  BY DEF Allows
<1>2. ASSUME NEW s \in Suppliers
      PROVE  supplier'[s].consumed
               = Enrolled[s].consumed + SumOver(Signed, OrdinaryActions(FamiliesOf(s))')
  <2>1. FamiliesOf(s) \in SUBSET Families /\ FamilyOf[c] \in Families
    BY EnrollmentAssumption DEF FamiliesOf
  <2>2. FamilyOf[c] \in FamiliesOf(s) <=> s = Terms[FamilyOf[c]].supplier_pool
    BY <2>1 DEF FamiliesOf
  <2>3. Enrolled[s].consumed \in Int
    BY CapacityAssumption DEF SupplierState
  <2>4. OrdinaryActions(FamiliesOf(s)) \in SUBSET actions
    BY DEF OrdinaryActions
  <2>5. supplier[s].consumed
          = Enrolled[s].consumed + SumOver(Signed, OrdinaryActions(FamiliesOf(s)))
    BY DEF ConsumedPosted
  <2>6. SumOver(Signed, OrdinaryActions(FamiliesOf(s))) \in Int
    BY <2>4, Selections, SumType, WeightTypes DEF ActionsInv
  <2>7. CASE kind = "Ordinary" /\ s = Terms[FamilyOf[c]].supplier_pool
    <3>1. OrdinaryActions(FamiliesOf(s))'
            = With(OrdinaryActions(FamiliesOf(s)), c, 1, kind, n)
      BY <1>1, <2>1, <2>2, <2>7, SelectionsGrow
    <3>2. SumOver(Signed, With(OrdinaryActions(FamiliesOf(s)), c, 1, kind, n))
            = SumOver(Signed, OrdinaryActions(FamiliesOf(s))) + n
      BY <2>4, Counting, AllowAdds
    <3>. QED
      BY <2>3, <2>5, <2>6, <2>7, <3>1, <3>2
  <2>8. CASE ~(kind = "Ordinary" /\ s = Terms[FamilyOf[c]].supplier_pool)
    <3>1. OrdinaryActions(FamiliesOf(s))' = OrdinaryActions(FamiliesOf(s))
      BY <1>1, <2>1, <2>2, <2>8, SelectionsGrow
    <3>. QED
      BY <2>5, <2>8, <3>1
  <2>. QED
    BY <2>7, <2>8
<1>3. \A s \in Suppliers : FamiliesOf(s)' = FamiliesOf(s)
  BY DEF FamiliesOf
<1>. QED
  BY <1>2, <1>3 DEF ConsumedPosted

LEMMA PoolsGrow ==
  ASSUME NEW g, NEW h, NEW p \in Pools, NEW m \in Int,
         \A q \in Pools : g[q] \in Int,
         h[p] = g[p] + m, \A q \in Pools \ {p} : h[q] = g[q]
  PROVE  SumOver(h, Pools) = SumOver(g, Pools) + m
<1>1. IsFiniteSet(Pools)
  BY CapacityAssumption
<1>2. Changes(g, h, Pools, p)
  BY DEF Changes
<1>3. SumOver(h, Pools) = SumOver(g, Pools) + h[p] - g[p]
  BY <1>1, <1>2, SumExcept
<1>4. SumOver(g, Pools) \in Int
  BY <1>1, SumType
<1>. QED
  BY <1>1, <1>3, <1>4

\* The pools after an ALLOW: their gross use grows by what is posted.
LEMMA GrossAfterAllow ==
  ASSUME EconomicTypeOK, ActionsInv, GrossPosted, NEW c \in Cases,
         NEW kind \in {"Ordinary", "Adjustment"}, NEW n \in Int, NEW x,
         Allows(c, kind, n, x),
         IF kind = "Adjustment"
         THEN \E p \in Pools : \A q \in Pools :
                pool'[q].gross_used = IF q = p
                                      THEN pool[q].gross_used + Magnitude(n)
                                      ELSE pool[q].gross_used
         ELSE pool' = pool
  PROVE  GrossPosted'
<1>1. actions' = actions \union Post(c, 1, kind, n)
  BY DEF Allows
<1>2. AdjustmentActions \in SUBSET actions
  BY DEF AdjustmentActions
<1>3. CASE kind = "Ordinary"
  <2>1. AdjustmentActions' = AdjustmentActions
    BY <1>1, <1>3, SelectionsGrow
  <2>2. Gross' = Gross
    BY <1>3 DEF Gross
  <2>. QED
    BY <2>1, <2>2 DEF GrossPosted
<1>4. CASE kind = "Adjustment"
  <2>1. AdjustmentActions' = With(AdjustmentActions, c, 1, kind, n)
    BY <1>1, <1>4, SelectionsGrow
  <2>2. SumOver(Magnitudes, With(AdjustmentActions, c, 1, kind, n))
          = SumOver(Magnitudes, AdjustmentActions) + Magnitude(n)
    BY <1>2, Counting, AllowAdds
  <2>3. PICK p \in Pools : \A q \in Pools :
                pool'[q].gross_used = IF q = p
                                      THEN pool[q].gross_used + Magnitude(n)
                                      ELSE pool[q].gross_used
    BY <1>4
  <2>4. IsFiniteSet(Pools) /\ Magnitude(n) \in Int
    BY CapacityAssumption DEF Magnitude
  <2>. DEFINE g == Gross
              h == Gross'
  <2>5. \A q \in Pools : g[q] = pool[q].gross_used /\ g[q] \in Int
    BY DEF Gross, EconomicTypeOK, AdjustmentState
  <2>6. \A q \in Pools : h[q] = pool'[q].gross_used
    BY DEF Gross
  <2>7. h[p] = g[p] + Magnitude(n) /\ \A q \in Pools \ {p} : h[q] = g[q]
    BY <2>3, <2>5, <2>6
  <2>. HIDE DEF g, h
  <2>8. SumOver(h, Pools) = SumOver(g, Pools) + Magnitude(n)
    BY <2>4, <2>5, <2>7, PoolsGrow
  <2>. QED
    BY <2>1, <2>2, <2>8 DEF GrossPosted, g, h
<1>. QED
  BY <1>3, <1>4

LEMMA RetailBooks ==
  ASSUME EconomicInv, PostingInv, NEW c \in Cases, AllowsRetail(c)
  PROVE  PostingInv'
<1>. DEFINE n == Terms[FamilyOf[c]].ordinary_atoms
<1>1. /\ EconomicTypeOK /\ ActionsInv /\ Nets /\ ConsumedPosted /\ GrossPosted
      /\ PremiumInv
  BY DEF EconomicInv, PostingInv
<1>2. /\ Allows(c, "Ordinary", n, PositivePart(n))
      /\ OrdinaryTotal + PositivePart(n) <= PremiumCap
      /\ UNCHANGED <<pool, supplier>>
      /\ Terms[FamilyOf[c]].book = "Retail"
  BY DEF AllowsRetail
<1>3. n \in Int /\ PositivePart(n) \in Nat /\ FamilyOf[c] \in Retail
  BY <1>2, EnrollmentAssumption DEF FamilyTerms, PositivePart, Retail
<1>4. Terms[FamilyOf[c]].supplier_pool \notin Suppliers
  BY <1>2, EnrollmentAssumption
<1>. HIDE DEF n
<1>5. ActionsInv' /\ Nets'
  BY <1>1, <1>2, <1>3, AllowsBooks
<1>6. ConsumedPosted'
  BY <1>1, <1>2, <1>3, <1>4, ConsumedAfterAllow
<1>7. GrossPosted'
  BY <1>1, <1>2, <1>3, GrossAfterAllow
<1>8. PremiumInv'
  BY <1>1, <1>2, <1>3, PremiumAfterAllow
<1>. QED
  BY <1>5, <1>6, <1>7, <1>8 DEF PostingInv

LEMMA SupplierBooks ==
  ASSUME EconomicInv, PostingInv, NEW c \in Cases, AllowsSupplier(c)
  PROVE  PostingInv'
<1>. DEFINE n == Terms[FamilyOf[c]].ordinary_atoms
<1>1. /\ EconomicTypeOK /\ ActionsInv /\ Nets /\ ConsumedPosted /\ GrossPosted
      /\ PremiumInv
  BY DEF EconomicInv, PostingInv
<1>2. /\ Allows(c, "Ordinary", n, 0)
      /\ \A s \in Suppliers :
           supplier'[s].consumed = IF s = Terms[FamilyOf[c]].supplier_pool
                                   THEN supplier[s].consumed + n
                                   ELSE supplier[s].consumed
      /\ pool' = pool
      /\ Terms[FamilyOf[c]].book = "Supplier"
  BY DEF AllowsSupplier
<1>3. n \in Int /\ FamilyOf[c] \notin Retail
  BY <1>2, EnrollmentAssumption DEF FamilyTerms, Retail
<1>4. OrdinaryTotal + 0 <= PremiumCap
  <2>1. OrdinaryTotal \in Int
    BY <1>1, PremiumInt DEF PremiumInv
  <2>. QED
    BY <1>1, <2>1 DEF PremiumInv
<1>. HIDE DEF n
<1>5. ActionsInv' /\ Nets'
  BY <1>1, <1>2, <1>3, AllowsBooks
<1>6. ConsumedPosted'
  BY <1>1, <1>2, <1>3, ConsumedAfterAllow
<1>7. GrossPosted'
  BY <1>1, <1>2, <1>3, GrossAfterAllow
<1>8. PremiumInv'
  BY <1>1, <1>2, <1>3, <1>4, PremiumAfterAllow
<1>. QED
  BY <1>5, <1>6, <1>7, <1>8 DEF PostingInv

LEMMA AdjustBooks ==
  ASSUME EconomicInv, PostingInv, NEW c \in Cases, NEW p \in Pools,
         NEW n \in Int, Adjusts(c, p, n)
  PROVE  PostingInv'
<1>1. /\ EconomicTypeOK /\ ActionsInv /\ Nets /\ ConsumedPosted /\ GrossPosted
      /\ PremiumInv
  BY DEF EconomicInv, PostingInv
<1>2. /\ Allows(c, "Adjustment", n, family[FamilyOf[c]].ordinary_positive)
      /\ \A q \in Pools :
           pool'[q].gross_used = IF q = p THEN pool[q].gross_used + Magnitude(n)
                                 ELSE pool[q].gross_used
      /\ supplier' = supplier
  BY DEF Adjusts
<1>3. family[FamilyOf[c]].ordinary_positive = 0
  BY <1>1, <1>2, EnrollmentAssumption DEF Allows, PremiumInv
<1>4. OrdinaryTotal + 0 <= PremiumCap
  <2>1. OrdinaryTotal \in Int
    BY <1>1, PremiumInt DEF PremiumInv
  <2>. QED
    BY <1>1, <2>1 DEF PremiumInv
<1>5. Allows(c, "Adjustment", n, 0)
  BY <1>2, <1>3
<1>6. ActionsInv' /\ Nets'
  BY <1>1, <1>5, AllowsBooks
<1>7. ConsumedPosted'
  BY <1>1, <1>2, <1>5, ConsumedAfterAllow
<1>8. GrossPosted'
  BY <1>1, <1>2, <1>5, GrossAfterAllow
<1>9. PremiumInv'
  BY <1>1, <1>4, <1>5, PremiumAfterAllow
<1>. QED
  BY <1>6, <1>7, <1>8, <1>9 DEF PostingInv

\* The selections of actions after a correction: only its case's grow.
LEMMA CorrectionGrows ==
  ASSUME NEW c \in Cases, NEW r, NEW m, NEW n,
         actions' = (actions \union Post(c, r, "Inverse", m))
                      \union Post(c, r, "Replacement", n)
  PROVE  /\ \A d \in Cases :
              Posted(d)' = IF d = c
                           THEN With(With(Posted(c), c, r, "Inverse", m),
                                     c, r, "Replacement", n)
                           ELSE Posted(d)
         /\ \A F \in SUBSET Families : OrdinaryActions(F)' = OrdinaryActions(F)
         /\ AdjustmentActions' = AdjustmentActions
<1>1. ASSUME NEW d \in Cases, d # c
      PROVE  Posted(d)' = Posted(d)
  BY <1>1, PostedOf DEF Posted
<1>2. Posted(c)' = With(With(Posted(c), c, r, "Inverse", m),
                        c, r, "Replacement", n)
  BY PostedOf DEF Posted, With
<1>3. ASSUME NEW F \in SUBSET Families
      PROVE  OrdinaryActions(F)' = OrdinaryActions(F)
  BY PostedOf DEF OrdinaryActions
<1>4. AdjustmentActions' = AdjustmentActions
  BY PostedOf DEF AdjustmentActions
<1>. QED
  BY <1>1, <1>2, <1>3, <1>4

\* Reversing what a case had and posting its new amount leaves the new amount.
LEMMA CorrectionNets ==
  ASSUME EconomicTypeOK, ActionsInv, Nets, NEW c \in Cases, NEW r \in Nat,
         NEW n \in Int, Corrects(c, r, n)
  PROVE  SumOver(Signed, With(With(Posted(c), c, r + 1, "Inverse", -case[c].signed),
                              c, r + 1, "Replacement", n)) = n
<1>. DEFINE q == r + 1
            m == -case[c].signed
            A == Posted(c)
            B == With(A, c, q, "Inverse", m)
<1>1. q \in Nat /\ m \in Int
  BY DEF EconomicTypeOK, CaseState
<1>2. "Inverse" \in ActionKind /\ "Replacement" \in ActionKind
  BY DEF ActionKind
<1>3. \A a \in A : a.revision # q
  BY CorrectsNew DEF Posted
<1>4. SumOver(Signed, A) = -m /\ SumOver(Signed, A) \in Int
  BY DEF Nets, EconomicTypeOK, CaseState
<1>5. ActionSet(A)
  <2>1. Posted(c) \in SUBSET actions
    BY DEF Posted
  <2>. QED
    BY <2>1, Selections DEF ActionsInv, ActionSet
<1>. HIDE DEF q, m, A, B
<1>6. Unposted(A, c, q, "Inverse")
  BY <1>3 DEF Unposted
<1>7. Unposted(B, c, q, "Replacement")
  BY <1>3, PostedOf DEF Unposted, With, B
<1>8. ActionSet(B) /\ SumOver(Signed, B) = SumOver(Signed, A) + m
  <2>1. CountsAs(Signed, m, m)
    BY <1>1, Counting
  <2>. QED
    BY <1>1, <1>2, <1>5, <1>6, <2>1, PostAdds DEF B
<1>9. SumOver(Signed, With(B, c, q, "Replacement", n)) = SumOver(Signed, B) + n
  <2>1. CountsAs(Signed, n, n)
    BY Counting
  <2>. QED
    BY <1>1, <1>2, <1>7, <1>8, <2>1, PostAdds
<1>10. SumOver(Signed, With(B, c, q, "Replacement", n)) = n
  BY <1>1, <1>4, <1>8, <1>9
<1>. QED
  BY <1>10 DEF A, B, m, q

LEMMA CorrectBooks ==
  ASSUME EconomicInv, PostingInv, NEW c \in Cases, NEW r \in Nat, NEW n \in Int,
         Corrects(c, r, n)
  PROVE  PostingInv'
<1>1. /\ EconomicTypeOK /\ ActionsInv /\ Nets /\ ConsumedPosted /\ GrossPosted
      /\ PremiumInv
  BY DEF EconomicInv, PostingInv
<1>2. actions' = (actions \union Post(c, r + 1, "Inverse", -case[c].signed))
                   \union Post(c, r + 1, "Replacement", n)
  BY DEF Corrects
<1>3. pool' = pool /\ supplier' = supplier
  BY DEF Corrects
<1>4. ActionsInv'
  <2>1. IsFiniteSet(actions')
    <3>1. /\ IsFiniteSet(Post(c, r + 1, "Inverse", -case[c].signed))
          /\ IsFiniteSet(Post(c, r + 1, "Replacement", n))
      BY FS_EmptySet, FS_Singleton DEF Post
    <3>2. IsFiniteSet(actions \union Post(c, r + 1, "Inverse", -case[c].signed))
      BY <1>1, <3>1, FS_Union DEF ActionsInv
    <3>. QED
      BY <1>2, <3>1, <3>2, FS_Union
  <2>2. ASSUME NEW a \in actions
        PROVE  /\ case'[a.case].status = "FinalAllow"
               /\ a.revision <= case'[a.case].revision
    <3>1. /\ a.case \in Cases /\ a.revision \in Nat
          /\ case[a.case].status = "FinalAllow"
          /\ a.revision <= case[a.case].revision
      BY <1>1 DEF EconomicTypeOK, Action, ActionsInv
    <3>2. CASE a.case = c
      BY <3>1, <3>2 DEF Corrects
    <3>3. CASE a.case # c
      BY <3>1, <3>3 DEF Corrects
    <3>. QED
      BY <3>2, <3>3
  <2>3. ASSUME NEW kind, NEW k, NEW a \in Post(c, r + 1, kind, k)
        PROVE  /\ case'[a.case].status = "FinalAllow"
               /\ a.revision <= case'[a.case].revision
    BY PostedOf DEF Corrects
  <2>4. \A a \in actions' : /\ case'[a.case].status = "FinalAllow"
                            /\ a.revision <= case'[a.case].revision
    BY <1>2, <2>2, <2>3
  <2>. QED
    BY <2>1, <2>4 DEF ActionsInv
<1>5. Nets'
  <2>1. ASSUME NEW d \in Cases
        PROVE  SumOver(Signed, Posted(d)') = case'[d].signed
    <3>1. CASE d # c
      <4>1. Posted(d)' = Posted(d)
        BY <1>2, <3>1, CorrectionGrows
      <4>. QED
        BY <1>1, <3>1, <4>1 DEF Nets, Corrects
    <3>2. CASE d = c
      <4>1. Posted(c)' = With(With(Posted(c), c, r + 1, "Inverse", -case[c].signed),
                              c, r + 1, "Replacement", n)
        BY <1>2, CorrectionGrows
      <4>2. case'[c].signed = n
        BY DEF Corrects
      <4>. QED
        BY <1>1, <3>2, <4>1, <4>2, CorrectionNets
    <3>. QED
      BY <3>1, <3>2
  <2>. QED
    BY <2>1 DEF Nets
<1>6. \A F \in SUBSET Families : OrdinaryActions(F)' = OrdinaryActions(F)
  BY <1>2, CorrectionGrows
<1>7. AdjustmentActions' = AdjustmentActions
  BY <1>2, CorrectionGrows
<1>8. ConsumedPosted'
  BY <1>1, <1>3, <1>6 DEF ConsumedPosted, FamiliesOf
<1>9. GrossPosted'
  BY <1>1, <1>3, <1>7 DEF GrossPosted, Gross
<1>10. PremiumInv'
  <2>1. OrdinaryTotal' = OrdinaryTotal
    <3>. DEFINE g == [f \in Families |-> family[f].ordinary_positive]
                h == [f \in Families |-> family'[f].ordinary_positive]
    <3>1. \A f \in Families : g[f] = h[f]
      BY DEF Corrects
    <3>. HIDE DEF g, h
    <3>2. SumOver(g, Families) = SumOver(h, Families)
      BY <3>1, EnrollmentAssumption, SumCong
    <3>. QED
      BY <3>2 DEF OrdinaryTotal, g, h
  <2>2. OrdinaryActions(Retail)' = OrdinaryActions(Retail)
    BY <1>6 DEF Retail
  <2>3. \A f \in Families :
          ~Consumed(f)' => ~Consumed(f)
            /\ family'[f].ordinary_positive = family[f].ordinary_positive
    BY DEF Corrects, Consumed
  <2>. QED
    BY <1>1, <2>1, <2>2, <2>3 DEF PremiumInv
<1>. QED
  BY <1>4, <1>5, <1>8, <1>9, <1>10 DEF PostingInv

LEMMA PostingStep ==
  ASSUME EconomicInv, PostingInv, EconomicStep
  PROVE  PostingInv'
<1>1. CASE PostsNothing
  BY <1>1, QuietBooks
<1>2. ASSUME NEW c \in Cases, AllowsRetail(c)
      PROVE  PostingInv'
  BY <1>2, RetailBooks
<1>3. ASSUME NEW c \in Cases, AllowsSupplier(c)
      PROVE  PostingInv'
  BY <1>3, SupplierBooks
<1>4. ASSUME NEW c \in Cases, NEW p \in Pools, NEW n \in Int, Adjusts(c, p, n)
      PROVE  PostingInv'
  BY <1>4, AdjustBooks
<1>5. ASSUME NEW c \in Cases, NEW r \in Nat, NEW n \in Int, Corrects(c, r, n)
      PROVE  PostingInv'
  BY <1>5, CorrectBooks
<1>. QED
  BY <1>1, <1>2, <1>3, <1>4, <1>5, BooksEffects

LEMMA PostingInvariance == EconomicSpec => [](EconomicInv /\ PostingInv)
<1>1. EconomicInit => PostingInv
  BY PostingInit
<1>2. EconomicInv /\ PostingInv /\ [EconomicNext]_economicVars => PostingInv'
  BY NextIsStep, PostingStep DEF EconomicStep
<1>. QED
  BY <1>1, <1>2, EconomicInvariance, PTL DEF EconomicSpec

-----------------------------------------------------------------------------

(* The actions posted for a case add up to its amount, and there are none   *)
(* before an ALLOW: a correction's inverse and replacement leave exactly    *)
(* its new amount, whatever was corrected before, and the actions of        *)
(* amount zero that are never posted are missed by nobody (DECIDE,          *)
(* CORRECT).                                                                *)
THEOREM LedgerTheorem == EconomicSpec => []LedgerNets
<1>1. ASSUME EconomicInv, PostingInv
      PROVE  LedgerNets
  <2>1. ASSUME NEW c \in Cases
        PROVE  /\ Total(Posted(c)) = case[c].signed
               /\ case[c].status # "FinalAllow" => Posted(c) = {}
    <3>1. Posted(c) \in SUBSET actions
      BY DEF Posted
    <3>2. Total(Posted(c)) = SumOver(Signed, Posted(c))
      BY <1>1, <3>1, Selections, Weigh DEF EconomicInv, PostingInv, ActionsInv
    <3>3. SumOver(Signed, Posted(c)) = case[c].signed
      BY <1>1 DEF PostingInv, Nets
    <3>4. case[c].status # "FinalAllow" => Posted(c) = {}
      BY <1>1 DEF PostingInv, ActionsInv, Posted
    <3>. QED
      BY <3>2, <3>3, <3>4
  <2>. QED
    BY <2>1 DEF LedgerNets
<1>. QED
  BY <1>1, PostingInvariance, PTL

(* What a supplier holds, has consumed and has released adds up to its      *)
(* enrolled maximum, and what it has consumed is what the ordinary          *)
(* decisions of its families posted: corrections, adjustments and closures  *)
(* neither spend it nor give it back (DECIDE, CORRECT, CLOSE).              *)
THEOREM SupplierTheorem == EconomicSpec => []SupplierConserved
<1>1. ASSUME EconomicInv, PostingInv
      PROVE  SupplierConserved
  <2>1. ASSUME NEW s \in Suppliers
        PROVE  supplier[s].consumed
                 = Enrolled[s].consumed + Total(OrdinaryActions(FamiliesOf(s)))
    <3>1. OrdinaryActions(FamiliesOf(s)) \in SUBSET actions
      BY DEF OrdinaryActions
    <3>2. Total(OrdinaryActions(FamiliesOf(s)))
            = SumOver(Signed, OrdinaryActions(FamiliesOf(s)))
      BY <1>1, <3>1, Selections, Weigh DEF EconomicInv, PostingInv, ActionsInv
    <3>. QED
      BY <1>1, <3>2 DEF PostingInv, ConsumedPosted
  <2>. QED
    BY <1>1, <2>1 DEF SupplierConserved, EconomicInv, CapacityConserved
<1>. QED
  BY <1>1, PostingInvariance, PTL

(* No pool is used beyond its caps, and the gross use of all pools is the   *)
(* sum of the adjustments posted: closing a family or correcting a case     *)
(* gives nothing back (DECIDE on the adjustment path).                      *)
THEOREM PoolsTheorem == EconomicSpec => []PoolsCoverAdjustments
<1>1. ASSUME EconomicInv, PostingInv
      PROVE  PoolsCoverAdjustments
  <2>1. AdjustmentActions \in SUBSET actions
    BY DEF AdjustmentActions
  <2>2. SumOver([a \in AdjustmentActions |-> Magnitude(a.signed_atoms)],
                AdjustmentActions)
          = SumOver(Magnitudes, AdjustmentActions)
    BY <1>1, <2>1, Selections, Weigh DEF EconomicInv, PostingInv, ActionsInv
  <2>3. SumOver([p \in Pools |-> pool[p].gross_used], Pools)
          = SumOver(Magnitudes, AdjustmentActions)
    BY <1>1 DEF PostingInv, GrossPosted, Gross
  <2>4. \A p \in Pools : WithinCap(pool[p], PoolTerms[p])
    BY <1>1 DEF EconomicInv, PoolsWithinCaps
  <2>. QED
    BY <2>2, <2>3, <2>4 DEF PoolsCoverAdjustments, AdjustmentActions
<1>. QED
  BY <1>1, PostingInvariance, PTL

(* The positive ordinary retail amounts posted over all families stay       *)
(* within the premium cap, however decisions and corrections interleave     *)
(* (the check of DECIDE reads the families, not the actions).               *)
THEOREM PremiumTheorem == EconomicSpec => []PremiumCapped
<1>1. ASSUME EconomicInv, PostingInv
      PROVE  PremiumCapped
  <2>1. OrdinaryActions(Retail) \in SUBSET actions
    BY DEF OrdinaryActions
  <2>2. SumOver([a \in OrdinaryActions(Retail) |-> PositivePart(a.signed_atoms)],
                OrdinaryActions(Retail))
          = SumOver(Positives, OrdinaryActions(Retail))
    BY <1>1, <2>1, Selections, Weigh DEF EconomicInv, PostingInv, ActionsInv
  <2>3. SumOver(Positives, OrdinaryActions(Retail)) <= PremiumCap
    BY <1>1 DEF PostingInv, PremiumInv
  <2>. QED
    BY <2>2, <2>3 DEF PremiumCapped, Retail
<1>. QED
  BY <1>1, PostingInvariance, PTL

(***************************************************************************)
(* Part 2.  The protocol.                                                  *)
(***************************************************************************)

-----------------------------------------------------------------------------
(* The inductive invariant.                                                *)

\* The two hosts' views of a grant and its token.
TokenAgrees(t) ==
  /\ token[t].status # "none" <=> grant[t] = "Claimed"
  /\ grant[t] # "none" => localGrant[t].status # "none"
  /\ localToken[t].status # "none" => token[t].status # "none"
  /\ token[t].reconciled => token[t].status \in Disposed
  /\ token[t].status \in Disposed => localToken[t].status = token[t].status
  /\ Imported(t) => /\ localToken[t].case = token[t].case
                    /\ case[token[t].case].status # "none"
  /\ localToken[t].status \in {"NewCase", "Alias"} =>
       /\ localToken[t].case \in Cases
       /\ Received(localToken[t].case)
       /\ RouteOf[localToken[t].case] = GatewayOf[t]
  /\ localGrant[t].terminal =>
       grant[t] = "RetiredUnclaimed" \/ token[t].reconciled
TokenInv == \A t \in Grants : TokenAgrees(t)

\* Receipts: positions of one gateway are distinct, and an admitted case has
\* the receipt its gateway gave it.
ReceiptInv ==
  \A c \in Cases :
    /\ case[c].status # "none" =>
         Received(c) /\ case[c].receipt = localCase[c]
    /\ Received(c) =>
         /\ 1 <= localCase[c].position
         /\ localCase[c].position <= localGateway[RouteOf[c]].receipt
    /\ \A d \in Cases :
         /\ Received(c) /\ Received(d) /\ RouteOf[c] = RouteOf[d]
         /\ localCase[c].position = localCase[d].position
         => c = d

\* Allocations of one gateway are distinct.
AllocationInv ==
  \A t \in Grants :
    /\ token[t].status = "none" => token[t].allocation = 0
    /\ token[t].status # "none" =>
         /\ 1 <= token[t].allocation
         /\ token[t].allocation <= gateway[GatewayOf[t]].allocation
    /\ \A u \in Grants :
         /\ token[t].status # "none" /\ token[u].status # "none"
         /\ GatewayOf[t] = GatewayOf[u]
         /\ token[t].allocation = token[u].allocation
         => t = u

Terminal == {"Committed", "Aborted"}

\* Rounds at the centre: those up to the last are finished, the active one is
\* the next, and no other has begun.
RoundPlace(n) ==
  LET active == enrollment.active_round
      last == enrollment.last_round
  IN
  /\ round[n].status = "none" <=> n > last /\ n # active
  /\ n <= last => /\ round[n].status \in Terminal
                  /\ round[n].acknowledged = round[n].gateways
  /\ round[n].acknowledged \subseteq round[n].gateways
  /\ round[n].acknowledged # {} => round[n].status \in Terminal
  /\ round[n].status = "none" => round[n].gateways = {}
  /\ \A g \in round[n].gateways :
       /\ round[n].predecessor[g] < n
       /\ n <= last => n <= localGateway[g].installed
       /\ n = active /\ g \in round[n].acknowledged =>
            gateway[g].acknowledged = n
       /\ n = active /\ g \notin round[n].acknowledged =>
            gateway[g].acknowledged = round[n].predecessor[g]
RoundInv ==
  /\ \/ enrollment.active_round = 0
     \/ /\ enrollment.active_round = enrollment.last_round + 1
        /\ enrollment.active_round \in Rounds
  /\ \A n \in Rounds : RoundPlace(n)

\* Rounds at the gateways: a gateway has installed what it has acknowledged,
\* or the outcome of the active round; it seals for the active round only.
GatewayPlace(g) ==
  LET active == enrollment.active_round
      last == enrollment.last_round
  IN
  /\ \/ localGateway[g].installed = gateway[g].acknowledged
     \/ /\ active # 0 /\ localGateway[g].installed = active
        /\ g \in round[active].gateways /\ round[active].status \in Terminal
  /\ \/ gateway[g].acknowledged <= last
     \/ /\ active # 0 /\ gateway[g].acknowledged = active
        /\ g \in round[active].acknowledged
  /\ localGateway[g].mode = "Open" => localGateway[g].active = 0
  /\ localGateway[g].mode # "Open" =>
       /\ active # 0 /\ localGateway[g].active = active
       /\ g \in round[active].gateways
       /\ localGateway[g].installed = round[active].predecessor[g]
  /\ \A n \in Rounds : localRound[g][n].outcome # "none" =>
       /\ localRound[g][n].outcome = round[n].status
       /\ n <= localGateway[g].installed
GatewayInv == \A g \in Gateways : GatewayPlace(g)

\* Seals and drains: the seal of a gateway that has not installed the active
\* round counts its receipts, and what is drained against it stays so.
SealPlace(g, n) ==
  /\ localRound[g][n].seal # Never => round[n].status # "none"
  /\ /\ localRound[g][n].seal # Never
     /\ n = enrollment.active_round /\ localGateway[g].installed < n
     => /\ localGateway[g].mode = "Sealed"
        /\ localGateway[g].receipt = localRound[g][n].seal
  /\ round[n].seal[g] # Never =>
       /\ round[n].seal[g] = localRound[g][n].seal
       /\ gateway[g].allocation_prefix >= round[n].cutoff[g]
       /\ gateway[g].receipt_prefix >= round[n].seal[g]
SealInv ==
  /\ \A g \in Gateways, n \in Rounds : SealPlace(g, n)
  /\ \A n \in Rounds :
       round[n].status \in {"Ready", "Committed"} => AllDrained(n)

\* A gateway that has installed a closure dates its receipts after it.
ClockInv ==
  \A n \in Rounds : round[n].status = "Committed" =>
    \A g \in round[n].gateways :
      n <= localGateway[g].installed =>
        round[n].closed_at <= localGateway[g].clock_floor

\* What is posted is of admitted cases, and a committed round has closed its
\* families.
BooksInv ==
  /\ \A a \in actions : case[a.case].status # "none"
  /\ \A n \in Rounds : round[n].status = "Committed" =>
       \A f \in round[n].families : family[f].closed

AdjudicationInv ==
  /\ TypeOK /\ EconomicInv
  /\ TokenInv /\ ReceiptInv /\ AllocationInv /\ PrefixesAreDense
  /\ RoundInv /\ GatewayInv /\ SealInv
  /\ CloseRightHeld /\ ClockInv /\ Chronology
  /\ BooksInv /\ CertificateCoversOrdinary

-----------------------------------------------------------------------------
(* Types, and what each group of steps leaves alone.                       *)

ProtocolTypeOK ==
  /\ grant \in [Grants -> GrantState]
  /\ token \in [Grants -> TokenState]
  /\ gateway \in [Gateways -> GatewayState]
  /\ enrollment \in [active_round : Nat, last_round : Nat]
  /\ round \in [Rounds -> RoundState]
  /\ localGrant \in [Grants -> LocalGrantState]
  /\ localToken \in [Grants -> LocalTokenState]
  /\ localCase \in [Cases -> Receipt]
  /\ localGateway \in [Gateways -> LocalGatewayState]
  /\ localRound \in [Gateways -> [Rounds -> LocalRoundState]]

\* A step of a token: the rounds are left alone, prefixes and receipts only
\* grow, and a gateway that is not open receives nothing.
TokenFrame ==
  /\ UNCHANGED <<enrollment, round, localRound>>
  /\ \A g \in Gateways :
       /\ gateway'[g].acknowledged = gateway[g].acknowledged
       /\ gateway[g].allocation <= gateway'[g].allocation
       /\ gateway[g].allocation_prefix <= gateway'[g].allocation_prefix
       /\ gateway[g].receipt_prefix <= gateway'[g].receipt_prefix
       /\ localGateway'[g].mode = localGateway[g].mode
       /\ localGateway'[g].active = localGateway[g].active
       /\ localGateway'[g].installed = localGateway[g].installed
       /\ localGateway'[g].clock_floor = localGateway[g].clock_floor
       /\ localGateway[g].receipt <= localGateway'[g].receipt
       /\ localGateway[g].mode # "Open" =>
            localGateway'[g].receipt = localGateway[g].receipt

\* A step of a round: grants, tokens, cases and their counters are left alone.
RoundFrame ==
  /\ UNCHANGED <<case, actions, grant, token, localGrant, localToken, localCase>>
  /\ \A g \in Gateways :
       /\ gateway'[g].allocation = gateway[g].allocation
       /\ gateway'[g].allocation_prefix = gateway[g].allocation_prefix
       /\ gateway'[g].receipt_prefix = gateway[g].receipt_prefix
       /\ localGateway'[g].receipt = localGateway[g].receipt

LEMMA QuietToken ==
  ASSUME ProtocolTypeOK,
         UNCHANGED <<gateway, enrollment, round, localGateway, localRound>>
  PROVE  TokenFrame
<1>1. \A g \in Gateways : /\ gateway[g].allocation \in Nat
                          /\ gateway[g].allocation_prefix \in Nat
                          /\ gateway[g].receipt_prefix \in Nat
                          /\ localGateway[g].receipt \in Nat
  BY DEF ProtocolTypeOK, GatewayState, LocalGatewayState
<1>. QED
  BY <1>1 DEF TokenFrame

SameBut(new, old, S, x) == \A y \in S \ {x} : new[y] = old[y]

-----------------------------------------------------------------------------
(* The steps of a token, without the record updates.                       *)

LocalGrants(t) ==
  /\ UNCHANGED <<economicVars, centralVars, localToken, localCase, localGateway>>
  /\ localGrant[t].status = "none" /\ localGrant'[t].status = "LocalHeld"
  /\ localGrant'[t].terminal = localGrant[t].terminal
  /\ SameBut(localGrant', localGrant, Grants, t)

Registers(t) ==
  /\ UNCHANGED <<economicVars, token, gateway, localVars>>
  /\ localGrant[t].status # "none"
  /\ grant[t] = "none" /\ grant'[t] = "RegisteredUnclaimed"
  /\ SameBut(grant', grant, Grants, t)

Issues(t) ==
  LET g == GatewayOf[t] IN
  /\ UNCHANGED <<economicVars, localVars>>
  /\ grant[t] = "RegisteredUnclaimed" /\ grant'[t] = "Claimed"
  /\ token'[t].status = "Issued" /\ ~token'[t].reconciled
  /\ token'[t].allocation = gateway[g].allocation + 1
  /\ gateway'[g].allocation = gateway[g].allocation + 1
  /\ gateway'[g].allocation_prefix = gateway[g].allocation_prefix
  /\ gateway'[g].receipt_prefix = gateway[g].receipt_prefix
  /\ SameBut(grant', grant, Grants, t) /\ SameBut(token', token, Grants, t)
  /\ SameBut(gateway', gateway, Gateways, g)

Retires(t) ==
  /\ UNCHANGED <<economicVars, token, gateway, localVars>>
  /\ grant[t] = "RegisteredUnclaimed" /\ grant'[t] = "RetiredUnclaimed"
  /\ SameBut(grant', grant, Grants, t)

Activates(t) ==
  /\ UNCHANGED <<economicVars, centralVars, localCase, localGateway>>
  /\ token[t].status # "none"
  /\ localToken[t].status = "none" /\ localToken'[t].status = "Active"
  /\ localGrant'[t].status = "Claimed"
  /\ localGrant'[t].terminal = localGrant[t].terminal
  /\ SameBut(localToken', localToken, Grants, t)
  /\ SameBut(localGrant', localGrant, Grants, t)

\* The receipt of a new case, or of an alias of one received before.
Receipts(t, c, at) ==
  LET g == GatewayOf[t]
      position == localGateway[g].receipt + 1
  IN
  /\ UNCHANGED <<economicVars, centralVars, localGrant>>
  /\ localToken[t].status = "Active" /\ RouteOf[c] = g
  /\ localGateway[g].mode = "Open" /\ localGateway[g].clock_floor <= at
  /\ SameBut(localToken', localToken, Grants, t) /\ localToken'[t].case = c
  /\ \/ /\ Received(c) /\ localToken'[t].status = "Alias"
        /\ UNCHANGED <<localCase, localGateway>>
     \/ /\ ~Received(c) /\ localToken'[t].status = "NewCase"
        /\ localCase'[c] = [position |-> position, received_at |-> at]
        /\ localGateway'[g].receipt = position
        /\ SameBut(localCase', localCase, Cases, c)
        /\ SameBut(localGateway', localGateway, Gateways, g)

\* An import of a case, or of an alias of a case admitted before.
Imports(t) ==
  LET c == localToken[t].case IN
  /\ UNCHANGED <<family, supplier, pool, actions, grant, gateway, localVars>>
  /\ token[t].status # "none" /\ ~Imported(t)
  /\ localToken[t].status \in {"NewCase", "Alias"}
  /\ \/ localToken[t].status = "Alias" /\ OriginalImported(c) /\ UNCHANGED case
     \/ Admit(c, localCase[c])
  /\ token'[t].status = localToken[t].status /\ token'[t].case = c
  /\ token'[t].allocation = token[t].allocation
  /\ token'[t].reconciled = token[t].reconciled
  /\ SameBut(token', token, Grants, t)

Returns(t) ==
  /\ UNCHANGED <<economicVars, centralVars, localCase, localGateway>>
  /\ token[t].status # "none" /\ localToken[t].status \in {"none", "Active"}
  /\ localToken'[t].status = "ReturnedUnused"
  /\ localGrant'[t].status = "Claimed"
  /\ localGrant'[t].terminal = localGrant[t].terminal
  /\ SameBut(localToken', localToken, Grants, t)
  /\ SameBut(localGrant', localGrant, Grants, t)

Reconciles(t) ==
  /\ UNCHANGED <<economicVars, grant, gateway, localVars>>
  /\ token[t].status # "none" /\ token'[t].reconciled
  /\ \/ /\ localToken[t].status = "ReturnedUnused" /\ token[t].status = "Issued"
        /\ token'[t].status = "ReturnedUnused"
     \/ Imported(t) /\ token'[t].status = token[t].status
  /\ token'[t].case = token[t].case
  /\ token'[t].allocation = token[t].allocation
  /\ SameBut(token', token, Grants, t)

\* A prefix of the token's gateway moves over its allocation or its receipt.
KeepsToken(t) ==
  /\ token'[t].status = token[t].status /\ token'[t].case = token[t].case
  /\ token'[t].allocation = token[t].allocation
  /\ token'[t].reconciled = token[t].reconciled
  /\ SameBut(token', token, Grants, t)

Advances(t) ==
  LET g == GatewayOf[t] IN
  /\ UNCHANGED <<economicVars, grant, localVars>> /\ KeepsToken(t)
  /\ token[t].status # "none" /\ token[t].reconciled
  /\ token[t].allocation = gateway[g].allocation_prefix + 1
  /\ gateway'[g].allocation_prefix = gateway[g].allocation_prefix + 1
  /\ gateway'[g].allocation = gateway[g].allocation
  /\ gateway'[g].receipt_prefix = gateway[g].receipt_prefix
  /\ SameBut(gateway', gateway, Gateways, g)

AdvancesReceipt(t) ==
  LET g == GatewayOf[t] IN
  /\ UNCHANGED <<economicVars, grant, localVars>> /\ KeepsToken(t)
  /\ token[t].status = "NewCase"
  /\ case[token[t].case].receipt.position = gateway[g].receipt_prefix + 1
  /\ gateway'[g].receipt_prefix = gateway[g].receipt_prefix + 1
  /\ gateway'[g].allocation = gateway[g].allocation
  /\ gateway'[g].allocation_prefix = gateway[g].allocation_prefix
  /\ SameBut(gateway', gateway, Gateways, g)

Terminates(t) ==
  /\ UNCHANGED <<economicVars, centralVars, localToken, localCase, localGateway>>
  /\ localGrant[t].status # "none" /\ localGrant'[t].status # "none"
  /\ localGrant'[t].terminal
  /\ grant[t] = "RetiredUnclaimed" \/ token[t].reconciled
  /\ SameBut(localGrant', localGrant, Grants, t)

LEMMA LocalGrantStep ==
  ASSUME ProtocolTypeOK, NEW t \in Grants, LocalGrant(t)
  PROVE  ProtocolTypeOK' /\ TokenFrame /\ LocalGrants(t)
<1>. DEFINE u == [localGrant[t] EXCEPT !.status = "LocalHeld"]
<1>1. /\ u \in LocalGrantState /\ u.status = "LocalHeld"
      /\ u.terminal = localGrant[t].terminal
  BY DEF ProtocolTypeOK, LocalGrantState
<1>2. /\ localGrant' = [localGrant EXCEPT ![t] = u]
      /\ localGrant[t].status = "none"
      /\ UNCHANGED <<economicVars, centralVars, localToken, localCase,
                     localGateway, localRound>>
  BY DEF LocalGrant
<1>. HIDE DEF u
<1>3. /\ localGrant' \in [Grants -> LocalGrantState] /\ localGrant'[t] = u
      /\ SameBut(localGrant', localGrant, Grants, t)
  BY <1>1, <1>2 DEF ProtocolTypeOK, SameBut
<1>4. ProtocolTypeOK'
  BY <1>2, <1>3 DEF ProtocolTypeOK, centralVars
<1>. QED
  BY <1>1, <1>2, <1>3, <1>4, QuietToken DEF LocalGrants, centralVars

LEMMA RegisterGrantStep ==
  ASSUME ProtocolTypeOK, NEW t \in Grants, RegisterGrant(t)
  PROVE  ProtocolTypeOK' /\ TokenFrame /\ Registers(t)
<1>1. /\ grant' = [grant EXCEPT ![t] = "RegisteredUnclaimed"]
      /\ grant[t] = "none" /\ localGrant[t].status # "none"
      /\ UNCHANGED <<economicVars, token, gateway, enrollment, round, localVars>>
  BY DEF RegisterGrant
<1>2. /\ grant' \in [Grants -> GrantState]
      /\ grant'[t] = "RegisteredUnclaimed"
      /\ SameBut(grant', grant, Grants, t)
  BY <1>1 DEF ProtocolTypeOK, GrantState, SameBut
<1>3. ProtocolTypeOK'
  BY <1>1, <1>2 DEF ProtocolTypeOK, localVars
<1>. QED
  BY <1>1, <1>2, <1>3, QuietToken DEF Registers, localVars

LEMMA RetireGrantStep ==
  ASSUME ProtocolTypeOK, NEW t \in Grants, RetireGrant(t)
  PROVE  ProtocolTypeOK' /\ TokenFrame /\ Retires(t)
<1>1. /\ grant' = [grant EXCEPT ![t] = "RetiredUnclaimed"]
      /\ grant[t] = "RegisteredUnclaimed"
      /\ UNCHANGED <<economicVars, token, gateway, enrollment, round, localVars>>
  BY DEF RetireGrant
<1>2. /\ grant' \in [Grants -> GrantState]
      /\ grant'[t] = "RetiredUnclaimed"
      /\ SameBut(grant', grant, Grants, t)
  BY <1>1 DEF ProtocolTypeOK, GrantState, SameBut
<1>3. ProtocolTypeOK'
  BY <1>1, <1>2 DEF ProtocolTypeOK, localVars
<1>. QED
  BY <1>1, <1>2, <1>3, QuietToken DEF Retires, localVars

LEMMA IssueStep ==
  ASSUME ProtocolTypeOK, NEW t \in Grants,
         NEW category \in {"Ordinary", "Adjustment"}, Issue(t, category)
  PROVE  ProtocolTypeOK' /\ TokenFrame /\ Issues(t)
<1>. DEFINE g == GatewayOf[t]
            a == gateway[g].allocation + 1
            u == [status |-> "Issued", category |-> category, allocation |-> a,
                  case |-> NoCase, reconciled |-> FALSE, advanced |-> FALSE,
                  receipt_advanced |-> FALSE]
            v == [gateway[g] EXCEPT !.allocation = a]
<1>1. g \in Gateways /\ gateway[g] \in GatewayState
  BY ProtocolAssumption DEF ProtocolTypeOK
<1>2. a \in Nat /\ gateway[g].allocation <= a
  BY <1>1 DEF GatewayState
<1>3. /\ grant[t] = "RegisteredUnclaimed"
      /\ grant' = [grant EXCEPT ![t] = "Claimed"]
      /\ gateway' = [gateway EXCEPT ![g] = v]
      /\ token' = [token EXCEPT ![t] = u]
      /\ UNCHANGED <<economicVars, enrollment, round, localVars>>
  BY DEF Issue
<1>. HIDE DEF g
<1>4. /\ v \in GatewayState /\ v.allocation = a
      /\ v.acknowledged = gateway[g].acknowledged
      /\ v.allocation_prefix = gateway[g].allocation_prefix
      /\ v.receipt_prefix = gateway[g].receipt_prefix
  <2>. HIDE DEF a
  <2>. QED
    BY <1>1, <1>2 DEF GatewayState
<1>5. /\ u \in TokenState /\ u.status = "Issued" /\ ~u.reconciled
      /\ u.allocation = a
  <2>. HIDE DEF a
  <2>. QED
    BY <1>2 DEF TokenState
<1>. HIDE DEF a, u, v
<1>6. /\ grant' \in [Grants -> GrantState] /\ grant'[t] = "Claimed"
      /\ SameBut(grant', grant, Grants, t)
  BY <1>3 DEF ProtocolTypeOK, GrantState, SameBut
<1>7. /\ token' \in [Grants -> TokenState] /\ token'[t] = u
      /\ SameBut(token', token, Grants, t)
  BY <1>3, <1>5 DEF ProtocolTypeOK, SameBut
<1>8. /\ gateway' \in [Gateways -> GatewayState] /\ gateway'[g] = v
      /\ SameBut(gateway', gateway, Gateways, g)
  BY <1>1, <1>3, <1>4 DEF ProtocolTypeOK, SameBut
<1>9. ProtocolTypeOK'
  BY <1>3, <1>6, <1>7, <1>8 DEF ProtocolTypeOK, localVars
<1>10. TokenFrame
  <2>1. \A h \in Gateways : /\ gateway[h].allocation \in Nat
                            /\ gateway[h].allocation_prefix \in Nat
                            /\ gateway[h].receipt_prefix \in Nat
                            /\ localGateway[h].receipt \in Nat
    BY DEF ProtocolTypeOK, GatewayState, LocalGatewayState
  <2>. QED
    BY <1>2, <1>3, <1>4, <1>8, <2>1 DEF TokenFrame, SameBut, localVars
<1>. QED
  BY <1>3, <1>4, <1>5, <1>6, <1>7, <1>8, <1>9, <1>10 DEF Issues, g, a

LEMMA ActivateStep ==
  ASSUME ProtocolTypeOK, NEW t \in Grants, Activate(t)
  PROVE  ProtocolTypeOK' /\ TokenFrame /\ Activates(t)
<1>. DEFINE u == [localGrant[t] EXCEPT !.status = "Claimed"]
            v == [localToken[t] EXCEPT !.status = "Active"]
<1>1. /\ u \in LocalGrantState /\ u.status = "Claimed"
      /\ u.terminal = localGrant[t].terminal
  BY DEF ProtocolTypeOK, LocalGrantState
<1>2. v \in LocalTokenState /\ v.status = "Active"
  BY DEF ProtocolTypeOK, LocalTokenState
<1>3. /\ localGrant' = [localGrant EXCEPT ![t] = u]
      /\ localToken' = [localToken EXCEPT ![t] = v]
      /\ token[t].status # "none" /\ localToken[t].status = "none"
      /\ UNCHANGED <<economicVars, centralVars, localCase, localGateway,
                     localRound>>
  BY DEF Activate
<1>. HIDE DEF u, v
<1>4. /\ localGrant' \in [Grants -> LocalGrantState] /\ localGrant'[t] = u
      /\ SameBut(localGrant', localGrant, Grants, t)
  BY <1>1, <1>3 DEF ProtocolTypeOK, SameBut
<1>5. /\ localToken' \in [Grants -> LocalTokenState] /\ localToken'[t] = v
      /\ SameBut(localToken', localToken, Grants, t)
  BY <1>2, <1>3 DEF ProtocolTypeOK, SameBut
<1>6. ProtocolTypeOK'
  BY <1>3, <1>4, <1>5 DEF ProtocolTypeOK, centralVars
<1>. QED
  BY <1>1, <1>2, <1>3, <1>4, <1>5, <1>6, QuietToken DEF Activates, centralVars

LEMMA ReceiveStep ==
  ASSUME ProtocolTypeOK, NEW t \in Grants, NEW c \in Cases, NEW at \in Nat,
         Receive(t, c, at)
  PROVE  ProtocolTypeOK' /\ TokenFrame /\ Receipts(t, c, at)
<1>. DEFINE g == GatewayOf[t]
            p == localGateway[g].receipt + 1
<1>1. /\ localToken[t].status = "Active" /\ localGateway[g].mode = "Open"
      /\ localGateway[g].clock_floor <= at /\ RouteOf[c] = g
      /\ UNCHANGED <<economicVars, centralVars, localGrant, localRound>>
  BY DEF Receive, Receives, Timely
<1>2. g \in Gateways /\ localGateway[g] \in LocalGatewayState
  BY ProtocolAssumption DEF ProtocolTypeOK
<1>3. p \in Nat /\ localGateway[g].receipt <= p
  BY <1>2 DEF LocalGatewayState
<1>4. CASE /\ Received(c)
           /\ localToken' = [localToken EXCEPT
                ![t] = [status |-> "Alias", case |-> c]]
           /\ UNCHANGED <<localCase, localGateway>>
  <2>1. /\ localToken' \in [Grants -> LocalTokenState]
        /\ localToken'[t].status = "Alias" /\ localToken'[t].case = c
        /\ SameBut(localToken', localToken, Grants, t)
    BY <1>4 DEF ProtocolTypeOK, LocalTokenState, Disposed, SameBut
  <2>2. ProtocolTypeOK'
    BY <1>1, <1>4, <2>1 DEF ProtocolTypeOK, centralVars
  <2>3. TokenFrame
    BY <1>1, <1>4, QuietToken DEF centralVars
  <2>. QED
    BY <1>1, <1>4, <2>1, <2>2, <2>3 DEF Receipts
<1>5. CASE /\ ~Received(c)
           /\ localToken' = [localToken EXCEPT
                ![t] = [status |-> "NewCase", case |-> c]]
           /\ localCase' = [localCase EXCEPT
                ![c] = [position |-> p, received_at |-> at]]
           /\ localGateway' = [localGateway EXCEPT ![g].receipt = p]
  <2>. DEFINE u == [localGateway[g] EXCEPT !.receipt = p]
              r == [position |-> p, received_at |-> at]
  <2>. HIDE DEF g, p
  <2>1. /\ u \in LocalGatewayState /\ u.receipt = p
        /\ u.mode = localGateway[g].mode /\ u.active = localGateway[g].active
        /\ u.installed = localGateway[g].installed
        /\ u.clock_floor = localGateway[g].clock_floor
    BY <1>2, <1>3 DEF LocalGatewayState
  <2>2. r \in Receipt
    BY <1>3 DEF Receipt
  <2>3. /\ localGateway' = [localGateway EXCEPT ![g] = u]
        /\ localCase' = [localCase EXCEPT ![c] = r]
    BY <1>5
  <2>. HIDE DEF u, r
  <2>4. /\ localToken' \in [Grants -> LocalTokenState]
        /\ localToken'[t].status = "NewCase" /\ localToken'[t].case = c
        /\ SameBut(localToken', localToken, Grants, t)
    BY <1>5 DEF ProtocolTypeOK, LocalTokenState, Disposed, SameBut
  <2>5. /\ localCase' \in [Cases -> Receipt] /\ localCase'[c] = r
        /\ SameBut(localCase', localCase, Cases, c)
    BY <2>2, <2>3 DEF ProtocolTypeOK, SameBut
  <2>6. /\ localGateway' \in [Gateways -> LocalGatewayState]
        /\ localGateway'[g] = u
        /\ SameBut(localGateway', localGateway, Gateways, g)
    BY <1>2, <2>1, <2>3 DEF ProtocolTypeOK, SameBut
  <2>7. ProtocolTypeOK'
    BY <1>1, <2>4, <2>5, <2>6 DEF ProtocolTypeOK, centralVars
  <2>8. TokenFrame
    <3>1. \A h \in Gateways : /\ gateway[h].allocation \in Nat
                              /\ gateway[h].allocation_prefix \in Nat
                              /\ gateway[h].receipt_prefix \in Nat
                              /\ localGateway[h].receipt \in Nat
      BY DEF ProtocolTypeOK, GatewayState, LocalGatewayState
    <3>2. localGateway[g].mode = "Open"
      BY <1>1 DEF g
    <3>. QED
      BY <1>1, <1>3, <2>1, <2>6, <3>1, <3>2 DEF TokenFrame, SameBut, centralVars
  <2>. QED
    BY <1>1, <1>5, <2>1, <2>4, <2>5, <2>6, <2>7, <2>8 DEF Receipts, g, p, r
<1>. QED
  BY <1>4, <1>5 DEF Receive

ImportedToken(r, x, c) == [r EXCEPT !.status = x, !.case = c]
ReturnedToken(r) == [r EXCEPT !.status = "ReturnedUnused", !.reconciled = TRUE]

LEMMA TokenUpdates ==
  ASSUME NEW r \in TokenState
  PROVE  /\ \A x \in Disposed, c \in Cases \union {NoCase} :
              LET u == ImportedToken(r, x, c)
              IN /\ u \in TokenState /\ u.status = x /\ u.case = c
                 /\ u.allocation = r.allocation /\ u.reconciled = r.reconciled
         /\ LET u == ReturnedToken(r)
            IN /\ u \in TokenState /\ u.status = "ReturnedUnused"
               /\ u.reconciled = TRUE
               /\ u.allocation = r.allocation /\ u.case = r.case
<1>1. ASSUME NEW x \in Disposed, NEW c \in Cases \union {NoCase}
      PROVE  LET u == ImportedToken(r, x, c)
             IN /\ u \in TokenState /\ u.status = x /\ u.case = c
                /\ u.allocation = r.allocation /\ u.reconciled = r.reconciled
  BY DEF TokenState, ImportedToken
<1>2. LET u == ReturnedToken(r)
      IN /\ u \in TokenState /\ u.status = "ReturnedUnused"
         /\ u.reconciled = TRUE
         /\ u.allocation = r.allocation /\ u.case = r.case
  BY DEF TokenState, ReturnedToken, Disposed
<1>. QED
  BY <1>1, <1>2

LEMMA ImportStep ==
  ASSUME ProtocolTypeOK, NEW t \in Grants, Import(t)
  PROVE  ProtocolTypeOK' /\ TokenFrame /\ Imports(t)
<1>. DEFINE c == localToken[t].case
            u == ImportedToken(token[t], localToken[t].status, c)
<1>1. /\ token[t].status # "none" /\ ~Imported(t)
      /\ localToken[t].status \in {"NewCase", "Alias"}
      /\ UNCHANGED <<grant, gateway, enrollment, round, localVars>>
  BY DEF Import
<1>2. \/ localToken[t].status = "Alias" /\ OriginalImported(c)
         /\ UNCHANGED economicVars
      \/ Admit(c, localCase[c])
  BY DEF Import
<1>3. UNCHANGED <<family, supplier, pool, actions>>
  BY <1>2 DEF Admit, economicVars
<1>4. token' = [token EXCEPT ![t] = u]
  BY DEF Import, ImportedToken
<1>5. c \in Cases \union {NoCase} /\ localToken[t].status \in Disposed
      /\ token[t] \in TokenState
  BY <1>1 DEF ProtocolTypeOK, LocalTokenState, Disposed
<1>6. /\ u \in TokenState /\ u.status = localToken[t].status /\ u.case = c
      /\ u.allocation = token[t].allocation
      /\ u.reconciled = token[t].reconciled
  BY <1>5, TokenUpdates
<1>. HIDE DEF u
<1>7. /\ token' \in [Grants -> TokenState] /\ token'[t] = u
      /\ SameBut(token', token, Grants, t)
  BY <1>4, <1>6 DEF ProtocolTypeOK, SameBut
<1>8. ProtocolTypeOK'
  BY <1>1, <1>7 DEF ProtocolTypeOK, localVars
<1>. QED
  BY <1>1, <1>2, <1>3, <1>6, <1>7, <1>8, QuietToken DEF Imports, localVars,
     economicVars

LEMMA ReturnUnusedStep ==
  ASSUME ProtocolTypeOK, NEW t \in Grants, ReturnUnused(t)
  PROVE  ProtocolTypeOK' /\ TokenFrame /\ Returns(t)
<1>. DEFINE u == [localGrant[t] EXCEPT !.status = "Claimed"]
            v == [localToken[t] EXCEPT !.status = "ReturnedUnused"]
<1>1. /\ u \in LocalGrantState /\ u.status = "Claimed"
      /\ u.terminal = localGrant[t].terminal
  BY DEF ProtocolTypeOK, LocalGrantState
<1>2. v \in LocalTokenState /\ v.status = "ReturnedUnused"
  BY DEF ProtocolTypeOK, LocalTokenState, Disposed
<1>3. /\ localGrant' = [localGrant EXCEPT ![t] = u]
      /\ localToken' = [localToken EXCEPT ![t] = v]
      /\ token[t].status # "none" /\ localToken[t].status \in {"none", "Active"}
      /\ UNCHANGED <<economicVars, centralVars, localCase, localGateway,
                     localRound>>
  BY DEF ReturnUnused, Returnable
<1>. HIDE DEF u, v
<1>4. /\ localGrant' \in [Grants -> LocalGrantState] /\ localGrant'[t] = u
      /\ SameBut(localGrant', localGrant, Grants, t)
  BY <1>1, <1>3 DEF ProtocolTypeOK, SameBut
<1>5. /\ localToken' \in [Grants -> LocalTokenState] /\ localToken'[t] = v
      /\ SameBut(localToken', localToken, Grants, t)
  BY <1>2, <1>3 DEF ProtocolTypeOK, SameBut
<1>6. ProtocolTypeOK'
  BY <1>3, <1>4, <1>5 DEF ProtocolTypeOK, centralVars
<1>. QED
  BY <1>1, <1>2, <1>3, <1>4, <1>5, <1>6, QuietToken DEF Returns, centralVars

LEMMA ReconcileStep ==
  ASSUME ProtocolTypeOK, NEW t \in Grants, Reconcile(t)
  PROVE  ProtocolTypeOK' /\ TokenFrame /\ Reconciles(t)
<1>1. /\ token[t].status # "none"
      /\ UNCHANGED <<economicVars, grant, gateway, enrollment, round, localVars>>
  BY DEF Reconcile
<1>2. \E u \in TokenState :
        /\ token' = [token EXCEPT ![t] = u]
        /\ u.reconciled = TRUE /\ u.case = token[t].case
        /\ u.allocation = token[t].allocation
        /\ \/ /\ localToken[t].status = "ReturnedUnused"
              /\ token[t].status = "Issued" /\ u.status = "ReturnedUnused"
           \/ Imported(t) /\ u.status = token[t].status
  <2>1. CASE /\ localToken[t].status = "ReturnedUnused"
             /\ token[t].status = "Issued"
             /\ token' = [token EXCEPT ![t].status = "ReturnedUnused",
                                       ![t].reconciled = TRUE]
    <3>. DEFINE u == ReturnedToken(token[t])
    <3>1. /\ u \in TokenState /\ u.status = "ReturnedUnused"
          /\ u.reconciled = TRUE
          /\ u.allocation = token[t].allocation /\ u.case = token[t].case
      BY TokenUpdates DEF ProtocolTypeOK
    <3>2. token' = [token EXCEPT ![t] = u]
      BY <2>1 DEF ReturnedToken
    <3>. QED
      BY <2>1, <3>1, <3>2
  <2>2. CASE Imported(t) /\ token' = [token EXCEPT ![t].reconciled = TRUE]
    <3>. DEFINE u == [token[t] EXCEPT !.reconciled = TRUE]
    <3>1. /\ u \in TokenState /\ u.status = token[t].status
          /\ u.reconciled = TRUE
          /\ u.allocation = token[t].allocation /\ u.case = token[t].case
      BY DEF ProtocolTypeOK, TokenState
    <3>2. token' = [token EXCEPT ![t] = u]
      BY <2>2
    <3>. QED
      BY <2>2, <3>1, <3>2
  <2>. QED
    BY <2>1, <2>2 DEF Reconcile
<1>3. PICK u \in TokenState :
        /\ token' = [token EXCEPT ![t] = u]
        /\ u.reconciled = TRUE /\ u.case = token[t].case
        /\ u.allocation = token[t].allocation
        /\ \/ /\ localToken[t].status = "ReturnedUnused"
              /\ token[t].status = "Issued" /\ u.status = "ReturnedUnused"
           \/ Imported(t) /\ u.status = token[t].status
  BY <1>2
<1>4. /\ token' \in [Grants -> TokenState] /\ token'[t] = u
      /\ SameBut(token', token, Grants, t)
  BY <1>3 DEF ProtocolTypeOK, SameBut
<1>5. ProtocolTypeOK'
  BY <1>1, <1>4 DEF ProtocolTypeOK, localVars
<1>. QED
  BY <1>1, <1>3, <1>4, <1>5, QuietToken DEF Reconciles, localVars

LEMMA AdvanceStep ==
  ASSUME ProtocolTypeOK, NEW t \in Grants, Advance(t)
  PROVE  ProtocolTypeOK' /\ TokenFrame /\ Advances(t)
<1>. DEFINE g == GatewayOf[t]
            n == gateway[g].allocation_prefix + 1
            u == [token[t] EXCEPT !.advanced = TRUE]
            v == [gateway[g] EXCEPT !.allocation_prefix = n]
<1>1. /\ token[t].status # "none" /\ token[t].reconciled
      /\ token[t].allocation = n
      /\ token' = [token EXCEPT ![t] = u]
      /\ gateway' = [gateway EXCEPT ![g] = v]
      /\ UNCHANGED <<economicVars, grant, enrollment, round, localVars>>
  BY DEF Advance
<1>2. g \in Gateways /\ gateway[g] \in GatewayState
  BY ProtocolAssumption DEF ProtocolTypeOK
<1>3. n \in Nat /\ gateway[g].allocation_prefix <= n
  BY <1>2 DEF GatewayState
<1>4. /\ u \in TokenState /\ u.status = token[t].status
      /\ u.case = token[t].case /\ u.allocation = token[t].allocation
      /\ u.reconciled = token[t].reconciled
  BY DEF ProtocolTypeOK, TokenState
<1>. HIDE DEF g
<1>5. /\ v \in GatewayState /\ v.allocation_prefix = n
      /\ v.acknowledged = gateway[g].acknowledged
      /\ v.allocation = gateway[g].allocation
      /\ v.receipt_prefix = gateway[g].receipt_prefix
  <2>. HIDE DEF n
  <2>. QED
    BY <1>2, <1>3 DEF GatewayState
<1>. HIDE DEF n, u, v
<1>6. /\ token' \in [Grants -> TokenState] /\ token'[t] = u
      /\ SameBut(token', token, Grants, t)
  BY <1>1, <1>4 DEF ProtocolTypeOK, SameBut
<1>7. /\ gateway' \in [Gateways -> GatewayState] /\ gateway'[g] = v
      /\ SameBut(gateway', gateway, Gateways, g)
  BY <1>1, <1>2, <1>5 DEF ProtocolTypeOK, SameBut
<1>8. ProtocolTypeOK'
  BY <1>1, <1>6, <1>7 DEF ProtocolTypeOK, localVars
<1>9. TokenFrame
  <2>1. \A h \in Gateways : /\ gateway[h].allocation \in Nat
                            /\ gateway[h].allocation_prefix \in Nat
                            /\ gateway[h].receipt_prefix \in Nat
                            /\ localGateway[h].receipt \in Nat
    BY DEF ProtocolTypeOK, GatewayState, LocalGatewayState
  <2>. QED
    BY <1>1, <1>3, <1>5, <1>7, <2>1 DEF TokenFrame, SameBut, localVars
<1>10. KeepsToken(t)
  BY <1>4, <1>6 DEF KeepsToken
<1>. QED
  BY <1>1, <1>5, <1>7, <1>8, <1>9, <1>10 DEF Advances, g, n

LEMMA AdvanceReceiptStep ==
  ASSUME ProtocolTypeOK, NEW t \in Grants, AdvanceReceipt(t)
  PROVE  ProtocolTypeOK' /\ TokenFrame /\ AdvancesReceipt(t)
<1>. DEFINE g == GatewayOf[t]
            n == gateway[g].receipt_prefix + 1
            u == [token[t] EXCEPT !.receipt_advanced = TRUE]
            v == [gateway[g] EXCEPT !.receipt_prefix = n]
<1>1. /\ token[t].status = "NewCase"
      /\ case[token[t].case].receipt.position = n
      /\ token' = [token EXCEPT ![t] = u]
      /\ gateway' = [gateway EXCEPT ![g] = v]
      /\ UNCHANGED <<economicVars, grant, enrollment, round, localVars>>
  BY DEF AdvanceReceipt
<1>2. g \in Gateways /\ gateway[g] \in GatewayState
  BY ProtocolAssumption DEF ProtocolTypeOK
<1>3. n \in Nat /\ gateway[g].receipt_prefix <= n
  BY <1>2 DEF GatewayState
<1>4. /\ u \in TokenState /\ u.status = token[t].status
      /\ u.case = token[t].case /\ u.allocation = token[t].allocation
      /\ u.reconciled = token[t].reconciled
  BY DEF ProtocolTypeOK, TokenState
<1>. HIDE DEF g
<1>5. /\ v \in GatewayState /\ v.receipt_prefix = n
      /\ v.acknowledged = gateway[g].acknowledged
      /\ v.allocation = gateway[g].allocation
      /\ v.allocation_prefix = gateway[g].allocation_prefix
  <2>. HIDE DEF n
  <2>. QED
    BY <1>2, <1>3 DEF GatewayState
<1>. HIDE DEF n, u, v
<1>6. /\ token' \in [Grants -> TokenState] /\ token'[t] = u
      /\ SameBut(token', token, Grants, t)
  BY <1>1, <1>4 DEF ProtocolTypeOK, SameBut
<1>7. /\ gateway' \in [Gateways -> GatewayState] /\ gateway'[g] = v
      /\ SameBut(gateway', gateway, Gateways, g)
  BY <1>1, <1>2, <1>5 DEF ProtocolTypeOK, SameBut
<1>8. ProtocolTypeOK'
  BY <1>1, <1>6, <1>7 DEF ProtocolTypeOK, localVars
<1>9. TokenFrame
  <2>1. \A h \in Gateways : /\ gateway[h].allocation \in Nat
                            /\ gateway[h].allocation_prefix \in Nat
                            /\ gateway[h].receipt_prefix \in Nat
                            /\ localGateway[h].receipt \in Nat
    BY DEF ProtocolTypeOK, GatewayState, LocalGatewayState
  <2>. QED
    BY <1>1, <1>3, <1>5, <1>7, <2>1 DEF TokenFrame, SameBut, localVars
<1>10. KeepsToken(t)
  BY <1>4, <1>6 DEF KeepsToken
<1>. QED
  BY <1>1, <1>5, <1>7, <1>8, <1>9, <1>10 DEF AdvancesReceipt, g, n

LEMMA LocalTerminalStep ==
  ASSUME ProtocolTypeOK, NEW t \in Grants, LocalTerminal(t)
  PROVE  ProtocolTypeOK' /\ TokenFrame /\ Terminates(t)
<1>1. /\ localGrant[t].status # "none"
      /\ UNCHANGED <<economicVars, centralVars, localToken, localCase,
                     localGateway, localRound>>
  BY DEF LocalTerminal
<1>2. \E u \in LocalGrantState :
        /\ localGrant' = [localGrant EXCEPT ![t] = u]
        /\ u.terminal = TRUE /\ u.status # "none"
        /\ grant[t] = "RetiredUnclaimed" \/ token[t].reconciled
  <2>1. CASE /\ grant[t] = "RetiredUnclaimed"
             /\ localGrant' = [localGrant EXCEPT
                  ![t] = [status |-> "RetiredUnclaimed", terminal |-> TRUE]]
    <3>1. [status |-> "RetiredUnclaimed", terminal |-> TRUE] \in LocalGrantState
      BY DEF LocalGrantState
    <3>. QED
      BY <2>1, <3>1
  <2>2. CASE /\ token[t].reconciled
             /\ localGrant' = [localGrant EXCEPT ![t].terminal = TRUE]
    <3>. DEFINE u == [localGrant[t] EXCEPT !.terminal = TRUE]
    <3>1. /\ u \in LocalGrantState /\ u.terminal = TRUE
          /\ u.status = localGrant[t].status
      BY DEF ProtocolTypeOK, LocalGrantState
    <3>2. localGrant' = [localGrant EXCEPT ![t] = u]
      BY <2>2
    <3>. QED
      BY <1>1, <2>2, <3>1, <3>2
  <2>. QED
    BY <2>1, <2>2 DEF LocalTerminal
<1>3. PICK u \in LocalGrantState :
        /\ localGrant' = [localGrant EXCEPT ![t] = u]
        /\ u.terminal = TRUE /\ u.status # "none"
        /\ grant[t] = "RetiredUnclaimed" \/ token[t].reconciled
  BY <1>2
<1>4. /\ localGrant' \in [Grants -> LocalGrantState] /\ localGrant'[t] = u
      /\ SameBut(localGrant', localGrant, Grants, t)
  BY <1>3 DEF ProtocolTypeOK, SameBut
<1>5. ProtocolTypeOK'
  BY <1>1, <1>4 DEF ProtocolTypeOK, centralVars
<1>. QED
  BY <1>1, <1>3, <1>4, <1>5, QuietToken DEF Terminates, centralVars

TokenEffect(t) ==
  \/ LocalGrants(t) \/ Registers(t) \/ Issues(t) \/ Retires(t) \/ Activates(t)
  \/ \E c \in Cases, at \in Nat : Receipts(t, c, at)
  \/ Imports(t) \/ Returns(t) \/ Reconciles(t)
  \/ Advances(t) \/ AdvancesReceipt(t) \/ Terminates(t)

LEMMA TokenEffects ==
  ASSUME ProtocolTypeOK, NEW t \in Grants, TokenStep(t)
  PROVE  ProtocolTypeOK' /\ TokenFrame /\ TokenEffect(t)
<1>1. CASE \E category \in {"Ordinary", "Adjustment"} : Issue(t, category)
  BY <1>1, IssueStep DEF TokenEffect
<1>2. CASE \E c \in Cases, at \in Time : Receive(t, c, at)
  BY <1>2, ReceiveStep, BoundAssumption DEF TokenEffect, Time
<1>3. CASE LocalGrant(t) \/ RegisterGrant(t) \/ RetireGrant(t) \/ Activate(t)
  BY <1>3, LocalGrantStep, RegisterGrantStep, RetireGrantStep, ActivateStep
     DEF TokenEffect
<1>4. CASE Import(t) \/ ReturnUnused(t) \/ Reconcile(t)
  BY <1>4, ImportStep, ReturnUnusedStep, ReconcileStep DEF TokenEffect
<1>5. CASE Advance(t) \/ AdvanceReceipt(t) \/ LocalTerminal(t)
  BY <1>5, AdvanceStep, AdvanceReceiptStep, LocalTerminalStep DEF TokenEffect
<1>. QED
  BY <1>1, <1>2, <1>3, <1>4, <1>5 DEF TokenStep

-----------------------------------------------------------------------------
(* The steps of a round, without the record updates.                       *)

\* What is fixed when a round begins.
KeepsTerms(n) ==
  /\ round'[n].families = round[n].families
  /\ round'[n].gateways = round[n].gateways
  /\ round'[n].cutoff = round[n].cutoff
  /\ round'[n].predecessor = round[n].predecessor

\* A step of round n at the centre that neither seals, acknowledges nor dates.
KeepsCourse(n) ==
  /\ KeepsTerms(n) /\ SameBut(round', round, Rounds, n)
  /\ round'[n].acknowledged = round[n].acknowledged
  /\ round'[n].seal = round[n].seal

\* A step of gateway g that keeps its place in the rounds.
KeepsPlace(g) ==
  /\ localGateway'[g].installed = localGateway[g].installed
  /\ localGateway'[g].clock_floor = localGateway[g].clock_floor
  /\ SameBut(localGateway', localGateway, Gateways, g)

KeepsOutcomes ==
  \A g \in Gateways, n \in Rounds :
    localRound'[g][n].outcome = localRound[g][n].outcome
KeepsSeals ==
  \A g \in Gateways, n \in Rounds :
    localRound'[g][n].seal = localRound[g][n].seal

Prepares ==
  /\ UNCHANGED <<economicVars, centralVars, localGateway>>
  /\ KeepsOutcomes /\ KeepsSeals

Begins(n) ==
  /\ UNCHANGED <<economicVars, gateway, localVars>>
  /\ enrollment.active_round = 0 /\ n = enrollment.last_round + 1
  /\ enrollment'.active_round = n
  /\ enrollment'.last_round = enrollment.last_round
  /\ round[n].status = "none" /\ round'[n].status = "Draining"
  /\ round'[n].gateways \subseteq Gateways /\ round'[n].acknowledged = {}
  /\ \A f \in round'[n].families : ~family[f].closed
  /\ \A g \in Gateways : /\ round'[n].predecessor[g] = gateway[g].acknowledged
                         /\ round'[n].seal[g] = Never
  /\ SameBut(round', round, Rounds, n)

SealBegins(g, n) ==
  /\ UNCHANGED <<economicVars, centralVars>> /\ KeepsOutcomes /\ KeepsSeals
  /\ g \in round[n].gateways /\ Current(g, n)
  /\ localGateway[g].mode = "Open" /\ localGateway'[g].mode = "Sealing"
  /\ localGateway'[g].active = n
  /\ KeepsPlace(g)

Seals(g, n) ==
  /\ UNCHANGED <<economicVars, centralVars>> /\ KeepsOutcomes
  /\ localGateway[g].mode = "Sealing" /\ localGateway'[g].mode = "Sealed"
  /\ localGateway[g].active = n /\ localGateway'[g].active = n
  /\ localRound'[g][n].seal = localGateway[g].receipt
  /\ \A h \in Gateways, m \in Rounds : h # g \/ m # n =>
       localRound'[h][m].seal = localRound[h][m].seal
  /\ KeepsPlace(g)

Drains(g, n) ==
  /\ UNCHANGED <<economicVars, gateway, enrollment, localVars>>
  /\ round[n].status = "Draining" /\ round'[n].status = "Draining"
  /\ localRound[g][n].seal # Never /\ Drained(g, n)
  /\ round'[n].seal[g] = localRound[g][n].seal
  /\ SameBut(round'[n].seal, round[n].seal, Gateways, g)
  /\ round'[n].acknowledged = round[n].acknowledged
  /\ KeepsTerms(n) /\ SameBut(round', round, Rounds, n)

Readies(n) ==
  /\ UNCHANGED <<economicVars, gateway, enrollment, localVars>>
  /\ round[n].status = "Draining" /\ round'[n].status = "Ready"
  /\ AllDrained(n) /\ KeepsCourse(n)

Commits(n, at) ==
  /\ CloseFamilies(n, round[n].families, at)
  /\ UNCHANGED <<gateway, localVars>>
  /\ round[n].status = "Ready" /\ round'[n].status = "Committed"
  /\ round'[n].closed_at = at
  /\ KeepsCourse(n) /\ FinishIfEmpty(n)

Aborts(n) ==
  /\ UNCHANGED <<economicVars, gateway, localVars>>
  /\ round[n].status \in {"Draining", "Ready"} /\ round'[n].status = "Aborted"
  /\ KeepsCourse(n) /\ FinishIfEmpty(n)

Installs(g, n) ==
  /\ UNCHANGED <<economicVars, centralVars>> /\ KeepsSeals
  /\ round[n].status \in Terminal /\ g \in round[n].gateways /\ Current(g, n)
  /\ localGateway'[g].mode = "Open" /\ localGateway'[g].active = 0
  /\ localGateway'[g].installed = n
  /\ localGateway'[g].clock_floor = Floor(g, n)
  /\ localRound'[g][n].outcome = round[n].status
  /\ \A h \in Gateways, m \in Rounds : h # g \/ m # n =>
       localRound'[h][m].outcome = localRound[h][m].outcome
  /\ SameBut(localGateway', localGateway, Gateways, g)

Acknowledges(g, n) ==
  LET acked == round[n].acknowledged \union {g} IN
  /\ UNCHANGED <<economicVars, localVars>>
  /\ round[n].status \in Terminal /\ round'[n].status = round[n].status
  /\ g \in round[n].gateways /\ g \notin round[n].acknowledged
  /\ localRound[g][n].outcome = round[n].status
  /\ round'[n].acknowledged = acked /\ round'[n].seal = round[n].seal
  /\ round'[n].closed_at = round[n].closed_at
  /\ KeepsTerms(n) /\ SameBut(round', round, Rounds, n)
  /\ gateway'[g].acknowledged = n /\ SameBut(gateway', gateway, Gateways, g)
  /\ enrollment' = IF acked = round[n].gateways
                   THEN [active_round |-> 0, last_round |-> n]
                   ELSE enrollment

LEMMA LocalRoundUpdate ==
  ASSUME ProtocolTypeOK, NEW g \in Gateways, NEW n \in Rounds,
         NEW u \in LocalRoundState,
         localRound' = [localRound EXCEPT ![g] = [localRound[g] EXCEPT ![n] = u]]
  PROVE  /\ localRound' \in [Gateways -> [Rounds -> LocalRoundState]]
         /\ localRound'[g][n] = u
         /\ \A h \in Gateways, m \in Rounds : h # g \/ m # n =>
              localRound'[h][m] = localRound[h][m]
<1>. DEFINE v == [localRound[g] EXCEPT ![n] = u]
<1>1. /\ v \in [Rounds -> LocalRoundState] /\ v[n] = u
      /\ \A m \in Rounds \ {n} : v[m] = localRound[g][m]
  BY DEF ProtocolTypeOK
<1>. HIDE DEF v
<1>2. localRound' = [localRound EXCEPT ![g] = v]
  BY DEF v
<1>3. /\ localRound' \in [Gateways -> [Rounds -> LocalRoundState]]
      /\ localRound'[g] = v
      /\ \A h \in Gateways \ {g} : localRound'[h] = localRound[h]
  BY <1>1, <1>2 DEF ProtocolTypeOK
<1>. QED
  BY <1>1, <1>3

LEMMA PrepareRoundStep ==
  ASSUME ProtocolTypeOK, NEW g \in Gateways, NEW n \in Rounds,
         PrepareRound(g, n)
  PROVE  ProtocolTypeOK' /\ RoundFrame /\ Prepares
<1>. DEFINE r == localRound[g][n]
            x == localGateway[g].installed
            u == [r EXCEPT !.prepared = x]
<1>1. /\ localRound' = [localRound EXCEPT ![g] =
                          [localRound[g] EXCEPT ![n] = u]]
      /\ UNCHANGED <<economicVars, centralVars, localGrant, localToken,
                     localCase, localGateway>>
  BY DEF PrepareRound
<1>2. r \in LocalRoundState /\ x \in Nat
  BY DEF ProtocolTypeOK, LocalGatewayState
<1>. HIDE DEF r, x
<1>3. u \in LocalRoundState /\ u.outcome = r.outcome /\ u.seal = r.seal
  BY <1>2 DEF LocalRoundState
<1>. HIDE DEF u
<1>4. /\ localRound' \in [Gateways -> [Rounds -> LocalRoundState]]
      /\ localRound'[g][n] = u
      /\ \A h \in Gateways, m \in Rounds : h # g \/ m # n =>
           localRound'[h][m] = localRound[h][m]
  BY <1>1, <1>3, LocalRoundUpdate
<1>5. KeepsOutcomes /\ KeepsSeals
  BY <1>3, <1>4 DEF KeepsOutcomes, KeepsSeals, r
<1>6. ProtocolTypeOK'
  BY <1>1, <1>4 DEF ProtocolTypeOK, centralVars
<1>. QED
  BY <1>1, <1>5, <1>6 DEF Prepares, RoundFrame, economicVars, centralVars

LEMMA BeginStep ==
  ASSUME ProtocolTypeOK, NEW n \in Rounds, NEW mode \in Modes,
         NEW F \in SUBSET Families, NEW G \in SUBSET Gateways,
         Begin(n, mode, F, G)
  PROVE  ProtocolTypeOK' /\ RoundFrame /\ Begins(n)
<1>. DEFINE cutoff == Cutoffs
            predecessor == [g \in Gateways |-> gateway[g].acknowledged]
            seal == [g \in Gateways |-> Never]
            u == [status |-> "Draining", mode |-> mode, families |-> F,
                  gateways |-> G, cutoff |-> cutoff,
                  predecessor |-> predecessor, seal |-> seal,
                  acknowledged |-> {}, closed_at |-> Never]
<1>1. /\ enrollment.active_round = 0 /\ n = enrollment.last_round + 1
      /\ \A f \in F : ~family[f].closed
      /\ round[n].status = "none"
      /\ round' = [round EXCEPT ![n] = u]
      /\ enrollment' = [enrollment EXCEPT !.active_round = n]
      /\ UNCHANGED <<economicVars, grant, token, gateway, localVars>>
  BY DEF Begin, MayClose
<1>2. /\ cutoff \in [Gateways -> Nat] /\ predecessor \in [Gateways -> Nat]
      /\ seal \in [Gateways -> Nat \union {Never}]
      /\ \A g \in Gateways : predecessor[g] = gateway[g].acknowledged
                             /\ seal[g] = Never
  BY DEF ProtocolTypeOK, GatewayState, Cutoffs
<1>. HIDE DEF cutoff, predecessor, seal
<1>3. /\ u \in RoundState
      /\ u.status = "Draining" /\ u.gateways = G /\ u.acknowledged = {}
      /\ u.families = F /\ u.predecessor = predecessor /\ u.seal = seal
  BY <1>2, ProtocolAssumption DEF RoundState
<1>. HIDE DEF u
<1>4. /\ round' \in [Rounds -> RoundState] /\ round'[n] = u
      /\ SameBut(round', round, Rounds, n)
  BY <1>1, <1>3 DEF ProtocolTypeOK, SameBut
<1>5. n \in Nat
  BY ProtocolAssumption DEF Rounds
<1>6. /\ enrollment' \in [active_round : Nat, last_round : Nat]
      /\ enrollment'.active_round = n
      /\ enrollment'.last_round = enrollment.last_round
  BY <1>1, <1>5 DEF ProtocolTypeOK
<1>7. ProtocolTypeOK'
  BY <1>1, <1>4, <1>6 DEF ProtocolTypeOK, localVars
<1>8. RoundFrame
  BY <1>1 DEF RoundFrame, economicVars, localVars
<1>. QED
  BY <1>1, <1>2, <1>3, <1>4, <1>6, <1>7, <1>8 DEF Begins

SealingState(r, n) == [r EXCEPT !.mode = "Sealing", !.active = n]

LEMMA SealingGateway ==
  ASSUME NEW r \in LocalGatewayState
  PROVE  \A n \in Nat :
           LET u == SealingState(r, n)
           IN /\ u \in LocalGatewayState /\ u.mode = "Sealing" /\ u.active = n
              /\ u.installed = r.installed /\ u.clock_floor = r.clock_floor
              /\ u.receipt = r.receipt
  BY DEF LocalGatewayState, SealingState

LEMMA SealBeginStep ==
  ASSUME ProtocolTypeOK, NEW g \in Gateways, NEW n \in Rounds, SealBegin(g, n)
  PROVE  ProtocolTypeOK' /\ RoundFrame /\ SealBegins(g, n)
<1>. DEFINE r == localRound[g][n]
            u == [r EXCEPT !.begun = TRUE]
            w == SealingState(localGateway[g], n)
<1>1. /\ g \in round[n].gateways /\ Current(g, n)
      /\ localGateway[g].mode = "Open"
      /\ localRound' = [localRound EXCEPT ![g] =
                          [localRound[g] EXCEPT ![n] = u]]
      /\ localGateway' = [localGateway EXCEPT ![g] = w]
      /\ UNCHANGED <<economicVars, centralVars, localGrant, localToken, localCase>>
  BY DEF SealBegin, SealingState
<1>2. r \in LocalRoundState /\ n \in Nat /\ localGateway[g] \in LocalGatewayState
  BY ProtocolAssumption DEF ProtocolTypeOK, Rounds
<1>3. /\ w \in LocalGatewayState /\ w.mode = "Sealing" /\ w.active = n
      /\ w.installed = localGateway[g].installed
      /\ w.clock_floor = localGateway[g].clock_floor
      /\ w.receipt = localGateway[g].receipt
  BY <1>2, SealingGateway
<1>. HIDE DEF r, w
<1>4. u \in LocalRoundState /\ u.outcome = r.outcome /\ u.seal = r.seal
  BY <1>2 DEF LocalRoundState
<1>. HIDE DEF u
<1>5. /\ localRound' \in [Gateways -> [Rounds -> LocalRoundState]]
      /\ localRound'[g][n] = u
      /\ \A h \in Gateways, m \in Rounds : h # g \/ m # n =>
           localRound'[h][m] = localRound[h][m]
  BY <1>1, <1>4, LocalRoundUpdate
<1>6. KeepsOutcomes /\ KeepsSeals
  BY <1>4, <1>5 DEF KeepsOutcomes, KeepsSeals, r
<1>7. /\ localGateway' \in [Gateways -> LocalGatewayState]
      /\ localGateway'[g] = w
      /\ SameBut(localGateway', localGateway, Gateways, g)
  BY <1>1, <1>3 DEF ProtocolTypeOK, SameBut
<1>8. ProtocolTypeOK'
  BY <1>1, <1>5, <1>7 DEF ProtocolTypeOK, centralVars
<1>9. RoundFrame
  BY <1>1, <1>3, <1>7 DEF RoundFrame, SameBut, economicVars, centralVars
<1>. QED
  BY <1>1, <1>3, <1>6, <1>7, <1>8, <1>9 DEF SealBegins, KeepsPlace

LEMMA SealedStep ==
  ASSUME ProtocolTypeOK, NEW g \in Gateways, NEW n \in Rounds, Sealed(g, n)
  PROVE  ProtocolTypeOK' /\ RoundFrame /\ Seals(g, n)
<1>. DEFINE r == localRound[g][n]
            x == localGateway[g].receipt
            u == [r EXCEPT !.seal = x]
            w == [localGateway[g] EXCEPT !.mode = "Sealed"]
<1>1. /\ localGateway[g].active = n /\ localGateway[g].mode = "Sealing"
      /\ localRound' = [localRound EXCEPT ![g] =
                          [localRound[g] EXCEPT ![n] = u]]
      /\ localGateway' = [localGateway EXCEPT ![g] = w]
      /\ UNCHANGED <<economicVars, centralVars, localGrant, localToken, localCase>>
  BY DEF Sealed
<1>2. r \in LocalRoundState /\ localGateway[g] \in LocalGatewayState
  BY DEF ProtocolTypeOK
<1>3. x \in Nat
  BY <1>2 DEF LocalGatewayState
<1>4. /\ w \in LocalGatewayState /\ w.mode = "Sealed"
      /\ w.active = localGateway[g].active
      /\ w.installed = localGateway[g].installed
      /\ w.clock_floor = localGateway[g].clock_floor
      /\ w.receipt = localGateway[g].receipt
  BY <1>2 DEF LocalGatewayState
<1>. HIDE DEF r, w, x
<1>5. u \in LocalRoundState /\ u.outcome = r.outcome /\ u.seal = x
  BY <1>2, <1>3 DEF LocalRoundState
<1>. HIDE DEF u
<1>6. /\ localRound' \in [Gateways -> [Rounds -> LocalRoundState]]
      /\ localRound'[g][n] = u
      /\ \A h \in Gateways, m \in Rounds : h # g \/ m # n =>
           localRound'[h][m] = localRound[h][m]
  <2>1. localRound' = [localRound EXCEPT ![g] = [localRound[g] EXCEPT ![n] = u]]
    BY <1>1
  <2>. QED
    BY <1>5, <2>1, LocalRoundUpdate
<1>7. KeepsOutcomes
  BY <1>5, <1>6 DEF KeepsOutcomes, r
<1>8. /\ localGateway' \in [Gateways -> LocalGatewayState]
      /\ localGateway'[g] = w
      /\ SameBut(localGateway', localGateway, Gateways, g)
  BY <1>1, <1>4 DEF ProtocolTypeOK, SameBut
<1>9. ProtocolTypeOK'
  BY <1>1, <1>6, <1>8 DEF ProtocolTypeOK, centralVars
<1>10. RoundFrame
  BY <1>1, <1>4, <1>8 DEF RoundFrame, SameBut, economicVars, centralVars
<1>. QED
  BY <1>1, <1>4, <1>5, <1>6, <1>7, <1>8, <1>9, <1>10
     DEF Seals, KeepsPlace, x

LEMMA InstallStep ==
  ASSUME ProtocolTypeOK, NEW g \in Gateways, NEW n \in Rounds, Install(g, n)
  PROVE  ProtocolTypeOK' /\ RoundFrame /\ Installs(g, n)
<1>. DEFINE r == localRound[g][n]
            x == round[n].status
            floor == Floor(g, n)
            u == [r EXCEPT !.outcome = x]
            w == [mode |-> "Open", active |-> 0, installed |-> n,
                  clock_floor |-> floor, receipt |-> localGateway[g].receipt]
<1>1. /\ round[n].status \in Terminal /\ g \in round[n].gateways
      /\ Current(g, n)
      /\ localRound' = [localRound EXCEPT ![g] =
                          [localRound[g] EXCEPT ![n] = u]]
      /\ localGateway' = [localGateway EXCEPT ![g] = w]
      /\ UNCHANGED <<economicVars, centralVars, localGrant, localToken, localCase>>
  BY DEF Install, Terminal
<1>2. /\ r \in LocalRoundState /\ n \in Nat
      /\ localGateway[g] \in LocalGatewayState /\ round[n] \in RoundState
  BY ProtocolAssumption DEF ProtocolTypeOK, Rounds
<1>3. floor \in Nat
  <2>1. /\ localGateway[g].clock_floor \in Nat
        /\ round[n].closed_at \in Nat \union {Never}
    BY <1>2 DEF LocalGatewayState, RoundState
  <2>. QED
    BY <2>1 DEF Floor, Never
<1>. HIDE DEF floor
<1>4. /\ w \in LocalGatewayState /\ w.mode = "Open" /\ w.active = 0
      /\ w.installed = n /\ w.clock_floor = floor
      /\ w.receipt = localGateway[g].receipt
  BY <1>2, <1>3 DEF LocalGatewayState
<1>. HIDE DEF r, w
<1>5. u \in LocalRoundState /\ u.outcome = x /\ u.seal = r.seal
  BY <1>1, <1>2 DEF LocalRoundState, Terminal
<1>. HIDE DEF u
<1>6. /\ localRound' \in [Gateways -> [Rounds -> LocalRoundState]]
      /\ localRound'[g][n] = u
      /\ \A h \in Gateways, m \in Rounds : h # g \/ m # n =>
           localRound'[h][m] = localRound[h][m]
  BY <1>1, <1>5, LocalRoundUpdate
<1>7. KeepsSeals
  BY <1>5, <1>6 DEF KeepsSeals, r
<1>8. /\ localGateway' \in [Gateways -> LocalGatewayState]
      /\ localGateway'[g] = w
      /\ SameBut(localGateway', localGateway, Gateways, g)
  BY <1>1, <1>4 DEF ProtocolTypeOK, SameBut
<1>9. ProtocolTypeOK'
  BY <1>1, <1>6, <1>8 DEF ProtocolTypeOK, centralVars
<1>10. RoundFrame
  BY <1>1, <1>4, <1>8 DEF RoundFrame, SameBut, economicVars, centralVars
<1>. QED
  BY <1>1, <1>4, <1>5, <1>6, <1>7, <1>8, <1>9, <1>10 DEF Installs, floor

LEMMA DrainStep ==
  ASSUME ProtocolTypeOK, NEW g \in Gateways, NEW n \in Rounds, Drain(g, n)
  PROVE  ProtocolTypeOK' /\ RoundFrame /\ Drains(g, n)
<1>. DEFINE r == round[n]
            x == localRound[g][n].seal
            seal == [r.seal EXCEPT ![g] = x]
            u == [r EXCEPT !.seal = seal]
<1>1. /\ r.status = "Draining" /\ x # Never /\ Drained(g, n)
      /\ round' = [round EXCEPT ![n] = u]
      /\ UNCHANGED <<economicVars, grant, token, gateway, enrollment, localVars>>
  BY DEF Drain
<1>2. r \in RoundState /\ r.seal \in [Gateways -> Nat \union {Never}]
      /\ x \in Nat \union {Never}
  BY DEF ProtocolTypeOK, RoundState, LocalRoundState
<1>. HIDE DEF r, x
<1>3. /\ seal \in [Gateways -> Nat \union {Never}] /\ seal[g] = x
      /\ SameBut(seal, r.seal, Gateways, g)
  BY <1>2 DEF SameBut
<1>. HIDE DEF seal
<1>4. /\ u \in RoundState /\ u.status = r.status /\ u.families = r.families
      /\ u.gateways = r.gateways /\ u.cutoff = r.cutoff
      /\ u.predecessor = r.predecessor /\ u.acknowledged = r.acknowledged
      /\ u.seal = seal
  BY <1>2, <1>3 DEF RoundState
<1>. HIDE DEF u
<1>5. /\ round' \in [Rounds -> RoundState] /\ round'[n] = u
      /\ SameBut(round', round, Rounds, n)
  BY <1>1, <1>4 DEF ProtocolTypeOK, SameBut
<1>6. ProtocolTypeOK'
  BY <1>1, <1>5 DEF ProtocolTypeOK, localVars
<1>7. RoundFrame
  BY <1>1 DEF RoundFrame, economicVars, localVars
<1>8. KeepsTerms(n)
  BY <1>4, <1>5 DEF KeepsTerms, r
<1>. QED
  BY <1>1, <1>3, <1>4, <1>5, <1>6, <1>7, <1>8 DEF Drains, r, x

LEMMA ReadyStep ==
  ASSUME ProtocolTypeOK, NEW n \in Rounds, Ready(n)
  PROVE  ProtocolTypeOK' /\ RoundFrame /\ Readies(n)
<1>. DEFINE r == round[n]
            u == [r EXCEPT !.status = "Ready"]
<1>1. /\ r.status = "Draining" /\ AllDrained(n)
      /\ round' = [round EXCEPT ![n] = u]
      /\ UNCHANGED <<economicVars, grant, token, gateway, enrollment, localVars>>
  BY DEF Ready
<1>2. r \in RoundState
  BY DEF ProtocolTypeOK
<1>. HIDE DEF r
<1>3. /\ u \in RoundState /\ u.status = "Ready" /\ u.families = r.families
      /\ u.gateways = r.gateways /\ u.cutoff = r.cutoff
      /\ u.predecessor = r.predecessor /\ u.acknowledged = r.acknowledged
      /\ u.seal = r.seal
  BY <1>2 DEF RoundState
<1>. HIDE DEF u
<1>4. /\ round' \in [Rounds -> RoundState] /\ round'[n] = u
      /\ SameBut(round', round, Rounds, n)
  BY <1>1, <1>3 DEF ProtocolTypeOK, SameBut
<1>5. ProtocolTypeOK'
  BY <1>1, <1>4 DEF ProtocolTypeOK, localVars
<1>6. RoundFrame
  BY <1>1 DEF RoundFrame, economicVars, localVars
<1>7. KeepsCourse(n)
  BY <1>3, <1>4 DEF KeepsCourse, KeepsTerms, r
<1>. QED
  BY <1>1, <1>3, <1>4, <1>5, <1>6, <1>7 DEF Readies, r

CommittedRound(r, at) == [r EXCEPT !.status = "Committed", !.closed_at = at]

LEMMA CommittingRound ==
  ASSUME NEW r \in RoundState
  PROVE  \A at \in Nat :
           LET u == CommittedRound(r, at)
           IN /\ u \in RoundState /\ u.status = "Committed"
              /\ u.closed_at = at /\ u.families = r.families
              /\ u.gateways = r.gateways /\ u.cutoff = r.cutoff
              /\ u.predecessor = r.predecessor
              /\ u.acknowledged = r.acknowledged /\ u.seal = r.seal
  BY DEF RoundState, CommittedRound

LEMMA FinishType ==
  ASSUME ProtocolTypeOK, NEW n \in Rounds, FinishIfEmpty(n)
  PROVE  enrollment' \in [active_round : Nat, last_round : Nat]
<1>1. n \in Nat
  BY ProtocolAssumption DEF Rounds
<1>. QED
  BY <1>1 DEF FinishIfEmpty, ProtocolTypeOK

LEMMA ProtocolCloseStep ==
  ASSUME ProtocolTypeOK, NEW n \in Rounds, NEW at \in Nat, Close(n, at)
  PROVE  ProtocolTypeOK' /\ RoundFrame /\ Commits(n, at)
<1>. DEFINE r == round[n]
            u == CommittedRound(r, at)
<1>1. /\ r.status = "Ready" /\ CloseFamilies(n, r.families, at)
      /\ round' = [round EXCEPT ![n] = u]
      /\ FinishIfEmpty(n)
      /\ UNCHANGED <<grant, token, gateway, localVars>>
  BY DEF Close, CommittedRound
<1>2. r \in RoundState
  BY DEF ProtocolTypeOK
<1>. HIDE DEF r
<1>3. /\ u \in RoundState /\ u.status = "Committed" /\ u.closed_at = at
      /\ u.families = r.families
      /\ u.gateways = r.gateways /\ u.cutoff = r.cutoff
      /\ u.predecessor = r.predecessor /\ u.acknowledged = r.acknowledged
      /\ u.seal = r.seal
  BY <1>2, CommittingRound
<1>. HIDE DEF u
<1>4. /\ round' \in [Rounds -> RoundState] /\ round'[n] = u
      /\ SameBut(round', round, Rounds, n)
  BY <1>1, <1>3 DEF ProtocolTypeOK, SameBut
<1>5. ProtocolTypeOK'
  BY <1>1, <1>4, FinishType DEF ProtocolTypeOK, localVars
<1>6. RoundFrame
  BY <1>1 DEF RoundFrame, CloseFamilies, localVars
<1>7. KeepsCourse(n)
  BY <1>3, <1>4 DEF KeepsCourse, KeepsTerms, r
<1>. QED
  BY <1>1, <1>3, <1>4, <1>5, <1>6, <1>7 DEF Commits, r

LEMMA AbortStep ==
  ASSUME ProtocolTypeOK, NEW n \in Rounds, Abort(n)
  PROVE  ProtocolTypeOK' /\ RoundFrame /\ Aborts(n)
<1>. DEFINE r == round[n]
            u == [r EXCEPT !.status = "Aborted"]
<1>1. /\ r.status \in {"Draining", "Ready"}
      /\ round' = [round EXCEPT ![n] = u]
      /\ FinishIfEmpty(n)
      /\ UNCHANGED <<economicVars, grant, token, gateway, localVars>>
  BY DEF Abort
<1>2. r \in RoundState
  BY DEF ProtocolTypeOK
<1>. HIDE DEF r
<1>3. /\ u \in RoundState /\ u.status = "Aborted" /\ u.families = r.families
      /\ u.gateways = r.gateways /\ u.cutoff = r.cutoff
      /\ u.predecessor = r.predecessor /\ u.acknowledged = r.acknowledged
      /\ u.seal = r.seal
  BY <1>2 DEF RoundState
<1>. HIDE DEF u
<1>4. /\ round' \in [Rounds -> RoundState] /\ round'[n] = u
      /\ SameBut(round', round, Rounds, n)
  BY <1>1, <1>3 DEF ProtocolTypeOK, SameBut
<1>5. ProtocolTypeOK'
  BY <1>1, <1>4, FinishType DEF ProtocolTypeOK, localVars
<1>6. RoundFrame
  BY <1>1 DEF RoundFrame, economicVars, localVars
<1>7. KeepsCourse(n)
  BY <1>3, <1>4 DEF KeepsCourse, KeepsTerms, r
<1>. QED
  BY <1>1, <1>3, <1>4, <1>5, <1>6, <1>7 DEF Aborts, r

LEMMA AckInstallStep ==
  ASSUME ProtocolTypeOK, NEW g \in Gateways, NEW n \in Rounds,
         AckInstall(g, n)
  PROVE  ProtocolTypeOK' /\ RoundFrame /\ Acknowledges(g, n)
<1>. DEFINE r == round[n]
            acked == r.acknowledged \union {g}
            u == [r EXCEPT !.acknowledged = acked]
            v == [gateway[g] EXCEPT !.acknowledged = n]
<1>1. /\ r.status \in Terminal /\ g \in r.gateways /\ g \notin r.acknowledged
      /\ localRound[g][n].outcome = r.status
      /\ round' = [round EXCEPT ![n] = u]
      /\ gateway' = [gateway EXCEPT ![g] = v]
      /\ enrollment' = IF acked = r.gateways
                       THEN [active_round |-> 0, last_round |-> n]
                       ELSE enrollment
      /\ UNCHANGED <<economicVars, grant, token, localVars>>
  BY DEF AckInstall, Finishes, Terminal
<1>2. /\ r \in RoundState /\ gateway[g] \in GatewayState /\ n \in Nat
      /\ acked \in SUBSET Gateways
  BY ProtocolAssumption DEF ProtocolTypeOK, Rounds, RoundState
<1>3. /\ v \in GatewayState /\ v.acknowledged = n
      /\ v.allocation = gateway[g].allocation
      /\ v.allocation_prefix = gateway[g].allocation_prefix
      /\ v.receipt_prefix = gateway[g].receipt_prefix
  BY <1>2 DEF GatewayState
<1>. HIDE DEF r, acked, v
<1>4. /\ u \in RoundState /\ u.status = r.status /\ u.families = r.families
      /\ u.gateways = r.gateways /\ u.cutoff = r.cutoff
      /\ u.predecessor = r.predecessor /\ u.acknowledged = acked
      /\ u.seal = r.seal /\ u.closed_at = r.closed_at
  BY <1>2 DEF RoundState
<1>. HIDE DEF u
<1>5. /\ round' \in [Rounds -> RoundState] /\ round'[n] = u
      /\ SameBut(round', round, Rounds, n)
  BY <1>1, <1>4 DEF ProtocolTypeOK, SameBut
<1>6. /\ gateway' \in [Gateways -> GatewayState] /\ gateway'[g] = v
      /\ SameBut(gateway', gateway, Gateways, g)
  BY <1>1, <1>3 DEF ProtocolTypeOK, SameBut
<1>7. enrollment' \in [active_round : Nat, last_round : Nat]
  BY <1>1, <1>2 DEF ProtocolTypeOK
<1>8. ProtocolTypeOK'
  BY <1>1, <1>5, <1>6, <1>7 DEF ProtocolTypeOK, localVars
<1>9. RoundFrame
  BY <1>1, <1>3, <1>6 DEF RoundFrame, SameBut, economicVars, localVars
<1>10. KeepsTerms(n)
  BY <1>4, <1>5 DEF KeepsTerms, r
<1>. QED
  BY <1>1, <1>3, <1>4, <1>5, <1>6, <1>8, <1>9, <1>10
     DEF Acknowledges, r, acked

RoundEffect ==
  \/ Prepares
  \/ \E g \in Gateways, n \in Rounds :
       \/ SealBegins(g, n) \/ Seals(g, n) \/ Drains(g, n)
       \/ Installs(g, n) \/ Acknowledges(g, n)
  \/ \E n \in Rounds :
       \/ Begins(n) \/ Readies(n) \/ Aborts(n)
       \/ \E at \in Nat : Commits(n, at)

LEMMA RoundEffects ==
  ASSUME ProtocolTypeOK,
         \/ \E g \in Gateways, n \in Rounds : GatewayStep(g, n)
         \/ \E n \in Rounds : RoundStep(n)
  PROVE  ProtocolTypeOK' /\ RoundFrame /\ RoundEffect
<1>1. CASE \E g \in Gateways, n \in Rounds : GatewayStep(g, n)
  <2>1. PICK g \in Gateways, n \in Rounds : GatewayStep(g, n)
    BY <1>1
  <2>. QED
    BY <2>1, PrepareRoundStep, SealBeginStep, SealedStep, DrainStep,
       InstallStep, AckInstallStep DEF GatewayStep, RoundEffect
<1>2. CASE \E n \in Rounds : RoundStep(n)
  <2>1. PICK n \in Rounds : RoundStep(n)
    BY <1>2
  <2>2. CASE \E mode \in Modes, F \in SUBSET Families, G \in SUBSET Gateways :
               Begin(n, mode, F, G)
    BY <2>2, BeginStep DEF RoundEffect
  <2>3. CASE Ready(n) \/ Abort(n)
    BY <2>3, ReadyStep, AbortStep DEF RoundEffect
  <2>4. CASE \E at \in Time : Close(n, at)
    <3>1. PICK at \in Nat : Close(n, at)
      BY <2>4, BoundAssumption DEF Time
    <3>. QED
      BY <3>1, ProtocolCloseStep DEF RoundEffect
  <2>. QED
    BY <2>1, <2>2, <2>3, <2>4 DEF RoundStep
<1>. QED
  BY <1>1, <1>2

-----------------------------------------------------------------------------
(* Every step, by what it does.                                            *)

\* A decision or a correction.
Judges == Ruling /\ UNCHANGED <<centralVars, localVars>>

StepEffect ==
  \/ TokenFrame /\ \E t \in Grants : TokenEffect(t)
  \/ RoundFrame /\ RoundEffect
  \/ Judges
  \/ UNCHANGED vars

LEMMA Types == TypeOK <=> EconomicTypeOK /\ ProtocolTypeOK
  BY DEF TypeOK, ProtocolTypeOK

LEMMA ProtocolEffects ==
  ASSUME ProtocolTypeOK, [Next]_vars
  PROVE  ProtocolTypeOK' /\ StepEffect
<1>1. CASE \E t \in Grants : TokenStep(t)
  BY <1>1, TokenEffects DEF StepEffect
<1>2. CASE \/ \E g \in Gateways, n \in Rounds : GatewayStep(g, n)
           \/ \E n \in Rounds : RoundStep(n)
  BY <1>2, RoundEffects DEF StepEffect
<1>3. CASE Rule
  BY <1>3 DEF Rule, StepEffect, Judges, ProtocolTypeOK, centralVars, localVars
<1>4. CASE UNCHANGED vars
  BY <1>4 DEF vars, StepEffect, ProtocolTypeOK, centralVars, localVars
<1>. QED
  BY <1>1, <1>2, <1>3, <1>4 DEF Next

(* The protocol is an environment of the economics.                        *)
LEMMA ProtocolIsEconomic ==
  ASSUME TypeOK, TokenInv, StepEffect
  PROVE  EconomicStep
<1>1. CASE \E t \in Grants : TokenEffect(t)
  <2>1. PICK t \in Grants : TokenEffect(t)
    BY <1>1
  <2>2. CASE Imports(t)
    <3>. DEFINE c == localToken[t].case
    <3>1. c \in Cases /\ localCase[c] \in Receipt
      BY <2>2 DEF Imports, TokenInv, TokenAgrees, TypeOK
    <3>2. Admit(c, localCase[c]) \/ UNCHANGED economicVars
      BY <2>2 DEF Imports, economicVars
    <3>. QED
      BY <3>1, <3>2 DEF EconomicStep
  <2>3. CASE UNCHANGED economicVars
    BY <2>3 DEF EconomicStep
  <2>. QED
    BY <2>1, <2>2, <2>3 DEF TokenEffect, LocalGrants, Registers, Issues,
       Retires, Activates, Receipts, Returns, Reconciles, Advances,
       AdvancesReceipt, Terminates
<1>2. CASE RoundEffect
  <2>1. CASE \E n \in Rounds, at \in Nat : Commits(n, at)
    <3>1. PICK n \in Rounds, at \in Nat : Commits(n, at)
      BY <2>1
    <3>2. n \in Nat \ {0} /\ round[n].families \in SUBSET Families
      BY ProtocolAssumption DEF Rounds, TypeOK, RoundState
    <3>. QED
      BY <3>1, <3>2 DEF Commits, EconomicStep
  <2>2. CASE UNCHANGED economicVars
    BY <2>2 DEF EconomicStep
  <2>. QED
    BY <1>2, <2>1, <2>2 DEF RoundEffect, Prepares, SealBegins, Seals, Drains,
       Installs, Acknowledges, Begins, Readies, Aborts
<1>. QED
  BY <1>1, <1>2 DEF StepEffect, Judges, vars, EconomicStep

(* What a decision or correction does to the points the protocol reads:    *)
(* what it posts is of an admitted case, and is ordinary only in a family  *)
(* that is still available.                                                *)
RulingEffect ==
  /\ \A c \in Cases :
       /\ case'[c].receipt = case[c].receipt
       /\ case[c].status # "none" <=> case'[c].status # "none"
  /\ \A f \in Families : KeepsClosure(f)
  /\ \A a \in actions' \ actions :
       /\ case[a.case].status # "none"
       /\ a.kind = "Ordinary" => ~family[FamilyOf[a.case]].unavailable

LEMMA BindingKeeps ==
  ASSUME NEW c \in Cases, Rules(c)
  PROVE  /\ \A d \in Cases :
              /\ case'[d].receipt = case[d].receipt
              /\ case[d].status # "none" <=> case'[d].status # "none"
         /\ \A f \in Families : KeepsClosure(f)
         /\ case[c].status # "none"
  BY DEF Rules, Binds

LEMMA Posts ==
  ASSUME NEW c, NEW r, NEW k, NEW n, NEW a \in Post(c, r, k, n)
  PROVE  a.case = c /\ a.kind = k
  BY DEF Post

LEMMA RulingEffects ==
  ASSUME EconomicTypeOK, Ruling
  PROVE  RulingEffect
<1>1. PICK c \in Cases : Decide(c) \/ CorrectSome(c)
  BY DEF Ruling
<1>2. CASE Decide(c)
  <2>1. PICK now \in Time :
          \/ Deny(c, now)
          \/ AllowOrdinary(c, now)
          \/ \E p \in Pools, n \in Amounts : AllowAdjustment(c, p, n, now)
    BY <1>2 DEF Decide
  <2>2. CASE Deny(c, now)
    <3>1. Denies(c)
      BY <2>2, DenyStep
    <3>. QED
      BY <3>1 DEF Denies, RulingEffect, KeepsClosure
  <2>3. CASE AllowOrdinary(c, now)
    <3>1. Rules(c)
      BY <2>3, AllowOrdinaryStep
    <3>2. ~family[FamilyOf[c]].unavailable
      BY <2>3 DEF AllowOrdinary
    <3>3. actions' = actions \union
            Post(c, 1, "Ordinary", Terms[FamilyOf[c]].ordinary_atoms)
      BY <2>3 DEF AllowOrdinary, AllowRetail, AllowSupplier, Allow
    <3>. QED
      BY <3>1, <3>2, <3>3, BindingKeeps, Posts DEF RulingEffect
  <2>4. CASE \E p \in Pools, n \in Amounts : AllowAdjustment(c, p, n, now)
    <3>1. PICK p \in Pools, n \in Int : AllowAdjustment(c, p, n, now)
      BY <2>4, BoundAssumption
    <3>2. Rules(c)
      BY <3>1, AllowAdjustmentStep
    <3>3. actions' = actions \union Post(c, 1, "Adjustment", n)
      BY <3>1 DEF AllowAdjustment, Allow
    <3>. QED
      BY <3>2, <3>3, BindingKeeps, Posts DEF RulingEffect
  <2>. QED
    BY <2>1, <2>2, <2>3, <2>4
<1>3. CASE CorrectSome(c)
  <2>1. PICK now \in Time, r \in 1..MaxRevision,
             n \in Terms[FamilyOf[c]].correction_atoms : Correct(c, r, n, now)
    BY <1>3 DEF CorrectSome
  <2>2. r \in Nat
    BY BoundAssumption
  <2>3. Rules(c)
    BY <2>1, <2>2, CorrectStep
  <2>4. \A a \in actions' \ actions : a.case = c /\ a.kind # "Ordinary"
    BY <2>1, Posts DEF Correct
  <2>. QED
    BY <2>3, <2>4, BindingKeeps DEF RulingEffect
<1>. QED
  BY <1>1, <1>2, <1>3

(* Admissions and receipts are kept.                                       *)
LEMMA CasesKept ==
  ASSUME TypeOK, TokenInv, StepEffect, NEW c \in Cases
  PROVE  /\ case[c].status # "none" => /\ case'[c].status # "none"
                                       /\ case'[c].receipt = case[c].receipt
         /\ Received(c) => localCase'[c] = localCase[c]
<1>1. CASE \E t \in Grants : TokenEffect(t)
  <2>1. PICK t \in Grants : TokenEffect(t)
    BY <1>1
  <2>2. CASE Imports(t)
    <3>. DEFINE d == localToken[t].case
    <3>1. d \in Cases /\ localCase[d] \in Receipt
      BY <2>2 DEF Imports, TokenInv, TokenAgrees, TypeOK
    <3>2. CASE Admit(d, localCase[d])
      BY <2>2, <3>1, <3>2, AdmitStep DEF TypeOK, Admits, Imports, localVars
    <3>3. CASE UNCHANGED case
      BY <2>2, <3>3 DEF Imports, localVars
    <3>. QED
      BY <2>2, <3>2, <3>3 DEF Imports
  <2>3. CASE \E d \in Cases, at \in Nat : Receipts(t, d, at)
    BY <2>3 DEF Receipts, SameBut, economicVars
  <2>4. CASE UNCHANGED <<case, localCase>>
    BY <2>4
  <2>. QED
    BY <2>1, <2>2, <2>3, <2>4 DEF TokenEffect, LocalGrants, Registers, Issues,
       Retires, Activates, Returns, Reconciles, Advances,
       AdvancesReceipt, Terminates, economicVars, localVars
<1>2. CASE Judges
  BY <1>2, RulingEffects DEF Judges, TypeOK, RulingEffect, localVars
<1>3. CASE UNCHANGED <<case, localCase>>
  BY <1>3
<1>. QED
  BY <1>1, <1>2, <1>3 DEF StepEffect, RoundFrame, vars, economicVars, localVars

-----------------------------------------------------------------------------
(* The parts of the invariant that only the steps of a token touch.        *)

LEMMA TokenKept ==
  ASSUME TypeOK, TokenInv, StepEffect, NEW t \in Grants,
         grant'[t] = grant[t], token'[t].status = token[t].status,
         token'[t].case = token[t].case,
         token'[t].reconciled = token[t].reconciled,
         localGrant'[t] = localGrant[t], localToken'[t] = localToken[t]
  PROVE  TokenAgrees(t)'
<1>1. TokenAgrees(t)
  BY DEF TokenInv
<1>2. ASSUME NEW c \in Cases
      PROVE  /\ case[c].status # "none" => case'[c].status # "none"
             /\ Received(c) => Received(c)'
  BY <1>2, CasesKept DEF Received
<1>3. Imported(t)' <=> Imported(t)
  BY DEF Imported
<1>4. Imported(t) => token[t].case \in Cases
  BY <1>1 DEF TokenAgrees, Imported, Disposed
<1>. QED
  BY <1>1, <1>2, <1>3, <1>4 DEF TokenAgrees

LEMMA OtherTokens ==
  ASSUME TypeOK, TokenInv, StepEffect, NEW t \in Grants, TokenEffect(t),
         NEW u \in Grants \ {t}
  PROVE  TokenAgrees(u)'
<1>1. /\ grant'[u] = grant[u] /\ token'[u] = token[u]
      /\ localGrant'[u] = localGrant[u] /\ localToken'[u] = localToken[u]
  BY DEF TokenEffect, LocalGrants, Registers, Issues, Retires, Activates,
     Receipts, Imports, Returns, Reconciles, Advances, AdvancesReceipt,
     KeepsToken, Terminates, SameBut, localVars, centralVars
<1>. QED
  BY <1>1, TokenKept

LEMMA ThisToken ==
  ASSUME TypeOK, TokenInv, StepEffect, NEW t \in Grants, TokenEffect(t)
  PROVE  TokenAgrees(t)'
<1>1. TokenAgrees(t)
  BY DEF TokenInv
<1>2. ASSUME NEW c \in Cases
      PROVE  /\ case[c].status # "none" => case'[c].status # "none"
             /\ Received(c) => Received(c)'
  BY <1>2, CasesKept DEF Received
<1>3. Imported(t) => token[t].case \in Cases
  BY <1>1 DEF TokenAgrees, Imported, Disposed
<1>4. CASE LocalGrants(t)
  BY <1>1, <1>4 DEF LocalGrants, TokenAgrees, Imported, Received,
     economicVars, centralVars
<1>5. CASE Registers(t) \/ Retires(t)
  BY <1>1, <1>5 DEF Registers, Retires, TokenAgrees, Imported, Received,
     economicVars, localVars
<1>6. CASE Issues(t)
  <2>1. token[t].status = "none" /\ token'[t].status = "Issued"
    BY <1>1, <1>6 DEF Issues, TokenAgrees
  <2>2. localToken[t].status = "none" /\ ~localGrant[t].terminal
    BY <1>1, <1>6, <2>1 DEF Issues, TokenAgrees, Disposed
  <2>. QED
    BY <1>1, <1>6, <2>1, <2>2 DEF Issues, TokenAgrees, Imported, Disposed,
       economicVars, localVars
<1>7. CASE Activates(t)
  <2>1. token[t].status \notin Disposed
    BY <1>1, <1>7 DEF Activates, TokenAgrees, Disposed
  <2>. QED
    BY <1>1, <1>7, <2>1 DEF Activates, TokenAgrees, Imported, Disposed,
       economicVars, centralVars
<1>8. CASE \E c \in Cases, at \in Nat : Receipts(t, c, at)
  <2>1. PICK c \in Cases, at \in Nat : Receipts(t, c, at)
    BY <1>8
  <2>2. token[t].status \notin Disposed
    BY <1>1, <2>1 DEF Receipts, TokenAgrees, Disposed
  <2>3. localToken'[t].case = c /\ localToken'[t].status \in {"NewCase", "Alias"}
        /\ RouteOf[c] = GatewayOf[t]
    BY <2>1 DEF Receipts
  <2>4. Received(c)'
    <3>1. localGateway[GatewayOf[t]].receipt \in Nat
      BY ProtocolAssumption DEF TypeOK, LocalGatewayState
    <3>. QED
      BY <2>1, <3>1 DEF Receipts, Received, NoReceipt
  <2>. QED
    BY <1>1, <2>1, <2>2, <2>3, <2>4 DEF Receipts, TokenAgrees, Imported,
       Disposed, centralVars
<1>9. CASE Imports(t)
  <2>. DEFINE c == localToken[t].case
  <2>1. /\ c \in Cases /\ localCase[c] \in Receipt
        /\ localToken[t].status \in {"NewCase", "Alias"}
        /\ token'[t].status = localToken[t].status /\ token'[t].case = c
        /\ token'[t].reconciled = token[t].reconciled
        /\ token[t].status # "none"
        /\ UNCHANGED <<grant, localGrant, localToken, localCase>>
    BY <1>1, <1>9 DEF Imports, TokenAgrees, TypeOK, localVars
  <2>2. case'[c].status # "none"
    <3>1. CASE Admit(c, localCase[c])
      BY <2>1, <3>1, AdmitStep DEF TypeOK, Admits
    <3>2. CASE OriginalImported(c) /\ UNCHANGED case
      BY <3>2 DEF OriginalImported
    <3>. QED
      BY <1>9, <3>1, <3>2 DEF Imports
  <2>. QED
    BY <1>1, <2>1, <2>2 DEF TokenAgrees, Imported, Disposed, Received
<1>10. CASE Returns(t)
  <2>1. token[t].status \notin Disposed
    BY <1>1, <1>10 DEF Returns, TokenAgrees, Disposed
  <2>. QED
    BY <1>1, <1>10, <2>1 DEF Returns, TokenAgrees, Imported, Disposed,
       economicVars, centralVars
<1>11. CASE Reconciles(t)
  BY <1>1, <1>11 DEF Reconciles, TokenAgrees, Imported, Received, Disposed,
     economicVars, localVars
<1>12. CASE Advances(t) \/ AdvancesReceipt(t)
  BY <1>1, <1>12 DEF Advances, AdvancesReceipt, KeepsToken, TokenAgrees,
     Imported, Received, economicVars, localVars
<1>13. CASE Terminates(t)
  BY <1>1, <1>13 DEF Terminates, TokenAgrees, Imported, Received,
     economicVars, centralVars
<1>. QED
  BY <1>4, <1>5, <1>6, <1>7, <1>8, <1>9, <1>10, <1>11, <1>12, <1>13
     DEF TokenEffect

LEMMA TokenInvStep ==
  ASSUME TypeOK, TokenInv, StepEffect
  PROVE  TokenInv'
<1>1. CASE \E t \in Grants : TokenEffect(t)
  BY <1>1, ThisToken, OtherTokens DEF TokenInv
<1>2. CASE UNCHANGED <<grant, token, localGrant, localToken>>
  BY <1>2, TokenKept DEF TokenInv
<1>. QED
  BY <1>1, <1>2 DEF StepEffect, RoundFrame, Judges, vars, centralVars, localVars

(* Receipts grow only by the receipt of a case not received before.        *)
NewReceipt(c, at) ==
  LET g == RouteOf[c]
      position == localGateway[g].receipt + 1
  IN
  /\ UNCHANGED <<economicVars, centralVars>>
  /\ localGateway[g].mode = "Open" /\ localGateway[g].clock_floor <= at
  /\ ~Received(c)
  /\ localCase'[c] = [position |-> position, received_at |-> at]
  /\ localGateway'[g].receipt = position
  /\ SameBut(localCase', localCase, Cases, c)
  /\ \A h \in Gateways \ {g} : localGateway'[h].receipt = localGateway[h].receipt

SameReceipts ==
  /\ UNCHANGED localCase
  /\ \A g \in Gateways : localGateway'[g].receipt = localGateway[g].receipt

LEMMA ReceiptEffects ==
  ASSUME TypeOK, StepEffect
  PROVE  SameReceipts \/ \E c \in Cases, at \in Nat : NewReceipt(c, at)
<1>1. CASE \E t \in Grants : TokenEffect(t)
  <2>1. PICK t \in Grants : TokenEffect(t)
    BY <1>1
  <2>2. CASE \E c \in Cases, at \in Nat : Receipts(t, c, at)
    <3>1. PICK c \in Cases, at \in Nat : Receipts(t, c, at)
      BY <2>2
    <3>2. CASE ~Received(c)
      <4>1. NewReceipt(c, at)
        BY <3>1, <3>2 DEF Receipts, NewReceipt, SameBut
      <4>. QED
        BY <4>1
    <3>. QED
      BY <3>1, <3>2 DEF Receipts, SameReceipts
  <2>3. CASE UNCHANGED <<localCase, localGateway>>
    BY <2>3 DEF SameReceipts
  <2>. QED
    BY <2>1, <2>2, <2>3 DEF TokenEffect, LocalGrants, Registers, Issues,
       Retires, Activates, Imports, Returns, Reconciles, Advances,
       AdvancesReceipt, Terminates, localVars
<1>2. CASE RoundFrame
  BY <1>2 DEF RoundFrame, SameReceipts
<1>3. CASE UNCHANGED localVars
  BY <1>3 DEF localVars, SameReceipts
<1>. QED
  BY <1>1, <1>2, <1>3 DEF StepEffect, Judges, vars

(* A case is newly admitted only with the receipt its gateway gave it.     *)
LEMMA AdmissionEffects ==
  ASSUME TypeOK, TokenInv, StepEffect, NEW c \in Cases,
         case[c].status = "none", case'[c].status # "none"
  PROVE  /\ Received(c) /\ UNCHANGED localCase
         /\ case'[c].receipt = localCase[c]
<1>1. CASE \E t \in Grants : TokenEffect(t)
  <2>1. PICK t \in Grants : TokenEffect(t)
    BY <1>1
  <2>2. CASE Imports(t)
    <3>. DEFINE d == localToken[t].case
    <3>1. d \in Cases /\ localCase[d] \in Receipt /\ Received(d)
      BY <2>2 DEF Imports, TokenInv, TokenAgrees, TypeOK
    <3>2. Admit(d, localCase[d])
      BY <2>2 DEF Imports
    <3>3. d = c /\ case'[c].receipt = localCase[c]
      BY <3>1, <3>2, AdmitStep DEF TypeOK, Admits
    <3>. QED
      BY <2>2, <3>1, <3>3 DEF Imports, localVars
  <2>3. ~ UNCHANGED case
    OBVIOUS
  <2>. QED
    BY <2>1, <2>2, <2>3 DEF TokenEffect, LocalGrants, Registers, Issues,
       Retires, Activates, Receipts, Returns, Reconciles, Advances,
       AdvancesReceipt, Terminates, economicVars
<1>2. CASE Judges
  BY <1>2, RulingEffects DEF Judges, TypeOK, RulingEffect
<1>3. ~ UNCHANGED case
  OBVIOUS
<1>. QED
  BY <1>1, <1>2, <1>3 DEF StepEffect, RoundFrame, vars, economicVars

LEMMA ReceiptInvStep ==
  ASSUME TypeOK, TokenInv, ReceiptInv, StepEffect
  PROVE  ReceiptInv'
<1>1. ASSUME NEW c \in Cases, case'[c].status # "none"
      PROVE  Received(c)' /\ case'[c].receipt = localCase'[c]
  <2>1. CASE case[c].status # "none"
    BY <1>1, <2>1, CasesKept DEF ReceiptInv, Received
  <2>2. CASE case[c].status = "none"
    BY <1>1, <2>2, AdmissionEffects DEF Received
  <2>. QED
    BY <2>1, <2>2
<1>2. \A c \in Cases : /\ localCase[c].position \in Nat
                       /\ localGateway[RouteOf[c]].receipt \in Nat
                       /\ RouteOf[c] \in Gateways
  BY ProtocolAssumption DEF TypeOK, Receipt, LocalGatewayState
<1>3. CASE SameReceipts
  BY <1>1, <1>2, <1>3 DEF SameReceipts, ReceiptInv, Received
<1>4. CASE \E c \in Cases, at \in Nat : NewReceipt(c, at)
  <2>1. PICK c \in Cases, at \in Nat : NewReceipt(c, at)
    BY <1>4
  <2>. DEFINE g == RouteOf[c]
              position == localGateway[g].receipt + 1
  <2>2. /\ localCase'[c].position = position
        /\ localGateway'[g].receipt = position
        /\ position \in Nat /\ 1 <= position
    BY <1>2, <2>1 DEF NewReceipt
  <2>3. ASSUME NEW d \in Cases \ {c}
        PROVE  /\ localCase'[d] = localCase[d]
               /\ Received(d)' <=> Received(d)
               /\ Received(d) => /\ 1 <= localCase[d].position
                                 /\ localCase[d].position
                                      <= localGateway'[RouteOf[d]].receipt
               /\ Received(d) /\ RouteOf[d] = g =>
                    localCase[d].position < position
    <3>1. localCase'[d] = localCase[d]
      BY <2>1 DEF NewReceipt, SameBut
    <3>2. Received(d) => /\ 1 <= localCase[d].position
                         /\ localCase[d].position <= localGateway[RouteOf[d]].receipt
      BY DEF ReceiptInv
    <3>3. IF RouteOf[d] = g THEN localGateway'[RouteOf[d]].receipt = position
          ELSE localGateway'[RouteOf[d]].receipt = localGateway[RouteOf[d]].receipt
      BY <1>2, <2>1, <2>2 DEF NewReceipt
    <3>4. Received(d)' <=> Received(d)
      BY <3>1 DEF Received
    <3>5. /\ localCase[d].position \in Nat
          /\ localGateway[RouteOf[d]].receipt \in Nat
      BY <1>2
    <3>. QED
      BY <3>1, <3>2, <3>3, <3>4, <3>5
  <2>4. ASSUME NEW d \in Cases, NEW e \in Cases, Received(d)', Received(e)',
               RouteOf[d] = RouteOf[e],
               localCase'[d].position = localCase'[e].position
        PROVE  d = e
    <3>1. CASE d = c \/ e = c
      BY <1>2, <2>2, <2>3, <2>4, <3>1
    <3>2. CASE d # c /\ e # c
      BY <2>3, <2>4, <3>2 DEF ReceiptInv
    <3>. QED
      BY <3>1, <3>2
  <2>. QED
    BY <1>1, <2>2, <2>3, <2>4 DEF ReceiptInv
<1>. QED
  BY <1>3, <1>4, ReceiptEffects

(* Allocations grow only by an issue.                                      *)
SameAllocations ==
  /\ \A t \in Grants : /\ token'[t].allocation = token[t].allocation
                       /\ token[t].status = "none" <=> token'[t].status = "none"
  /\ \A g \in Gateways : gateway'[g].allocation = gateway[g].allocation

LEMMA AllocationEffects ==
  ASSUME TypeOK, TokenInv, StepEffect
  PROVE  SameAllocations \/ \E t \in Grants : Issues(t)
<1>1. CASE \E t \in Grants : TokenEffect(t)
  <2>1. PICK t \in Grants : TokenEffect(t)
    BY <1>1
  <2>2. CASE Imports(t)
    BY <2>2 DEF Imports, SameBut, SameAllocations
  <2>3. CASE Reconciles(t)
    BY <2>3 DEF Reconciles, SameBut, SameAllocations, Imported
  <2>4. CASE Advances(t) \/ AdvancesReceipt(t)
    BY <2>4 DEF Advances, AdvancesReceipt, KeepsToken, SameBut, SameAllocations
  <2>5. CASE UNCHANGED <<token, gateway>>
    BY <2>5 DEF SameAllocations
  <2>. QED
    BY <2>1, <2>2, <2>3, <2>4, <2>5 DEF TokenEffect, LocalGrants, Registers,
       Retires, Activates, Receipts, Returns, Terminates, centralVars
<1>2. CASE RoundFrame
  BY <1>2 DEF RoundFrame, SameAllocations
<1>3. CASE UNCHANGED <<token, gateway>>
  BY <1>3 DEF SameAllocations
<1>. QED
  BY <1>1, <1>2, <1>3 DEF StepEffect, Judges, vars, centralVars

LEMMA AllocationInvStep ==
  ASSUME TypeOK, TokenInv, AllocationInv, StepEffect
  PROVE  AllocationInv'
<1>1. CASE SameAllocations
  BY <1>1, ProtocolAssumption DEF SameAllocations, AllocationInv
<1>2. CASE \E t \in Grants : Issues(t)
  <2>1. PICK t \in Grants : Issues(t)
    BY <1>2
  <2>. DEFINE g == GatewayOf[t]
              a == gateway[g].allocation + 1
  <2>2. \A h \in Gateways : gateway[h].allocation \in Nat
    BY DEF TypeOK, GatewayState
  <2>3. /\ g \in Gateways /\ a \in Nat /\ 1 <= a
        /\ token'[t].status # "none" /\ token'[t].allocation = a
        /\ gateway'[g].allocation = a
    BY <2>1, <2>2, ProtocolAssumption DEF Issues
  <2>4. ASSUME NEW u \in Grants \ {t}
        PROVE  /\ token'[u] = token[u]
               /\ token[u].status # "none" =>
                    /\ 1 <= token[u].allocation
                    /\ token[u].allocation
                         <= gateway'[GatewayOf[u]].allocation
               /\ token[u].status # "none" /\ GatewayOf[u] = g =>
                    token[u].allocation < a
    <3>1. /\ token'[u] = token[u] /\ token[u].allocation \in Nat
          /\ GatewayOf[u] \in Gateways
      BY <2>1, ProtocolAssumption DEF Issues, SameBut, TypeOK, TokenState
    <3>2. token[u].status # "none" =>
            /\ 1 <= token[u].allocation
            /\ token[u].allocation <= gateway[GatewayOf[u]].allocation
      BY DEF AllocationInv
    <3>3. IF GatewayOf[u] = g THEN gateway'[GatewayOf[u]].allocation = a
          ELSE gateway'[GatewayOf[u]].allocation
                 = gateway[GatewayOf[u]].allocation
      BY <2>1, <2>3, <3>1 DEF Issues, SameBut
    <3>4. gateway[GatewayOf[u]].allocation \in Nat
      BY <2>2, <3>1
    <3>. QED
      BY <3>1, <3>2, <3>3, <3>4
  <2>5. ASSUME NEW u \in Grants, NEW v \in Grants,
               token'[u].status # "none", token'[v].status # "none",
               GatewayOf[u] = GatewayOf[v],
               token'[u].allocation = token'[v].allocation
        PROVE  u = v
    <3>1. CASE u = t \/ v = t
      BY <2>3, <2>4, <2>5, <3>1
    <3>2. CASE u # t /\ v # t
      BY <2>4, <2>5, <3>2 DEF AllocationInv
    <3>. QED
      BY <3>1, <3>2
  <2>6. ASSUME NEW u \in Grants, token'[u].status = "none"
        PROVE  token'[u].allocation = 0
    BY <2>3, <2>4, <2>6 DEF AllocationInv
  <2>. QED
    BY <2>3, <2>4, <2>5, <2>6 DEF AllocationInv
<1>. QED
  BY <1>1, <1>2, AllocationEffects

(* A reconciled token stays so.                                            *)
LEMMA ReconciledKept ==
  ASSUME TypeOK, TokenInv, StepEffect, NEW t \in Grants, token[t].reconciled
  PROVE  token'[t].reconciled /\ token'[t].allocation = token[t].allocation
<1>1. token[t].status # "none" /\ grant[t] = "Claimed"
  BY DEF TokenInv, TokenAgrees, Disposed
<1>2. CASE \E u \in Grants : TokenEffect(u)
  <2>1. PICK u \in Grants : TokenEffect(u)
    BY <1>2
  <2>2. CASE Issues(u)
    BY <1>1, <2>2 DEF Issues, SameBut
  <2>3. CASE Imports(u)
    BY <2>3 DEF Imports, SameBut
  <2>4. CASE Reconciles(u)
    BY <2>4 DEF Reconciles, SameBut
  <2>5. CASE Advances(u) \/ AdvancesReceipt(u)
    BY <2>5 DEF Advances, AdvancesReceipt, KeepsToken, SameBut
  <2>6. CASE UNCHANGED token
    BY <2>6
  <2>. QED
    BY <2>1, <2>2, <2>3, <2>4, <2>5, <2>6 DEF TokenEffect, LocalGrants,
       Registers, Retires, Activates, Receipts, Returns, Terminates, centralVars
<1>3. CASE UNCHANGED token
  BY <1>3
<1>. QED
  BY <1>2, <1>3 DEF StepEffect, RoundFrame, Judges, vars, centralVars

(* Prefixes move only by the two advances.                                 *)
SamePrefixes ==
  \A g \in Gateways :
    /\ gateway'[g].allocation_prefix = gateway[g].allocation_prefix
    /\ gateway'[g].receipt_prefix = gateway[g].receipt_prefix

LEMMA PrefixEffects ==
  ASSUME TypeOK, StepEffect
  PROVE  SamePrefixes \/ \E t \in Grants : Advances(t) \/ AdvancesReceipt(t)
<1>1. CASE \E t \in Grants : TokenEffect(t)
  <2>1. PICK t \in Grants : TokenEffect(t)
    BY <1>1
  <2>2. CASE Issues(t)
    BY <2>2 DEF Issues, SameBut, SamePrefixes
  <2>3. CASE UNCHANGED gateway
    BY <2>3 DEF SamePrefixes
  <2>. QED
    BY <2>1, <2>2, <2>3 DEF TokenEffect, LocalGrants, Registers, Retires,
       Activates, Receipts, Imports, Returns, Reconciles, Terminates, centralVars
<1>2. CASE RoundFrame
  BY <1>2 DEF RoundFrame, SamePrefixes
<1>3. CASE UNCHANGED gateway
  BY <1>3 DEF SamePrefixes
<1>. QED
  BY <1>1, <1>2, <1>3 DEF StepEffect, Judges, vars, centralVars

LEMMA BelowPrefixes ==
  ASSUME TypeOK, TokenInv, ReceiptInv, AllocationInv, PrefixesAreDense,
         StepEffect, NEW g \in Gateways
  PROVE  /\ gateway[g].allocation_prefix <= gateway'[g].allocation
         /\ \A t \in Grants :
              /\ GatewayOf[t] = g
              /\ token'[t].allocation \in 1..gateway[g].allocation_prefix
              => token'[t].reconciled
         /\ gateway[g].receipt_prefix <= localGateway'[g].receipt
         /\ \A c \in Cases :
              /\ RouteOf[c] = g
              /\ localCase'[c].position \in 1..gateway[g].receipt_prefix
              => case'[c].status # "none"
<1>1. /\ gateway[g].allocation_prefix \in Nat /\ gateway[g].allocation \in Nat
      /\ gateway[g].receipt_prefix \in Nat /\ localGateway[g].receipt \in Nat
  BY DEF TypeOK, GatewayState, LocalGatewayState
<1>2. /\ gateway[g].allocation_prefix <= gateway[g].allocation
      /\ gateway[g].receipt_prefix <= localGateway[g].receipt
      /\ \A t \in Grants :
           /\ GatewayOf[t] = g
           /\ token[t].allocation \in 1..gateway[g].allocation_prefix
           => token[t].reconciled
      /\ \A c \in Cases :
           /\ RouteOf[c] = g
           /\ localCase[c].position \in 1..gateway[g].receipt_prefix
           => case[c].status # "none"
  BY DEF PrefixesAreDense
<1>3. /\ gateway[g].allocation_prefix <= gateway'[g].allocation
      /\ \A t \in Grants :
           /\ GatewayOf[t] = g
           /\ token'[t].allocation \in 1..gateway[g].allocation_prefix
           => token'[t].reconciled
  <2>1. CASE SameAllocations
    BY <1>2, <2>1, ReconciledKept DEF SameAllocations
  <2>2. CASE \E t \in Grants : Issues(t)
    <3>1. PICK t \in Grants : Issues(t)
      BY <2>2
    <3>2. gateway[g].allocation_prefix <= gateway'[g].allocation
      <4>1. gateway'[g].allocation
              \in {gateway[g].allocation, gateway[g].allocation + 1}
        BY <3>1, ProtocolAssumption DEF Issues, SameBut
      <4>. QED
        BY <1>1, <1>2, <4>1
    <3>3. GatewayOf[t] = g =>
            token'[t].allocation \notin 1..gateway[g].allocation_prefix
      <4>1. GatewayOf[t] = g =>
              token'[t].allocation = gateway[g].allocation + 1
        BY <3>1 DEF Issues
      <4>. QED
        BY <1>1, <1>2, <4>1
    <3>4. ASSUME NEW u \in Grants \ {t}
          PROVE  /\ token'[u].allocation = token[u].allocation
                 /\ token'[u].reconciled = token[u].reconciled
      BY <3>1 DEF Issues, SameBut
    <3>. QED
      BY <1>2, <3>2, <3>3, <3>4
  <2>. QED
    BY <2>1, <2>2, AllocationEffects
<1>4. /\ gateway[g].receipt_prefix <= localGateway'[g].receipt
      /\ \A c \in Cases :
           /\ RouteOf[c] = g
           /\ localCase'[c].position \in 1..gateway[g].receipt_prefix
           => case'[c].status # "none"
  <2>1. CASE SameReceipts
    BY <1>2, <2>1, CasesKept DEF SameReceipts
  <2>2. CASE \E c \in Cases, at \in Nat : NewReceipt(c, at)
    <3>1. PICK c \in Cases, at \in Nat : NewReceipt(c, at)
      BY <2>2
    <3>2. gateway[g].receipt_prefix <= localGateway'[g].receipt
      <4>1. localGateway'[g].receipt
              \in {localGateway[g].receipt, localGateway[g].receipt + 1}
        BY <3>1, ProtocolAssumption DEF NewReceipt
      <4>. QED
        BY <1>1, <1>2, <4>1
    <3>3. RouteOf[c] = g =>
            localCase'[c].position \notin 1..gateway[g].receipt_prefix
      <4>1. RouteOf[c] = g =>
              localCase'[c].position = localGateway[g].receipt + 1
        BY <3>1 DEF NewReceipt
      <4>. QED
        BY <1>1, <1>2, <4>1
    <3>4. \A d \in Cases \ {c} : localCase'[d] = localCase[d]
      BY <3>1 DEF NewReceipt, SameBut
    <3>. QED
      BY <1>2, <3>2, <3>3, <3>4, CasesKept
  <2>. QED
    BY <2>1, <2>2, ReceiptEffects
<1>. QED
  BY <1>3, <1>4

LEMMA PrefixesStep ==
  ASSUME TypeOK, TokenInv, ReceiptInv, AllocationInv, PrefixesAreDense,
         StepEffect
  PROVE  PrefixesAreDense'
<1>1. \A g \in Gateways :
        /\ gateway[g].allocation_prefix \in Nat
        /\ gateway[g].allocation \in Nat
        /\ gateway[g].receipt_prefix \in Nat
        /\ localGateway[g].receipt \in Nat
  BY DEF TypeOK, GatewayState, LocalGatewayState
<1>2. CASE SamePrefixes
  BY <1>2, BelowPrefixes DEF SamePrefixes, PrefixesAreDense
<1>3. CASE \E t \in Grants : Advances(t)
  <2>1. PICK t \in Grants : Advances(t)
    BY <1>3
  <2>. DEFINE g == GatewayOf[t]
              p == gateway[g].allocation_prefix + 1
  <2>2. /\ g \in Gateways /\ gateway'[g].allocation_prefix = p
        /\ gateway'[g].receipt_prefix = gateway[g].receipt_prefix
        /\ \A h \in Gateways \ {g} : gateway'[h] = gateway[h]
        /\ gateway'[g].allocation = gateway[g].allocation
    BY <2>1, ProtocolAssumption DEF Advances, SameBut
  <2>3. token[t].status # "none" /\ token[t].allocation = p /\ token[t].reconciled
    BY <2>1 DEF Advances
  <2>4. p <= gateway'[g].allocation
    BY <2>2, <2>3 DEF AllocationInv
  <2>5. ASSUME NEW u \in Grants, GatewayOf[u] = g, token'[u].allocation \in 1..p
        PROVE  token'[u].reconciled
    <3>1. CASE token'[u].allocation = p
      <4>1. token'[u].allocation = token[u].allocation
        BY <2>1 DEF Advances, KeepsToken, SameBut
      <4>2. token[u].status # "none"
        BY <1>1, <2>2, <3>1, <4>1 DEF AllocationInv
      <4>3. u = t
        BY <2>3, <2>5, <3>1, <4>1, <4>2 DEF AllocationInv
      <4>. QED
        BY <2>3, <4>3, ReconciledKept
    <3>2. CASE token'[u].allocation # p
      <4>1. token'[u].allocation \in 1..gateway[g].allocation_prefix
        BY <1>1, <2>2, <2>5, <3>2
      <4>. QED
        BY <2>2, <2>5, <4>1, BelowPrefixes
    <3>. QED
      BY <3>1, <3>2
  <2>. QED
    BY <2>2, <2>4, <2>5, BelowPrefixes DEF PrefixesAreDense
<1>4. CASE \E t \in Grants : AdvancesReceipt(t)
  <2>1. PICK t \in Grants : AdvancesReceipt(t)
    BY <1>4
  <2>. DEFINE g == GatewayOf[t]
              p == gateway[g].receipt_prefix + 1
              c == token[t].case
  <2>2. /\ g \in Gateways /\ gateway'[g].receipt_prefix = p
        /\ gateway'[g].allocation_prefix = gateway[g].allocation_prefix
        /\ \A h \in Gateways \ {g} : gateway'[h] = gateway[h]
        /\ UNCHANGED <<case, localCase, localGateway>>
    BY <2>1, ProtocolAssumption DEF AdvancesReceipt, SameBut, economicVars,
       localVars
  <2>3. /\ c \in Cases /\ case[c].status # "none" /\ RouteOf[c] = g
        /\ Received(c) /\ localCase[c].position = p
    BY <2>1 DEF AdvancesReceipt, TokenInv, TokenAgrees, Imported, Disposed,
       ReceiptInv
  <2>4. p <= localGateway'[g].receipt
    BY <2>2, <2>3 DEF ReceiptInv
  <2>5. ASSUME NEW d \in Cases, RouteOf[d] = g, localCase'[d].position \in 1..p
        PROVE  case'[d].status # "none"
    <3>1. CASE localCase'[d].position = p
      <4>1. Received(d)
        BY <1>1, <2>2, <3>1 DEF Received, NoReceipt
      <4>2. d = c
        BY <2>2, <2>3, <2>5, <3>1, <4>1 DEF ReceiptInv
      <4>. QED
        BY <2>2, <2>3, <4>2
    <3>2. CASE localCase'[d].position # p
      <4>1. localCase'[d].position \in 1..gateway[g].receipt_prefix
        BY <1>1, <2>2, <2>5, <3>2
      <4>. QED
        BY <2>2, <2>5, <4>1, BelowPrefixes
    <3>. QED
      BY <3>1, <3>2
  <2>. QED
    BY <2>2, <2>4, <2>5, BelowPrefixes DEF PrefixesAreDense
<1>. QED
  BY <1>2, <1>3, <1>4, PrefixEffects

-----------------------------------------------------------------------------
(* The rounds at the centre and the gateways.                              *)

LEMMA RoundTypes ==
  ASSUME ProtocolTypeOK, NEW n \in Rounds
  PROVE  /\ n \in Nat /\ n # 0
         /\ enrollment.active_round \in Nat /\ enrollment.last_round \in Nat
         /\ round[n].gateways \subseteq Gateways
         /\ round[n].acknowledged \subseteq Gateways
         /\ \A g \in Gateways :
              /\ round[n].predecessor[g] \in Nat
              /\ localGateway[g].installed \in Nat
              /\ gateway[g].acknowledged \in Nat
              /\ localRound[g][n].outcome \in {"none", "Committed", "Aborted"}
  BY ProtocolAssumption DEF ProtocolTypeOK, Rounds, RoundState, GatewayState,
     LocalGatewayState, LocalRoundState

\* The only round a step can find in progress is the active one.
LEMMA InProgress ==
  ASSUME ProtocolTypeOK, RoundInv, NEW n \in Rounds,
         \/ round[n].status \in {"Draining", "Ready"}
         \/ /\ round[n].status # "none"
            /\ round[n].acknowledged # round[n].gateways
  PROVE  n = enrollment.active_round /\ n = enrollment.last_round + 1
<1>1. RoundPlace(n)
  BY DEF RoundInv
<1>2. ~(n <= enrollment.last_round) /\ round[n].status # "none"
  BY <1>1 DEF RoundPlace, Terminal
<1>3. n = enrollment.active_round /\ enrollment.active_round # 0
  BY <1>1, <1>2, RoundTypes DEF RoundPlace
<1>. QED
  BY <1>3 DEF RoundInv

\* A gateway that has not installed a terminal round finds it active.
LEMMA NotInstalled ==
  ASSUME ProtocolTypeOK, RoundInv, NEW n \in Rounds, NEW g \in round[n].gateways,
         localGateway[g].installed < n
  PROVE  n = enrollment.active_round /\ n = enrollment.last_round + 1
<1>1. RoundPlace(n) /\ g \in Gateways
  BY RoundTypes DEF RoundInv
<1>2. ~(n <= enrollment.last_round) /\ round[n].status # "none"
  BY <1>1, RoundTypes DEF RoundPlace
<1>3. n = enrollment.active_round /\ enrollment.active_round # 0
  BY <1>1, <1>2, RoundTypes DEF RoundPlace
<1>. QED
  BY <1>3 DEF RoundInv

LEMMA InstallOrder ==
  ASSUME ProtocolTypeOK, RoundInv, NEW n \in Rounds, NEW g \in round[n].gateways,
         Current(g, n)
  PROVE  localGateway[g].installed < n
BY DEF RoundInv, RoundPlace, Current

\* Installing an outcome is the only step of a gateway RoundInv looks at.
LEMMA RoundsUndisturbed ==
  ASSUME ProtocolTypeOK, ProtocolTypeOK', RoundInv,
         UNCHANGED <<enrollment, round>>,
         \A g \in Gateways :
           /\ gateway'[g].acknowledged = gateway[g].acknowledged
           /\ localGateway[g].installed <= localGateway'[g].installed
  PROVE  RoundInv'
<1>1. ASSUME NEW n \in Rounds
      PROVE  RoundPlace(n)'
  <2>1. RoundPlace(n) /\ n \in Nat
    BY RoundTypes DEF RoundInv
  <2>2. ASSUME NEW g \in round[n].gateways, n <= enrollment.last_round
        PROVE  n <= localGateway'[g].installed
    <3>1. /\ g \in Gateways /\ localGateway[g].installed \in Nat
          /\ localGateway'[g].installed \in Nat
      BY RoundTypes DEF ProtocolTypeOK, LocalGatewayState
    <3>2. n <= localGateway[g].installed
      BY <2>1, <2>2 DEF RoundPlace
    <3>. QED
      BY <2>1, <3>1, <3>2
  <2>3. round[n].gateways \subseteq Gateways
    BY RoundTypes
  <2>. QED
    BY <2>1, <2>2, <2>3 DEF RoundPlace
<1>. QED
  BY <1>1 DEF RoundInv

LEMMA BeginsRound ==
  ASSUME ProtocolTypeOK, ProtocolTypeOK', RoundInv, GatewayInv,
         NEW n \in Rounds, Begins(n)
  PROVE  RoundInv'
<1>1. /\ n \in Nat /\ n # 0 /\ enrollment.last_round \in Nat
      /\ n = enrollment.last_round + 1 /\ enrollment.active_round = 0
      /\ enrollment'.active_round = n
      /\ enrollment'.last_round = enrollment.last_round
      /\ UNCHANGED <<gateway, localGateway>>
  BY RoundTypes DEF Begins, localVars
<1>2. RoundPlace(n)'
  <2>1. \A g \in Gateways : gateway[g].acknowledged < n
    BY <1>1, RoundTypes DEF GatewayInv, GatewayPlace
  <2>. QED
    BY <1>1, <2>1 DEF Begins, RoundPlace
<1>3. ASSUME NEW m \in Rounds \ {n}
      PROVE  RoundPlace(m)'
  <2>1. RoundPlace(m) /\ m \in Nat /\ m # 0 /\ round'[m] = round[m]
    BY RoundTypes DEF RoundInv, Begins, SameBut
  <2>2. round[m].status = "none" <=> m > enrollment.last_round
    BY <1>1, <2>1 DEF RoundPlace
  <2>. QED
    BY <1>1, <2>1, <2>2 DEF RoundPlace
<1>. QED
  BY <1>1, <1>2, <1>3 DEF RoundInv

\* The centre moves the active round on and keeps what was acknowledged.
LEMMA RoundProgress ==
  ASSUME ProtocolTypeOK, ProtocolTypeOK', RoundInv, NEW n \in Rounds,
         round[n].status \in {"Draining", "Ready"},
         round'[n].status \in {"Draining", "Ready"} \union Terminal,
         round'[n].acknowledged = round[n].acknowledged,
         KeepsTerms(n), SameBut(round', round, Rounds, n),
         UNCHANGED <<gateway, localGateway>>,
         \/ UNCHANGED enrollment
         \/ round'[n].status \in Terminal /\ FinishIfEmpty(n)
  PROVE  RoundInv'
<1>1. /\ n \in Nat /\ n # 0 /\ enrollment.last_round \in Nat
      /\ n = enrollment.active_round /\ n = enrollment.last_round + 1
  BY RoundTypes, InProgress
<1>2. \/ UNCHANGED enrollment
      \/ /\ round[n].gateways = {} /\ round'[n].status \in Terminal
         /\ enrollment'.active_round = 0 /\ enrollment'.last_round = n
  BY DEF FinishIfEmpty
<1>3. ASSUME NEW m \in Rounds \ {n}
      PROVE  RoundPlace(m)'
  <2>1. RoundPlace(m) /\ m \in Nat /\ m # 0 /\ round'[m] = round[m]
    BY RoundTypes DEF RoundInv, SameBut
  <2>2. CASE UNCHANGED enrollment
    BY <2>1, <2>2 DEF RoundPlace
  <2>3. CASE enrollment'.active_round = 0 /\ enrollment'.last_round = n
    <3>1. /\ m <= n <=> m <= enrollment.last_round
          /\ m > n <=> m > enrollment.last_round /\ m # enrollment.active_round
      BY <1>1, <2>1
    <3>. QED
      BY <1>1, <2>1, <2>3, <3>1 DEF RoundPlace
  <2>. QED
    BY <1>2, <2>2, <2>3
<1>4. RoundPlace(n)'
  <2>1. RoundPlace(n) /\ ~(n <= enrollment.last_round)
        /\ round[n].acknowledged = {}
    BY <1>1 DEF RoundInv, RoundPlace, Terminal
  <2>2. /\ round'[n].gateways = round[n].gateways
        /\ round'[n].predecessor = round[n].predecessor
        /\ round'[n].status # "none"
    BY DEF KeepsTerms, Terminal
  <2>3. CASE UNCHANGED enrollment
    BY <1>1, <2>1, <2>2, <2>3 DEF RoundPlace
  <2>4. CASE /\ round[n].gateways = {} /\ round'[n].status \in Terminal
             /\ enrollment'.active_round = 0 /\ enrollment'.last_round = n
    BY <1>1, <2>1, <2>2, <2>4 DEF RoundPlace
  <2>. QED
    BY <1>2, <2>3, <2>4
<1>5. \/ enrollment'.active_round = 0
      \/ /\ enrollment'.active_round = enrollment'.last_round + 1
         /\ enrollment'.active_round \in Rounds
  BY <1>1, <1>2
<1>. QED
  BY <1>3, <1>4, <1>5 DEF RoundInv

LEMMA AcknowledgesRound ==
  ASSUME ProtocolTypeOK, ProtocolTypeOK', RoundInv, GatewayInv,
         NEW g \in Gateways, NEW n \in Rounds, Acknowledges(g, n)
  PROVE  RoundInv'
<1>. DEFINE acked == round[n].acknowledged \union {g}
<1>1. /\ n \in Nat /\ n # 0 /\ enrollment.last_round \in Nat
      /\ n = enrollment.active_round /\ n = enrollment.last_round + 1
  BY RoundTypes, InProgress DEF Acknowledges, Terminal
<1>2. /\ \/ UNCHANGED enrollment
         \/ /\ acked = round[n].gateways
            /\ enrollment'.active_round = 0 /\ enrollment'.last_round = n
      /\ UNCHANGED localGateway
      /\ gateway'[g].acknowledged = n
      /\ SameBut(gateway', gateway, Gateways, g)
      /\ SameBut(round', round, Rounds, n)
      /\ round'[n].acknowledged = acked
      /\ round'[n].status = round[n].status /\ round[n].status \in Terminal
      /\ round'[n].gateways = round[n].gateways
      /\ round'[n].predecessor = round[n].predecessor
      /\ g \in round[n].gateways
      /\ localRound[g][n].outcome # "none"
  BY DEF Acknowledges, KeepsTerms, localVars, Terminal
<1>3. ASSUME NEW m \in Rounds \ {n}
      PROVE  RoundPlace(m)'
  <2>1. /\ RoundPlace(m) /\ m \in Nat /\ m # 0 /\ round'[m] = round[m]
        /\ m # enrollment.active_round
    BY <1>1, <1>2, RoundTypes DEF RoundInv, SameBut
  <2>2. CASE UNCHANGED enrollment
    BY <1>2, <2>1, <2>2 DEF RoundPlace
  <2>3. CASE enrollment'.active_round = 0 /\ enrollment'.last_round = n
    <3>1. /\ m <= n <=> m <= enrollment.last_round
          /\ m > n <=> m > enrollment.last_round /\ m # enrollment.active_round
      BY <1>1, <2>1
    <3>. QED
      BY <1>2, <2>1, <2>3, <3>1 DEF RoundPlace
  <2>. QED
    BY <1>2, <2>2, <2>3
<1>4. RoundPlace(n)'
  <2>1. RoundPlace(n) /\ round[n].gateways \subseteq Gateways
    BY RoundTypes DEF RoundInv
  <2>2. ASSUME NEW h \in acked
        PROVE  gateway'[h].acknowledged = n /\ n <= localGateway[h].installed
    <3>1. h \in Gateways /\ h \in round[n].gateways
      BY <1>2, <2>1 DEF RoundPlace
    <3>2. CASE h = g
      BY <1>2, <3>2 DEF GatewayInv, GatewayPlace
    <3>3. CASE h # g
      <4>1. gateway[h].acknowledged = n /\ gateway'[h] = gateway[h]
        BY <1>1, <1>2, <2>1, <3>1, <3>3 DEF RoundPlace, SameBut
      <4>2. localGateway[h].installed = n
        BY <1>1, <3>1, <4>1 DEF GatewayInv, GatewayPlace
      <4>. QED
        BY <1>1, <4>1, <4>2
    <3>. QED
      BY <3>2, <3>3
  <2>3. ASSUME NEW h \in round[n].gateways
        PROVE  /\ round[n].predecessor[h] < n
               /\ h \notin acked =>
                    gateway'[h].acknowledged = round[n].predecessor[h]
    BY <1>1, <1>2, <2>1 DEF RoundPlace, SameBut
  <2>4. CASE UNCHANGED enrollment
    BY <1>1, <1>2, <2>1, <2>2, <2>3, <2>4 DEF RoundPlace, Terminal
  <2>5. CASE /\ acked = round[n].gateways
             /\ enrollment'.active_round = 0 /\ enrollment'.last_round = n
    BY <1>1, <1>2, <2>1, <2>2, <2>3, <2>5 DEF RoundPlace, Terminal
  <2>. QED
    BY <1>2, <2>4, <2>5
<1>5. \/ enrollment'.active_round = 0
      \/ /\ enrollment'.active_round = enrollment'.last_round + 1
         /\ enrollment'.active_round \in Rounds
  BY <1>1, <1>2
<1>. QED
  BY <1>3, <1>4, <1>5 DEF RoundInv

LEMMA RoundInvStep ==
  ASSUME ProtocolTypeOK, ProtocolTypeOK', RoundInv, GatewayInv, StepEffect
  PROVE  RoundInv'
<1>1. \A g \in Gateways : localGateway[g].installed \in Nat
  BY DEF ProtocolTypeOK, LocalGatewayState
<1>2. CASE TokenFrame
  BY <1>1, <1>2, RoundsUndisturbed DEF TokenFrame
<1>3. CASE UNCHANGED <<centralVars, localGateway>>
  BY <1>1, <1>3, RoundsUndisturbed DEF centralVars
<1>4. CASE RoundEffect
  <2>1. CASE \E g \in Gateways, n \in Rounds : SealBegins(g, n) \/ Seals(g, n)
    BY <1>1, <2>1, RoundsUndisturbed DEF SealBegins, Seals, KeepsPlace, SameBut,
       centralVars
  <2>2. CASE \E g \in Gateways, n \in Rounds : Installs(g, n)
    <3>1. PICK g \in Gateways, n \in Rounds : Installs(g, n)
      BY <2>2
    <3>2. localGateway[g].installed < n /\ localGateway'[g].installed = n
      BY <3>1, InstallOrder DEF Installs
    <3>3. \A h \in Gateways : localGateway[h].installed <= localGateway'[h].installed
      BY <1>1, <3>1, <3>2, RoundTypes DEF Installs, SameBut
    <3>4. UNCHANGED <<enrollment, round, gateway>>
      BY <3>1 DEF Installs, centralVars
    <3>. QED
      BY <3>3, <3>4, RoundsUndisturbed
  <2>3. CASE \E g \in Gateways, n \in Rounds : Drains(g, n)
    BY <2>3, RoundProgress DEF Drains, localVars
  <2>4. CASE \E n \in Rounds : Readies(n)
    BY <2>4, RoundProgress DEF Readies, KeepsCourse, localVars
  <2>5. CASE \E n \in Rounds, at \in Nat : Commits(n, at)
    BY <2>5, RoundProgress DEF Commits, KeepsCourse, localVars, Terminal
  <2>6. CASE \E n \in Rounds : Aborts(n)
    BY <2>6, RoundProgress DEF Aborts, KeepsCourse, localVars, Terminal
  <2>7. CASE \E n \in Rounds : Begins(n)
    BY <2>7, BeginsRound
  <2>8. CASE \E g \in Gateways, n \in Rounds : Acknowledges(g, n)
    BY <2>8, AcknowledgesRound
  <2>9. CASE Prepares
    BY <1>3, <2>9 DEF Prepares
  <2>. QED
    BY <1>4, <2>1, <2>2, <2>3, <2>4, <2>5, <2>6, <2>7, <2>8, <2>9 DEF RoundEffect
<1>. QED
  BY <1>2, <1>3, <1>4 DEF StepEffect, Judges, vars, localVars

(* A gateway whose own record and whose round do not change keeps its      *)
(* place.                                                                  *)
LEMMA PlaceKept ==
  ASSUME GatewayInv, NEW g \in Gateways,
         UNCHANGED <<enrollment, round>>,
         gateway'[g].acknowledged = gateway[g].acknowledged,
         localGateway'[g].mode = localGateway[g].mode,
         localGateway'[g].active = localGateway[g].active,
         localGateway'[g].installed = localGateway[g].installed,
         \A n \in Rounds : localRound'[g][n].outcome = localRound[g][n].outcome
  PROVE  GatewayPlace(g)'
  BY DEF GatewayInv, GatewayPlace

LEMMA BeginsPlace ==
  ASSUME ProtocolTypeOK, RoundInv, GatewayInv,
         NEW n \in Rounds, Begins(n), NEW g \in Gateways
  PROVE  GatewayPlace(g)'
<1>1. /\ n \in Nat /\ n # 0 /\ enrollment.last_round \in Nat
      /\ enrollment.active_round = 0
      /\ enrollment'.active_round = n
      /\ enrollment'.last_round = enrollment.last_round
      /\ UNCHANGED <<gateway, localGateway, localRound>>
      /\ round[n].status = "none" /\ SameBut(round', round, Rounds, n)
  BY RoundTypes DEF Begins, localVars
<1>2. /\ localGateway[g].installed = gateway[g].acknowledged
      /\ gateway[g].acknowledged <= enrollment.last_round
      /\ localGateway[g].mode = "Open" /\ localGateway[g].active = 0
  BY <1>1 DEF GatewayInv, GatewayPlace
<1>3. ASSUME NEW m \in Rounds, localRound[g][m].outcome # "none"
      PROVE  /\ localRound[g][m].outcome = round'[m].status
             /\ m <= localGateway[g].installed
  BY <1>1, <1>3 DEF GatewayInv, GatewayPlace, SameBut
<1>. QED
  BY <1>1, <1>2, <1>3 DEF GatewayPlace

LEMMA PlaceProgress ==
  ASSUME ProtocolTypeOK, RoundInv, GatewayInv, NEW n \in Rounds,
         round[n].status \in {"Draining", "Ready"},
         round'[n].status \in {"Draining", "Ready"} \union Terminal,
         round'[n].acknowledged = round[n].acknowledged,
         KeepsTerms(n), SameBut(round', round, Rounds, n),
         UNCHANGED <<gateway, localGateway, localRound>>,
         \/ UNCHANGED enrollment
         \/ round'[n].status \in Terminal /\ FinishIfEmpty(n),
         NEW g \in Gateways
  PROVE  GatewayPlace(g)'
<1>1. /\ n \in Nat /\ n # 0 /\ enrollment.last_round \in Nat
      /\ n = enrollment.active_round /\ n = enrollment.last_round + 1
      /\ gateway[g].acknowledged \in Nat
  BY RoundTypes, InProgress
<1>2. \/ UNCHANGED enrollment
      \/ /\ round[n].gateways = {} /\ round'[n].status \in Terminal
         /\ enrollment'.active_round = 0 /\ enrollment'.last_round = n
  BY DEF FinishIfEmpty
<1>3. GatewayPlace(g) /\ RoundPlace(n)
  BY DEF GatewayInv, RoundInv
<1>4. localRound[g][n].outcome = "none"
  BY <1>3, RoundTypes DEF GatewayPlace
<1>5. ASSUME NEW m \in Rounds, localRound[g][m].outcome # "none"
      PROVE  /\ localRound[g][m].outcome = round'[m].status
             /\ m <= localGateway[g].installed
  BY <1>3, <1>4, <1>5 DEF GatewayPlace, SameBut
<1>6. localGateway[g].installed = gateway[g].acknowledged
  BY <1>1, <1>3 DEF GatewayPlace, Terminal
<1>7. CASE UNCHANGED enrollment
  BY <1>1, <1>3, <1>5, <1>6, <1>7 DEF GatewayPlace, KeepsTerms
<1>8. CASE /\ round[n].gateways = {}
           /\ enrollment'.active_round = 0 /\ enrollment'.last_round = n
  <2>1. /\ localGateway[g].mode = "Open" /\ localGateway[g].active = 0
        /\ gateway[g].acknowledged <= n
    BY <1>1, <1>3, <1>8 DEF GatewayPlace, RoundPlace
  <2>. QED
    BY <1>5, <1>6, <1>8, <2>1 DEF GatewayPlace
<1>. QED
  BY <1>2, <1>7, <1>8

LEMMA SealingPlace ==
  ASSUME ProtocolTypeOK, RoundInv, GatewayInv, NEW g \in Gateways,
         NEW n \in Rounds, SealBegins(g, n) \/ Seals(g, n), NEW h \in Gateways
  PROVE  GatewayPlace(h)'
<1>1. CASE h # g
  BY <1>1, PlaceKept DEF SealBegins, Seals, KeepsPlace, KeepsOutcomes, SameBut,
     centralVars
<1>2. CASE h = g
  <2>1. GatewayPlace(g)
    BY DEF GatewayInv
  <2>2. /\ UNCHANGED <<enrollment, round, gateway>>
        /\ localGateway'[g].installed = localGateway[g].installed
        /\ localGateway'[g].mode # "Open" /\ localGateway'[g].active = n
        /\ \A m \in Rounds : localRound'[g][m].outcome = localRound[g][m].outcome
    BY DEF SealBegins, Seals, KeepsPlace, KeepsOutcomes, centralVars
  <2>3. /\ n = enrollment.active_round /\ n # 0 /\ g \in round[n].gateways
        /\ localGateway[g].installed = round[n].predecessor[g]
    <3>1. CASE SealBegins(g, n)
      BY <3>1, InstallOrder, NotInstalled, RoundTypes DEF SealBegins, Current
    <3>2. CASE Seals(g, n)
      BY <3>2, <2>1 DEF Seals, GatewayPlace
    <3>. QED
      BY <3>1, <3>2
  <2>. QED
    BY <1>2, <2>1, <2>2, <2>3 DEF GatewayPlace
<1>. QED
  BY <1>1, <1>2

LEMMA InstallsPlace ==
  ASSUME ProtocolTypeOK, RoundInv, GatewayInv, NEW g \in Gateways,
         NEW n \in Rounds, Installs(g, n), NEW h \in Gateways
  PROVE  GatewayPlace(h)'
<1>1. CASE h # g
  BY <1>1, PlaceKept DEF Installs, SameBut, centralVars
<1>2. CASE h = g
  <2>1. GatewayPlace(g)
    BY DEF GatewayInv
  <2>2. /\ localGateway[g].installed < n /\ n \in Nat /\ n # 0
        /\ n = enrollment.active_round
        /\ localGateway[g].installed \in Nat
    BY InstallOrder, NotInstalled, RoundTypes DEF Installs
  <2>3. /\ UNCHANGED <<enrollment, round, gateway>>
        /\ localGateway'[g].installed = n
        /\ localGateway'[g].mode = "Open" /\ localGateway'[g].active = 0
        /\ g \in round[n].gateways /\ round[n].status \in Terminal
        /\ localRound'[g][n].outcome = round[n].status
        /\ \A m \in Rounds \ {n} :
             localRound'[g][m].outcome = localRound[g][m].outcome
    BY DEF Installs, centralVars
  <2>4. ASSUME NEW m \in Rounds, localRound'[g][m].outcome # "none"
        PROVE  localRound'[g][m].outcome = round[m].status /\ m <= n
    <3>1. CASE m = n
      BY <2>2, <2>3, <3>1
    <3>2. CASE m # n
      <4>1. /\ localRound[g][m].outcome = round[m].status
            /\ m <= localGateway[g].installed /\ m \in Nat
        BY <2>1, <2>3, <2>4, <3>2, RoundTypes DEF GatewayPlace
      <4>. QED
        BY <2>2, <2>3, <3>2, <4>1
    <3>. QED
      BY <3>1, <3>2
  <2>. QED
    BY <1>2, <2>1, <2>2, <2>3, <2>4 DEF GatewayPlace
<1>. QED
  BY <1>1, <1>2

LEMMA AcknowledgesPlace ==
  ASSUME ProtocolTypeOK, RoundInv, GatewayInv, NEW g \in Gateways,
         NEW n \in Rounds, Acknowledges(g, n), NEW h \in Gateways
  PROVE  GatewayPlace(h)'
<1>. DEFINE acked == round[n].acknowledged \union {g}
<1>1. /\ n \in Nat /\ n # 0 /\ enrollment.last_round \in Nat
      /\ n = enrollment.active_round /\ n = enrollment.last_round + 1
  BY RoundTypes, InProgress DEF Acknowledges, Terminal
<1>2. /\ \/ UNCHANGED enrollment
         \/ /\ acked = round[n].gateways
            /\ enrollment'.active_round = 0 /\ enrollment'.last_round = n
      /\ UNCHANGED <<localGateway, localRound>>
      /\ gateway'[g].acknowledged = n
      /\ SameBut(gateway', gateway, Gateways, g)
      /\ SameBut(round', round, Rounds, n)
      /\ round'[n].acknowledged = acked
      /\ round'[n].status = round[n].status /\ round[n].status \in Terminal
      /\ round'[n].gateways = round[n].gateways
      /\ round'[n].predecessor = round[n].predecessor
      /\ g \in round[n].gateways /\ g \notin round[n].acknowledged
      /\ localRound[g][n].outcome # "none"
  BY DEF Acknowledges, KeepsTerms, localVars, Terminal
<1>3. GatewayPlace(h) /\ GatewayPlace(g) /\ RoundPlace(n)
  BY DEF GatewayInv, RoundInv
<1>4. /\ localGateway[h].installed \in Nat /\ gateway[h].acknowledged \in Nat
      /\ localGateway[g].installed \in Nat /\ gateway[g].acknowledged \in Nat
      /\ round[n].predecessor[h] \in Nat
  BY RoundTypes
<1>5. localGateway[g].installed = n
  BY <1>1, <1>2, <1>3, <1>4 DEF GatewayPlace
<1>6. ASSUME h \in acked
      PROVE  gateway'[h].acknowledged = n /\ localGateway[h].installed = n
  <2>1. CASE h = g
    BY <1>2, <1>5, <2>1
  <2>2. CASE h # g
    <3>1. gateway[h].acknowledged = n /\ gateway'[h] = gateway[h]
      BY <1>1, <1>2, <1>3, <1>6, <2>2 DEF RoundPlace, SameBut
    <3>. QED
      BY <1>1, <1>3, <3>1 DEF GatewayPlace
  <2>. QED
    BY <2>1, <2>2
<1>7. h \notin acked => gateway'[h] = gateway[h]
  BY <1>2 DEF SameBut
<1>8. \A m \in Rounds : localRound[h][m].outcome # "none" =>
        /\ localRound[h][m].outcome = round'[m].status
        /\ m <= localGateway[h].installed
  BY <1>2, <1>3 DEF GatewayPlace, SameBut
<1>9. CASE UNCHANGED enrollment
  <2>1. CASE h \in acked
    BY <1>1, <1>2, <1>3, <1>6, <1>8, <1>9, <2>1 DEF GatewayPlace
  <2>2. CASE h \notin acked
    BY <1>1, <1>2, <1>3, <1>7, <1>8, <1>9, <2>2 DEF GatewayPlace
  <2>. QED
    BY <2>1, <2>2
<1>10. CASE /\ acked = round[n].gateways
            /\ enrollment'.active_round = 0 /\ enrollment'.last_round = n
  <2>1. localGateway[h].mode = "Open" /\ localGateway[h].active = 0
    BY <1>1, <1>3, <1>4, <1>6, <1>10 DEF GatewayPlace, RoundPlace
  <2>2. gateway'[h].acknowledged <= n
        /\ localGateway[h].installed = gateway'[h].acknowledged
    <3>1. CASE h \in acked
      BY <1>1, <1>6, <3>1
    <3>2. CASE h \notin acked
      BY <1>1, <1>2, <1>3, <1>4, <1>7, <1>10, <3>2 DEF GatewayPlace
    <3>. QED
      BY <3>1, <3>2
  <2>. QED
    BY <1>2, <1>8, <1>10, <2>1, <2>2 DEF GatewayPlace
<1>. QED
  BY <1>2, <1>9, <1>10

LEMMA GatewayInvStep ==
  ASSUME ProtocolTypeOK, RoundInv, GatewayInv, StepEffect
  PROVE  GatewayInv'
<1>. SUFFICES ASSUME NEW h \in Gateways
              PROVE  GatewayPlace(h)'
  BY DEF GatewayInv
<1>1. CASE TokenFrame
  BY <1>1, PlaceKept DEF TokenFrame
<1>2. CASE UNCHANGED <<centralVars, localVars>>
  BY <1>2, PlaceKept DEF centralVars, localVars
<1>3. CASE RoundEffect
  <2>1. CASE \E g \in Gateways, n \in Rounds : SealBegins(g, n) \/ Seals(g, n)
    BY <2>1, SealingPlace
  <2>2. CASE \E g \in Gateways, n \in Rounds : Installs(g, n)
    BY <2>2, InstallsPlace
  <2>3. CASE \E g \in Gateways, n \in Rounds : Drains(g, n)
    BY <2>3, PlaceProgress DEF Drains, localVars
  <2>4. CASE \E n \in Rounds : Readies(n)
    BY <2>4, PlaceProgress DEF Readies, KeepsCourse, localVars
  <2>5. CASE \E n \in Rounds, at \in Nat : Commits(n, at)
    BY <2>5, PlaceProgress DEF Commits, KeepsCourse, localVars, Terminal
  <2>6. CASE \E n \in Rounds : Aborts(n)
    BY <2>6, PlaceProgress DEF Aborts, KeepsCourse, localVars, Terminal
  <2>7. CASE \E n \in Rounds : Begins(n)
    BY <2>7, BeginsPlace
  <2>8. CASE \E g \in Gateways, n \in Rounds : Acknowledges(g, n)
    BY <2>8, AcknowledgesPlace
  <2>9. CASE Prepares
    BY <2>9, PlaceKept DEF Prepares, KeepsOutcomes, centralVars
  <2>. QED
    BY <1>3, <2>1, <2>2, <2>3, <2>4, <2>5, <2>6, <2>7, <2>8, <2>9 DEF RoundEffect
<1>. QED
  BY <1>1, <1>2, <1>3 DEF StepEffect, Judges, vars

-----------------------------------------------------------------------------
(* Seals.                                                                  *)

LEMMA SealTypes ==
  ASSUME ProtocolTypeOK, NEW g \in Gateways, NEW n \in Rounds
  PROVE  /\ localRound[g][n].seal \in Nat \union {Never}
         /\ round[n].seal[g] \in Nat \union {Never}
         /\ round[n].cutoff[g] \in Nat
         /\ gateway[g].allocation_prefix \in Nat
         /\ gateway[g].receipt_prefix \in Nat
         /\ localGateway[g].receipt \in Nat
  BY DEF ProtocolTypeOK, RoundState, LocalRoundState, GatewayState,
     LocalGatewayState

\* A step of the gateways' receipts and the centre's prefixes.
LEMMA SealKept ==
  ASSUME ProtocolTypeOK, ProtocolTypeOK', SealInv,
         NEW g \in Gateways, NEW n \in Rounds,
         round'[n].cutoff = round[n].cutoff, round'[n].seal = round[n].seal,
         round[n].status # "none" => round'[n].status # "none",
         enrollment'.active_round \in {enrollment.active_round, 0},
         localRound'[g][n].seal = localRound[g][n].seal,
         localGateway'[g].mode = localGateway[g].mode,
         localGateway'[g].installed = localGateway[g].installed,
         localGateway[g].mode # "Open" =>
           localGateway'[g].receipt = localGateway[g].receipt,
         gateway[g].allocation_prefix <= gateway'[g].allocation_prefix,
         gateway[g].receipt_prefix <= gateway'[g].receipt_prefix
  PROVE  SealPlace(g, n)'
<1>1. SealPlace(g, n) /\ n # 0
  BY RoundTypes DEF SealInv
<1>2. round[n].seal[g] # Never =>
        /\ gateway'[g].allocation_prefix >= round[n].cutoff[g]
        /\ gateway'[g].receipt_prefix >= round[n].seal[g]
  <2>1. /\ gateway'[g].allocation_prefix \in Nat
        /\ gateway'[g].receipt_prefix \in Nat
    BY DEF ProtocolTypeOK, GatewayState
  <2>. QED
    BY <1>1, <2>1, SealTypes DEF SealPlace
<1>. QED
  BY <1>1, <1>2 DEF SealPlace

LEMMA SealsPlace ==
  ASSUME ProtocolTypeOK, RoundInv, GatewayInv, SealInv, NEW g \in Gateways,
         NEW n \in Rounds, RoundFrame, Seals(g, n),
         NEW h \in Gateways, NEW m \in Rounds
  PROVE  SealPlace(h, m)'
<1>1. GatewayPlace(g) /\ RoundPlace(n) /\ SealPlace(g, n) /\ SealPlace(h, m)
  BY DEF GatewayInv, RoundInv, SealInv
<1>2. /\ UNCHANGED <<enrollment, round, gateway>>
      /\ localGateway[g].mode = "Sealing" /\ localGateway'[g].mode = "Sealed"
      /\ localGateway[g].active = n
      /\ localGateway'[g].installed = localGateway[g].installed
      /\ localGateway'[g].receipt = localGateway[g].receipt
      /\ localRound'[g][n].seal = localGateway[g].receipt
      /\ h # g \/ m # n => localRound'[h][m].seal = localRound[h][m].seal
      /\ h # g => localGateway'[h] = localGateway[h]
  BY DEF Seals, RoundFrame, KeepsPlace, SameBut, centralVars
<1>3. /\ n = enrollment.active_round /\ n # 0
      /\ round[n].status # "none"
      /\ localGateway[g].installed < n
  BY <1>1, <1>2 DEF GatewayPlace, RoundPlace
<1>4. CASE h # g
  BY <1>1, <1>2, <1>4 DEF SealPlace
<1>5. CASE h = g /\ m # n
  BY <1>1, <1>2, <1>3, <1>5 DEF SealPlace
<1>6. CASE h = g /\ m = n
  <2>1. round[n].seal[g] = Never
    BY <1>1, <1>2, <1>3 DEF SealPlace
  <2>. QED
    BY <1>2, <1>3, <1>6, <2>1 DEF SealPlace
<1>. QED
  BY <1>4, <1>5, <1>6

LEMMA SealBeginsSeal ==
  ASSUME ProtocolTypeOK, RoundInv, GatewayInv, SealInv, NEW g \in Gateways,
         NEW n \in Rounds, RoundFrame, SealBegins(g, n) \/ Installs(g, n),
         NEW h \in Gateways, NEW m \in Rounds
  PROVE  SealPlace(h, m)'
<1>1. SealPlace(h, m)
  BY DEF SealInv
<1>2. /\ UNCHANGED <<enrollment, round, gateway>>
      /\ localRound'[h][m].seal = localRound[h][m].seal
      /\ h # g => localGateway'[h] = localGateway[h]
  BY DEF SealBegins, Installs, KeepsPlace, KeepsSeals, SameBut, centralVars
<1>3. CASE h # g
  BY <1>1, <1>2, <1>3 DEF SealPlace
<1>4. CASE h = g /\ SealBegins(g, n)
  <2>1. /\ localGateway[g].mode = "Open"
        /\ localGateway'[g].installed = localGateway[g].installed
    BY <1>4 DEF SealBegins, KeepsPlace
  <2>. QED
    BY <1>1, <1>2, <1>4, <2>1 DEF SealPlace
<1>5. CASE h = g /\ Installs(g, n)
  <2>1. n = enrollment.active_round /\ n \in Nat /\ localGateway'[g].installed = n
    BY <1>5, InstallOrder, NotInstalled, RoundTypes DEF Installs
  <2>2. ~(n < n)
    BY <2>1
  <2>. QED
    BY <1>1, <1>2, <1>5, <2>1, <2>2 DEF SealPlace
<1>. QED
  BY <1>3, <1>4, <1>5

LEMMA DrainsSeal ==
  ASSUME ProtocolTypeOK, SealInv, NEW g \in Gateways, NEW n \in Rounds,
         Drains(g, n), NEW h \in Gateways, NEW m \in Rounds
  PROVE  SealPlace(h, m)'
<1>1. SealPlace(h, m)
  BY DEF SealInv
<1>2. /\ UNCHANGED <<enrollment, gateway, localGateway, localRound>>
      /\ round'[n].status = "Draining" /\ round'[n].cutoff = round[n].cutoff
      /\ m # n => round'[m] = round[m]
      /\ round'[n].seal[g] = localRound[g][n].seal
      /\ h # g => round'[n].seal[h] = round[n].seal[h]
      /\ gateway[g].allocation_prefix >= round[n].cutoff[g]
      /\ gateway[g].receipt_prefix >= localRound[g][n].seal
  BY DEF Drains, Drained, KeepsTerms, SameBut, localVars
<1>3. CASE m # n
  BY <1>1, <1>2, <1>3 DEF SealPlace
<1>4. CASE m = n /\ h # g
  BY <1>1, <1>2, <1>4 DEF SealPlace
<1>5. CASE m = n /\ h = g
  BY <1>1, <1>2, <1>5 DEF SealPlace
<1>. QED
  BY <1>3, <1>4, <1>5

LEMMA BeginsSeal ==
  ASSUME ProtocolTypeOK, SealInv, NEW n \in Rounds, Begins(n),
         NEW h \in Gateways, NEW m \in Rounds
  PROVE  SealPlace(h, m)'
<1>1. SealPlace(h, m)
  BY DEF SealInv
<1>2. /\ UNCHANGED <<gateway, localGateway, localRound>>
      /\ enrollment'.active_round = n
      /\ round[n].status = "none" /\ round'[n].status = "Draining"
      /\ round'[n].seal[h] = Never
      /\ m # n => round'[m] = round[m]
  BY DEF Begins, SameBut, localVars
<1>. QED
  BY <1>1, <1>2 DEF SealPlace

LEMMA SealPlaceStep ==
  ASSUME ProtocolTypeOK, ProtocolTypeOK', RoundInv, GatewayInv, SealInv,
         StepEffect, NEW h \in Gateways, NEW m \in Rounds
  PROVE  SealPlace(h, m)'
<1>1. /\ gateway[h].allocation_prefix <= gateway[h].allocation_prefix
      /\ gateway[h].receipt_prefix <= gateway[h].receipt_prefix
  BY SealTypes
<1>2. CASE TokenFrame
  BY <1>2, SealKept DEF TokenFrame
<1>3. CASE UNCHANGED <<centralVars, localVars>>
  BY <1>1, <1>3, SealKept DEF centralVars, localVars
<1>4. CASE RoundFrame /\ RoundEffect
  <2>1. CASE \E g \in Gateways, n \in Rounds : SealBegins(g, n) \/ Installs(g, n)
    BY <1>4, <2>1, SealBeginsSeal
  <2>2. CASE \E g \in Gateways, n \in Rounds : Seals(g, n)
    BY <1>4, <2>2, SealsPlace
  <2>3. CASE \E g \in Gateways, n \in Rounds : Drains(g, n)
    BY <2>3, DrainsSeal
  <2>4. CASE \E n \in Rounds : Begins(n)
    BY <2>4, BeginsSeal
  <2>5. CASE Prepares
    BY <1>1, <2>5, SealKept DEF Prepares, KeepsSeals, centralVars
  <2>6. CASE \E n \in Rounds :
               \/ Readies(n) \/ Aborts(n)
               \/ \E at \in Nat : Commits(n, at)
    <3>1. PICK n \in Rounds :
            \/ Readies(n) \/ Aborts(n)
            \/ \E at \in Nat : Commits(n, at)
      BY <2>6
    <3>2. /\ UNCHANGED <<gateway, localGateway, localRound>>
          /\ enrollment'.active_round \in {enrollment.active_round, 0}
          /\ KeepsCourse(n) /\ round'[n].status # "none"
      BY <3>1 DEF Readies, Aborts, Commits, FinishIfEmpty, localVars
    <3>3. /\ round'[m].cutoff = round[m].cutoff
          /\ round'[m].seal = round[m].seal
          /\ round[m].status # "none" => round'[m].status # "none"
      BY <3>2 DEF KeepsCourse, KeepsTerms, SameBut
    <3>. QED
      BY <1>1, <3>2, <3>3, SealKept
  <2>7. CASE \E g \in Gateways, n \in Rounds : Acknowledges(g, n)
    <3>1. PICK g \in Gateways, n \in Rounds : Acknowledges(g, n)
      BY <2>7
    <3>2. /\ UNCHANGED <<localGateway, localRound>>
          /\ enrollment'.active_round \in {enrollment.active_round, 0}
          /\ gateway'[h].allocation_prefix = gateway[h].allocation_prefix
          /\ gateway'[h].receipt_prefix = gateway[h].receipt_prefix
      BY <1>4, <3>1 DEF Acknowledges, RoundFrame, localVars
    <3>3. /\ round'[m].cutoff = round[m].cutoff
          /\ round'[m].seal = round[m].seal
          /\ round[m].status # "none" => round'[m].status # "none"
      BY <3>1 DEF Acknowledges, KeepsTerms, SameBut
    <3>. QED
      BY <1>1, <3>2, <3>3, SealKept
  <2>. QED
    BY <1>4, <2>1, <2>2, <2>3, <2>4, <2>5, <2>6, <2>7 DEF RoundEffect
<1>. QED
  BY <1>2, <1>3, <1>4 DEF StepEffect, Judges, vars

(* The steps that change a round.                                         *)
LEMMA StatusEffects ==
  ASSUME StepEffect
  PROVE  \/ UNCHANGED round
         \/ \E n \in Rounds : Begins(n)
         \/ \E g \in Gateways, n \in Rounds : Drains(g, n)
         \/ \E n \in Rounds : Readies(n)
         \/ \E n \in Rounds, at \in Nat : Commits(n, at)
         \/ \E n \in Rounds : Aborts(n)
         \/ \E g \in Gateways, n \in Rounds : Acknowledges(g, n)
<1>1. CASE TokenFrame \/ UNCHANGED <<centralVars, localVars>>
  BY <1>1 DEF TokenFrame, centralVars
<1>2. CASE RoundEffect
  BY <1>2 DEF RoundEffect, Prepares, SealBegins, Seals, Installs, centralVars
<1>. QED
  BY <1>1, <1>2 DEF StepEffect, Judges, vars

LEMMA SealInvStep ==
  ASSUME ProtocolTypeOK, ProtocolTypeOK', RoundInv, GatewayInv, SealInv,
         StepEffect
  PROVE  SealInv'
<1>1. ASSUME NEW n \in Rounds, round'[n].status \in {"Ready", "Committed"}
      PROVE  AllDrained(n)'
  <2>1. round[n].status \in {"Ready", "Committed"} => AllDrained(n)
    BY DEF SealInv
  <2>2. CASE UNCHANGED round
    BY <1>1, <2>1, <2>2 DEF AllDrained
  <2>3. CASE \E m \in Rounds : Begins(m)
    BY <1>1, <2>1, <2>3 DEF Begins, SameBut, AllDrained
  <2>4. CASE \E g \in Gateways, m \in Rounds : Drains(g, m)
    BY <1>1, <2>1, <2>4 DEF Drains, SameBut, AllDrained
  <2>5. CASE \E m \in Rounds : Readies(m)
    BY <1>1, <2>1, <2>5 DEF Readies, KeepsCourse, KeepsTerms, SameBut, AllDrained
  <2>6. CASE \E m \in Rounds, at \in Nat : Commits(m, at)
    BY <1>1, <2>1, <2>6 DEF Commits, KeepsCourse, KeepsTerms, SameBut, AllDrained
  <2>7. CASE \E m \in Rounds : Aborts(m)
    BY <1>1, <2>1, <2>7 DEF Aborts, KeepsCourse, KeepsTerms, SameBut, AllDrained
  <2>8. CASE \E g \in Gateways, m \in Rounds : Acknowledges(g, m)
    BY <1>1, <2>1, <2>8 DEF Acknowledges, KeepsTerms, SameBut, AllDrained
  <2>. QED
    BY <2>2, <2>3, <2>4, <2>5, <2>6, <2>7, <2>8, StatusEffects
<1>. QED
  BY <1>1, SealPlaceStep DEF SealInv

-----------------------------------------------------------------------------
(* Families, clocks and books.                                             *)

LEMMA FamilyEffects ==
  ASSUME TypeOK, StepEffect
  PROVE  \/ \A f \in Families : KeepsClosure(f)
         \/ \E n \in Rounds, at \in Nat : Commits(n, at)
<1>1. CASE UNCHANGED family
  BY <1>1 DEF KeepsClosure
<1>2. CASE Judges
  BY <1>2, RulingEffects DEF Judges, TypeOK, RulingEffect
<1>3. CASE \E t \in Grants : TokenEffect(t)
  BY <1>1, <1>3 DEF TokenEffect, LocalGrants, Registers, Issues, Retires,
     Activates, Receipts, Imports, Returns, Reconciles, Advances,
     AdvancesReceipt, Terminates, economicVars
<1>4. CASE RoundEffect
  BY <1>1, <1>4 DEF RoundEffect, Prepares, SealBegins, Seals, Drains, Installs,
     Acknowledges, Begins, Readies, Aborts, economicVars
<1>. QED
  BY <1>1, <1>2, <1>3, <1>4 DEF StepEffect, vars, economicVars

LEMMA CommitsCloses ==
  ASSUME TypeOK, NEW n \in Rounds, NEW at \in Nat, Commits(n, at)
  PROVE  \A f \in Families :
           family'[f].closed <=> family[f].closed \/ f \in round[n].families
<1>1. /\ n \in Nat /\ round[n].families \in SUBSET Families
      /\ EconomicTypeOK /\ CloseFamilies(n, round[n].families, at)
  BY ProtocolAssumption DEF TypeOK, RoundState, Rounds, Commits
<1>2. Closes(n, round[n].families, at)
  BY <1>1, CloseStep
<1>. QED
  BY <1>2 DEF Closes

(* A closure that is committed was committed before, or is by this step.   *)
LEMMA CommittedBefore ==
  ASSUME StepEffect, NEW n \in Rounds, round'[n].status = "Committed"
  PROVE  \/ /\ round[n].status = "Committed"
            /\ round'[n].families = round[n].families
            /\ round'[n].gateways = round[n].gateways
            /\ round'[n].closed_at = round[n].closed_at
            /\ round'[n].seal = round[n].seal
         \/ \E at \in Nat : Commits(n, at)
<1>1. CASE UNCHANGED round
  BY <1>1
<1>2. CASE \E m \in Rounds : Begins(m)
  BY <1>2 DEF Begins, SameBut
<1>3. CASE \E g \in Gateways, m \in Rounds : Drains(g, m)
  BY <1>3 DEF Drains, SameBut
<1>4. CASE \E m \in Rounds : Readies(m) \/ Aborts(m)
  BY <1>4 DEF Readies, Aborts, KeepsCourse, SameBut
<1>5. CASE \E m \in Rounds, at \in Nat : Commits(m, at)
  BY <1>5 DEF Commits, KeepsCourse, SameBut
<1>6. CASE \E g \in Gateways, m \in Rounds : Acknowledges(g, m)
  BY <1>6 DEF Acknowledges, KeepsTerms, SameBut
<1>. QED
  BY <1>1, <1>2, <1>3, <1>4, <1>5, <1>6, StatusEffects

(* What is posted is posted by a decision.                                 *)
LEMMA ActionEffects ==
  ASSUME TypeOK, StepEffect, NEW a \in actions' \ actions
  PROVE  /\ Judges /\ case[a.case].status # "none"
         /\ a.kind = "Ordinary" => ~family[FamilyOf[a.case]].unavailable
<1>1. ~ UNCHANGED actions
  OBVIOUS
<1>2. Judges
  BY <1>1 DEF StepEffect, TokenEffect, LocalGrants, Registers, Issues, Retires,
     Activates, Receipts, Imports, Returns, Reconciles, Advances,
     AdvancesReceipt, Terminates, RoundFrame, vars, economicVars
<1>. QED
  BY <1>2, RulingEffects DEF Judges, TypeOK, RulingEffect

LEMMA CloseRightStep ==
  ASSUME TypeOK, RoundInv, CloseRightHeld, StepEffect
  PROVE  CloseRightHeld'
<1>. SUFFICES ASSUME NEW n \in Rounds, round'[n].status \in {"Draining", "Ready"},
                     NEW f \in round'[n].families
              PROVE  ~family'[f].closed
  BY DEF CloseRightHeld
<1>1. CASE round[n].status \in {"Draining", "Ready"}
           /\ round'[n].families = round[n].families
  <2>1. ~family[f].closed /\ f \in Families
    BY <1>1 DEF CloseRightHeld, TypeOK, RoundState
  <2>2. ASSUME NEW m \in Rounds, NEW at \in Nat, Commits(m, at)
        PROVE  FALSE
    <3>1. m = n
      BY <1>1, <2>2, InProgress, Types DEF Commits
    <3>. QED
      BY <2>2, <3>1 DEF Commits
  <2>. QED
    BY <2>1, <2>2, FamilyEffects DEF KeepsClosure
<1>2. CASE Begins(n)
  BY <1>2 DEF Begins, economicVars
<1>3. CASE UNCHANGED round
  BY <1>1, <1>3
<1>4. CASE \E m \in Rounds : Begins(m)
  BY <1>1, <1>2, <1>4 DEF Begins, SameBut
<1>5. CASE \E g \in Gateways, m \in Rounds : Drains(g, m)
  BY <1>1, <1>5 DEF Drains, KeepsTerms, SameBut
<1>6. CASE \E m \in Rounds : Readies(m) \/ Aborts(m)
  BY <1>1, <1>6 DEF Readies, Aborts, KeepsCourse, KeepsTerms, SameBut
<1>7. CASE \E m \in Rounds, at \in Nat : Commits(m, at)
  BY <1>1, <1>7 DEF Commits, KeepsCourse, SameBut
<1>8. CASE \E g \in Gateways, m \in Rounds : Acknowledges(g, m)
  BY <1>1, <1>8 DEF Acknowledges, KeepsTerms, SameBut
<1>. QED
  BY <1>3, <1>4, <1>5, <1>6, <1>7, <1>8, StatusEffects

\* No gateway has installed a round still in progress.
LEMMA NotYetInstalled ==
  ASSUME ProtocolTypeOK, RoundInv, GatewayInv, NEW n \in Rounds,
         round[n].status \in {"Draining", "Ready"}, NEW g \in Gateways
  PROVE  localGateway[g].installed < n
<1>1. /\ n = enrollment.active_round /\ n = enrollment.last_round + 1
      /\ enrollment.last_round \in Nat
      /\ localGateway[g].installed \in Nat /\ gateway[g].acknowledged \in Nat
  BY InProgress, RoundTypes
<1>2. round[n].acknowledged = {} /\ round[n].status \notin Terminal
  BY DEF RoundInv, RoundPlace, Terminal
<1>3. localGateway[g].installed = gateway[g].acknowledged
  BY <1>1, <1>2 DEF GatewayInv, GatewayPlace
<1>4. gateway[g].acknowledged <= enrollment.last_round
  BY <1>1, <1>2 DEF GatewayInv, GatewayPlace
<1>. QED
  BY <1>1, <1>3, <1>4

LEMMA ClockTypes ==
  ASSUME ProtocolTypeOK, NEW n \in Rounds, NEW g \in Gateways
  PROVE  /\ round[n].closed_at \in Nat \union {Never}
         /\ localGateway[g].clock_floor \in Nat
         /\ localGateway[g].installed \in Nat
  BY DEF ProtocolTypeOK, RoundState, LocalGatewayState

LEMMA ClockStep ==
  ASSUME TypeOK, RoundInv, GatewayInv, ClockInv, StepEffect
  PROVE  ClockInv'
<1>. SUFFICES ASSUME NEW n \in Rounds, round'[n].status = "Committed",
                     NEW h \in round'[n].gateways,
                     n <= localGateway'[h].installed
              PROVE  round'[n].closed_at <= localGateway'[h].clock_floor
  BY DEF ClockInv
<1>. USE Types
<1>1. CASE \E at \in Nat : Commits(n, at)
  <2>1. /\ round[n].status = "Ready" /\ UNCHANGED localGateway
        /\ round'[n].gateways = round[n].gateways
    BY <1>1 DEF Commits, KeepsCourse, KeepsTerms, localVars
  <2>2. localGateway[h].installed < n /\ localGateway[h].installed \in Nat
        /\ n \in Nat
    BY <2>1, NotYetInstalled, RoundTypes
  <2>3. n <= localGateway[h].installed
    BY <2>1
  <2>. QED
    BY <2>2, <2>3
<1>2. CASE /\ round[n].status = "Committed"
           /\ round'[n].gateways = round[n].gateways
           /\ round'[n].closed_at = round[n].closed_at
  <2>1. h \in Gateways /\ h \in round[n].gateways
    BY <1>2, RoundTypes
  <2>2. CASE \E g \in Gateways, m \in Rounds : Installs(g, m)
    <3>1. PICK g \in Gateways, m \in Rounds : Installs(g, m)
      BY <2>2
    <3>2. CASE h # g
      BY <1>2, <2>1, <3>1, <3>2 DEF Installs, SameBut, ClockInv
    <3>3. CASE h = g
      <4>1. /\ localGateway[g].installed < m
            /\ m = enrollment.active_round
            /\ g \in round[m].gateways /\ m \in Nat
            /\ localGateway'[g].installed = m
            /\ localGateway'[g].clock_floor = Floor(g, m)
        BY <3>1, InstallOrder, NotInstalled, RoundTypes DEF Installs
      <4>2. CASE n = m
        <5>1. /\ round[m].closed_at \in Int
              /\ localGateway[g].clock_floor \in Int
          BY ClockTypes DEF Never
        <5>2. round[m].closed_at <= Floor(g, m)
          BY <5>1 DEF Floor
        <5>. QED
          BY <1>2, <3>3, <4>1, <4>2, <5>2
      <4>3. CASE n # m
        <5>1. n <= enrollment.last_round
          BY <1>2, <4>1, <4>3, RoundTypes DEF RoundInv, RoundPlace
        <5>2. n <= localGateway[g].installed
          BY <2>1, <3>3, <5>1 DEF RoundInv, RoundPlace
        <5>3. round[n].closed_at <= localGateway[g].clock_floor
          BY <1>2, <2>1, <3>3, <5>2 DEF ClockInv
        <5>4. localGateway[g].clock_floor <= Floor(g, m)
          BY ClockTypes DEF Floor, Never
        <5>5. Floor(g, m) \in Nat
          BY ClockTypes DEF Floor, Never
        <5>. QED
          BY <1>2, <3>3, <4>1, <5>3, <5>4, <5>5, ClockTypes DEF Never
      <4>. QED
        BY <4>2, <4>3
    <3>. QED
      BY <3>2, <3>3
  <2>3. CASE /\ localGateway'[h].installed = localGateway[h].installed
             /\ localGateway'[h].clock_floor = localGateway[h].clock_floor
    BY <1>2, <2>1, <2>3 DEF ClockInv
  <2>4. CASE TokenFrame \/ UNCHANGED localVars
    BY <2>1, <2>3, <2>4 DEF TokenFrame, localVars
  <2>5. CASE RoundEffect
    BY <2>1, <2>2, <2>3, <2>5 DEF RoundEffect, Prepares, SealBegins, Seals,
       Drains, Acknowledges, Begins, Readies, Aborts, Commits, KeepsPlace,
       SameBut, localVars
  <2>. QED
    BY <2>4, <2>5 DEF StepEffect, Judges, vars
<1>. QED
  BY <1>1, <1>2, CommittedBefore

LEMMA BooksStep ==
  ASSUME TypeOK, TokenInv, BooksInv, StepEffect
  PROVE  BooksInv'
<1>1. ASSUME NEW a \in actions'
      PROVE  case'[a.case].status # "none"
  <2>1. a.case \in Cases
    <3>1. EconomicStep
      BY ProtocolIsEconomic
    <3>2. actions' \subseteq Action
      BY <3>1, StepEffects DEF TypeOK, EconomicTypeOK
    <3>. QED
      BY <3>2 DEF Action
  <2>2. case[a.case].status # "none"
    BY ActionEffects DEF BooksInv
  <2>. QED
    BY <2>1, <2>2, CasesKept
<1>2. ASSUME NEW n \in Rounds, round'[n].status = "Committed",
             NEW f \in round'[n].families
      PROVE  family'[f].closed
  <2>1. CASE \E at \in Nat : Commits(n, at)
    <3>1. f \in round[n].families /\ f \in Families
      BY <1>2, <2>1 DEF Commits, KeepsCourse, KeepsTerms, TypeOK, RoundState
    <3>. QED
      BY <2>1, <3>1, CommitsCloses
  <2>2. CASE /\ round[n].status = "Committed"
             /\ round'[n].families = round[n].families
    <3>1. family[f].closed /\ f \in Families
      BY <1>2, <2>2 DEF BooksInv, TypeOK, RoundState
    <3>. QED
      BY <3>1, FamilyEffects, CommitsCloses DEF KeepsClosure
  <2>. QED
    BY <1>2, <2>1, <2>2, CommittedBefore
<1>. QED
  BY <1>1, <1>2 DEF BooksInv

-----------------------------------------------------------------------------
(* What a closure covers.                                                  *)

(* A gateway that has not installed a drained round holds no receipt the   *)
(* centre has not admitted, and the seal counts them all.                  *)
LEMMA SealedAdmitted ==
  ASSUME TypeOK, ReceiptInv, PrefixesAreDense, RoundInv, SealInv,
         NEW n \in Rounds, AllDrained(n),
         NEW g \in round[n].gateways, localGateway[g].installed < n
  PROVE  /\ localGateway[g].mode = "Sealed"
         /\ \A c \in Cases : RouteOf[c] = g /\ Received(c) =>
              /\ case[c].status # "none"
              /\ case[c].receipt.position <= round[n].seal[g]
         /\ \A t \in Grants :
              /\ GatewayOf[t] = g
              /\ token[t].allocation \in 1..round[n].cutoff[g]
              => token[t].reconciled
<1>. USE Types
<1>1. g \in Gateways /\ n = enrollment.active_round
  BY NotInstalled, RoundTypes
<1>2. SealPlace(g, n) /\ round[n].seal[g] # Never
  BY <1>1 DEF SealInv, AllDrained
<1>3. /\ localGateway[g].mode = "Sealed"
      /\ localGateway[g].receipt = round[n].seal[g]
      /\ gateway[g].allocation_prefix >= round[n].cutoff[g]
      /\ gateway[g].receipt_prefix >= localGateway[g].receipt
  BY <1>1, <1>2 DEF SealPlace
<1>4. /\ round[n].cutoff[g] \in Nat /\ gateway[g].allocation_prefix \in Nat
      /\ gateway[g].receipt_prefix \in Nat /\ localGateway[g].receipt \in Nat
  BY <1>1, SealTypes
<1>5. ASSUME NEW c \in Cases, RouteOf[c] = g, Received(c)
      PROVE  /\ case[c].status # "none"
             /\ case[c].receipt.position <= round[n].seal[g]
  <2>1. /\ localCase[c].position \in Nat /\ 1 <= localCase[c].position
        /\ localCase[c].position <= localGateway[g].receipt
    BY <1>5 DEF ReceiptInv, TypeOK, Receipt
  <2>2. localCase[c].position \in 1..gateway[g].receipt_prefix
    BY <1>3, <1>4, <2>1
  <2>3. case[c].status # "none"
    BY <1>1, <1>5, <2>2 DEF PrefixesAreDense
  <2>. QED
    BY <1>3, <2>1, <2>3 DEF ReceiptInv
<1>6. ASSUME NEW t \in Grants, GatewayOf[t] = g,
             token[t].allocation \in 1..round[n].cutoff[g]
      PROVE  token[t].reconciled
  <2>1. token[t].allocation \in 1..gateway[g].allocation_prefix
    BY <1>3, <1>4, <1>6
  <2>. QED
    BY <1>1, <1>6, <2>1 DEF PrefixesAreDense
<1>. QED
  BY <1>3, <1>5, <1>6

(* At the commit of a round everything its gateways hold is admitted.      *)
LEMMA CommitCovers ==
  ASSUME TypeOK, ReceiptInv, PrefixesAreDense, RoundInv, GatewayInv, SealInv,
         NEW n \in Rounds, NEW at \in Nat, Commits(n, at),
         NEW c \in Cases, RouteOf[c] \in round[n].gateways, Received(c)
  PROVE  /\ case[c].status # "none"
         /\ case[c].receipt.position <= round[n].seal[RouteOf[c]]
<1>1. round[n].status = "Ready" /\ AllDrained(n)
  BY DEF Commits, SealInv
<1>2. RouteOf[c] \in Gateways /\ localGateway[RouteOf[c]].installed < n
  BY <1>1, NotYetInstalled, RoundTypes, Types
<1>. QED
  BY <1>1, <1>2, SealedAdmitted

LEMMA ChronologyStep ==
  ASSUME TypeOK, TokenInv, ReceiptInv, PrefixesAreDense, RoundInv, GatewayInv,
         SealInv, ClockInv, Chronology, StepEffect
  PROVE  Chronology'
<1>. SUFFICES ASSUME NEW n \in Rounds, NEW c \in Cases,
                     round'[n].status = "Committed",
                     FamilyOf[c] \in round'[n].families,
                     RouteOf[c] \in round'[n].gateways,
                     Received(c)',
                     localCase'[c].received_at < round'[n].closed_at
              PROVE  case'[c].status # "none"
  BY DEF Chronology
<1>. USE Types
<1>1. CASE \E at \in Nat : Commits(n, at)
  <2>1. PICK at \in Nat : Commits(n, at)
    BY <1>1
  <2>2. Received(c) /\ RouteOf[c] \in round[n].gateways
    BY <2>1 DEF Commits, KeepsCourse, KeepsTerms, Received, localVars
  <2>. QED
    BY <2>1, <2>2, CommitCovers, CasesKept
<1>2. CASE /\ round[n].status = "Committed"
           /\ round'[n].families = round[n].families
           /\ round'[n].gateways = round[n].gateways
           /\ round'[n].closed_at = round[n].closed_at
  <2>1. CASE Received(c)
    <3>1. localCase'[c] = localCase[c]
      BY <2>1, CasesKept
    <3>2. case[c].status # "none"
      BY <1>2, <2>1, <3>1 DEF Chronology
    <3>. QED
      BY <3>2, CasesKept
  <2>2. CASE ~Received(c)
    <3>1. PICK at \in Nat : NewReceipt(c, at)
      <4>1. localCase'[c] # localCase[c]
        BY <2>2 DEF Received
      <4>. QED
        BY <4>1, ReceiptEffects DEF SameReceipts, NewReceipt, SameBut
    <3>. DEFINE g == RouteOf[c]
    <3>2. /\ g \in Gateways /\ g \in round[n].gateways
          /\ localGateway[g].mode = "Open"
          /\ localGateway[g].clock_floor <= at
          /\ localCase'[c].received_at = at
      BY <1>2, <3>1, RoundTypes DEF NewReceipt
    <3>3. n <= localGateway[g].installed
      <4>1. AllDrained(n)
        BY <1>2 DEF SealInv
      <4>2. ~(localGateway[g].installed < n)
        BY <3>2, <4>1, SealedAdmitted
      <4>. QED
        BY <3>2, <4>2, RoundTypes
    <3>4. round[n].closed_at <= localGateway[g].clock_floor
      BY <1>2, <3>2, <3>3 DEF ClockInv
    <3>5. round[n].closed_at \in Int /\ localGateway[g].clock_floor \in Int
      BY <3>2, ClockTypes DEF Never
    <3>6. at < round[n].closed_at
      BY <1>2, <3>2
    <3>. QED
      BY <3>2, <3>4, <3>5, <3>6
  <2>. QED
    BY <2>1, <2>2
<1>. QED
  BY <1>1, <1>2, CommittedBefore

LEMMA CertificateStep ==
  ASSUME TypeOK, EconomicInv, TokenInv, ReceiptInv, PrefixesAreDense, RoundInv,
         GatewayInv, SealInv, BooksInv, CertificateCoversOrdinary, StepEffect
  PROVE  CertificateCoversOrdinary'
<1>. SUFFICES ASSUME NEW n \in Rounds, NEW a \in actions',
                     round'[n].status = "Committed",
                     FamilyOf[a.case] \in round'[n].families,
                     RouteOf[a.case] \in round'[n].gateways,
                     a.kind = "Ordinary"
              PROVE  case'[a.case].receipt.position
                       <= round'[n].seal[RouteOf[a.case]]
  BY DEF CertificateCoversOrdinary
<1>. DEFINE c == a.case
<1>1. CASE \E at \in Nat : Commits(n, at)
  <2>1. PICK at \in Nat : Commits(n, at)
    BY <1>1
  <2>2. /\ UNCHANGED <<actions, case>>
        /\ round'[n].gateways = round[n].gateways
        /\ round'[n].seal = round[n].seal
    BY <2>1 DEF Commits, CloseFamilies, KeepsCourse, KeepsTerms
  <2>3. c \in Cases /\ case[c].status # "none"
    BY <2>2 DEF BooksInv, TypeOK, EconomicTypeOK, Action
  <2>4. Received(c)
    BY <2>3 DEF ReceiptInv
  <2>. QED
    BY <2>1, <2>2, <2>3, <2>4, CommitCovers
<1>2. CASE /\ round[n].status = "Committed"
           /\ round'[n].families = round[n].families
           /\ round'[n].gateways = round[n].gateways
           /\ round'[n].seal = round[n].seal
  <2>1. CASE a \in actions
    <3>1. c \in Cases /\ case[c].status # "none"
      BY <2>1 DEF BooksInv, TypeOK, EconomicTypeOK, Action
    <3>2. case'[c].receipt = case[c].receipt
      BY <3>1, CasesKept
    <3>3. case[c].receipt.position <= round[n].seal[RouteOf[c]]
      BY <1>2, <2>1 DEF CertificateCoversOrdinary
    <3>. QED
      BY <1>2, <3>2, <3>3
  <2>2. CASE a \notin actions
    <3>1. ~family[FamilyOf[c]].unavailable
      BY <2>2, ActionEffects
    <3>2. FamilyOf[c] \in Families /\ family[FamilyOf[c]].closed
      BY <1>2 DEF BooksInv, TypeOK, RoundState
    <3>. QED
      BY <3>1, <3>2 DEF EconomicInv, ClosureInv
  <2>. QED
    BY <2>1, <2>2
<1>. QED
  BY <1>1, <1>2, CommittedBefore

-----------------------------------------------------------------------------
(* The invariant.                                                          *)

LEMMA AdjudicationInvStep ==
  ASSUME AdjudicationInv, [Next]_vars
  PROVE  AdjudicationInv'
<1>. USE DEF AdjudicationInv
<1>1. ProtocolTypeOK' /\ StepEffect
  BY ProtocolEffects, Types
<1>2. EconomicInv'
  BY <1>1, ProtocolIsEconomic, EconomicInvStep
<1>3. TypeOK'
  BY <1>1, <1>2 DEF TypeOK, ProtocolTypeOK, EconomicInv
<1>4. ProtocolTypeOK
  BY Types
<1>5. TokenInv'
  BY <1>1, TokenInvStep
<1>6. ReceiptInv'
  BY <1>1, ReceiptInvStep
<1>7. AllocationInv'
  BY <1>1, AllocationInvStep
<1>8. PrefixesAreDense'
  BY <1>1, PrefixesStep
<1>9. RoundInv'
  BY <1>1, <1>4, RoundInvStep
<1>10. GatewayInv'
  BY <1>1, <1>4, GatewayInvStep
<1>11. SealInv'
  BY <1>1, <1>4, SealInvStep
<1>12. CloseRightHeld'
  BY <1>1, CloseRightStep
<1>13. ClockInv'
  BY <1>1, ClockStep
<1>14. Chronology'
  BY <1>1, ChronologyStep
<1>15. BooksInv'
  BY <1>1, BooksStep
<1>16. CertificateCoversOrdinary'
  BY <1>1, CertificateStep
<1>. QED
  BY <1>2, <1>3, <1>5, <1>6, <1>7, <1>8, <1>9, <1>10, <1>11, <1>12, <1>13,
     <1>14, <1>15, <1>16

LEMMA ProtocolInit ==
  ASSUME Init
  PROVE  ProtocolTypeOK
<1>1. /\ [allocation |-> 0, acknowledged |-> 0, allocation_prefix |-> 0,
          receipt_prefix |-> 0] \in GatewayState
      /\ [active_round |-> 0, last_round |-> 0]
           \in [active_round : Nat, last_round : Nat]
      /\ [status |-> "none", terminal |-> FALSE] \in LocalGrantState
      /\ [status |-> "none", case |-> NoCase] \in LocalTokenState
      /\ NoReceipt \in Receipt
      /\ [mode |-> "Open", active |-> 0, installed |-> 0, clock_floor |-> 0,
          receipt |-> 0] \in LocalGatewayState
      /\ [prepared |-> Never, begun |-> FALSE, seal |-> Never,
          outcome |-> "none"] \in LocalRoundState
  BY DEF GatewayState, LocalGrantState, LocalTokenState, NoReceipt, Receipt,
     LocalGatewayState, LocalRoundState
<1>2. NoToken \in TokenState
  BY DEF NoToken, TokenState
<1>3. NoRound \in RoundState
  BY DEF NoRound, RoundState
<1>. QED
  BY <1>1, <1>2, <1>3 DEF Init, ProtocolTypeOK, GrantState

LEMMA AdjudicationInit ==
  ASSUME Init
  PROVE  AdjudicationInv
<1>1. EconomicInv
  BY InitEstablishes DEF Init
<1>2. TypeOK
  BY <1>1, ProtocolInit, Types DEF EconomicInv
<1>3. \A t \in Grants : /\ grant[t] = "none" /\ token[t] = NoToken
                        /\ localGrant[t].status = "none"
                        /\ ~localGrant[t].terminal
                        /\ localToken[t].status = "none"
  BY DEF Init
<1>4. \A t \in Grants : /\ token[t].status = "none" /\ token[t].allocation = 0
                        /\ ~token[t].reconciled
  BY <1>3 DEF NoToken
<1>5. \A c \in Cases : /\ case[c].status = "none" /\ ~Received(c)
                       /\ localCase[c].position = 0
  BY DEF Init, EconomicInit, Unadmitted, Received, NoReceipt
<1>6. \A g \in Gateways :
        /\ gateway[g].allocation = 0 /\ gateway[g].acknowledged = 0
        /\ gateway[g].allocation_prefix = 0 /\ gateway[g].receipt_prefix = 0
        /\ localGateway[g].mode = "Open" /\ localGateway[g].active = 0
        /\ localGateway[g].installed = 0 /\ localGateway[g].receipt = 0
        /\ \A n \in Rounds : /\ localRound[g][n].outcome = "none"
                             /\ localRound[g][n].seal = Never
  BY DEF Init
<1>7. /\ enrollment.active_round = 0 /\ enrollment.last_round = 0
      /\ actions = {}
  BY DEF Init, EconomicInit
<1>8. \A n \in Rounds :
        /\ round[n].status = "none" /\ round[n].gateways = {}
        /\ round[n].acknowledged = {}
        /\ \A g \in Gateways : round[n].seal[g] = Never
        /\ n \in Nat /\ n # 0
  BY ProtocolAssumption DEF Init, NoRound, Rounds
<1>9. TokenInv
  BY <1>3, <1>4 DEF TokenInv, TokenAgrees, Imported, Disposed
<1>10. ReceiptInv /\ AllocationInv
  BY <1>4, <1>5 DEF ReceiptInv, AllocationInv
<1>11. PrefixesAreDense
  BY <1>6 DEF PrefixesAreDense
<1>12. RoundInv
  BY <1>7, <1>8 DEF RoundInv, RoundPlace
<1>13. GatewayInv
  BY <1>6, <1>7 DEF GatewayInv, GatewayPlace
<1>14. SealInv
  BY <1>6, <1>8 DEF SealInv, SealPlace
<1>15. /\ CloseRightHeld /\ ClockInv /\ Chronology /\ BooksInv
       /\ CertificateCoversOrdinary
  BY <1>7, <1>8 DEF CloseRightHeld, ClockInv, Chronology, BooksInv,
     CertificateCoversOrdinary
<1>. QED
  BY <1>1, <1>2, <1>9, <1>10, <1>11, <1>12, <1>13, <1>14, <1>15
     DEF AdjudicationInv

LEMMA AdjudicationInvariance == Spec => []AdjudicationInv
<1>1. Init => AdjudicationInv
  BY AdjudicationInit
<1>2. AdjudicationInv /\ [Next]_vars => AdjudicationInv'
  BY AdjudicationInvStep
<1>. QED
  BY <1>1, <1>2, PTL DEF Spec

-----------------------------------------------------------------------------
(* Theorems.                                                               *)

(* Every counter, round and record of the two kinds of host has its type,  *)
(* for any enrollment (the assignments of every command of the protocol).  *)
THEOREM ProtocolTypes == Spec => []TypeOK
  BY AdjudicationInvariance, PTL DEF AdjudicationInv

(* From CLOSE until a gateway installs it, everything the gateway has      *)
(* received is admitted and everything allocated before the round is       *)
(* reconciled, for any number of gateways, tokens and rounds (BEGIN, seal, *)
(* drain, READY, CLOSE): the gateway has been sealed since, and the        *)
(* prefixes had passed the seal and the cutoff.                            *)
THEOREM FenceTheorem == Spec => []FenceComplete
<1>1. AdjudicationInv => FenceComplete
  <2>. SUFFICES ASSUME AdjudicationInv, NEW n \in Rounds,
                       round[n].status = "Committed",
                       NEW g \in round[n].gateways,
                       localGateway[g].installed < n
                PROVE  /\ \A c \in Cases :
                            RouteOf[c] = g /\ Received(c) =>
                              case[c].status # "none"
                       /\ \A t \in Grants :
                            /\ GatewayOf[t] = g
                            /\ token[t].allocation \in 1..round[n].cutoff[g]
                            => token[t].reconciled
    BY DEF FenceComplete
  <2>1. AllDrained(n)
    BY DEF AdjudicationInv, SealInv
  <2>. QED
    BY <2>1, SealedAdmitted DEF AdjudicationInv
<1>. QED
  BY <1>1, AdjudicationInvariance, PTL

(* A case received at a covered gateway before its family's closing time   *)
(* was admitted before the closure: what the seal counts is admitted, and  *)
(* what is received after the installation is dated by the clock floor     *)
(* (receive, INSTALL).                                                     *)
THEOREM ChronologyTheorem == Spec => []Chronology
  BY AdjudicationInvariance, PTL DEF AdjudicationInv

(* Centre and gateway never disagree on what became of a token, and an     *)
(* admitted case keeps the receipt its gateway gave it (IMPORT, RECONCILE  *)
(* and the local dispositions).                                            *)
THEOREM DispositionTheorem == Spec => []DispositionsAgree
<1>1. AdjudicationInv => DispositionsAgree
  BY DEF AdjudicationInv, TokenInv, TokenAgrees, ReceiptInv, DispositionsAgree
<1>. QED
  BY <1>1, AdjudicationInvariance, PTL

(* A retired grant is never spent, and a gateway gives a grant up only     *)
(* when it is retired or its token settled (RETIRE, ISSUE, LOCAL_TERMINAL).*)
THEOREM RetirementTheorem == Spec => []RetiredIsUnspent
<1>1. AdjudicationInv => RetiredIsUnspent
  BY DEF AdjudicationInv, TokenInv, TokenAgrees, RetiredIsUnspent
<1>. QED
  BY <1>1, AdjudicationInvariance, PTL

(* The prefixes are dense, in whatever order tokens are imported,          *)
(* reconciled and advanced over (ADVANCE, ADVANCE_RECEIPT): allocations    *)
(* and positions of one gateway are distinct.                              *)
THEOREM PrefixTheorem == Spec => []PrefixesAreDense
  BY AdjudicationInvariance, PTL DEF AdjudicationInv

(* A gateway stops receiving for the active round only, and has installed  *)
(* what the centre decided (seal_begin, INSTALL and their proofs); rounds  *)
(* do not overlap, from BEGIN to the last acknowledgement (ACK_INSTALL).   *)
THEOREM CurrencyTheorem == Spec => []RoundsAreCurrent
<1>1. AdjudicationInv => GatewaysAreCurrent
  <2>. SUFFICES ASSUME AdjudicationInv, NEW g \in Gateways
                PROVE  /\ localGateway[g].mode # "Open" =>
                            localGateway[g].active = enrollment.active_round
                       /\ gateway[g].acknowledged <= localGateway[g].installed
                       /\ \A n \in Rounds : localRound[g][n].outcome # "none" =>
                            /\ localRound[g][n].outcome = round[n].status
                            /\ n <= localGateway[g].installed
    BY DEF GatewaysAreCurrent
  <2>1. GatewayPlace(g) /\ RoundInv
    BY DEF AdjudicationInv, GatewayInv
  <2>2. /\ gateway[g].acknowledged \in Nat /\ localGateway[g].installed \in Nat
        /\ enrollment.active_round \in Nat /\ enrollment.last_round \in Nat
    BY DEF AdjudicationInv, TypeOK, GatewayState, LocalGatewayState
  <2>3. gateway[g].acknowledged <= localGateway[g].installed
    BY <2>1, <2>2 DEF GatewayPlace, RoundInv
  <2>. QED
    BY <2>1, <2>3 DEF GatewayPlace
<1>2. AdjudicationInv => OneRoundAtATime
  BY InProgress, Types DEF AdjudicationInv, OneRoundAtATime
<1>3. AdjudicationInv => RoundsAreCurrent
  BY <1>1, <1>2 DEF RoundsAreCurrent
<1>. QED
  BY <1>3, AdjudicationInvariance, PTL

(* CLOSE never finds a family of its round closed by another (BEGIN's      *)
(* check still holds when the round becomes ready).                        *)
THEOREM RightTheorem == Spec => []CloseRightHeld
  BY AdjudicationInvariance, PTL DEF AdjudicationInv

(* What a certificate states of the ordinary actions on its families is    *)
(* true of the books, at CLOSE and for ever after: the families are        *)
(* unavailable from then on (CLOSE, DECIDE).                               *)
THEOREM CertificateTheorem == Spec => []CertificateCoversOrdinary
  BY AdjudicationInvariance, PTL DEF AdjudicationInv

(***************************************************************************)
(* Part 3.  The registry.                                                  *)
(***************************************************************************)

-----------------------------------------------------------------------------
(* What the registry shows of the hosts, and which steps show nothing.     *)

LEMMA ShowsStatus ==
  ASSUME NEW c \in Cases
  PROVE  /\ StatusShown[c] = IF case[c].status # "none" THEN EffectiveStatus(c)
                             ELSE IF Received(c) THEN "received" ELSE "nowhere"
         /\ DateShown[c] = IF Received(c) THEN localCase[c].received_at ELSE Never
  BY DEF StatusShown, DateShown

\* What a status shown says of the case.
LEMMA ReadsStatus ==
  ASSUME TypeOK, NEW c \in Cases
  PROVE  /\ StatusShown[c] \in {"nowhere", "received", "OrdinaryPending",
              "AdjustmentPending", "FinalAllow", "FinalDeny"}
         /\ StatusShown[c] = "nowhere" <=> case[c].status = "none" /\ ~Received(c)
         /\ StatusShown[c] = "received" <=> case[c].status = "none" /\ Received(c)
         /\ StatusShown[c] = "FinalAllow" <=> case[c].status = "FinalAllow"
         /\ case[c].status # "none" => StatusShown[c] = EffectiveStatus(c)
<1>1. case[c].status \in CaseStatus
  BY DEF TypeOK, EconomicTypeOK, CaseState
<1>. QED
  BY <1>1, ShowsStatus DEF CaseStatus, EffectiveStatus

(* A family has consumed its entitlement if and only if a case of it is    *)
(* allowed.                                                                *)
LEMMA SettledShown ==
  ASSUME TypeOK, EntitlementIsHead, NEW f \in Families
  PROVE  Registry!Settled(f) <=> Consumed(f)
<1>1. ASSUME NEW c \in Cases, FamilyOf[c] = f, StatusShown[c] = "FinalAllow"
      PROVE  Consumed(f)
  <2>1. family[f].entitlement.case = c /\ c # NoCase
    BY <1>1, ReadsStatus, Enrollment DEF EntitlementIsHead
  <2>. QED
    BY <2>1 DEF Consumed, Unconsumed
<1>2. ASSUME Consumed(f)
      PROVE  \E c \in Cases : FamilyOf[c] = f /\ StatusShown[c] = "FinalAllow"
  <2>. DEFINE c == family[f].entitlement.case
  <2>1. c \in Cases /\ FamilyOf[c] = f /\ case[c].status = "FinalAllow"
    BY <1>2 DEF EntitlementIsHead
  <2>. QED
    BY <2>1, ReadsStatus
<1>. QED
  BY <1>1, <1>2 DEF Registry!Settled

(* A committed round stays as it was committed.                            *)
LEMMA StaysCommitted ==
  ASSUME StepEffect, NEW n \in Rounds, round[n].status = "Committed"
  PROVE  round'[n].status = "Committed" /\ Closure(n)' = Closure(n)
<1>. USE DEF Closure
<1>1. CASE UNCHANGED round
  BY <1>1
<1>2. CASE \E m \in Rounds : Begins(m)
  BY <1>2 DEF Begins, SameBut
<1>3. CASE \E g \in Gateways, m \in Rounds : Drains(g, m)
  BY <1>3 DEF Drains, SameBut
<1>4. CASE \E m \in Rounds : Readies(m) \/ Aborts(m)
  BY <1>4 DEF Readies, Aborts, KeepsCourse, SameBut
<1>5. CASE \E m \in Rounds, at \in Nat : Commits(m, at)
  BY <1>5 DEF Commits, KeepsCourse, SameBut
<1>6. CASE \E g \in Gateways, m \in Rounds : Acknowledges(g, m)
  BY <1>6 DEF Acknowledges, KeepsTerms, SameBut
<1>. QED
  BY <1>1, <1>2, <1>3, <1>4, <1>5, <1>6, StatusEffects

NoCommit == \A n \in Rounds, at \in Nat : ~Commits(n, at)

LEMMA ClosuresStay ==
  ASSUME StepEffect, NoCommit
  PROVE  ClosuresShown' = ClosuresShown
<1>1. ASSUME NEW n \in Rounds
      PROVE  round'[n].status = "Committed" <=> round[n].status = "Committed"
  BY CommittedBefore, StaysCommitted DEF NoCommit
<1>. QED
  BY <1>1, StaysCommitted DEF ClosuresShown

LEMMA ClosuresGrow ==
  ASSUME StepEffect, NEW n \in Rounds, NEW at \in Nat, Commits(n, at)
  PROVE  ClosuresShown' = ClosuresShown \union
           {[families |-> round[n].families, gateways |-> round[n].gateways,
             at |-> at]}
<1>1. /\ round'[n].status = "Committed" /\ round[n].status # "Committed"
      /\ Closure(n)' = [families |-> round[n].families,
                        gateways |-> round[n].gateways, at |-> at]
  BY DEF Commits, KeepsCourse, KeepsTerms, Closure
<1>2. ASSUME NEW m \in Rounds \ {n}
      PROVE  /\ round'[m].status = "Committed" <=> round[m].status = "Committed"
             /\ round[m].status = "Committed" => Closure(m)' = Closure(m)
  BY StaysCommitted DEF Commits, KeepsCourse, SameBut
<1>. QED
  BY <1>1, <1>2 DEF ClosuresShown

LEMMA LostStay ==
  ASSUME TypeOK, StepEffect, NoCommit
  PROVE  LostShown' = LostShown
<1>1. \A f \in Families : family'[f].unavailable = family[f].unavailable
  BY FamilyEffects DEF NoCommit, KeepsClosure
<1>. QED
  BY <1>1 DEF LostShown

LEMMA DatesStay ==
  ASSUME UNCHANGED localCase
  PROVE  DateShown' = DateShown /\ \A c \in Cases : Received(c)' <=> Received(c)
  BY DEF DateShown, Received

\* The status shown of a case that is left alone.
LEMMA StatusStays ==
  ASSUME NEW c \in Cases, case'[c].status = case[c].status,
         localCase'[c] = localCase[c],
         family'[FamilyOf[c]].unavailable = family[FamilyOf[c]].unavailable
  PROVE  StatusShown'[c] = StatusShown[c]
<1>1. StatusShown[c] = IF case[c].status # "none" THEN EffectiveStatus(c)
                       ELSE IF Received(c) THEN "received" ELSE "nowhere"
  BY ShowsStatus
<1>2. StatusShown'[c] = IF case'[c].status # "none" THEN EffectiveStatus(c)'
                        ELSE IF Received(c)' THEN "received" ELSE "nowhere"
  BY DEF StatusShown
<1>. QED
  BY <1>1, <1>2 DEF EffectiveStatus, Received

LEMMA NothingShown ==
  ASSUME TypeOK, StepEffect, NoCommit, UNCHANGED localCase,
         \A c \in Cases : case'[c].status = case[c].status
  PROVE  UNCHANGED Registry!vars
<1>1. \A f \in Families : family'[f].unavailable = family[f].unavailable
  BY FamilyEffects DEF NoCommit, KeepsClosure
<1>2. \A c \in Cases : StatusShown'[c] = StatusShown[c]
  BY <1>1, StatusStays, Enrollment
<1>3. StatusShown' = StatusShown
  BY <1>2 DEF StatusShown
<1>. QED
  BY <1>3, ClosuresStay, LostStay, DatesStay DEF Registry!vars

-----------------------------------------------------------------------------
(* The step of the registry that each step of the protocol is.             *)

(* The receipt of a case dates it after every closure its gateway is       *)
(* covered by: the gateway is open, so it has installed them all.          *)
LEMMA ReceiveIsReceive ==
  ASSUME AdjudicationInv, StepEffect, NEW t \in Grants, NEW c \in Cases,
         NEW at \in Time, Receipts(t, c, at), ~Received(c)
  PROVE  Registry!Receive(c, at)
<1>. USE DEF AdjudicationInv
<1>. DEFINE g == RouteOf[c]
<1>1. /\ g \in Gateways /\ localGateway[g].mode = "Open"
      /\ localGateway[g].clock_floor <= at /\ at \in Nat
      /\ UNCHANGED <<economicVars, centralVars>>
      /\ localCase'[c] = [position |-> localGateway[g].receipt + 1,
                          received_at |-> at]
      /\ SameBut(localCase', localCase, Cases, c)
  BY ProtocolAssumption, BoundAssumption DEF Receipts, Time
<1>2. StatusShown[c] = "nowhere" /\ case[c].status = "none"
  BY ReadsStatus DEF ReceiptInv
<1>3. ASSUME NEW n \in Rounds, round[n].status = "Committed",
             g \in round[n].gateways
      PROVE  round[n].closed_at <= at
  <2>1. AllDrained(n)
    BY <1>3 DEF SealInv
  <2>2. ~(localGateway[g].installed < n)
    BY <1>1, <1>3, <2>1, SealedAdmitted
  <2>3. n <= localGateway[g].installed
    BY <1>1, <2>2, RoundTypes, Types
  <2>4. round[n].closed_at <= localGateway[g].clock_floor
    BY <1>3, <2>3 DEF ClockInv
  <2>. QED
    BY <1>1, <2>4, ClockTypes, Types DEF Never
<1>4. Received(c)'
  <2>1. localGateway[g].receipt \in Nat
    BY <1>1 DEF TypeOK, LocalGatewayState
  <2>. QED
    BY <1>1, <2>1 DEF Received, NoReceipt
<1>5. StatusShown' = [StatusShown EXCEPT ![c] = "received"]
  <2>1. StatusShown'[c] = "received"
    BY <1>1, <1>2, <1>4 DEF StatusShown, economicVars
  <2>2. \A d \in Cases \ {c} : StatusShown'[d] = StatusShown[d]
    BY <1>1, StatusStays DEF SameBut, economicVars
  <2>. QED
    BY <2>1, <2>2 DEF StatusShown
<1>6. DateShown' = [DateShown EXCEPT ![c] = at]
  <2>1. DateShown'[c] = at
    BY <1>1, <1>4 DEF DateShown
  <2>2. \A d \in Cases \ {c} : DateShown'[d] = DateShown[d]
    BY <1>1 DEF DateShown, SameBut, Received
  <2>. QED
    BY <2>1, <2>2 DEF DateShown
<1>7. UNCHANGED <<LostShown, ClosuresShown>>
  BY <1>1 DEF LostShown, ClosuresShown, Closure, economicVars, centralVars
<1>. QED
  BY <1>2, <1>3, <1>5, <1>6, <1>7 DEF Registry!Receive, ClosuresShown, Closure

\* The steps of one case: it takes a new status and all else stays.
LEMMA CaseBecomes ==
  ASSUME TypeOK, StepEffect, NoCommit, UNCHANGED localCase, NEW c \in Cases,
         \A d \in Cases \ {c} : case'[d] = case[d],
         NEW new, StatusShown'[c] = new
  PROVE  Registry!Becomes(c, new)
<1>1. \A f \in Families : family'[f].unavailable = family[f].unavailable
  BY FamilyEffects DEF NoCommit, KeepsClosure
<1>2. \A d \in Cases \ {c} : StatusShown'[d] = StatusShown[d]
  BY <1>1, StatusStays, Enrollment
<1>3. StatusShown' = [StatusShown EXCEPT ![c] = new]
  <2>1. /\ StatusShown = [d \in Cases |-> StatusShown[d]]
        /\ StatusShown' = [d \in Cases |-> StatusShown'[d]]
    BY DEF StatusShown
  <2>. QED
    BY <1>2, <2>1
<1>. QED
  BY <1>3, ClosuresStay, LostStay, DatesStay DEF Registry!Becomes

LEMMA ImportIsAdmit ==
  ASSUME AdjudicationInv, StepEffect, NoCommit, UNCHANGED localCase,
         NEW c \in Cases, Admit(c, localCase[c]), Received(c)
  PROVE  Registry!Admit(c)
<1>. USE DEF AdjudicationInv
<1>. DEFINE new == IF FamilyOf[c] \in LostShown
                   THEN "AdjustmentPending" ELSE "OrdinaryPending"
<1>1. Admits(c)
  BY AdmitStep DEF TypeOK
<1>2. StatusShown[c] = "received"
  BY <1>1, ReadsStatus DEF Admits
<1>3. FamilyOf[c] \in LostShown <=> family[FamilyOf[c]].unavailable
  BY Enrollment DEF LostShown
<1>4. StatusShown'[c] = new
  <2>1. case'[c].status = new /\ UNCHANGED family
    BY <1>1, <1>3 DEF Admits
  <2>2. StatusShown'[c] = EffectiveStatus(c)'
    BY <2>1 DEF StatusShown
  <2>3. EffectiveStatus(c)' = new
    BY <1>3, <2>1 DEF EffectiveStatus
  <2>. QED
    BY <2>2, <2>3
<1>. HIDE DEF new
<1>5. \A d \in Cases \ {c} : case'[d] = case[d]
  BY <1>1 DEF Admits
<1>6. Registry!Becomes(c, new)
  BY <1>4, <1>5, CaseBecomes
<1>. QED
  BY <1>2, <1>6 DEF Registry!Admit, new

(* The commit of a round closes its families: what its gateways have       *)
(* received is admitted, and the families that lose their ordinary path    *)
(* with it are those the loop of close marks.                              *)
LEMMA CommitIsClose ==
  ASSUME AdjudicationInv, StepEffect, NEW n \in Rounds, NEW at \in Time,
         Commits(n, at)
  PROVE  Registry!Close(round[n].families, round[n].gateways, at)
<1>. USE DEF AdjudicationInv
<1>. DEFINE F == round[n].families
            G == round[n].gateways
<1>1. /\ n \in Nat /\ at \in Nat /\ F \in SUBSET Families
      /\ CloseFamilies(n, F, at) /\ UNCHANGED localCase
  BY ProtocolAssumption, BoundAssumption
     DEF TypeOK, RoundState, Rounds, Commits, Time, localVars
<1>2. /\ UNCHANGED case
      /\ \A f \in F : ~family[f].closed
      /\ \A f \in Families : family'[f].unavailable <=> f \in Unavailable(F)
  <2>1. Closes(n, F, at)
    BY <1>1, CloseStep DEF TypeOK
  <2>. QED
    BY <2>1 DEF Closes
<1>3. \A f \in F : ~Registry!Closed(f)
  BY <1>1, <1>2 DEF Registry!Closed, ClosuresShown, Closure, BooksInv
<1>4. ASSUME NEW c \in Cases, RouteOf[c] \in G
      PROVE  StatusShown[c] # "received"
  BY <1>1, <1>4, CommitCovers, ReadsStatus
<1>5. LostShown' = Unavailable(F) /\ Unavailable(F) \in SUBSET Families
  BY <1>1, <1>2, UnavailableFacts DEF LostShown
<1>6. ASSUME NEW f \in Families
      PROVE  f \in LostShown' <=> Registry!Loses(f, F, LostShown')
  <2>. DEFINE U == Unavailable(F)
  <2>1. Terms[f].prerequisites \in SUBSET Families
    BY Enrollment
  <2>2. Deprived(f, U) <=>
          \E g \in Terms[f].prerequisites : g \in U /\ ~Registry!Settled(g)
    BY <2>1, SettledShown DEF Deprived, EconomicInv
  <2>3. f \in LostShown <=> family[f].unavailable
    BY DEF LostShown
  <2>4. f \in U <=> f \in F \/ family[f].unavailable \/ Deprived(f, U)
    BY <1>1, UnavailableFacts, LostToPrerequisite DEF Stable
  <2>5. [h \in Families |-> Terms[h].prerequisites][f] = Terms[f].prerequisites
    OBVIOUS
  <2>. HIDE DEF U
  <2>. QED
    BY <1>5, <2>2, <2>3, <2>4, <2>5 DEF Registry!Loses, U
<1>7. StatusShown' = [c \in Cases |->
        IF StatusShown[c] = "OrdinaryPending" /\ FamilyOf[c] \in LostShown'
        THEN "AdjustmentPending" ELSE StatusShown[c]]
  <2>1. ASSUME NEW c \in Cases
        PROVE  StatusShown'[c] =
                 IF StatusShown[c] = "OrdinaryPending" /\ FamilyOf[c] \in LostShown'
                 THEN "AdjustmentPending" ELSE StatusShown[c]
    <3>1. /\ FamilyOf[c] \in LostShown' <=> family'[FamilyOf[c]].unavailable
          /\ family[FamilyOf[c]].unavailable => family'[FamilyOf[c]].unavailable
      BY <1>1, <1>2, <1>5, UnavailableFacts, Enrollment DEF Stable
    <3>2. StatusShown'[c] = IF case[c].status # "none" THEN EffectiveStatus(c)'
                            ELSE IF Received(c) THEN "received" ELSE "nowhere"
      BY <1>1, <1>2, DatesStay DEF StatusShown
    <3>. QED
      BY <1>2, <3>1, <3>2, ShowsStatus DEF EffectiveStatus
  <2>. QED
    BY <2>1 DEF StatusShown
<1>8. UNCHANGED DateShown
  BY <1>1, DatesStay
<1>9. ClosuresShown' = ClosuresShown \union
        {[families |-> F, gateways |-> G, at |-> at]}
  BY <1>1, ClosuresGrow
<1>. HIDE DEF F, G
<1>. QED
  BY <1>3, <1>4, <1>5, <1>6, <1>7, <1>8, <1>9 DEF Registry!Close, F, G

(* A decision is a decision on the status shown, a correction shows        *)
(* nothing.                                                                *)
LEMMA DenialIsDeny ==
  ASSUME AdjudicationInv, StepEffect, NoCommit, UNCHANGED localCase,
         NEW c \in Cases, NEW now, Deny(c, now)
  PROVE  Registry!Deny(c)
<1>. USE DEF AdjudicationInv
<1>1. Denies(c) /\ EffectiveStatus(c) \in {"OrdinaryPending", "AdjustmentPending"}
  BY DenyStep DEF TypeOK, Deny, Decidable
<1>2. StatusShown[c] \in Registry!Pending
  BY <1>1, ReadsStatus DEF Denies, Registry!Pending
<1>3. StatusShown'[c] = "FinalDeny"
  BY <1>1 DEF Denies, StatusShown, EffectiveStatus
<1>4. \A d \in Cases \ {c} : case'[d] = case[d]
  BY <1>1 DEF Denies
<1>. QED
  BY <1>2, <1>3, <1>4, CaseBecomes DEF Registry!Deny

LEMMA AllowIsAllow ==
  ASSUME AdjudicationInv, StepEffect, NoCommit, UNCHANGED localCase,
         NEW c \in Cases, NEW kind, NEW n, NEW p, Allows(c, kind, n, p),
         EffectiveStatus(c) \in {"OrdinaryPending", "AdjustmentPending"},
         EffectiveStatus(c) = "OrdinaryPending" =>
           \A g \in Terms[FamilyOf[c]].prerequisites : Consumed(g)
  PROVE  Registry!Allow(c)
<1>. USE DEF AdjudicationInv
<1>1. StatusShown[c] = EffectiveStatus(c)
  BY ReadsStatus DEF EffectiveStatus
<1>2. StatusShown[c] \in Registry!Pending
  BY <1>1 DEF Registry!Pending
<1>3. ~Registry!Settled(FamilyOf[c])
  BY SettledShown, Enrollment DEF Allows, EconomicInv
<1>4. ASSUME StatusShown[c] = "OrdinaryPending",
             NEW g \in [f \in Families |-> Terms[f].prerequisites][FamilyOf[c]]
      PROVE  Registry!Settled(g)
  BY <1>1, <1>4, SettledShown, Enrollment DEF EconomicInv
<1>5. StatusShown'[c] = "FinalAllow"
  BY DEF Allows, StatusShown, EffectiveStatus
<1>6. \A d \in Cases \ {c} : case'[d] = case[d]
  BY DEF Allows
<1>7. Registry!Becomes(c, "FinalAllow")
  BY <1>5, <1>6, CaseBecomes
<1>. QED
  BY <1>2, <1>3, <1>4, <1>7 DEF Registry!Allow

LEMMA RulingShows ==
  ASSUME AdjudicationInv, StepEffect, NoCommit, UNCHANGED localCase, Ruling
  PROVE  \/ UNCHANGED Registry!vars
         \/ \E c \in Cases : Registry!Deny(c) \/ Registry!Allow(c)
<1>. USE DEF AdjudicationInv
<1>1. PICK c \in Cases : Decide(c) \/ CorrectSome(c)
  BY DEF Ruling
<1>2. ASSUME NEW now \in Time, Deny(c, now)
      PROVE  Registry!Deny(c)
  BY <1>2, DenialIsDeny
<1>3. ASSUME NEW now \in Time, AllowOrdinary(c, now)
      PROVE  Registry!Allow(c)
  <2>1. /\ EffectiveStatus(c) = "OrdinaryPending"
        /\ \A g \in Terms[FamilyOf[c]].prerequisites : Consumed(g)
    BY <1>3 DEF AllowOrdinary
  <2>2. \E p : Allows(c, "Ordinary", Terms[FamilyOf[c]].ordinary_atoms, p)
    BY <1>3, OrdinaryEffect DEF TypeOK, AllowsRetail, AllowsSupplier
  <2>. QED
    BY <2>1, <2>2, AllowIsAllow
<1>4. ASSUME NEW now \in Time, NEW p \in Pools, NEW n \in Amounts,
             AllowAdjustment(c, p, n, now)
      PROVE  Registry!Allow(c)
  <2>1. EffectiveStatus(c) = "AdjustmentPending" /\ n \in Int
    BY <1>4, BoundAssumption DEF AllowAdjustment
  <2>2. Adjusts(c, p, n)
    BY <1>4, <2>1, AdjustmentEffect DEF TypeOK
  <2>. QED
    BY <2>1, <2>2, AllowIsAllow DEF Adjusts
<1>5. ASSUME CorrectSome(c)
      PROVE  UNCHANGED Registry!vars
  <2>1. PICK now \in Time, r \in Nat,
             n \in Terms[FamilyOf[c]].correction_atoms : Correct(c, r, n, now)
    BY <1>5, BoundAssumption DEF CorrectSome
  <2>2. Corrects(c, r, n)
    BY <2>1, CorrectEffect DEF TypeOK, EconomicInv
  <2>3. \A d \in Cases : case'[d].status = case[d].status
    BY <2>2 DEF Corrects
  <2>. QED
    BY <2>3, NothingShown
<1>. QED
  BY <1>1, <1>2, <1>3, <1>4, <1>5 DEF Decide

LEMMA TokenStepShows ==
  ASSUME AdjudicationInv, StepEffect, NEW t \in Grants, TokenStep(t)
  PROVE  \/ UNCHANGED Registry!vars
         \/ \E c \in Cases : \/ \E at \in Time : Registry!Receive(c, at)
                             \/ Registry!Admit(c)
<1>. USE DEF AdjudicationInv
<1>1. ProtocolTypeOK
  BY Types
<1>2. NoCommit
  <2>1. UNCHANGED round
    BY <1>1, TokenEffects DEF TokenFrame
  <2>. QED
    BY <2>1 DEF NoCommit, Commits
<1>3. CASE \E c \in Cases, at \in Time : Receive(t, c, at)
  <2>1. PICK c \in Cases, at \in Time : Receive(t, c, at)
    BY <1>3
  <2>2. at \in Nat
    BY BoundAssumption DEF Time
  <2>3. Receipts(t, c, at)
    BY <1>1, <2>1, <2>2, ReceiveStep
  <2>4. CASE ~Received(c)
    BY <2>3, <2>4, ReceiveIsReceive
  <2>5. CASE Received(c)
    BY <1>2, <2>3, <2>5, NothingShown DEF Receipts, economicVars
  <2>. QED
    BY <2>4, <2>5
<1>4. CASE Import(t)
  <2>. DEFINE c == localToken[t].case
  <2>1. Imports(t) /\ UNCHANGED localCase
    BY <1>1, <1>4, ImportStep DEF Imports, localVars
  <2>2. c \in Cases /\ Received(c)
    BY <2>1 DEF Imports, TokenInv, TokenAgrees
  <2>3. CASE Admit(c, localCase[c])
    BY <1>2, <2>1, <2>2, <2>3, ImportIsAdmit
  <2>4. CASE UNCHANGED case
    BY <1>2, <2>1, <2>4, NothingShown
  <2>. QED
    BY <2>1, <2>2, <2>3, <2>4 DEF Imports
<1>5. CASE UNCHANGED <<case, localCase>>
  BY <1>2, <1>5, NothingShown
<1>. QED
  BY <1>3, <1>4, <1>5 DEF TokenStep, LocalGrant, RegisterGrant, Issue,
     RetireGrant, Activate, ReturnUnused, Reconcile, Advance, AdvanceReceipt,
     LocalTerminal, economicVars, localVars

LEMMA RegistryNext ==
  ASSUME AdjudicationInv, [Next]_vars
  PROVE  [Registry!Next]_(Registry!vars)
<1>. USE DEF AdjudicationInv
<1>1. ProtocolTypeOK /\ StepEffect
  BY ProtocolEffects, Types
<1>2. CASE \E t \in Grants : TokenStep(t)
  BY <1>1, <1>2, TokenStepShows DEF Registry!Next
<1>3. ASSUME NEW n \in Rounds, NEW at \in Time, Close(n, at)
      PROVE  Registry!Next
  <2>1. /\ at \in Nat /\ round[n].families \in SUBSET Families
        /\ round[n].gateways \in SUBSET Gateways
    BY BoundAssumption DEF Time, TypeOK, RoundState
  <2>2. Commits(n, at)
    BY <1>1, <1>3, <2>1, ProtocolCloseStep
  <2>3. Registry!Close(round[n].families, round[n].gateways, at)
    BY <1>1, <2>2, CommitIsClose
  <2>. QED
    BY <2>1, <2>3 DEF Registry!Next
<1>4. ASSUME UNCHANGED <<case, localCase, family>>, NoCommit
      PROVE  UNCHANGED Registry!vars
  BY <1>1, <1>4, NothingShown
<1>5. CASE \E g \in Gateways, n \in Rounds : GatewayStep(g, n)
  <2>1. PICK g \in Gateways, n \in Rounds : GatewayStep(g, n)
    BY <1>5
  <2>2. UNCHANGED <<case, localCase, family>>
    BY <2>1 DEF GatewayStep, PrepareRound, SealBegin, Sealed, Drain, Install,
       AckInstall, economicVars, localVars
  <2>3. UNCHANGED round \/ Drains(g, n) \/ Acknowledges(g, n)
    BY <1>1, <2>1, DrainStep, AckInstallStep
       DEF GatewayStep, PrepareRound, SealBegin, Sealed, Install, centralVars
  <2>4. NoCommit
    BY <2>3 DEF NoCommit, Commits, Drains, Acknowledges, KeepsTerms, SameBut
  <2>. QED
    BY <1>4, <2>2, <2>4
<1>6. ASSUME NEW n \in Rounds,
             \/ \E mode \in Modes, F \in SUBSET Families, G \in SUBSET Gateways :
                  Begin(n, mode, F, G)
             \/ Ready(n) \/ Abort(n)
      PROVE  UNCHANGED Registry!vars
  <2>1. UNCHANGED <<case, localCase, family>>
    BY <1>6 DEF Begin, Ready, Abort, economicVars, localVars
  <2>2. Begins(n) \/ Readies(n) \/ Aborts(n)
    BY <1>1, <1>6, BeginStep, ReadyStep, AbortStep
  <2>3. NoCommit
    BY <2>2 DEF NoCommit, Commits, Begins, Readies, Aborts, KeepsCourse, SameBut
  <2>. QED
    BY <1>4, <2>1, <2>3
<1>7. CASE Rule
  <2>1. Ruling /\ UNCHANGED <<round, localCase>>
    BY <1>7 DEF Rule, centralVars, localVars
  <2>2. NoCommit
    BY <2>1 DEF NoCommit, Commits
  <2>. QED
    BY <1>1, <2>1, <2>2, RulingShows DEF Registry!Next
<1>8. CASE UNCHANGED vars
  <2>1. NoCommit /\ UNCHANGED <<case, localCase, family>>
    BY <1>8 DEF NoCommit, Commits, vars, economicVars, centralVars, localVars
  <2>. QED
    BY <1>4, <2>1
<1>. QED
  BY <1>2, <1>3, <1>5, <1>6, <1>7, <1>8 DEF Next, RoundStep

LEMMA RegistryInit ==
  ASSUME Init
  PROVE  Registry!Init
<1>1. \A c \in Cases : case[c].status = "none" /\ ~Received(c)
  BY DEF Init, EconomicInit, Unadmitted, Received
<1>2. StatusShown = [c \in Cases |-> "nowhere"] /\ DateShown = [c \in Cases |-> Never]
  BY <1>1 DEF StatusShown, DateShown
<1>3. LostShown = {}
  BY DEF Init, EconomicInit, LostShown
<1>4. ClosuresShown = {}
  BY DEF Init, NoRound, ClosuresShown
<1>. QED
  BY <1>2, <1>3, <1>4 DEF Registry!Init

(* A round of many commands at several hosts closes its families at one    *)
(* moment, for any number of gateways, cases and rounds (BEGIN to CLOSE):  *)
(* every other step of a round shows nothing, CLOSE finds everything its   *)
(* gateways have received admitted, and a gateway receives again only with *)
(* the closing time as its floor.                                          *)
THEOREM ClosureRefinement == Spec => ClosesAtOnce
  BY RegistryInit, RegistryNext, AdjudicationInvariance, PTL
     DEF Spec, ClosesAtOnce, Registry!Spec

=============================================================================
