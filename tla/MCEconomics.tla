---------------------------- MODULE MCEconomics ----------------------------
(***************************************************************************)
(* Instances of Economics for TLC.                                         *)
(***************************************************************************)
EXTENDS Economics

CONSTANTS base, addon, resale, other, baseCase, baseCase2, addonCase, resaleCase,
          otherCase, reseller, goodwill

\* The family each case is for.
MCFamilyOf == [c \in Cases |->
  CASE c \in {baseCase, baseCase2} -> base
    [] c = addonCase -> addon
    [] c = resaleCase -> resale
    [] c = otherCase -> other]

\* One case occurred on the last tick; the others at 0.
MCOccurredAt == [c \in Cases |-> IF c = baseCase2 THEN 1 ELSE 0]

\* addon needs base, resale needs addon (where enrolled); other stands alone.  resale and
\* other draw on the same supplier.
MCTerms == [f \in Families |->
  [book |-> IF f \in {resale, other} THEN "Supplier" ELSE "Retail",
   supplier_pool |-> IF f \in {resale, other} THEN reseller ELSE NoSupplier,
   prerequisites |-> Families \intersect
                       CASE f = addon -> {base} [] f = resale -> {addon}
                         [] OTHER -> {},
   ordinary_atoms |-> IF f = other THEN 1 ELSE 2,
   correction_atoms |-> IF f = base THEN {0, -1} ELSE {3},
   starts_at |-> 0, occurs_before |-> 2,
   received_by |-> 0, accepted_by |-> 1, correction_by |-> 1]]

MCEnrolled == [s \in Suppliers |->
  [maximum |-> 4, held |-> 2, consumed |-> 1, released |-> 1]]

MCAmounts == {2, -1}

MCPoolTerms == [p \in Pools |->
  [funding |-> 4, gross |-> 3, positive |-> 2, negative |-> 2,
   authorizations |-> {"Positive", "Negative", "Zero"}]]
=============================================================================
