---------------------------- MODULE MCSettlement ----------------------------
(* A small instance of Settlement for TLC.                                  *)
EXTENDS Settlement, TLC

CONSTANTS p1, p2, k1, k2, k3, k4, k5, fast, good

Make(k, kind, f, atoms, expected) ==
  [key |-> k, kind |-> kind, family |-> f, atoms |-> atoms, facts |-> 0,
   expected |-> expected, reason |-> "authorized"]

\* Of the two held atoms, one family may claim both and see its claim corrected
\* to a discount, and another then asks for one of them, under a key that also
\* repeats the first claim.  A third asks for too much, and two corrections were
\* written against the claim.
MCCommand == {Make(k1, "register", None, 0, 0),
              Make(k2, "ordinary", fast, 2, 0), Make(k3, "ordinary", fast, 2, 0),
              Make(k5, "ordinary", fast, 3, 0), Make(k4, "post_hoc", fast, -1, 1), Make(k2, "post_hoc", fast, 1, 1),
              Make(k3, "ordinary", good, 1, 0),
              [Make(k5, "close", None, 0, 1) EXCEPT !.reason = "deadline"]}

MCAcceptedBy == [f \in Family |-> 0]
MCCorrectedBy == [f \in Family |-> 1]

Symmetry == Permutations(Caller)
=============================================================================
