---------------------------- MODULE MCAcceptance ----------------------------
(* Small instances of Acceptance for TLC.                                  *)
EXTENDS Acceptance, TLC

CONSTANTS p1, p2, k1, k2, o1, o2, x1, x2

Of(k, o, f, x) == [key |-> k, operation |-> o, facts |-> f, chain |-> x]

\* One operation under two keys, the same operation with other facts on another
\* chain, and another operation under a key of the first.
MCCandidate == {Of(k1, o1, 1, x1), Of(k2, o1, 1, x1),
                Of(k2, o1, 2, x2), Of(k1, o2, 1, x1)}

Symmetry == Permutations(Caller)
=============================================================================
