-------------------------------- MODULE Sums --------------------------------
(***************************************************************************)
(* Sums of a function over finite sets, as the specifications write them.  *)
(***************************************************************************)
EXTENDS Integers, FiniteSetsExt

\* What f is worth over the set S.
SumOver(f, S) == MapThenSumSet(LAMBDA x : f[x], S)
=============================================================================
