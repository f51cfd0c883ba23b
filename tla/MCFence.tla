------------------------------ MODULE MCFence ------------------------------
(* Small instances of Fence for TLC.                                       *)
EXTENDS Fence, TLC

Symmetry == Permutations(Process) \cup Permutations(Directory)
              \cup Permutations(Anchor)
=============================================================================
