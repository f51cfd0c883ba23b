----------------------------- MODULE MCBilling -----------------------------
(***************************************************************************)
(* An instance of Billing for TLC: terms whose periods end at one set of   *)
(* boundaries, then at another.  The sets are chosen so that at most       *)
(* Horizon instants suffice to close two periods, to present an adjustment *)
(* before the second close and after it, and to change the terms twice.    *)
(***************************************************************************)
EXTENDS Billing, TLC

CONSTANTS c1, c2

Short == {2, 4, 6}
Long == {2, 5, 8}
MCSchedule == {Short, Long}

Requests(id, mode, from, schedule, expected) ==
  [id |-> id, mode |-> mode, from |-> from, schedule |-> schedule,
   expected |-> expected]
MCChange == {Requests(1, "initial", 0, Long, 0),
             Requests(2, "immediate", 0, Short, 1),
             Requests(3, "next_boundary", 0, Short, 1),
             Requests(4, "immediate", 0, Long, 2)}

MCDelta == {1, -1}

Symmetry == Permutations(Caller)
=============================================================================
