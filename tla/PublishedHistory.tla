-------------------------- MODULE PublishedHistory --------------------------
(***************************************************************************)
(* What an anchored store promises its host, whatever copies, restores,    *)
(* crashes and half-finished commits lie behind it: each anchor has one    *)
(* history of committed changes.  A change is published at the end of it,  *)
(* once, and never leaves it; what a reader or an acknowledged writer is   *)
(* shown is the whole history of that moment.                              *)
(***************************************************************************)
EXTENDS Naturals, Sequences

CONSTANTS Anchor,      \* the trusted allocations that stores are anchored to
          Change

VARIABLES history,     \* the published changes of each anchor, oldest first
          seen         \* what was last shown of each history

vars == <<history, seen>>

Init == /\ history = [a \in Anchor |-> <<>>]
        /\ seen = [a \in Anchor |-> <<>>]

Publish(a) ==
  \E change \in Change :
    /\ \A i \in 1..Len(history[a]) : history[a][i] # change
    /\ history' = [history EXCEPT ![a] = Append(@, change)]
    /\ UNCHANGED seen

Show(a) == /\ seen' = [seen EXCEPT ![a] = history[a]]
           /\ UNCHANGED history

Next == \E a \in Anchor : Publish(a) \/ Show(a)

Spec == Init /\ [][Next]_vars
=============================================================================
