---------------------------- MODULE ClosedAtOnce ----------------------------
(***************************************************************************)
(* What adjudication promises of its closures: one registry in which a     *)
(* receipt, an admission, a decision and a closure each take one moment,   *)
(* though the gateways that receive are elsewhere and a round takes many   *)
(* commands.  When families close, every case that a covered gateway has   *)
(* received is admitted; the pending cases of all families that thereby    *)
(* lose their ordinary path change to the adjustment path together; and    *)
(* from then on no covered gateway dates a receipt before the closure.  A  *)
(* family allows one case, for ever.                                       *)
(***************************************************************************)
EXTENDS Integers

CONSTANTS Cases, Families, Gateways, FamilyOf, RouteOf,
          Prerequisites,  \* of each family, the families it depends on
          Time, Never

VARIABLES status,   \* of each case
          date,     \* at which a gateway received it
          lost,     \* the families without an ordinary path
          closures  \* those made so far

vars == <<status, date, lost, closures>>

Init == /\ status = [c \in Cases |-> "nowhere"]
        /\ date = [c \in Cases |-> Never]
        /\ lost = {} /\ closures = {}

Pending == {"OrdinaryPending", "AdjustmentPending"}
Settled(f) == \E c \in Cases : FamilyOf[c] = f /\ status[c] = "FinalAllow"
Closed(f) == \E k \in closures : f \in k.families

Receive(c, at) ==
  /\ status[c] = "nowhere"
  /\ \A k \in closures : RouteOf[c] \in k.gateways => k.at <= at
  /\ status' = [status EXCEPT ![c] = "received"]
  /\ date' = [date EXCEPT ![c] = at]
  /\ UNCHANGED <<lost, closures>>

Becomes(c, new) ==
  status' = [status EXCEPT ![c] = new] /\ UNCHANGED <<date, lost, closures>>

Admit(c) ==
  /\ status[c] = "received"
  /\ Becomes(c, IF FamilyOf[c] \in lost
                THEN "AdjustmentPending" ELSE "OrdinaryPending")

Deny(c) == status[c] \in Pending /\ Becomes(c, "FinalDeny")

Allow(c) ==
  /\ status[c] \in Pending
  /\ ~Settled(FamilyOf[c])
  /\ status[c] = "OrdinaryPending" =>
       \A g \in Prerequisites[FamilyOf[c]] : Settled(g)
  /\ Becomes(c, "FinalAllow")

\* f loses its ordinary path when it closes, or with a prerequisite that
\* has lost its own before it was settled.  Prerequisites do not lead back to
\* a family, so F and what was lost before determine what is lost.
Loses(f, F, L) ==
  f \in F \/ f \in lost \/ \E g \in Prerequisites[f] : g \in L /\ ~Settled(g)

Close(F, G, at) ==
  /\ \A f \in F : ~Closed(f)
  /\ \A c \in Cases : RouteOf[c] \in G => status[c] # "received"
  /\ lost' \subseteq Families
  /\ \A f \in Families : f \in lost' <=> Loses(f, F, lost')
  /\ status' = [c \in Cases |->
       IF status[c] = "OrdinaryPending" /\ FamilyOf[c] \in lost'
       THEN "AdjustmentPending" ELSE status[c]]
  /\ closures' = closures \union {[families |-> F, gateways |-> G, at |-> at]}
  /\ UNCHANGED date

Next ==
  \/ \E c \in Cases : \/ \E at \in Time : Receive(c, at)
                      \/ Admit(c) \/ Deny(c) \/ Allow(c)
  \/ \E F \in SUBSET Families, G \in SUBSET Gateways, at \in Time : Close(F, G, at)

Spec == Init /\ [][Next]_vars
=============================================================================
