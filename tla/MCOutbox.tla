------------------------------ MODULE MCOutbox ------------------------------
(***************************************************************************)
(* Instances of Outbox for TLC.                                            *)
(***************************************************************************)
EXTENDS Outbox, TLC

CONSTANTS ownerA, ownerB, callA1, callA2, callB1

\* Key 2 (a reversal, say) depends on key 1.
MCDependsOn == [k \in Key |-> IF k = 2 THEN {1} ELSE {}]

\* Two dispatch calls of owner A share its lease; B is the replacement.
MCOwnerOf == [w \in Worker |-> IF w \in {callA1, callA2} THEN ownerA ELSE ownerB]

\* retry_delay doubles from one tick up to the cap.
MCRetryDelay == [n \in 1..MaxAttempts |-> IF n = 1 THEN 1 ELSE 2]

\* The two calls of owner A are alike.
CallSymmetry == Permutations({callA1, callA2})
=============================================================================
