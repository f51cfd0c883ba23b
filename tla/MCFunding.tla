----------------------------- MODULE MCFunding -----------------------------
(***************************************************************************)
(* Instances of Funding for TLC.  A slot is worth one unit and so is the   *)
(* preparation of a round; a decision or a supplement costs twelve, an     *)
(* extension or a new writer six.  Beside its finishing bundles the centre *)
(* is admitted with room for two tokens, or for one token and either a     *)
(* cancellable round or a decision; the gateway for two grants, or for one *)
(* grant and either the preparation of a round or a new writer.  Grants,   *)
(* rounds and optional commands compete for that room.                     *)
(***************************************************************************)
EXTENDS MCAdjudication, Funding

CONSTANT centre

MCFirstOf == [F \in (SUBSET Families) \ {{}} |->
                IF plan \in F THEN plan ELSE extra]
MCCost == [k \in Kinds \union Commands |->
  IF k \in {"DECIDE", "SUPPLEMENT"} THEN 12
  ELSE IF k \in {"EXTEND_RESOURCES", "REPLACE_WRITER"} THEN 6 ELSE 1]
MCProvisioned == [h \in Hosts |->
  Cardinality(Families) * (IF h = Centre THEN 11 ELSE 3)
  + (IF h = Centre THEN 19 ELSE 11)]
MCCeiling == [h \in Hosts |-> MCProvisioned[h] + (IF h = Centre THEN 0 ELSE 6)]
=============================================================================
