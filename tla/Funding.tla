------------------------------ MODULE Funding ------------------------------
(***************************************************************************)
(* What the commands of the adjudication protocol cost                     *)
(* (adjudication/runtime/accounting).  Every host has one resource account *)
(* and a set of allocations.  An allocation belongs to one owner (a grant, *)
(* a token, the right to close a family, a cancellable round) and holds a  *)
(* bundle of slots, one for each command its owner may still need.  A      *)
(* bundle is reserved before its owner exists; a command spends its slot   *)
(* in the transaction that carries it out, and the command that ends an    *)
(* owner releases what is left.  Commands that nothing has promised        *)
(* (preparations, decisions, corrections, supplements, extensions, writer  *)
(* replacements) must fit what nobody holds.                               *)
(*                                                                         *)
(* The module also models the two commands only the accounts know:         *)
(* EXTEND_RESOURCES and REPLACE_WRITER, whose epoch is one of the counters *)
(* an account keeps.                                                       *)
(*                                                                         *)
(* One additive amount stands for the five retained dimensions, each of    *)
(* which is reserved, spent and released by the same rules; the workspace  *)
(* lane and the other counters, of which a command never uses more than    *)
(* its slot holds, are left out.                                           *)
(***************************************************************************)
EXTENDS Adjudication

CONSTANTS
  Centre,       \* the central host
  FirstOf,      \* of the families a round closes, the first one enrolled
  Cost,         \* what each kind of command may retain
  Provisioned,  \* what each host was admitted with
  Ceiling,      \* what backs each host (resource_ceiling)
  Extensions,   \* amounts an account is extended by (bounds the model)
  MaxEpoch      \* writers of a gateway (bounds the model)

LocalGrantSlots == {"LOCAL_GRANT", "ACTIVATE", "RECEIVE", "RETURN_UNUSED",
                    "LOCAL_TERMINAL"}
CentralGrantSlots == {"REGISTER_GRANT", "RETIRE_GRANT"}
CentralTokenSlots == {"ISSUE", "IMPORT", "RECONCILE", "ADVANCE",
                      "ADVANCE_RECEIPT"}
RoundSlots == {"BEGIN", "READY", "CLOSE"}
GatewaySlots == {"SEAL_BEGIN", "SEALED", "INSTALL"}
\* A round has these once for every gateway, and the code provides for 4.
FourSlots == {"DRAIN", "ACK_INSTALL"}
Kinds == LocalGrantSlots \union CentralGrantSlots \union CentralTokenSlots
         \union RoundSlots \union {"ABORT"} \union GatewaySlots \union FourSlots
Commands == {"PREPARE_ROUND", "DECIDE", "CORRECT", "SUPPLEMENT",
             "EXTEND_RESOURCES", "REPLACE_WRITER"}

\* The bundles of the worksheet.
Bundle(once, four) ==
  [k \in Kinds |-> IF k \in once THEN 1 ELSE IF k \in four THEN 4 ELSE 0]
Empty == Bundle({}, {})
CentralBundle == Bundle(RoundSlots, FourSlots)
CancelBundle == Bundle(RoundSlots \union {"ABORT"}, FourSlots)
GatewayBundle == Bundle(GatewaySlots, {})
Worth(bundle) == SumOver([k \in Kinds |-> Cost[k] * bundle[k]], Kinds)

Hosts == Gateways \union {Centre}
FinishBundle(h) == IF h = Centre THEN CentralBundle ELSE GatewayBundle

ASSUME FundingAssumption ==
  /\ IsFiniteSet(Gateways) /\ Cardinality(Gateways) <= 4
  /\ IsFiniteSet(Grants)  \* each raises a counter that can be exhausted
  /\ Centre \notin Gateways
  /\ FirstOf \in [(SUBSET Families) \ {{}} -> Families]
  /\ \A F \in (SUBSET Families) \ {{}} : FirstOf[F] \in F
  /\ Cost \in [Kinds \union Commands -> Nat]
  /\ Provisioned \in [Hosts -> Nat]
  /\ \A h \in Hosts :
       Cardinality(Families) * Worth(FinishBundle(h)) <= Provisioned[h]
  /\ Extensions \subseteq Nat
  /\ MaxEpoch \in Nat \ {0}

\* Owners: the host, the kind of allocation and its key.
LocalGrantOwner(t) == <<GatewayOf[t], "grant-local", t>>
CentralGrantOwner(t) == <<Centre, "grant-central", t>>
TokenOwner(t) == <<Centre, "token", t>>
Right(h, f) == <<h, "close", f>>
OptionalRound(h, n) == <<h, "optional-round", n>>
Owners ==
  {LocalGrantOwner(t) : t \in Grants} \union {CentralGrantOwner(t) : t \in Grants}
  \union {TokenOwner(t) : t \in Grants}
  \union {Right(h, f) : h \in Hosts, f \in Families}
  \union {OptionalRound(h, n) : h \in Hosts, n \in Rounds}

VARIABLES
  account,      \* each host's resource account
  slots,        \* each owner's slots that are neither spent nor released
  epoch,        \* the epoch in each gateway's head
  writerEpoch,  \* the epoch in each gateway's account
  receiptEpoch, \* the epoch in the receipt of a case (0: none)
  receiptsAt    \* the receipts a gateway had when each writer took over: a
                \* history variable, which no action reads

fundVars == <<account, slots>>
epochVars == <<epoch, writerEpoch, receiptEpoch, receiptsAt>>
fundedVars == <<vars, fundVars, epochVars>>

Account == [provisioned : Nat, used : Nat, held : Nat]

FundingTypeOK ==
  /\ account \in [Hosts -> Account]
  /\ slots \in [Owners -> [Kinds -> Nat]]
  /\ epoch \in [Gateways -> Nat] /\ writerEpoch \in [Gateways -> Nat]
  /\ receiptEpoch \in [Cases -> Nat]
  /\ receiptsAt \in [Gateways -> [1..MaxEpoch -> Nat]]

\* Every host holds the rights to close the families, one finishing bundle
\* for each: the code provides for 32, the most an enrollment may have.  What
\* the enrollment itself retained counts neither as used nor as provisioned.
FundedInit ==
  /\ Init
  /\ account = [h \in Hosts |->
       [provisioned |-> Provisioned[h], used |-> 0,
        held |-> Cardinality(Families) * Worth(FinishBundle(h))]]
  /\ slots = [o \in Owners |-> IF o[2] = "close" THEN FinishBundle(o[1]) ELSE Empty]
  /\ epoch = [g \in Gateways |-> 1] /\ writerEpoch = [g \in Gateways |-> 1]
  /\ receiptEpoch = [c \in Cases |-> 0]
  /\ receiptsAt = [g \in Gateways |-> [e \in 1..MaxEpoch |-> 0]]

-----------------------------------------------------------------------------
(* Accounts.                                                               *)

\* Reserve, spend and release at host h, in one transaction.
Move(h, reserved, spent, released) ==
  LET a == account[h]
  IN /\ a.used + a.held + reserved <= a.provisioned
     /\ spent + released <= a.held + reserved
     /\ account' = [account EXCEPT
          ![h].used = @ + spent, ![h].held = @ + reserved - spent - released]

\* A slot of an allocation reserved before.
Spend(o, k) ==
  /\ slots[o][k] >= 1
  /\ slots' = [slots EXCEPT ![o][k] = @ - 1]
  /\ Move(o[1], 0, Cost[k], 0)

\* Faulty variant: the slot that is spent is released as well.
SettleAll(o, k) ==
  /\ slots[o][k] >= 1
  /\ slots' = [slots EXCEPT ![o] = Empty]
  /\ Move(o[1], 0, Cost[k], Worth(slots[o]))
\* The last slot its owner needs: the rest is released.
Settle(o, k) ==
  /\ slots[o][k] >= 1
  /\ slots' = [slots EXCEPT ![o] = Empty]
  /\ Move(o[1], 0, Cost[k], Worth(slots[o]) - Cost[k])

\* A new allocation, whose first slot pays for the command that makes it.
Reserve(o, bundle, k) ==
  /\ slots' = [slots EXCEPT ![o] = [bundle EXCEPT ![k] = @ - 1]]
  /\ Move(o[1], Worth(bundle), Cost[k], 0)

\* A command nothing was promised of.
Pay(h, k) == Move(h, Cost[k], Cost[k], 0) /\ UNCHANGED slots

-----------------------------------------------------------------------------
(* Grants and tokens.                                                      *)

\* Faulty variant: a command of a replaced writer is taken.
OfAnyWriter(g, e) == e <= writerEpoch[g]
\* A command names the epoch it was written for: the head's and the account's.
OfWriter(g, e) == epoch[g] = e /\ writerEpoch[g] = e

FundedLocalGrant(t) ==
  /\ LocalGrant(t) /\ epoch[GatewayOf[t]] = writerEpoch[GatewayOf[t]]
  /\ Reserve(LocalGrantOwner(t), Bundle(LocalGrantSlots, {}), "LOCAL_GRANT")
  /\ UNCHANGED epochVars

FundedRegisterGrant(t) ==
  /\ RegisterGrant(t)
  /\ Reserve(CentralGrantOwner(t), Bundle(CentralGrantSlots, {}), "REGISTER_GRANT")
  /\ UNCHANGED epochVars

\* The token's bundle is reserved while the grant still holds its own.
FundedIssue(t, category) ==
  LET bundle == Bundle(CentralTokenSlots, {})
  IN /\ Issue(t, category)
     /\ slots' = [slots EXCEPT ![CentralGrantOwner(t)] = Empty,
                               ![TokenOwner(t)] = [bundle EXCEPT !["ISSUE"] = 0]]
     /\ Move(Centre, Worth(bundle), Cost["ISSUE"],
             Worth(slots[CentralGrantOwner(t)]))
     /\ UNCHANGED epochVars

FundedRetireGrant(t) ==
  /\ RetireGrant(t) /\ Settle(CentralGrantOwner(t), "RETIRE_GRANT")
  /\ UNCHANGED epochVars

FundedActivate(t) ==
  /\ Activate(t) /\ Spend(LocalGrantOwner(t), "ACTIVATE")
  /\ UNCHANGED epochVars

FundedReceive(t, c, at, e) ==
  /\ Receive(t, c, at) /\ OfWriter(GatewayOf[t], e)
  /\ Spend(LocalGrantOwner(t), "RECEIVE")
  /\ receiptEpoch' = IF Received(c) THEN receiptEpoch
                     ELSE [receiptEpoch EXCEPT ![c] = e]
  /\ UNCHANGED <<epoch, writerEpoch, receiptsAt>>

FundedImport(t) ==
  Import(t) /\ Spend(TokenOwner(t), "IMPORT") /\ UNCHANGED epochVars

FundedReturnUnused(t) ==
  /\ ReturnUnused(t) /\ Spend(LocalGrantOwner(t), "RETURN_UNUSED")
  /\ UNCHANGED epochVars

FundedReconcile(t) ==
  Reconcile(t) /\ Spend(TokenOwner(t), "RECONCILE") /\ UNCHANGED epochVars

\* Faulty variant: a token is done when its allocation is.
DoneOnAdvance(t) == TRUE
\* The receipt of a new case has a prefix of its own to be advanced over.
DoneWithAdvance(t) ==
  token[t].status # "NewCase" \/ token[t].receipt_advanced

FundedAdvance(t) ==
  /\ Advance(t)
  /\ IF DoneWithAdvance(t) THEN Settle(TokenOwner(t), "ADVANCE")
     ELSE Spend(TokenOwner(t), "ADVANCE")
  /\ UNCHANGED epochVars

FundedAdvanceReceipt(t) ==
  /\ AdvanceReceipt(t)
  /\ IF token[t].advanced THEN Settle(TokenOwner(t), "ADVANCE_RECEIPT")
     ELSE Spend(TokenOwner(t), "ADVANCE_RECEIPT")
  /\ UNCHANGED epochVars

FundedLocalTerminal(t) ==
  /\ LocalTerminal(t) /\ Settle(LocalGrantOwner(t), "LOCAL_TERMINAL")
  /\ UNCHANGED epochVars

-----------------------------------------------------------------------------
(* Rounds.                                                                 *)

\* A round that cannot be cancelled uses the right to close its first family;
\* a cancellable one what was prepared for it.
RoundOwner(h, n) ==
  IF round[n].mode = "FinishOnly" THEN Right(h, FirstOf[round[n].families])
  ELSE OptionalRound(h, n)

\* The gateway's own bundle for the round is reserved with the preparation.
FundedPrepareRound(g, n) ==
  /\ PrepareRound(g, n)
  /\ slots' = [slots EXCEPT ![OptionalRound(g, n)] = GatewayBundle]
  /\ Move(g, Cost["PREPARE_ROUND"] + Worth(GatewayBundle),
          Cost["PREPARE_ROUND"], 0)
  /\ UNCHANGED epochVars

FundedBegin(n, mode, F, G) ==
  /\ Begin(n, mode, F, G)
  /\ \/ mode = "FinishOnly" /\ Spend(Right(Centre, FirstOf[F]), "BEGIN")
     \/ mode = "Cancellable" /\ Reserve(OptionalRound(Centre, n), CancelBundle, "BEGIN")
  /\ UNCHANGED epochVars

FundedSealBegin(g, n) ==
  /\ SealBegin(g, n) /\ Spend(RoundOwner(g, n), "SEAL_BEGIN")
  /\ UNCHANGED epochVars

FundedSealed(g, n) ==
  /\ Sealed(g, n) /\ Spend(RoundOwner(g, n), "SEALED")
  /\ UNCHANGED epochVars

FundedDrain(g, n) ==
  Drain(g, n) /\ Spend(RoundOwner(Centre, n), "DRAIN") /\ UNCHANGED epochVars

FundedReady(n) ==
  Ready(n) /\ Spend(RoundOwner(Centre, n), "READY") /\ UNCHANGED epochVars

\* A round without gateways has no acknowledgement to wait for.
FundedClose(n, at) ==
  /\ Close(n, at)
  /\ IF round[n].gateways = {} THEN Settle(RoundOwner(Centre, n), "CLOSE")
     ELSE Spend(RoundOwner(Centre, n), "CLOSE")
  /\ UNCHANGED epochVars

FundedAbort(n) ==
  /\ Abort(n)
  /\ IF round[n].gateways = {} THEN Settle(RoundOwner(Centre, n), "ABORT")
     ELSE Spend(RoundOwner(Centre, n), "ABORT")
  /\ UNCHANGED epochVars

FundedInstall(g, n) ==
  Install(g, n) /\ Settle(RoundOwner(g, n), "INSTALL") /\ UNCHANGED epochVars

FundedAckInstall(g, n) ==
  /\ AckInstall(g, n)
  /\ IF Finishes(n, round[n].acknowledged \union {g})
     THEN Settle(RoundOwner(Centre, n), "ACK_INSTALL")
     ELSE Spend(RoundOwner(Centre, n), "ACK_INSTALL")
  /\ UNCHANGED epochVars

-----------------------------------------------------------------------------
(* Commands that pay for themselves.                                       *)

FundedDecide(c) ==
  /\ Deciding /\ Decide(c) /\ Pay(Centre, "DECIDE")
  /\ UNCHANGED <<centralVars, localVars, epochVars>>

FundedCorrect(c) ==
  /\ Deciding /\ CorrectSome(c) /\ Pay(Centre, "CORRECT")
  /\ UNCHANGED <<centralVars, localVars, epochVars>>

\* Evidence is added to a case whose stored status is pending.
Supplement(c) ==
  /\ case[c].status \in {"OrdinaryPending", "AdjustmentPending"}
  /\ Pay(Centre, "SUPPLEMENT")
  /\ UNCHANGED <<vars, epochVars>>

\* The extension must itself fit the account as it is.
ExtendResources(h, amount) ==
  LET paid == Cost["EXTEND_RESOURCES"]
      a == account[h]
  IN /\ a.used + a.held + paid <= a.provisioned
     /\ a.provisioned + amount <= Ceiling[h]
     /\ account' = [account EXCEPT ![h].provisioned = @ + amount,
                                   ![h].used = @ + paid]
     /\ UNCHANGED <<vars, slots, epochVars>>

\* The command was written against the journal as it is and against the fence
\* of the writer in place.
ReplaceWriter(g) ==
  /\ epoch[g] = writerEpoch[g] /\ epoch[g] < MaxEpoch
  /\ epoch' = [epoch EXCEPT ![g] = @ + 1]
  /\ writerEpoch' = [writerEpoch EXCEPT ![g] = @ + 1]
  /\ receiptsAt' = [receiptsAt EXCEPT ![g][epoch[g] + 1] = localGateway[g].receipt]
  /\ Pay(g, "REPLACE_WRITER")
  /\ UNCHANGED <<vars, receiptEpoch>>

-----------------------------------------------------------------------------
FundedTokenStep(t) ==
  \/ FundedLocalGrant(t)
  \/ FundedRegisterGrant(t)
  \/ \E category \in {"Ordinary", "Adjustment"} : FundedIssue(t, category)
  \/ FundedRetireGrant(t)
  \/ FundedActivate(t)
  \/ \E c \in Cases, at \in Time, e \in 1..MaxEpoch : FundedReceive(t, c, at, e)
  \/ FundedImport(t)
  \/ FundedReturnUnused(t)
  \/ FundedReconcile(t)
  \/ FundedAdvance(t)
  \/ FundedAdvanceReceipt(t)
  \/ FundedLocalTerminal(t)

FundedGatewayStep(g, n) ==
  \/ FundedPrepareRound(g, n)
  \/ FundedSealBegin(g, n)
  \/ FundedSealed(g, n)
  \/ FundedDrain(g, n)
  \/ FundedInstall(g, n)
  \/ FundedAckInstall(g, n)

FundedRoundStep(n) ==
  \/ \E mode \in Modes, F \in SUBSET Families, G \in SUBSET Gateways :
       FundedBegin(n, mode, F, G)
  \/ FundedReady(n)
  \/ \E at \in Time : FundedClose(n, at)
  \/ FundedAbort(n)

Optional ==
  \/ \E c \in Cases : FundedDecide(c) \/ FundedCorrect(c) \/ Supplement(c)
  \/ \E h \in Hosts, amount \in Extensions : ExtendResources(h, amount)
  \/ \E g \in Gateways : ReplaceWriter(g)

FundedNext ==
  \/ \E t \in Grants : FundedTokenStep(t)
  \/ \E g \in Gateways, n \in Rounds : FundedGatewayStep(g, n)
  \/ \E n \in Rounds : FundedRoundStep(n)
  \/ Optional

FundedSpec == FundedInit /\ [][FundedNext]_fundedVars

\* As in FairSpec, hosts submit what finishes a round; here each of these
\* commands is refused when it cannot be paid for.
FundedFairSpec ==
  /\ FundedSpec
  /\ \A t \in Grants : WF_fundedVars(
       \/ FundedImport(t) \/ FundedReconcile(t)
       \/ FundedAdvance(t) \/ FundedAdvanceReceipt(t)
       \/ enrollment.active_round # 0 /\ FundedReturnUnused(t))
  /\ \A g \in Gateways, n \in Rounds : WF_fundedVars(
       \/ FundedSealBegin(g, n) \/ FundedSealed(g, n) \/ FundedDrain(g, n)
       \/ FundedInstall(g, n) \/ FundedAckInstall(g, n))
  /\ \A n \in Rounds : WF_fundedVars(
       FundedReady(n) \/ \E at \in Time : FundedClose(n, at))

-----------------------------------------------------------------------------
(* Properties.                                                             *)

Promised(o, k) == slots[o][k] >= 1

GrantFunded(t) ==
  /\ localGrant[t].status # "none" /\ ~localGrant[t].terminal =>
       /\ Promised(LocalGrantOwner(t), "LOCAL_TERMINAL")
       /\ localGrant[t].status = "LocalHeld" => Promised(LocalGrantOwner(t), "ACTIVATE")
       /\ localToken[t].status \in {"none", "Active"} =>
            /\ Promised(LocalGrantOwner(t), "RECEIVE")
            /\ Promised(LocalGrantOwner(t), "RETURN_UNUSED")
  /\ grant[t] = "RegisteredUnclaimed" => Promised(CentralGrantOwner(t), "RETIRE_GRANT")

TokenFunded(t) ==
  token[t].status # "none" =>
    /\ token[t].status = "Issued" => Promised(TokenOwner(t), "IMPORT")
    /\ ~token[t].reconciled => Promised(TokenOwner(t), "RECONCILE")
    /\ ~token[t].advanced => Promised(TokenOwner(t), "ADVANCE")
    /\ token[t].status \in {"Issued", "NewCase"} /\ ~token[t].receipt_advanced
         => Promised(TokenOwner(t), "ADVANCE_RECEIPT")

GatewayFunded(g, n) ==
  localRound[g][n].outcome = "none" =>
    /\ Promised(RoundOwner(g, n), "INSTALL")
    /\ ~localRound[g][n].begun => Promised(RoundOwner(g, n), "SEAL_BEGIN")
    /\ localRound[g][n].seal = Never => Promised(RoundOwner(g, n), "SEALED")

RoundFunded(n) ==
  LET o == RoundOwner(Centre, n)
      undrained == {g \in round[n].gateways : round[n].seal[g] = Never}
      waiting == round[n].gateways \ round[n].acknowledged
  IN /\ round[n].status = "Draining" =>
          Promised(o, "READY") /\ slots[o]["DRAIN"] >= Cardinality(undrained)
     /\ round[n].status \in {"Draining", "Ready"} =>
          /\ Promised(o, "CLOSE")
          /\ round[n].mode = "Cancellable" => Promised(o, "ABORT")
     /\ slots[o]["ACK_INSTALL"] >= Cardinality(waiting)
     /\ \A g \in round[n].gateways : GatewayFunded(g, n)

\* The right to close an open family is whole at every host, unless the
\* active round is using it.
RightsFunded ==
  \A h \in Hosts, f \in Families :
    \/ family[f].closed
    \/ \E n \in Rounds :
         /\ n = enrollment.active_round /\ round[n].mode = "FinishOnly"
         /\ FirstOf[round[n].families] = f
    \/ slots[Right(h, f)] = FinishBundle(h)

\* Whatever optional work has been done before, each command that an
\* outstanding grant, token or round can still come to need has a slot of its
\* own, and every open family can be closed without any optional capacity.
FinishingIsFunded ==
  /\ \A t \in Grants : GrantFunded(t) /\ TokenFunded(t)
  /\ \A n \in Rounds : n = enrollment.active_round => RoundFunded(n)
  /\ RightsFunded

OwnersAt(h) == {o \in Owners : o[1] = h}

\* What an account holds is exactly what its owners' slots are worth, and it
\* never holds and uses more than it was given.
AccountsBalance ==
  \A h \in Hosts :
    /\ account[h].held =
         SumOver([o \in OwnersAt(h) |-> Worth(slots[o])], OwnersAt(h))
    /\ account[h].used + account[h].held <= account[h].provisioned

\* A gateway's receipts are those of its writers in their order: a receipt
\* carries the epoch of the writer that was in place when it was numbered, so
\* nothing a writer prepared is received once it has been replaced.
WritersInOrder ==
  /\ \A g \in Gateways : epoch[g] = writerEpoch[g]
  /\ \A c \in Cases : Received(c) =>
       LET g == RouteOf[c]
           e == receiptEpoch[c]
       IN /\ e \in 1..epoch[g]
          /\ receiptsAt[g][e] < localCase[c].position
          /\ e < epoch[g] => localCase[c].position <= receiptsAt[g][e + 1]

=============================================================================
