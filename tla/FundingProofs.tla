--------------------------- MODULE FundingProofs ---------------------------
(***************************************************************************)
(* Proofs about Funding for any enrollment, any prices and any accounts:   *)
(* the funded commands are commands of the protocol, every command that    *)
(* something outstanding can still need has a slot, the receipts of a      *)
(* gateway are those of its writers in their order, and every account      *)
(* holds exactly what the unspent slots of its owners are worth.           *)
(***************************************************************************)
EXTENDS Funding, AdjudicationProofs

-----------------------------------------------------------------------------
(* The funded commands are commands of the protocol.                       *)

LEMMA FundedStepIsStep ==
  ASSUME [FundedNext]_fundedVars
  PROVE  [Next]_vars
<1>1. CASE \E t \in Grants : FundedTokenStep(t)
  <2>1. PICK t \in Grants : FundedTokenStep(t)
    BY <1>1
  <2>2. TokenStep(t)
    BY <2>1 DEF FundedTokenStep, TokenStep, FundedLocalGrant, FundedRegisterGrant,
       FundedIssue, FundedRetireGrant, FundedActivate, FundedReceive, FundedImport,
       FundedReturnUnused, FundedReconcile, FundedAdvance, FundedAdvanceReceipt,
       FundedLocalTerminal
  <2>. QED
    BY <2>2 DEF Next
<1>2. CASE \E g \in Gateways, n \in Rounds : FundedGatewayStep(g, n)
  <2>1. PICK g \in Gateways, n \in Rounds : FundedGatewayStep(g, n)
    BY <1>2
  <2>2. GatewayStep(g, n)
    BY <2>1 DEF FundedGatewayStep, GatewayStep, FundedPrepareRound,
       FundedSealBegin, FundedSealed, FundedDrain, FundedInstall, FundedAckInstall
  <2>. QED
    BY <2>2 DEF Next
<1>3. CASE \E n \in Rounds : FundedRoundStep(n)
  <2>1. PICK n \in Rounds : FundedRoundStep(n)
    BY <1>3
  <2>2. RoundStep(n)
    BY <2>1 DEF FundedRoundStep, RoundStep, FundedBegin, FundedReady,
       FundedClose, FundedAbort
  <2>. QED
    BY <2>2 DEF Next
<1>4. CASE Optional
  <2>1. \/ Rule
        \/ UNCHANGED vars
    BY <1>4 DEF Optional, Rule, Ruling, FundedDecide, FundedCorrect, Supplement,
       ExtendResources, ReplaceWriter
  <2>. QED
    BY <2>1 DEF Next
<1>5. CASE UNCHANGED fundedVars
  BY <1>5 DEF fundedVars
<1>. QED
  BY <1>1, <1>2, <1>3, <1>4, <1>5 DEF FundedNext

LEMMA FundedInvariance == FundedSpec => []AdjudicationInv
<1>1. FundedInit => AdjudicationInv
  BY AdjudicationInit DEF FundedInit
<1>2. AdjudicationInv /\ [FundedNext]_fundedVars => AdjudicationInv'
  BY FundedStepIsStep, AdjudicationInvStep
<1>. QED
  BY <1>1, <1>2, PTL DEF FundedSpec

-----------------------------------------------------------------------------
(* Owners and their slots.                                                 *)

LEMMA GrantOwners ==
  ASSUME NEW t \in Grants
  PROVE  /\ LocalGrantOwner(t) \in Owners /\ CentralGrantOwner(t) \in Owners
         /\ TokenOwner(t) \in Owners
         /\ LocalGrantOwner(t) # CentralGrantOwner(t)
         /\ LocalGrantOwner(t) # TokenOwner(t)
         /\ CentralGrantOwner(t) # TokenOwner(t)
         /\ \A u \in Grants :
              /\ u # t => /\ LocalGrantOwner(u) # LocalGrantOwner(t)
                          /\ CentralGrantOwner(u) # CentralGrantOwner(t)
                          /\ TokenOwner(u) # TokenOwner(t)
              /\ LocalGrantOwner(u) # CentralGrantOwner(t)
              /\ LocalGrantOwner(u) # TokenOwner(t)
              /\ CentralGrantOwner(u) # LocalGrantOwner(t)
              /\ CentralGrantOwner(u) # TokenOwner(t)
              /\ TokenOwner(u) # LocalGrantOwner(t)
              /\ TokenOwner(u) # CentralGrantOwner(t)
BY DEF Owners, LocalGrantOwner, CentralGrantOwner, TokenOwner

LEMMA RoundOwners ==
  ASSUME NEW h \in Hosts
  PROVE  /\ \A f \in Families : Right(h, f) \in Owners
         /\ \A n \in Rounds : OptionalRound(h, n) \in Owners
         /\ \A j \in Hosts, f \in Families, e \in Families :
              h # j \/ f # e => Right(h, f) # Right(j, e)
         /\ \A j \in Hosts, n \in Rounds, m \in Rounds :
              h # j \/ n # m => OptionalRound(h, n) # OptionalRound(j, m)
         /\ \A j \in Hosts, f \in Families, n \in Rounds :
              Right(h, f) # OptionalRound(j, n)
         /\ \A t \in Grants, f \in Families :
              /\ Right(h, f) # LocalGrantOwner(t)
              /\ Right(h, f) # CentralGrantOwner(t)
              /\ Right(h, f) # TokenOwner(t)
         /\ \A t \in Grants, n \in Rounds :
              /\ OptionalRound(h, n) # LocalGrantOwner(t)
              /\ OptionalRound(h, n) # CentralGrantOwner(t)
              /\ OptionalRound(h, n) # TokenOwner(t)
BY DEF Owners, LocalGrantOwner, CentralGrantOwner, TokenOwner, Right,
   OptionalRound

SlotsTyped == slots \in [Owners -> [Kinds -> Nat]]

\* Only the slots of owner o are changed.
Only(o) == \A p \in Owners \ {o} : slots'[p] = slots[p]

LEMMA Bundles ==
  ASSUME NEW once \in SUBSET Kinds, NEW four \in SUBSET Kinds
  PROVE  /\ Bundle(once, four) \in [Kinds -> Nat]
         /\ \A k \in once : Bundle(once, four)[k] = 1
         /\ \A k \in four \ once : Bundle(once, four)[k] = 4
BY DEF Bundle

LEMMA Slotted ==
  ASSUME SlotsTyped, NEW o \in Owners, NEW x \in [Kinds -> Nat],
         slots' = [slots EXCEPT ![o] = x]
  PROVE  SlotsTyped' /\ slots'[o] = x /\ Only(o)
BY DEF SlotsTyped, Only

LEMMA Spending ==
  ASSUME SlotsTyped, NEW o \in Owners, NEW k \in Kinds, Spend(o, k)
  PROVE  /\ SlotsTyped' /\ Only(o)
         /\ slots'[o][k] = slots[o][k] - 1
         /\ \A j \in Kinds \ {k} : slots'[o][j] = slots[o][j]
<1>. DEFINE x == [slots[o] EXCEPT ![k] = slots[o][k] - 1]
<1>1. /\ slots[o] \in [Kinds -> Nat] /\ slots[o][k] \in Nat /\ slots[o][k] >= 1
      /\ slots' = [slots EXCEPT ![o] = x]
  BY DEF Spend, SlotsTyped
<1>2. /\ x \in [Kinds -> Nat] /\ x[k] = slots[o][k] - 1
      /\ \A j \in Kinds \ {k} : x[j] = slots[o][j]
  BY <1>1
<1>. HIDE DEF x
<1>. QED
  BY <1>1, <1>2, Slotted

LEMMA Settling ==
  ASSUME SlotsTyped, NEW o \in Owners, NEW k \in Kinds, Settle(o, k)
  PROVE  SlotsTyped' /\ Only(o)
<1>1. Empty \in [Kinds -> Nat]
  BY Bundles DEF Empty
<1>. QED
  BY <1>1, Slotted DEF Settle

LEMMA Reserving ==
  ASSUME SlotsTyped, NEW o \in Owners, NEW k \in Kinds,
         NEW b \in [Kinds -> Nat], b[k] = 1, Reserve(o, b, k)
  PROVE  /\ SlotsTyped' /\ Only(o)
         /\ slots'[o][k] = 0
         /\ \A j \in Kinds \ {k} : slots'[o][j] = b[j]
<1>. DEFINE x == [b EXCEPT ![k] = b[k] - 1]
<1>1. slots' = [slots EXCEPT ![o] = x]
  BY DEF Reserve
<1>2. /\ x \in [Kinds -> Nat] /\ x[k] = 0
      /\ \A j \in Kinds \ {k} : x[j] = b[j]
  OBVIOUS
<1>. HIDE DEF x
<1>. QED
  BY <1>1, <1>2, Slotted

-----------------------------------------------------------------------------
(* Grants and tokens.                                                      *)

\* An allocation is advanced over once its token is reconciled.
TokenSettled == \A t \in Grants : token[t].advanced => token[t].reconciled
TokensFunded == \A t \in Grants : GrantFunded(t) /\ TokenFunded(t)
TokensInv == TokenSettled /\ TokensFunded

\* What GrantFunded and TokenFunded look at, of one grant.
SameGrant(t) ==
  /\ localGrant'[t] = localGrant[t] /\ localToken'[t] = localToken[t]
  /\ grant'[t] = grant[t] /\ token'[t] = token[t]
SameGrantSlots(t) ==
  /\ slots'[LocalGrantOwner(t)] = slots[LocalGrantOwner(t)]
  /\ slots'[CentralGrantOwner(t)] = slots[CentralGrantOwner(t)]
  /\ slots'[TokenOwner(t)] = slots[TokenOwner(t)]
SameRoundSlots ==
  \A h \in Hosts :
    /\ \A f \in Families : slots'[Right(h, f)] = slots[Right(h, f)]
    /\ \A n \in Rounds : slots'[OptionalRound(h, n)] = slots[OptionalRound(h, n)]

\* This grant's part of TokensInv.
ThisGrant(t) ==
  /\ GrantFunded(t) /\ TokenFunded(t)
  /\ token[t].advanced => token[t].reconciled

LEMMA SameGrantKept ==
  ASSUME NEW t \in Grants, ThisGrant(t), SameGrant(t), SameGrantSlots(t)
  PROVE  ThisGrant(t)'
BY DEF ThisGrant, SameGrant, SameGrantSlots, GrantFunded, TokenFunded, Promised

\* A command of grant t leaves every other grant and every round alone.
LEMMA TokenCommand ==
  ASSUME SlotsTyped, TokensInv, NEW t \in Grants,
         SlotsTyped', ThisGrant(t)',
         \A u \in Grants \ {t} : SameGrant(u),
         \A p \in Owners \ {LocalGrantOwner(t), CentralGrantOwner(t), TokenOwner(t)} :
           slots'[p] = slots[p]
  PROVE  SlotsTyped' /\ TokensInv' /\ SameRoundSlots
<1>1. ASSUME NEW u \in Grants \ {t}
      PROVE  ThisGrant(u)'
  <2>1. SameGrantSlots(u)
    BY GrantOwners DEF SameGrantSlots
  <2>2. ThisGrant(u)
    BY DEF ThisGrant, TokensInv, TokensFunded, TokenSettled
  <2>. QED
    BY <2>1, <2>2, SameGrantKept
<1>2. SameRoundSlots
  BY RoundOwners DEF SameRoundSlots
<1>. QED
  BY <1>1, <1>2 DEF TokensInv, TokensFunded, TokenSettled, ThisGrant

\* The states a command of grant t moves between.
LEMMA TokenTypes ==
  ASSUME AdjudicationInv, NEW t \in Grants
  PROVE  /\ grant \in [Grants -> GrantState] /\ token \in [Grants -> TokenState]
         /\ localGrant \in [Grants -> LocalGrantState]
         /\ localToken \in [Grants -> LocalTokenState]
         /\ TokenAgrees(t)
BY DEF AdjudicationInv, TypeOK, TokenInv

LEMMA FundsLocalGrant ==
  ASSUME AdjudicationInv, SlotsTyped, TokensInv, NEW t \in Grants,
         FundedLocalGrant(t)
  PROVE  SlotsTyped' /\ TokensInv' /\ SameRoundSlots
<1>. DEFINE o == LocalGrantOwner(t)
            b == Bundle(LocalGrantSlots, {})
<1>1. /\ b \in [Kinds -> Nat] /\ b["LOCAL_GRANT"] = 1 /\ b["ACTIVATE"] = 1
      /\ b["RECEIVE"] = 1 /\ b["RETURN_UNUSED"] = 1 /\ b["LOCAL_TERMINAL"] = 1
      /\ {"LOCAL_GRANT", "ACTIVATE", "RECEIVE", "RETURN_UNUSED",
          "LOCAL_TERMINAL"} \subseteq Kinds
  BY Bundles DEF Kinds, LocalGrantSlots
<1>2. o \in Owners /\ Reserve(o, b, "LOCAL_GRANT")
  BY GrantOwners DEF FundedLocalGrant
<1>. HIDE DEF b
<1>3. /\ SlotsTyped' /\ Only(o)
      /\ slots'[o]["ACTIVATE"] = 1 /\ slots'[o]["RECEIVE"] = 1
      /\ slots'[o]["RETURN_UNUSED"] = 1 /\ slots'[o]["LOCAL_TERMINAL"] = 1
  BY <1>1, <1>2, Reserving
<1>4. /\ LocalGrant(t) /\ UNCHANGED <<grant, token, localToken>>
      /\ \A u \in Grants \ {t} : SameGrant(u)
  BY TokenTypes DEF FundedLocalGrant, LocalGrant, SameGrant, centralVars
<1>5. ThisGrant(t)'
  <2>1. /\ slots'[CentralGrantOwner(t)] = slots[CentralGrantOwner(t)]
        /\ slots'[TokenOwner(t)] = slots[TokenOwner(t)]
    BY <1>3, GrantOwners DEF Only
  <2>2. TokenFunded(t)' /\ (token[t].advanced => token[t].reconciled)'
    BY <1>4, <2>1 DEF TokensInv, TokensFunded, TokenSettled, TokenFunded, Promised
  <2>3. GrantFunded(t)'
    BY <1>3, <1>4, <2>1 DEF TokensInv, TokensFunded, GrantFunded, Promised
  <2>. QED
    BY <2>2, <2>3 DEF ThisGrant
<1>. QED
  BY <1>3, <1>4, <1>5, TokenCommand DEF Only

LEMMA FundsRegisterGrant ==
  ASSUME AdjudicationInv, SlotsTyped, TokensInv, NEW t \in Grants,
         FundedRegisterGrant(t)
  PROVE  SlotsTyped' /\ TokensInv' /\ SameRoundSlots
<1>. DEFINE o == CentralGrantOwner(t)
            b == Bundle(CentralGrantSlots, {})
<1>1. /\ b \in [Kinds -> Nat] /\ b["REGISTER_GRANT"] = 1 /\ b["RETIRE_GRANT"] = 1
      /\ {"REGISTER_GRANT", "RETIRE_GRANT"} \subseteq Kinds
  BY Bundles DEF Kinds, CentralGrantSlots
<1>2. o \in Owners /\ Reserve(o, b, "REGISTER_GRANT")
  BY GrantOwners DEF FundedRegisterGrant
<1>. HIDE DEF b
<1>3. SlotsTyped' /\ Only(o) /\ slots'[o]["RETIRE_GRANT"] = 1
  BY <1>1, <1>2, Reserving
<1>4. /\ UNCHANGED <<token, localGrant, localToken>>
      /\ \A u \in Grants \ {t} : SameGrant(u)
  BY TokenTypes DEF FundedRegisterGrant, RegisterGrant, SameGrant, localVars
<1>5. ThisGrant(t)'
  <2>1. /\ slots'[LocalGrantOwner(t)] = slots[LocalGrantOwner(t)]
        /\ slots'[TokenOwner(t)] = slots[TokenOwner(t)]
    BY <1>3, GrantOwners DEF Only
  <2>2. TokenFunded(t)' /\ (token[t].advanced => token[t].reconciled)'
    BY <1>4, <2>1 DEF TokensInv, TokensFunded, TokenSettled, TokenFunded, Promised
  <2>3. GrantFunded(t)'
    BY <1>3, <1>4, <2>1 DEF TokensInv, TokensFunded, GrantFunded, Promised
  <2>. QED
    BY <2>2, <2>3 DEF ThisGrant
<1>. QED
  BY <1>3, <1>4, <1>5, TokenCommand DEF Only

LEMMA FundsIssue ==
  ASSUME AdjudicationInv, SlotsTyped, TokensInv, NEW t \in Grants,
         NEW category \in {"Ordinary", "Adjustment"}, FundedIssue(t, category)
  PROVE  SlotsTyped' /\ TokensInv' /\ SameRoundSlots
<1>. DEFINE o == TokenOwner(t)
            c == CentralGrantOwner(t)
            b == Bundle(CentralTokenSlots, {})
            x == [b EXCEPT !["ISSUE"] = 0]
<1>1. /\ b \in [Kinds -> Nat] /\ b["IMPORT"] = 1 /\ b["RECONCILE"] = 1
      /\ b["ADVANCE"] = 1 /\ b["ADVANCE_RECEIPT"] = 1 /\ "ISSUE" \in Kinds
      /\ {"IMPORT", "RECONCILE", "ADVANCE", "ADVANCE_RECEIPT"} \subseteq Kinds
      /\ Empty \in [Kinds -> Nat]
  BY Bundles DEF Kinds, CentralTokenSlots, Empty
<1>2. /\ o \in Owners /\ c \in Owners /\ c # o
      /\ slots' = [slots EXCEPT ![c] = Empty, ![o] = x]
  BY GrantOwners DEF FundedIssue
<1>. HIDE DEF b, o, c
<1>3. /\ x \in [Kinds -> Nat] /\ x["IMPORT"] = 1 /\ x["RECONCILE"] = 1
      /\ x["ADVANCE"] = 1 /\ x["ADVANCE_RECEIPT"] = 1
  BY <1>1
<1>. HIDE DEF x
<1>4. /\ SlotsTyped' /\ slots'[o] = x
      /\ \A p \in Owners \ {c, o} : slots'[p] = slots[p]
  BY <1>1, <1>2, <1>3 DEF SlotsTyped
<1>5. /\ UNCHANGED <<localGrant, localToken>>
      /\ grant'[t] = "Claimed" /\ token'[t].status = "Issued"
      /\ ~token'[t].reconciled /\ ~token'[t].advanced
      /\ \A u \in Grants \ {t} : SameGrant(u)
  BY TokenTypes DEF FundedIssue, Issue, SameGrant, localVars
<1>6. ThisGrant(t)'
  <2>1. slots'[LocalGrantOwner(t)] = slots[LocalGrantOwner(t)]
    BY <1>4, GrantOwners DEF o, c
  <2>2. TokenFunded(t)' /\ (token[t].advanced => token[t].reconciled)'
    BY <1>3, <1>4, <1>5 DEF TokenFunded, Promised, o
  <2>3. GrantFunded(t)'
    BY <1>5, <2>1 DEF TokensInv, TokensFunded, GrantFunded, Promised
  <2>. QED
    BY <2>2, <2>3 DEF ThisGrant
<1>. QED
  BY <1>4, <1>5, <1>6, TokenCommand DEF o, c

LEMMA FundsRetireGrant ==
  ASSUME AdjudicationInv, SlotsTyped, TokensInv, NEW t \in Grants,
         FundedRetireGrant(t)
  PROVE  SlotsTyped' /\ TokensInv' /\ SameRoundSlots
<1>. DEFINE o == CentralGrantOwner(t)
<1>1. /\ o \in Owners /\ "RETIRE_GRANT" \in Kinds /\ Settle(o, "RETIRE_GRANT")
  BY GrantOwners DEF FundedRetireGrant, Kinds, CentralGrantSlots
<1>2. SlotsTyped' /\ Only(o)
  BY <1>1, Settling
<1>3. /\ UNCHANGED <<token, localGrant, localToken>>
      /\ grant'[t] = "RetiredUnclaimed"
      /\ \A u \in Grants \ {t} : SameGrant(u)
  BY TokenTypes DEF FundedRetireGrant, RetireGrant, SameGrant, localVars
<1>4. ThisGrant(t)'
  <2>1. /\ slots'[LocalGrantOwner(t)] = slots[LocalGrantOwner(t)]
        /\ slots'[TokenOwner(t)] = slots[TokenOwner(t)]
    BY <1>2, GrantOwners DEF Only
  <2>2. TokenFunded(t)' /\ (token[t].advanced => token[t].reconciled)'
    BY <1>3, <2>1 DEF TokensInv, TokensFunded, TokenSettled, TokenFunded, Promised
  <2>3. GrantFunded(t)'
    BY <1>3, <2>1 DEF TokensInv, TokensFunded, GrantFunded, Promised
  <2>. QED
    BY <2>2, <2>3 DEF ThisGrant
<1>. QED
  BY <1>2, <1>3, <1>4, TokenCommand DEF Only

LEMMA FundsActivate ==
  ASSUME AdjudicationInv, SlotsTyped, TokensInv, NEW t \in Grants,
         FundedActivate(t)
  PROVE  SlotsTyped' /\ TokensInv' /\ SameRoundSlots
<1>. DEFINE o == LocalGrantOwner(t)
<1>1. /\ o \in Owners /\ "ACTIVATE" \in Kinds /\ Spend(o, "ACTIVATE")
      /\ {"RECEIVE", "RETURN_UNUSED", "LOCAL_TERMINAL"} \subseteq Kinds \ {"ACTIVATE"}
  BY GrantOwners DEF FundedActivate, Kinds, LocalGrantSlots
<1>2. /\ SlotsTyped' /\ Only(o)
      /\ \A k \in {"RECEIVE", "RETURN_UNUSED", "LOCAL_TERMINAL"} :
           slots'[o][k] = slots[o][k]
  BY <1>1, Spending
<1>3. /\ UNCHANGED <<token, grant>>
      /\ localGrant[t].status # "none" /\ ~localGrant[t].terminal
      /\ localGrant'[t].status = "Claimed" /\ localToken[t].status = "none"
      /\ \A u \in Grants \ {t} : SameGrant(u)
  BY TokenTypes DEF FundedActivate, Activate, SameGrant, centralVars,
     LocalGrantState, LocalTokenState
<1>4. ThisGrant(t)'
  <2>1. /\ slots'[CentralGrantOwner(t)] = slots[CentralGrantOwner(t)]
        /\ slots'[TokenOwner(t)] = slots[TokenOwner(t)]
    BY <1>2, GrantOwners DEF Only
  <2>2. TokenFunded(t)' /\ (token[t].advanced => token[t].reconciled)'
    BY <1>3, <2>1 DEF TokensInv, TokensFunded, TokenSettled, TokenFunded, Promised
  <2>3. GrantFunded(t)'
    BY <1>2, <1>3, <2>1 DEF TokensInv, TokensFunded, GrantFunded, Promised
  <2>. QED
    BY <2>2, <2>3 DEF ThisGrant
<1>. QED
  BY <1>2, <1>3, <1>4, TokenCommand DEF Only

\* A delivery ends what its token could still be used for at the gateway.
LEMMA FundsReceive ==
  ASSUME AdjudicationInv, SlotsTyped, TokensInv, NEW t \in Grants,
         NEW c \in Cases, NEW at, NEW e, FundedReceive(t, c, at, e)
  PROVE  SlotsTyped' /\ TokensInv' /\ SameRoundSlots
<1>. DEFINE o == LocalGrantOwner(t)
<1>1. /\ o \in Owners /\ "RECEIVE" \in Kinds /\ Spend(o, "RECEIVE")
      /\ {"ACTIVATE", "LOCAL_TERMINAL"} \subseteq Kinds \ {"RECEIVE"}
  BY GrantOwners DEF FundedReceive, Kinds, LocalGrantSlots
<1>2. /\ SlotsTyped' /\ Only(o)
      /\ \A k \in {"ACTIVATE", "LOCAL_TERMINAL"} : slots'[o][k] = slots[o][k]
  BY <1>1, Spending
<1>3. /\ UNCHANGED <<token, grant, localGrant>>
      /\ localToken'[t].status \in {"NewCase", "Alias"}
      /\ \A u \in Grants \ {t} : SameGrant(u)
  BY TokenTypes DEF FundedReceive, Receive, SameGrant, centralVars,
     LocalTokenState
<1>4. ThisGrant(t)'
  <2>1. /\ slots'[CentralGrantOwner(t)] = slots[CentralGrantOwner(t)]
        /\ slots'[TokenOwner(t)] = slots[TokenOwner(t)]
    BY <1>2, GrantOwners DEF Only
  <2>2. TokenFunded(t)' /\ (token[t].advanced => token[t].reconciled)'
    BY <1>3, <2>1 DEF TokensInv, TokensFunded, TokenSettled, TokenFunded, Promised
  <2>3. GrantFunded(t)'
    BY <1>2, <1>3, <2>1 DEF TokensInv, TokensFunded, GrantFunded, Promised
  <2>. QED
    BY <2>2, <2>3 DEF ThisGrant
<1>. QED
  BY <1>2, <1>3, <1>4, TokenCommand DEF Only

LEMMA FundsReturnUnused ==
  ASSUME AdjudicationInv, SlotsTyped, TokensInv, NEW t \in Grants,
         FundedReturnUnused(t)
  PROVE  SlotsTyped' /\ TokensInv' /\ SameRoundSlots
<1>. DEFINE o == LocalGrantOwner(t)
<1>1. /\ o \in Owners /\ "RETURN_UNUSED" \in Kinds /\ Spend(o, "RETURN_UNUSED")
      /\ "LOCAL_TERMINAL" \in Kinds \ {"RETURN_UNUSED"}
  BY GrantOwners DEF FundedReturnUnused, Kinds, LocalGrantSlots
<1>2. /\ SlotsTyped' /\ Only(o)
      /\ slots'[o]["LOCAL_TERMINAL"] = slots[o]["LOCAL_TERMINAL"]
  BY <1>1, Spending
<1>3. /\ UNCHANGED <<token, grant>>
      /\ localGrant[t].status # "none" /\ ~localGrant[t].terminal
      /\ localGrant'[t].status = "Claimed"
      /\ localToken'[t].status = "ReturnedUnused"
      /\ \A u \in Grants \ {t} : SameGrant(u)
  BY TokenTypes DEF FundedReturnUnused, ReturnUnused, SameGrant, centralVars,
     LocalGrantState, LocalTokenState
<1>4. ThisGrant(t)'
  <2>1. /\ slots'[CentralGrantOwner(t)] = slots[CentralGrantOwner(t)]
        /\ slots'[TokenOwner(t)] = slots[TokenOwner(t)]
    BY <1>2, GrantOwners DEF Only
  <2>2. TokenFunded(t)' /\ (token[t].advanced => token[t].reconciled)'
    BY <1>3, <2>1 DEF TokensInv, TokensFunded, TokenSettled, TokenFunded, Promised
  <2>3. GrantFunded(t)'
    BY <1>2, <1>3, <2>1 DEF TokensInv, TokensFunded, GrantFunded, Promised
  <2>. QED
    BY <2>2, <2>3 DEF ThisGrant
<1>. QED
  BY <1>2, <1>3, <1>4, TokenCommand DEF Only

LEMMA FundsLocalTerminal ==
  ASSUME AdjudicationInv, SlotsTyped, TokensInv, NEW t \in Grants,
         FundedLocalTerminal(t)
  PROVE  SlotsTyped' /\ TokensInv' /\ SameRoundSlots
<1>. DEFINE o == LocalGrantOwner(t)
<1>1. /\ o \in Owners /\ "LOCAL_TERMINAL" \in Kinds /\ Settle(o, "LOCAL_TERMINAL")
  BY GrantOwners DEF FundedLocalTerminal, Kinds, LocalGrantSlots
<1>2. SlotsTyped' /\ Only(o)
  BY <1>1, Settling
<1>3. /\ UNCHANGED <<token, grant, localToken>>
      /\ localGrant'[t].terminal
      /\ \A u \in Grants \ {t} : SameGrant(u)
  BY TokenTypes DEF FundedLocalTerminal, LocalTerminal, SameGrant, centralVars,
     LocalGrantState
<1>4. ThisGrant(t)'
  <2>1. /\ slots'[CentralGrantOwner(t)] = slots[CentralGrantOwner(t)]
        /\ slots'[TokenOwner(t)] = slots[TokenOwner(t)]
    BY <1>2, GrantOwners DEF Only
  <2>2. TokenFunded(t)' /\ (token[t].advanced => token[t].reconciled)'
    BY <1>3, <2>1 DEF TokensInv, TokensFunded, TokenSettled, TokenFunded, Promised
  <2>3. GrantFunded(t)'
    BY <1>3, <2>1 DEF TokensInv, TokensFunded, GrantFunded, Promised
  <2>. QED
    BY <2>2, <2>3 DEF ThisGrant
<1>. QED
  BY <1>2, <1>3, <1>4, TokenCommand DEF Only

\* A command of the centre on the token of grant t.
LEMMA CentralCommand ==
  ASSUME AdjudicationInv, SlotsTyped, TokensInv, NEW t \in Grants,
         SlotsTyped', Only(TokenOwner(t)),
         UNCHANGED <<grant, localGrant, localToken>>,
         \A u \in Grants \ {t} : token'[u] = token[u],
         TokenFunded(t)', (token[t].advanced => token[t].reconciled)'
  PROVE  SlotsTyped' /\ TokensInv' /\ SameRoundSlots
<1>1. \A u \in Grants \ {t} : SameGrant(u)
  BY DEF SameGrant
<1>2. /\ slots'[CentralGrantOwner(t)] = slots[CentralGrantOwner(t)]
      /\ slots'[LocalGrantOwner(t)] = slots[LocalGrantOwner(t)]
  BY GrantOwners DEF Only
<1>3. GrantFunded(t)'
  BY <1>2 DEF TokensInv, TokensFunded, GrantFunded, Promised
<1>. QED
  BY <1>1, <1>3, TokenCommand DEF ThisGrant, Only

LEMMA FundsImport ==
  ASSUME AdjudicationInv, SlotsTyped, TokensInv, NEW t \in Grants,
         FundedImport(t)
  PROVE  SlotsTyped' /\ TokensInv' /\ SameRoundSlots
<1>. DEFINE o == TokenOwner(t)
<1>1. /\ o \in Owners /\ "IMPORT" \in Kinds /\ Spend(o, "IMPORT")
      /\ {"RECONCILE", "ADVANCE", "ADVANCE_RECEIPT"} \subseteq Kinds \ {"IMPORT"}
  BY GrantOwners DEF FundedImport, Kinds, CentralTokenSlots
<1>2. /\ SlotsTyped' /\ Only(o)
      /\ \A k \in {"RECONCILE", "ADVANCE", "ADVANCE_RECEIPT"} :
           slots'[o][k] = slots[o][k]
  BY <1>1, Spending
<1>3. /\ UNCHANGED <<grant, localGrant, localToken>>
      /\ token[t].status \in {"Issued", "ReturnedUnused"}
      /\ token'[t].status \in {"NewCase", "Alias"}
      /\ token'[t].reconciled = token[t].reconciled
      /\ token'[t].advanced = token[t].advanced
      /\ token'[t].receipt_advanced = token[t].receipt_advanced
      /\ \A u \in Grants \ {t} : token'[u] = token[u]
  BY TokenTypes DEF FundedImport, Import, Imported, localVars, TokenState,
     Disposed
<1>4. token[t].status = "Issued"
  BY <1>3, TokenTypes DEF FundedImport, Import, TokenAgrees, Disposed
<1>5. TokenFunded(t)' /\ (token[t].advanced => token[t].reconciled)'
  BY <1>2, <1>3, <1>4 DEF TokensInv, TokensFunded, TokenSettled, TokenFunded, Promised
<1>. QED
  BY <1>2, <1>3, <1>5, CentralCommand

LEMMA FundsReconcile ==
  ASSUME AdjudicationInv, SlotsTyped, TokensInv, NEW t \in Grants,
         FundedReconcile(t)
  PROVE  SlotsTyped' /\ TokensInv' /\ SameRoundSlots
<1>. DEFINE o == TokenOwner(t)
<1>1. /\ o \in Owners /\ "RECONCILE" \in Kinds /\ Spend(o, "RECONCILE")
      /\ {"ADVANCE", "ADVANCE_RECEIPT"} \subseteq Kinds \ {"RECONCILE"}
  BY GrantOwners DEF FundedReconcile, Kinds, CentralTokenSlots
<1>2. /\ SlotsTyped' /\ Only(o)
      /\ \A k \in {"ADVANCE", "ADVANCE_RECEIPT"} : slots'[o][k] = slots[o][k]
  BY <1>1, Spending
<1>3. /\ UNCHANGED <<grant, localGrant, localToken>>
      /\ token[t].status # "none" /\ token'[t].reconciled
      /\ token'[t].status \in Disposed
      /\ token'[t].status = "NewCase" => token[t].status = "NewCase"
      /\ token'[t].advanced = token[t].advanced
      /\ token'[t].receipt_advanced = token[t].receipt_advanced
      /\ \A u \in Grants \ {t} : token'[u] = token[u]
  BY TokenTypes DEF FundedReconcile, Reconcile, Imported, localVars, TokenState,
     Disposed
<1>5. TokenFunded(t)' /\ (token[t].advanced => token[t].reconciled)'
  BY <1>2, <1>3 DEF TokensInv, TokensFunded, TokenSettled, TokenFunded,
     Promised, Disposed
<1>. QED
  BY <1>2, <1>3, <1>5, CentralCommand

\* The slot of the receipt's prefix stays where there is one to be advanced.
LEMMA FundsAdvance ==
  ASSUME AdjudicationInv, SlotsTyped, TokensInv, NEW t \in Grants,
         FundedAdvance(t)
  PROVE  SlotsTyped' /\ TokensInv' /\ SameRoundSlots
<1>. DEFINE o == TokenOwner(t)
<1>1. /\ o \in Owners /\ "ADVANCE" \in Kinds
      /\ "ADVANCE_RECEIPT" \in Kinds \ {"ADVANCE"}
      /\ IF DoneWithAdvance(t) THEN Settle(o, "ADVANCE") ELSE Spend(o, "ADVANCE")
  BY GrantOwners DEF FundedAdvance, Kinds, CentralTokenSlots
<1>2. /\ SlotsTyped' /\ Only(o)
      /\ ~DoneWithAdvance(t) =>
           slots'[o]["ADVANCE_RECEIPT"] = slots[o]["ADVANCE_RECEIPT"]
  BY <1>1, Spending, Settling
<1>3. /\ UNCHANGED <<grant, localGrant, localToken>>
      /\ token[t].status # "none" /\ token[t].reconciled
      /\ token'[t].reconciled /\ token'[t].advanced
      /\ token'[t].status = token[t].status
      /\ token'[t].receipt_advanced = token[t].receipt_advanced
      /\ \A u \in Grants \ {t} : token'[u] = token[u]
  BY TokenTypes DEF FundedAdvance, Advance, localVars, TokenState
<1>4. token[t].status # "Issued"
  BY <1>3, TokenTypes DEF TokenAgrees, Disposed
<1>5. TokenFunded(t)' /\ (token[t].advanced => token[t].reconciled)'
  BY <1>2, <1>3, <1>4 DEF TokensInv, TokensFunded, TokenFunded, Promised,
     DoneWithAdvance
<1>. QED
  BY <1>2, <1>3, <1>5, CentralCommand

LEMMA FundsAdvanceReceipt ==
  ASSUME AdjudicationInv, SlotsTyped, TokensInv, NEW t \in Grants,
         FundedAdvanceReceipt(t)
  PROVE  SlotsTyped' /\ TokensInv' /\ SameRoundSlots
<1>. DEFINE o == TokenOwner(t)
<1>1. /\ o \in Owners /\ "ADVANCE_RECEIPT" \in Kinds
      /\ {"RECONCILE", "ADVANCE"} \subseteq Kinds \ {"ADVANCE_RECEIPT"}
      /\ IF token[t].advanced THEN Settle(o, "ADVANCE_RECEIPT")
         ELSE Spend(o, "ADVANCE_RECEIPT")
  BY GrantOwners DEF FundedAdvanceReceipt, Kinds, CentralTokenSlots
<1>2. /\ SlotsTyped' /\ Only(o)
      /\ ~token[t].advanced => \A k \in {"RECONCILE", "ADVANCE"} :
                                 slots'[o][k] = slots[o][k]
  BY <1>1, Spending, Settling
<1>3. /\ UNCHANGED <<grant, localGrant, localToken>>
      /\ token[t].status = "NewCase" /\ token'[t].status = "NewCase"
      /\ token'[t].reconciled = token[t].reconciled
      /\ token'[t].advanced = token[t].advanced
      /\ token'[t].receipt_advanced
      /\ \A u \in Grants \ {t} : token'[u] = token[u]
  BY TokenTypes DEF FundedAdvanceReceipt, AdvanceReceipt, localVars, TokenState
<1>5. TokenFunded(t)' /\ (token[t].advanced => token[t].reconciled)'
  BY <1>2, <1>3 DEF TokensInv, TokensFunded, TokenSettled, TokenFunded, Promised
<1>. QED
  BY <1>2, <1>3, <1>5, CentralCommand

LEMMA FundsToken ==
  ASSUME AdjudicationInv, SlotsTyped, TokensInv, NEW t \in Grants,
         FundedTokenStep(t)
  PROVE  SlotsTyped' /\ TokensInv' /\ SameRoundSlots
BY FundsLocalGrant, FundsRegisterGrant, FundsIssue, FundsRetireGrant,
   FundsActivate, FundsReceive, FundsImport, FundsReturnUnused, FundsReconcile,
   FundsAdvance, FundsAdvanceReceipt, FundsLocalTerminal DEF FundedTokenStep

-----------------------------------------------------------------------------
(* Rounds.                                                                 *)

\* A round that has begun closes something, and a round that cannot be
\* cancelled is not aborted.
ModesInv ==
  \A n \in Rounds : round[n].status # "none" =>
    /\ round[n].families # {}
    /\ round[n].mode = "FinishOnly" => round[n].status # "Aborted"

\* What is prepared for a round keeps its bundle until the round begins, and
\* a cancellable round begins at gateways that are prepared.
PreparedInv ==
  \A g \in Gateways, n \in Rounds :
    /\ localRound[g][n].prepared # Never /\ round[n].status = "none" =>
         slots[OptionalRound(g, n)] = GatewayBundle
    /\ g \in round[n].gateways /\ round[n].mode = "Cancellable" =>
         localRound[g][n].prepared # Never

ActiveFunded == \A n \in Rounds : n = enrollment.active_round => RoundFunded(n)

RoundsInv == ModesInv /\ PreparedInv /\ ActiveFunded /\ RightsFunded

LEMMA BundleSlots ==
  /\ Kinds = {"LOCAL_GRANT", "ACTIVATE", "RECEIVE", "RETURN_UNUSED",
              "LOCAL_TERMINAL", "REGISTER_GRANT", "RETIRE_GRANT", "ISSUE",
              "IMPORT", "RECONCILE", "ADVANCE", "ADVANCE_RECEIPT", "BEGIN",
              "READY", "CLOSE", "ABORT", "SEAL_BEGIN", "SEALED", "INSTALL",
              "DRAIN", "ACK_INSTALL"}
  /\ CentralBundle \in [Kinds -> Nat] /\ CancelBundle \in [Kinds -> Nat]
  /\ GatewayBundle \in [Kinds -> Nat]
  /\ \A b \in {CentralBundle, CancelBundle} :
       /\ b["BEGIN"] = 1 /\ b["READY"] = 1 /\ b["CLOSE"] = 1
       /\ b["DRAIN"] = 4 /\ b["ACK_INSTALL"] = 4
  /\ CancelBundle["ABORT"] = 1
  /\ GatewayBundle["SEAL_BEGIN"] = 1 /\ GatewayBundle["SEALED"] = 1
  /\ GatewayBundle["INSTALL"] = 1
<1>1. Kinds = {"LOCAL_GRANT", "ACTIVATE", "RECEIVE", "RETURN_UNUSED",
              "LOCAL_TERMINAL", "REGISTER_GRANT", "RETIRE_GRANT", "ISSUE",
              "IMPORT", "RECONCILE", "ADVANCE", "ADVANCE_RECEIPT", "BEGIN",
              "READY", "CLOSE", "ABORT", "SEAL_BEGIN", "SEALED", "INSTALL",
              "DRAIN", "ACK_INSTALL"}
  BY DEF Kinds, LocalGrantSlots, CentralGrantSlots, CentralTokenSlots,
     RoundSlots, GatewaySlots, FourSlots
<1>2. /\ RoundSlots \subseteq Kinds /\ GatewaySlots \subseteq Kinds
      /\ FourSlots \subseteq Kinds /\ RoundSlots \union {"ABORT"} \subseteq Kinds
  BY DEF Kinds
<1>. QED
  BY <1>1, <1>2, Bundles DEF CentralBundle, CancelBundle, GatewayBundle,
     RoundSlots, GatewaySlots, FourSlots

\* What closes a family stays closed.
LEMMA ClosedKept ==
  ASSUME AdjudicationInv, [Next]_vars
  PROVE  /\ ProtocolTypeOK' /\ StepEffect
         /\ \A f \in Families : family[f].closed => family'[f].closed
<1>1. ProtocolTypeOK' /\ StepEffect
  BY Types, ProtocolEffects DEF AdjudicationInv
<1>. QED
  BY <1>1, FamilyEffects, CommitsCloses DEF AdjudicationInv, KeepsClosure

\* The owner a round uses, at every host.
LEMMA RoundOwnerIs ==
  ASSUME AdjudicationInv, ModesInv, NEW n \in Rounds, round[n].status # "none",
         NEW h \in Hosts
  PROVE  /\ FirstOf[round[n].families] \in round[n].families
         /\ round[n].families \subseteq Families
         /\ RoundOwner(h, n) \in Owners
         /\ \/ /\ round[n].mode = "FinishOnly"
               /\ RoundOwner(h, n) = Right(h, FirstOf[round[n].families])
            \/ /\ round[n].mode = "Cancellable"
               /\ RoundOwner(h, n) = OptionalRound(h, n)
<1>1. /\ round[n].families \in SUBSET Families
      /\ round[n].mode \in {"FinishOnly", "Cancellable"}
  BY DEF AdjudicationInv, TypeOK, RoundState
<1>2. round[n].families # {}
  BY DEF ModesInv
<1>3. FirstOf[round[n].families] \in round[n].families
  BY <1>1, <1>2, FundingAssumption
<1>. QED
  BY <1>1, <1>3, RoundOwners DEF RoundOwner

LEMMA RoundsKept ==
  ASSUME AdjudicationInv, RoundsInv, SameRoundSlots,
         UNCHANGED <<enrollment, round, localRound>>,
         \A f \in Families : family[f].closed => family'[f].closed
  PROVE  RoundsInv'
<1>1. ModesInv'
  BY DEF RoundsInv, ModesInv
<1>2. PreparedInv'
  BY DEF RoundsInv, PreparedInv, SameRoundSlots, Hosts
<1>3. ASSUME NEW n \in Rounds, n = enrollment.active_round
      PROVE  RoundFunded(n)'
  <2>1. RoundFunded(n) /\ round[n].status # "none" /\ round[n].gateways \subseteq Gateways
    BY <1>3, RoundTypes, Types DEF RoundsInv, ActiveFunded, AdjudicationInv,
       RoundInv, RoundPlace
  <2>2. \A h \in Hosts : slots'[RoundOwner(h, n)] = slots[RoundOwner(h, n)]
    BY <2>1, RoundOwnerIs DEF SameRoundSlots, RoundsInv
  <2>3. \A h \in Hosts : RoundOwner(h, n)' = RoundOwner(h, n)
    BY DEF RoundOwner
  <2>. QED
    BY <2>1, <2>2, <2>3 DEF RoundFunded, GatewayFunded, Promised, Hosts
<1>4. RightsFunded'
  BY DEF RoundsInv, RightsFunded, SameRoundSlots
<1>. QED
  BY <1>1, <1>2, <1>3, <1>4 DEF RoundsInv, ActiveFunded

\* A command of a round leaves grants and tokens alone.
LEMMA RoundCommandTokens ==
  ASSUME SlotsTyped, TokensInv, RoundFrame, NEW o \in Owners, Only(o),
         \/ \E h \in Hosts, f \in Families : o = Right(h, f)
         \/ \E h \in Hosts, n \in Rounds : o = OptionalRound(h, n)
  PROVE  TokensInv'
<1>1. ASSUME NEW t \in Grants
      PROVE  ThisGrant(t)'
  <2>1. SameGrantSlots(t)
    BY GrantOwners, RoundOwners DEF SameGrantSlots, Only
  <2>2. SameGrant(t)
    BY DEF SameGrant, RoundFrame
  <2>3. ThisGrant(t)
    BY DEF ThisGrant, TokensInv, TokensFunded, TokenSettled
  <2>. QED
    BY <2>1, <2>2, <2>3, SameGrantKept
<1>. QED
  BY <1>1 DEF TokensInv, TokensFunded, TokenSettled, ThisGrant

\* A command of the active round at host h, paid for by the round.
LEMMA ActiveCommand ==
  ASSUME AdjudicationInv, SlotsTyped, TokensInv, RoundsInv, RoundFrame,
         NEW n \in Rounds, n = enrollment.active_round,
         NEW h \in Hosts, Only(RoundOwner(h, n)),
         round'[n].families = round[n].families,
         round'[n].gateways = round[n].gateways,
         round'[n].mode = round[n].mode, round'[n].status # "none",
         round[n].mode = "FinishOnly" => round'[n].status # "Aborted",
         SameBut(round', round, Rounds, n),
         \A g \in Gateways, m \in Rounds :
           localRound'[g][m].prepared = localRound[g][m].prepared,
         \A f \in Families : family[f].closed => family'[f].closed,
         \/ enrollment'.active_round = n /\ RoundFunded(n)'
         \/ /\ enrollment'.active_round = 0
            /\ round[n].mode = "FinishOnly" =>
                 \A f \in round[n].families : family'[f].closed
  PROVE  TokensInv' /\ RoundsInv'
<1>1. /\ round[n].status # "none" /\ n # 0
      /\ \A m \in Rounds : m # 0
  BY RoundTypes, Types DEF AdjudicationInv, RoundInv, RoundPlace
<1>2. /\ RoundOwner(h, n) \in Owners
      /\ FirstOf[round[n].families] \in round[n].families
      /\ FirstOf[round[n].families] \in Families
      /\ \/ /\ round[n].mode = "FinishOnly"
            /\ RoundOwner(h, n) = Right(h, FirstOf[round[n].families])
         \/ /\ round[n].mode = "Cancellable"
            /\ RoundOwner(h, n) = OptionalRound(h, n)
  BY <1>1, RoundOwnerIs DEF RoundsInv
<1>3. TokensInv'
  BY <1>2, RoundCommandTokens
<1>4. ModesInv'
  BY <1>1 DEF RoundsInv, ModesInv, SameBut
<1>5. PreparedInv'
  <2>. SUFFICES ASSUME NEW g \in Gateways, NEW m \in Rounds
       PROVE  /\ localRound'[g][m].prepared # Never /\ round'[m].status = "none" =>
                   slots'[OptionalRound(g, m)] = GatewayBundle
              /\ g \in round'[m].gateways /\ round'[m].mode = "Cancellable" =>
                   localRound'[g][m].prepared # Never
    BY DEF PreparedInv
  <2>1. CASE m = n
    BY <2>1 DEF RoundsInv, PreparedInv
  <2>2. CASE m # n
    <3>1. round'[m] = round[m]
      BY <2>2 DEF SameBut
    <3>2. g \in Hosts /\ OptionalRound(g, m) \in Owners
      BY RoundOwners DEF Hosts
    <3>3. OptionalRound(g, m) # RoundOwner(h, n)
      BY <2>2, <3>2, <1>2, RoundOwners
    <3>. QED
      BY <3>1, <3>2, <3>3 DEF RoundsInv, PreparedInv, Only
  <2>. QED
    BY <2>1, <2>2
<1>6. ActiveFunded'
  BY <1>1 DEF ActiveFunded
<1>7. RightsFunded'
  <2>. SUFFICES ASSUME NEW j \in Hosts, NEW f \in Families, ~family'[f].closed
       PROVE  \/ \E m \in Rounds :
                   /\ m = enrollment'.active_round /\ round'[m].mode = "FinishOnly"
                   /\ FirstOf[round'[m].families] = f
              \/ slots'[Right(j, f)] = FinishBundle(j)
    BY DEF RightsFunded
  <2>1. CASE round[n].mode = "FinishOnly" /\ FirstOf[round[n].families] = f
    BY <1>2, <2>1
  <2>2. CASE ~(round[n].mode = "FinishOnly" /\ FirstOf[round[n].families] = f)
    <3>1. slots[Right(j, f)] = FinishBundle(j)
      BY <2>2 DEF RoundsInv, RightsFunded
    <3>2. Right(j, f) \in Owners /\ Right(j, f) # RoundOwner(h, n)
      BY <1>2, <2>2, RoundOwners
    <3>. QED
      BY <3>1, <3>2 DEF Only
  <2>. QED
    BY <2>1, <2>2
<1>. QED
  BY <1>3, <1>4, <1>5, <1>6, <1>7 DEF RoundsInv

\* A command of the active round at one of its gateways.
LEMMA AtGateway ==
  ASSUME AdjudicationInv, SlotsTyped, TokensInv, RoundsInv, RoundFrame,
         NEW n \in Rounds, n = enrollment.active_round,
         NEW g \in round[n].gateways, Only(RoundOwner(g, n)),
         UNCHANGED <<enrollment, round>>,
         \A h \in Gateways, m \in Rounds :
           /\ localRound'[h][m].prepared = localRound[h][m].prepared
           /\ h # g => localRound'[h][m] = localRound[h][m],
         \A f \in Families : family[f].closed => family'[f].closed,
         GatewayFunded(g, n)'
  PROVE  TokensInv' /\ RoundsInv'
<1>1. /\ RoundFunded(n) /\ round[n].status # "none"
      /\ round[n].gateways \subseteq Gateways /\ g \in Hosts /\ Centre # g
      /\ Centre \in Hosts
  BY RoundTypes, Types, FundingAssumption DEF RoundsInv, ActiveFunded,
     AdjudicationInv, RoundInv, RoundPlace, Hosts
<1>2. ASSUME NEW h \in Hosts, h # g
      PROVE  slots'[RoundOwner(h, n)] = slots[RoundOwner(h, n)]
  BY <1>1, <1>2, RoundOwnerIs, RoundOwners DEF RoundsInv, Only
<1>3. \A h : RoundOwner(h, n)' = RoundOwner(h, n)
  BY DEF RoundOwner
<1>4. ASSUME NEW h \in round[n].gateways, h # g
      PROVE  GatewayFunded(h, n)'
  BY <1>1, <1>2, <1>3, <1>4 DEF RoundFunded, GatewayFunded, Promised, Hosts
<1>5. RoundFunded(n)'
  BY <1>1, <1>2, <1>3, <1>4 DEF RoundFunded, Promised
<1>6. round[n].mode = "FinishOnly" => round[n].status # "Aborted"
  BY <1>1 DEF RoundsInv, ModesInv
<1>. QED
  BY <1>1, <1>5, <1>6, ActiveCommand DEF SameBut

\* A gateway is at round n only while the round is active.
LEMMA AtActive ==
  ASSUME AdjudicationInv, RoundsInv, NEW n \in Rounds,
         NEW g \in round[n].gateways, Current(g, n)
  PROVE  /\ n = enrollment.active_round /\ g \in Gateways /\ g \in Hosts
         /\ RoundFunded(n) /\ RoundOwner(g, n) \in Owners
<1>1. n = enrollment.active_round /\ round[n].gateways \subseteq Gateways
  BY InstallOrder, NotInstalled, RoundTypes, Types DEF AdjudicationInv
<1>2. RoundFunded(n) /\ round[n].status # "none" /\ g \in Hosts
  BY <1>1 DEF RoundsInv, ActiveFunded, AdjudicationInv, RoundInv, RoundPlace,
     Hosts
<1>. QED
  BY <1>1, <1>2, RoundOwnerIs DEF RoundsInv

\* What a command of a gateway changes of its round.
Elsewhere(g, n) ==
  \A h \in Gateways, m \in Rounds :
    h # g \/ m # n => localRound'[h][m] = localRound[h][m]

LEMMA PreparedChanges ==
  ASSUME AdjudicationInv, NEW g \in Gateways, NEW n \in Rounds, PrepareRound(g, n)
  PROVE  /\ localRound'[g][n].prepared = localGateway[g].installed
         /\ localRound'[g][n].begun = localRound[g][n].begun
         /\ localRound'[g][n].seal = localRound[g][n].seal
         /\ localRound'[g][n].outcome = localRound[g][n].outcome
         /\ Elsewhere(g, n)
<1>. DEFINE r == localRound[g][n]
            x == localGateway[g].installed
            u == [r EXCEPT !.prepared = x]
<1>1. /\ localRound' = [localRound EXCEPT ![g] =
                          [localRound[g] EXCEPT ![n] = u]]
      /\ ProtocolTypeOK
  BY Types DEF AdjudicationInv, PrepareRound
<1>2. r \in LocalRoundState /\ x \in Nat
  BY <1>1 DEF ProtocolTypeOK, LocalGatewayState
<1>. HIDE DEF r, x
<1>3. /\ u \in LocalRoundState /\ u.prepared = x
      /\ u.begun = r.begun /\ u.seal = r.seal
      /\ u.outcome = r.outcome
  BY <1>2 DEF LocalRoundState
<1>. HIDE DEF u
<1>4. /\ localRound'[g][n] = u
      /\ \A h \in Gateways, m \in Rounds : h # g \/ m # n =>
           localRound'[h][m] = localRound[h][m]
  BY <1>1, <1>3, LocalRoundUpdate
<1>. QED
  BY <1>3, <1>4 DEF Elsewhere, r, x

LEMMA BegunChanges ==
  ASSUME AdjudicationInv, NEW g \in Gateways, NEW n \in Rounds, SealBegin(g, n)
  PROVE  /\ localRound'[g][n].begun = TRUE
         /\ localRound'[g][n].prepared = localRound[g][n].prepared
         /\ localRound'[g][n].seal = localRound[g][n].seal
         /\ localRound'[g][n].outcome = localRound[g][n].outcome
         /\ Elsewhere(g, n)
<1>. DEFINE r == localRound[g][n]
            x == TRUE
            u == [r EXCEPT !.begun = x]
<1>1. /\ localRound' = [localRound EXCEPT ![g] =
                          [localRound[g] EXCEPT ![n] = u]]
      /\ ProtocolTypeOK
  BY Types DEF AdjudicationInv, SealBegin
<1>2. r \in LocalRoundState /\ x \in BOOLEAN
  BY <1>1 DEF ProtocolTypeOK
<1>. HIDE DEF r, x
<1>3. /\ u \in LocalRoundState /\ u.begun = x
      /\ u.prepared = r.prepared /\ u.seal = r.seal
      /\ u.outcome = r.outcome
  BY <1>2 DEF LocalRoundState
<1>. HIDE DEF u
<1>4. /\ localRound'[g][n] = u
      /\ \A h \in Gateways, m \in Rounds : h # g \/ m # n =>
           localRound'[h][m] = localRound[h][m]
  BY <1>1, <1>3, LocalRoundUpdate
<1>. QED
  BY <1>3, <1>4 DEF Elsewhere, r, x

LEMMA SealChanges ==
  ASSUME AdjudicationInv, NEW g \in Gateways, NEW n \in Rounds, Sealed(g, n)
  PROVE  /\ localRound'[g][n].seal = localGateway[g].receipt
         /\ localRound'[g][n].prepared = localRound[g][n].prepared
         /\ localRound'[g][n].begun = localRound[g][n].begun
         /\ localRound'[g][n].outcome = localRound[g][n].outcome
         /\ Elsewhere(g, n)
<1>. DEFINE r == localRound[g][n]
            x == localGateway[g].receipt
            u == [r EXCEPT !.seal = x]
<1>1. /\ localRound' = [localRound EXCEPT ![g] =
                          [localRound[g] EXCEPT ![n] = u]]
      /\ ProtocolTypeOK
  BY Types DEF AdjudicationInv, Sealed
<1>2. r \in LocalRoundState /\ x \in Nat
  BY <1>1 DEF ProtocolTypeOK, LocalGatewayState
<1>. HIDE DEF r, x
<1>3. /\ u \in LocalRoundState /\ u.seal = x
      /\ u.prepared = r.prepared /\ u.begun = r.begun
      /\ u.outcome = r.outcome
  BY <1>2 DEF LocalRoundState
<1>. HIDE DEF u
<1>4. /\ localRound'[g][n] = u
      /\ \A h \in Gateways, m \in Rounds : h # g \/ m # n =>
           localRound'[h][m] = localRound[h][m]
  BY <1>1, <1>3, LocalRoundUpdate
<1>. QED
  BY <1>3, <1>4 DEF Elsewhere, r, x

LEMMA OutcomeChanges ==
  ASSUME AdjudicationInv, NEW g \in Gateways, NEW n \in Rounds, Install(g, n)
  PROVE  /\ localRound'[g][n].outcome = round[n].status
         /\ localRound'[g][n].prepared = localRound[g][n].prepared
         /\ localRound'[g][n].begun = localRound[g][n].begun
         /\ localRound'[g][n].seal = localRound[g][n].seal
         /\ Elsewhere(g, n)
<1>. DEFINE r == localRound[g][n]
            x == round[n].status
            u == [r EXCEPT !.outcome = x]
<1>1. /\ localRound' = [localRound EXCEPT ![g] =
                          [localRound[g] EXCEPT ![n] = u]]
      /\ ProtocolTypeOK
  BY Types DEF AdjudicationInv, Install
<1>2. r \in LocalRoundState /\ x \in {"Committed", "Aborted"}
  BY <1>1 DEF ProtocolTypeOK, Install
<1>. HIDE DEF r, x
<1>3. /\ u \in LocalRoundState /\ u.outcome = x
      /\ u.prepared = r.prepared /\ u.begun = r.begun
      /\ u.seal = r.seal
  BY <1>2 DEF LocalRoundState
<1>. HIDE DEF u
<1>4. /\ localRound'[g][n] = u
      /\ \A h \in Gateways, m \in Rounds : h # g \/ m # n =>
           localRound'[h][m] = localRound[h][m]
  BY <1>1, <1>3, LocalRoundUpdate
<1>. QED
  BY <1>3, <1>4 DEF Elsewhere, r, x

LEMMA FundsSealBegin ==
  ASSUME AdjudicationInv, SlotsTyped, TokensInv, RoundsInv, [Next]_vars,
         NEW g \in Gateways, NEW n \in Rounds, FundedSealBegin(g, n)
  PROVE  SlotsTyped' /\ TokensInv' /\ RoundsInv'
<1>. DEFINE o == RoundOwner(g, n)
<1>1. SealBegin(g, n) /\ Spend(o, "SEAL_BEGIN")
  BY DEF FundedSealBegin
<1>2. /\ g \in round[n].gateways /\ n = enrollment.active_round /\ g \in Hosts
      /\ RoundFunded(n) /\ o \in Owners
  BY <1>1, AtActive DEF SealBegin
<1>3. /\ SlotsTyped' /\ Only(o)
      /\ slots'[o]["SEALED"] = slots[o]["SEALED"]
      /\ slots'[o]["INSTALL"] = slots[o]["INSTALL"]
  BY <1>1, <1>2, Spending, BundleSlots
<1>4. RoundFrame
  BY <1>1, SealBeginStep, Types DEF AdjudicationInv
<1>5. /\ UNCHANGED <<enrollment, round>>
      /\ localRound' = [localRound EXCEPT ![g][n].begun = TRUE]
  BY <1>1 DEF SealBegin, centralVars
<1>6. RoundOwner(g, n)' = o
  BY <1>5 DEF RoundOwner
<1>. HIDE DEF o
<1>7. /\ localRound'[g][n].begun
      /\ localRound'[g][n].outcome = localRound[g][n].outcome
      /\ localRound'[g][n].seal = localRound[g][n].seal
      /\ \A h \in Gateways, m \in Rounds :
           /\ localRound'[h][m].prepared = localRound[h][m].prepared
           /\ h # g => localRound'[h][m] = localRound[h][m]
  BY <1>1, BegunChanges DEF Elsewhere
<1>8. GatewayFunded(g, n)'
  <2>1. GatewayFunded(g, n)
    BY <1>2 DEF RoundFunded
  <2>. QED
    BY <2>1, <1>3, <1>6, <1>7 DEF GatewayFunded, Promised, o
<1>9. \A f \in Families : family[f].closed => family'[f].closed
  BY ClosedKept
<1>. QED
  BY <1>2, <1>3, <1>4, <1>5, <1>7, <1>8, <1>9, AtGateway DEF o

LEMMA FundsSealed ==
  ASSUME AdjudicationInv, SlotsTyped, TokensInv, RoundsInv, [Next]_vars,
         NEW g \in Gateways, NEW n \in Rounds, FundedSealed(g, n)
  PROVE  SlotsTyped' /\ TokensInv' /\ RoundsInv'
<1>. DEFINE o == RoundOwner(g, n)
<1>1. Sealed(g, n) /\ Spend(o, "SEALED")
  BY DEF FundedSealed
<1>2. g \in round[n].gateways /\ Current(g, n)
  <2>1. GatewayPlace(g) /\ localGateway[g].mode # "Open" /\ localGateway[g].active = n
    BY <1>1 DEF Sealed, AdjudicationInv, GatewayInv
  <2>. QED
    BY <2>1 DEF GatewayPlace, Current
<1>3. /\ n = enrollment.active_round /\ g \in Hosts
      /\ RoundFunded(n) /\ o \in Owners
  BY <1>2, AtActive
<1>4. /\ SlotsTyped' /\ Only(o)
      /\ slots'[o]["SEAL_BEGIN"] = slots[o]["SEAL_BEGIN"]
      /\ slots'[o]["INSTALL"] = slots[o]["INSTALL"]
  BY <1>1, <1>3, Spending, BundleSlots
<1>5. RoundFrame
  BY <1>1, SealedStep, Types DEF AdjudicationInv
<1>6. /\ UNCHANGED <<enrollment, round>>
      /\ localRound' = [localRound EXCEPT ![g][n].seal = localGateway[g].receipt]
  BY <1>1 DEF Sealed, centralVars
<1>7. RoundOwner(g, n)' = o
  BY <1>6 DEF RoundOwner
<1>. HIDE DEF o
<1>8. localGateway[g].receipt \in Nat
  BY DEF AdjudicationInv, TypeOK, LocalGatewayState
<1>9. /\ localRound'[g][n].begun = localRound[g][n].begun
      /\ localRound'[g][n].outcome = localRound[g][n].outcome
      /\ localRound'[g][n].seal # Never
      /\ \A h \in Gateways, m \in Rounds :
           /\ localRound'[h][m].prepared = localRound[h][m].prepared
           /\ h # g => localRound'[h][m] = localRound[h][m]
  BY <1>1, <1>8, SealChanges DEF Elsewhere, Never
<1>10. GatewayFunded(g, n)'
  <2>1. GatewayFunded(g, n)
    BY <1>2, <1>3 DEF RoundFunded
  <2>. QED
    BY <2>1, <1>4, <1>7, <1>9 DEF GatewayFunded, Promised, o
<1>11. \A f \in Families : family[f].closed => family'[f].closed
  BY ClosedKept
<1>. QED
  BY <1>2, <1>3, <1>4, <1>5, <1>6, <1>9, <1>10, <1>11, AtGateway DEF o

LEMMA FundsInstall ==
  ASSUME AdjudicationInv, SlotsTyped, TokensInv, RoundsInv, [Next]_vars,
         NEW g \in Gateways, NEW n \in Rounds, FundedInstall(g, n)
  PROVE  SlotsTyped' /\ TokensInv' /\ RoundsInv'
<1>. DEFINE o == RoundOwner(g, n)
<1>1. Install(g, n) /\ Settle(o, "INSTALL")
  BY DEF FundedInstall
<1>2. /\ g \in round[n].gateways /\ n = enrollment.active_round /\ g \in Hosts
      /\ RoundFunded(n) /\ o \in Owners
      /\ round[n].status \in {"Committed", "Aborted"}
  BY <1>1, AtActive DEF Install
<1>3. SlotsTyped' /\ Only(o)
  BY <1>1, <1>2, Settling, BundleSlots
<1>4. RoundFrame
  BY <1>1, InstallStep, Types DEF AdjudicationInv
<1>5. /\ UNCHANGED <<enrollment, round>>
      /\ localRound' = [localRound EXCEPT ![g][n].outcome = round[n].status]
  BY <1>1 DEF Install, centralVars
<1>6. /\ localRound'[g][n].outcome = round[n].status
      /\ \A h \in Gateways, m \in Rounds :
           /\ localRound'[h][m].prepared = localRound[h][m].prepared
           /\ h # g => localRound'[h][m] = localRound[h][m]
  BY <1>1, OutcomeChanges DEF Elsewhere
<1>7. GatewayFunded(g, n)'
  BY <1>2, <1>6 DEF GatewayFunded
<1>8. \A f \in Families : family[f].closed => family'[f].closed
  BY ClosedKept
<1>. QED
  BY <1>2, <1>3, <1>4, <1>5, <1>6, <1>7, <1>8, AtGateway

\* What a command of the centre keeps of its round.
LEMMA ModeKept ==
  ASSUME AdjudicationInv, NEW n \in Rounds,
         \/ \E g \in Gateways : Drain(g, n) \/ AckInstall(g, n)
         \/ Ready(n) \/ Abort(n) \/ \E at \in Time : Close(n, at)
  PROVE  round'[n].mode = round[n].mode /\ UNCHANGED localRound
<1>1. round \in [Rounds -> RoundState] /\ round[n] \in RoundState
  BY DEF AdjudicationInv, TypeOK
<1>2. CASE \E g \in Gateways : Drain(g, n)
  BY <1>1, <1>2 DEF Drain, RoundState, localVars
<1>3. CASE \E g \in Gateways : AckInstall(g, n)
  BY <1>1, <1>3 DEF AckInstall, RoundState, localVars
<1>4. CASE Ready(n)
  BY <1>1, <1>4 DEF Ready, RoundState, localVars
<1>5. CASE Abort(n)
  BY <1>1, <1>5 DEF Abort, RoundState, localVars
<1>6. CASE \E at \in Time : Close(n, at)
  BY <1>1, <1>6 DEF Close, RoundState, localVars
<1>. QED
  BY <1>2, <1>3, <1>4, <1>5, <1>6

\* A command of the active round at the centre leaves the gateways' alone.
LEMMA AtCentre ==
  ASSUME AdjudicationInv, RoundsInv, NEW n \in Rounds,
         n = enrollment.active_round, Only(RoundOwner(Centre, n)),
         round'[n].families = round[n].families,
         round'[n].gateways = round[n].gateways,
         round'[n].mode = round[n].mode, UNCHANGED localRound
  PROVE  /\ RoundOwner(Centre, n)' = RoundOwner(Centre, n)
         /\ \A g \in round'[n].gateways : GatewayFunded(g, n)'
<1>1. /\ RoundFunded(n) /\ round[n].status # "none"
      /\ round[n].gateways \subseteq Gateways /\ Centre \notin Gateways
  BY RoundTypes, Types, FundingAssumption DEF RoundsInv, ActiveFunded,
     AdjudicationInv, RoundInv, RoundPlace
<1>2. \A h : RoundOwner(h, n)' = RoundOwner(h, n)
  BY DEF RoundOwner
<1>3. ASSUME NEW g \in round[n].gateways
      PROVE  GatewayFunded(g, n)'
  <2>1. slots'[RoundOwner(g, n)] = slots[RoundOwner(g, n)]
    BY <1>1, RoundOwnerIs, RoundOwners DEF RoundsInv, Only, Hosts
  <2>2. GatewayFunded(g, n)
    BY <1>1 DEF RoundFunded
  <2>. QED
    BY <1>2, <2>1, <2>2 DEF GatewayFunded, Promised
<1>. QED
  BY <1>2, <1>3

\* The active round and what it holds at the centre.
LEMMA CentreHolds ==
  ASSUME AdjudicationInv, RoundsInv, NEW n \in Rounds,
         n = enrollment.active_round
  PROVE  /\ RoundOwner(Centre, n) \in Owners /\ Centre \in Hosts
         /\ round[n].status # "none" /\ RoundFunded(n)
         /\ round[n].gateways \subseteq Gateways /\ IsFiniteSet(round[n].gateways)
<1>1. /\ RoundFunded(n) /\ round[n].status # "none"
      /\ round[n].gateways \subseteq Gateways /\ Centre \in Hosts
  BY RoundTypes, Types DEF RoundsInv, ActiveFunded, AdjudicationInv, RoundInv,
     RoundPlace, Hosts
<1>2. IsFiniteSet(round[n].gateways)
  BY <1>1, FundingAssumption, FS_Subset
<1>. QED
  BY <1>1, <1>2, RoundOwnerIs DEF RoundsInv

\* A gateway fewer to wait for.
LEMMA OneFewer ==
  ASSUME NEW S, IsFiniteSet(S), NEW g \in S, NEW k \in Nat, k >= Cardinality(S)
  PROVE  k - 1 >= Cardinality(S \ {g})
<1>1. Cardinality(S \ {g}) = Cardinality(S) - 1 /\ Cardinality(S) \in Nat
  BY FS_RemoveElement, FS_CardinalityType
<1>. QED
  BY <1>1

LEMMA FundsDrain ==
  ASSUME AdjudicationInv, SlotsTyped, TokensInv, RoundsInv, [Next]_vars,
         NEW g \in Gateways, NEW n \in Rounds, FundedDrain(g, n)
  PROVE  SlotsTyped' /\ TokensInv' /\ RoundsInv'
<1>. DEFINE o == RoundOwner(Centre, n)
            undrained == {h \in round[n].gateways : round[n].seal[h] = Never}
            after == {h \in round'[n].gateways : round'[n].seal[h] = Never}
<1>1. Drain(g, n) /\ Spend(o, "DRAIN")
  BY DEF FundedDrain
<1>2. RoundFrame /\ Drains(g, n)
  BY <1>1, DrainStep, Types DEF AdjudicationInv
<1>3. n = enrollment.active_round /\ enrollment' = enrollment
  BY <1>2, InProgress, Types DEF Drains, AdjudicationInv
<1>4. /\ o \in Owners /\ Centre \in Hosts /\ RoundFunded(n)
      /\ round[n].gateways \subseteq Gateways /\ IsFiniteSet(round[n].gateways)
  BY <1>3, CentreHolds
<1>5. /\ SlotsTyped' /\ Only(o) /\ slots'[o]["DRAIN"] = slots[o]["DRAIN"] - 1
      /\ \A k \in {"READY", "CLOSE", "ABORT", "ACK_INSTALL"} :
           slots'[o][k] = slots[o][k]
  BY <1>1, <1>4, Spending, BundleSlots
<1>6. round'[n].mode = round[n].mode /\ UNCHANGED localRound
  BY <1>1, ModeKept
<1>7. /\ o' = o
      /\ \A h \in round'[n].gateways : GatewayFunded(h, n)'
  BY <1>2, <1>3, <1>5, <1>6, AtCentre DEF Drains, KeepsTerms
<1>8. slots'[o]["DRAIN"] >= Cardinality(after)
  <2>1. g \in undrained /\ after = undrained \ {g}
    <3>1. /\ g \in round[n].gateways /\ round[n].seal[g] = Never
          /\ localRound[g][n].seal # Never
      BY <1>1 DEF Drain
    <3>. QED
      BY <1>2, <1>4, <3>1 DEF Drains, KeepsTerms, SameBut
  <2>2. IsFiniteSet(undrained)
    BY <1>4, FS_Subset
  <2>3. slots[o]["DRAIN"] \in Nat /\ slots[o]["DRAIN"] >= Cardinality(undrained)
    BY <1>2, <1>4, BundleSlots DEF RoundFunded, Drains, SlotsTyped
  <2>. QED
    BY <1>5, <2>1, <2>2, <2>3, OneFewer
<1>9. RoundFunded(n)'
  <2>. HIDE DEF o
  <2>1. /\ slots[o]["READY"] >= 1 /\ slots[o]["CLOSE"] >= 1
        /\ round[n].mode = "Cancellable" => slots[o]["ABORT"] >= 1
        /\ slots[o]["ACK_INSTALL"] >=
             Cardinality(round[n].gateways \ round[n].acknowledged)
    BY <1>2, <1>4 DEF RoundFunded, Promised, Drains, o
  <2>. QED
    BY <1>2, <1>5, <1>6, <1>7, <1>8, <2>1
       DEF RoundFunded, Promised, Drains, KeepsTerms, o
<1>10. \A f \in Families : family[f].closed => family'[f].closed
  BY ClosedKept
<1>. QED
  BY <1>2, <1>3, <1>4, <1>5, <1>6, <1>9, <1>10, ActiveCommand
     DEF Drains, KeepsTerms

LEMMA FundsReady ==
  ASSUME AdjudicationInv, SlotsTyped, TokensInv, RoundsInv, [Next]_vars,
         NEW n \in Rounds, FundedReady(n)
  PROVE  SlotsTyped' /\ TokensInv' /\ RoundsInv'
<1>. DEFINE o == RoundOwner(Centre, n)
<1>1. Ready(n) /\ Spend(o, "READY")
  BY DEF FundedReady
<1>2. RoundFrame /\ Readies(n)
  BY <1>1, ReadyStep, Types DEF AdjudicationInv
<1>3. n = enrollment.active_round /\ enrollment' = enrollment
  BY <1>2, InProgress, Types DEF Readies, AdjudicationInv
<1>4. o \in Owners /\ Centre \in Hosts /\ RoundFunded(n)
  BY <1>3, CentreHolds
<1>5. /\ SlotsTyped' /\ Only(o)
      /\ \A k \in {"CLOSE", "ABORT", "ACK_INSTALL"} : slots'[o][k] = slots[o][k]
  BY <1>1, <1>4, Spending, BundleSlots
<1>6. round'[n].mode = round[n].mode /\ UNCHANGED localRound
  BY <1>1, ModeKept
<1>7. /\ o' = o
      /\ \A h \in round'[n].gateways : GatewayFunded(h, n)'
  BY <1>2, <1>3, <1>5, <1>6, AtCentre DEF Readies, KeepsCourse, KeepsTerms
<1>8. RoundFunded(n)'
  <2>. HIDE DEF o
  <2>1. /\ slots[o]["CLOSE"] >= 1
        /\ round[n].mode = "Cancellable" => slots[o]["ABORT"] >= 1
        /\ slots[o]["ACK_INSTALL"] >=
             Cardinality(round[n].gateways \ round[n].acknowledged)
    BY <1>2, <1>4 DEF RoundFunded, Promised, Readies, o
  <2>. QED
    BY <1>2, <1>5, <1>6, <1>7, <2>1
       DEF RoundFunded, Promised, Readies, KeepsCourse, KeepsTerms, o
<1>9. \A f \in Families : family[f].closed => family'[f].closed
  BY ClosedKept
<1>. QED
  BY <1>2, <1>3, <1>4, <1>5, <1>6, <1>8, <1>9, ActiveCommand
     DEF Readies, KeepsCourse, KeepsTerms

\* The end of a round: what is left to pay are its acknowledgements.
LEMMA FundsEnd ==
  ASSUME AdjudicationInv, SlotsTyped, TokensInv, RoundsInv, [Next]_vars,
         NEW n \in Rounds, NEW k \in {"CLOSE", "ABORT"}, RoundFrame,
         IF round[n].gateways = {} THEN Settle(RoundOwner(Centre, n), k)
         ELSE Spend(RoundOwner(Centre, n), k),
         round[n].status \in {"Draining", "Ready"},
         round'[n].status \in {"Committed", "Aborted"},
         KeepsCourse(n), FinishIfEmpty(n),
         round'[n].mode = round[n].mode, UNCHANGED localRound,
         round[n].mode = "FinishOnly" =>
           /\ round'[n].status = "Committed"
           /\ \A f \in round[n].families : family'[f].closed
  PROVE  SlotsTyped' /\ TokensInv' /\ RoundsInv'
<1>. DEFINE o == RoundOwner(Centre, n)
<1>1. n = enrollment.active_round
  BY InProgress, Types DEF AdjudicationInv
<1>2. o \in Owners /\ Centre \in Hosts /\ RoundFunded(n)
  BY <1>1, CentreHolds
<1>3. /\ SlotsTyped' /\ Only(o)
      /\ round[n].gateways # {} =>
           slots'[o]["ACK_INSTALL"] = slots[o]["ACK_INSTALL"]
  BY <1>2, Spending, Settling, BundleSlots
<1>4. /\ o' = o
      /\ \A h \in round'[n].gateways : GatewayFunded(h, n)'
  BY <1>1, <1>3, AtCentre DEF KeepsCourse, KeepsTerms
<1>5. CASE round[n].gateways = {}
  <2>1. enrollment'.active_round = 0
    BY <1>5 DEF FinishIfEmpty
  <2>. QED
    BY <1>1, <1>2, <1>3, <2>1, ClosedKept, ActiveCommand
       DEF KeepsCourse, KeepsTerms
<1>6. CASE round[n].gateways # {}
  <2>1. enrollment'.active_round = n
    BY <1>1, <1>6 DEF FinishIfEmpty
  <2>2. RoundFunded(n)'
    <3>. HIDE DEF o
    <3>1. slots[o]["ACK_INSTALL"] >=
             Cardinality(round[n].gateways \ round[n].acknowledged)
      BY <1>2 DEF RoundFunded, o
    <3>. QED
      BY <1>3, <1>4, <1>6, <3>1 DEF RoundFunded, KeepsCourse, KeepsTerms, o
  <2>. QED
    BY <1>1, <1>2, <1>3, <2>1, <2>2, ClosedKept, ActiveCommand
       DEF KeepsCourse, KeepsTerms
<1>. QED
  BY <1>5, <1>6

LEMMA FundsClose ==
  ASSUME AdjudicationInv, SlotsTyped, TokensInv, RoundsInv, [Next]_vars,
         NEW n \in Rounds, NEW at \in Time, FundedClose(n, at)
  PROVE  SlotsTyped' /\ TokensInv' /\ RoundsInv'
<1>1. at \in Nat /\ Close(n, at)
  BY BoundAssumption DEF FundedClose, Time
<1>2. RoundFrame /\ Commits(n, at)
  BY <1>1, ProtocolCloseStep, Types DEF AdjudicationInv
<1>3. round'[n].mode = round[n].mode /\ UNCHANGED localRound
  BY <1>1, ModeKept
<1>4. \A f \in round[n].families : family'[f].closed
  <2>1. round[n].families \subseteq Families
    BY DEF AdjudicationInv, TypeOK, RoundState
  <2>. QED
    BY <1>1, <1>2, <2>1, CommitsCloses DEF AdjudicationInv
<1>. QED
  BY <1>2, <1>3, <1>4, FundsEnd DEF FundedClose, Commits

LEMMA FundsAbort ==
  ASSUME AdjudicationInv, SlotsTyped, TokensInv, RoundsInv, [Next]_vars,
         NEW n \in Rounds, FundedAbort(n)
  PROVE  SlotsTyped' /\ TokensInv' /\ RoundsInv'
<1>1. Abort(n) /\ round[n].mode = "Cancellable"
  BY DEF FundedAbort, Abort
<1>2. RoundFrame /\ Aborts(n)
  BY <1>1, AbortStep, Types DEF AdjudicationInv
<1>3. round'[n].mode = round[n].mode /\ UNCHANGED localRound
  BY <1>1, ModeKept
<1>. QED
  BY <1>1, <1>2, <1>3, FundsEnd DEF FundedAbort, Aborts

LEMMA FundsAckInstall ==
  ASSUME AdjudicationInv, SlotsTyped, TokensInv, RoundsInv, [Next]_vars,
         NEW g \in Gateways, NEW n \in Rounds, FundedAckInstall(g, n)
  PROVE  SlotsTyped' /\ TokensInv' /\ RoundsInv'
<1>. DEFINE o == RoundOwner(Centre, n)
            acked == round[n].acknowledged \union {g}
            waiting == round[n].gateways \ round[n].acknowledged
<1>1. /\ AckInstall(g, n)
      /\ IF Finishes(n, acked) THEN Settle(o, "ACK_INSTALL")
         ELSE Spend(o, "ACK_INSTALL")
  BY DEF FundedAckInstall
<1>2. RoundFrame /\ Acknowledges(g, n)
  BY <1>1, AckInstallStep, Types DEF AdjudicationInv
<1>3. n = enrollment.active_round /\ round[n].status # "none"
  BY <1>2, InProgress, Types DEF Acknowledges, AdjudicationInv, Terminal
<1>4. /\ o \in Owners /\ Centre \in Hosts /\ RoundFunded(n)
      /\ IsFiniteSet(round[n].gateways)
  BY <1>3, CentreHolds
<1>5. /\ SlotsTyped' /\ Only(o)
      /\ ~Finishes(n, acked) =>
           slots'[o]["ACK_INSTALL"] = slots[o]["ACK_INSTALL"] - 1
  BY <1>1, <1>4, Spending, Settling, BundleSlots
<1>6. round'[n].mode = round[n].mode /\ UNCHANGED localRound
  BY <1>1, ModeKept
<1>7. /\ o' = o
      /\ \A h \in round'[n].gateways : GatewayFunded(h, n)'
  BY <1>2, <1>3, <1>5, <1>6, AtCentre DEF Acknowledges, KeepsTerms
<1>8. round[n].mode = "FinishOnly" =>
        /\ round[n].status = "Committed"
        /\ \A f \in round[n].families : family'[f].closed
  <2>1. round[n].status \in {"Committed", "Aborted"} /\ UNCHANGED family
    BY <1>2 DEF Acknowledges, Terminal, economicVars
  <2>2. round[n].mode = "FinishOnly" => round[n].status = "Committed"
    BY <1>3, <2>1 DEF RoundsInv, ModesInv
  <2>. QED
    BY <2>1, <2>2 DEF AdjudicationInv, BooksInv
<1>9. CASE Finishes(n, acked)
  <2>1. enrollment'.active_round = 0
    BY <1>2, <1>9 DEF Acknowledges, Finishes
  <2>. QED
    BY <1>2, <1>3, <1>4, <1>5, <1>6, <1>8, <2>1, ClosedKept, ActiveCommand
       DEF Acknowledges, KeepsTerms
<1>10. CASE ~Finishes(n, acked)
  <2>1. enrollment'.active_round = n
    BY <1>2, <1>3, <1>10 DEF Acknowledges, Finishes
  <2>2. slots'[o]["ACK_INSTALL"] >=
          Cardinality(round'[n].gateways \ round'[n].acknowledged)
    <3>1. /\ g \in waiting
          /\ round'[n].gateways \ round'[n].acknowledged = waiting \ {g}
      BY <1>2 DEF Acknowledges, KeepsTerms
    <3>2. IsFiniteSet(waiting)
      BY <1>4, FS_Subset
    <3>3. /\ slots[o]["ACK_INSTALL"] \in Nat
          /\ slots[o]["ACK_INSTALL"] >= Cardinality(waiting)
      BY <1>4, BundleSlots DEF RoundFunded, SlotsTyped
    <3>. QED
      BY <1>5, <1>10, <3>1, <3>2, <3>3, OneFewer
  <2>3. RoundFunded(n)'
    BY <1>2, <1>7, <2>2 DEF RoundFunded, Acknowledges, Terminal
  <2>. QED
    BY <1>2, <1>3, <1>4, <1>5, <1>6, <1>8, <2>1, <2>3, ClosedKept, ActiveCommand
       DEF Acknowledges, KeepsTerms
<1>. QED
  BY <1>9, <1>10

\* A preparation may come for a round the gateway has no part in, but never
\* for one that already uses what was prepared.
LEMMA FundsPrepareRound ==
  ASSUME AdjudicationInv, SlotsTyped, TokensInv, RoundsInv, [Next]_vars,
         NEW g \in Gateways, NEW n \in Rounds, FundedPrepareRound(g, n)
  PROVE  SlotsTyped' /\ TokensInv' /\ RoundsInv'
<1>. DEFINE o == OptionalRound(g, n)
<1>1. /\ PrepareRound(g, n) /\ localRound[g][n].prepared = Never
      /\ slots' = [slots EXCEPT ![o] = GatewayBundle]
      /\ UNCHANGED <<enrollment, round>>
  BY DEF FundedPrepareRound, PrepareRound, centralVars
<1>2. g \in Hosts /\ o \in Owners
  BY RoundOwners DEF Hosts
<1>3. SlotsTyped' /\ slots'[o] = GatewayBundle /\ Only(o)
  BY <1>1, <1>2, Slotted, BundleSlots
<1>4. RoundFrame
  BY <1>1, PrepareRoundStep, Types DEF AdjudicationInv
<1>5. /\ localRound'[g][n].prepared # Never
      /\ \A h \in Gateways, m \in Rounds :
           /\ h # g \/ m # n => localRound'[h][m] = localRound[h][m]
           /\ localRound'[h][m].outcome = localRound[h][m].outcome
           /\ localRound'[h][m].begun = localRound[h][m].begun
           /\ localRound'[h][m].seal = localRound[h][m].seal
  <2>1. localGateway[g].installed # Never
    BY RoundTypes, Types DEF AdjudicationInv, Never
  <2>. QED
    BY <2>1, <1>1, PreparedChanges DEF Elsewhere
<1>6. TokensInv'
  BY <1>2, <1>3, <1>4, RoundCommandTokens
<1>7. ModesInv'
  BY <1>1 DEF RoundsInv, ModesInv
<1>8. PreparedInv'
  <2>. SUFFICES ASSUME NEW h \in Gateways, NEW m \in Rounds
       PROVE  /\ localRound'[h][m].prepared # Never /\ round[m].status = "none" =>
                   slots'[OptionalRound(h, m)] = GatewayBundle
              /\ h \in round[m].gateways /\ round[m].mode = "Cancellable" =>
                   localRound'[h][m].prepared # Never
    BY <1>1 DEF PreparedInv
  <2>1. CASE h = g /\ m = n
    BY <1>3, <1>5, <2>1
  <2>2. CASE h # g \/ m # n
    <3>1. h \in Hosts /\ OptionalRound(h, m) \in Owners \ {o}
      BY <1>2, <2>2, RoundOwners DEF Hosts
    <3>. QED
      BY <1>3, <1>5, <2>2, <3>1 DEF RoundsInv, PreparedInv, Only
  <2>. QED
    BY <2>1, <2>2
<1>9. ASSUME NEW m \in Rounds, m = enrollment.active_round
      PROVE  RoundFunded(m)'
  <2>1. /\ RoundFunded(m) /\ round[m].status # "none"
        /\ round[m].gateways \subseteq Gateways /\ Centre \in Hosts
        /\ Centre # g
    BY <1>9, CentreHolds, FundingAssumption
  <2>2. ASSUME NEW h \in round[m].gateways \union {Centre}
        PROVE  slots'[RoundOwner(h, m)] = slots[RoundOwner(h, m)]
    <3>1. h \in Hosts
      BY <2>1 DEF Hosts
    <3>2. CASE round[m].mode = "FinishOnly"
      BY <1>2, <1>3, <2>1, <3>1, <3>2, RoundOwnerIs, RoundOwners
         DEF RoundsInv, Only
    <3>3. CASE round[m].mode = "Cancellable"
      <4>1. h # g \/ m # n
        BY <1>1, <2>1, <3>3 DEF RoundsInv, PreparedInv
      <4>. QED
        BY <1>2, <1>3, <2>1, <3>1, <3>3, <4>1, RoundOwnerIs, RoundOwners
           DEF RoundsInv, Only
    <3>. QED
      BY <2>1, <3>1, <3>2, <3>3, RoundOwnerIs DEF RoundsInv
  <2>3. \A h : RoundOwner(h, m)' = RoundOwner(h, m)
    BY <1>1 DEF RoundOwner
  <2>4. ASSUME NEW h \in round[m].gateways
        PROVE  GatewayFunded(h, m)'
    <3>1. GatewayFunded(h, m) /\ h \in Gateways
      BY <2>1 DEF RoundFunded
    <3>. QED
      BY <1>5, <2>2, <2>3, <3>1 DEF GatewayFunded, Promised
  <2>. QED
    BY <1>1, <2>1, <2>2, <2>3, <2>4 DEF RoundFunded, Promised
<1>10. RightsFunded'
  <2>1. UNCHANGED family
    BY <1>1 DEF PrepareRound, economicVars
  <2>2. \A h \in Hosts, f \in Families : Right(h, f) \in Owners \ {o}
    BY <1>2, RoundOwners
  <2>. QED
    BY <1>1, <1>3, <2>1, <2>2 DEF RoundsInv, RightsFunded, Only
<1>. QED
  BY <1>1, <1>3, <1>6, <1>7, <1>8, <1>9, <1>10 DEF RoundsInv, ActiveFunded

LEMMA FundsBegin ==
  ASSUME AdjudicationInv, SlotsTyped, TokensInv, RoundsInv, [Next]_vars,
         NEW n \in Rounds, NEW mode \in Modes, NEW F \in SUBSET Families,
         NEW G \in SUBSET Gateways, FundedBegin(n, mode, F, G)
  PROVE  SlotsTyped' /\ TokensInv' /\ RoundsInv'
<1>. DEFINE o == IF mode = "FinishOnly" THEN Right(Centre, FirstOf[F])
                 ELSE OptionalRound(Centre, n)
            u == [status |-> "Draining", mode |-> mode, families |-> F,
                  gateways |-> G, cutoff |-> Cutoffs,
                  predecessor |-> [g \in Gateways |-> gateway[g].acknowledged],
                  seal |-> [g \in Gateways |-> Never], acknowledged |-> {},
                  closed_at |-> Never]
<1>1. /\ Begin(n, mode, F, G)
      /\ mode \in {"FinishOnly", "Cancellable"}
      /\ mode = "FinishOnly" => Spend(Right(Centre, FirstOf[F]), "BEGIN")
      /\ mode = "Cancellable" => Reserve(OptionalRound(Centre, n), CancelBundle, "BEGIN")
  BY ProtocolAssumption DEF FundedBegin
<1>2. /\ enrollment.active_round = 0 /\ enrollment'.active_round = n
      /\ round[n].status = "none" /\ UNCHANGED <<family, localRound>>
      /\ F # {} /\ \A f \in F : ~family[f].closed
      /\ mode = "Cancellable" => \A g \in G : localRound[g][n].prepared # Never
      /\ round' = [round EXCEPT ![n] = u]
  <2>1. \A g \in Gateways : gateway[g].acknowledged # Never
    BY RoundTypes, Types DEF AdjudicationInv, Never
  <2>2. enrollment \in [active_round : Nat, last_round : Nat]
    BY DEF AdjudicationInv, TypeOK
  <2>. QED
    BY <1>1, <2>1, <2>2 DEF Begin, MayClose, economicVars, localVars
<1>3. /\ round'[n].status = "Draining" /\ round'[n].mode = mode
      /\ round'[n].families = F /\ round'[n].gateways = G
      /\ round'[n].acknowledged = {}
      /\ \A m \in Rounds \ {n} : round'[m] = round[m]
  BY <1>2 DEF AdjudicationInv, TypeOK
<1>. HIDE DEF u
<1>4. /\ FirstOf[F] \in F /\ FirstOf[F] \in Families /\ Centre \in Hosts
      /\ Centre \notin Gateways /\ o \in Owners
      /\ n # 0 /\ \A m \in Rounds : m # 0
  BY <1>2, FundingAssumption, RoundOwners, RoundTypes, Types
     DEF Hosts, AdjudicationInv
<1>5. \A h \in Hosts : slots[Right(h, FirstOf[F])] = FinishBundle(h)
  BY <1>2, <1>4 DEF RoundsInv, RightsFunded
<1>6. /\ SlotsTyped' /\ Only(o)
      /\ slots'[o]["READY"] = 1 /\ slots'[o]["CLOSE"] = 1
      /\ slots'[o]["DRAIN"] = 4 /\ slots'[o]["ACK_INSTALL"] = 4
      /\ mode = "Cancellable" => slots'[o]["ABORT"] = 1
  <2>1. CASE mode = "FinishOnly"
    <3>1. slots[o] = CentralBundle
      BY <1>4, <1>5, <2>1 DEF FinishBundle
    <3>. QED
      BY <1>1, <1>4, <2>1, <3>1, Spending, BundleSlots
  <2>2. CASE mode = "Cancellable"
    BY <1>1, <1>4, <2>2, Reserving, BundleSlots
  <2>. QED
    BY <1>1, <2>1, <2>2
<1>7. RoundFrame
  BY <1>1, BeginStep, Types DEF AdjudicationInv
<1>8. TokensInv'
  <2>1. \/ \E h \in Hosts, f \in Families : o = Right(h, f)
        \/ \E h \in Hosts, m \in Rounds : o = OptionalRound(h, m)
    BY <1>4
  <2>. QED
    BY <1>4, <1>6, <1>7, <2>1, RoundCommandTokens
<1>9. ModesInv'
  BY <1>2, <1>3 DEF RoundsInv, ModesInv
<1>10. PreparedInv'
  <2>1. \A g \in Gateways, m \in Rounds : OptionalRound(g, m) \in Owners \ {o}
    BY <1>4, RoundOwners DEF Hosts
  <2>. QED
    BY <1>2, <1>3, <1>6, <2>1 DEF RoundsInv, PreparedInv, Only
<1>11. RoundFunded(n)'
  <2>1. RoundOwner(Centre, n)' = o
    BY <1>3 DEF RoundOwner
  <2>2. ASSUME NEW S \in SUBSET G
        PROVE  4 >= Cardinality(S)
    <3>1. /\ IsFiniteSet(Gateways) /\ S \subseteq Gateways
          /\ Cardinality(Gateways) <= 4
      BY FundingAssumption
    <3>2. Cardinality(S) <= Cardinality(Gateways) /\ IsFiniteSet(S)
      BY <3>1, FS_Subset
    <3>3. Cardinality(S) \in Nat /\ Cardinality(Gateways) \in Nat
      BY <3>1, <3>2, FS_CardinalityType
    <3>. QED
      BY <3>1, <3>2, <3>3
  <2>3. ASSUME NEW g \in G
        PROVE  GatewayFunded(g, n)'
    <3>1. g \in Hosts /\ g # Centre
      BY <1>4 DEF Hosts
    <3>2. slots'[RoundOwner(g, n)'] = GatewayBundle
      <4>1. CASE mode = "FinishOnly"
        <5>1. RoundOwner(g, n)' = Right(g, FirstOf[F])
          BY <1>3, <4>1 DEF RoundOwner
        <5>2. Right(g, FirstOf[F]) \in Owners \ {o}
          BY <1>4, <3>1, <4>1, RoundOwners
        <5>3. slots[Right(g, FirstOf[F])] = GatewayBundle
          BY <1>5, <3>1 DEF FinishBundle
        <5>. QED
          BY <1>6, <5>1, <5>2, <5>3 DEF Only
      <4>2. CASE mode = "Cancellable"
        <5>1. RoundOwner(g, n)' = OptionalRound(g, n)
          BY <1>3, <4>2 DEF RoundOwner
        <5>2. OptionalRound(g, n) \in Owners \ {o}
          BY <1>4, <3>1, <4>2, RoundOwners
        <5>3. slots[OptionalRound(g, n)] = GatewayBundle
          BY <1>2, <4>2 DEF RoundsInv, PreparedInv
        <5>. QED
          BY <1>6, <5>1, <5>2, <5>3 DEF Only
      <4>. QED
        BY <1>1, <4>1, <4>2
    <3>. QED
      BY <3>2, BundleSlots DEF GatewayFunded, Promised
  <2>. HIDE DEF o
  <2>4. /\ 4 >= Cardinality({g \in round'[n].gateways : round'[n].seal[g] = Never})
        /\ 4 >= Cardinality(round'[n].gateways \ round'[n].acknowledged)
    BY <1>3, <2>2
  <2>. QED
    BY <1>3, <1>6, <2>1, <2>3, <2>4 DEF RoundFunded, Promised
<1>12. ActiveFunded'
  BY <1>2, <1>11 DEF ActiveFunded
<1>13. RightsFunded'
  <2>. SUFFICES ASSUME NEW h \in Hosts, NEW f \in Families, ~family[f].closed,
                       ~(mode = "FinishOnly" /\ FirstOf[F] = f)
       PROVE  slots'[Right(h, f)] = FinishBundle(h)
    BY <1>2, <1>3 DEF RightsFunded
  <2>1. slots[Right(h, f)] = FinishBundle(h)
    BY <1>2, <1>4 DEF RoundsInv, RightsFunded
  <2>2. Right(h, f) \in Owners \ {o}
    BY <1>1, <1>4, RoundOwners
  <2>. QED
    BY <1>6, <2>1, <2>2 DEF Only
<1>. QED
  BY <1>6, <1>8, <1>9, <1>10, <1>12, <1>13 DEF RoundsInv

-----------------------------------------------------------------------------
(* The two halves together.                                                *)

FundingInv == AdjudicationInv /\ SlotsTyped /\ TokensInv /\ RoundsInv

\* Optional commands touch no slot and nothing of the protocol.
LEMMA FundsOptional ==
  ASSUME AdjudicationInv, SlotsTyped, TokensInv, RoundsInv, [Next]_vars,
         UNCHANGED <<slots, centralVars, localVars>>
  PROVE  SlotsTyped' /\ TokensInv' /\ RoundsInv'
<1>1. UNCHANGED <<grant, token, enrollment, round, localGrant, localToken,
                  localRound>>
  BY DEF centralVars, localVars
<1>2. SlotsTyped' /\ SameRoundSlots
  BY DEF SlotsTyped, SameRoundSlots
<1>3. TokensInv'
  BY <1>1 DEF TokensInv, TokenSettled, TokensFunded, GrantFunded, TokenFunded,
     Promised
<1>4. RoundsInv'
  BY <1>1, <1>2, ClosedKept, RoundsKept
<1>. QED
  BY <1>2, <1>3, <1>4

LEMMA FundingInit ==
  ASSUME FundedInit
  PROVE  FundingInv
<1>1. AdjudicationInv /\ Init
  BY AdjudicationInit DEF FundedInit
<1>2. SlotsTyped
  <2>1. /\ \A h \in Hosts : FinishBundle(h) \in [Kinds -> Nat]
        /\ Empty \in [Kinds -> Nat]
    BY BundleSlots, Bundles DEF FinishBundle, Empty
  <2>2. \A o \in Owners : o[2] = "close" => o[1] \in Hosts
    BY DEF Owners, LocalGrantOwner, CentralGrantOwner, TokenOwner, Right,
       OptionalRound
  <2>. QED
    BY <2>1, <2>2 DEF FundedInit, SlotsTyped
<1>3. TokensInv
  BY <1>1 DEF Init, TokensInv, TokenSettled, TokensFunded, GrantFunded,
     TokenFunded, NoToken
<1>4. ModesInv /\ ActiveFunded
  <2>1. \A n \in Rounds : n # 0 /\ round[n].status = "none"
    BY <1>1, RoundTypes, Types DEF Init, NoRound, AdjudicationInv
  <2>2. enrollment.active_round = 0
    BY <1>1 DEF Init
  <2>. QED
    BY <2>1, <2>2 DEF ModesInv, ActiveFunded
<1>5. PreparedInv
  BY <1>1 DEF Init, NoRound, PreparedInv
<1>6. RightsFunded
  <2>1. ASSUME NEW h \in Hosts, NEW f \in Families
        PROVE  slots[Right(h, f)] = FinishBundle(h)
    <3>1. /\ Right(h, f) \in Owners /\ Right(h, f)[1] = h
          /\ Right(h, f)[2] = "close"
      BY RoundOwners DEF Right
    <3>. QED
      BY <3>1 DEF FundedInit
  <2>. QED
    BY <2>1 DEF RightsFunded
<1>. QED
  BY <1>1, <1>2, <1>3, <1>4, <1>5, <1>6 DEF FundingInv, RoundsInv

LEMMA FundingInvStep ==
  ASSUME FundingInv, [FundedNext]_fundedVars
  PROVE  FundingInv'
<1>1. [Next]_vars /\ AdjudicationInv'
  BY FundedStepIsStep, AdjudicationInvStep DEF FundingInv
<1>. USE DEF FundingInv
<1>2. CASE \E t \in Grants : FundedTokenStep(t)
  <2>1. PICK t \in Grants : FundedTokenStep(t)
    BY <1>2
  <2>2. SlotsTyped' /\ TokensInv' /\ SameRoundSlots
    BY <2>1, FundsToken
  <2>3. TokenStep(t)
    BY <2>1 DEF FundedTokenStep, TokenStep, FundedLocalGrant, FundedRegisterGrant,
       FundedIssue, FundedRetireGrant, FundedActivate, FundedReceive, FundedImport,
       FundedReturnUnused, FundedReconcile, FundedAdvance, FundedAdvanceReceipt,
       FundedLocalTerminal
  <2>4. TokenFrame
    BY <2>3, TokenEffects, Types DEF AdjudicationInv
  <2>. QED
    BY <1>1, <2>2, <2>4, ClosedKept, RoundsKept DEF TokenFrame
<1>3. CASE \E g \in Gateways, n \in Rounds : FundedGatewayStep(g, n)
  BY <1>1, <1>3, FundsPrepareRound, FundsSealBegin, FundsSealed, FundsDrain,
     FundsInstall, FundsAckInstall DEF FundedGatewayStep
<1>4. CASE \E n \in Rounds : FundedRoundStep(n)
  BY <1>1, <1>4, FundsBegin, FundsReady, FundsClose, FundsAbort
     DEF FundedRoundStep
<1>5. CASE Optional
  <2>1. UNCHANGED <<slots, centralVars, localVars>>
    BY <1>5 DEF Optional, FundedDecide, FundedCorrect, Supplement,
       ExtendResources, ReplaceWriter, Pay, vars
  <2>. QED
    BY <1>1, <2>1, FundsOptional
<1>6. CASE UNCHANGED fundedVars
  BY <1>1, <1>6, FundsOptional DEF fundedVars, vars, fundVars
<1>. QED
  BY <1>2, <1>3, <1>4, <1>5, <1>6 DEF FundedNext

\* A funded history is a history of the protocol: what is proved and checked
\* of Adjudication holds whatever is spent (the funded commands carry out the
\* commands of transition.rs, and the optional ones touch no protocol point).
THEOREM FundedImplementsProtocol == FundedSpec => Spec
<1>1. FundedInit => Init
  BY DEF FundedInit
<1>2. [FundedNext]_fundedVars => [Next]_vars
  BY FundedStepIsStep
<1>. QED
  BY <1>1, <1>2, PTL DEF FundedSpec, Spec

\* Whatever optional work a host has paid for, each command an outstanding
\* grant, token or round may still need has a slot of its own, and every open
\* family can be closed (reserve and spend in accounting.rs, and the bundles
\* each owner is given before it exists).
THEOREM FinishingTheorem == FundedSpec => []FinishingIsFunded
<1>1. FundedInit => FundingInv
  BY FundingInit
<1>2. FundingInv /\ [FundedNext]_fundedVars => FundingInv'
  BY FundingInvStep
<1>3. FundingInv => FinishingIsFunded
  BY DEF FundingInv, TokensInv, TokensFunded, RoundsInv, ActiveFunded,
     FinishingIsFunded
<1>. QED
  BY <1>1, <1>2, <1>3, PTL DEF FundedSpec

-----------------------------------------------------------------------------
(* Writers.                                                                *)

\* Every receipt was numbered while its writer was in place, and what a
\* gateway had when a writer took over it still has.
WriterInv ==
  /\ epoch \in [Gateways -> 1..MaxEpoch] /\ writerEpoch = epoch
  /\ receiptEpoch \in [Cases -> Nat]
  /\ receiptsAt \in [Gateways -> [1..MaxEpoch -> Nat]]
  /\ \A g \in Gateways : \A e \in 1..epoch[g] :
       receiptsAt[g][e] <= localGateway[g].receipt
  /\ WritersInOrder

LEMMA WriterInit ==
  ASSUME FundedInit
  PROVE  WriterInv
<1>1. \A c \in Cases : ~Received(c)
  BY DEF FundedInit, Init, Received
<1>2. \A g \in Gateways : localGateway[g].receipt = 0
  BY DEF FundedInit, Init
<1>. QED
  BY <1>1, <1>2, FundingAssumption DEF FundedInit, WriterInv, WritersInOrder

\* Steps that replace no writer and number no receipt.
LEMMA WritersKept ==
  ASSUME AdjudicationInv, WriterInv, UNCHANGED epochVars, SameReceipts
  PROVE  WriterInv'
BY DEF WriterInv, WritersInOrder, SameReceipts, Received, epochVars

LEMMA WriterTypes ==
  ASSUME AdjudicationInv, WriterInv, NEW g \in Gateways
  PROVE  /\ MaxEpoch \in Nat /\ epoch[g] \in 1..MaxEpoch
         /\ localGateway[g].receipt \in Nat
         /\ \A k \in 1..epoch[g] :
              /\ k \in 1..MaxEpoch /\ receiptsAt[g][k] \in Nat
              /\ receiptsAt[g][k] <= localGateway[g].receipt
<1>1. /\ MaxEpoch \in Nat /\ epoch[g] \in 1..MaxEpoch
      /\ localGateway[g].receipt \in Nat
  BY FundingAssumption DEF WriterInv, AdjudicationInv, TypeOK, LocalGatewayState
<1>2. 1..epoch[g] \subseteq 1..MaxEpoch
  BY <1>1
<1>3. receiptsAt[g] \in [1..MaxEpoch -> Nat]
  BY DEF WriterInv
<1>4. \A k \in 1..epoch[g] : receiptsAt[g][k] <= localGateway[g].receipt
  BY DEF WriterInv
<1>. QED
  BY <1>1, <1>2, <1>3, <1>4

LEMMA WriterReceives ==
  ASSUME AdjudicationInv, WriterInv, NEW t \in Grants, NEW c \in Cases,
         NEW at \in Time, NEW e \in 1..MaxEpoch, FundedReceive(t, c, at, e)
  PROVE  WriterInv'
<1>. DEFINE g == GatewayOf[t]
<1>1. /\ g \in Gateways /\ RouteOf[c] = g /\ epoch[g] = e
      /\ Receive(t, c, at) /\ at \in Nat
      /\ UNCHANGED <<epoch, writerEpoch, receiptsAt>>
      /\ receiptEpoch' = IF Received(c) THEN receiptEpoch
                         ELSE [receiptEpoch EXCEPT ![c] = e]
  BY ProtocolAssumption, BoundAssumption
     DEF FundedReceive, OfWriter, Receive, Time
<1>2. Receipts(t, c, at)
  BY <1>1, ReceiveStep, Types DEF AdjudicationInv
<1>3. CASE Received(c)
  <2>1. SameReceipts /\ UNCHANGED epochVars
    BY <1>1, <1>2, <1>3 DEF Receipts, SameReceipts, epochVars
  <2>. QED
    BY <2>1, WritersKept
<1>4. CASE ~Received(c)
  <2>1. /\ localGateway[g].receipt \in Nat
        /\ localGateway'[g].receipt = localGateway[g].receipt + 1
        /\ \A h \in Gateways \ {g} : localGateway'[h] = localGateway[h]
        /\ localCase'[c].position = localGateway[g].receipt + 1
        /\ \A d \in Cases \ {c} : localCase'[d] = localCase[d]
    BY <1>1, <1>2, <1>4 DEF Receipts, SameBut, AdjudicationInv, TypeOK,
       LocalGatewayState
  <2>2. /\ receiptEpoch' \in [Cases -> Nat] /\ receiptEpoch'[c] = e
        /\ \A d \in Cases \ {c} : receiptEpoch'[d] = receiptEpoch[d]
    BY <1>1, <1>4 DEF WriterInv
  <2>3. \A h \in Gateways : \A k \in 1..epoch[h] :
          receiptsAt[h][k] <= localGateway'[h].receipt
    <3>. SUFFICES ASSUME NEW h \in Gateways, NEW k \in 1..epoch[h]
         PROVE  receiptsAt[h][k] <= localGateway'[h].receipt
      OBVIOUS
    <3>1. /\ receiptsAt[h][k] \in Nat /\ localGateway[h].receipt \in Nat
          /\ receiptsAt[h][k] <= localGateway[h].receipt
      BY WriterTypes
    <3>. QED
      BY <2>1, <3>1
  <2>4. receiptsAt[g][e] < localCase'[c].position
    <3>1. receiptsAt[g][e] \in Nat /\ receiptsAt[g][e] <= localGateway[g].receipt
      BY <1>1, WriterTypes
    <3>. QED
      BY <2>1, <3>1
  <2>5. WritersInOrder'
    <3>. SUFFICES ASSUME NEW d \in Cases, Received(d)'
         PROVE  LET h == RouteOf[d]
                    k == receiptEpoch'[d]
                IN /\ k \in 1..epoch[h]
                   /\ receiptsAt[h][k] < localCase'[d].position
                   /\ k < epoch[h] => localCase'[d].position <= receiptsAt[h][k + 1]
      BY <1>1 DEF WritersInOrder, WriterInv
    <3>1. CASE d = c
      BY <1>1, <2>2, <2>4, <3>1
    <3>2. CASE d # c
      <4>1. Received(d)
        BY <2>1, <3>2 DEF Received
      <4>. QED
        BY <2>1, <2>2, <3>2, <4>1 DEF WriterInv, WritersInOrder
    <3>. QED
      BY <3>1, <3>2
  <2>. QED
    BY <1>1, <2>2, <2>3, <2>5 DEF WriterInv
<1>. QED
  BY <1>3, <1>4

LEMMA WriterReplaced ==
  ASSUME AdjudicationInv, WriterInv, NEW g \in Gateways, ReplaceWriter(g)
  PROVE  WriterInv'
<1>. DEFINE e == epoch[g]
            r == localGateway[g].receipt
            row == [receiptsAt[g] EXCEPT ![e + 1] = r]
<1>1. /\ e \in 1..MaxEpoch /\ e < MaxEpoch /\ e + 1 \in 1..MaxEpoch /\ r \in Nat
      /\ writerEpoch = epoch
  BY FundingAssumption DEF ReplaceWriter, WriterInv, AdjudicationInv, TypeOK,
     LocalGatewayState
<1>2. /\ epoch' = [epoch EXCEPT ![g] = e + 1]
      /\ writerEpoch' = [writerEpoch EXCEPT ![g] = writerEpoch[g] + 1]
      /\ receiptsAt' = [receiptsAt EXCEPT ![g] = row]
      /\ UNCHANGED <<localCase, localGateway, receiptEpoch>>
  BY DEF ReplaceWriter, vars, localVars
<1>3. /\ row \in [1..MaxEpoch -> Nat] /\ row[e + 1] = r
      /\ \A k \in 1..e : row[k] = receiptsAt[g][k]
  <2>1. receiptsAt[g] \in [1..MaxEpoch -> Nat]
    BY DEF WriterInv
  <2>2. 1..e \subseteq 1..MaxEpoch /\ e + 1 \notin 1..e
    BY <1>1, WriterTypes
  <2>3. row \in [1..MaxEpoch -> Nat] /\ row[e + 1] = r
    BY <1>1, <2>1
  <2>4. \A k \in 1..MaxEpoch : k # e + 1 => row[k] = receiptsAt[g][k]
    BY <2>1
  <2>. QED
    BY <2>2, <2>3, <2>4
<1>. HIDE DEF row
<1>4. /\ epoch' \in [Gateways -> 1..MaxEpoch] /\ writerEpoch' = epoch'
      /\ epoch'[g] = e + 1 /\ \A h \in Gateways \ {g} : epoch'[h] = epoch[h]
  BY <1>1, <1>2 DEF WriterInv
<1>5. /\ receiptsAt' \in [Gateways -> [1..MaxEpoch -> Nat]]
      /\ receiptsAt'[g] = row
      /\ \A h \in Gateways \ {g} : receiptsAt'[h] = receiptsAt[h]
  BY <1>2, <1>3 DEF WriterInv
<1>6. ASSUME NEW h \in Gateways, NEW k \in 1..epoch'[h]
      PROVE  receiptsAt'[h][k] <= localGateway'[h].receipt
  <2>1. CASE h # g
    BY <1>2, <1>4, <1>5, <2>1 DEF WriterInv
  <2>2. CASE h = g /\ k = e + 1
    BY <1>1, <1>2, <1>3, <1>5, <2>2
  <2>3. CASE h = g /\ k # e + 1
    <3>1. k \in 1..e
      BY <1>1, <1>4, <2>3
    <3>. QED
      BY <1>2, <1>3, <1>5, <2>3, <3>1 DEF WriterInv
  <2>. QED
    BY <2>1, <2>2, <2>3
<1>7. ASSUME NEW c \in Cases, Received(c)'
      PROVE  LET h == RouteOf[c]
                 k == receiptEpoch'[c]
             IN /\ k \in 1..epoch'[h]
                /\ receiptsAt'[h][k] < localCase'[c].position
                /\ k < epoch'[h] => localCase'[c].position <= receiptsAt'[h][k + 1]
  <2>. DEFINE h == RouteOf[c]
              k == receiptEpoch[c]
              p == localCase[c].position
  <2>1. Received(c) /\ localCase' = localCase /\ receiptEpoch' = receiptEpoch
    BY <1>2, <1>7 DEF Received
  <2>2. /\ h \in Gateways /\ k \in 1..epoch[h] /\ receiptsAt[h][k] < p
        /\ k < epoch[h] => p <= receiptsAt[h][k + 1]
    BY <2>1, ProtocolAssumption DEF WriterInv, WritersInOrder
  <2>3. p <= localGateway[h].receipt
    BY <2>1 DEF AdjudicationInv, ReceiptInv
  <2>4. CASE h # g
    BY <1>4, <1>5, <2>1, <2>2, <2>4
  <2>5. CASE h = g
    <3>1. /\ k \in 1..e /\ k \in Nat /\ epoch'[h] = e + 1
          /\ receiptsAt'[h][k] = receiptsAt[h][k]
      BY <1>1, <1>3, <1>4, <1>5, <2>2, <2>5
    <3>2. CASE k = e
      BY <1>1, <1>3, <1>5, <2>1, <2>2, <2>3, <2>5, <3>1, <3>2
    <3>3. CASE k # e
      <4>1. k + 1 \in 1..e /\ k < epoch[h]
        BY <1>1, <2>5, <3>1, <3>3
      <4>2. receiptsAt'[h][k + 1] = receiptsAt[h][k + 1]
        BY <1>3, <1>5, <2>5, <4>1
      <4>. QED
        BY <1>1, <2>1, <2>2, <3>1, <4>1, <4>2
    <3>. QED
      BY <3>2, <3>3
  <2>. QED
    BY <2>4, <2>5
<1>. QED
  BY <1>2, <1>4, <1>5, <1>6, <1>7 DEF WriterInv, WritersInOrder

LEMMA WriterInvStep ==
  ASSUME AdjudicationInv, WriterInv, [FundedNext]_fundedVars
  PROVE  WriterInv'
<1>1. CASE \E t \in Grants : FundedTokenStep(t)
  <2>1. PICK t \in Grants : FundedTokenStep(t)
    BY <1>1
  <2>2. CASE \E c \in Cases, at \in Time, e \in 1..MaxEpoch :
               FundedReceive(t, c, at, e)
    BY <2>2, WriterReceives
  <2>3. CASE UNCHANGED <<localCase, localGateway, epochVars>>
    BY <2>3, WritersKept DEF SameReceipts
  <2>4. \/ \E c \in Cases, at \in Time, e \in 1..MaxEpoch :
             FundedReceive(t, c, at, e)
        \/ UNCHANGED <<localCase, localGateway, epochVars>>
    BY <2>1 DEF FundedTokenStep, FundedLocalGrant, FundedRegisterGrant,
       FundedIssue, FundedRetireGrant, FundedActivate, FundedImport,
       FundedReturnUnused, FundedReconcile, FundedAdvance, FundedAdvanceReceipt,
       FundedLocalTerminal, LocalGrant, RegisterGrant, Issue, RetireGrant,
       Activate, Import, ReturnUnused, Reconcile, Advance, AdvanceReceipt,
       LocalTerminal, localVars
  <2>. QED
    BY <2>2, <2>3, <2>4
<1>2. CASE \/ \E g \in Gateways, n \in Rounds : FundedGatewayStep(g, n)
           \/ \E n \in Rounds : FundedRoundStep(n)
  <2>1. \/ \E g \in Gateways, n \in Rounds : GatewayStep(g, n)
        \/ \E n \in Rounds : RoundStep(n)
    BY <1>2 DEF FundedGatewayStep, GatewayStep, FundedPrepareRound,
       FundedSealBegin, FundedSealed, FundedDrain, FundedInstall,
       FundedAckInstall, FundedRoundStep, RoundStep, FundedBegin, FundedReady,
       FundedClose, FundedAbort
  <2>2. RoundFrame
    BY <2>1, RoundEffects, Types DEF AdjudicationInv
  <2>3. UNCHANGED epochVars
    BY <1>2 DEF FundedGatewayStep, FundedPrepareRound, FundedSealBegin,
       FundedSealed, FundedDrain, FundedInstall, FundedAckInstall,
       FundedRoundStep, FundedBegin, FundedReady, FundedClose, FundedAbort
  <2>. QED
    BY <2>2, <2>3, WritersKept DEF RoundFrame, SameReceipts
<1>3. CASE Optional
  <2>1. CASE \E g \in Gateways : ReplaceWriter(g)
    BY <2>1, WriterReplaced
  <2>2. CASE UNCHANGED <<localVars, epochVars>>
    BY <2>2, WritersKept DEF localVars, SameReceipts
  <2>. QED
    BY <1>3, <2>1, <2>2 DEF Optional, FundedDecide, FundedCorrect, Supplement,
       ExtendResources, vars
<1>4. CASE UNCHANGED fundedVars
  BY <1>4, WritersKept DEF fundedVars, vars, localVars, SameReceipts
<1>. QED
  BY <1>1, <1>2, <1>3, <1>4 DEF FundedNext

\* Nothing a replaced writer prepared is received: the receipts of a gateway
\* are those of its writers in their order (the epochs RECEIVE and
\* REPLACE_WRITER compare with the head and the fence).
THEOREM WritersTheorem == FundedSpec => []WritersInOrder
<1>1. FundedInit => WriterInv
  BY WriterInit
<1>2. AdjudicationInv /\ WriterInv /\ [FundedNext]_fundedVars => WriterInv'
  BY WriterInvStep
<1>3. WriterInv => WritersInOrder
  BY DEF WriterInv
<1>. QED
  BY <1>1, <1>2, <1>3, FundedInvariance, PTL DEF FundedSpec


-----------------------------------------------------------------------------
(* The accounts.                                                           *)

Priced(b) == [k \in Kinds |-> Cost[k] * b[k]]

LEMMA FewKinds == IsFiniteSet(Kinds)
<1>1. \A a, b, c, d, e : IsFiniteSet({a, b, c, d, e})
  <2>. SUFFICES ASSUME NEW a, NEW b, NEW c, NEW d, NEW e
       PROVE  IsFiniteSet({a, b, c, d, e})
    OBVIOUS
  <2>1. IsFiniteSet({a})
    BY FS_Singleton
  <2>2. IsFiniteSet({a} \union {b})
    BY <2>1, FS_AddElement
  <2>3. IsFiniteSet(({a} \union {b}) \union {c})
    BY <2>2, FS_AddElement
  <2>4. IsFiniteSet((({a} \union {b}) \union {c}) \union {d})
    BY <2>3, FS_AddElement
  <2>5. IsFiniteSet(((({a} \union {b}) \union {c}) \union {d}) \union {e})
    BY <2>4, FS_AddElement
  <2>6. ((({a} \union {b}) \union {c}) \union {d}) \union {e} = {a, b, c, d, e}
    OBVIOUS
  <2>. QED
    BY <2>5, <2>6, Zenon
<1>2. /\ IsFiniteSet(LocalGrantSlots) /\ IsFiniteSet(CentralTokenSlots)
  BY <1>1 DEF LocalGrantSlots, CentralTokenSlots
<1>3. /\ CentralGrantSlots = {"REGISTER_GRANT", "RETIRE_GRANT", "RETIRE_GRANT",
                              "RETIRE_GRANT", "RETIRE_GRANT"}
      /\ RoundSlots = {"BEGIN", "READY", "CLOSE", "CLOSE", "CLOSE"}
      /\ GatewaySlots = {"SEAL_BEGIN", "SEALED", "INSTALL", "INSTALL", "INSTALL"}
      /\ FourSlots = {"DRAIN", "ACK_INSTALL", "ACK_INSTALL", "ACK_INSTALL",
                      "ACK_INSTALL"}
  BY DEF CentralGrantSlots, RoundSlots, GatewaySlots, FourSlots
<1>4. /\ IsFiniteSet(CentralGrantSlots) /\ IsFiniteSet(RoundSlots)
      /\ IsFiniteSet(GatewaySlots) /\ IsFiniteSet(FourSlots)
  BY <1>1, <1>3, Zenon
<1>5. IsFiniteSet({"ABORT"})
  BY FS_Singleton
<1>. QED
  BY <1>2, <1>4, <1>5, FS_Union DEF Kinds

LEMMA Prices ==
  ASSUME NEW b \in [Kinds -> Nat]
  PROVE  /\ \A k \in Kinds : /\ Priced(b)[k] = Cost[k] * b[k]
                             /\ Priced(b)[k] \in Nat /\ Cost[k] \in Nat
         /\ Worth(b) = SumOver(Priced(b), Kinds)
         /\ Worth(b) \in Nat
<1>1. \A k \in Kinds : Cost[k] \in Nat
  BY FundingAssumption
<1>2. ASSUME NEW k \in Kinds
      PROVE  Priced(b)[k] = Cost[k] * b[k] /\ Priced(b)[k] \in Nat
  <2>1. Cost[k] \in Nat /\ b[k] \in Nat
    BY <1>1
  <2>2. \A x, y \in Nat : x * y \in Nat
    OBVIOUS
  <2>. QED
    BY <2>1, <2>2 DEF Priced
<1>3. Worth(b) = SumOver(Priced(b), Kinds)
  BY DEF Worth, Priced
<1>4. SumOver(Priced(b), Kinds) \in Nat
  BY <1>2, FewKinds, SumNat
<1>. QED
  BY <1>1, <1>2, <1>3, <1>4

LEMMA EmptyWorth ==
  /\ Empty \in [Kinds -> Nat] /\ \A k \in Kinds : Empty[k] = 0
  /\ Worth(Empty) = 0
<1>1. Empty \in [Kinds -> Nat] /\ \A k \in Kinds : Empty[k] = 0
  BY DEF Empty, Bundle
<1>2. \A k \in Kinds : Priced(Empty)[k] = 0
  <2>1. \A x \in Nat : x * 0 = 0
    OBVIOUS
  <2>. QED
    BY <1>1, <2>1, Prices
<1>3. SumOver(Priced(Empty), Kinds) = 0
  BY <1>2, FewKinds, SumZero
<1>. QED
  BY <1>1, <1>3, Prices

\* A bundle without one of its slots is worth what the slot costs less.
LEMMA SlotWorth ==
  ASSUME NEW b \in [Kinds -> Nat], NEW d \in [Kinds -> Nat], NEW k \in Kinds,
         b[k] >= 1, d[k] = b[k] - 1, \A j \in Kinds \ {k} : d[j] = b[j]
  PROVE  Worth(d) = Worth(b) - Cost[k] /\ Cost[k] <= Worth(b)
<1>. DEFINE x == Priced(b)
            y == Priced(d)
<1>1. \A j \in Kinds : /\ x[j] = Cost[j] * b[j] /\ y[j] = Cost[j] * d[j]
                       /\ x[j] \in Int /\ y[j] \in Int /\ Cost[j] \in Nat
  BY Prices
<1>2. /\ Worth(b) = SumOver(x, Kinds) /\ Worth(d) = SumOver(y, Kinds)
      /\ Worth(b) \in Nat /\ Worth(d) \in Nat
  BY Prices
<1>. HIDE DEF x, y
<1>3. Changes(x, y, Kinds, k)
  BY <1>1 DEF Changes
<1>4. SumOver(y, Kinds) = SumOver(x, Kinds) + y[k] - x[k]
  BY <1>3, FewKinds, SumExcept
<1>5. y[k] = x[k] - Cost[k]
  <2>1. \A u, v \in Nat : v >= 1 => u * (v - 1) = u * v - u
    OBVIOUS
  <2>. QED
    BY <1>1, <2>1
<1>6. x[k] \in Int /\ Cost[k] \in Nat
  BY <1>1
<1>. QED
  BY <1>2, <1>4, <1>5, <1>6

Worths == [o \in Owners |-> Worth(slots[o])]

LEMMA WorthTypes ==
  ASSUME SlotsTyped
  PROVE  \A o \in Owners : /\ Worths[o] = Worth(slots[o])
                           /\ Worths[o] \in Nat /\ slots[o] \in [Kinds -> Nat]
<1>1. ASSUME NEW o \in Owners
      PROVE  Worths[o] = Worth(slots[o]) /\ Worths[o] \in Nat
             /\ slots[o] \in [Kinds -> Nat]
  <2>1. slots[o] \in [Kinds -> Nat]
    BY DEF SlotsTyped
  <2>2. Worth(slots[o]) \in Nat
    BY <2>1, Prices
  <2>. QED
    BY <2>1, <2>2 DEF Worths
<1>. QED
  BY <1>1

LEMMA FewImages ==
  ASSUME NEW S, IsFiniteSet(S), NEW f
  PROVE  IsFiniteSet({f[x] : x \in S})
<1>. DEFINE T == {f[x] : x \in S}
            m == [x \in S |-> f[x]]
<1>1. m \in Surjection(S, T)
  BY DEF Surjection
<1>. HIDE DEF m, T
<1>2. IsFiniteSet(T)
  BY <1>1, FS_Surjection
<1>. QED
  BY <1>2 DEF T

LEMMA FewOwners ==
  /\ \A h \in Hosts : IsFiniteSet(OwnersAt(h)) /\ OwnersAt(h) \subseteq Owners
  /\ \A o \in Owners : o[1] \in Hosts
<1>1. IsFiniteSet(Grants) /\ IsFiniteSet(Hosts \X Families)
      /\ IsFiniteSet(Hosts \X Rounds)
  <2>1. IsFiniteSet(Hosts)
    BY FS_AddElement, FundingAssumption DEF Hosts
  <2>2. IsFiniteSet(Rounds)
    BY FS_Interval, ProtocolAssumption DEF Rounds
  <2>. QED
    BY <2>1, <2>2, FundingAssumption, EnrollmentAssumption, FS_Product
<1>. DEFINE locals == {LocalGrantOwner(t) : t \in Grants}
            centrals == {CentralGrantOwner(t) : t \in Grants}
            tokens == {TokenOwner(t) : t \in Grants}
            rights == {Right(h, f) : h \in Hosts, f \in Families}
            optionals == {OptionalRound(h, n) : h \in Hosts, n \in Rounds}
            l == [t \in Grants |-> LocalGrantOwner(t)]
            c == [t \in Grants |-> CentralGrantOwner(t)]
            k == [t \in Grants |-> TokenOwner(t)]
            r == [p \in Hosts \X Families |-> Right(p[1], p[2])]
            o == [p \in Hosts \X Rounds |-> OptionalRound(p[1], p[2])]
<1>2. /\ locals = {l[t] : t \in Grants} /\ centrals = {c[t] : t \in Grants}
      /\ tokens = {k[t] : t \in Grants}
  OBVIOUS
<1>3. rights = {r[p] : p \in Hosts \X Families}
  <2>1. \A h \in Hosts, x \in Families :
          <<h, x>> \in Hosts \X Families /\ r[<<h, x>>] = Right(h, x)
    OBVIOUS
  <2>2. \A p \in Hosts \X Families :
          p[1] \in Hosts /\ p[2] \in Families /\ r[p] = Right(p[1], p[2])
    OBVIOUS
  <2>. HIDE DEF r
  <2>3. ASSUME NEW x \in rights
        PROVE  x \in {r[p] : p \in Hosts \X Families}
    <3>1. PICK h \in Hosts, y \in Families : x = Right(h, y)
      OBVIOUS
    <3>. DEFINE p == <<h, y>>
    <3>2. p \in Hosts \X Families /\ x = r[p]
      BY <2>1, <3>1
    <3>. HIDE DEF p
    <3>. QED
      BY <3>2
  <2>4. ASSUME NEW p \in Hosts \X Families
        PROVE  r[p] \in rights
    BY <2>2
  <2>. HIDE DEF rights
  <2>. QED
    BY <2>3, <2>4
<1>4. optionals = {o[p] : p \in Hosts \X Rounds}
  <2>1. \A h \in Hosts, x \in Rounds :
          <<h, x>> \in Hosts \X Rounds /\ o[<<h, x>>] = OptionalRound(h, x)
    OBVIOUS
  <2>2. \A p \in Hosts \X Rounds :
          p[1] \in Hosts /\ p[2] \in Rounds /\ o[p] = OptionalRound(p[1], p[2])
    OBVIOUS
  <2>. HIDE DEF o
  <2>3. ASSUME NEW x \in optionals
        PROVE  x \in {o[p] : p \in Hosts \X Rounds}
    <3>1. PICK h \in Hosts, y \in Rounds : x = OptionalRound(h, y)
      OBVIOUS
    <3>. DEFINE p == <<h, y>>
    <3>2. p \in Hosts \X Rounds /\ x = o[p]
      BY <2>1, <3>1
    <3>. HIDE DEF p
    <3>. QED
      BY <3>2
  <2>4. ASSUME NEW p \in Hosts \X Rounds
        PROVE  o[p] \in optionals
    BY <2>2
  <2>. HIDE DEF optionals
  <2>. QED
    BY <2>3, <2>4
<1>5. Owners = (((locals \union centrals) \union tokens) \union rights)
                 \union optionals
  BY DEF Owners
<1>. HIDE DEF locals, centrals, tokens, rights, optionals, l, c, k, r, o
<1>6. /\ IsFiniteSet({l[t] : t \in Grants}) /\ IsFiniteSet({c[t] : t \in Grants})
      /\ IsFiniteSet({k[t] : t \in Grants})
      /\ IsFiniteSet({r[p] : p \in Hosts \X Families})
      /\ IsFiniteSet({o[p] : p \in Hosts \X Rounds})
  BY <1>1, FewImages
<1>7. /\ IsFiniteSet(locals) /\ IsFiniteSet(centrals) /\ IsFiniteSet(tokens)
      /\ IsFiniteSet(rights) /\ IsFiniteSet(optionals)
  BY <1>2, <1>3, <1>4, <1>6, Zenon
<1>8. IsFiniteSet(Owners)
  BY <1>5, <1>7, FS_Union
<1>9. ASSUME NEW h \in Hosts
      PROVE  IsFiniteSet(OwnersAt(h)) /\ OwnersAt(h) \subseteq Owners
  <2>1. OwnersAt(h) \subseteq Owners
    BY DEF OwnersAt
  <2>. QED
    BY <1>8, <2>1, FS_Subset
<1>10. \A x \in Owners : x[1] \in Hosts
  BY FundingAssumption, ProtocolAssumption
     DEF Owners, LocalGrantOwner, CentralGrantOwner, TokenOwner, Right,
         OptionalRound, Hosts
<1>. QED
  BY <1>9, <1>10

\* What one owner gains its host gains.
LEMMA Gained ==
  ASSUME NEW f, NEW g, NEW o \in Owners, Changes(f, g, Owners, o), NEW h \in Hosts
  PROVE  /\ SumOver(f, OwnersAt(h)) \in Int
         /\ SumOver(g, OwnersAt(h))
              = IF o[1] = h THEN SumOver(f, OwnersAt(h)) + g[o] - f[o]
                ELSE SumOver(f, OwnersAt(h))
<1>. DEFINE S == OwnersAt(h)
<1>1. IsFiniteSet(S) /\ S \subseteq Owners
  BY FewOwners
<1>2. /\ \A p \in Owners : f[p] \in Int /\ g[p] \in Int
      /\ \A p \in Owners : p # o => g[p] = f[p]
  BY DEF Changes
<1>3. CASE o[1] = h
  <2>1. o \in S
    BY <1>3 DEF OwnersAt
  <2>. HIDE DEF S
  <2>2. Changes(f, g, S, o)
    BY <1>1, <1>2 DEF Changes
  <2>3. SumOver(g, S) = SumOver(f, S) + g[o] - f[o]
    BY <1>1, <2>1, <2>2, SumExcept
  <2>. QED
    BY <1>3, <2>3, <1>1, <1>2, SumType DEF S
<1>4. CASE o[1] # h
  <2>1. \A p \in S : g[p] = f[p]
    BY <1>2, <1>4 DEF OwnersAt
  <2>. HIDE DEF S
  <2>2. SumOver(g, S) = SumOver(f, S)
    BY <1>1, <2>1, SumCong
  <2>. QED
    BY <1>4, <2>2, <1>1, <1>2, SumType DEF S
<1>. QED
  BY <1>3, <1>4

LEMMA WorthChanges ==
  ASSUME SlotsTyped, SlotsTyped', NEW o \in Owners, Only(o)
  PROVE  /\ Changes(Worths, Worths', Owners, o)
         /\ Worths[o] = Worth(slots[o]) /\ Worths'[o] = Worth(slots'[o])
<1>1. \A p \in Owners : slots'[p] \in [Kinds -> Nat]
  BY DEF SlotsTyped
<1>2. \A p \in Owners : Worths'[p] = Worth(slots'[p])
  BY DEF Worths
<1>3. \A p \in Owners : Worth(slots'[p]) \in Nat
  BY <1>1, Prices
<1>4. \A p \in Owners : p # o => slots'[p] = slots[p]
  BY DEF Only
<1>5. \A p \in Owners : /\ Worths[p] \in Int /\ Worths'[p] \in Int
                        /\ p # o => Worths'[p] = Worths[p]
  BY <1>2, <1>3, <1>4, WorthTypes
<1>. QED
  BY <1>2, <1>5, WorthTypes DEF Changes

AccountsTyped == account \in [Hosts -> Account]
AccountInv ==
  /\ AccountsTyped
  /\ \A h \in Hosts : account[h].held = SumOver(Worths, OwnersAt(h))
  /\ \A h \in Hosts : account[h].used + account[h].held <= account[h].provisioned

\* An account after two of its fields are set.
Moved(a, q, w) == [[a EXCEPT !.used = q] EXCEPT !.held = w]
Extended(a, p, q) == [[a EXCEPT !.provisioned = p] EXCEPT !.used = q]

Lands(u, p, q, w) ==
  /\ u \in Account
  /\ u.provisioned = p /\ u.used = q /\ u.held = w

LEMMA MovedIs ==
  ASSUME NEW a \in Account, NEW q \in Nat, NEW w \in Nat
  PROVE  Lands(Moved(a, q, w), a.provisioned, q, w)
BY DEF Account, Moved, Lands

LEMMA ExtendedIs ==
  ASSUME NEW a \in Account, NEW p \in Nat, NEW q \in Nat
  PROVE  /\ Extended(a, p, q) \in Account /\ Extended(a, p, q).held = a.held
         /\ Extended(a, p, q).used = q /\ Extended(a, p, q).provisioned = p
BY DEF Account, Extended

LEMMA Moving ==
  ASSUME AccountsTyped, NEW h \in Hosts,
         NEW r \in Nat, NEW s \in Nat, NEW x \in Nat, Move(h, r, s, x)
  PROVE  /\ AccountsTyped'
         /\ account'[h].held = account[h].held + r - s - x
         /\ account'[h].used + account'[h].held <= account'[h].provisioned
         /\ \A j \in Hosts \ {h} : account'[j] = account[j]
<1>. DEFINE a == account[h]
            q == a.used + s
            w == a.held + r - s - x
            u == Moved(a, q, w)
<1>1. /\ a \in Account /\ a.used + a.held + r <= a.provisioned
      /\ s + x <= a.held + r
      /\ account' = [account EXCEPT ![h] = u]
  BY DEF Move, Moved, AccountsTyped
<1>2. a.provisioned \in Nat /\ a.used \in Nat /\ a.held \in Nat
  BY <1>1 DEF Account
<1>3. q \in Nat /\ w \in Nat /\ q + w <= a.provisioned
  <2>1. \A i, j, k \in Nat : /\ i + s \in Nat
                             /\ s + x <= j + r => j + r - s - x \in Nat
                             /\ i + j + r <= k => (i + s) + (j + r - s - x) <= k
    OBVIOUS
  <2>. HIDE DEF a
  <2>. QED
    BY <1>1, <1>2, <2>1
<1>4. a \in Account /\ q \in Nat /\ w \in Nat
  BY <1>1, <1>3
<1>. HIDE DEF a, q, w
<1>5. Lands(u, a.provisioned, q, w)
  BY <1>4, MovedIs
<1>. HIDE DEF u
<1>6. account'[h] = u /\ \A j \in Hosts \ {h} : account'[j] = account[j]
  BY <1>1 DEF AccountsTyped
<1>7. AccountsTyped'
  BY <1>1, <1>5 DEF AccountsTyped, Lands
<1>. QED
  BY <1>3, <1>5, <1>6, <1>7 DEF w, a, Lands

\* An account balances when it moves by what its owner gains.
LEMMA Balanced ==
  ASSUME AccountInv, SlotsTyped, SlotsTyped', NEW o \in Owners, Only(o),
         NEW r \in Nat, NEW s \in Nat, NEW x \in Nat, Move(o[1], r, s, x),
         Worth(slots'[o]) = Worth(slots[o]) + r - s - x
  PROVE  AccountInv'
<1>1. o[1] \in Hosts /\ AccountsTyped
  BY FewOwners DEF AccountInv
<1>2. /\ AccountsTyped'
      /\ account'[o[1]].held = account[o[1]].held + r - s - x
      /\ account'[o[1]].used + account'[o[1]].held <= account'[o[1]].provisioned
      /\ \A j \in Hosts \ {o[1]} : account'[j] = account[j]
  BY <1>1, Moving
<1>3. Worth(slots[o]) \in Int
  BY WorthTypes
<1>4. ASSUME NEW h \in Hosts
      PROVE  account'[h].held = SumOver(Worths', OwnersAt(h))
  <2>1. /\ SumOver(Worths, OwnersAt(h)) \in Int
        /\ SumOver(Worths', OwnersAt(h))
             = IF o[1] = h
               THEN SumOver(Worths, OwnersAt(h)) + Worths'[o] - Worths[o]
               ELSE SumOver(Worths, OwnersAt(h))
    BY WorthChanges, Gained
  <2>2. account[h].held = SumOver(Worths, OwnersAt(h))
    BY DEF AccountInv
  <2>. QED
    BY <1>2, <1>3, <2>1, <2>2, WorthChanges
<1>5. \A h \in Hosts : OwnersAt(h)' = OwnersAt(h)
  BY DEF OwnersAt
<1>. QED
  BY <1>2, <1>4, <1>5 DEF AccountInv

LEMMA SpendBalances ==
  ASSUME AccountInv, SlotsTyped, NEW o \in Owners, NEW k \in Kinds, Spend(o, k)
  PROVE  AccountInv'
<1>1. /\ slots[o] \in [Kinds -> Nat] /\ slots[o][k] >= 1
      /\ Move(o[1], 0, Cost[k], 0) /\ Cost[k] \in Nat
  BY FundingAssumption DEF Spend, SlotsTyped
<1>2. /\ SlotsTyped' /\ Only(o)
      /\ slots'[o][k] = slots[o][k] - 1
      /\ \A j \in Kinds \ {k} : slots'[o][j] = slots[o][j]
  BY Spending
<1>3. slots'[o] \in [Kinds -> Nat]
  BY <1>2 DEF SlotsTyped
<1>4. Worth(slots'[o]) = Worth(slots[o]) - Cost[k]
  BY <1>1, <1>2, <1>3, SlotWorth
<1>5. Worth(slots'[o]) = Worth(slots[o]) + 0 - Cost[k] - 0
  BY <1>1, <1>4, Prices
<1>. QED
  BY <1>1, <1>2, <1>5, Balanced

LEMMA SettleBalances ==
  ASSUME AccountInv, SlotsTyped, NEW o \in Owners, NEW k \in Kinds, Settle(o, k)
  PROVE  AccountInv'
<1>1. /\ slots[o] \in [Kinds -> Nat] /\ slots[o][k] >= 1
      /\ slots' = [slots EXCEPT ![o] = Empty]
      /\ Move(o[1], 0, Cost[k], Worth(slots[o]) - Cost[k])
      /\ Cost[k] \in Nat
  BY FundingAssumption DEF Settle, SlotsTyped
<1>2. SlotsTyped' /\ Only(o) /\ slots'[o] = Empty
  BY <1>1, EmptyWorth, Slotted
<1>. DEFINE d == [slots[o] EXCEPT ![k] = slots[o][k] - 1]
<1>3. /\ d \in [Kinds -> Nat] /\ d[k] = slots[o][k] - 1
      /\ \A j \in Kinds \ {k} : d[j] = slots[o][j]
  BY <1>1
<1>. HIDE DEF d
<1>4. Cost[k] <= Worth(slots[o]) /\ Worth(slots[o]) \in Nat
  BY <1>1, <1>3, SlotWorth, Prices
<1>5. /\ Worth(slots[o]) - Cost[k] \in Nat
      /\ Worth(slots'[o]) = Worth(slots[o]) + 0 - Cost[k] - (Worth(slots[o]) - Cost[k])
  BY <1>1, <1>2, <1>4, EmptyWorth
<1>. QED
  BY <1>1, <1>2, <1>5, Balanced

LEMMA ReserveBalances ==
  ASSUME AccountInv, SlotsTyped, NEW o \in Owners, slots[o] = Empty,
         NEW k \in Kinds, NEW b \in [Kinds -> Nat], b[k] = 1, Reserve(o, b, k)
  PROVE  AccountInv'
<1>1. Move(o[1], Worth(b), Cost[k], 0) /\ Cost[k] \in Nat /\ Worth(b) \in Nat
  BY FundingAssumption, Prices DEF Reserve
<1>2. /\ SlotsTyped' /\ Only(o) /\ slots'[o][k] = 0
      /\ \A j \in Kinds \ {k} : slots'[o][j] = b[j]
  BY Reserving
<1>3. slots'[o] \in [Kinds -> Nat]
  BY <1>2 DEF SlotsTyped
<1>4. Worth(slots'[o]) = Worth(b) - Cost[k]
  BY <1>2, <1>3, SlotWorth
<1>5. Worth(slots'[o]) = Worth(slots[o]) + Worth(b) - Cost[k] - 0
  BY <1>1, <1>4, EmptyWorth
<1>. QED
  BY <1>1, <1>2, <1>5, Balanced

\* Nothing is reserved that is not spent.
LEMMA PayBalances ==
  ASSUME AccountInv, SlotsTyped, NEW h \in Hosts, NEW k \in Kinds \union Commands,
         Pay(h, k)
  PROVE  AccountInv'
<1>1. Move(h, Cost[k], Cost[k], 0) /\ slots' = slots /\ Cost[k] \in Nat
  BY FundingAssumption DEF Pay
<1>2. /\ AccountsTyped'
      /\ account'[h].held = account[h].held + Cost[k] - Cost[k] - 0
      /\ account'[h].used + account'[h].held <= account'[h].provisioned
      /\ \A j \in Hosts \ {h} : account'[j] = account[j]
  BY <1>1, Moving DEF AccountInv
<1>3. account[h].held \in Nat
  BY DEF AccountInv, AccountsTyped, Account
<1>4. \A j \in Hosts : account'[j].held = account[j].held
  BY <1>1, <1>2, <1>3
<1>5. Worths' = Worths /\ \A j \in Hosts : OwnersAt(j)' = OwnersAt(j)
  BY <1>1 DEF Worths, OwnersAt
<1>. QED
  BY <1>2, <1>4, <1>5 DEF AccountInv

LEMMA ExtendBalances ==
  ASSUME AccountInv, SlotsTyped, NEW h \in Hosts, NEW amount \in Extensions,
         ExtendResources(h, amount)
  PROVE  AccountInv'
<1>. DEFINE a == account[h]
            paid == Cost["EXTEND_RESOURCES"]
            p == a.provisioned + amount
            q == a.used + paid
            u == Extended(a, p, q)
<1>1. /\ a \in Account /\ paid \in Nat /\ amount \in Nat
      /\ a.used + a.held + paid <= a.provisioned
      /\ account' = [account EXCEPT ![h] = u] /\ slots' = slots
  BY FundingAssumption DEF ExtendResources, AccountInv, AccountsTyped, Commands, Extended
<1>2. a.provisioned \in Nat /\ a.used \in Nat /\ a.held \in Nat
  BY <1>1 DEF Account
<1>3. p \in Nat /\ q \in Nat /\ q + a.held <= p
  <2>. HIDE DEF a, paid
  <2>. QED
    BY <1>1, <1>2
<1>4. a \in Account /\ p \in Nat /\ q \in Nat
  BY <1>1, <1>3
<1>. HIDE DEF a, p, q
<1>5. /\ u \in Account /\ u.held = a.held /\ u.used = q /\ u.provisioned = p
  BY <1>4, ExtendedIs
<1>. HIDE DEF u
<1>6. account'[h] = u /\ \A j \in Hosts \ {h} : account'[j] = account[j]
  BY <1>1 DEF AccountInv, AccountsTyped
<1>7. AccountsTyped'
  BY <1>1, <1>5 DEF AccountInv, AccountsTyped
<1>8. Worths' = Worths /\ \A j \in Hosts : OwnersAt(j)' = OwnersAt(j)
  BY <1>1 DEF Worths, OwnersAt
<1>9. /\ \A j \in Hosts : account'[j].held = account[j].held
      /\ \A j \in Hosts : account'[j].used + account'[j].held
                            <= account'[j].provisioned
  BY <1>3, <1>5, <1>6 DEF AccountInv, a
<1>. QED
  BY <1>7, <1>8, <1>9 DEF AccountInv


\* An owner that exists: before, it has no slot.
InUse(o) ==
  /\ \A t \in Grants :
       /\ o = LocalGrantOwner(t) => localGrant[t].status # "none"
       /\ o = CentralGrantOwner(t) => grant[t] # "none"
       /\ o = TokenOwner(t) => token[t].status # "none"
  /\ \A n \in Rounds :
       /\ o = OptionalRound(Centre, n) => round[n].status # "none"
       /\ \A g \in Gateways :
            o = OptionalRound(g, n) => localRound[g][n].prepared # Never

UsedInv == \A o \in Owners : InUse(o) \/ slots[o] = Empty

LEMMA GrantsKept ==
  ASSUME StepEffect, NEW t \in Grants
  PROVE  /\ localGrant[t].status # "none" => localGrant'[t].status # "none"
         /\ grant[t] # "none" => grant'[t] # "none"
         /\ token[t].status # "none" => token'[t].status # "none"
<1>1. CASE \E u \in Grants : TokenEffect(u)
  <2>1. PICK u \in Grants : TokenEffect(u)
    BY <1>1
  <2>2. CASE LocalGrants(u) \/ Registers(u) \/ Issues(u) \/ Retires(u)
    BY <2>2 DEF LocalGrants, Registers, Issues, Retires, SameBut, localVars,
       centralVars
  <2>3. CASE Activates(u) \/ Returns(u) \/ Terminates(u)
    BY <2>3 DEF Activates, Returns, Terminates, SameBut, centralVars
  <2>4. CASE \E c \in Cases, at \in Nat : Receipts(u, c, at)
    BY <2>4 DEF Receipts, centralVars
  <2>5. CASE Imports(u) \/ Reconciles(u)
    BY <2>5 DEF Imports, Reconciles, SameBut, localVars
  <2>6. CASE Advances(u) \/ AdvancesReceipt(u)
    BY <2>6 DEF Advances, AdvancesReceipt, KeepsToken, SameBut, localVars
  <2>. QED
    BY <2>1, <2>2, <2>3, <2>4, <2>5, <2>6 DEF TokenEffect
<1>2. CASE RoundFrame
  BY <1>2 DEF RoundFrame
<1>3. CASE UNCHANGED <<centralVars, localVars>>
  BY <1>3 DEF centralVars, localVars
<1>. QED
  BY <1>1, <1>2, <1>3 DEF StepEffect, Judges, vars

LEMMA BegunKept ==
  ASSUME StepEffect, NEW n \in Rounds, round[n].status # "none"
  PROVE  round'[n].status # "none"
<1>1. CASE UNCHANGED round
  BY <1>1
<1>2. CASE \E m \in Rounds : Begins(m)
  BY <1>2 DEF Begins, SameBut
<1>3. CASE \E g \in Gateways, m \in Rounds : Drains(g, m)
  BY <1>3 DEF Drains, SameBut
<1>4. CASE \E m \in Rounds : Readies(m)
  BY <1>4 DEF Readies, KeepsCourse, SameBut
<1>5. CASE \E m \in Rounds, at \in Nat : Commits(m, at)
  BY <1>5 DEF Commits, KeepsCourse, SameBut
<1>6. CASE \E m \in Rounds : Aborts(m)
  BY <1>6 DEF Aborts, KeepsCourse, SameBut
<1>7. CASE \E g \in Gateways, m \in Rounds : Acknowledges(g, m)
  BY <1>7 DEF Acknowledges, SameBut
<1>. QED
  BY <1>1, <1>2, <1>3, <1>4, <1>5, <1>6, <1>7, StatusEffects

LEMMA PreparedKept ==
  ASSUME AdjudicationInv, [Next]_vars, NEW g \in Gateways, NEW n \in Rounds,
         localRound[g][n].prepared # Never
  PROVE  localRound'[g][n].prepared # Never
<1>1. CASE \E t \in Grants : TokenStep(t)
  BY <1>1, TokenEffects, Types DEF AdjudicationInv, TokenFrame
<1>2. CASE \E h \in Gateways, m \in Rounds : GatewayStep(h, m)
  <2>1. PICK h \in Gateways, m \in Rounds : GatewayStep(h, m)
    BY <1>2
  <2>2. CASE PrepareRound(h, m)
    <3>1. localGateway[h].installed # Never
      BY RoundTypes, Types DEF AdjudicationInv, Never
    <3>. QED
      BY <2>2, <3>1, PreparedChanges DEF Elsewhere
  <2>3. CASE SealBegin(h, m)
    BY <2>3, BegunChanges DEF Elsewhere
  <2>4. CASE Sealed(h, m)
    BY <2>4, SealChanges DEF Elsewhere
  <2>5. CASE Install(h, m)
    BY <2>5, OutcomeChanges DEF Elsewhere
  <2>6. CASE Drain(h, m) \/ AckInstall(h, m)
    BY <2>6 DEF Drain, AckInstall, localVars
  <2>. QED
    BY <2>1, <2>2, <2>3, <2>4, <2>5, <2>6 DEF GatewayStep
<1>3. CASE \E m \in Rounds : RoundStep(m)
  BY <1>3 DEF RoundStep, Begin, Ready, Close, Abort, localVars
<1>4. CASE Rule \/ UNCHANGED vars
  BY <1>4 DEF Rule, vars, localVars
<1>. QED
  BY <1>1, <1>2, <1>3, <1>4 DEF Next

\* An owner once used stays so, and only owners in use have slots changed.
LEMMA UsedKept ==
  ASSUME AdjudicationInv, [Next]_vars, UsedInv,
         \A o \in Owners : \/ slots'[o] = slots[o] \/ slots[o] # Empty
                           \/ slots'[o] = Empty \/ InUse(o)'
  PROVE  UsedInv'
<1>1. StepEffect
  BY ProtocolEffects, Types DEF AdjudicationInv
<1>2. ASSUME NEW o \in Owners, InUse(o)
      PROVE  InUse(o)'
  <2>1. ASSUME NEW t \in Grants
        PROVE  /\ o = LocalGrantOwner(t) => localGrant'[t].status # "none"
               /\ o = CentralGrantOwner(t) => grant'[t] # "none"
               /\ o = TokenOwner(t) => token'[t].status # "none"
    BY <1>1, <1>2, GrantsKept DEF InUse
  <2>2. ASSUME NEW n \in Rounds
        PROVE  /\ o = OptionalRound(Centre, n) => round'[n].status # "none"
               /\ \A g \in Gateways : o = OptionalRound(g, n) =>
                    localRound'[g][n].prepared # Never
    BY <1>1, <1>2, BegunKept, PreparedKept DEF InUse
  <2>. QED
    BY <2>1, <2>2 DEF InUse
<1>. QED
  BY <1>2 DEF UsedInv

\* A grant's or a round's allocation is made where there is none.
LEMMA GrantUse ==
  ASSUME UsedInv, NEW t \in Grants
  PROVE  /\ localGrant[t].status = "none" => slots[LocalGrantOwner(t)] = Empty
         /\ grant[t] = "none" => slots[CentralGrantOwner(t)] = Empty
         /\ token[t].status = "none" => slots[TokenOwner(t)] = Empty
         /\ localGrant'[t].status # "none" => InUse(LocalGrantOwner(t))'
         /\ grant'[t] # "none" => InUse(CentralGrantOwner(t))'
         /\ token'[t].status # "none" => InUse(TokenOwner(t))'
<1>1. Centre \in Hosts /\ Gateways \subseteq Hosts
  BY DEF Hosts
<1>2. /\ localGrant[t].status = "none" => slots[LocalGrantOwner(t)] = Empty
      /\ grant[t] = "none" => slots[CentralGrantOwner(t)] = Empty
      /\ token[t].status = "none" => slots[TokenOwner(t)] = Empty
  BY GrantOwners DEF UsedInv, InUse
<1>3. localGrant'[t].status # "none" => InUse(LocalGrantOwner(t))'
  BY <1>1, GrantOwners, RoundOwners DEF InUse
<1>4. grant'[t] # "none" => InUse(CentralGrantOwner(t))'
  BY <1>1, GrantOwners, RoundOwners DEF InUse
<1>5. token'[t].status # "none" => InUse(TokenOwner(t))'
  BY <1>1, GrantOwners, RoundOwners DEF InUse
<1>. QED
  BY <1>2, <1>3, <1>4, <1>5

LEMMA RoundUse ==
  ASSUME UsedInv, NEW n \in Rounds
  PROVE  /\ round[n].status = "none" => slots[OptionalRound(Centre, n)] = Empty
         /\ \A g \in Gateways : localRound[g][n].prepared = Never =>
              slots[OptionalRound(g, n)] = Empty
         /\ round'[n].status # "none" => InUse(OptionalRound(Centre, n))'
         /\ \A g \in Gateways : localRound'[g][n].prepared # Never =>
              InUse(OptionalRound(g, n))'
<1>1. Centre \in Hosts /\ Gateways \subseteq Hosts /\ Centre \notin Gateways
  BY FundingAssumption DEF Hosts
<1>2. /\ round[n].status = "none" => slots[OptionalRound(Centre, n)] = Empty
      /\ \A g \in Gateways : localRound[g][n].prepared = Never =>
           slots[OptionalRound(g, n)] = Empty
  BY <1>1, RoundOwners DEF UsedInv, InUse
<1>3. round'[n].status # "none" => InUse(OptionalRound(Centre, n))'
  BY <1>1, RoundOwners DEF InUse
<1>4. \A g \in Gateways : localRound'[g][n].prepared # Never =>
        InUse(OptionalRound(g, n))'
  BY <1>1, RoundOwners DEF InUse
<1>. QED
  BY <1>2, <1>3, <1>4


\* A preparation pays for itself and keeps the gateway's bundle.
LEMMA PrepareBalances ==
  ASSUME AccountInv, SlotsTyped, UsedInv, NEW g \in Gateways, NEW n \in Rounds,
         FundedPrepareRound(g, n)
  PROVE  AccountInv'
<1>. DEFINE o == OptionalRound(g, n)
            c == Cost["PREPARE_ROUND"]
            w == Worth(GatewayBundle)
<1>1. /\ localRound[g][n].prepared = Never
      /\ slots' = [slots EXCEPT ![o] = GatewayBundle]
      /\ Move(g, c + w, c, 0)
  BY DEF FundedPrepareRound, PrepareRound
<1>2. o \in Owners /\ o[1] = g
  BY RoundOwners DEF Hosts, OptionalRound
<1>3. c \in Nat /\ w \in Nat
  BY FundingAssumption, BundleSlots, Prices DEF Commands
<1>4. SlotsTyped' /\ slots'[o] = GatewayBundle /\ Only(o)
  BY <1>1, <1>2, Slotted, BundleSlots
<1>5. slots[o] = Empty
  BY <1>1, RoundUse
<1>. HIDE DEF o, c
<1>6. Worth(slots'[o]) = Worth(slots[o]) + (c + w) - c - 0
  BY <1>3, <1>4, <1>5, EmptyWorth
<1>7. c + w \in Nat
  BY <1>3
<1>. QED
  BY <1>1, <1>2, <1>3, <1>4, <1>6, <1>7, Balanced

\* A token's bundle is reserved and the grant's released, at the centre.
LEMMA IssueBalances ==
  ASSUME AccountInv, SlotsTyped, SlotsTyped', UsedInv, NEW t \in Grants,
         token[t].status = "none", NEW category, FundedIssue(t, category)
  PROVE  AccountInv'
<1>. DEFINE o == TokenOwner(t)
            c == CentralGrantOwner(t)
            b == Bundle(CentralTokenSlots, {})
            x == [b EXCEPT !["ISSUE"] = 0]
            k == Cost["ISSUE"]
            m == [p \in Owners |-> IF p = c THEN 0 ELSE Worths[p]]
<1>1. /\ slots' = [slots EXCEPT ![c] = Empty, ![o] = x]
      /\ Move(Centre, Worth(b), k, Worth(slots[c]))
  BY DEF FundedIssue
<1>2. /\ o \in Owners /\ c \in Owners /\ c # o
      /\ o[1] = Centre /\ c[1] = Centre /\ Centre \in Hosts
      /\ slots[o] = Empty
  BY GrantOwners, GrantUse DEF TokenOwner, CentralGrantOwner, Hosts
<1>3. b \in [Kinds -> Nat] /\ b["ISSUE"] = 1 /\ "ISSUE" \in Kinds
  BY Bundles DEF Kinds, CentralTokenSlots
<1>. HIDE DEF b, o, c
<1>4. /\ x \in [Kinds -> Nat] /\ x["ISSUE"] = b["ISSUE"] - 1
      /\ \A j \in Kinds \ {"ISSUE"} : x[j] = b[j]
  BY <1>3
<1>. HIDE DEF x
<1>5. /\ slots'[c] = Empty /\ slots'[o] = x
      /\ \A p \in Owners \ {c, o} : slots'[p] = slots[p]
  BY <1>1, <1>2, <1>4 DEF SlotsTyped
<1>6. /\ Worth(b) \in Nat /\ k \in Nat /\ Worth(slots[c]) \in Nat
      /\ Worth(x) = Worth(b) - k
  BY <1>2, <1>3, <1>4, SlotWorth, Prices, WorthTypes, FundingAssumption
<1>7. /\ \A p \in Owners : Worths[p] \in Nat /\ Worths'[p] \in Nat
      /\ Worths[c] = Worth(slots[c]) /\ Worths[o] = 0
      /\ Worths'[c] = 0 /\ Worths'[o] = Worth(b) - k
      /\ \A p \in Owners \ {c, o} : Worths'[p] = Worths[p]
  <2>1. \A p \in Owners : /\ Worths'[p] = Worth(slots'[p])
                          /\ slots'[p] \in [Kinds -> Nat]
    BY DEF Worths, SlotsTyped
  <2>2. \A p \in Owners : Worths'[p] \in Nat
    BY <2>1, Prices
  <2>3. Worths'[c] = 0 /\ Worths'[o] = Worth(b) - k
    BY <1>2, <1>5, <1>6, <2>1, EmptyWorth
  <2>4. Worths[o] = 0 /\ Worths[c] = Worth(slots[c])
    BY <1>2, WorthTypes, EmptyWorth
  <2>5. \A p \in Owners \ {c, o} : Worths'[p] = Worths[p]
    BY <1>5, <2>1, WorthTypes
  <2>. QED
    BY <2>2, <2>3, <2>4, <2>5, WorthTypes
<1>8. /\ m[c] = 0 /\ m[o] = 0
      /\ Changes(Worths, m, Owners, c) /\ Changes(m, Worths', Owners, o)
  BY <1>2, <1>7 DEF Changes
<1>. HIDE DEF m
<1>9. \A h \in Hosts :
        /\ SumOver(Worths, OwnersAt(h)) \in Int
        /\ SumOver(m, OwnersAt(h))
             = IF Centre = h THEN SumOver(Worths, OwnersAt(h)) + m[c] - Worths[c]
               ELSE SumOver(Worths, OwnersAt(h))
  BY <1>2, <1>8, Gained
<1>10. \A h \in Hosts :
        /\ SumOver(m, OwnersAt(h)) \in Int
        /\ SumOver(Worths', OwnersAt(h))
             = IF Centre = h THEN SumOver(m, OwnersAt(h)) + Worths'[o] - m[o]
               ELSE SumOver(m, OwnersAt(h))
  BY <1>2, <1>8, Gained
<1>11. \A h \in Hosts : SumOver(Worths', OwnersAt(h))
         = IF Centre = h
           THEN SumOver(Worths, OwnersAt(h)) + Worth(b) - k - Worth(slots[c])
           ELSE SumOver(Worths, OwnersAt(h))
  BY <1>6, <1>7, <1>8, <1>9, <1>10
<1>12. /\ AccountsTyped'
       /\ account'[Centre].held = account[Centre].held + Worth(b) - k - Worth(slots[c])
       /\ account'[Centre].used + account'[Centre].held <= account'[Centre].provisioned
       /\ \A j \in Hosts \ {Centre} : account'[j] = account[j]
  BY <1>1, <1>2, <1>6, Moving DEF AccountInv
<1>13. \A h \in Hosts : OwnersAt(h)' = OwnersAt(h)
  BY DEF OwnersAt
<1>. QED
  BY <1>11, <1>12, <1>13 DEF AccountInv

\* What a host is admitted with covers its rights.
LEMMA AccountInit ==
  ASSUME FundedInit
  PROVE  AccountInv /\ UsedInv
<1>1. /\ Init /\ SlotsTyped
      /\ account = [h \in Hosts |->
           [provisioned |-> Provisioned[h], used |-> 0,
            held |-> Cardinality(Families) * Worth(FinishBundle(h))]]
      /\ slots = [o \in Owners |->
           IF o[2] = "close" THEN FinishBundle(o[1]) ELSE Empty]
  BY FundingInit DEF FundedInit, FundingInv
<1>2. ASSUME NEW h \in Hosts
      PROVE  /\ Cardinality(Families) * Worth(FinishBundle(h)) \in Nat
             /\ SumOver(Worths, OwnersAt(h))
                  = Cardinality(Families) * Worth(FinishBundle(h))
  <2>. DEFINE T == {Right(h, f) : f \in Families}
              m == [f \in Families |-> Right(h, f)]
              w == Worth(FinishBundle(h))
  <2>1. FinishBundle(h) \in [Kinds -> Nat]
    BY BundleSlots DEF FinishBundle
  <2>2. w \in Nat
    BY <2>1, Prices
  <2>3. IsFiniteSet(Families) /\ Cardinality(Families) \in Nat
    BY EnrollmentAssumption, FS_CardinalityType
  <2>4. m \in Bijection(Families, T)
    <3>1. \A f, e \in Families : m[f] = m[e] => f = e
      BY DEF Right
    <3>2. m \in [Families -> T] /\ \A p \in T : \E f \in Families : m[f] = p
      OBVIOUS
    <3>. HIDE DEF m, T
    <3>. QED
      BY <3>1, <3>2 DEF Bijection, Injection, Surjection, IsInjective
  <2>5. Cardinality(T) = Cardinality(Families)
    <3>. HIDE DEF m, T
    <3>. QED
      BY <2>3, <2>4, FS_Bijection DEF ExistsBijection
  <2>6. T \in SUBSET OwnersAt(h)
    <3>1. \A f \in Families : Right(h, f) \in Owners /\ Right(h, f)[1] = h
      BY RoundOwners DEF Right
    <3>. QED
      BY <3>1 DEF OwnersAt
  <2>7. \A p \in T : Worths[p] = w
    <3>1. \A f \in Families : /\ Right(h, f) \in Owners /\ Right(h, f)[1] = h
                              /\ Right(h, f)[2] = "close"
      BY RoundOwners DEF Right
    <3>2. \A f \in Families : slots[Right(h, f)] = FinishBundle(h)
      BY <1>1, <3>1
    <3>. QED
      BY <1>1, <3>1, <3>2, WorthTypes
  <2>8. \A p \in OwnersAt(h) \ T : Worths[p] = 0
    <3>1. ASSUME NEW p \in Owners, p[1] = h, p \notin T
          PROVE  slots[p] = Empty
      <4>1. p[2] # "close"
        BY <3>1 DEF Owners, LocalGrantOwner, CentralGrantOwner, TokenOwner,
           Right, OptionalRound
      <4>. QED
        BY <1>1, <4>1
    <3>. QED
      BY <1>1, <3>1, WorthTypes, EmptyWorth DEF OwnersAt
  <2>9. IsFiniteSet(OwnersAt(h))
    BY FewOwners
  <2>. HIDE DEF T, w
  <2>10. SumOver(Worths, OwnersAt(h)) = Cardinality(T) * w
    BY <2>2, <2>6, <2>7, <2>8, <2>9, SumConst
  <2>11. \A i, j \in Nat : i * j \in Nat
    OBVIOUS
  <2>. QED
    BY <2>2, <2>3, <2>5, <2>10, <2>11 DEF w
<1>3. AccountInv
  <2>1. \A h \in Hosts :
          /\ Provisioned[h] \in Nat
          /\ Cardinality(Families) * Worth(FinishBundle(h)) <= Provisioned[h]
    BY FundingAssumption
  <2>2. \A h \in Hosts :
          /\ account[h] \in Account
          /\ account[h].held = Cardinality(Families) * Worth(FinishBundle(h))
          /\ account[h].used = 0 /\ account[h].provisioned = Provisioned[h]
    BY <1>1, <1>2, <2>1 DEF Account
  <2>3. AccountsTyped
    BY <1>1, <2>2 DEF AccountsTyped
  <2>. QED
    BY <1>2, <2>1, <2>2, <2>3 DEF AccountInv
<1>4. UsedInv
  <2>1. ASSUME NEW o \in Owners, o[2] = "close"
        PROVE  InUse(o)
    BY <2>1 DEF InUse, LocalGrantOwner, CentralGrantOwner, TokenOwner, OptionalRound
  <2>. QED
    BY <1>1, <2>1 DEF UsedInv
<1>. QED
  BY <1>3, <1>4


AccountingInv == AccountInv /\ UsedInv

\* A command paid for with a slot changes an owner that is used.
LEMMA SpendAccounts ==
  ASSUME AdjudicationInv, [Next]_vars, AccountingInv, SlotsTyped, NEW o \in Owners,
         NEW k \in Kinds, Spend(o, k) \/ Settle(o, k)
  PROVE  AccountingInv'
<1>1. AccountInv'
  BY SpendBalances, SettleBalances DEF AccountingInv
<1>2. slots[o] # Empty
  BY EmptyWorth DEF Spend, Settle
<1>3. \A p \in Owners : p # o => slots'[p] = slots[p]
  BY Spending, Settling DEF Only
<1>. QED
  BY <1>1, <1>2, <1>3, UsedKept DEF AccountingInv

\* A command that makes an owner finds it unused and leaves it in use.
LEMMA ReserveAccounts ==
  ASSUME AdjudicationInv, [Next]_vars, AccountingInv, SlotsTyped, NEW o \in Owners,
         NEW k \in Kinds, NEW b \in [Kinds -> Nat], b[k] = 1, Reserve(o, b, k),
         slots[o] = Empty, InUse(o)'
  PROVE  AccountingInv'
<1>1. AccountInv'
  BY ReserveBalances DEF AccountingInv
<1>2. \A p \in Owners : p # o => slots'[p] = slots[p]
  BY Reserving DEF Only
<1>. QED
  BY <1>1, <1>2, UsedKept DEF AccountingInv

LEMMA TokenAccounts ==
  ASSUME FundingInv, SlotsTyped', [Next]_vars, AccountingInv, NEW t \in Grants,
         FundedTokenStep(t)
  PROVE  AccountingInv'
<1>1. /\ LocalGrantOwner(t) \in Owners /\ CentralGrantOwner(t) \in Owners
      /\ TokenOwner(t) \in Owners /\ AdjudicationInv /\ SlotsTyped
  BY GrantOwners DEF FundingInv
<1>2. /\ LocalGrantSlots \subseteq Kinds /\ CentralGrantSlots \subseteq Kinds
      /\ CentralTokenSlots \subseteq Kinds
  BY DEF Kinds
<1>3. CASE FundedLocalGrant(t)
  <2>. DEFINE b == Bundle(LocalGrantSlots, {})
  <2>1. /\ b \in [Kinds -> Nat] /\ b["LOCAL_GRANT"] = 1 /\ "LOCAL_GRANT" \in Kinds
    BY Bundles DEF Kinds, LocalGrantSlots
  <2>2. /\ localGrant[t].status = "none" /\ localGrant'[t].status # "none"
        /\ Reserve(LocalGrantOwner(t), b, "LOCAL_GRANT")
    <3>1. LocalGrants(t)
      BY <1>1, <1>3, LocalGrantStep, Types DEF FundedLocalGrant, AdjudicationInv
    <3>. QED
      BY <1>3, <3>1 DEF FundedLocalGrant, LocalGrants
  <2>. HIDE DEF b
  <2>. QED
    BY <1>1, <2>1, <2>2, GrantUse, ReserveAccounts DEF AccountingInv
<1>4. CASE FundedRegisterGrant(t)
  <2>. DEFINE b == Bundle(CentralGrantSlots, {})
  <2>1. /\ b \in [Kinds -> Nat] /\ b["REGISTER_GRANT"] = 1
        /\ "REGISTER_GRANT" \in Kinds
    BY Bundles DEF Kinds, CentralGrantSlots
  <2>2. /\ grant[t] = "none" /\ grant'[t] # "none"
        /\ Reserve(CentralGrantOwner(t), b, "REGISTER_GRANT")
    <3>1. Registers(t)
      BY <1>1, <1>4, RegisterGrantStep, Types DEF FundedRegisterGrant,
         AdjudicationInv
    <3>. QED
      BY <1>4, <3>1 DEF FundedRegisterGrant, Registers
  <2>. HIDE DEF b
  <2>. QED
    BY <1>1, <2>1, <2>2, GrantUse, ReserveAccounts DEF AccountingInv
<1>5. ASSUME NEW category \in {"Ordinary", "Adjustment"}, FundedIssue(t, category)
      PROVE  AccountingInv'
  <2>1. Issues(t) /\ token[t].status = "none"
    BY <1>1, <1>5, IssueStep, TokenTypes, Types
       DEF FundedIssue, Issue, AdjudicationInv, TokenAgrees
  <2>2. AccountInv'
    BY <1>1, <1>5, <2>1, IssueBalances DEF AccountingInv
  <2>3. InUse(TokenOwner(t))'
    BY <2>1, GrantUse DEF AccountingInv, Issues
  <2>4. \A p \in Owners : \/ p = TokenOwner(t) \/ slots'[p] = Empty
                          \/ slots'[p] = slots[p]
    BY <1>1, <1>5 DEF FundedIssue, SlotsTyped
  <2>. QED
    BY <1>1, <2>2, <2>3, <2>4, UsedKept DEF AccountingInv
<1>6. \/ \E k \in LocalGrantSlots : \/ Spend(LocalGrantOwner(t), k)
                                    \/ Settle(LocalGrantOwner(t), k)
      \/ Settle(CentralGrantOwner(t), "RETIRE_GRANT")
      \/ \E k \in CentralTokenSlots : \/ Spend(TokenOwner(t), k)
                                      \/ Settle(TokenOwner(t), k)
      => AccountingInv'
  BY <1>1, <1>2, SpendAccounts DEF CentralGrantSlots
<1>7. CASE \/ FundedRetireGrant(t) \/ FundedActivate(t) \/ FundedReturnUnused(t)
           \/ FundedLocalTerminal(t) \/ FundedImport(t) \/ FundedReconcile(t)
  BY <1>6, <1>7 DEF FundedRetireGrant, FundedActivate, FundedReturnUnused,
     FundedLocalTerminal, FundedImport, FundedReconcile, LocalGrantSlots,
     CentralTokenSlots
<1>8. CASE \/ \E c \in Cases, at \in Time, e \in 1..MaxEpoch :
                FundedReceive(t, c, at, e)
           \/ FundedAdvance(t) \/ FundedAdvanceReceipt(t)
  BY <1>6, <1>8 DEF FundedReceive, FundedAdvance, FundedAdvanceReceipt,
     LocalGrantSlots, CentralTokenSlots
<1>. QED
  BY <1>3, <1>4, <1>5, <1>7, <1>8 DEF FundedTokenStep

LEMMA GatewayAccounts ==
  ASSUME FundingInv, [Next]_vars, AccountingInv, NEW g \in Gateways, NEW n \in Rounds,
         FundedGatewayStep(g, n)
  PROVE  AccountingInv'
<1>1. /\ AdjudicationInv /\ SlotsTyped /\ ModesInv /\ RoundsInv
      /\ g \in Hosts /\ Centre \in Hosts
      /\ {"SEAL_BEGIN", "SEALED", "INSTALL", "DRAIN", "ACK_INSTALL"} \subseteq Kinds
  BY BundleSlots DEF FundingInv, RoundsInv, Hosts
<1>2. CASE FundedPrepareRound(g, n)
  <2>. DEFINE o == OptionalRound(g, n)
  <2>1. AccountInv'
    BY <1>1, <1>2, PrepareBalances DEF AccountingInv
  <2>2. localRound'[g][n].prepared # Never
    <3>1. localGateway[g].installed # Never
      BY <1>1, RoundTypes, Types DEF AdjudicationInv, Never
    <3>. QED
      BY <1>1, <1>2, <3>1, PreparedChanges DEF FundedPrepareRound
  <2>3. InUse(o)'
    BY <2>2, RoundUse DEF AccountingInv
  <2>4. \A p \in Owners : p # o => slots'[p] = slots[p]
    BY <1>1, <1>2 DEF FundedPrepareRound, SlotsTyped
  <2>. QED
    BY <1>1, <2>1, <2>3, <2>4, UsedKept DEF AccountingInv
<1>3. CASE \/ FundedSealBegin(g, n) \/ FundedSealed(g, n) \/ FundedInstall(g, n)
  <2>1. g \in round[n].gateways /\ Current(g, n)
    <3>1. CASE FundedSealBegin(g, n) \/ FundedInstall(g, n)
      BY <3>1 DEF FundedSealBegin, FundedInstall, SealBegin, Install
    <3>2. CASE FundedSealed(g, n)
      <4>1. /\ GatewayPlace(g) /\ localGateway[g].mode # "Open"
            /\ localGateway[g].active = n
        BY <1>1, <3>2 DEF FundedSealed, Sealed, AdjudicationInv, GatewayInv
      <4>. QED
        BY <4>1 DEF GatewayPlace, Current
    <3>. QED
      BY <1>3, <3>1, <3>2
  <2>2. RoundOwner(g, n) \in Owners
    BY <1>1, <2>1, AtActive
  <2>. QED
    BY <1>1, <1>3, <2>2, SpendAccounts DEF FundedSealBegin, FundedSealed,
       FundedInstall
<1>4. CASE FundedDrain(g, n) \/ FundedAckInstall(g, n)
  <2>1. round[n].status # "none"
    BY <1>4 DEF FundedDrain, FundedAckInstall, Drain, AckInstall
  <2>2. RoundOwner(Centre, n) \in Owners
    BY <1>1, <2>1, RoundOwnerIs
  <2>. QED
    BY <1>1, <1>4, <2>2, SpendAccounts DEF FundedDrain, FundedAckInstall
<1>. QED
  BY <1>2, <1>3, <1>4 DEF FundedGatewayStep

LEMMA RoundAccounts ==
  ASSUME FundingInv, [Next]_vars, AccountingInv, NEW n \in Rounds, FundedRoundStep(n)
  PROVE  AccountingInv'
<1>1. /\ AdjudicationInv /\ SlotsTyped /\ ModesInv /\ Centre \in Hosts
      /\ {"BEGIN", "READY", "CLOSE", "ABORT"} \subseteq Kinds
  BY BundleSlots DEF FundingInv, RoundsInv, Hosts
<1>2. ASSUME NEW mode \in Modes, NEW F \in SUBSET Families,
             NEW G \in SUBSET Gateways, FundedBegin(n, mode, F, G)
      PROVE  AccountingInv'
  <2>1. /\ F # {} /\ round[n].status = "none"
        /\ \/ Spend(Right(Centre, FirstOf[F]), "BEGIN")
           \/ Reserve(OptionalRound(Centre, n), CancelBundle, "BEGIN")
    BY <1>2 DEF FundedBegin, Begin, MayClose
  <2>2. /\ Right(Centre, FirstOf[F]) \in Owners
        /\ OptionalRound(Centre, n) \in Owners
    BY <1>1, <2>1, FundingAssumption, RoundOwners
  <2>3. round'[n].status # "none"
    BY <1>1, <1>2 DEF FundedBegin, Begin, AdjudicationInv, TypeOK
  <2>4. slots[OptionalRound(Centre, n)] = Empty /\ InUse(OptionalRound(Centre, n))'
    BY <2>1, <2>3, RoundUse DEF AccountingInv
  <2>. QED
    BY <1>1, <2>1, <2>2, <2>4, SpendAccounts, ReserveAccounts, BundleSlots
<1>3. ASSUME round[n].status # "none",
             \E k \in {"READY", "CLOSE", "ABORT"} :
               Spend(RoundOwner(Centre, n), k) \/ Settle(RoundOwner(Centre, n), k)
      PROVE  AccountingInv'
  <2>1. RoundOwner(Centre, n) \in Owners
    BY <1>1, <1>3, RoundOwnerIs
  <2>. QED
    BY <1>1, <1>3, <2>1, SpendAccounts
<1>4. CASE FundedReady(n)
  BY <1>3, <1>4 DEF FundedReady, Ready
<1>5. CASE \E at \in Time : FundedClose(n, at)
  BY <1>3, <1>5 DEF FundedClose, Close
<1>6. CASE FundedAbort(n)
  BY <1>3, <1>6 DEF FundedAbort, Abort
<1>. QED
  BY <1>2, <1>4, <1>5, <1>6 DEF FundedRoundStep

LEMMA OptionalAccounts ==
  ASSUME FundingInv, [Next]_vars, AccountingInv, Optional
  PROVE  AccountingInv'
<1>1. AdjudicationInv /\ SlotsTyped /\ Centre \in Hosts /\ Gateways \subseteq Hosts
  BY DEF FundingInv, Hosts
<1>2. slots' = slots
  BY DEF Optional, FundedDecide, FundedCorrect, Supplement, ExtendResources,
     ReplaceWriter, Pay
<1>3. \/ \E h \in Hosts, k \in Commands : Pay(h, k)
      \/ \E h \in Hosts, amount \in Extensions : ExtendResources(h, amount)
  BY <1>1 DEF Optional, FundedDecide, FundedCorrect, Supplement, ReplaceWriter,
     Commands
<1>4. AccountInv'
  BY <1>1, <1>3, PayBalances, ExtendBalances DEF AccountingInv
<1>. QED
  BY <1>1, <1>2, <1>4, UsedKept DEF AccountingInv

LEMMA AccountingStep ==
  ASSUME FundingInv, AccountingInv, [FundedNext]_fundedVars
  PROVE  AccountingInv'
<1>1. [Next]_vars /\ SlotsTyped'
  BY FundedStepIsStep, FundingInvStep DEF FundingInv
<1>2. CASE UNCHANGED fundedVars
  <2>1. account' = account /\ slots' = slots
    BY <1>2 DEF fundedVars, fundVars
  <2>2. AccountInv'
    BY <2>1 DEF AccountingInv, AccountInv, AccountsTyped, Worths, OwnersAt
  <2>. QED
    BY <1>1, <2>1, <2>2, UsedKept DEF AccountingInv, FundingInv
<1>3. CASE \E t \in Grants : FundedTokenStep(t)
  BY <1>1, <1>3, TokenAccounts
<1>4. CASE \E g \in Gateways, n \in Rounds : FundedGatewayStep(g, n)
  BY <1>1, <1>4, GatewayAccounts
<1>5. CASE \E n \in Rounds : FundedRoundStep(n)
  BY <1>1, <1>5, RoundAccounts
<1>6. CASE Optional
  BY <1>1, <1>6, OptionalAccounts
<1>. QED
  BY <1>2, <1>3, <1>4, <1>5, <1>6 DEF FundedNext

LEMMA AccountingBalances ==
  ASSUME AccountingInv
  PROVE  AccountsBalance
<1>1. ASSUME NEW h \in Hosts
      PROVE  account[h].held =
               SumOver([o \in OwnersAt(h) |-> Worth(slots[o])], OwnersAt(h))
  <2>. DEFINE m == [o \in OwnersAt(h) |-> Worth(slots[o])]
  <2>1. \A o \in OwnersAt(h) : Worths[o] = m[o]
    BY FewOwners DEF Worths
  <2>2. IsFiniteSet(OwnersAt(h))
    BY FewOwners
  <2>. HIDE DEF m
  <2>3. SumOver(Worths, OwnersAt(h)) = SumOver(m, OwnersAt(h))
    BY <2>1, <2>2, SumCong
  <2>. QED
    BY <2>3 DEF AccountingInv, AccountInv, m
<1>2. \A h \in Hosts : account[h].used + account[h].held <= account[h].provisioned
  BY DEF AccountingInv, AccountInv
<1>. QED
  BY <1>1, <1>2 DEF AccountsBalance

\* What an account holds is exactly what its owners' slots are worth, and no
\* account holds and uses more than it was given (reserve, spend and release in
\* accounting.rs): AccountingInv adds that an owner that does not exist has no slot,
\* so that a reservation is never made over another.
THEOREM AccountsTheorem == FundedSpec => []AccountsBalance
<1>1. FundedInit => FundingInv /\ AccountingInv
  BY FundingInit, AccountInit DEF AccountingInv
<1>2. FundingInv /\ AccountingInv /\ [FundedNext]_fundedVars => FundingInv' /\ AccountingInv'
  BY FundingInvStep, AccountingStep
<1>3. FundingInv /\ AccountingInv => AccountsBalance
  BY AccountingBalances
<1>. QED
  BY <1>1, <1>2, <1>3, PTL DEF FundedSpec

=============================================================================
