---------------------------- MODULE Adjudication ----------------------------
(***************************************************************************)
(* Central adjudication (adjudication/runtime): the protocol between one   *)
(* central host and the gateways of an enrolled registration.  A gateway   *)
(* grants capacity, the centre claims a grant with a token, the gateway    *)
(* activates the token and spends it on one receipt (a new case or an      *)
(* alias of one) or returns it unused; the centre imports, reconciles and  *)
(* advances dense prefixes.  A round closes families: it fixes a cutoff    *)
(* per gateway, seals the gateways, drains what they received, and closes  *)
(* or aborts; the gateways install the outcome and the centre acknowledges *)
(* the installations.                                                      *)
(*                                                                         *)
(* Every command is one transition of one host's journal, so it is one     *)
(* action.  Hosts exchange proofs of committed facts.  Facts are immutable *)
(* and stay provable for ever, so a guard that checks a proof reads the    *)
(* other host's state: the host may have recorded the fact at any earlier  *)
(* time, and proofs may be late, repeated or out of order.                 *)
(*                                                                         *)
(* A grant is claimed by at most one token, so tokens carry the name of    *)
(* their grant.  Every receive uses a fresh delivery key and the one       *)
(* submission of its case: a changed submission is refused (CASE_CONFLICT) *)
(* and an exact repetition returns the saved result.                       *)
(***************************************************************************)
EXTENDS Economics

CONSTANTS
  Gateways,   \* the gateways of the enrollment, at most 4 in the code
  Grants,     \* grant ids, and so token ids
  GatewayOf,  \* the gateway whose namespace a grant id carries
  RouteOf,    \* the owner gateway of a case: a digest of its key (route)
  MaxRound,   \* rounds (bounds the model)
  Modes,      \* the modes rounds are begun in (bounds the model)
  Deciding    \* do authorities decide cases in this model?

ASSUME ProtocolAssumption ==
  /\ GatewayOf \in [Grants -> Gateways]
  /\ RouteOf \in [Cases -> Gateways]
  /\ MaxRound \in Nat
  /\ Modes \subseteq {"FinishOnly", "Cancellable"}
  /\ Deciding \in BOOLEAN

VARIABLES
  \* the central host
  grant,      \* its view of each grant
  token,      \* its view of each token
  gateway,    \* its counters of each gateway
  enrollment, \* the active round and the last finished one (0: none)
  round,      \* its rounds
  \* the gateways
  localGrant, localToken, localCase, localGateway,
  localRound  \* what each gateway has recorded of each round

centralVars == <<grant, token, gateway, enrollment, round>>
localVars == <<localGrant, localToken, localCase, localGateway, localRound>>
vars == <<economicVars, centralVars, localVars>>

Rounds == 1..MaxRound

-----------------------------------------------------------------------------
(* Types.  "none" is a point that is absent.                               *)

GrantState == {"none", "RegisteredUnclaimed", "Claimed", "RetiredUnclaimed"}
LocalGrantState ==
  [status : {"none", "LocalHeld", "Claimed", "RetiredUnclaimed"},
   terminal : BOOLEAN]

Disposed == {"NewCase", "Alias", "ReturnedUnused"}

TokenState ==
  [status : {"none", "Issued"} \union Disposed,
   category : {"Ordinary", "Adjustment"}, allocation : Nat,
   case : Cases \union {NoCase},
   reconciled : BOOLEAN, advanced : BOOLEAN, receipt_advanced : BOOLEAN]
NoToken == [status |-> "none", category |-> "Ordinary", allocation |-> 0,
            case |-> NoCase, reconciled |-> FALSE, advanced |-> FALSE,
            receipt_advanced |-> FALSE]
LocalTokenState == [status : {"none", "Active"} \union Disposed,
                    case : Cases \union {NoCase}]

GatewayState == [allocation : Nat, acknowledged : Nat,
                 allocation_prefix : Nat, receipt_prefix : Nat]
LocalGatewayState == [mode : {"Open", "Sealing", "Sealed"}, active : Nat,
                      installed : Nat, clock_floor : Nat, receipt : Nat]

\* seal: the receipt_high of the seal the centre drained against.
RoundState ==
  [status : {"none", "Draining", "Ready", "Committed", "Aborted"},
   mode : {"FinishOnly", "Cancellable"}, families : SUBSET Families,
   gateways : SUBSET Gateways, cutoff : [Gateways -> Nat],
   predecessor : [Gateways -> Nat], seal : [Gateways -> Nat \union {Never}],
   acknowledged : SUBSET Gateways, closed_at : Nat \union {Never}]
NoRound ==
  [status |-> "none", mode |-> "FinishOnly", families |-> {}, gateways |-> {},
   cutoff |-> [g \in Gateways |-> 0], predecessor |-> [g \in Gateways |-> 0],
   seal |-> [g \in Gateways |-> Never], acknowledged |-> {},
   closed_at |-> Never]

\* The facts of a round at a gateway: the predecessor it prepared against,
\* whether it began sealing, the receipt_high it sealed and what it installed.
LocalRoundState ==
  [prepared : Nat \union {Never}, begun : BOOLEAN, seal : Nat \union {Never},
   outcome : {"none", "Committed", "Aborted"}]

TypeOK ==
  /\ EconomicTypeOK
  /\ grant \in [Grants -> GrantState]
  /\ token \in [Grants -> TokenState]
  /\ gateway \in [Gateways -> GatewayState]
  /\ enrollment \in [active_round : Nat, last_round : Nat]
  /\ round \in [Rounds -> RoundState]
  /\ localGrant \in [Grants -> LocalGrantState]
  /\ localToken \in [Grants -> LocalTokenState]
  /\ localCase \in [Cases -> Receipt]
  /\ localGateway \in [Gateways -> LocalGatewayState]
  /\ localRound \in [Gateways -> [Rounds -> LocalRoundState]]

\* PREPARE_ENROLL at every gateway and ENROLL at the centre have happened.
Init ==
  /\ EconomicInit
  /\ grant = [t \in Grants |-> "none"]
  /\ token = [t \in Grants |-> NoToken]
  /\ gateway = [g \in Gateways |-> [allocation |-> 0, acknowledged |-> 0,
                                    allocation_prefix |-> 0, receipt_prefix |-> 0]]
  /\ enrollment = [active_round |-> 0, last_round |-> 0]
  /\ round = [n \in Rounds |-> NoRound]
  /\ localGrant = [t \in Grants |-> [status |-> "none", terminal |-> FALSE]]
  /\ localToken = [t \in Grants |-> [status |-> "none", case |-> NoCase]]
  /\ localCase = [c \in Cases |-> NoReceipt]
  /\ localGateway = [g \in Gateways |-> [mode |-> "Open", active |-> 0,
                       installed |-> 0, clock_floor |-> 0, receipt |-> 0]]
  /\ localRound = [g \in Gateways |-> [n \in Rounds |->
       [prepared |-> Never, begun |-> FALSE, seal |-> Never, outcome |-> "none"]]]

-----------------------------------------------------------------------------
(* Grants, tokens and receipts.                                            *)

LocalGrant(t) ==
  /\ localGateway[GatewayOf[t]].mode = "Open"
  /\ localGrant[t].status = "none"
  /\ localGrant' = [localGrant EXCEPT ![t].status = "LocalHeld"]
  /\ UNCHANGED <<economicVars, centralVars, localToken, localCase,
                 localGateway, localRound>>

RegisterGrant(t) ==
  /\ localGrant[t].status # "none"
  /\ grant[t] = "none"
  /\ grant' = [grant EXCEPT ![t] = "RegisteredUnclaimed"]
  /\ UNCHANGED <<economicVars, token, gateway, enrollment, round, localVars>>

\* Ordinary issuance is frozen while a round is active.
Issue(t, category) ==
  LET g == GatewayOf[t]
      a == gateway[g].allocation + 1
  IN /\ grant[t] = "RegisteredUnclaimed"
     /\ enrollment.active_round = 0 \/ category = "Adjustment"
     /\ grant' = [grant EXCEPT ![t] = "Claimed"]
     /\ gateway' = [gateway EXCEPT ![g].allocation = a]
     /\ token' = [token EXCEPT ![t] =
          [status |-> "Issued", category |-> category, allocation |-> a,
           case |-> NoCase, reconciled |-> FALSE, advanced |-> FALSE,
           receipt_advanced |-> FALSE]]
     /\ UNCHANGED <<economicVars, enrollment, round, localVars>>

\* Faulty variant: a grant already claimed can be retired.
RetireGrantAnytime(t) ==
  /\ grant[t] \in {"RegisteredUnclaimed", "Claimed"}
  /\ grant' = [grant EXCEPT ![t] = "RetiredUnclaimed"]
  /\ UNCHANGED <<economicVars, token, gateway, enrollment, round, localVars>>
RetireGrant(t) ==
  /\ grant[t] = "RegisteredUnclaimed"
  /\ grant' = [grant EXCEPT ![t] = "RetiredUnclaimed"]
  /\ UNCHANGED <<economicVars, token, gateway, enrollment, round, localVars>>

\* The proof is the centre's Claim.
Activate(t) ==
  /\ token[t].status # "none"
  /\ localGrant[t] = [status |-> "LocalHeld", terminal |-> FALSE]
  /\ localGateway[GatewayOf[t]].mode = "Open"
  /\ localToken[t].status = "none"
  /\ localToken' = [localToken EXCEPT ![t].status = "Active"]
  /\ localGrant' = [localGrant EXCEPT ![t].status = "Claimed"]
  /\ UNCHANGED <<economicVars, centralVars, localCase, localGateway, localRound>>

\* A clock floor of the last installed closure bounds received_at from below.
\* Faulty variant: the floor is not looked at.
TimelyAlways(g, c, at) == OccurredAt[c] <= at
Timely(g, c, at) ==
  OccurredAt[c] <= at /\ localGateway[g].clock_floor <= at

\* Faulty variant: only the scan itself stops receipts.
ReceivesUnlessSealing(g) == localGateway[g].mode # "Sealing"
Receives(g) == localGateway[g].mode = "Open"

Received(c) == localCase[c] # NoReceipt

Receive(t, c, at) ==
  LET g == GatewayOf[t]
      position == localGateway[g].receipt + 1
  IN /\ localToken[t].status = "Active"
     /\ Receives(g)
     /\ Timely(g, c, at)
     /\ RouteOf[c] = g
     /\ \/ /\ Received(c)
           /\ localToken' = [localToken EXCEPT
                ![t] = [status |-> "Alias", case |-> c]]
           /\ UNCHANGED <<localCase, localGateway>>
        \/ /\ ~Received(c)
           /\ localToken' = [localToken EXCEPT
                ![t] = [status |-> "NewCase", case |-> c]]
           /\ localCase' = [localCase EXCEPT
                ![c] = [position |-> position, received_at |-> at]]
           /\ localGateway' = [localGateway EXCEPT ![g].receipt = position]
     /\ UNCHANGED <<economicVars, centralVars, localGrant, localRound>>

Imported(t) == token[t].status \in {"NewCase", "Alias"}

\* Faulty variant: an alias is imported before its original.
OriginalAnytime(c) == TRUE
\* The case an alias repeats has been admitted, with the same receipt.
OriginalImported(c) == case[c].status # "none" /\ case[c].receipt = localCase[c]

\* The proof is the gateway's Receipt or Alias.
Import(t) ==
  LET c == localToken[t].case
  IN /\ token[t].status # "none" /\ ~Imported(t)
     /\ localToken[t].status \in {"NewCase", "Alias"}
     /\ \/ /\ localToken[t].status = "Alias"
           /\ OriginalImported(c)
           /\ UNCHANGED economicVars
        \/ /\ localToken[t].status = "NewCase"
           /\ Admit(c, localCase[c])
     /\ token' = [token EXCEPT ![t].status = localToken[t].status,
                               ![t].case = c]
     /\ UNCHANGED <<grant, gateway, enrollment, round, localVars>>

\* Faulty variant: like the other uses of a token, only at an open gateway.
ReturnableWhileOpen(t) ==
  /\ localToken[t].status \in {"none", "Active"}
  /\ localGateway[GatewayOf[t]].mode = "Open"
Returnable(t) == localToken[t].status \in {"none", "Active"}

\* The proof is the Claim; the token need not have been activated, and the
\* gateway may be sealing.
ReturnUnused(t) ==
  /\ token[t].status # "none"
  /\ Returnable(t)
  /\ localGrant[t].status # "none" /\ ~localGrant[t].terminal
  /\ localToken' = [localToken EXCEPT ![t].status = "ReturnedUnused"]
  /\ localGrant' = [localGrant EXCEPT ![t].status = "Claimed"]
  /\ UNCHANGED <<economicVars, centralVars, localCase, localGateway, localRound>>

\* The proof is the gateway's Receipt, Alias or ReturnedUnused.
Reconcile(t) ==
  /\ token[t].status # "none" /\ ~token[t].reconciled
  /\ \/ /\ localToken[t].status = "ReturnedUnused"
        /\ token[t].status = "Issued"
        /\ token' = [token EXCEPT ![t].status = "ReturnedUnused",
                                  ![t].reconciled = TRUE]
     \/ /\ localToken[t].status \in {"NewCase", "Alias"}
        /\ Imported(t) /\ token[t].case = localToken[t].case
        /\ token' = [token EXCEPT ![t].reconciled = TRUE]
  /\ UNCHANGED <<economicVars, grant, gateway, enrollment, round, localVars>>

\* Faulty variant: the prefix moves over any imported or reconciled token.
AdvanceLoose(t) ==
  LET g == GatewayOf[t]
  IN /\ (token[t].reconciled \/ Imported(t)) /\ ~token[t].advanced
     /\ token' = [token EXCEPT ![t].advanced = TRUE]
     /\ gateway' = [gateway EXCEPT ![g].allocation_prefix = token[t].allocation]
     /\ UNCHANGED <<economicVars, grant, enrollment, round, localVars>>
Advance(t) ==
  LET g == GatewayOf[t]
      through == gateway[g].allocation_prefix + 1
  IN /\ token[t].status # "none" /\ token[t].allocation = through
     /\ token[t].reconciled /\ ~token[t].advanced
     /\ token' = [token EXCEPT ![t].advanced = TRUE]
     /\ gateway' = [gateway EXCEPT ![g].allocation_prefix = through]
     /\ UNCHANGED <<economicVars, grant, enrollment, round, localVars>>

AdvanceReceipt(t) ==
  LET g == GatewayOf[t]
      through == gateway[g].receipt_prefix + 1
  IN /\ token[t].status = "NewCase" /\ ~token[t].receipt_advanced
     /\ case[token[t].case].receipt.position = through
     /\ token' = [token EXCEPT ![t].receipt_advanced = TRUE]
     /\ gateway' = [gateway EXCEPT ![g].receipt_prefix = through]
     /\ UNCHANGED <<economicVars, grant, enrollment, round, localVars>>

\* The proof is the centre's Retirement, or the Reconciliation of the token.
LocalTerminal(t) ==
  /\ localGrant[t].status # "none" /\ ~localGrant[t].terminal
  /\ \/ /\ grant[t] = "RetiredUnclaimed"
        /\ localToken[t].status = "none" /\ localGrant[t].status = "LocalHeld"
        /\ localGrant' = [localGrant EXCEPT
             ![t] = [status |-> "RetiredUnclaimed", terminal |-> TRUE]]
     \/ /\ localToken[t].status # "none" /\ token[t].reconciled
        /\ localGrant' = [localGrant EXCEPT ![t].terminal = TRUE]
  /\ UNCHANGED <<economicVars, centralVars, localToken, localCase,
                 localGateway, localRound>>

-----------------------------------------------------------------------------
(* Rounds.                                                                 *)

\* Optional preparation of a cancellable round, at the gateway.
PrepareRound(g, n) ==
  /\ localGateway[g].mode = "Open"
  /\ n > localGateway[g].installed
  /\ localRound[g][n].prepared = Never
  /\ localRound' = [localRound EXCEPT ![g][n].prepared = localGateway[g].installed]
  /\ UNCHANGED <<economicVars, centralVars, localGrant, localToken, localCase,
                 localGateway>>

\* Everything allocated so far, at every gateway.
Cutoffs == [g \in Gateways |-> gateway[g].allocation]

\* Faulty variant: the right to close is not checked.
MayCloseAgain(F) == F # {}
\* A family is closed once.
MayClose(F) == F # {} /\ \A f \in F : ~family[f].closed

\* A cancellable round needs the RoundPreparation of each gateway, made
\* against the round that gateway has acknowledged.
Begin(n, mode, F, G) ==
  /\ enrollment.active_round = 0 /\ n = enrollment.last_round + 1
  /\ mode = "Cancellable" =>
       \A g \in G : localRound[g][n].prepared = gateway[g].acknowledged
  /\ MayClose(F)
  /\ round[n].status = "none"
  /\ round' = [round EXCEPT ![n] =
       [status |-> "Draining", mode |-> mode, families |-> F, gateways |-> G,
        cutoff |-> Cutoffs,
        predecessor |-> [g \in Gateways |-> gateway[g].acknowledged],
        seal |-> [g \in Gateways |-> Never], acknowledged |-> {},
        closed_at |-> Never]]
  /\ enrollment' = [enrollment EXCEPT !.active_round = n]
  /\ UNCHANGED <<economicVars, grant, token, gateway, localVars>>

\* Faulty variant: any Begin the gateway has not sealed for will do.
CurrentAny(g, n) == ~localRound[g][n].begun
\* A round reaches a gateway only in the order the gateway installs them.
Current(g, n) == localGateway[g].installed = round[n].predecessor[g]

\* The proof is the centre's Begin.
SealBegin(g, n) ==
  /\ g \in round[n].gateways /\ Current(g, n)
  /\ localGateway[g].mode = "Open" /\ ~localRound[g][n].begun
  /\ localRound[g][n].outcome = "none"
  /\ localGateway' = [localGateway EXCEPT ![g].mode = "Sealing", ![g].active = n]
  /\ localRound' = [localRound EXCEPT ![g][n].begun = TRUE]
  /\ UNCHANGED <<economicVars, centralVars, localGrant, localToken, localCase>>

\* The seal scan: every allocation up to the cutoff has a local disposition,
\* and every position up to the last receipt holds one.
SealScan(g, n) ==
  /\ \A a \in 1..round[n].cutoff[g] : \E t \in Grants :
       /\ GatewayOf[t] = g /\ token[t].allocation = a
       /\ localToken[t].status \in Disposed
  /\ \A p \in 1..localGateway[g].receipt : \E c \in Cases :
       RouteOf[c] = g /\ localCase[c].position = p

Sealed(g, n) ==
  /\ localGateway[g].active = n /\ localGateway[g].mode = "Sealing"
  /\ SealScan(g, n)
  /\ localGateway' = [localGateway EXCEPT ![g].mode = "Sealed"]
  /\ localRound' = [localRound EXCEPT ![g][n].seal = localGateway[g].receipt]
  /\ UNCHANGED <<economicVars, centralVars, localGrant, localToken, localCase>>

\* Faulty variant: the receipts behind the seal are not waited for.
DrainedOfTokens(g, n) == gateway[g].allocation_prefix >= round[n].cutoff[g]
Drained(g, n) ==
  /\ gateway[g].allocation_prefix >= round[n].cutoff[g]
  /\ gateway[g].receipt_prefix >= localRound[g][n].seal

\* The proof is the gateway's Seal.
Drain(g, n) ==
  /\ round[n].status = "Draining" /\ g \in round[n].gateways
  /\ localRound[g][n].seal # Never
  /\ Drained(g, n)
  /\ round[n].seal[g] = Never
  /\ round' = [round EXCEPT ![n].seal[g] = localRound[g][n].seal]
  /\ UNCHANGED <<economicVars, grant, token, gateway, enrollment, localVars>>

AllDrained(n) == \A g \in round[n].gateways : round[n].seal[g] # Never

Ready(n) ==
  /\ round[n].status = "Draining" /\ AllDrained(n)
  /\ round' = [round EXCEPT ![n].status = "Ready"]
  /\ UNCHANGED <<economicVars, grant, token, gateway, enrollment, localVars>>

\* A round without gateways is finished by its Close or Abort.
FinishIfEmpty(n) ==
  enrollment' = IF round[n].gateways = {}
                THEN [active_round |-> 0, last_round |-> n] ELSE enrollment

Close(n, at) ==
  /\ round[n].status = "Ready"
  /\ CloseFamilies(n, round[n].families, at)
  /\ round' = [round EXCEPT ![n].status = "Committed", ![n].closed_at = at]
  /\ FinishIfEmpty(n)
  /\ UNCHANGED <<grant, token, gateway, localVars>>

Abort(n) ==
  /\ round[n].mode = "Cancellable" /\ round[n].status \in {"Draining", "Ready"}
  /\ round' = [round EXCEPT ![n].status = "Aborted"]
  /\ FinishIfEmpty(n)
  /\ UNCHANGED <<economicVars, grant, token, gateway, localVars>>

\* Faulty variant: the floor is the last closing time, not the latest.
FloorOfLast(g, n) ==
  IF round[n].closed_at = Never THEN localGateway[g].clock_floor
  ELSE round[n].closed_at
\* An aborted round has no closing time and leaves the floor alone.
Floor(g, n) ==
  LET floor == localGateway[g].clock_floor
      closed == round[n].closed_at
  IN IF floor < closed THEN closed ELSE floor

\* The proofs are the centre's Begin and Terminal; the gateway may never have
\* sealed for the round.
Install(g, n) ==
  /\ round[n].status \in {"Committed", "Aborted"} /\ g \in round[n].gateways
  /\ Current(g, n) /\ localGateway[g].active \in {0, n}
  /\ localGateway' = [localGateway EXCEPT ![g] =
       [mode |-> "Open", active |-> 0, installed |-> n,
        clock_floor |-> Floor(g, n), receipt |-> localGateway[g].receipt]]
  /\ localRound' = [localRound EXCEPT ![g][n].outcome = round[n].status]
  /\ UNCHANGED <<economicVars, centralVars, localGrant, localToken, localCase>>

Finishes(n, acked) == acked = round[n].gateways

\* The proof is the gateway's Installation.
AckInstall(g, n) ==
  LET acked == round[n].acknowledged \union {g}
  IN /\ round[n].status \in {"Committed", "Aborted"} /\ g \in round[n].gateways
     /\ localRound[g][n].outcome = round[n].status
     /\ g \notin round[n].acknowledged
     /\ gateway[g].acknowledged = round[n].predecessor[g]
     /\ round' = [round EXCEPT ![n].acknowledged = acked]
     /\ gateway' = [gateway EXCEPT ![g].acknowledged = n]
     /\ enrollment' = IF Finishes(n, acked)
                      THEN [active_round |-> 0, last_round |-> n]
                      ELSE enrollment
     /\ UNCHANGED <<economicVars, grant, token, localVars>>

\* DECIDE and CORRECT touch nothing of the protocol.
Rule == Deciding /\ Ruling /\ UNCHANGED <<centralVars, localVars>>

TokenStep(t) ==
  \/ LocalGrant(t)
  \/ RegisterGrant(t)
  \/ \E category \in {"Ordinary", "Adjustment"} : Issue(t, category)
  \/ RetireGrant(t)
  \/ Activate(t)
  \/ \E c \in Cases, at \in Time : Receive(t, c, at)
  \/ Import(t)
  \/ ReturnUnused(t)
  \/ Reconcile(t)
  \/ Advance(t)
  \/ AdvanceReceipt(t)
  \/ LocalTerminal(t)

GatewayStep(g, n) ==
  \/ PrepareRound(g, n)
  \/ SealBegin(g, n)
  \/ Sealed(g, n)
  \/ Drain(g, n)
  \/ Install(g, n)
  \/ AckInstall(g, n)

RoundStep(n) ==
  \/ \E mode \in Modes, F \in SUBSET Families, G \in SUBSET Gateways :
       Begin(n, mode, F, G)
  \/ Ready(n)
  \/ \E at \in Time : Close(n, at)
  \/ Abort(n)

Next ==
  \/ \E t \in Grants : TokenStep(t)
  \/ \E g \in Gateways, n \in Rounds : GatewayStep(g, n)
  \/ \E n \in Rounds : RoundStep(n)
  \/ Rule

Spec == Init /\ [][Next]_vars

-----------------------------------------------------------------------------
(* Properties.                                                             *)

\* A closure is complete at every gateway it covers: from CLOSE until the
\* gateway installs it, everything the gateway has received is admitted and
\* everything allocated before the round is reconciled.  Receipts and tokens
\* that raced BEGIN, the seal or the drain are not left behind.
FenceComplete ==
  \A n \in Rounds : round[n].status = "Committed" =>
    \A g \in round[n].gateways : localGateway[g].installed < n =>
      /\ \A c \in Cases :
           RouteOf[c] = g /\ Received(c) => case[c].status # "none"
      /\ \A t \in Grants :
           GatewayOf[t] = g /\ token[t].allocation \in 1..round[n].cutoff[g]
             => token[t].reconciled

\* A case received at a covered gateway before its family's closing time was
\* admitted before the closure, and so kept its ordinary path until then: the
\* seal and the clock floor order the two hosts whose clocks are not ordered.
Chronology ==
  \A n \in Rounds, c \in Cases :
    /\ round[n].status = "Committed"
    /\ FamilyOf[c] \in round[n].families /\ RouteOf[c] \in round[n].gateways
    /\ Received(c) /\ localCase[c].received_at < round[n].closed_at
    => case[c].status # "none"

\* The two hosts never disagree on what became of a token: what the centre
\* has recorded is what the gateway did, with the same case and receipt, and
\* it is never taken back.
DispositionsAgree ==
  /\ \A t \in Grants : token[t].status \in Disposed =>
       /\ localToken[t].status = token[t].status
       /\ Imported(t) => /\ localToken[t].case = token[t].case
                         /\ case[token[t].case].status # "none"
  /\ \A c \in Cases :
       case[c].status # "none" => case[c].receipt = localCase[c]

\* A retired grant is never spent: the centre retires only what it has not
\* claimed, and a gateway gives up a grant only when its token is settled.
RetiredIsUnspent ==
  \A t \in Grants :
    /\ grant[t] = "RetiredUnclaimed" =>
         localToken[t].status = "none" /\ token[t].status = "none"
    /\ localGrant[t].terminal =>
         grant[t] = "RetiredUnclaimed" \/ token[t].reconciled

\* The prefixes are dense: every allocation and every receipt below them is
\* settled at the centre, whatever order tokens were imported in.
PrefixesAreDense ==
  \A g \in Gateways :
    /\ gateway[g].allocation_prefix <= gateway[g].allocation
    /\ \A t \in Grants :
         /\ GatewayOf[t] = g
         /\ token[t].allocation \in 1..gateway[g].allocation_prefix
         => token[t].reconciled
    /\ gateway[g].receipt_prefix <= localGateway[g].receipt
    /\ \A c \in Cases :
         /\ RouteOf[c] = g
         /\ localCase[c].position \in 1..gateway[g].receipt_prefix
         => case[c].status # "none"

\* Rounds do not overlap: only the active round is in progress or waits for
\* an acknowledgement.
OneRoundAtATime ==
  \A n \in Rounds :
    /\ round[n].status \in {"Draining", "Ready"} => n = enrollment.active_round
    /\ round[n].status \in {"Committed", "Aborted"}
       /\ round[n].acknowledged # round[n].gateways => n = enrollment.active_round

\* A gateway stops receiving only for the round that is active at the centre,
\* so a late or repeated Begin never seals it again; and it has installed
\* exactly the outcomes the centre decided, in order.
GatewaysAreCurrent ==
  \A g \in Gateways :
    /\ localGateway[g].mode # "Open" =>
         localGateway[g].active = enrollment.active_round
    /\ gateway[g].acknowledged <= localGateway[g].installed
    /\ \A n \in Rounds : localRound[g][n].outcome # "none" =>
         /\ localRound[g][n].outcome = round[n].status
         /\ n <= localGateway[g].installed

\* Rounds follow one another (BEGIN, ACK_INSTALL), and no gateway ever acts
\* on a stale control of one (seal_begin, INSTALL).
RoundsAreCurrent == OneRoundAtATime /\ GatewaysAreCurrent

\* CLOSE is never refused for a family already closed: the right BEGIN checked
\* still holds however long the round takes to become ready.
CloseRightHeld ==
  \A n \in Rounds : round[n].status \in {"Draining", "Ready"} =>
    \A f \in round[n].families : ~family[f].closed

\* The coverage a closure certificate states is true of the books: an
\* ordinary action on a closed family, for a case of a covered gateway, is of
\* a receipt at or below the receipt_high the certificate carries.
CertificateCoversOrdinary ==
  \A n \in Rounds, a \in actions :
    LET g == RouteOf[a.case]
    IN /\ round[n].status = "Committed"
       /\ FamilyOf[a.case] \in round[n].families /\ g \in round[n].gateways
       /\ a.kind = "Ordinary"
       => case[a.case].receipt.position <= round[n].seal[g]

-----------------------------------------------------------------------------
(* What the registry of ClosedAtOnce shows of the hosts.  A case pending   *)
(* for its ordinary path is transferred when its family loses it, though   *)
(* close does not visit the cases; a closure is made when the centre       *)
(* commits its round, whatever the gateways have heard of it.              *)

StatusShown ==
  [c \in Cases |-> IF case[c].status # "none" THEN EffectiveStatus(c)
                   ELSE IF Received(c) THEN "received" ELSE "nowhere"]
DateShown ==
  [c \in Cases |-> IF Received(c) THEN localCase[c].received_at ELSE Never]
LostShown == {f \in Families : family[f].unavailable}
Closure(n) == [families |-> round[n].families, gateways |-> round[n].gateways,
               at |-> round[n].closed_at]
ClosuresShown == {Closure(n) : n \in {m \in Rounds : round[m].status = "Committed"}}

Registry == INSTANCE ClosedAtOnce WITH
  Prerequisites <- [f \in Families |-> Terms[f].prerequisites],
  status <- StatusShown, date <- DateShown,
  lost <- LostShown, closures <- ClosuresShown

\* A round of many commands at several hosts closes its families at one moment,
\* for the cases received, pending and still to be received alike.
ClosesAtOnce == Registry!Spec

-----------------------------------------------------------------------------
(* Progress.  Nothing in the code makes a host submit a command; but the   *)
(* commands that finish a round are paid for in advance, need no further   *)
(* decision, and are left to be repeated until they are recorded.  The     *)
(* fairness states that the hosts do submit them: returning what a round   *)
(* waits for, importing, reconciling, advancing and the steps of the round *)
(* itself.  Nothing is assumed of grants, receipts, decisions or aborts.   *)

FinishToken(t) ==
  \/ Import(t) \/ Reconcile(t) \/ Advance(t) \/ AdvanceReceipt(t)
  \/ enrollment.active_round # 0 /\ ReturnUnused(t)

FinishGateway(g, n) ==
  \/ SealBegin(g, n) \/ Sealed(g, n) \/ Drain(g, n)
  \/ Install(g, n) \/ AckInstall(g, n)

FinishRound(n) == Ready(n) \/ \E at \in Time : Close(n, at)

FairSpec ==
  /\ Spec
  /\ \A t \in Grants : WF_vars(FinishToken(t))
  /\ \A g \in Gateways, n \in Rounds : WF_vars(FinishGateway(g, n))
  /\ \A n \in Rounds : WF_vars(FinishRound(n))

\* Every round that is begun is finished, whatever tokens are outstanding at
\* BEGIN and whatever is issued, activated or received meanwhile: no token
\* can hold the seal for ever, and no gateway the acknowledgement.
RoundsFinish ==
  \A n \in Rounds :
    enrollment.active_round = n ~> enrollment.active_round # n

=============================================================================
