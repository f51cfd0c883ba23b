# Verification of Bean Counter

TLA+ models, TLC runs and TLAPS proofs about Bean Counter (the `ledgerlab`
crates), a local billing engine: it accepts events of completed work, rates them
by agreed terms, keeps an immutable history, settles later outcomes, adjudicates
work that several offline gateways receive, and hands delivery intentions to an
outside destination.

Paths below are relative to `src/`. `PROJECT.json` maps every definition that
models code to the lines it models.

## 1. Inventory of the system

| Part | State it keeps | Operations | Hard behaviour |
| --- | --- | --- | --- |
| Delivery outbox (`crates/ledgerlab/src/outbox`, `store/*/outbox.rs`) | dispatcher head (hold, enabled, owner, generation, lease), one row per intention, newest reconciliation report; at the destination a fence and receipts | acquire, renew, claim, send, observe, hold, open restored, reconcile, quarantine, resume | fence moved before commit, lost commits and answers, late answers, expiry, restore of an older database |
| Central adjudication, R3 (`crates/ledgerlab-core/src/adjudication/runtime`, `service/accept/adjudication`) | per enrollment: grants, tokens, cases, families, rounds, at a central host and at each gateway host; append-only journals of facts | enroll, grant, register, issue, activate, receive, import, return, reconcile, advance, terminal, begin, seal, drain, ready, close, abort, install, acknowledge, decide, correct, supplement, extend resources, replace a writer | hosts exchange proofs of journal facts, at any delay and in any order; a closing round races issuance, receipt and import |
| Acceptance (`service/accept.rs`, `service/project.rs`) | accepted events by delivery key and by operation, their chains, charges, held intentions | preview, accept | snapshots older than the locks, refused commits, a commit whose reply is lost and that lands later, aliases, a preview that races an acceptance |
| Outcome settlement (`service/accept/outcome.rs`, `service/retained*`, `store/*/outcomes.rs`, `policy/chaining/outcomes`) | per target: the retained history, the head of each claim, the binding aggregate, the reservation | register, claim, repeat a claim, correct, reverse, close | heads written one by one that must replay as one history, stale revisions, two claims for the last held money, lost replies |
| Billing lifecycle (`billing.rs`, `billing/*`, `service/billing*`, `store/sqlite/m5*.rs`) | agreements, versions of terms, periods' resolutions and closes, statements, credits | set and change terms, accept and correct work, outcomes and activity, resolve, close, present, export, credit, recurrence | calls of several transactions against late entries and changed terms, calendar edges, rounding |
| Policy (`ledgerlab-core/src/policy`) | none: compiled terms | compile, evaluate, reverse | rounding, premium caps, chain order |
| Money, calendars, time (`money`, `domain/calendar.rs`, `fiscal_calendar.rs`, `term_service.rs`, `time.rs`) | none | exact arithmetic, calendar arithmetic | overflow, month ends, rounding |
| Stores (`store/sqlite`, `store/postgres`) | the database, its owner lock, its witness row and the record in the host's anchor | create, open, begin, commit, rollback, close, migrate, upgrade | a cut between PENDING, COMMIT and STABLE; copied or restored databases and records; two owners |
| Gateway and central hosts (`gateway.rs`, `central.rs`) | a host's configuration | route commands to the R3 runtime | restart |
| Maintenance (`maintenance.rs`) | none of its own | offline upgrade | unknown outcome of an upgrade |
| Workflow profile (`policy/workflow`, `service/workflow`) | none of its own | builds and validates wire records | size, not control |
| CLI and test kit (`ledgerlab-cli`, `ledgerlab-testkit`) | none | argument parsing, output, test oracles | none |

How they interact: acceptance writes an event, its charges and its held delivery
intention in one store transaction; a registered base opens a reservation that
outcome settlement spends; one namespace of delivery keys serves acceptance,
settlement and adjudication; the outbox reads the intentions and talks to the
destination outside any transaction; the hosts drive the adjudication runtime
through one store transaction per command and exchange proofs of journal facts;
billing reads accepted history and closes periods over it. Every commit of an
anchored SQLite store is published by its fence. Nothing in the crates runs a
background task: the embedding host calls every operation.

What has to hold, part by part. Outbox: one sender at a time, no blind resend,
dependencies first, nothing recorded while held, recovery only over settled
evidence. Adjudication: a closure misses nothing its gateways took before it,
nobody's case is judged late because of a clock, both hosts agree on what became
of every token, capacity and entitlements are spent once, and whatever is begun
can be paid to its end. Acceptance: one event
per operation, a retry finds what was written, and every answer is true.
Settlement: the history always replays, a family is claimed once, its money is
taken once and never returns, a correction replaces the revision it was written
against. Stores: one history per anchor, whatever was copied, and no cut that
locks the owner out. Billing: periods meet where terms change, entries stay inside
their periods, a closed period stays closed and is billed exactly. Policy, money,
calendars: each algorithm equals its definition over its whole range.

## 2. Plan

| Step | Modules | State |
| --- | --- | --- |
| 1 | `Outbox`, `MCOutbox`, `OutboxProofs` | done |
| 2 | `Economics`, `MCEconomics`: the economic half of adjudication | done |
| 3 | `Adjudication` (extends `Economics`), `MCAdjudication` | done but for the enrollment handshake |
| 4 | `Fence` implements `PublishedHistory`; `MCFence`, `FenceProofs` | done |
| 5 | `Acceptance` implements `AcceptedOnce`; `MCAcceptance`, `AcceptanceProofs` | done |
| 6 | `Settlement` implements `SettledOnce`; `MCSettlement` | done |
| 7 | `SettlementProofs`: type, `HistoryReplays`, then the refinement | done |
| 8 | `AdjudicationProofs`, part 1: every property of the economics, on the sums of `Sums` and the lemmas of `SumTheorems` | done |
| 9 | `AdjudicationProofs`, part 2: every safety invariant of the protocol | done |
| 10 | `Funding` (extends `Adjudication`), `MCFunding`, `FundingProofs`: prepaid commands, gateway writers, supplements | done |
| 11 | `ClosedAtOnce`, an abstract registry whose closures are instantaneous, implemented by `Adjudication`; `AdjudicationProofs`, part 3 | done |
| 12 | `Billing`, `MCBilling`, `BillingProofs`: terms, periods, entries, closes and statements | done |
| 13 | The enrollment handshake; calendar, fiscal and premium arithmetic as operators; billing's manual credits and recurrence | later |

Modules that proofs build on use no recursive operator: totals are `SumOver` of
`Sums`, a fold over a finite set.


## 3. Outbox

State. `db` is the committed database: the dispatcher head and the rows
(`items`); `backup` is a copy of it that the operator may put back. `fence` and
`receipts` are the destination's. `leases` holds the `Lease` each owner was
handed and `work` the `Attempt` each dispatcher call carries in memory. `tx` is
an open transaction that has already moved the fence.

Actions. A transaction that touches only the database is one action, since the
store serialises them. `acquire`, `renew` and `hold` move the destination's fence
before they commit, so each is two steps, and the second is `Commit`,
`CommitUnacknowledged` (committed, but the caller never learns it) or `Rollback`.
`dispatch_one` is `Claim`, `SendCheck` (validate in a read transaction), `Send`
(the destination's answer, possibly lost) and `Observe`; it uses the time of its
claim throughout, as the code does. `Reconcile` reads the destination's inventory
and writes its report in one action: while the ledger is held no receipt can be
recorded (`NoReceiptWhileHeld`, itself checked and proved), so the inventory
cannot change between the two. `OpenRestored` puts the backup back and forgets
every in-memory lease's standing. At the start the destination may already hold
somebody else's receipt under any of the keys in `Foreign`.

Bounds. `Key`, `Owner`, `Worker`: one or two each, the least at which two senders,
two owners or a dependency can exist. `MaxAttempts` 2 in place of 20, so that the
limit is reached. `HeadLease` and `ItemLease` keep the order in which they can
expire: in the code the head's 15 s is renewed while an item's 30 s is not, so an
item can expire under a valid head, which `outbox_takeover` allows by making
them equal. `Horizon` bounds the clock, `BackupTimes` the moments of a copy.

| Run | Question |
| --- | --- |
| `outbox_takeover` | two owners, one of them with two calls under its lease: can lost commits, holds or expiring attempts give the destination two senders, a receipt while held, make a foreign receipt count as a delivery, escape quarantine or treat an unknown row as settled? |
| `outbox_dependency` | with an older database restored at any moment: can a dependent be received first, a received key be offered again, or dispatch resume unsettled? |

No fairness is assumed: the embedding host calls every operation and may stop, so
these runs state safety only and do not check deadlock. The two calls of one owner are
symmetric (`outbox_takeover`: 3 672 970 states).

## 4. Central adjudication

`Economics` is what the central host's commands do to money. `family` holds the
family heads (closed, unavailable, first closure, entitlement), `case` the
admitted cases, `supplier` and `pool` the capacities and `actions` what was posted
to the books. `Admit` is the new-case half of IMPORT and `CloseFamilies` the part
of CLOSE that touches families and suppliers; `EconomicSpec` runs them at any
moment, which is a weaker environment than the protocol. The unavailability loop
of `close` is modelled by what it computes: the least set that contains the
closed families and every family with an unavailable, unconsumed prerequisite.
Roles, assents, digests, evidence and certificates' text are abstracted; a
command that carries the wrong ones is refused and changes nothing.

`Adjudication` extends it with the protocol. Unprefixed variables (`grant`,
`token`, `gateway`, `enrollment`, `round`) belong to the centre, `local...`
variables to the gateways. One command is one store transaction at one host and
one action. A proof of a fact is read from the other host's state: facts are
immutable and provable for ever, so a proof that arrives late, twice or out of
order enables exactly the steps the model enables, at any later time. Times are
observed by each host's authority and unrelated to one another. A token has the
name of its grant, which it never shares; a delivery key is always fresh; a case
has one submission. Repeating a command returns its saved result and is a stutter.

`ClosedAtOnce` is what the protocol promises of a closure: one registry, with no
gateways elsewhere and no rounds, in which a receipt, an admission, a decision and
a closure each take one moment. A closure finds every case received at the gateways
it covers admitted, moves the pending cases of every family that loses its ordinary
path together, and from then on those gateways date no receipt before it; a family
allows one case, for ever. `Adjudication` implements it by the mapping at the end of
its definitions (`ClosesAtOnce`). A closure is shown at the centre's CLOSE, though
its gateways may install it long after. A case is shown as received from the
gateway's RECEIVE to its import, and a pending one as moved to adjustment as soon
as its family has lost its ordinary path, though `close` visits no case: whoever
reads it takes the effective status. Every other command shows nothing.

`Funding` extends the protocol with what its commands cost. `account` is each
host's resource account and `slots` what remains of every allocation: one slot for
each command its owner (a grant, a token, the right to close a family, a
cancellable round) may still need. The bundles of slots are those of the protocol's
`resources.json`. A command of `Adjudication` becomes `Funded...`: the same command
and its `Reserve`, `Spend` or `Settle` in one transaction; when it cannot be paid
for it is refused. `Pay` is for commands nothing was promised of. The module adds
`Supplement`, `ExtendResources` and `ReplaceWriter`; `epoch` is the writer's epoch
in a gateway's head and `writerEpoch` the one in its account. A receipt names the
epoch it was prepared for, at any time before. `receiptEpoch` and `receiptsAt` serve
the properties only. One additive amount stands for the five retained dimensions,
which are reserved, spent and released alike. What an account holds is compared with a sum over
all its owners (`AccountsBalance`). The code holds 32 rights to close at
every host, the model one for each enrolled family, of which there are at most 32.

| Run | Question |
| --- | --- |
| `economics_ledger` | four families, three of them in a chain, two on one supplier, two cases for one entitlement, up to three revisions: do heads, books, capacity and pools agree, does unavailability reach exactly the right families, is closing final? |
| `adjudication_fence` | two grants and two cases against one round in both modes: is anything left out of the closure? |
| `adjudication_rounds` | three rounds over any subsets of two gateways: can a stale control seal or install? |
| `adjudication_closures` | does a round of many commands close its families at one moment, with a family that depends on one closed, decisions between the steps, and a second round that closes at an earlier time than the first? |
| `adjudication_progress` | with accounts that cannot pay for everything, with decisions and corrections: is what has begun always paid for, do the accounts balance, does every round finish, does a replaced writer receive anything, do the books agree with the certificates? |

Bounds. Two grants are the least for a receipt and its alias, or for a gap in a
prefix; two cases for two receipts; two gateways for a partial round; three rounds
for a stale control that skips one. `adjudication_closures` has one gateway, one
grant, two cases of two families, one of which depends on the other, and two rounds
that cannot be cancelled (320 280 states); more of anything takes too long, and the
proof covers any number. In `adjudication_progress` a slot is worth one
unit, a decision or supplement twelve, an extension or a new writer six; the
accounts have room for the families' finishing bundles and for some, never all, of
two grants, two tokens, a cancellable round, a decision and a new writer, and one
extension is backed (302 806 states). Two writers are the least for a replaced one. Time 0..1 is enough for a receipt dated
before a closure that happens earlier. `Amounts`, `MaxRevision` and `MaxRound`
bound what authorities ask for. `adjudication_rounds` has no tokens, so that it can
be explored completely. `Pools` and `Grants` are finite: a document lists the pools,
and each grant raises a counter that can be exhausted.
Grants, cases and gateways that are alike are symmetric; the run with a liveness
property uses no symmetry. Deadlock is not checked: everything may be settled.

Fairness. `FairSpec` supposes that the hosts keep submitting the finishing
commands: return what an active round waits for, import, reconcile, advance, and
the steps of the round. No code forces a host to; what the code promises, and what
the run shows, is that submitting them is enough: none of them needs a decision,
a new grant or an open gateway. `FundedFairSpec`, which the run checks, supposes the
same of the funded commands, and each of them is refused when it cannot be paid
for. Nothing is supposed of grants, receipts,
decisions, preparations, extensions or aborts.

## 5. Anchored stores

A host may open a SQLite store with an anchor: a directory outside the database
and outside its backups in which the store keeps one small record. `Fence` models
the store's part of that agreement.

State. `files` is the database in each directory: its log of changes and its
witness row. `anchors` is the record in each anchor directory, STABLE(h) or
PENDING(h, g). `proc` is each process's open handle, with what it remembers of the
record and how far its commit has come. `issued`, `contents` and `seen` are
history variables: the changes attempted, the log each witness was made for, and
what was last shown of each anchor.

Actions. `Create` and `Initialize`, `OpenFenced`, `OpenPlain` (no anchor in the
configuration), recovery of a pending record, `Prepare`, `Commit`, `PlainCommit`
and `Read`. Publishing a record is `Rename` (write, sync, rename) and `Sync`
(directory sync, and only then the process believes it); `PublishFails` and
`CommitFails` are an I/O error or the worker's five seconds passing at any of
these points, `Stop` is close or death anywhere. `CopyDatabase` puts a copy of any
database into any directory nobody has open and `CopyAnchor` a record into another
anchor. What they leave out are the host's duties, stated in `Fence::acquire`: a
database is not replaced while it is open, and a record is not put back into its
own anchor. A store created without an anchor is a `Create` that dies before its
witness, then `OpenPlain`. A commit that changes nothing is not published.

A witness is a digest over its predecessor and 256 random bits; the model takes a
number never used before, so it supposes that digests and nonces do not collide.
`PublishedHistory` is the promise: each anchor has one history, which grows by one
change at a time and never loses one, and readers and acknowledged writers are
shown exactly that history. `Fence` implements it, the history of an anchor being
the log of the old witness in its record.

Run `fence_copies`: two processes, three directories, two anchors and three
changes (485 838 states up to symmetry). Three directories are the least for a
database, an older copy and a fork; two anchors for a record or a database in the
wrong one; three changes for a commit after a recovered one. Deadlock is not
checked: everything may be closed with every change used up.

## 6. Acceptance

State. `keys` is the table of delivery keys with the namespace the profiles share,
`claims` what each operation was accepted as and its place in its chain, `heads`
the revisions of the chains. `call` is each caller's call: the step its attempt
has reached, the snapshot it reads from, the attempts left and the answer. `late`
are COMMITs whose connection is gone and whose end is open.

Actions. `run` makes up to `MaxAttempt` attempts. `Begin` takes the snapshot of a
SERIALIZABLE transaction; everything `prepare` concludes, it concludes from that
snapshot: `Delivered` (duplicate or identity conflict), `OtherFacts`, `NoChain`,
`LockChain` (FOR UPDATE, refused when the chain has moved since the snapshot),
`PreviewAlias` and `PreviewPlan`. `WriteAlias` and `WriteOriginal` write under the
row of the commit witness, which one transaction holds at a time, and against the
unique indexes. `Sends` and then `Lands`, `Refuses` (serialisation failure) or
`LosesReply`; a lost COMMIT ends later in `LateLands` or `LateRollsBack`. `Fails`
is every error before COMMIT, the caller's deadline included: it is retried or
reported as "not now". `OutcomeDelivers` is another profile taking a key.

SQLite's BEGIN IMMEDIATE yields the runs in which one transaction is open at a
time. Grants, bindings, pricing and the rest of a plan only decide whether a call
is refused, which changes nothing. Chains are seeded with the installation, so
`Init` chooses which exist. A key of the R3 profile ends in an error that is not
retried, which is "not now" here.

`AcceptedOnce` is the promise: a call takes effect at one moment between its
beginning and its answer, or, when the answer is "unknown", once or never at some
later moment; and the answer is true when it is given.

Run `acceptance_callers`: two callers, two keys, two operations, two chains, four
candidates chosen so that an alias, both conflicts and a race for one chain occur,
and two attempts in place of five (292 511 states; callers are symmetric; deadlock
is checked).

## 7. Outcome settlement

State. One target, with one invocation, one reservation and one supplier binding.
`keys` are the outcome deliveries, `journal` the retained observations, `heads`
the rows of `outcome_heads`: the target's revision, the claim of each family, the
binding's aggregate and the reservation. `call` and `late` are as in Acceptance.

Actions. An attempt reads a snapshot and takes the write locks of its target and
reservation, which are among the locks of every command, so attempts on one
target exclude one another from `Locks` on. The row of a head is locked FOR UPDATE
and refuses a snapshot it has left behind (`Unmoved`); an alias moves no head, so
an attempt can hold the locks and still not see the newest delivery. Then the
answer is found in the order of `prepare` and `build`: `Waits`, `Delivered`,
`NoBase`, `OtherClaim`, `WritesAlias`, `Rejected`, `Unprojected`, `WritesPlan`.
`Permitted` is what `evaluate` and `build` require of a claim, a correction or a
close: deadlines, the expected revision, the caps on active premiums and
discounts, the reservation's open families. `Settled` is `settlement::project`.
`Applied` writes the records, the heads and the delivery together. Receipt and
occurrence times, evidence and authority only decide whether a command is refused.
Attempts are unlimited (five in the code) and keys in `Shared` may be taken by
others.

`HistoryReplays` is what `service/retained.rs` recomputes before any later command
is decided. `SettledOnce` is the promise: a family is claimed once and for ever,
its premium leaves the held money once, a correction moves the result and no money
of the reservation, the first close releases the rest, and every answer is true.

The comment at `service/accept/outcome.rs:986` calls failures against the current
reservation ordinary domain rejections. Three are not: a claim above what is held
(possible after a correction has made room under the premium cap), an acceptance
dated before the last one, and a second registration under another key are
answered by an integrity error, as is a key delivered for another target. None
changes anything; the model answers "integrity" as the code does.

Run `settlement_callers`: two callers, eight commands over five keys and two
families, two held atoms that one family can take and another then asks for, two
corrections written against one revision, a close, two moments (335 411 states;
callers are symmetric; deadlock is checked).

## 8. Billing

State. The ledger of one customer, with one source and one cumulative agreement.
`terms` are the versions of its terms (the instant they take effect and the
boundaries of their calendar), `ends` the resolved ends of periods, `closed` the
period closes with their statements, `entries` what was accepted, with its
assignment to a period, `presented` and `adHoc` the claims of adjustments by
statements, `last` the ledger's latest time. `call` is what a caller remembers
between two transactions of one call.

Actions. SQLite's BEGIN IMMEDIATE makes a transaction one action. `SetTerms` assigns
what was accepted before; `TransitionNext` and `TransitionNow` change the terms at
the next boundary or at once, the latter clipping the current period. A change at
once and a close that find their period unresolved roll back (`TransitionResolves`,
`CloseResolves`), resolve it in a second transaction at the time of the first
(`Resolve`) and start over with a new time; any other caller may write between.
`AcceptUnassigned`, `Accept` and `ActivitySubmit` take new entries.
`CorrectUnassigned`, `CorrectOpen` and `CorrectClosed` correct one, the last by an
adjustment in the period of today. `PeriodClose` and `StatementAdHoc` present.
`Stops` is an error or the process's end between two transactions. Permissions,
agreements and byte limits only refuse; a repeated request reads its result. A
calendar is a set of boundaries; which boundaries a timezone and an anchor
produce is left to the calendar's own arithmetic.

| Run | Question |
| --- | --- |
| `billing_periods` | two callers close, resolve and change terms while entries are accepted and corrected: do periods meet, does every entry lie in its period, is a closed period billed once and exactly? |
| `billing_straddle` | does an integrity failure mean damage? It does not: see below. |

Bounds of both: the boundaries 2, 4, 6 or 2, 5, 8, the instants 0..5, four changes of terms
(the first, two at once, one at the next boundary), three entries and one ad hoc
statement. That is enough to close two periods, to clip one in which something was
accepted, and to present an adjustment before, at and after a second close. An
atom for two units of activity makes every odd total round (210 287 states;
callers are symmetric; everything may be used up, so deadlock is not checked). No
fairness is assumed.

`billing_straddle` finds a change of terms at once whose two times lie on two
sides of a boundary: the second attempt finds another period unresolved than the
one it resolved and answers `IntegrityFailure` (`billing/term.rs:385`), over data in
which nothing is damaged. `docs/billing-cli-contract.md:33` and
`docs/m5-contracts.md:174` reserve that answer for inconsistent retained data.
Nothing is written, and the request succeeds when it is repeated.

## 9. What is proved

Every theorem holds for all values of the constants that satisfy the named
assumptions of its component's module.

| Theorem | Property | Module |
| --- | --- | --- |
| `TypeCorrect` | `TypeOK` | `OutboxProofs` |
| `NeverResent` | `NoBlindResend` | |
| `OneSender` | `SingleSender` | |
| `QuarantineHonoured` | `QuarantineVeto` | |
| `DependenciesFirst` | `DependencyOrder` | |
| `DeliveryIsReal` | `DeliveredIsReal` | |
| `HeldMeansSilent` | `NoReceiptWhileHeld` | |
| `ResumeSound` | `ResumeIsSound` | |
| `UncertaintyWaits` | `UncertaintyIsHeld` | |
| `FenceTypeOK` | `TypeOK` | `FenceProofs` |
| `WitnessTheorem` | `WitnessNamesContents` | |
| `RecoverableTheorem` | `CutsAreRecoverable` | |
| `PublishesTheorem` | `PublishesOneHistory` | |
| `AcceptanceTypeOK` | `TypeOK` | `AcceptanceProofs` |
| `JournalTheorem` | `JournalIsWhole` | |
| `AcceptsOnceTheorem` | `AcceptsOnce` | |
| `SettlementTypeOK` | `TypeOK` | `SettlementProofs` |
| `HistoryTheorem` | `HistoryReplays` | |
| `SettlesOnceTheorem` | `SettlesOnce` | |
| `EconomicTypes` | `EconomicTypeOK` | `AdjudicationProofs` |
| `EntitlementTheorem` | `EntitlementIsHead` | |
| `PathTheorem` | `NoStrandedCase` | |
| `OrphanTheorem` | `NoOrphanFamily` | |
| `ReleaseTheorem` | `ReleasedWithLastFamily` | |
| `LedgerTheorem` | `LedgerNets` | |
| `SupplierTheorem` | `SupplierConserved` | |
| `PoolsTheorem` | `PoolsCoverAdjustments` | |
| `PremiumTheorem` | `PremiumCapped` | |
| `ClosureTheorem` | `ClosureIsFinal` | |
| `ProtocolTypes` | `TypeOK` | |
| `FenceTheorem` | `FenceComplete` | |
| `ChronologyTheorem` | `Chronology` | |
| `DispositionTheorem` | `DispositionsAgree` | |
| `RetirementTheorem` | `RetiredIsUnspent` | |
| `PrefixTheorem` | `PrefixesAreDense` | |
| `CurrencyTheorem` | `RoundsAreCurrent` | |
| `RightTheorem` | `CloseRightHeld` | |
| `CertificateTheorem` | `CertificateCoversOrdinary` | |
| `ClosureRefinement` | `ClosesAtOnce` | |
| `FundedImplementsProtocol` | `Spec` of `Adjudication` | `FundingProofs` |
| `FinishingTheorem` | `FinishingIsFunded` | |
| `WritersTheorem` | `WritersInOrder` | |
| `AccountsTheorem` | `AccountsBalance` | |
| `BillingTypes` | `TypeOK` | `BillingProofs` |
| `PeriodsTheorem` | `PeriodsMeet` | |
| `AssignmentTheorem` | `EntriesFallInTheirPeriod` | |
| `BilledTheorem` | `BilledOnce` | |
| `BookedTheorem` | `BookedIsExact` | |

Outbox. For any number of intentions, owners and workers, any lease lengths and
any horizon. The argument is one inductive invariant, `Inv`. Its core is an order
of generations: a lease and an attempt never exceed the database's generation,
which never exceeds the destination's fence. A sender that the destination still
listens to therefore belongs to the newest lease, and a held or restored database
has none. The rest ties rows to attempts and receipts: an attempt that is still
current has its row leased with the same number and generation, a receipt exists
only for a row that is leased, unknown or settled, or while dispatch is held, and
the newest report speaks of the rows and receipts as they are until its
fingerprint changes. `NoBlindResend` alone is not inductive: a restore brings back
rows of any age, and only the hold, the generations and the report's fingerprint
together keep them from being sent.

Fence. `IInv` says what each witness was made for (`ContentsInv`), that a record in
its own anchor names witnesses that exist, a pending one a witness and its
successor by one change (`RecordsInv`), that a database with a witness is the
database of that witness (`FilesInv`), that the locks exclude (`LocksInv`), and
what a process at each step knows of record and row. The two facts the refinement
turns on are that nobody publishes but the one process that holds the anchor, and
that a record already moved to PENDING still counts the old witness as published:
only STABLE publishes, and it appends exactly one change.

Acceptance. `Inv` ties positions to heads (`PositionsInv`, `DistinctInv`), keys to
events (`DeliveredInv`), every snapshot to a past of the tables that they have only
grown from, and every written transaction, a caller's or a late one, to the plan
it will apply: one writer at a time, its key and claim free, its position next.
Because tables only grow, what an old snapshot showed of a key or a claim is true
for ever, which is what makes the answers of the refinement true.

Settlement. `HistoryReplays` is not inductive alone. `Inv` adds that the
reservation's statuses and the claim heads speak of the same families
(`StatusInv`), that deliveries and observations speak of the same commands
(`DeliveredInv`), that the money adds up (`Conserved`), that one transaction or one
COMMIT in doubt holds the target (`HolderInv`), and that whatever may still commit
was decided on the tables as they are (`Fits`). `PlanFacts` draws from them what a
command that fits may find; one lemma for each part of the history then shows that
one more observation keeps it. The limits are treated as an opaque predicate: the
history keeps whatever the last decision established. In the refinement a plan's
effect is one of the four moves of `SettledOnce` (`PlanMoves`); an alias finds the
claim it repeats because the claim's own delivery still holds it.

Economics. For any finite set of families, any graph of prerequisites among them,
any cases, suppliers and pools. Every command is first reduced to what it does to
one part of the state (a case denied, a case bound to its family at a revision,
capacity drawn, families closed: the lemmas `DenyStep` to `CloseStep`), and
`EconomicInv` is preserved part by part from those effects. `NoStrandedCase` needs
`PathInv`: a case pends for adjustment only where its family is unavailable. `NoOrphanFamily` rests on what the loop of `close`
computes: the families that become unavailable are the least stable set
(`LeastStable`), so each of them was closed or has a prerequisite in the set
(`LostToPrerequisite`).

The books are sums over the posted actions, and a command posts one action or none.
`PostingInv` adds what makes a sum grow by exactly what is posted: every action is
of an allowed case at a revision it has reached (`ActionsInv`), so that nothing was
posted at the next one. The actions of a case then net to its signed amount
(`LedgerNets`), the ordinary ones of a supplier's families to what was drawn from its
capacity, the adjustments to what all pools have used together (the cap of each pool is a part
of `EconomicInv`), and the positive ordinary amounts
of the retail families to the heads' totals, on which the premium cap is checked.

Sums. `SumOver` is a fold, and the library states what a fold does only through
an operator. `SumTheorems` proves what is needed, that a sum over a set with one more
member is the sum plus that member's value, that equal functions have equal sums and
disjoint sets add up, for every finite set. The provers do not apply an induction theorem that
takes an operator, so the hypothesis is a set: of the sizes up to which the recursion
has a solution, or of the subsets for which a fact holds.

Adjudication. For any gateways, grants, cases and rounds. The protocol runs the
economics in an environment that `EconomicSpec` already allows
(`ProtocolIsEconomic`), so `EconomicInv` is carried over and not proved again. Every
command of the protocol is reduced to its effect on one token or one round
(`TokenEffects`, `RoundEffects`), and each part of `AdjudicationInv` is preserved
from those effects:

- `TokenInv` places every token: what its grant, the centre's token and the
  gateway's token may be together. `ReceiptInv` and `AllocationInv` make positions and
  allocations of one gateway distinct and dense; without them an advance could pass
  a hole, so `PrefixesAreDense` is not inductive alone.
- `RoundInv` and `GatewayInv` say that every round but the active one is finished
  and installed wherever it applies, and at which point of the active round each
  gateway stands. A stale seal, drain or installation has no round left to act on.
- `SealInv` says that a gateway which has not yet installed a round that drained it
  is still sealed, with its cutoffs below the centre's prefixes. With `PrefixesAreDense`
  every token and receipt under a cutoff is settled (`SealedAdmitted`); this is
  `FenceComplete` until the installation, and `RoundInv` afterwards.
- `ClockInv` dates what is received after an installation no earlier than the
  closure, which is `Chronology` for the gateways that reopened.
- `BooksInv` says that what is posted is of admitted cases and that a committed
  round has closed its families; a family covered by a certificate is unavailable, no
  ordinary action is added to it, and `CertificateCoversOrdinary` stays true.

The registry. `ClosureRefinement` says that the protocol implements `ClosedAtOnce`. Four
commands show something: RECEIVE of a new case, IMPORT of one, DECIDE and CLOSE; for
every other command the lemmas show that no part of the mapping changes.

- RECEIVE dates a case no earlier than every closure that covers its gateway. An open
  gateway has installed each of them: a round it has not installed still holds it
  sealed (`SealInv`). By `ClockInv` its clock is then past their times, also when a
  later round closes at an earlier time, because an installation only raises the floor.
- CLOSE finds nothing received and not admitted at the gateways of its round
  (`SealedAdmitted`). What it makes unavailable is one set that satisfies the registry's
  condition: no set smaller than the least stable one would do, so every family in it is
  closed, was unavailable, or depends on another in it that is not settled
  (`LostToPrerequisite`), and, the set being stable, no other family is such.
- DECIDE allows a case of a family that is settled for no case yet: a family's
  entitlement is consumed exactly when one of its cases is allowed
  (`EntitlementIsHead`), and the ordinary path asks the same of every prerequisite.

Funding. For any costs, provisions, ceilings and extensions, up to the four
gateways the bundles provide for. A funded command is a command of the protocol
(`FundedImplementsProtocol`), so `AdjudicationInv` and every theorem above carry
over. `FinishingIsFunded` is proved from `FundingInv`. For grants and tokens
(`TokensInv`) the invariant adds that a token is advanced over only once it is
reconciled, so that the advance which releases its allocation leaves nothing unpaid.
For rounds (`RoundsInv`) it adds that a round has families and is aborted only when it
may be cancelled (`ModesInv`), and that a bundle prepared at a gateway is whole until
its round begins, and is there at every gateway of a cancellable round
(`PreparedInv`). A right to close is whole at every host until the one active round
that uses it: a round that cannot be cancelled ends with its families closed, so no
later round needs that right again. `AdjudicationInv` supplies the rest: one active
round at a time, and which step each gateway has reached. `WritersInOrder` needs only
that what a gateway had received when a writer took over it still has (`WriterInv`).
`AccountsBalance` is a sum over every owner a host could have, of whom a command moves
one or two. `AccountingInv` adds that an owner that does not exist yet has no slot
(`UsedInv`), so that a reservation never writes over another.

Billing. For any calendars in which what is left has a first boundary, any terms,
amounts, fractions, entries and callers. `BillingInv` is the four properties and
five parts. `TermsInv`: terms take effect one strictly after another, because a change
is refused while another has yet to take effect. `EndsInv`: a resolved end is the
calendar's, or the instant at which the next terms clipped it; with it `PeriodsMeet`
is kept by a resolution decided on terms that have changed since. `CallInv`: what a
caller is about to resolve is a period of terms that exist. `EntriesInv`: whatever is recorded was
accepted by now, in a period of its terms, and a correction corrects an entry before
it of the same kind; an entry accepted before a change at once lies before the
clipped end, because every write is later than every other. `ClosedInv`: a closed
period ended by now and what it presents is presented. Activity never asks whether
its period is closed; by `ClosedInv` and the advancing time it cannot join one that
is. `BookedIsExact` is kept because an adjustment books the difference of two rounded wholes, of
all activity of the period before and after it, whatever route the earlier corrections
took; no property of the rounding itself is used.

Only model-checked. `RoundsFinish`: liveness under fairness is outside the prover's
reach. Every other property of a passing run has a theorem. The type invariants and
`PremiumCapped` are proved, and no run spends a property on them.

## 10. What is not modelled

- The enrollment handshake: the models start after ENROLL, with terms its
  validation accepts (`EnrollmentAssumption`).
- Of the resource accounts: the workspace lane (the largest of a bundle's slots, not
  their sum) and the counters other than the writer's epoch. What the evidence of a
  supplement says: it changes no amount or status.
- Settlement's other doors: the base acceptances the R3 profiles prepare
  (`prepare_fresh_base`, `prepare_original_base`) and the reversal of a base.
- Power loss between a rename and its directory sync, which the store's own
  README does not certify; PostgreSQL's publication gate; migrations.
- Of billing: manual credits, fiscal versions and reports, recurrence, exports,
  workflow statements, the terms' agreements and permissions, several customers or
  sources.
- Policy, money and calendars: pure algorithms, planned as operators.
- SQL, wire formats, hashing, the workflow profile, maintenance, CLI and test kit:
  data construction and input/output without protocol state.
