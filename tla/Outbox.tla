------------------------------- MODULE Outbox -------------------------------
(***************************************************************************)
(* The delivery outbox of crates/ledgerlab/src/outbox: a ledger database   *)
(* with one dispatcher head and one delivery row per intention, dispatcher *)
(* tasks that claim, send and observe, an independent destination that     *)
(* fences by generation and deduplicates by key, and the operator controls *)
(* hold, restore, reconcile, quarantine and resume.                        *)
(*                                                                         *)
(* A ledger transaction runs under one lock (SQLite's single writer, the   *)
(* FOR UPDATE of PostgreSQL's installation row), so a transaction that     *)
(* touches only the database is one action.  Acquire, renew and hold also  *)
(* move the destination's fence BEFORE their commit: they are two steps,   *)
(* with the open transaction kept in tx, and the commit may succeed, be    *)
(* rolled back, or succeed without the caller learning it.  A send reads   *)
(* the database in one transaction and reaches the destination later.      *)
(***************************************************************************)
EXTENDS Integers, FiniteSets

CONSTANTS
  Key,          \* intentions; an id is also the idempotency key and the claim order
  DependsOn,    \* depends_on: what must be delivered before each key
  Owner,        \* dispatcher owner names
  NoOwner,      \* the None of an Option<String> owner
  Worker,       \* concurrent dispatch_one calls
  OwnerOf,      \* whose lease each worker uses
  NoKey,        \* the key of a worker that has no attempt
  MaxAttempts,  \* 20 in the code
  HeadLease,    \* 15 s: how long an acquisition or renewal lasts
  ItemLease,    \* 30 s: how long a claimed attempt lasts
  RetryDelay,   \* retry_delay, by attempt number
  Foreign,      \* keys the destination may hold someone else's receipt for
  MaxGeneration, \* the largest generation `plus` can reach without overflow
  BackupTimes,  \* when the operator may copy the database (bounds the model)
  Horizon,      \* the largest time the clock reaches (bounds the model)
  NoTx, NoReport

ASSUME KeyAssumption == Key \subseteq Nat /\ NoKey \notin Key
ASSUME DependsAssumption == DependsOn \in [Key -> SUBSET Key]
ASSUME OwnerAssumption ==
  NoOwner \notin Owner /\ OwnerOf \in [Worker -> Owner]
ASSUME TimeAssumption ==
  /\ MaxAttempts \in Nat \ {0}
  /\ HeadLease \in Nat /\ ItemLease \in Nat
  /\ MaxGeneration \in Nat /\ Horizon \in Nat /\ BackupTimes \subseteq Nat
  /\ RetryDelay \in [1..MaxAttempts -> Nat]
ASSUME ForeignAssumption == Foreign \subseteq Key

VARIABLES
  now,       \* the hosts' trusted UTC clock
  db,        \* the committed ledger database (outbox tables only)
  backup,    \* a copy of the database an operator may restore
  tx,        \* the open transaction that has already moved the fence, or NoTx
  fence,     \* the destination's fence for this store: generation and expiry
  receipts,  \* the destination's receipts by key
  leases,    \* the Lease value each owner was handed (generation 0: none)
  work       \* the Attempt each worker is carrying, and how far it got

dbVars == <<db, backup>>
destVars == <<fence, receipts>>
vars == <<now, db, backup, tx, fence, receipts, leases, work>>

-----------------------------------------------------------------------------
(* Types.  "none" is the state of an intention not accepted yet.           *)

State == {"none", "held", "pending", "leased", "delivered", "retry",
          "unknown", "rejected"}
Runnable == {"held", "pending", "retry"}
Outcome == {"none", "delivered", "mismatch", "absent", "unknown",
            "rejected", "fenced"}
Never == -1             \* an absent expiry, and the i64::MIN of a closed fence
Time == Nat \union {Never}

\* last_observation: a digest stands for the evidence it binds.
Observation == [kind : {"none", "response", "evidence"},
                what : State \union Outcome, at : Nat]
NoObservation == [kind |-> "none", what |-> "none", at |-> 0]

Delivery == [state : State, attempts : Nat, next : Nat,
             owner : Owner \union {NoOwner}, generation : Nat, until : Time,
             seen : Observation, quarantine : BOOLEAN]

Lease == [generation : Nat, restores : Nat]
NoLease == [generation |-> 0, restores |-> 0]

Attempt == [phase : {"idle", "claimed", "sending", "sent"},
            key : Key \union {NoKey}, number : Nat, until : Time,
            lease : Lease, at : Nat, outcome : Outcome]
Idle == [phase |-> "idle", key |-> NoKey, number |-> 0, until |-> Never,
         lease |-> NoLease, at |-> 0, outcome |-> "none"]

Receipt == {"none", "match", "foreign"}
Inventory == [known : BOOLEAN, receipts : [Key -> Receipt]]

\* What fingerprint_start and fingerprint_item bind; the item list is ordered
\* by id and carries no lease fields.
Mark == [state : State, attempts : Nat, next : Nat, seen : Observation,
         quarantine : BOOLEAN]
FingerprintType == [restores : Nat, generation : Nat, items : [Key -> Mark]]
Report == [fingerprint : FingerprintType, inventory : Inventory,
           complete : BOOLEAN]

Database == [restores : Nat, hold : BOOLEAN, enabled : BOOLEAN,
             owner : Owner \union {NoOwner}, generation : Nat, until : Time,
             open : BOOLEAN, items : [Key -> Delivery],
             report : Report \union {NoReport}]

Transaction == [db : Database, owner : Owner \union {NoOwner}]

ASSUME SentinelAssumption == NoReport \notin Report /\ NoTx \notin Transaction

-----------------------------------------------------------------------------
(* Helpers of the workflow.                                                *)

Max2(a, b) == IF a >= b THEN a ELSE b

Accepted(d) == {k \in Key : d.items[k].state # "none"}

\* clear: a delivery leaves its lease.
Clear(row, state) ==
  [row EXCEPT !.state = state, !.owner = NoOwner, !.until = Never]

\* The three sweeps of the store's write: Leases, Expired(now) and Restore.
SweepLeases(items) ==
  [k \in Key |-> IF items[k].state = "leased"
                 THEN Clear(items[k], "unknown") ELSE items[k]]
SweepExpired(items, t) ==
  [k \in Key |-> IF items[k].state = "leased" /\ items[k].until <= t
                 THEN Clear(items[k], "unknown") ELSE items[k]]
SweepRestore(items) ==
  [k \in Key |-> IF items[k].state \in State \ {"none", "rejected"}
                 THEN Clear(items[k], "unknown") ELSE items[k]]

\* valid: does the database still recognise this lease at time t?
Valid(o, l, t) ==
  /\ l.generation > 0
  /\ db.restores = l.restores
  /\ ~db.hold /\ db.enabled /\ db.open
  /\ db.owner = o /\ db.generation = l.generation
  /\ t < db.until

\* Faulty variant: only the attempt number and the generation are compared.
CurrentByNumber(w, t) ==
  LET a == work[w]  row == db.items[a.key] IN
  t < a.until /\ row.attempts = a.number /\ row.generation = a.lease.generation

\* current_attempt: is this attempt still the one the row is leased to?
CurrentAttempt(w, t) ==
  LET a == work[w]  row == db.items[a.key] IN
  /\ t < a.until
  /\ row.state = "leased" /\ ~row.quarantine
  /\ row.attempts = a.number /\ row.generation = a.lease.generation
  /\ row.owner = OwnerOf[w] /\ row.until = a.until

\* Faulty variant: a dependency that has been sent counts as delivered.
ReadyAfterSent(t) ==
  {k \in Key :
     LET row == db.items[k] IN
     /\ row.state \in Runnable /\ row.attempts < MaxAttempts
     /\ row.next <= t /\ ~row.quarantine
     /\ \A d \in DependsOn[k] : db.items[d].state \notin Runnable}

\* The rows a claim may pick: due, under the attempt limit, not quarantined,
\* every dependency delivered and not quarantined.
Ready(t) ==
  {k \in Key :
     LET row == db.items[k] IN
     /\ row.state \in Runnable /\ row.attempts < MaxAttempts
     /\ row.next <= t /\ ~row.quarantine
     /\ \A d \in DependsOn[k] :
          db.items[d].state = "delivered" /\ ~db.items[d].quarantine}

\* Faulty variant: any receipt under the key counts, whatever it is for.
ReconciledByKey(row, outcome) ==
  CASE row.state = "rejected" -> "rejected"
    [] row.state # "rejected" /\ outcome \in {"delivered", "mismatch"} -> "delivered"
    [] row.state # "rejected" /\ outcome = "absent" ->
         IF row.attempts >= MaxAttempts THEN "rejected" ELSE "pending"
    [] OTHER -> "unknown"

\* reconciled_state, for what the destination's lookup said of the key.
ReconciledState(row, outcome) ==
  CASE row.state = "rejected" -> "rejected"
    [] row.state # "rejected" /\ outcome = "delivered" -> "delivered"
    [] row.state # "rejected" /\ outcome \in {"mismatch", "rejected"} -> "rejected"
    [] row.state # "rejected" /\ outcome = "absent" ->
         IF row.attempts >= MaxAttempts THEN "rejected" ELSE "pending"
    [] OTHER -> "unknown"

\* The state observe gives the row of the current attempt.
ObservedState(row, outcome) ==
  CASE outcome = "delivered" -> "delivered"
    [] outcome \in {"mismatch", "rejected"} -> "rejected"
    [] outcome = "absent" ->
         IF row.attempts < MaxAttempts THEN "retry" ELSE "rejected"
    [] OTHER -> "unknown"

MarkOf(row) ==
  [state |-> row.state, attempts |-> row.attempts, next |-> row.next,
   seen |-> row.seen, quarantine |-> row.quarantine]
Fingerprint(d) ==
  [restores |-> d.restores, generation |-> d.generation,
   items |-> [k \in Key |-> MarkOf(d.items[k])]]

\* lookup and inventory_digest of the destination; "unknown" is the mode in
\* which its inventory cannot be read.
Lookup(k, readable) ==
  CASE ~readable -> "unknown"
    [] readable /\ receipts[k] = "match" -> "delivered"
    [] readable /\ receipts[k] = "foreign" -> "mismatch"
    [] OTHER -> "absent"
InventoryNow(readable) ==
  [known |-> readable,
   receipts |-> IF readable THEN receipts ELSE [k \in Key |-> "none"]]

-----------------------------------------------------------------------------
(* The destination (MemoryDestination).                                    *)

\* send: what the destination answers, and the receipt it keeps.
DestinationTakes(a) ==
  a.at < a.until /\ fence.generation = a.lease.generation /\ a.at < fence.until

Answers(a) ==
  CASE ~DestinationTakes(a) -> {"fenced"}
    [] DestinationTakes(a) /\ receipts[a.key] = "foreign" -> {"rejected"}
    [] DestinationTakes(a) /\ receipts[a.key] = "match" -> {"delivered", "unknown"}
    [] OTHER -> {"delivered", "unknown", "absent", "rejected"}

Keeps(a, answer) ==
  DestinationTakes(a) /\ answer \in {"delivered", "unknown"}

-----------------------------------------------------------------------------
(* Initial state: a bootstrapped store, dispatch held, nothing accepted.   *)

NewRow == [state |-> "none", attempts |-> 0, next |-> 0, owner |-> NoOwner,
           generation |-> 0, until |-> Never, seen |-> NoObservation,
           quarantine |-> FALSE]

NewDatabase ==
  [restores |-> 0, hold |-> TRUE, enabled |-> FALSE, owner |-> NoOwner,
   generation |-> 0, until |-> Never, open |-> FALSE,
   items |-> [k \in Key |-> NewRow], report |-> NoReport]

Init ==
  /\ now = 0
  /\ db = NewDatabase
  /\ backup = NewDatabase
  /\ tx = NoTx
  /\ fence = [generation |-> 0, until |-> Never]
  /\ \E foreign \in SUBSET Foreign :
       receipts = [k \in Key |-> IF k \in foreign THEN "foreign" ELSE "none"]
  /\ leases = [o \in Owner |-> NoLease]
  /\ work = [w \in Worker |-> Idle]

-----------------------------------------------------------------------------
(* The host: time, acceptance and backups.                                 *)

Tick ==
  /\ now < Horizon
  /\ now' = now + 1
  /\ UNCHANGED <<dbVars, tx, destVars, leases, work>>

\* An acceptance commits the intention with its delivery row held.
Accept(k) ==
  /\ tx = NoTx
  /\ db.items[k].state = "none"
  /\ DependsOn[k] \subseteq Accepted(db)
  /\ db' = [db EXCEPT !.items[k] = [NewRow EXCEPT !.state = "held", !.next = now]]
  /\ UNCHANGED <<now, backup, tx, destVars, leases, work>>

\* The operator copies the database.
Backup ==
  /\ tx = NoTx
  /\ now \in BackupTimes
  /\ backup' = db
  /\ UNCHANGED <<now, db, tx, destVars, leases, work>>

-----------------------------------------------------------------------------
(* Transactions that move the destination's fence before they commit.      *)

\* Faulty variant: the generation is kept, not advanced, once there is one.
SameGeneration(d) == Max2(1, Max2(d.generation, fence.generation))

\* The next generation is above the database's and the destination's, so a
\* restored database cannot reuse one.
NextGeneration(d) == Max2(d.generation, fence.generation) + 1

MoveFence(generation, until) ==
  /\ fence.generation <= generation /\ generation <= MaxGeneration
  /\ fence' = [generation |-> generation, until |-> until]

Acquire(o) ==
  LET g == NextGeneration(db) IN
  /\ tx = NoTx
  /\ ~db.hold /\ db.enabled
  /\ ~(db.owner # NoOwner /\ now < db.until)
  /\ MoveFence(g, now + HeadLease)
  /\ tx' = [owner |-> o,
            db |-> [db EXCEPT !.generation = g, !.owner = o,
                              !.until = now + HeadLease, !.open = TRUE,
                              !.items = SweepLeases(@)]]
  /\ UNCHANGED <<now, dbVars, receipts, leases, work>>

Renew(o) ==
  /\ tx = NoTx
  /\ Valid(o, leases[o], now)
  /\ MoveFence(leases[o].generation, now + HeadLease)
  /\ tx' = [owner |-> NoOwner, db |-> [db EXCEPT !.until = now + HeadLease]]
  /\ UNCHANGED <<now, dbVars, receipts, leases, work>>

\* The database hold(restore) writes, starting from database d.
HeldDatabase(d, restore) ==
  [d EXCEPT !.restores = IF restore THEN @ + 1 ELSE @,
            !.hold = TRUE, !.enabled = FALSE, !.generation = NextGeneration(d),
            !.owner = NoOwner, !.until = Never, !.open = FALSE,
            !.items = IF restore THEN SweepRestore(@) ELSE SweepLeases(@)]

\* Faulty variant: the ledger is held, the destination is not told.
HoldUnfenced(d, restore) ==
  /\ tx = NoTx
  /\ NextGeneration(d) <= MaxGeneration
  /\ tx' = [owner |-> NoOwner, db |-> HeldDatabase(d, restore)]
  /\ UNCHANGED <<now, dbVars, destVars, leases, work>>

\* hold: on the running database, or (open_restored_*) on a restored copy,
\* which is usable only once this transaction has committed.
HoldOn(d, restore) ==
  /\ tx = NoTx
  /\ MoveFence(NextGeneration(d), Never)
  /\ tx' = [owner |-> NoOwner, db |-> HeldDatabase(d, restore)]
  /\ UNCHANGED <<now, dbVars, receipts, leases, work>>

Hold(restore) == HoldOn(db, restore)
OpenRestored == HoldOn(backup, TRUE)

\* The commit succeeds and acquire hands out its lease.
Commit ==
  /\ tx # NoTx
  /\ db' = tx.db
  /\ leases' = IF tx.owner = NoOwner THEN leases
               ELSE [leases EXCEPT ![tx.owner] =
                       [generation |-> tx.db.generation,
                        restores |-> tx.db.restores]]
  /\ tx' = NoTx
  /\ UNCHANGED <<now, backup, destVars, work>>

\* OutcomeUnknown: the commit happened, the caller never learns it.
CommitUnacknowledged ==
  /\ tx # NoTx
  /\ db' = tx.db
  /\ tx' = NoTx
  /\ UNCHANGED <<now, backup, destVars, leases, work>>

\* RolledBack (or OutcomeUnknown with nothing written): the fence has moved.
Rollback ==
  /\ tx # NoTx
  /\ tx' = NoTx
  /\ UNCHANGED <<now, dbVars, destVars, leases, work>>

-----------------------------------------------------------------------------
(* Dispatch: claim, send, observe.                                         *)

Leased(row, w, t) ==
  [row EXCEPT !.attempts = @ + 1, !.state = "leased", !.owner = OwnerOf[w],
              !.generation = leases[OwnerOf[w]].generation,
              !.until = t + ItemLease]

\* claim: expired rows become unknown, the first ready row is leased; the
\* attempt is the worker's when it learns of the commit.
Claim(w, acknowledged) ==
  /\ tx = NoTx
  /\ work[w].phase = "idle"
  /\ Valid(OwnerOf[w], leases[OwnerOf[w]], now)
  /\ \E k \in Ready(now) :
       /\ \A j \in Ready(now) : k <= j
       /\ db' = [db EXCEPT !.items = [SweepExpired(@, now) EXCEPT
                                        ![k] = Leased(db.items[k], w, now)]]
       /\ work' = IF acknowledged
                  THEN [work EXCEPT ![w] =
                          [phase |-> "claimed", key |-> k,
                           number |-> db.items[k].attempts + 1,
                           until |-> now + ItemLease,
                           lease |-> leases[OwnerOf[w]], at |-> now,
                           outcome |-> "none"]]
                  ELSE work
  /\ UNCHANGED <<now, backup, tx, destVars, leases>>

\* claim with nothing ready still sweeps.
ClaimNothing(w) ==
  /\ tx = NoTx
  /\ work[w].phase = "idle"
  /\ Valid(OwnerOf[w], leases[OwnerOf[w]], now)
  /\ Ready(now) = {}
  /\ db' = [db EXCEPT !.items = SweepExpired(@, now)]
  /\ UNCHANGED <<now, backup, tx, destVars, leases, work>>

\* send, first half: the snapshot check, at the time the worker carries
\* (dispatch_one keeps the time of its claim) or at the present.
SendCheck(w) ==
  /\ tx = NoTx
  /\ work[w].phase \in {"claimed", "sent"}
  /\ \E t \in {work[w].at, now} :
       work' = [work EXCEPT ![w] =
                  IF Valid(OwnerOf[w], @.lease, t) /\ CurrentAttempt(w, t)
                  THEN [@ EXCEPT !.phase = "sending", !.at = t, !.outcome = "none"]
                  ELSE Idle]
  /\ UNCHANGED <<now, dbVars, tx, destVars, leases>>

\* send, second half: the destination receives outside any transaction.
Send(w) ==
  /\ work[w].phase = "sending"
  /\ \E answer \in Answers(work[w]) :
       /\ receipts' = IF Keeps(work[w], answer)
                      THEN [receipts EXCEPT ![work[w].key] = "match"]
                      ELSE receipts
       /\ work' = [work EXCEPT ![w].phase = "sent", ![w].outcome = answer]
  /\ UNCHANGED <<now, dbVars, tx, fence, leases>>

\* observe: only the current attempt may change its row.
Observe(w) ==
  /\ tx = NoTx
  /\ work[w].phase = "sent"
  /\ \E t \in {work[w].at, now} :
       LET a == work[w]
           row == db.items[a.key]
           state == ObservedState(row, a.outcome)
       IN IF Valid(OwnerOf[w], a.lease, t) /\ CurrentAttempt(w, t)
          THEN db' = [db EXCEPT !.items[a.key] =
                        [Clear(row, state) EXCEPT
                           !.next = IF state = "retry"
                                    THEN t + RetryDelay[row.attempts] ELSE @,
                           !.seen = [kind |-> "response", what |-> a.outcome,
                                     at |-> t]]]
          ELSE db' = db
  /\ work' = [work EXCEPT ![w] = Idle]
  /\ UNCHANGED <<now, backup, tx, destVars, leases>>

\* A dispatch_one call is cancelled, or its observation is rolled back.
Abandon(w) ==
  /\ work[w].phase # "idle"
  /\ work' = [work EXCEPT ![w] = Idle]
  /\ UNCHANGED <<now, dbVars, tx, destVars, leases>>

-----------------------------------------------------------------------------
(* Operator controls under a hold.                                         *)

\* reconcile: every accepted row is re-derived from the destination, and the
\* report records whether dispatch may resume.  No send can change the
\* receipts while dispatch is held (NoReceiptWhileHeld), so the destination
\* is read in one step.
Reconcile(readable) ==
  LET state(k) == ReconciledState(db.items[k], Lookup(k, readable))
      row(k) == [Clear(db.items[k], state(k)) EXCEPT
                   !.seen = [kind |-> "evidence", what |-> state(k), at |-> now]]
      rows == [k \in Key |-> IF k \in Accepted(db) THEN row(k) ELSE db.items[k]]
      unresolved == {k \in Accepted(db) :
                       rows[k].state \in {"unknown", "rejected"}
                       /\ ~rows[k].quarantine}
      orphans == {k \in Key \ Accepted(db) : receipts[k] # "none"}
  IN
  /\ tx = NoTx
  /\ db.hold /\ db.owner = NoOwner
  /\ db' = [db EXCEPT
              !.items = rows,
              !.report = [fingerprint |-> Fingerprint([db EXCEPT !.items = rows]),
                          inventory |-> InventoryNow(readable),
                          complete |-> readable /\ unresolved = {} /\ orphans = {}]]
  /\ UNCHANGED <<now, backup, tx, destVars, leases, work>>

\* Faulty variant: quarantine while dispatch runs.
QuarantineAnytime(k) ==
  /\ tx = NoTx
  /\ ~db.items[k].quarantine
  /\ db.items[k].seen.kind # "none"
  /\ db.items[k].state \in {"rejected", "unknown"}
  /\ db' = [db EXCEPT !.items[k].quarantine = TRUE]
  /\ UNCHANGED <<now, backup, tx, destVars, leases, work>>

\* quarantine: the operator names the observation currently on the row.
Quarantine(k) ==
  /\ tx = NoTx
  /\ db.hold /\ db.owner = NoOwner
  /\ ~db.items[k].quarantine
  /\ db.items[k].seen.kind # "none"
  /\ db.items[k].state \in {"rejected", "unknown"}
  /\ db' = [db EXCEPT !.items[k].quarantine = TRUE]
  /\ UNCHANGED <<now, backup, tx, destVars, leases, work>>

\* Faulty variants: a complete report is trusted without looking again; the
\* report's completeness is not required.
ResumeOnOldReport ==
  /\ tx = NoTx
  /\ db.hold
  /\ db.report # NoReport
  /\ db.report.complete
  /\ db' = [db EXCEPT !.hold = FALSE, !.enabled = TRUE, !.open = TRUE]
  /\ UNCHANGED <<now, backup, tx, destVars, leases, work>>

ResumeIncomplete ==
  /\ tx = NoTx
  /\ db.hold
  /\ db.report # NoReport
  /\ db.report.fingerprint = Fingerprint(db)
  /\ db.report.inventory = InventoryNow(TRUE)
  /\ db' = [db EXCEPT !.hold = FALSE, !.enabled = TRUE, !.open = TRUE]
  /\ UNCHANGED <<now, backup, tx, destVars, leases, work>>

\* resume: the newest report must still describe both sides, and be complete.
Resume ==
  /\ tx = NoTx
  /\ db.hold
  /\ db.report # NoReport
  /\ db.report.fingerprint = Fingerprint(db)
  /\ db.report.inventory = InventoryNow(TRUE)
  /\ db.report.complete
  /\ db' = [db EXCEPT !.hold = FALSE, !.enabled = TRUE, !.open = TRUE]
  /\ UNCHANGED <<now, backup, tx, destVars, leases, work>>

-----------------------------------------------------------------------------
Next ==
  \/ Tick
  \/ \E k \in Key : Accept(k)
  \/ Backup
  \/ \E o \in Owner : Acquire(o)
  \/ \E o \in Owner : Renew(o)
  \/ \E restore \in BOOLEAN : Hold(restore)
  \/ OpenRestored
  \/ Commit
  \/ CommitUnacknowledged
  \/ Rollback
  \/ \E w \in Worker, acknowledged \in BOOLEAN : Claim(w, acknowledged)
  \/ \E w \in Worker : ClaimNothing(w)
  \/ \E w \in Worker : SendCheck(w)
  \/ \E w \in Worker : Send(w)
  \/ \E w \in Worker : Observe(w)
  \/ \E w \in Worker : Abandon(w)
  \/ \E readable \in BOOLEAN : Reconcile(readable)
  \/ \E k \in Key : Quarantine(k)
  \/ Resume

Spec == Init /\ [][Next]_vars

-----------------------------------------------------------------------------
(* Properties.                                                             *)

\* The CHECK constraint of delivery_state, and the attempt limit.
RowOK(row) ==
  /\ row.state = "leased" <=> row.owner # NoOwner
  /\ row.state = "leased" <=> row.until # Never
  /\ row.state = "leased" => row.attempts > 0
  /\ row.attempts <= MaxAttempts
DatabaseOK(d) == d \in Database /\ \A k \in Key : RowOK(d.items[k])

\* Every variable keeps the shape of the record the code stores; in each
\* database lease fields are set exactly on leased rows, and no row exceeds the
\* attempt limit.
TypeOK ==
  /\ now \in Nat
  /\ DatabaseOK(db)
  /\ DatabaseOK(backup)
  /\ tx # NoTx => tx \in Transaction /\ DatabaseOK(tx.db)
  /\ fence \in [generation : Nat, until : Time]
  /\ receipts \in [Key -> Receipt]
  /\ leases \in [Owner -> Lease]
  /\ work \in [Worker -> Attempt]
  /\ \A w \in Worker : work[w].phase # "idle" => work[w].key \in Key

\* An attempt the destination would still take: its send can leave a receipt.
Live(w) ==
  /\ work[w].phase = "sending"
  /\ DestinationTakes(work[w])

\* While dispatch is enabled, an intention the destination has already received
\* is never offered to a claim again: whatever crashed, was lost, swept,
\* restored or re-accepted, a received key is not in a runnable state.
NoBlindResend ==
  ~db.hold =>
    \A k \in Key : receipts[k] # "none" => db.items[k].state \notin {"none"} \union Runnable

\* No key is being sent by two workers the destination would both listen to.
SingleSender ==
  \A v, w \in Worker :
    v # w /\ Live(v) /\ Live(w) => work[v].key # work[w].key

\* The destination receives an intention only after everything it depends on,
\* across restores of older databases as well.
DependencyOrder ==
  \A k \in Key : receipts[k] = "match" =>
    \A d \in DependsOn[k] : receipts[d] = "match"

\* A row the ledger calls delivered has a matching receipt at the destination.
DeliveredIsReal ==
  \A k \in Key : db.items[k].state = "delivered" => receipts[k] = "match"

\* Quarantine is a veto: no live attempt exists for a quarantined intention.
QuarantineVeto ==
  \A w \in Worker : Live(w) => ~db.items[work[w].key].quarantine

\* The destination records nothing while the ledger is held: hold fences it
\* first, so a send that passed its snapshot check just before is refused.
NoReceiptWhileHeld == [][receipts' # receipts => ~db.hold]_vars

\* Dispatch resumes only when every intention is settled one way: delivered
\* with its receipt, pending with none, or quarantined; and nothing the
\* destination received is missing locally.
ResumeIsSound ==
  [][db.hold /\ ~db'.hold =>
       \A k \in Key :
         \/ db'.items[k].state = "none" /\ receipts'[k] = "none"
         \/ db'.items[k].state = "delivered" /\ receipts'[k] = "match"
         \/ db'.items[k].state = "pending" /\ receipts'[k] = "none"
         \/ db'.items[k].quarantine]_vars

\* A potentially sent intention (unknown) becomes runnable, leased or delivered
\* only while dispatch is held: no late response, no clock and no worker turns
\* uncertainty into a retry or a success.
UncertaintyIsHeld ==
  [][\A k \in Key :
       /\ db.items[k].state = "unknown"
       /\ db'.items[k].state \in Runnable \union {"leased", "delivered"}
       => db.hold]_vars

=============================================================================
