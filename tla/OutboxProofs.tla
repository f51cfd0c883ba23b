---------------------------- MODULE OutboxProofs ----------------------------
(***************************************************************************)
(* Proofs about Outbox, for any set of intentions, owners and workers and  *)
(* any bounds.                                                             *)
(***************************************************************************)
EXTENDS Outbox, TLAPS

-----------------------------------------------------------------------------
(* Types.                                                                  *)

LEMMA ClearType ==
  ASSUME NEW row \in Delivery, NEW state \in State \ {"leased"}, RowOK(row)
  PROVE  Clear(row, state) \in Delivery /\ RowOK(Clear(row, state))
BY OwnerAssumption DEF Clear, Delivery, RowOK, Time, Never

LEMMA LeasedType ==
  ASSUME NEW row \in Delivery, NEW o \in Owner, NEW g \in Nat, NEW t \in Nat,
         row.attempts < MaxAttempts
  PROVE  LET new == [row EXCEPT !.attempts = @ + 1, !.state = "leased",
                                !.owner = o, !.generation = g,
                                !.until = t + ItemLease]
         IN  new \in Delivery /\ RowOK(new)
<1> DEFINE u == t + ItemLease  n == row.attempts + 1
           new == [row EXCEPT !.attempts = n, !.state = "leased", !.owner = o,
                              !.generation = g, !.until = u]
<1>1. u \in Nat /\ u # Never
  BY TimeAssumption DEF Never
<1>2. n \in Nat /\ n > 0 /\ n <= MaxAttempts
  BY TimeAssumption DEF Delivery
<1> HIDE DEF u, n
<1>3. new \in Delivery
  BY <1>1, <1>2 DEF Delivery, Time, State
<1>4. new.state = "leased" /\ new.attempts = n /\ new.owner = o /\ new.until = u
  BY DEF Delivery
<1>5. RowOK(new)
  BY <1>1, <1>2, <1>4, OwnerAssumption DEF RowOK
<1> QED
  BY <1>3, <1>5 DEF u, n

LEMMA SweepTypes ==
  ASSUME NEW items \in [Key -> Delivery], \A k \in Key : RowOK(items[k])
  PROVE  /\ SweepLeases(items) \in [Key -> Delivery]
         /\ \A k \in Key : RowOK(SweepLeases(items)[k])
         /\ SweepRestore(items) \in [Key -> Delivery]
         /\ \A k \in Key : RowOK(SweepRestore(items)[k])
         /\ \A t : SweepExpired(items, t) \in [Key -> Delivery]
         /\ \A t : \A k \in Key : RowOK(SweepExpired(items, t)[k])
<1>1. "unknown" \in State \ {"leased"}
  BY DEF State
<1>2. \A k \in Key : /\ Clear(items[k], "unknown") \in Delivery
                     /\ RowOK(Clear(items[k], "unknown"))
  BY <1>1, ClearType
<1> QED
  BY <1>2 DEF SweepLeases, SweepRestore, SweepExpired

LEMMA HeldType ==
  ASSUME NEW d, DatabaseOK(d), NEW restore \in BOOLEAN,
         NextGeneration(d) \in Nat
  PROVE  DatabaseOK(HeldDatabase(d, restore))
<1> DEFINE items == IF restore THEN SweepRestore(d.items) ELSE SweepLeases(d.items)
<1>1. d \in Database /\ d.items \in [Key -> Delivery]
  BY DEF DatabaseOK, Database
<1>2. items \in [Key -> Delivery] /\ \A k \in Key : RowOK(items[k])
  BY <1>1, SweepTypes DEF DatabaseOK
<1> DEFINE r == IF restore THEN d.restores + 1 ELSE d.restores
           g == NextGeneration(d)
<1>3. HeldDatabase(d, restore) =
        [d EXCEPT !.restores = r, !.hold = TRUE, !.enabled = FALSE,
                  !.generation = g, !.owner = NoOwner, !.until = Never,
                  !.open = FALSE, !.items = items]
  BY DEF HeldDatabase
<1>4. r \in Nat /\ g \in Nat
  BY <1>1 DEF Database
<1> HIDE DEF r, g, items
<1>5. HeldDatabase(d, restore) \in Database /\ HeldDatabase(d, restore).items = items
  BY <1>1, <1>2, <1>3, <1>4 DEF Database, Time
<1> QED
  BY <1>2, <1>5 DEF DatabaseOK

LEMMA ItemsType ==
  ASSUME NEW d, DatabaseOK(d), NEW items \in [Key -> Delivery],
         \A k \in Key : RowOK(items[k])
  PROVE  DatabaseOK([d EXCEPT !.items = items])
BY DEF DatabaseOK, Database

LEMMA NewRowType == NewRow \in Delivery /\ RowOK(NewRow)
BY TimeAssumption DEF NewRow, Delivery, RowOK, State, Time, Never, Observation,
   NoObservation, Outcome

LEMMA TypeInit == Init => TypeOK
<1> SUFFICES ASSUME Init PROVE TypeOK
  OBVIOUS
<1>1. NewRow \in Delivery /\ RowOK(NewRow)
  BY NewRowType
<1>2. DatabaseOK(NewDatabase)
  BY <1>1 DEF DatabaseOK, NewDatabase, Database, Time, Never
<1>3. Idle \in Attempt /\ NoLease \in Lease
  BY DEF Idle, Attempt, NoLease, Lease, Time, Never, Outcome
<1> QED
  BY <1>2, <1>3 DEF Init, TypeOK, Receipt, Time, Never, Idle

\* What reconcile writes, with its local names made visible.
ReconciledRow(k, readable) ==
  LET state == ReconciledState(db.items[k], Lookup(k, readable)) IN
  [Clear(db.items[k], state) EXCEPT
     !.seen = [kind |-> "evidence", what |-> state, at |-> now]]
ReconciledRows(readable) ==
  [k \in Key |-> IF k \in Accepted(db) THEN ReconciledRow(k, readable)
                 ELSE db.items[k]]
ReconciledReport(readable) ==
  [fingerprint |-> Fingerprint([db EXCEPT !.items = ReconciledRows(readable)]),
   inventory |-> InventoryNow(readable),
   complete |->
     /\ readable
     /\ {k \in Accepted(db) : ReconciledRows(readable)[k].state \in {"unknown", "rejected"}
                              /\ ~ReconciledRows(readable)[k].quarantine} = {}
     /\ {k \in Key \ Accepted(db) : receipts[k] # "none"} = {}]

LEMMA ReconcileWrites ==
  ASSUME NEW readable \in BOOLEAN, Reconcile(readable)
  PROVE  db' = [db EXCEPT !.items = ReconciledRows(readable),
                          !.report = ReconciledReport(readable)]
BY DEF Reconcile, ReconciledRows, ReconciledRow, ReconciledReport

LEMMA ReconcileType ==
  ASSUME TypeOK, NEW readable \in BOOLEAN, Reconcile(readable)
  PROVE  /\ DatabaseOK(db')
         /\ ReconciledRows(readable) \in [Key -> Delivery]
         /\ ReconciledReport(readable) \in Report
         /\ db'.items = ReconciledRows(readable)
         /\ db'.report = ReconciledReport(readable)
<1> DEFINE rows == ReconciledRows(readable)
<1>1. /\ db \in Database /\ db.items \in [Key -> Delivery]
      /\ \A k \in Key : RowOK(db.items[k])
  BY DEF TypeOK, DatabaseOK, Database
<1>2. ASSUME NEW k \in Key
      PROVE  ReconciledRow(k, readable) \in Delivery /\ RowOK(ReconciledRow(k, readable))
  <2> DEFINE state == ReconciledState(db.items[k], Lookup(k, readable))
             new == [kind |-> "evidence", what |-> state, at |-> now]
  <2>1. state \in State \ {"leased"}
    BY DEF ReconciledState, State
  <2>2. new \in Observation
    BY <2>1 DEF Observation, TypeOK
  <2>3. ReconciledRow(k, readable) = [Clear(db.items[k], state) EXCEPT !.seen = new]
    BY DEF ReconciledRow
  <2> HIDE DEF new, state
  <2>4. Clear(db.items[k], state) \in Delivery /\ RowOK(Clear(db.items[k], state))
    BY <1>1, <2>1, ClearType
  <2> QED
    BY <2>2, <2>3, <2>4 DEF Delivery, RowOK
<1>3. rows \in [Key -> Delivery] /\ \A k \in Key : RowOK(rows[k])
  BY <1>1, <1>2 DEF ReconciledRows
<1> HIDE DEF rows
<1>4. \A k \in Key : MarkOf(rows[k]) \in Mark
  BY <1>3 DEF MarkOf, Mark, Delivery
<1>5. Fingerprint([db EXCEPT !.items = rows]) \in FingerprintType
  <2>1. Fingerprint([db EXCEPT !.items = rows]) =
          [restores |-> db.restores, generation |-> db.generation,
           items |-> [k \in Key |-> MarkOf(rows[k])]]
    BY <1>1 DEF Fingerprint, Database
  <2> QED
    BY <1>1, <1>4, <2>1 DEF FingerprintType, Database
<1>6. InventoryNow(readable) \in Inventory
  BY DEF InventoryNow, Inventory, TypeOK, Receipt
<1>7. ReconciledReport(readable) \in Report
  BY <1>5, <1>6 DEF ReconciledReport, Report, rows
<1>8. db' = [db EXCEPT !.items = rows, !.report = ReconciledReport(readable)]
  BY ReconcileWrites DEF rows
<1>9. db' \in Database /\ db'.items = rows /\ db'.report = ReconciledReport(readable)
  BY <1>1, <1>3, <1>7, <1>8 DEF Database
<1> QED
  BY <1>3, <1>7, <1>9 DEF DatabaseOK, rows

LEMMA GenerationType ==
  ASSUME NEW d \in Database, fence \in [generation : Nat, until : Time]
  PROVE  /\ NextGeneration(d) \in Nat
         /\ NextGeneration(d) > d.generation
         /\ NextGeneration(d) > fence.generation
BY DEF NextGeneration, Max2, Database

LEMMA TypeHold ==
  ASSUME TypeOK, NEW d, DatabaseOK(d), NEW restore \in BOOLEAN,
         HoldOn(d, restore)
  PROVE  TypeOK'
<1>1. DatabaseOK(HeldDatabase(d, restore))
  BY HeldType, GenerationType DEF TypeOK, DatabaseOK
<1>2. fence' \in [generation : Nat, until : Time]
  BY GenerationType DEF HoldOn, MoveFence, TypeOK, DatabaseOK, Time
<1>3. tx' \in Transaction /\ DatabaseOK(tx'.db)
  BY <1>1 DEF HoldOn, Transaction, DatabaseOK
<1> QED
  BY <1>2, <1>3 DEF TypeOK, HoldOn, dbVars, DatabaseOK, RowOK

LEMMA TypeStep == TypeOK /\ [Next]_vars => TypeOK'
<1> SUFFICES ASSUME TypeOK, [Next]_vars PROVE TypeOK'
  OBVIOUS
<1> USE DEF dbVars, destVars
<1>a. /\ db \in Database /\ db.items \in [Key -> Delivery]
      /\ \A k \in Key : RowOK(db.items[k])
  BY DEF TypeOK, DatabaseOK, Database
<1>1. CASE Tick
  BY <1>1 DEF Tick, TypeOK, DatabaseOK, RowOK
<1>2. ASSUME NEW k \in Key, Accept(k) PROVE TypeOK'
  <2> DEFINE new == [NewRow EXCEPT !.state = "held", !.next = now]
             rows == [db.items EXCEPT ![k] = new]
  <2>1. new \in Delivery /\ RowOK(new)
    <3>1. NewRow.owner = NoOwner /\ NewRow.until = Never /\ NewRow.attempts = 0
      BY DEF NewRow
    <3> QED
      BY <3>1, NewRowType, TimeAssumption DEF TypeOK, Delivery, RowOK, State
  <2> HIDE DEF new
  <2>2. rows \in [Key -> Delivery] /\ \A j \in Key : RowOK(rows[j])
    BY <1>a, <2>1
  <2>3. db' = [db EXCEPT !.items = rows]
    BY <1>2 DEF Accept, new
  <2> HIDE DEF rows
  <2>4. DatabaseOK(db')
    BY <2>2, <2>3, ItemsType DEF TypeOK
  <2> QED
    BY <1>2, <2>4 DEF Accept, TypeOK, DatabaseOK, RowOK
<1>3. CASE Backup
  BY <1>3 DEF Backup, TypeOK, DatabaseOK, RowOK
<1>4. ASSUME NEW o \in Owner, Acquire(o) PROVE TypeOK'
  <2> DEFINE g == NextGeneration(db)  u == now + HeadLease
             rows == SweepLeases(db.items)
             new == [db EXCEPT !.generation = g, !.owner = o, !.until = u,
                               !.open = TRUE, !.items = rows]
  <2>1. g \in Nat /\ u \in Time
    BY <1>a, GenerationType, TimeAssumption DEF TypeOK, Time
  <2>2. rows \in [Key -> Delivery] /\ \A k \in Key : RowOK(rows[k])
    BY <1>a, SweepTypes
  <2>3. fence' = [generation |-> g, until |-> u] /\ tx' = [owner |-> o, db |-> new]
    BY <1>4 DEF Acquire, MoveFence
  <2> HIDE DEF g, u, rows
  <2>4. new \in Database /\ new.items = rows
    BY <1>a, <2>1, <2>2 DEF Database
  <2> HIDE DEF new
  <2>5. tx' \in Transaction /\ DatabaseOK(tx'.db)
    BY <2>2, <2>3, <2>4 DEF Transaction, DatabaseOK
  <2>6. fence' \in [generation : Nat, until : Time]
    BY <2>1, <2>3
  <2> QED
    BY <1>4, <2>5, <2>6 DEF Acquire, TypeOK, DatabaseOK, RowOK
<1>5. ASSUME NEW o \in Owner, Renew(o) PROVE TypeOK'
  <2> DEFINE u == now + HeadLease  new == [db EXCEPT !.until = u]
  <2>1. u \in Time /\ leases[o].generation \in Nat
    BY TimeAssumption DEF TypeOK, Time, Lease
  <2>2. /\ fence' = [generation |-> leases[o].generation, until |-> u]
        /\ tx' = [owner |-> NoOwner, db |-> new]
    BY <1>5 DEF Renew, MoveFence
  <2> HIDE DEF u
  <2>3. new \in Database /\ new.items = db.items
    BY <1>a, <2>1 DEF Database
  <2> HIDE DEF new
  <2>4. tx' \in Transaction /\ DatabaseOK(tx'.db)
    BY <1>a, <2>2, <2>3 DEF Transaction, DatabaseOK
  <2>5. fence' \in [generation : Nat, until : Time]
    BY <2>1, <2>2
  <2> QED
    BY <1>5, <2>4, <2>5 DEF Renew, TypeOK, DatabaseOK, RowOK
<1>6. ASSUME NEW restore \in BOOLEAN, Hold(restore) PROVE TypeOK'
  BY <1>6, TypeHold DEF Hold, TypeOK
<1>7. CASE OpenRestored
  BY <1>7, TypeHold DEF OpenRestored, TypeOK
<1>8. CASE Commit
  <2>1. DatabaseOK(db')
    BY <1>8 DEF Commit, TypeOK
  <2>2. leases' \in [Owner -> Lease]
    BY <1>8 DEF Commit, TypeOK, Transaction, Database, Lease
  <2> QED
    BY <1>8, <2>1, <2>2 DEF Commit, TypeOK, DatabaseOK, RowOK
<1>9. CASE CommitUnacknowledged
  BY <1>9 DEF CommitUnacknowledged, TypeOK, DatabaseOK, RowOK
<1>10. CASE Rollback
  BY <1>10 DEF Rollback, TypeOK, DatabaseOK, RowOK
<1>11. ASSUME NEW w \in Worker, NEW ack \in BOOLEAN, Claim(w, ack) PROVE TypeOK'
  <2>1. PICK k \in Ready(now) :
          /\ db' = [db EXCEPT !.items = [SweepExpired(db.items, now) EXCEPT
                                           ![k] = Leased(db.items[k], w, now)]]
          /\ work' = IF ack
                     THEN [work EXCEPT ![w] =
                             [phase |-> "claimed", key |-> k,
                              number |-> db.items[k].attempts + 1,
                              until |-> now + ItemLease,
                              lease |-> leases[OwnerOf[w]], at |-> now,
                              outcome |-> "none"]]
                     ELSE work
    BY <1>11 DEF Claim
  <2>2. k \in Key /\ db.items[k] \in Delivery /\ RowOK(db.items[k])
        /\ db.items[k].attempts < MaxAttempts
    BY <1>a, <2>1 DEF Ready
  <2>3. OwnerOf[w] \in Owner /\ leases[OwnerOf[w]] \in Lease
    BY OwnerAssumption DEF TypeOK
  <2>4. Leased(db.items[k], w, now) \in Delivery /\ RowOK(Leased(db.items[k], w, now))
    <3>1. leases[OwnerOf[w]].generation \in Nat
      BY <2>3 DEF Lease
    <3>2. now \in Nat
      BY DEF TypeOK
    <3> QED
      BY <2>2, <2>3, <3>1, <3>2, LeasedType DEF Leased
  <2>5. DatabaseOK(db')
    <3> DEFINE rows == [SweepExpired(db.items, now) EXCEPT
                          ![k] = Leased(db.items[k], w, now)]
    <3>1. rows \in [Key -> Delivery] /\ \A j \in Key : RowOK(rows[j])
      BY <1>a, <2>2, <2>4, SweepTypes
    <3> HIDE DEF rows
    <3>2. DatabaseOK([db EXCEPT !.items = rows])
      BY <3>1, ItemsType DEF TypeOK
    <3> QED
      BY <2>1, <3>2 DEF rows
  <2>6. work' \in [Worker -> Attempt]
        /\ \A v \in Worker : work'[v].phase # "idle" => work'[v].key \in Key
    <3> DEFINE a == [phase |-> "claimed", key |-> k,
                     number |-> db.items[k].attempts + 1,
                     until |-> now + ItemLease,
                     lease |-> leases[OwnerOf[w]], at |-> now,
                     outcome |-> "none"]
    <3>1. db.items[k].attempts + 1 \in Nat /\ now + ItemLease \in Time /\ now \in Nat
      BY <2>2, TimeAssumption DEF TypeOK, Delivery, Time
    <3>2. a \in Attempt /\ a.key \in Key
      BY <2>2, <2>3, <3>1 DEF Attempt, Outcome
    <3>3. work' = IF ack THEN [work EXCEPT ![w] = a] ELSE work
      BY <2>1
    <3> HIDE DEF a
    <3> QED
      BY <3>2, <3>3 DEF TypeOK
  <2> QED
    BY <1>11, <2>5, <2>6 DEF Claim, TypeOK, DatabaseOK, RowOK
<1>12. ASSUME NEW w \in Worker, ClaimNothing(w) PROVE TypeOK'
  <2>1. DatabaseOK(db')
    BY <1>a, <1>12, SweepTypes, ItemsType DEF ClaimNothing, TypeOK
  <2> QED
    BY <1>12, <2>1 DEF ClaimNothing, TypeOK, DatabaseOK, RowOK
<1>13. ASSUME NEW w \in Worker, SendCheck(w) PROVE TypeOK'
  <2>1. PICK t \in {work[w].at, now} :
          work' = [work EXCEPT ![w] =
                     IF Valid(OwnerOf[w], work[w].lease, t) /\ CurrentAttempt(w, t)
                     THEN [work[w] EXCEPT !.phase = "sending", !.at = t,
                                          !.outcome = "none"]
                     ELSE Idle]
    BY <1>13 DEF SendCheck
  <2>2. t \in Nat /\ work[w] \in Attempt /\ work[w].key \in Key
    BY <1>13 DEF SendCheck, TypeOK, Attempt
  <2>3. Idle \in Attempt
    BY DEF Idle, Attempt, NoLease, Lease, Time, Never, Outcome
  <2>4. [work[w] EXCEPT !.phase = "sending", !.at = t, !.outcome = "none"] \in Attempt
    BY <2>2 DEF Attempt, Outcome
  <2>5. work' \in [Worker -> Attempt]
        /\ \A v \in Worker : work'[v].phase # "idle" => work'[v].key \in Key
    BY <2>1, <2>2, <2>3, <2>4 DEF TypeOK, Attempt, Idle
  <2> QED
    BY <1>13, <2>5 DEF SendCheck, TypeOK, DatabaseOK, RowOK
<1>14. ASSUME NEW w \in Worker, Send(w) PROVE TypeOK'
  <2>1. PICK answer \in Answers(work[w]) :
          /\ receipts' = IF Keeps(work[w], answer)
                         THEN [receipts EXCEPT ![work[w].key] = "match"]
                         ELSE receipts
          /\ work' = [work EXCEPT ![w].phase = "sent", ![w].outcome = answer]
    BY <1>14 DEF Send
  <2>2. answer \in Outcome
    BY <2>1 DEF Answers, Outcome
  <2>3. receipts' \in [Key -> Receipt]
    BY <2>1 DEF TypeOK, Receipt
  <2>4. work' \in [Worker -> Attempt]
        /\ \A v \in Worker : work'[v].phase # "idle" => work'[v].key \in Key
    <3> DEFINE a == [work[w] EXCEPT !.phase = "sent", !.outcome = answer]
    <3>1. work[w] \in Attempt /\ work[w].key \in Key
      BY <1>14 DEF Send, TypeOK
    <3>2. a \in Attempt /\ a.key = work[w].key
      BY <2>2, <3>1 DEF Attempt
    <3>3. work' = [work EXCEPT ![w] = a]
      BY <2>1
    <3> HIDE DEF a
    <3> QED
      BY <3>1, <3>2, <3>3 DEF TypeOK
  <2> QED
    BY <1>14, <2>3, <2>4 DEF Send, TypeOK, DatabaseOK, RowOK
<1>15. ASSUME NEW w \in Worker, Observe(w) PROVE TypeOK'
  <2>1. work' = [work EXCEPT ![w] = Idle] /\ work[w].key \in Key
    BY <1>15 DEF Observe, TypeOK
  <2>2. Idle \in Attempt /\ Idle.phase = "idle"
    BY DEF Idle, Attempt, NoLease, Lease, Time, Never, Outcome
  <2>3. work' \in [Worker -> Attempt]
        /\ \A v \in Worker : work'[v].phase # "idle" => work'[v].key \in Key
    BY <2>1, <2>2 DEF TypeOK
  <2> DEFINE a == work[w]  row == db.items[a.key]
             state == ObservedState(row, a.outcome)
             new(t) == [Clear(row, state) EXCEPT
                          !.next = IF state = "retry"
                                   THEN t + RetryDelay[row.attempts] ELSE @,
                          !.seen = [kind |-> "response", what |-> a.outcome,
                                    at |-> t]]
  <2>4. PICK t \in {work[w].at, now} :
          IF Valid(OwnerOf[w], a.lease, t) /\ CurrentAttempt(w, t)
          THEN db' = [db EXCEPT !.items[a.key] = new(t)]
          ELSE db' = db
    BY <1>15 DEF Observe
  <2>5. t \in Nat /\ a.outcome \in Outcome /\ row \in Delivery /\ RowOK(row)
    BY <1>a, <2>1 DEF TypeOK, Attempt
  <2>6. state \in State \ {"leased"}
    BY DEF ObservedState, State
  <2> HIDE DEF state
  <2>7. Clear(row, state) \in Delivery /\ RowOK(Clear(row, state))
        /\ Clear(row, state).next \in Nat
    BY <2>5, <2>6, ClearType DEF Delivery
  <2>8. CASE CurrentAttempt(w, t) /\ db' = [db EXCEPT !.items[a.key] = new(t)]
    <3>1. row.attempts \in 1..MaxAttempts
      BY <2>5, <2>8, TimeAssumption DEF CurrentAttempt, RowOK, Delivery
    <3>a. RetryDelay[row.attempts] \in Nat
      <4> HIDE DEF row
      <4> QED
        BY <3>1, TimeAssumption
    <3>b. t + RetryDelay[row.attempts] \in Nat
      <4> DEFINE delay == RetryDelay[row.attempts]
      <4>1. t \in Nat /\ delay \in Nat
        BY <2>5, <3>a
      <4> HIDE DEF delay
      <4>2. t + delay \in Nat
        BY <4>1
      <4> QED
        BY <4>2 DEF delay
    <3>2. (IF state = "retry" THEN t + RetryDelay[row.attempts]
           ELSE Clear(row, state).next) \in Nat
      BY <2>7, <3>b
    <3>3. [kind |-> "response", what |-> a.outcome, at |-> t] \in Observation
      BY <2>5 DEF Observation
    <3>4. new(t) \in Delivery /\ RowOK(new(t))
      BY <2>7, <3>2, <3>3 DEF Delivery, RowOK
    <3> HIDE DEF new
    <3> DEFINE rows == [db.items EXCEPT ![a.key] = new(t)]
    <3>5. rows \in [Key -> Delivery] /\ \A j \in Key : RowOK(rows[j])
      BY <1>a, <2>1, <3>4
    <3> HIDE DEF rows
    <3>6. DatabaseOK([db EXCEPT !.items = rows])
      BY <3>5, ItemsType DEF TypeOK
    <3> QED
      BY <1>15, <2>3, <2>8, <3>6 DEF Observe, TypeOK, DatabaseOK, RowOK, rows
  <2>9. CASE db' = db
    BY <1>15, <2>3, <2>9 DEF Observe, TypeOK, DatabaseOK, RowOK
  <2> QED
    BY <2>4, <2>8, <2>9
<1>16. ASSUME NEW w \in Worker, Abandon(w) PROVE TypeOK'
  <2>1. Idle \in Attempt /\ Idle.phase = "idle"
    BY DEF Idle, Attempt, NoLease, Lease, Time, Never, Outcome
  <2> QED
    BY <1>16, <2>1 DEF Abandon, TypeOK, DatabaseOK, RowOK
<1>17. ASSUME NEW readable \in BOOLEAN, Reconcile(readable) PROVE TypeOK'
  <2> QED
    BY <1>17, ReconcileType DEF Reconcile, TypeOK, DatabaseOK, RowOK
<1>18. ASSUME NEW k \in Key, Quarantine(k) PROVE TypeOK'
  <2> DEFINE new == [db.items[k] EXCEPT !.quarantine = TRUE]
             rows == [db.items EXCEPT ![k] = new]
  <2>1. new \in Delivery /\ RowOK(new)
    BY <1>a DEF Delivery, RowOK
  <2> HIDE DEF new
  <2>2. rows \in [Key -> Delivery] /\ \A j \in Key : RowOK(rows[j])
    BY <1>a, <2>1
  <2>3. db' = [db EXCEPT !.items = rows]
    BY <1>18 DEF Quarantine, new
  <2> HIDE DEF rows
  <2>4. DatabaseOK(db')
    BY <2>2, <2>3, ItemsType DEF TypeOK
  <2> QED
    BY <1>18, <2>4 DEF Quarantine, TypeOK, DatabaseOK, RowOK
<1>19. CASE Resume
  <2>1. DatabaseOK(db')
    BY <1>a, <1>19 DEF Resume, DatabaseOK, Database
  <2> QED
    BY <1>19, <2>1 DEF Resume, TypeOK, DatabaseOK, RowOK
<1>20. CASE UNCHANGED vars
  BY <1>20 DEF vars, TypeOK, DatabaseOK, RowOK
<1> QED
  BY <1>1, <1>2, <1>3, <1>4, <1>5, <1>6, <1>7, <1>8, <1>9, <1>10, <1>11, <1>12,
     <1>13, <1>14, <1>15, <1>16, <1>17, <1>18, <1>19, <1>20 DEF Next

\* The type invariant of the specification: in every reachable state each
\* database row satisfies the schema's CHECK and no row has been attempted more
\* often than the limit, however many workers, restores and lost commits.
THEOREM TypeCorrect == Spec => []TypeOK
BY TypeInit, TypeStep, PTL DEF Spec

-----------------------------------------------------------------------------
(* The inductive invariant.                                                *)

\* An attempt made under the database's present generation.
Current(w) ==
  work[w].phase # "idle" /\ work[w].lease.generation = db.generation

\* Generations: the destination is never behind the ledger, and nobody holds a
\* lease the ledger has not committed.
GenerationInv ==
  /\ db.generation <= fence.generation
  /\ backup.generation <= fence.generation
  /\ \A o \in Owner : leases[o].generation <= db.generation
  /\ \A w \in Worker : work[w].lease.generation <= db.generation

\* A held ledger has a generation nobody holds a lease for.
HoldInv ==
  db.hold => /\ \A o \in Owner : leases[o].generation # 0 =>
                                   leases[o].generation < db.generation
             /\ \A w \in Worker : ~Current(w)

\* The rows and the report a database may hold, given the receipts.
RowsReal(d) ==
  \A k \in Key : d.items[k].state = "delivered" => receipts[k] = "match"
Settled(mark, receipt) ==
  \/ mark.state = "none" /\ receipt = "none"
  \/ mark.state = "delivered" /\ receipt = "match"
  \/ mark.state = "pending" /\ receipt = "none"
  \/ mark.state \in {"unknown", "rejected"} /\ mark.quarantine
ReportSound(d) ==
  d.report # NoReport /\ d.report.complete =>
    \A k \in Key : Settled(d.report.fingerprint.items[k],
                           d.report.inventory.receipts[k])
StoreInv ==
  /\ RowsReal(db) /\ RowsReal(backup)
  /\ ReportSound(db) /\ ReportSound(backup)

\* An open transaction either renews the lease or starts a new generation.
TxInv ==
  tx # NoTx =>
    /\ tx.db.generation = fence.generation
    /\ tx.db.generation >= db.generation
    /\ tx.db.generation = db.generation =>
         tx.db.items = db.items /\ tx.db.hold = db.hold /\ tx.owner = NoOwner
    /\ tx.owner # NoOwner => ~tx.db.hold
    /\ ~tx.db.hold =>
         /\ ~db.hold
         /\ \A k \in Key : tx.db.items[k].state \in {"none"} \union Runnable =>
                             tx.db.items[k].state = db.items[k].state
    /\ \A k \in Key : \/ tx.db.items[k].state \in {"none", "unknown", "rejected"}
                      \/ tx.db.items[k].state = db.items[k].state
    /\ RowsReal(tx.db) /\ ReportSound(tx.db)

\* What a worker's attempt implies while its generation is the present one.
AttemptInv ==
  /\ \A w \in Worker : Current(w) =>
       /\ db.items[work[w].key].state \notin {"none"} \union Runnable
       /\ ~db.items[work[w].key].quarantine
       /\ work[w].phase = "sent" /\ work[w].outcome = "absent" =>
            receipts[work[w].key] = "none"
  /\ \A v, w \in Worker :
       v # w /\ Current(v) /\ Current(w) => work[v].key # work[w].key
  /\ \A w \in Worker : work[w].phase # "idle" =>
       /\ \A d \in DependsOn[work[w].key] : receipts[d] = "match"
       /\ work[w].phase = "sent" /\ work[w].outcome = "delivered" =>
            receipts[work[w].key] = "match"

Inv ==
  /\ TypeOK
  /\ GenerationInv
  /\ HoldInv
  /\ StoreInv
  /\ TxInv
  /\ AttemptInv
  /\ NoBlindResend
  /\ DependencyOrder

LEMMA InvInit == Init => Inv
<1> SUFFICES ASSUME Init PROVE Inv
  OBVIOUS
<1>1. TypeOK
  BY TypeInit
<1>2. /\ db = NewDatabase /\ backup = NewDatabase /\ tx = NoTx
      /\ fence.generation = 0
      /\ \A o \in Owner : leases[o].generation = 0
      /\ \A w \in Worker : work[w].phase = "idle" /\ work[w].lease.generation = 0
      /\ \A k \in Key : receipts[k] # "match"
  BY DEF Init, NoLease, Idle
<1>3. /\ NewDatabase.generation = 0 /\ NewDatabase.hold /\ NewDatabase.report = NoReport
      /\ \A k \in Key : NewDatabase.items[k].state = "none"
  BY DEF NewDatabase, NewRow
<1> QED
  BY <1>1, <1>2, <1>3 DEF Inv, GenerationInv, HoldInv, StoreInv, RowsReal,
     ReportSound, TxInv, AttemptInv, NoBlindResend, DependencyOrder, Current

-----------------------------------------------------------------------------
(* Preservation, action by action.  TypeOK' is TypeStep's.                 *)

LEMMA Fields ==
  ASSUME NEW d \in Database, NEW rows
  PROVE  LET e == [d EXCEPT !.items = rows] IN
         /\ e.items = rows /\ e.generation = d.generation /\ e.hold = d.hold
         /\ e.report = d.report
BY DEF Database

\* What a step that writes rows in place may do to a row: nothing becomes
\* delivered without a receipt, or runnable while a receipt exists (unless
\* dispatch is held) or an attempt is current, and only an intention without a
\* current attempt changes its quarantine.
RowWrite(k) ==
  \/ /\ db'.items[k].quarantine = db.items[k].quarantine
     /\ \/ db'.items[k].state = db.items[k].state
        \/ db'.items[k].state = "delivered" /\ receipts[k] = "match"
        \/ db'.items[k].state \in {"leased", "unknown", "rejected"}
  \/ /\ db'.items[k].state # "delivered"
     /\ receipts[k] = "none" \/ db.hold
     /\ \A w \in Worker : Current(w)' => work[w].key # k
HeadKept ==
  /\ db'.generation = db.generation /\ db'.hold = db.hold
  /\ db'.report = db.report
WorkDropped ==
  \A w \in Worker : \/ work'[w] = work[w]
                    \/ work'[w].phase = "idle" /\ work'[w].lease.generation = 0

\* A step that writes rows in place, outside any fencing transaction.
LEMMA RowsStep ==
  ASSUME Inv, TypeOK', tx = NoTx,
         UNCHANGED <<backup, tx, fence, receipts, leases>>,
         HeadKept, WorkDropped, \A k \in Key : RowWrite(k)
  PROVE  Inv'
<1> USE DEF HeadKept, WorkDropped, RowWrite
<1>1. \A w \in Worker : Current(w)' => Current(w) /\ work'[w] = work[w]
  BY DEF Current
<1>2. GenerationInv'
  BY DEF Inv, GenerationInv, TypeOK, DatabaseOK, Database
<1>3. HoldInv'
  BY <1>1 DEF Inv, HoldInv
<1>4. StoreInv'
  BY DEF Inv, StoreInv, RowsReal, ReportSound
<1>5. TxInv'
  BY DEF TxInv
<1>6. AttemptInv'
  <2>1. ASSUME NEW w \in Worker, Current(w)'
        PROVE  /\ db'.items[work'[w].key].state \notin {"none"} \union Runnable
               /\ ~db'.items[work'[w].key].quarantine
               /\ work'[w].phase = "sent" /\ work'[w].outcome = "absent" =>
                    receipts'[work'[w].key] = "none"
    <3>1. Current(w) /\ work'[w] = work[w] /\ work[w].key \in Key
      BY <1>1, <2>1 DEF Inv, TypeOK, Current
    <3>2. /\ db.items[work[w].key].state \notin {"none"} \union Runnable
          /\ ~db.items[work[w].key].quarantine
      BY <3>1 DEF Inv, AttemptInv
    <3>3. /\ db'.items[work[w].key].state \notin {"none"} \union Runnable
          /\ ~db'.items[work[w].key].quarantine
      BY <2>1, <3>1, <3>2 DEF Runnable
    <3> QED
      BY <3>1, <3>3 DEF Inv, AttemptInv
  <2>2. ASSUME NEW v \in Worker, NEW w \in Worker, v # w, Current(v)', Current(w)'
        PROVE  work'[v].key # work'[w].key
    BY <1>1, <2>2 DEF Inv, AttemptInv
  <2>3. ASSUME NEW w \in Worker, work'[w].phase # "idle"
        PROVE  /\ \A d \in DependsOn[work'[w].key] : receipts'[d] = "match"
               /\ work'[w].phase = "sent" /\ work'[w].outcome = "delivered" =>
                    receipts'[work'[w].key] = "match"
    BY <2>3 DEF Inv, AttemptInv
  <2> QED
    BY <2>1, <2>2, <2>3 DEF AttemptInv
<1>7. NoBlindResend'
  BY DEF Inv, NoBlindResend, Runnable
<1>8. DependencyOrder'
  BY DEF Inv, DependencyOrder
<1> QED
  BY <1>2, <1>3, <1>4, <1>5, <1>6, <1>7, <1>8 DEF Inv

LEMMA AcceptStep ==
  ASSUME Inv, TypeOK', NEW k \in Key, Accept(k)
  PROVE  Inv'
<1> DEFINE new == [NewRow EXCEPT !.state = "held", !.next = now]
           rows == [db.items EXCEPT ![k] = new]
<1>1. db \in Database /\ db.items \in [Key -> Delivery]
  BY DEF Inv, TypeOK, DatabaseOK, Database
<1>2. db' = [db EXCEPT !.items = rows]
  BY DEF Accept
<1>3. new.state = "held" /\ db.items[k].state = "none"
  BY DEF NewRow, Accept
<1> HIDE DEF new
<1>4. /\ db'.generation = db.generation /\ db'.hold = db.hold
      /\ db'.report = db.report
      /\ db'.items[k].state = "held"
      /\ \A j \in Key \ {k} : db'.items[j] = db.items[j]
  BY <1>1, <1>2, <1>3, Fields
<1>5. receipts[k] = "none" \/ db.hold
  BY <1>3 DEF Inv, NoBlindResend
<1>6. \A w \in Worker : Current(w) => work[w].key # k
  BY <1>3 DEF Inv, AttemptInv
<1>7. work' = work /\ \A w \in Worker : Current(w)' => Current(w)
  BY <1>4 DEF Accept, Current
<1>8. HeadKept /\ WorkDropped
  BY <1>4, <1>7 DEF HeadKept, WorkDropped
<1>9. ASSUME NEW j \in Key PROVE RowWrite(j)
  BY <1>4, <1>5, <1>6, <1>7 DEF RowWrite
<1>10. tx = NoTx /\ UNCHANGED <<backup, tx, fence, receipts, leases>>
  BY DEF Accept, destVars
<1> QED
  BY <1>8, <1>9, <1>10, RowsStep

LEMMA ClaimNothingStep ==
  ASSUME Inv, TypeOK', NEW w \in Worker, ClaimNothing(w)
  PROVE  Inv'
<1> DEFINE rows == SweepExpired(db.items, now)
<1>1. db \in Database /\ db.items \in [Key -> Delivery]
  BY DEF Inv, TypeOK, DatabaseOK, Database
<1>2. \A k \in Key : \/ rows[k] = db.items[k]
                     \/ /\ rows[k].state = "unknown"
                        /\ rows[k].quarantine = db.items[k].quarantine
  BY <1>1 DEF SweepExpired, Clear, Delivery
<1> HIDE DEF rows
<1>3. db' = [db EXCEPT !.items = rows]
  BY DEF ClaimNothing, rows
<1>4. /\ db'.generation = db.generation /\ db'.hold = db.hold
      /\ db'.report = db.report /\ db'.items = rows
  BY <1>1, <1>3, Fields
<1>5. tx = NoTx /\ UNCHANGED <<backup, tx, fence, receipts, leases, work>>
  BY DEF ClaimNothing, destVars
<1>6. HeadKept /\ WorkDropped /\ \A k \in Key : RowWrite(k)
  BY <1>2, <1>4, <1>5 DEF HeadKept, WorkDropped, RowWrite
<1> QED
  BY <1>5, <1>6, RowsStep

LEMMA ObserveStep ==
  ASSUME Inv, TypeOK', NEW w \in Worker, Observe(w)
  PROVE  Inv'
<1> DEFINE a == work[w]  row == db.items[a.key]
           state == ObservedState(row, a.outcome)
           new(t) == [Clear(row, state) EXCEPT
                        !.next = IF state = "retry"
                                 THEN t + RetryDelay[row.attempts] ELSE @,
                        !.seen = [kind |-> "response", what |-> a.outcome,
                                  at |-> t]]
<1>1. db \in Database /\ db.items \in [Key -> Delivery] /\ a.key \in Key
  BY DEF Inv, TypeOK, DatabaseOK, Database, Observe
<1>2. PICK t \in {work[w].at, now} :
        IF Valid(OwnerOf[w], a.lease, t) /\ CurrentAttempt(w, t)
        THEN db' = [db EXCEPT !.items[a.key] = new(t)]
        ELSE db' = db
  BY DEF Observe
<1>3. work'[w] = Idle /\ \A v \in Worker \ {w} : work'[v] = work[v]
  BY DEF Observe, Inv, TypeOK
<1>4. Idle.phase = "idle" /\ Idle.lease.generation = 0
  BY DEF Idle, NoLease
<1>a. tx = NoTx /\ UNCHANGED <<backup, tx, fence, receipts, leases>>
  BY DEF Observe, destVars
<1>b. WorkDropped
  BY <1>3, <1>4 DEF WorkDropped
<1>5. CASE db' = db
  <2>1. HeadKept /\ \A k \in Key : RowWrite(k)
    BY <1>5 DEF HeadKept, RowWrite
  <2> QED
    BY <1>a, <1>b, <2>1, RowsStep
<1>6. CASE Valid(OwnerOf[w], a.lease, t) /\ db' = [db EXCEPT !.items[a.key] = new(t)]
  <2>1. Current(w) /\ work[w].phase = "sent"
    BY <1>6 DEF Observe, Valid, Current
  <2>2. row \in Delivery
    BY <1>1
  <2>3. new(t).state = state /\ new(t).quarantine = row.quarantine
    BY <2>2 DEF Clear, Delivery
  <2>4. state = "delivered" => receipts[a.key] = "match"
    BY <2>1 DEF ObservedState, Inv, AttemptInv, Current
  <2>5. state = "retry" => receipts[a.key] = "none"
    BY <2>1 DEF ObservedState, Inv, AttemptInv
  <2>6. state \in {"delivered", "rejected", "retry", "unknown"}
    BY DEF ObservedState
  <2> HIDE DEF new, state
  <2>7. /\ db'.generation = db.generation /\ db'.hold = db.hold
        /\ db'.report = db.report
        /\ db'.items[a.key] = new(t)
        /\ \A j \in Key \ {a.key} : db'.items[j] = db.items[j]
    BY <1>1, <1>6, Fields
  <2>8. ASSUME NEW v \in Worker, Current(v)'
        PROVE  work[v].key # a.key
    <3>1. v # w /\ work'[v] = work[v]
      BY <1>3, <1>4, <2>8 DEF Current
    <3>2. Current(v)
      BY <2>7, <2>8, <3>1 DEF Current
    <3> QED
      BY <2>1, <3>1, <3>2 DEF Inv, AttemptInv
  <2>9. HeadKept
    BY <2>7 DEF HeadKept
  <2>10. ASSUME NEW k \in Key PROVE RowWrite(k)
    <3>1. CASE k # a.key
      BY <2>7, <3>1 DEF RowWrite
    <3>2. CASE k = a.key
      BY <2>3, <2>4, <2>5, <2>6, <2>7, <2>8, <3>2 DEF RowWrite
    <3> QED
      BY <3>1, <3>2
  <2> QED
    BY <1>a, <1>b, <2>9, <2>10, RowsStep
<1> QED
  BY <1>2, <1>5, <1>6

LEMMA QuarantineStep ==
  ASSUME Inv, TypeOK', NEW k \in Key, Quarantine(k)
  PROVE  Inv'
<1>1. db \in Database /\ db.items \in [Key -> Delivery] /\ db.items[k] \in Delivery
  BY DEF Inv, TypeOK, DatabaseOK, Database
<1> DEFINE new == [db.items[k] EXCEPT !.quarantine = TRUE]
<1>2. new.state = db.items[k].state /\ new.state \in {"rejected", "unknown"}
  BY <1>1 DEF Delivery, Quarantine
<1> HIDE DEF new
<1>3. db' = [db EXCEPT !.items = [db.items EXCEPT ![k] = new]]
  BY DEF Quarantine, new
<1>4. /\ db'.generation = db.generation /\ db'.hold = db.hold
      /\ db'.report = db.report /\ db'.items[k] = new
      /\ \A j \in Key \ {k} : db'.items[j] = db.items[j]
  BY <1>1, <1>3, Fields
<1>5. db.hold /\ \A w \in Worker : ~Current(w)'
  BY <1>4 DEF Quarantine, Inv, HoldInv, Current
<1>6. tx = NoTx /\ UNCHANGED <<backup, tx, fence, receipts, leases, work>>
  BY DEF Quarantine, destVars
<1>7. HeadKept /\ WorkDropped
  BY <1>4, <1>6 DEF HeadKept, WorkDropped
<1>8. ASSUME NEW j \in Key PROVE RowWrite(j)
  BY <1>2, <1>4, <1>5 DEF RowWrite
<1> QED
  BY <1>6, <1>7, <1>8, RowsStep

LEMMA SendCheckStep ==
  ASSUME Inv, TypeOK', NEW w \in Worker, SendCheck(w)
  PROVE  Inv'
<1>1. Idle.phase = "idle" /\ Idle.lease.generation = 0
  BY DEF Idle, NoLease
<1>2. PICK t \in {work[w].at, now} :
        work' = [work EXCEPT ![w] =
                   IF Valid(OwnerOf[w], work[w].lease, t) /\ CurrentAttempt(w, t)
                   THEN [work[w] EXCEPT !.phase = "sending", !.at = t,
                                        !.outcome = "none"]
                   ELSE Idle]
  BY DEF SendCheck
<1>3. /\ work[w].phase # "idle"
      /\ \/ work'[w].phase = "idle" /\ work'[w].lease.generation = 0
         \/ /\ work'[w].phase = "sending" /\ work'[w].key = work[w].key
            /\ work'[w].lease = work[w].lease
      /\ \A v \in Worker \ {w} : work'[v] = work[v]
  BY <1>1, <1>2 DEF SendCheck, Inv, TypeOK, Attempt
<1>4. UNCHANGED <<db, backup, tx, fence, receipts, leases>>
  BY DEF SendCheck, dbVars, destVars
<1>5. \A v \in Worker : Current(v)' => Current(v) /\ work'[v].key = work[v].key
  BY <1>3, <1>4 DEF Current
<1>6. GenerationInv' /\ HoldInv'
  BY <1>3, <1>4, <1>5 DEF Inv, GenerationInv, HoldInv, TypeOK, DatabaseOK, Database
<1>7. StoreInv' /\ TxInv' /\ NoBlindResend' /\ DependencyOrder'
  BY <1>4 DEF Inv, StoreInv, TxInv, NoBlindResend, DependencyOrder, RowsReal, ReportSound
<1>8. AttemptInv'
  BY <1>3, <1>4, <1>5 DEF Inv, AttemptInv
<1> QED
  BY <1>6, <1>7, <1>8 DEF Inv

LEMMA AbandonStep ==
  ASSUME Inv, TypeOK', NEW w \in Worker, Abandon(w)
  PROVE  Inv'
<1>1. Idle.phase = "idle" /\ Idle.lease.generation = 0
  BY DEF Idle, NoLease
<1>2. /\ work'[w].phase = "idle" /\ work'[w].lease.generation = 0
      /\ \A v \in Worker \ {w} : work'[v] = work[v]
  BY <1>1 DEF Abandon, Inv, TypeOK
<1>3. UNCHANGED <<db, backup, tx, fence, receipts, leases>>
  BY DEF Abandon, dbVars, destVars
<1>4. \A v \in Worker : Current(v)' => Current(v) /\ work'[v] = work[v]
  BY <1>2, <1>3 DEF Current
<1>5. GenerationInv' /\ HoldInv'
  BY <1>2, <1>3, <1>4 DEF Inv, GenerationInv, HoldInv, TypeOK, DatabaseOK, Database
<1>6. StoreInv' /\ TxInv' /\ NoBlindResend' /\ DependencyOrder'
  BY <1>3 DEF Inv, StoreInv, TxInv, NoBlindResend, DependencyOrder, RowsReal, ReportSound
<1>7. AttemptInv'
  BY <1>2, <1>3, <1>4 DEF Inv, AttemptInv
<1> QED
  BY <1>5, <1>6, <1>7 DEF Inv

\* The destination records only what a current attempt sends: a lease the fence
\* still accepts is the ledger's own.
LEMMA LiveIsCurrent ==
  ASSUME Inv, NEW w \in Worker, work[w].phase # "idle", DestinationTakes(work[w])
  PROVE  Current(w)
<1>1. work[w].lease.generation = fence.generation
  BY DEF DestinationTakes
<1>2. /\ work[w].lease.generation <= db.generation
      /\ db.generation <= fence.generation
  BY DEF Inv, GenerationInv
<1>3. db.generation \in Nat /\ fence.generation \in Nat
  BY DEF Inv, TypeOK, DatabaseOK, Database
<1> QED
  BY <1>1, <1>2, <1>3 DEF Current

LEMMA SendStep ==
  ASSUME Inv, TypeOK', NEW w \in Worker, Send(w)
  PROVE  Inv'
<1> DEFINE a == work[w]
<1>1. PICK answer \in Answers(a) :
        /\ receipts' = IF Keeps(a, answer)
                       THEN [receipts EXCEPT ![a.key] = "match"]
                       ELSE receipts
        /\ work' = [work EXCEPT ![w].phase = "sent", ![w].outcome = answer]
  BY DEF Send
<1>2. /\ a.phase = "sending" /\ a.key \in Key
      /\ UNCHANGED <<db, backup, tx, fence, leases>>
  BY DEF Send, Inv, TypeOK, dbVars
<1>3. /\ work'[w].phase = "sent" /\ work'[w].outcome = answer
      /\ work'[w].key = a.key /\ work'[w].lease = a.lease
      /\ \A v \in Worker \ {w} : work'[v] = work[v]
  BY <1>1 DEF Inv, TypeOK, Attempt
<1>4. \A v \in Worker : /\ work'[v].key = work[v].key /\ work'[v].lease = work[v].lease
                        /\ work'[v].phase # "idle" => work[v].phase # "idle"
                        /\ Current(v)' => Current(v)
  BY <1>2, <1>3 DEF Current
<1>5. /\ receipts \in [Key -> Receipt]
      /\ \A k \in Key : receipts[k] = "match" => receipts'[k] = "match"
      /\ \A k \in Key : k # a.key => receipts'[k] = receipts[k]
  BY <1>1, <1>2 DEF Inv, TypeOK
<1>6. receipts' # receipts => Current(w) /\ answer \in {"delivered", "unknown"}
  BY <1>1, <1>2, LiveIsCurrent DEF Keeps
<1>7. answer = "delivered" => receipts'[a.key] = "match"
  BY <1>1, <1>2, <1>5 DEF Answers, Keeps
<1>8. answer = "absent" => receipts'[a.key] = "none"
  BY <1>1, <1>2, <1>5 DEF Answers, Keeps, Receipt
<1>9. GenerationInv' /\ HoldInv'
  BY <1>2, <1>4 DEF Inv, GenerationInv, HoldInv
<1>10. StoreInv' /\ TxInv'
  BY <1>2, <1>5 DEF Inv, StoreInv, TxInv, RowsReal, ReportSound
<1>11. AttemptInv'
  <2>1. ASSUME NEW v \in Worker, Current(v)'
        PROVE  /\ db'.items[work'[v].key].state \notin {"none"} \union Runnable
               /\ ~db'.items[work'[v].key].quarantine
               /\ work'[v].phase = "sent" /\ work'[v].outcome = "absent" =>
                    receipts'[work'[v].key] = "none"
    <3>1. Current(v) /\ work'[v].key = work[v].key /\ work[v].key \in Key
      BY <1>4, <2>1 DEF Inv, TypeOK, Current
    <3>2. /\ db'.items[work'[v].key].state \notin {"none"} \union Runnable
          /\ ~db'.items[work'[v].key].quarantine
      BY <1>2, <3>1 DEF Inv, AttemptInv
    <3>3. CASE v = w
      BY <1>3, <1>8, <3>2, <3>3
    <3>4. CASE v # w
      <4>1. Current(w) => work[v].key # a.key
        BY <3>1, <3>4 DEF Inv, AttemptInv
      <4>2. receipts'[work[v].key] = receipts[work[v].key]
        BY <1>5, <1>6, <3>1, <4>1
      <4> QED
        BY <1>3, <3>1, <3>2, <3>4, <4>2 DEF Inv, AttemptInv
    <3> QED
      BY <3>3, <3>4
  <2>2. ASSUME NEW v \in Worker, NEW u \in Worker, v # u, Current(v)', Current(u)'
        PROVE  work'[v].key # work'[u].key
    BY <1>4, <2>2 DEF Inv, AttemptInv
  <2>3. ASSUME NEW v \in Worker, work'[v].phase # "idle"
        PROVE  /\ \A d \in DependsOn[work'[v].key] : receipts'[d] = "match"
               /\ work'[v].phase = "sent" /\ work'[v].outcome = "delivered" =>
                    receipts'[work'[v].key] = "match"
    <3>1. work[v].phase # "idle" /\ work[v].key \in Key /\ work'[v].key = work[v].key
      BY <1>4, <2>3 DEF Inv, TypeOK
    <3>2. \A d \in DependsOn[work[v].key] : d \in Key /\ receipts[d] = "match"
      BY <3>1, DependsAssumption DEF Inv, AttemptInv
    <3> QED
      BY <1>3, <1>5, <1>7, <3>1, <3>2 DEF Inv, AttemptInv
  <2> QED
    BY <2>1, <2>2, <2>3 DEF AttemptInv
<1>12. NoBlindResend'
  <2>1. Current(w) => db.items[a.key].state \notin {"none"} \union Runnable
    BY DEF Inv, AttemptInv
  <2> QED
    BY <1>2, <1>5, <1>6, <2>1 DEF Inv, NoBlindResend
<1>13. DependencyOrder'
  <2>1. \A d \in DependsOn[a.key] : d \in Key /\ receipts[d] = "match"
    BY <1>2, DependsAssumption DEF Inv, AttemptInv
  <2> QED
    BY <1>5, <2>1, DependsAssumption DEF Inv, DependencyOrder
<1> QED
  BY <1>9, <1>10, <1>11, <1>12, <1>13 DEF Inv

LEMMA ClaimStep ==
  ASSUME Inv, TypeOK', NEW w \in Worker, NEW ack \in BOOLEAN, Claim(w, ack)
  PROVE  Inv'
<1> DEFINE l == leases[OwnerOf[w]]
<1>1. PICK k \in Ready(now) :
        /\ db' = [db EXCEPT !.items = [SweepExpired(db.items, now) EXCEPT
                                         ![k] = Leased(db.items[k], w, now)]]
        /\ work' = IF ack
                   THEN [work EXCEPT ![w] =
                           [phase |-> "claimed", key |-> k,
                            number |-> db.items[k].attempts + 1,
                            until |-> now + ItemLease,
                            lease |-> leases[OwnerOf[w]], at |-> now,
                            outcome |-> "none"]]
                   ELSE work
  BY DEF Claim
<1>2. /\ k \in Key /\ db.items[k].state \in Runnable /\ ~db.items[k].quarantine
      /\ \A d \in DependsOn[k] : db.items[d].state = "delivered"
  BY <1>1 DEF Ready
<1>3. /\ ~db.hold /\ l.generation = db.generation /\ tx = NoTx
      /\ work[w].phase = "idle"
      /\ UNCHANGED <<backup, tx, fence, receipts, leases>>
  BY DEF Claim, Valid, destVars
<1>4. db \in Database /\ db.items \in [Key -> Delivery] /\ db.items[k] \in Delivery
  BY <1>2 DEF Inv, TypeOK, DatabaseOK, Database
<1> DEFINE rows == [SweepExpired(db.items, now) EXCEPT
                      ![k] = Leased(db.items[k], w, now)]
<1>5. /\ rows[k].state = "leased" /\ ~rows[k].quarantine
      /\ \A j \in Key \ {k} :
           /\ rows[j].quarantine = db.items[j].quarantine
           /\ rows[j].state = db.items[j].state \/ rows[j].state = "unknown"
  <2>1. /\ Leased(db.items[k], w, now).state = "leased"
        /\ Leased(db.items[k], w, now).quarantine = db.items[k].quarantine
    BY <1>4 DEF Leased, Delivery
  <2>2. \A j \in Key :
           /\ SweepExpired(db.items, now)[j].quarantine = db.items[j].quarantine
           /\ \/ SweepExpired(db.items, now)[j].state = db.items[j].state
              \/ SweepExpired(db.items, now)[j].state = "unknown"
    BY <1>4 DEF SweepExpired, Clear, Delivery
  <2> QED
    BY <1>2, <2>1, <2>2 DEF SweepExpired
<1> HIDE DEF rows
<1>6. HeadKept /\ db'.items = rows
  BY <1>1, <1>4, Fields DEF rows, HeadKept
<1>7. /\ ack => /\ work'[w].phase = "claimed" /\ work'[w].key = k
                /\ work'[w].lease = l
      /\ ~ack => work'[w] = work[w]
      /\ \A v \in Worker \ {w} : work'[v] = work[v]
  BY <1>1 DEF Inv, TypeOK
<1>8. receipts[k] = "none"
  BY <1>2, <1>3 DEF Inv, NoBlindResend
<1>9. \A v \in Worker : Current(v) => work[v].key # k
  BY <1>2 DEF Inv, AttemptInv
<1>10. \A v \in Worker \ {w} : Current(v)' => Current(v) /\ work'[v] = work[v]
  BY <1>6, <1>7 DEF Current, HeadKept
<1>11. Current(w)' => ack
  BY <1>3, <1>7 DEF Current
<1>12. GenerationInv'
  <2>1. l.generation <= db.generation
    BY <1>3, <1>4 DEF Database
  <2> QED
    BY <1>3, <1>6, <1>7, <2>1 DEF Inv, GenerationInv, HeadKept
<1>13. HoldInv'
  BY <1>3, <1>6 DEF HoldInv, HeadKept
<1>14. StoreInv' /\ TxInv'
  BY <1>3, <1>5, <1>6 DEF Inv, StoreInv, TxInv, RowsReal, ReportSound, HeadKept
<1>15. AttemptInv'
  <2>1. ASSUME NEW v \in Worker, Current(v)'
        PROVE  /\ db'.items[work'[v].key].state \notin {"none"} \union Runnable
               /\ ~db'.items[work'[v].key].quarantine
               /\ work'[v].phase = "sent" /\ work'[v].outcome = "absent" =>
                    receipts'[work'[v].key] = "none"
    <3>1. CASE v = w
      BY <1>5, <1>6, <1>7, <1>11, <2>1, <3>1 DEF Runnable
    <3>2. CASE v # w
      <4>1. Current(v) /\ work'[v] = work[v] /\ work[v].key \in Key \ {k}
        BY <1>9, <1>10, <2>1, <3>2 DEF Inv, TypeOK, Current
      <4>2. /\ db.items[work[v].key].state \notin {"none"} \union Runnable
            /\ ~db.items[work[v].key].quarantine
            /\ work[v].phase = "sent" /\ work[v].outcome = "absent" =>
                    receipts[work[v].key] = "none"
        BY <4>1 DEF Inv, AttemptInv
      <4> QED
        BY <1>3, <1>5, <1>6, <4>1, <4>2 DEF Runnable
    <3> QED
      BY <3>1, <3>2
  <2>2. ASSUME NEW v \in Worker, NEW u \in Worker, v # u, Current(v)', Current(u)'
        PROVE  work'[v].key # work'[u].key
    BY <1>7, <1>9, <1>10, <1>11, <2>2 DEF Inv, AttemptInv
  <2>3. ASSUME NEW v \in Worker, work'[v].phase # "idle"
        PROVE  /\ \A d \in DependsOn[work'[v].key] : receipts'[d] = "match"
               /\ work'[v].phase = "sent" /\ work'[v].outcome = "delivered" =>
                    receipts'[work'[v].key] = "match"
    <3>1. CASE work'[v] = work[v]
      BY <1>3, <2>3, <3>1 DEF Inv, AttemptInv
    <3>2. CASE v = w /\ ack
      <4>1. \A d \in DependsOn[k] : receipts[d] = "match"
        BY <1>2, DependsAssumption DEF Inv, StoreInv, RowsReal
      <4> QED
        BY <1>3, <1>7, <3>2, <4>1
    <3> QED
      BY <1>7, <3>1, <3>2
  <2> QED
    BY <2>1, <2>2, <2>3 DEF AttemptInv
<1>16. NoBlindResend'
  BY <1>3, <1>5, <1>6 DEF Inv, NoBlindResend, Runnable, HeadKept
<1>17. DependencyOrder'
  BY <1>3 DEF Inv, DependencyOrder
<1> QED
  BY <1>12, <1>13, <1>14, <1>15, <1>16, <1>17 DEF Inv

\* A step that only opens a fencing transaction.
LEMMA OpenStep ==
  ASSUME Inv, TypeOK', TxInv', fence.generation <= fence'.generation,
         UNCHANGED <<db, backup, receipts, leases, work>>
  PROVE  Inv'
<1>1. /\ fence.generation \in Nat /\ fence'.generation \in Nat
      /\ db.generation \in Nat /\ backup.generation \in Nat
  BY DEF Inv, TypeOK, DatabaseOK, Database
<1>2. GenerationInv'
  BY <1>1 DEF Inv, GenerationInv
<1>3. HoldInv' /\ StoreInv' /\ AttemptInv' /\ NoBlindResend' /\ DependencyOrder'
  BY DEF Inv, HoldInv, StoreInv, RowsReal, ReportSound, AttemptInv, Current,
     NoBlindResend, DependencyOrder
<1> QED
  BY <1>2, <1>3 DEF Inv

LEMMA AcquireStep ==
  ASSUME Inv, TypeOK', NEW o \in Owner, Acquire(o)
  PROVE  Inv'
<1> DEFINE g == NextGeneration(db)  rows == SweepLeases(db.items)
           new == [db EXCEPT !.generation = g, !.owner = o,
                             !.until = now + HeadLease, !.open = TRUE,
                             !.items = rows]
<1>1. /\ db \in Database /\ db.items \in [Key -> Delivery]
      /\ fence \in [generation : Nat, until : Time]
  BY DEF Inv, TypeOK, DatabaseOK, Database
<1>2. g \in Nat /\ g > db.generation /\ g > fence.generation
  BY <1>1, GenerationType
<1>3. \A k \in Key : rows[k] = db.items[k] \/ rows[k].state = "unknown"
  BY <1>1 DEF SweepLeases, Clear, Delivery
<1>4. /\ tx' = [owner |-> o, db |-> new] /\ ~db.hold
      /\ fence'.generation = g
      /\ UNCHANGED <<db, backup, receipts, leases, work>>
  BY DEF Acquire, MoveFence, dbVars
<1> HIDE DEF g, rows
<1>5. /\ new.generation = g /\ new.hold = db.hold /\ new.items = rows
      /\ new.report = db.report
  BY <1>1 DEF Database
<1> HIDE DEF new
<1>6. /\ tx'.db.generation = g /\ tx'.db.hold = FALSE /\ tx'.db.items = rows
      /\ tx'.db.report = db.report /\ tx'.owner = o
  BY <1>1, <1>4, <1>5 DEF Database
<1>7. RowsReal(tx.db)' /\ ReportSound(tx.db)'
  BY <1>3, <1>4, <1>6 DEF Inv, StoreInv, RowsReal, ReportSound
<1>8. db.generation \in Nat /\ fence.generation \in Nat
  BY <1>1 DEF Database
<1>9. TxInv'
  BY <1>2, <1>3, <1>4, <1>6, <1>7, <1>8 DEF TxInv, Runnable
<1>10. fence.generation <= fence'.generation
  BY <1>2, <1>4, <1>8
<1> QED
  BY <1>4, <1>9, <1>10, OpenStep

LEMMA RenewStep ==
  ASSUME Inv, TypeOK', NEW o \in Owner, Renew(o)
  PROVE  Inv'
<1> DEFINE new == [db EXCEPT !.until = now + HeadLease]
<1>1. /\ db \in Database /\ db.generation \in Nat
      /\ fence.generation \in Nat
  BY DEF Inv, TypeOK, DatabaseOK, Database
<1>2. /\ tx' = [owner |-> NoOwner, db |-> new] /\ ~db.hold
      /\ fence'.generation = db.generation
      /\ fence.generation <= db.generation
      /\ UNCHANGED <<db, backup, receipts, leases, work>>
  BY DEF Renew, MoveFence, Valid, dbVars
<1>3. /\ new.generation = db.generation /\ new.hold = db.hold
      /\ new.items = db.items /\ new.report = db.report
  BY <1>1 DEF Database
<1> HIDE DEF new
<1>4. /\ tx'.db.generation = db.generation /\ tx'.db.hold = db.hold
      /\ tx'.db.items = db.items /\ tx'.db.report = db.report
      /\ tx'.owner = NoOwner
  BY <1>2, <1>3
<1>5. RowsReal(tx.db)' /\ ReportSound(tx.db)'
  BY <1>2, <1>4 DEF Inv, StoreInv, RowsReal, ReportSound
<1>6. TxInv'
  BY <1>1, <1>2, <1>4, <1>5 DEF TxInv
<1> QED
  BY <1>2, <1>6, OpenStep

LEMMA HoldStep ==
  ASSUME Inv, TypeOK', NEW d \in {db, backup}, NEW restore \in BOOLEAN,
         d = db \/ restore, HoldOn(d, restore)
  PROVE  Inv'
<1> DEFINE g == NextGeneration(d)
           rows == IF restore THEN SweepRestore(d.items) ELSE SweepLeases(d.items)
<1>1. /\ d \in Database /\ d.items \in [Key -> Delivery]
      /\ fence \in [generation : Nat, until : Time]
      /\ db.generation \in Nat /\ fence.generation \in Nat
  BY DEF Inv, TypeOK, DatabaseOK, Database
<1>2. g \in Nat /\ g > fence.generation /\ g > db.generation
  <2>1. g \in Nat /\ g > fence.generation
    BY <1>1, GenerationType
  <2>2. db.generation <= fence.generation
    BY DEF Inv, GenerationInv
  <2> HIDE DEF g
  <2> QED
    BY <1>1, <2>1, <2>2
<1>3. \A k \in Key : \/ rows[k].state \in {"none", "unknown", "rejected"}
                     \/ d = db /\ rows[k] = d.items[k]
  <2>1. CASE restore
    <3>1. \A k \in Key : d.items[k].state \in State
      BY <1>1 DEF Delivery
    <3> QED
      BY <1>1, <2>1, <3>1 DEF SweepRestore, Clear, Delivery, State
  <2>2. CASE ~restore
    BY <1>1, <2>2 DEF SweepLeases, Clear, Delivery
  <2> QED
    BY <2>1, <2>2
<1>4. /\ tx' = [owner |-> NoOwner, db |-> HeldDatabase(d, restore)]
      /\ fence'.generation = g
      /\ UNCHANGED <<db, backup, receipts, leases, work>>
  BY DEF HoldOn, MoveFence, dbVars
<1>5. /\ HeldDatabase(d, restore).generation = g
      /\ HeldDatabase(d, restore).hold = TRUE
      /\ HeldDatabase(d, restore).items = rows
      /\ HeldDatabase(d, restore).report = d.report
  BY <1>1 DEF HeldDatabase, Database
<1> HIDE DEF g, rows
<1>6. /\ tx'.db.generation = g /\ tx'.db.hold = TRUE /\ tx'.db.items = rows
      /\ tx'.db.report = d.report /\ tx'.owner = NoOwner
  BY <1>4, <1>5
<1>7. RowsReal(d) /\ ReportSound(d)
  BY DEF Inv, StoreInv
<1>8. RowsReal(tx.db)' /\ ReportSound(tx.db)'
  BY <1>3, <1>4, <1>6, <1>7 DEF RowsReal, ReportSound
<1>9. TxInv'
  BY <1>1, <1>2, <1>3, <1>4, <1>6, <1>8 DEF TxInv
<1>10. fence.generation <= fence'.generation
  BY <1>1, <1>2, <1>4
<1> QED
  BY <1>4, <1>9, <1>10, OpenStep

\* The commit of a fencing transaction, whether or not its caller learns of it.
LEMMA CommitStep ==
  ASSUME Inv, TypeOK', Commit \/ CommitUnacknowledged
  PROVE  Inv'
<1>1. /\ tx # NoTx /\ tx' = NoTx /\ db' = tx.db
      /\ UNCHANGED <<backup, fence, receipts, work>>
  BY DEF Commit, CommitUnacknowledged, destVars
<1>2. \A o \in Owner : \/ leases'[o] = leases[o]
                       \/ /\ tx.owner = o
                          /\ leases'[o].generation = tx.db.generation
  BY DEF Commit, CommitUnacknowledged, Inv, TypeOK
<1>3. /\ db.generation \in Nat /\ tx.db.generation \in Nat /\ fence.generation \in Nat
      /\ \A o \in Owner : leases[o].generation \in Nat
      /\ \A w \in Worker : work[w].lease.generation \in Nat
  BY <1>1 DEF Inv, TypeOK, DatabaseOK, Database, Lease, Attempt
<1>4. /\ tx.db.generation = fence.generation
      /\ tx.db.generation >= db.generation
      /\ tx.db.generation = db.generation =>
           tx.db.items = db.items /\ tx.db.hold = db.hold /\ tx.owner = NoOwner
      /\ tx.owner # NoOwner => ~tx.db.hold
      /\ ~tx.db.hold =>
           /\ ~db.hold
           /\ \A k \in Key : tx.db.items[k].state \in {"none"} \union Runnable =>
                               tx.db.items[k].state = db.items[k].state
      /\ RowsReal(tx.db) /\ ReportSound(tx.db)
  BY <1>1 DEF Inv, TxInv
<1>5. \A w \in Worker : Current(w)' => Current(w) /\ tx.db.generation = db.generation
  BY <1>1, <1>3, <1>4 DEF Inv, GenerationInv, Current
<1>6. GenerationInv'
  BY <1>1, <1>2, <1>3, <1>4 DEF Inv, GenerationInv
<1>7. HoldInv'
  <2> SUFFICES ASSUME tx.db.hold
               PROVE  /\ \A o \in Owner : leases'[o].generation # 0 =>
                                            leases'[o].generation < tx.db.generation
                      /\ \A w \in Worker : ~Current(w)'
    BY <1>1 DEF HoldInv
  <2>1. \A o \in Owner : leases'[o] = leases[o]
    BY <1>2, <1>4, OwnerAssumption
  <2>2. CASE tx.db.generation = db.generation
    BY <1>1, <1>4, <1>5, <2>1, <2>2 DEF Inv, HoldInv
  <2>3. CASE tx.db.generation # db.generation
    BY <1>3, <1>4, <1>5, <2>1, <2>3 DEF Inv, GenerationInv
  <2> QED
    BY <2>2, <2>3
<1>8. StoreInv'
  BY <1>1, <1>4 DEF Inv, StoreInv, RowsReal, ReportSound
<1>9. TxInv'
  BY <1>1 DEF TxInv
<1>10. AttemptInv'
  BY <1>1, <1>4, <1>5 DEF Inv, AttemptInv
<1>11. NoBlindResend'
  BY <1>1, <1>4 DEF Inv, NoBlindResend
<1>12. DependencyOrder'
  BY <1>1 DEF Inv, DependencyOrder
<1> QED
  BY <1>6, <1>7, <1>8, <1>9, <1>10, <1>11, <1>12 DEF Inv

LEMMA ReconcileStep ==
  ASSUME Inv, TypeOK', NEW readable \in BOOLEAN, Reconcile(readable)
  PROVE  Inv'
<1> DEFINE rows == ReconciledRows(readable)  report == ReconciledReport(readable)
<1>1. /\ TypeOK /\ db \in Database /\ db.items \in [Key -> Delivery]
      /\ receipts \in [Key -> Receipt]
  BY DEF Inv, TypeOK, DatabaseOK, Database
<1>2. db' = [db EXCEPT !.items = rows, !.report = report]
  BY ReconcileWrites
<1>3. /\ db'.generation = db.generation /\ db'.hold = db.hold
      /\ db'.items = rows /\ db'.report = report
  <2> HIDE DEF rows, report
  <2> QED
    BY <1>1, <1>2 DEF Database
<1>4. /\ db.hold /\ tx = NoTx
      /\ UNCHANGED <<backup, tx, fence, receipts, leases, work>>
  BY DEF Reconcile, destVars
<1>5. \A w \in Worker : ~Current(w)'
  BY <1>3, <1>4 DEF Inv, HoldInv, Current
<1>6. ASSUME NEW k \in Key
      PROVE  /\ k \notin Accepted(db) => rows[k].state = "none"
             /\ k \in Accepted(db) =>
                  rows[k].state \in {"delivered", "pending", "unknown", "rejected"}
             /\ rows[k].state = "delivered" => receipts[k] = "match"
             /\ rows[k].state = "pending" => receipts[k] = "none"
  <2> DEFINE state == ReconciledState(db.items[k], Lookup(k, readable))
  <2>1. /\ state \in {"delivered", "pending", "unknown", "rejected"}
        /\ state = "delivered" => receipts[k] = "match"
        /\ state = "pending" => receipts[k] = "none"
    BY <1>1 DEF ReconciledState, Lookup, Receipt
  <2>2. ReconciledRow(k, readable).state = state
    <3> HIDE DEF state
    <3>1. \A seen : [Clear(db.items[k], state) EXCEPT !.seen = seen].state = state
      BY <1>1 DEF Clear, Delivery
    <3> QED
      BY <3>1 DEF ReconciledRow, state
  <2> HIDE DEF state
  <2>3. CASE k \in Accepted(db)
    BY <2>1, <2>2, <2>3 DEF ReconciledRows
  <2>4. CASE k \notin Accepted(db)
    BY <2>4 DEF ReconciledRows, Accepted
  <2> QED
    BY <2>3, <2>4
<1>7. ASSUME report.complete, NEW k \in Key
      PROVE  Settled(report.fingerprint.items[k], report.inventory.receipts[k])
  <2>1. /\ readable
        /\ k \in Accepted(db) => \/ rows[k].state \notin {"unknown", "rejected"}
                                 \/ rows[k].quarantine
        /\ k \notin Accepted(db) => receipts[k] = "none"
    BY <1>7 DEF ReconciledReport
  <2>2. report.inventory.receipts[k] = receipts[k]
    BY <2>1 DEF ReconciledReport, InventoryNow
  <2>3. report.fingerprint.items[k] = MarkOf(rows[k])
    <3>1. report.fingerprint = Fingerprint([db EXCEPT !.items = rows])
      BY DEF ReconciledReport
    <3> HIDE DEF rows, report
    <3>2. [db EXCEPT !.items = rows].items = rows
      BY <1>1, Fields
    <3> QED
      BY <3>1, <3>2 DEF Fingerprint
  <2> HIDE DEF rows, report
  <2>4. MarkOf(rows[k]).state = rows[k].state /\ MarkOf(rows[k]).quarantine = rows[k].quarantine
    BY DEF MarkOf
  <2> QED
    BY <1>6, <2>1, <2>2, <2>3, <2>4 DEF Settled
<1> HIDE DEF rows, report
<1>8. GenerationInv' /\ HoldInv'
  BY <1>3, <1>4, <1>5 DEF Inv, GenerationInv, HoldInv
<1>9. StoreInv'
  BY <1>3, <1>4, <1>6, <1>7 DEF Inv, StoreInv, RowsReal, ReportSound
<1>10. TxInv' /\ NoBlindResend' /\ DependencyOrder'
  BY <1>3, <1>4 DEF Inv, TxInv, NoBlindResend, DependencyOrder
<1>11. AttemptInv'
  BY <1>4, <1>5 DEF Inv, AttemptInv
<1> QED
  BY <1>8, <1>9, <1>10, <1>11 DEF Inv

\* When resume passes its checks, the complete report describes the present rows
\* and the present receipts.
LEMMA ResumeSettled ==
  ASSUME Inv, Resume, NEW k \in Key
  PROVE  Settled(MarkOf(db.items[k]), receipts[k])
<1>1. /\ db.report # NoReport /\ db.report.complete
      /\ db.report.fingerprint = Fingerprint(db)
      /\ db.report.inventory = InventoryNow(TRUE)
  BY DEF Resume
<1>2. Settled(db.report.fingerprint.items[k], db.report.inventory.receipts[k])
  BY <1>1 DEF Inv, StoreInv, ReportSound
<1>3. Fingerprint(db).items[k] = MarkOf(db.items[k])
  BY DEF Fingerprint
<1>4. InventoryNow(TRUE).receipts[k] = receipts[k]
  BY DEF InventoryNow
<1> QED
  BY <1>1, <1>2, <1>3, <1>4

LEMMA ResumeStep ==
  ASSUME Inv, TypeOK', Resume
  PROVE  Inv'
<1>1. db \in Database
  BY DEF Inv, TypeOK, DatabaseOK
<1>2. /\ db'.generation = db.generation /\ ~db'.hold
      /\ db'.items = db.items /\ db'.report = db.report
  BY <1>1 DEF Resume, Database
<1>3. /\ db.hold /\ tx = NoTx
      /\ UNCHANGED <<backup, tx, fence, receipts, leases, work>>
  BY DEF Resume, destVars
<1>4. \A w \in Worker : ~Current(w)'
  BY <1>2, <1>3 DEF Inv, HoldInv, Current
<1>5. GenerationInv' /\ HoldInv'
  BY <1>2, <1>3 DEF Inv, GenerationInv, HoldInv
<1>6. StoreInv' /\ TxInv' /\ DependencyOrder'
  BY <1>2, <1>3 DEF Inv, StoreInv, RowsReal, ReportSound, TxInv, DependencyOrder
<1>7. AttemptInv'
  BY <1>3, <1>4 DEF Inv, AttemptInv
<1>8. NoBlindResend'
  <2>1. \A k \in Key : Settled(MarkOf(db.items[k]), receipts[k])
    BY ResumeSettled
  <2> QED
    BY <1>2, <1>3, <2>1 DEF NoBlindResend, Settled, MarkOf, Runnable
<1> QED
  BY <1>5, <1>6, <1>7, <1>8 DEF Inv

LEMMA QuietStep ==
  ASSUME Inv, TypeOK', Tick \/ Backup \/ Rollback \/ UNCHANGED vars
  PROVE  Inv'
<1>1. /\ UNCHANGED <<db, fence, receipts, leases, work>>
      /\ backup' = backup \/ backup' = db
      /\ tx' = tx \/ tx' = NoTx
  BY DEF Tick, Backup, Rollback, vars, dbVars, destVars
<1>2. GenerationInv' /\ HoldInv' /\ AttemptInv'
  BY <1>1 DEF Inv, GenerationInv, HoldInv, AttemptInv, Current
<1>3. StoreInv' /\ NoBlindResend' /\ DependencyOrder'
  BY <1>1 DEF Inv, StoreInv, RowsReal, ReportSound, NoBlindResend, DependencyOrder
<1>4. TxInv'
  BY <1>1 DEF Inv, TxInv, RowsReal, ReportSound
<1> QED
  BY <1>2, <1>3, <1>4 DEF Inv

LEMMA InvStep == Inv /\ [Next]_vars => Inv'
<1> SUFFICES ASSUME Inv, [Next]_vars PROVE Inv'
  OBVIOUS
<1>a. TypeOK'
  BY TypeStep DEF Inv
<1>1. CASE Tick \/ Backup \/ Rollback \/ UNCHANGED vars
  BY <1>a, <1>1, QuietStep
<1>2. ASSUME NEW k \in Key, Accept(k) PROVE Inv'
  BY <1>a, <1>2, AcceptStep
<1>3. ASSUME NEW o \in Owner, Acquire(o) PROVE Inv'
  BY <1>a, <1>3, AcquireStep
<1>4. ASSUME NEW o \in Owner, Renew(o) PROVE Inv'
  BY <1>a, <1>4, RenewStep
<1>5. ASSUME NEW restore \in BOOLEAN, Hold(restore) PROVE Inv'
  BY <1>a, <1>5, HoldStep DEF Hold
<1>6. CASE OpenRestored
  BY <1>a, <1>6, HoldStep DEF OpenRestored
<1>7. CASE Commit \/ CommitUnacknowledged
  BY <1>a, <1>7, CommitStep
<1>8. ASSUME NEW w \in Worker, NEW ack \in BOOLEAN, Claim(w, ack) PROVE Inv'
  BY <1>a, <1>8, ClaimStep
<1>9. ASSUME NEW w \in Worker, ClaimNothing(w) PROVE Inv'
  BY <1>a, <1>9, ClaimNothingStep
<1>10. ASSUME NEW w \in Worker, SendCheck(w) PROVE Inv'
  BY <1>a, <1>10, SendCheckStep
<1>11. ASSUME NEW w \in Worker, Send(w) PROVE Inv'
  BY <1>a, <1>11, SendStep
<1>12. ASSUME NEW w \in Worker, Observe(w) PROVE Inv'
  BY <1>a, <1>12, ObserveStep
<1>13. ASSUME NEW w \in Worker, Abandon(w) PROVE Inv'
  BY <1>a, <1>13, AbandonStep
<1>14. ASSUME NEW readable \in BOOLEAN, Reconcile(readable) PROVE Inv'
  BY <1>a, <1>14, ReconcileStep
<1>15. ASSUME NEW k \in Key, Quarantine(k) PROVE Inv'
  BY <1>a, <1>15, QuarantineStep
<1>16. CASE Resume
  BY <1>a, <1>16, ResumeStep
<1> QED
  BY <1>1, <1>2, <1>3, <1>4, <1>5, <1>6, <1>7, <1>8, <1>9, <1>10, <1>11, <1>12,
     <1>13, <1>14, <1>15, <1>16 DEF Next

\* The inductive invariant of the outbox: Inv holds in every reachable state.
THEOREM Invariance == Spec => []Inv
BY InvInit, InvStep, PTL DEF Spec

-----------------------------------------------------------------------------
(* What the invariant establishes.                                         *)

\* While dispatch is enabled no received intention is offered to a claim again.
THEOREM NeverResent == Spec => []NoBlindResend
<1>1. Inv => NoBlindResend
  BY DEF Inv
<1> QED
  BY <1>1, Invariance, PTL

\* The destination never listens to two senders of one key: a live attempt is
\* one of the present generation, and those have distinct keys.
THEOREM OneSender == Spec => []SingleSender
<1>1. Inv => SingleSender
  <2> SUFFICES ASSUME Inv, NEW v \in Worker, NEW w \in Worker,
                      v # w, Live(v), Live(w)
               PROVE  work[v].key # work[w].key
    BY DEF SingleSender
  <2>1. Current(v) /\ Current(w)
    BY LiveIsCurrent DEF Live
  <2> QED
    BY <2>1 DEF Inv, AttemptInv
<1> QED
  BY <1>1, Invariance, PTL

\* No live attempt exists for a quarantined intention.
THEOREM QuarantineHonoured == Spec => []QuarantineVeto
<1>1. Inv => QuarantineVeto
  <2> SUFFICES ASSUME Inv, NEW w \in Worker, Live(w)
               PROVE  ~db.items[work[w].key].quarantine
    BY DEF QuarantineVeto
  <2>1. Current(w)
    BY LiveIsCurrent DEF Live
  <2> QED
    BY <2>1 DEF Inv, AttemptInv
<1> QED
  BY <1>1, Invariance, PTL

\* The destination receives dependencies first, across every restore.
THEOREM DependenciesFirst == Spec => []DependencyOrder
<1>1. Inv => DependencyOrder
  BY DEF Inv
<1> QED
  BY <1>1, Invariance, PTL

\* What the ledger calls delivered has its matching receipt.
THEOREM DeliveryIsReal == Spec => []DeliveredIsReal
<1>1. Inv => DeliveredIsReal
  BY DEF Inv, StoreInv, RowsReal, DeliveredIsReal
<1> QED
  BY <1>1, Invariance, PTL

\* Only a send changes the receipts, and it needs a current attempt, which a
\* held ledger does not have.
THEOREM HeldMeansSilent == Spec => NoReceiptWhileHeld
<1>1. ASSUME Inv, [Next]_vars PROVE [receipts' # receipts => ~db.hold]_vars
  <2> SUFFICES ASSUME receipts' # receipts PROVE ~db.hold
    OBVIOUS
  <2> USE DEF dbVars, destVars
  <2>1. PICK w \in Worker : Send(w)
    BY <1>1 DEF Next, Tick, Accept, Backup, Acquire, Renew, Hold, OpenRestored,
       HoldOn, Commit, CommitUnacknowledged, Rollback, Claim, ClaimNothing,
       SendCheck, Observe, Abandon, Reconcile, Quarantine, Resume, vars
  <2>2. DestinationTakes(work[w]) /\ work[w].phase # "idle"
    BY <2>1 DEF Send, Keeps
  <2>3. Current(w)
    BY <1>1, <2>2, LiveIsCurrent
  <2> QED
    BY <1>1, <2>3 DEF Inv, HoldInv
<1> QED
  BY <1>1, Invariance, PTL DEF Spec, NoReceiptWhileHeld

\* The step that leaves a hold finds every intention settled.
THEOREM ResumeSound == Spec => ResumeIsSound
<1> DEFINE Fine(k) ==
      \/ db'.items[k].state = "none" /\ receipts'[k] = "none"
      \/ db'.items[k].state = "delivered" /\ receipts'[k] = "match"
      \/ db'.items[k].state = "pending" /\ receipts'[k] = "none"
      \/ db'.items[k].quarantine
<1>1. ASSUME Inv, [Next]_vars, db.hold, ~db'.hold, NEW k \in Key
      PROVE  Fine(k)
  <2>1. db \in Database
    BY <1>1 DEF Inv, TypeOK, DatabaseOK
  <2>2. ASSUME NEW items PROVE [db EXCEPT !.items = items].hold = db.hold
    BY <2>1, Fields
  <2>3. (\E j \in Key : Accept(j) \/ Quarantine(j)) => db'.hold = db.hold
    <3> SUFFICES ASSUME NEW j \in Key, Accept(j) \/ Quarantine(j)
                 PROVE  db'.hold = db.hold
      OBVIOUS
    <3> QED
      BY <2>1 DEF Accept, Quarantine, Database
  <2>4. ~ \E w \in Worker, ack \in BOOLEAN : Claim(w, ack)
    BY <1>1 DEF Claim, Valid
  <2>5. ~ \E w \in Worker : ClaimNothing(w)
    BY <1>1 DEF ClaimNothing, Valid
  <2>6. (\E w \in Worker : Observe(w)) => db' = db
    BY <1>1 DEF Observe, Valid
  <2>7. ~(Commit \/ CommitUnacknowledged)
    BY <1>1 DEF Commit, CommitUnacknowledged, Inv, TxInv
  <2>8. (\E readable \in BOOLEAN : Reconcile(readable)) => db'.hold = db.hold
    <3> SUFFICES ASSUME NEW readable \in BOOLEAN, Reconcile(readable)
                 PROVE  db'.hold = db.hold
      OBVIOUS
    <3>1. db' = [db EXCEPT !.items = ReconciledRows(readable),
                           !.report = ReconciledReport(readable)]
      BY ReconcileWrites
    <3> QED
      BY <2>1, <3>1 DEF Database
  <2>9. Resume
    <3> USE DEF dbVars, destVars
    <3> QED
      BY <1>1, <2>3, <2>4, <2>5, <2>6, <2>7, <2>8 DEF Next, Tick, Backup, Acquire,
         Renew, Hold, OpenRestored, HoldOn, Rollback, SendCheck, Send, Abandon, vars
  <2>10. db'.items = db.items /\ receipts' = receipts
    BY <2>1, <2>9 DEF Resume, Database, destVars
  <2>11. Settled(MarkOf(db.items[k]), receipts[k])
    BY <1>1, <2>9, ResumeSettled
  <2> QED
    BY <2>10, <2>11 DEF Settled, MarkOf
<1>2. ASSUME Inv, [Next]_vars
      PROVE  [db.hold /\ ~db'.hold => \A k \in Key : Fine(k)]_vars
  BY <1>1, <1>2
<1> QED
  BY <1>2, Invariance, PTL DEF Spec, ResumeIsSound

\* Uncertainty is resolved only under a hold: outside one, no acceptance, sweep,
\* claim, observation or takeover moves an unknown row.
THEOREM UncertaintyWaits == Spec => UncertaintyIsHeld
<1> DEFINE Resolved(k) ==
      /\ db.items[k].state = "unknown"
      /\ db'.items[k].state \in Runnable \union {"leased", "delivered"}
<1>1. ASSUME Inv, [Next]_vars, ~db.hold, NEW k \in Key, db.items[k].state = "unknown"
      PROVE  db'.items[k].state \notin Runnable \union {"leased", "delivered"}
  <2> USE <1>1 DEF dbVars, destVars
  <2>1. db \in Database /\ db.items \in [Key -> Delivery]
    BY DEF Inv, TypeOK, DatabaseOK, Database
  <2>2. (\E j \in Key : Accept(j)) => db'.items[k] = db.items[k]
    BY <2>1, Fields DEF Accept
  <2>3. Commit \/ CommitUnacknowledged =>
          db'.items[k].state \in {"none", "unknown", "rejected"}
    BY DEF Commit, CommitUnacknowledged, Inv, TxInv
  <2>4. (\E w \in Worker, ack \in BOOLEAN : Claim(w, ack)) =>
          db'.items[k] = db.items[k]
    <3> SUFFICES ASSUME NEW w \in Worker, NEW ack \in BOOLEAN, Claim(w, ack)
                 PROVE  db'.items[k] = db.items[k]
      OBVIOUS
    <3>1. PICK j \in Ready(now) :
            db' = [db EXCEPT !.items = [SweepExpired(db.items, now) EXCEPT
                                          ![j] = Leased(db.items[j], w, now)]]
      BY DEF Claim
    <3>2. j # k
      BY <3>1 DEF Ready, Runnable
    <3>3. SweepExpired(db.items, now)[k] = db.items[k]
      BY DEF SweepExpired
    <3>4. db'.items = [SweepExpired(db.items, now) EXCEPT
                         ![j] = Leased(db.items[j], w, now)]
      BY <2>1, <3>1, Fields
    <3> QED
      BY <3>2, <3>3, <3>4 DEF SweepExpired
  <2>5. (\E w \in Worker : ClaimNothing(w)) => db'.items[k] = db.items[k]
    BY <2>1, Fields DEF ClaimNothing, SweepExpired
  <2>6. (\E w \in Worker : Observe(w)) => db'.items[k] = db.items[k]
    <3> SUFFICES ASSUME NEW w \in Worker, Observe(w)
                 PROVE  db'.items[k] = db.items[k]
      OBVIOUS
    <3>1. \/ db' = db
          \/ /\ db.items[work[w].key].state = "leased"
             /\ \E new : db' = [db EXCEPT !.items[work[w].key] = new]
      BY DEF Observe, CurrentAttempt
    <3>2. ASSUME NEW new, db.items[work[w].key].state = "leased",
                 db' = [db EXCEPT !.items[work[w].key] = new]
          PROVE  db'.items[k] = db.items[k]
      <4>1. db'.items = [db.items EXCEPT ![work[w].key] = new]
        BY <2>1, <3>2 DEF Database
      <4>2. work[w].key # k
        BY <3>2
      <4> QED
        BY <2>1, <4>1, <4>2
    <3> QED
      BY <3>1, <3>2
  <2>7. Resume => db'.items = db.items
    BY <2>1 DEF Resume, Database
  <2> QED
    BY <2>2, <2>3, <2>4, <2>5, <2>6, <2>7 DEF Next, Tick, Backup, Acquire, Renew,
       Hold, OpenRestored, HoldOn, Rollback, SendCheck, Send, Abandon, Reconcile,
       Quarantine, vars, Runnable
<1>2. ASSUME Inv, [Next]_vars
      PROVE  [\A k \in Key : Resolved(k) => db.hold]_vars
  BY <1>1, <1>2
<1> QED
  BY <1>2, Invariance, PTL DEF Spec, UncertaintyIsHeld

=============================================================================
