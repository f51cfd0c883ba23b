-------------------------- MODULE SettlementProofs --------------------------
(***************************************************************************)
(* Proofs about Settlement for any callers, commands, families, limits and *)
(* deadlines: its types, that the history always replays, and that each    *)
(* call is one atomic step of SettledOnce.                                 *)
(***************************************************************************)
EXTENDS Settlement, TLAPS

(* The tables.  The reservation and the claims are two heads, written       *)
(* apart, that speak of the same families; deliveries and observations are  *)
(* two tables that speak of the same commands.                              *)
StatusInv ==
  \A f \in Family :
    /\ heads.reservation.status[f] = "claimed" <=> Claimed(f)
    /\ Claimed(f) => \E i \in Of(f) : journal[i].command.kind = "ordinary"

DeliveredInv ==
  /\ \A i \in Observations : keys[journal[i].command.key] = journal[i].command
  /\ journal = <<>> => \A k \in Key : keys[k] \in {Free, Elsewhere}

Conserved(r) == r.consumed + r.held + r.released = Maximum

TablesInv == /\ HistoryReplays
             /\ StatusInv /\ DeliveredInv
             /\ Conserved(heads.reservation)

(* A write that may still commit is what the tables lack, decided on them   *)
(* as they are.                                                             *)
Fits(w) ==
  /\ keys[w.command.key] = Free
  /\ w.alias => /\ w.command.kind = "ordinary"
                /\ Claimed(w.command.family)
                /\ SameClaim(w.command, Original(w.command.family))
  /\ ~w.alias => /\ Permitted(w.command, w.accepted)
                 /\ Projects(w.command, w.accepted)

WriteIn(c) == [command |-> c.command, accepted |-> c.accepted, alias |-> c.alias]

(* What a delivery a snapshot showed still is, and what a transaction wrote.*)
CallInv(c) ==
  /\ c.step # "idle" /\ c.view.owner # Free => keys[c.command.key] = c.view.owner
  /\ c.step = "landed" => keys[c.command.key] = c.command
  /\ c.step = "written" => Fits(WriteIn(c))

(* One transaction holds the target, or one COMMIT whose end is open.       *)
HolderInv ==
  /\ \A p, q \in Caller : Holds(p) /\ Holds(q) => p = q
  /\ \A p \in Caller : Holds(p) => late = {}
  /\ \A v, w \in late : v = w

Inv == /\ TypeOK
       /\ TablesInv
       /\ HolderInv
       /\ \A p \in Caller : CallInv(call[p])
       /\ \A w \in late : Fits(w)

-----------------------------------------------------------------------------
(* Types                                                                   *)

CallRecord == [step : Step, command : Command \cup {None}, accepted : Time,
               view : View \cup {None}, alias : BOOLEAN, said : Answer \cup {None}]

(* What TypeOK says of one caller.                                         *)
CallOK(c) == c \in CallRecord
             /\ (c.step # "idle" => c.command \in Command /\ c.view \in View)

TablesOK == /\ keys \in [Key -> Command \cup {Free, Elsewhere}]
            /\ journal \in Seq(Observation)
            /\ heads \in Heads

LEMMA TypeParts ==
  TypeOK <=> /\ TablesOK
             /\ call \in [Caller -> CallRecord]
             /\ \A p \in Caller : CallOK(call[p])
             /\ late \subseteq Write
BY DEF TypeOK, TablesOK, CallOK, CallRecord

LEMMA TypePartsNext ==
  TypeOK' <=> /\ TablesOK'
              /\ call' \in [Caller -> CallRecord]
              /\ \A p \in Caller : CallOK(call'[p])
              /\ late' \subseteq Write
BY DEF TypeOK, TablesOK, CallOK, CallRecord

LEMMA CommandFields ==
  ASSUME NEW c \in Command
  PROVE  /\ c.key \in Key
         /\ c.kind \in {"register", "close", "ordinary", "post_hoc"}
         /\ c.atoms \in Int /\ c.facts \in Nat /\ c.expected \in Nat
         /\ c.kind \in Decisive <=> c.family \in Family
         /\ c.kind \notin Decisive => c.family = None
<1>1. /\ c \in [key : Key, kind : {"register", "close"} \cup Decisive,
                family : Family \cup {None}, atoms : Int, facts : Nat,
                expected : Nat, reason : {"deadline", "authorized"}]
      /\ c.kind \in Decisive <=> c.family # None
  BY CommandAssumption
<1>2. None \notin Family
  BY SentinelAssumption
<1> QED
  BY <1>1, <1>2 DEF Decisive

LEMMA PremiumIsPositive ==
  ASSUME NEW a \in Int
  PROVE  Max({a, 0}) = IF a > 0 THEN a ELSE 0
<1> DEFINE m == IF a > 0 THEN a ELSE 0
<1>1. m \in {a, 0} /\ \A y \in {a, 0} : m >= y
  OBVIOUS
<1>2. \A x \in {a, 0} : (\A y \in {a, 0} : x >= y) => x = m
  OBVIOUS
<1> QED
  BY <1>1, <1>2 DEF Max

(* What a claim takes.                                                     *)
LEMMA ConsumptionType ==
  ASSUME NEW c \in Command
  PROVE  /\ Consumption(c) \in Nat
         /\ Consumption(c) = IF c.kind = "ordinary" /\ c.atoms > 0 THEN c.atoms ELSE 0
BY CommandFields, PremiumIsPositive DEF Consumption

(* Settled moves money between the three accounts, and nothing else.       *)
LEMMA SettledFields ==
  ASSUME NEW c \in Command, NEW r \in Reservation, Covered(c, r)
  PROVE  LET s == Settled(c, r)
         IN /\ s \in Reservation
            /\ s.consumed = r.consumed + Consumption(c)
            /\ s.released = r.released + Release(c, r)
            /\ s.held = r.held - Consumption(c) - Release(c, r)
            /\ s.status = StatusAfter(c, r)
            /\ Conserved(r) => Conserved(s)
<1> DEFINE next == [r EXCEPT !.consumed = @ + Consumption(c),
                             !.released = @ + Release(c, r),
                             !.held = @ - Consumption(c) - Release(c, r),
                             !.status = StatusAfter(c, r)]
           s == Settled(c, r)
<1>1. /\ r.consumed \in Nat /\ r.held \in Nat /\ r.released \in Nat
      /\ r.revision \in Nat /\ r.status \in [Family -> Status]
  BY DEF Reservation
<1>2. Consumption(c) \in Nat /\ Consumption(c) <= r.held
      /\ (c.kind = "close" => Consumption(c) = 0)
  BY ConsumptionType DEF Covered, Consumption
<1>3. Release(c, r) \in Nat /\ r.held - Consumption(c) - Release(c, r) \in Nat
  BY <1>1, <1>2 DEF Release
<1>4. StatusAfter(c, r) \in [Family -> Status]
  BY <1>1 DEF StatusAfter, Status
<1>5. /\ next.consumed = r.consumed + Consumption(c)
      /\ next.held = r.held - Consumption(c) - Release(c, r)
      /\ next.released = r.released + Release(c, r)
      /\ next.status = StatusAfter(c, r)
  BY DEF Reservation
<1>6. s = IF next = r THEN r ELSE [next EXCEPT !.revision = @ + 1]
  BY DEF Settled
<1>7. next \in Reservation
  <2>1. \A x, y, z \in Nat, w \in [Family -> Status] :
          [r EXCEPT !.consumed = x, !.released = y, !.held = z, !.status = w] \in Reservation
    BY DEF Reservation
  <2>2. r.consumed + Consumption(c) \in Nat /\ r.released + Release(c, r) \in Nat
    BY <1>1, <1>2, <1>3
  <2> QED
    BY <1>3, <1>4, <2>1, <2>2
<1> HIDE DEF next
<1>8. /\ s \in Reservation
      /\ s.consumed = next.consumed /\ s.held = next.held
      /\ s.released = next.released /\ s.status = next.status
  <2>1. CASE next = r
    BY <1>6, <1>7, <2>1
  <2>2. CASE next # r
    <3>1. s = [next EXCEPT !.revision = next.revision + 1]
      BY <1>6, <2>2
    <3> QED
      BY <1>7, <3>1 DEF Reservation
  <2> QED
    BY <2>1, <2>2
<1>9. Conserved(r) => Conserved(s)
  BY <1>1, <1>2, <1>3, <1>5, <1>8 DEF Conserved
<1> QED
  BY <1>5, <1>8, <1>9

LEMMA HeadsAfterFields ==
  ASSUME heads \in Heads, NEW c \in Command, NEW t \in Time, Covered(c, heads.reservation)
  PROVE  LET h == HeadsAfter(c, t)
             f == c.family
         IN /\ h \in Heads
            /\ h.target = heads.target + 1
            /\ h.reservation = Settled(c, heads.reservation)
            /\ c.kind \notin Decisive => h.claim = heads.claim /\ h.aggregate = heads.aggregate
            /\ c.kind \in Decisive =>
                 /\ h.claim = [heads.claim EXCEPT ![f] = [number |-> NumberOf(c),
                                                atoms |-> c.atoms, accepted |-> t]]
                 /\ h.aggregate = Latest(heads.aggregate, f, NumberOf(c))
<1> DEFINE h == HeadsAfter(c, t)
           f == c.family
           n == NumberOf(c)
           s == Settled(c, heads.reservation)
           new == [number |-> n, atoms |-> c.atoms, accepted |-> t]
           moved == [heads EXCEPT !.target = @ + 1, !.reservation = s]
<1>1. /\ heads.target \in Nat \cup {Absent} /\ heads.reservation \in Reservation
      /\ heads.claim \in [Family -> Claim] /\ heads.aggregate \subseteq Family \X Nat
  BY DEF Heads
<1>2. heads.target + 1 \in Nat /\ s \in Reservation
  BY <1>1, SettledFields DEF Absent
<1>3. /\ moved \in Heads /\ moved.target = heads.target + 1 /\ moved.reservation = s
      /\ moved.claim = heads.claim /\ moved.aggregate = heads.aggregate
  <2>1. \A x \in Nat, y \in Reservation :
          LET m == [heads EXCEPT !.target = x, !.reservation = y]
          IN /\ m \in Heads /\ m.target = x /\ m.reservation = y
             /\ m.claim = heads.claim /\ m.aggregate = heads.aggregate
    BY DEF Heads
  <2> QED
    BY <1>2, <2>1
<1>4. CASE c.kind \notin Decisive
  <2>1. h = moved
    BY <1>4 DEF HeadsAfter
  <2> QED
    BY <1>3, <1>4, <2>1
<1>5. CASE c.kind \in Decisive
  <2>1. h = [moved EXCEPT !.claim[f] = new, !.aggregate = Latest(@, f, n)]
    BY <1>5 DEF HeadsAfter
  <2> HIDE DEF moved, h
  <2>2. f \in Family /\ n \in Nat /\ new \in Claim
    <3>1. f \in Family /\ c.atoms \in Int
      BY <1>5, CommandFields
    <3>2. heads.claim[f].number + 1 \in Nat
      BY <1>1, <3>1 DEF Claim
    <3> QED
      BY <1>5, <3>1, <3>2 DEF NumberOf, Claim
  <2>3. /\ [heads.claim EXCEPT ![f] = new] \in [Family -> Claim]
        /\ Latest(heads.aggregate, f, n) \subseteq Family \X Nat
    BY <1>1, <2>2 DEF Latest
  <2>4. \A x \in [Family -> Claim], y \in SUBSET (Family \X Nat) :
          [moved EXCEPT !.claim = x, !.aggregate = y] \in
            {m \in Heads : /\ m.target = moved.target /\ m.reservation = moved.reservation
                           /\ m.claim = x /\ m.aggregate = y}
    BY <1>3 DEF Heads
  <2>5. h = [moved EXCEPT !.claim = [heads.claim EXCEPT ![f] = new],
                          !.aggregate = Latest(heads.aggregate, f, n)]
    BY <1>3, <2>1
  <2>6. h \in {m \in Heads : /\ m.target = moved.target /\ m.reservation = moved.reservation
                             /\ m.claim = [heads.claim EXCEPT ![f] = new]
                             /\ m.aggregate = Latest(heads.aggregate, f, n)}
    BY <2>3, <2>4, <2>5
  <2> QED
    BY <1>3, <1>5, <2>3, <2>6 DEF h
<1> QED
  BY <1>4, <1>5

-----------------------------------------------------------------------------
(* A plan is applied                                                       *)

ObservationOf(w) == [command |-> w.command, accepted |-> w.accepted,
                     number |-> NumberOf(w.command),
                     after |-> Settled(w.command, heads.reservation)]

(* One observation more, and the heads moved as its command says.           *)
Extends(w) ==
  LET n == Len(journal)
      c == w.command
  IN /\ n \in Nat /\ Observations = 1..n /\ Observations' = 1..(n + 1)
     /\ Len(journal') = n + 1
     /\ \A i \in 1..n : journal'[i] = journal[i]
     /\ journal'[n + 1] = ObservationOf(w)
     /\ keys' = [keys EXCEPT ![c.key] = c]
     /\ heads'.target = heads.target + 1
     /\ heads'.reservation = Settled(c, heads.reservation)
     /\ c.kind \notin Decisive => heads'.claim = heads.claim
                                  /\ heads'.aggregate = heads.aggregate
     /\ c.kind \in Decisive =>
          /\ heads'.claim = [heads.claim EXCEPT ![c.family] =
               [number |-> NumberOf(c), atoms |-> c.atoms, accepted |-> w.accepted]]
          /\ heads'.aggregate = Latest(heads.aggregate, c.family, NumberOf(c))

LEMMA WriteFields ==
  ASSUME NEW w \in Write
  PROVE  w.command \in Command /\ w.accepted \in Time /\ w.alias \in BOOLEAN
         /\ w.accepted \in Nat
<1>1. Time \subseteq Nat
  BY CapacityAssumption DEF Time
<1> QED
  BY <1>1 DEF Write

LEMMA AppliedPlan ==
  ASSUME TablesOK, NEW w \in Write, ~w.alias, Fits(w), Applied(w)
  PROVE  TablesOK' /\ Extends(w)
<1> DEFINE c == w.command
           o == ObservationOf(w)
           r == heads.reservation
<1>1. c \in Command /\ w.accepted \in Time /\ c.key \in Key
  BY WriteFields, CommandFields
<1>2. r \in Reservation /\ heads \in Heads /\ journal \in Seq(Observation)
  BY DEF TablesOK, Heads
<1>3. Covered(c, r)
  BY DEF Fits, Projects
<1>4. /\ keys' = [keys EXCEPT ![c.key] = c]
      /\ heads' = HeadsAfter(c, w.accepted)
      /\ journal' = Append(journal, o)
  BY DEF Applied, ObservationOf
<1>5. NumberOf(c) \in Nat
  <2>1. CASE c.kind \in Decisive
    <3>1. c.family \in Family
      BY <1>1, <2>1, CommandFields
    <3>2. heads.claim[c.family].number \in Nat
      BY <1>2, <3>1 DEF Heads, Claim
    <3> QED
      BY <2>1, <3>2 DEF NumberOf
  <2>2. CASE c.kind \notin Decisive
    BY <2>2 DEF NumberOf
  <2> QED
    BY <2>1, <2>2
<1>6. o \in Observation
  <2>1. Settled(c, r) \in Reservation
    BY <1>1, <1>2, <1>3, SettledFields
  <2> QED
    BY <1>1, <1>5, <2>1 DEF ObservationOf, Observation
<1>7. /\ journal' \in Seq(Observation)
      /\ Len(journal) \in Nat /\ Len(journal') = Len(journal) + 1
      /\ DOMAIN journal = 1..Len(journal) /\ DOMAIN journal' = 1..(Len(journal) + 1)
      /\ \A i \in 1..Len(journal) : journal'[i] = journal[i]
      /\ journal'[Len(journal) + 1] = o
  <2> HIDE DEF o
  <2> QED
    BY <1>2, <1>4, <1>6
<1>8. TablesOK'
  BY <1>1, <1>2, <1>3, <1>4, <1>7, HeadsAfterFields DEF TablesOK
<1> QED
  BY <1>1, <1>2, <1>3, <1>4, <1>7, <1>8, HeadsAfterFields DEF Extends, Observations

(* What the decision and the heads establish of the command.               *)
LEMMA PlanFacts ==
  ASSUME TablesOK, TablesInv, NEW w \in Write, ~w.alias, Fits(w), Extends(w)
  PROVE  LET c == w.command
             f == c.family
             r == heads.reservation
             n == Len(journal)
         IN /\ c \in Command /\ w.accepted \in Nat
            /\ c.kind \in {"register", "close", "ordinary", "post_hoc"}
            /\ c.kind \in {"ordinary", "post_hoc"} <=> f \in Family
            /\ (c.kind = "register") = (n = 0)
            /\ r \in Reservation /\ Covered(c, r)
            /\ r = IF n = 0 THEN Opening ELSE journal[n].after
            /\ n > 0 => journal[n].accepted <= w.accepted
            /\ c.kind = "ordinary" =>
                 /\ r.status[f] = "open" /\ heads.claim[f].number = 0
                 /\ NumberOf(c) = 1 /\ w.accepted <= AcceptedBy[f]
            /\ c.kind = "post_hoc" =>
                 /\ r.status[f] = "claimed" /\ heads.claim[f].number = c.expected
                 /\ NumberOf(c) = c.expected + 1 /\ c.expected > 0
            /\ c.kind \in {"ordinary", "post_hoc"} => WithinLimits(Active(f, c.atoms))
            /\ c.kind = "close" => c.expected = r.revision
<1> DEFINE c == w.command
           f == c.family
           r == heads.reservation
           n == Len(journal)
<1>1. /\ c \in Command /\ w.accepted \in Nat /\ c.expected \in Nat
      /\ c.kind \in {"register", "close", "ordinary", "post_hoc"}
      /\ c.kind \in {"ordinary", "post_hoc"} <=> f \in Family
  BY WriteFields, CommandFields DEF Decisive
<1>2. /\ Permitted(c, w.accepted) /\ Projects(c, w.accepted)
      /\ n \in Nat /\ (journal = <<>> <=> n = 0)
      /\ r \in Reservation
  BY DEF Fits, Extends, TablesOK, Heads
<1>3. /\ (c.kind = "register") = (n = 0) /\ Covered(c, r)
      /\ n > 0 => journal[n].accepted <= w.accepted
  BY <1>2 DEF Projects, LastAccepted
<1>4. r = IF n = 0 THEN Opening ELSE journal[n].after
  BY <1>2 DEF TablesInv, HistoryReplays, HeadsAgree
<1>5. \A g \in Family : /\ heads.claim[g].number \in Nat
                        /\ r.status[g] = "claimed" <=> heads.claim[g].number > 0
  BY DEF TablesOK, Heads, Claim, TablesInv, StatusInv, Claimed
<1>6. CASE c.kind = "ordinary"
  <2>1. /\ r.status[f] = "open" /\ w.accepted <= AcceptedBy[f]
        /\ WithinLimits(Active(f, c.atoms))
    BY <1>2, <1>6 DEF Permitted, MayClaim
  <2>2. heads.claim[f].number = 0
    BY <1>1, <1>5, <1>6, <2>1
  <2>3. NumberOf(c) = 1
    BY <1>6, <2>2 DEF NumberOf, Decisive
  <2> QED
    BY <1>1, <1>2, <1>3, <1>4, <1>6, <2>1, <2>2, <2>3
<1>7. CASE c.kind = "post_hoc"
  <2>1. /\ heads.claim[f].number > 0 /\ c.expected = heads.claim[f].number
        /\ WithinLimits(Active(f, c.atoms))
    BY <1>2, <1>7 DEF Permitted, MayCorrect, Claimed
  <2>2. NumberOf(c) = c.expected + 1
    BY <1>7, <2>1 DEF NumberOf, Decisive
  <2> QED
    BY <1>1, <1>2, <1>3, <1>4, <1>5, <1>7, <2>1, <2>2
<1>8. CASE c.kind = "close"
  <2>1. c.expected = r.revision
    BY <1>2, <1>8 DEF Permitted, MayClose
  <2> QED
    BY <1>1, <1>2, <1>3, <1>4, <1>8, <2>1
<1>9. CASE c.kind = "register"
  BY <1>1, <1>2, <1>3, <1>4, <1>9
<1> QED
  BY <1>1, <1>6, <1>7, <1>8, <1>9

LEMMA ReplaysKept ==
  ASSUME TablesOK, TablesInv, NEW w \in Write, ~w.alias, Fits(w), Extends(w)
  PROVE  \A i \in Observations' : Replays(i)'
<1> DEFINE c == w.command
           f == c.family
           r == heads.reservation
           n == Len(journal)
<1>1. /\ n \in Nat /\ Observations = 1..n /\ Observations' = 1..(n + 1)
      /\ \A i \in 1..n : journal'[i] = journal[i]
      /\ journal'[n + 1] = ObservationOf(w)
  BY DEF Extends
<1>2. \A i \in 1..(n + 1) : Before(i)' = IF i = n + 1 THEN r ELSE Before(i)
  BY <1>1, PlanFacts DEF Before
<1>3. ASSUME NEW i \in 1..n
      PROVE  Replays(i)'
  <2>1. Replays(i)
    BY <1>1 DEF TablesInv, HistoryReplays
  <2>2. /\ journal'[i] = journal[i] /\ Before(i)' = Before(i)
        /\ i > 1 => journal'[i - 1] = journal[i - 1]
    BY <1>1, <1>2
  <2>3. \A j \in Of(journal[i].command.family) :
          /\ j \in Of(journal[i].command.family)'
          /\ journal'[j] = journal[j]
    BY <1>1, <2>2 DEF Of
  <2> QED
    BY <2>1, <2>2, <2>3 DEF Replays
<1>4. ASSUME NEW i \in 1..(n + 1), i = n + 1
      PROVE  Replays(i)'
  <2> DEFINE o == ObservationOf(w)
  <2>1. /\ o.command = c /\ o.accepted = w.accepted /\ o.number = NumberOf(c)
        /\ o.after = Settled(c, r)
    BY DEF ObservationOf
  <2>2. journal'[i] = o /\ Before(i)' = r /\ (i > 1 => journal'[i - 1] = journal[n])
    BY <1>1, <1>2, <1>4
  <2>3. Conserved(o.after)
    BY <2>1, PlanFacts, SettledFields DEF TablesInv
  <2>4. ASSUME c.kind = "post_hoc"
        PROVE  \E j \in Of(f)' : j < i /\ journal'[j].number = c.expected
    <3>1. f \in Family /\ heads.claim[f].number = c.expected /\ c.expected > 0
          /\ c.expected \in Nat
      BY <2>4, PlanFacts, CommandFields
    <3>2. PICK j \in Of(f) : journal[j].number = c.expected
      BY <3>1 DEF TablesInv, HistoryReplays, HeadOf
    <3>3. j \in 1..n /\ journal'[j] = journal[j] /\ j \in Of(f)'
      BY <1>1, <3>2 DEF Of
    <3> QED
      BY <1>1, <1>4, <3>2, <3>3
  <2> HIDE DEF o
  <2> QED
    BY <1>1, <1>4, <2>1, <2>2, <2>3, <2>4, PlanFacts DEF Replays, Conserved
<1> QED
  BY <1>1, <1>3, <1>4

(* The observations of each family, and its head, before and after.        *)
LEMMA FamilyExtended ==
  ASSUME TablesOK, NEW w \in Write, Extends(w), NEW g \in Family
  PROVE  LET n == Len(journal)
             c == w.command
         IN /\ \A i \in Of(g) : i \in 1..n /\ journal'[i] = journal[i]
                                /\ journal[i].number \in Nat
            /\ c.family # g => Of(g)' = Of(g) /\ heads'.claim[g] = heads.claim[g]
            /\ c.family = g =>
                 /\ Of(g)' = Of(g) \cup {n + 1}
                 /\ journal'[n + 1] = ObservationOf(w)
                 /\ heads'.claim[g] = [number |-> heads.claim[g].number + 1,
                                       atoms |-> c.atoms, accepted |-> w.accepted]
                 /\ NumberOf(c) = heads.claim[g].number + 1
                 /\ heads.claim[g].number \in Nat
<1> DEFINE c == w.command
           n == Len(journal)
<1>1. /\ n \in Nat /\ Observations = 1..n /\ Observations' = 1..(n + 1)
      /\ \A i \in 1..n : journal'[i] = journal[i] /\ journal[i] \in Observation
      /\ journal'[n + 1] = ObservationOf(w) /\ ObservationOf(w).command = c
  BY DEF Extends, TablesOK, ObservationOf
<1>2. \A i \in Of(g) : i \in 1..n /\ journal'[i] = journal[i] /\ journal[i].number \in Nat
  BY <1>1 DEF Of, Observation
<1>3. Of(g)' = Of(g) \cup (IF c.family = g THEN {n + 1} ELSE {})
  BY <1>1 DEF Of
<1>4. /\ c \in Command /\ (c.kind \in Decisive <=> c.family \in Family)
      /\ heads.claim \in [Family -> Claim]
  BY WriteFields, CommandFields DEF TablesOK, Heads
<1>5. CASE c.family # g
  <2>1. heads'.claim[g] = heads.claim[g]
    BY <1>4, <1>5 DEF Extends
  <2> QED
    BY <1>2, <1>3, <1>5, <2>1
<1>6. CASE c.family = g
  <2>1. /\ c.kind \in Decisive /\ NumberOf(c) = heads.claim[g].number + 1
        /\ heads.claim[g].number \in Nat
    BY <1>4, <1>6 DEF NumberOf, Claim
  <2>2. heads'.claim[g] = [number |-> heads.claim[g].number + 1,
                           atoms |-> c.atoms, accepted |-> w.accepted]
    BY <1>4, <1>6, <2>1 DEF Extends
  <2> QED
    BY <1>1, <1>2, <1>3, <1>6, <2>1, <2>2
<1> QED
  BY <1>5, <1>6

LEMMA RevisionsKept ==
  ASSUME TablesOK, TablesInv, NEW w \in Write, Extends(w), NEW g \in Family
  PROVE  OneOfANumber(g)' /\ HeadOf(g)'
<1> DEFINE c == w.command
           n == Len(journal)
           k == heads.claim[g].number
<1>1. OneOfANumber(g) /\ HeadOf(g)
  BY DEF TablesInv, HistoryReplays
<1>2. \A i \in Of(g) : journal'[i] = journal[i] /\ journal[i].number \in Nat /\ i \in 1..n
  BY FamilyExtended
<1>3. CASE c.family # g
  <2>1. Of(g)' = Of(g) /\ heads'.claim[g] = heads.claim[g]
    BY <1>3, FamilyExtended
  <2>2. OneOfANumber(g)'
    BY <1>1, <1>2, <2>1 DEF OneOfANumber
  <2>3. HeadOf(g)'
    BY <1>1, <1>2, <2>1 DEF HeadOf
  <2> QED
    BY <2>2, <2>3
<1>4. CASE c.family = g
  <2>1. /\ Of(g)' = Of(g) \cup {n + 1} /\ journal'[n + 1] = ObservationOf(w)
        /\ heads'.claim[g] = [number |-> k + 1, atoms |-> c.atoms, accepted |-> w.accepted]
        /\ NumberOf(c) = k + 1 /\ k \in Nat
    BY <1>4, FamilyExtended
  <2>2. /\ journal'[n + 1].number = k + 1 /\ journal'[n + 1].command = c
        /\ journal'[n + 1].accepted = w.accepted
    BY <2>1 DEF ObservationOf
  <2>3. \A i \in Of(g) : journal[i].number <= k
    BY <1>1 DEF HeadOf
  <2>4. OneOfANumber(g)'
    BY <1>1, <1>2, <2>1, <2>2, <2>3 DEF OneOfANumber
  <2>5. HeadOf(g)'
    <3>1. heads'.claim[g].number = k + 1 /\ heads'.claim[g].atoms = c.atoms
          /\ heads'.claim[g].accepted = w.accepted /\ k + 1 # 0
      BY <2>1
    <3>2. \A i \in Of(g)' : journal'[i].number <= k + 1
      BY <1>2, <2>1, <2>2, <2>3
    <3> QED
      BY <2>1, <2>2, <3>1, <3>2 DEF HeadOf
  <2> QED
    BY <2>4, <2>5
<1> QED
  BY <1>3, <1>4

LEMMA HeadsAgreeKept ==
  ASSUME TablesOK, TablesInv, NEW w \in Write, ~w.alias, Fits(w), Extends(w)
  PROVE  HeadsAgree' /\ LimitsHold'
<1> DEFINE c == w.command
           f == c.family
           n == Len(journal)
           Agg(h) == {<<g, h[g].number>> : g \in {g \in Family : h[g].number > 0}}
<1>1. /\ HeadsAgree /\ LimitsHold
      /\ c \in Command /\ (c.kind \in Decisive <=> f \in Family)
      /\ heads.claim \in [Family -> Claim] /\ n \in Nat
  BY WriteFields, CommandFields DEF TablesInv, HistoryReplays, TablesOK, Heads, Extends
<1>2. \A g \in Family : heads.claim[g].number \in Nat
  BY <1>1 DEF Claim
<1>3. heads.aggregate = Agg(heads.claim)
  BY <1>1 DEF HeadsAgree, Claimed
<1>4. heads'.aggregate = Agg(heads'.claim)
  <2>1. CASE c.kind \notin Decisive
    BY <1>3, <2>1 DEF Extends
  <2>2. CASE c.kind \in Decisive
    <3>1. /\ f \in Family
          /\ heads'.aggregate = {r \in heads.aggregate : r[1] # f} \cup {<<f, NumberOf(c)>>}
          /\ heads'.claim[f].number = NumberOf(c) /\ NumberOf(c) > 0
          /\ \A g \in Family : g # f => heads'.claim[g] = heads.claim[g]
      <4>1. f \in Family /\ NumberOf(c) = heads.claim[f].number + 1
        BY <1>1, <2>2 DEF NumberOf
      <4>2. /\ heads'.claim = [heads.claim EXCEPT ![f] =
                 [number |-> NumberOf(c), atoms |-> c.atoms, accepted |-> w.accepted]]
            /\ heads'.aggregate = Latest(heads.aggregate, f, NumberOf(c))
        BY <2>2 DEF Extends
      <4> QED
        BY <1>1, <1>2, <4>1, <4>2 DEF Latest
    <3>2. ASSUME NEW r \in heads'.aggregate
          PROVE  r \in Agg(heads'.claim)
      <4>1. CASE r \in heads.aggregate /\ r[1] # f
        <5>1. PICK g \in Family : heads.claim[g].number > 0 /\ r = <<g, heads.claim[g].number>>
          BY <1>3, <4>1
        <5>2. g # f
          BY <4>1, <5>1
        <5> QED
          BY <3>1, <5>1, <5>2
      <4>2. CASE r = <<f, NumberOf(c)>>
        BY <3>1, <4>2
      <4> QED
        BY <3>1, <4>1, <4>2
    <3>3. ASSUME NEW g \in Family, heads'.claim[g].number > 0
          PROVE  <<g, heads'.claim[g].number>> \in heads'.aggregate
      <4>1. CASE g = f
        BY <3>1, <4>1
      <4>2. CASE g # f
        <5>1. heads'.claim[g] = heads.claim[g]
          BY <3>1, <4>2
        <5>2. <<g, heads.claim[g].number>> \in heads.aggregate
          BY <1>3, <3>3, <5>1
        <5>3. <<g, heads.claim[g].number>>[1] # f
          BY <4>2
        <5> QED
          BY <3>1, <5>1, <5>2, <5>3
      <4> QED
        BY <4>1, <4>2
    <3> QED
      BY <3>2, <3>3
  <2> QED
    BY <2>1, <2>2
<1>5. /\ heads'.target = Len(journal') - 1
      /\ heads'.reservation = IF journal' = <<>> THEN Opening
                              ELSE journal'[Len(journal')].after
  <2>1. heads.target = n - 1 /\ heads'.target = heads.target + 1 /\ Len(journal') = n + 1
    BY <1>1 DEF HeadsAgree, Extends
  <2>2. journal' # <<>>
    BY <1>1, <2>1
  <2>3. journal'[Len(journal')].after = heads'.reservation
    BY <2>1 DEF Extends, ObservationOf
  <2> QED
    BY <1>1, <2>1, <2>2, <2>3
<1>6. HeadsAgree'
  BY <1>4, <1>5 DEF HeadsAgree, Claimed
<1>7. LimitsHold'
  <2>1. CASE c.kind \notin Decisive
    BY <1>1, <2>1 DEF LimitsHold, Claimed, Extends
  <2>2. CASE c.kind \in Decisive
    <3>1. f \in Family
          /\ heads'.claim = [heads.claim EXCEPT ![f] =
               [number |-> NumberOf(c), atoms |-> c.atoms, accepted |-> w.accepted]]
      BY <1>1, <2>2 DEF Extends
    <3>2. [g \in Family |-> heads'.claim[g].atoms] = Active(f, c.atoms)
      BY <1>1, <3>1 DEF Active
    <3>3. WithinLimits(Active(f, c.atoms))
      BY <2>2, PlanFacts DEF Decisive
    <3>4. WithinLimits([g \in Family |-> heads'.claim[g].atoms])
      BY <3>2, <3>3
    <3> QED
      BY <3>4 DEF LimitsHold
  <2> QED
    BY <2>1, <2>2
<1> QED
  BY <1>6, <1>7

LEMMA StatusKept ==
  ASSUME TablesOK, TablesInv, NEW w \in Write, ~w.alias, Fits(w), Extends(w)
  PROVE  StatusInv'
<1> DEFINE c == w.command
           f == c.family
           r == heads.reservation
           n == Len(journal)
<1>1. /\ c \in Command /\ r \in Reservation /\ Covered(c, r)
      /\ heads'.reservation = Settled(c, r)
      /\ \A g \in Family : heads.claim[g].number \in Nat
  BY PlanFacts DEF Extends, TablesOK, Heads, Claim
<1>2. heads'.reservation.status = StatusAfter(c, r)
  BY <1>1, SettledFields
<1> SUFFICES ASSUME NEW g \in Family
             PROVE  /\ heads'.reservation.status[g] = "claimed" <=> Claimed(g)'
                    /\ Claimed(g)' => \E i \in Of(g)' : journal'[i].command.kind = "ordinary"
  BY DEF StatusInv
<1>3. /\ heads'.reservation.status[g] =
           CASE c.kind = "ordinary" /\ f = g          -> "claimed"
             [] c.kind = "close" /\ r.status[g] = "open" -> "closed"
             [] OTHER                                 -> r.status[g]
  BY <1>2 DEF StatusAfter
<1>4. /\ r.status[g] = "claimed" <=> heads.claim[g].number > 0
      /\ Claimed(g) => \E i \in Of(g) : journal[i].command.kind = "ordinary"
  BY DEF TablesInv, StatusInv, Claimed
<1>5. \A i \in Of(g) : journal'[i] = journal[i] /\ i \in Of(g)'
  BY FamilyExtended
<1>6. CASE f = g
  <2>1. c.kind \in {"ordinary", "post_hoc"}
    BY <1>6, PlanFacts
  <2>2. heads'.claim[g].number = heads.claim[g].number + 1 /\ heads.claim[g].number \in Nat
        /\ n + 1 \in Of(g)' /\ journal'[n + 1].command = c
    <3>1. /\ heads'.claim[g] = [number |-> heads.claim[g].number + 1,
                                atoms |-> c.atoms, accepted |-> w.accepted]
          /\ heads.claim[g].number \in Nat
          /\ Of(g)' = Of(g) \cup {n + 1} /\ journal'[n + 1] = ObservationOf(w)
      BY <1>6, FamilyExtended
    <3> QED
      BY <3>1 DEF ObservationOf
  <2>3. Claimed(g)'
    BY <2>2 DEF Claimed
  <2>4. CASE c.kind = "ordinary"
    BY <1>3, <1>6, <2>2, <2>3, <2>4
  <2>5. CASE c.kind = "post_hoc"
    <3>1. r.status[g] = "claimed" /\ Claimed(g)
      BY <1>4, <1>6, <2>5, PlanFacts DEF Claimed
    <3>2. heads'.reservation.status[g] = "claimed"
      BY <1>3, <2>5, <3>1
    <3> QED
      BY <1>4, <1>5, <2>3, <3>1, <3>2
  <2> QED
    BY <2>1, <2>4, <2>5
<1>7. CASE f # g
  <2>1. heads'.claim[g] = heads.claim[g]
    BY <1>7, FamilyExtended
  <2>2. heads'.reservation.status[g] = "claimed" <=> r.status[g] = "claimed"
    BY <1>3, <1>7
  <2>3. Claimed(g)' <=> Claimed(g)
    BY <2>1 DEF Claimed
  <2> QED
    BY <1>4, <1>5, <2>2, <2>3 DEF Claimed
<1> QED
  BY <1>6, <1>7

LEMMA DeliveredKept ==
  ASSUME TablesOK, TablesInv, NEW w \in Write, Fits(w), Extends(w)
  PROVE  DeliveredInv'
<1> DEFINE c == w.command
           n == Len(journal)
<1>1. /\ c \in Command /\ c.key \in Key /\ n \in Nat
      /\ Observations = 1..n /\ Observations' = 1..(n + 1) /\ Len(journal') = n + 1
      /\ \A i \in 1..n : journal'[i] = journal[i] /\ journal[i] \in Observation
      /\ journal'[n + 1].command = c
      /\ keys' = [keys EXCEPT ![c.key] = c] /\ keys[c.key] = Free
      /\ keys \in [Key -> Command \cup {Free, Elsewhere}]
  BY WriteFields, CommandFields DEF Extends, TablesOK, ObservationOf, Fits
<1>2. journal' # <<>>
  BY <1>1
<1>3. ASSUME NEW i \in 1..n
      PROVE  keys'[journal'[i].command.key] = journal'[i].command
  <2>1. /\ journal'[i] = journal[i] /\ journal[i].command \in Command
        /\ keys[journal[i].command.key] = journal[i].command
    BY <1>1 DEF TablesInv, DeliveredInv, Observation
  <2>2. journal[i].command.key \in Key /\ journal[i].command # Free
    BY <2>1, CommandFields, SentinelAssumption
  <2> QED
    BY <1>1, <2>1, <2>2
<1>4. keys'[journal'[n + 1].command.key] = journal'[n + 1].command
  BY <1>1
<1>5. \A i \in Observations' : keys'[journal'[i].command.key] = journal'[i].command
  BY <1>1, <1>3, <1>4
<1> QED
  BY <1>2, <1>5 DEF DeliveredInv

-----------------------------------------------------------------------------
(* The tables                                                              *)

\* A delivery keeps its command, and no observation is lost.
Grows == \A k \in Key : keys[k] # Free => keys'[k] = keys[k]

LEMMA GrowsWith ==
  ASSUME TablesOK, NEW k \in Key, NEW owner, keys[k] = Free,
         keys' = [keys EXCEPT ![k] = owner]
  PROVE  Grows
BY DEF TablesOK, Grows

LEMMA PlanKeeps ==
  ASSUME TablesOK, TablesInv, NEW w \in Write, ~w.alias, Fits(w), Applied(w)
  PROVE  TablesOK' /\ TablesInv' /\ Grows /\ keys'[w.command.key] = w.command
<1>1. TablesOK' /\ Extends(w)
  BY AppliedPlan
<1>2. HistoryReplays'
  <2>1. \A i \in Observations' : Replays(i)'
    BY <1>1, ReplaysKept
  <2>2. \A f \in Family : OneOfANumber(f)' /\ HeadOf(f)'
    BY <1>1, RevisionsKept
  <2>3. HeadsAgree' /\ LimitsHold'
    BY <1>1, HeadsAgreeKept
  <2> QED
    BY <2>1, <2>2, <2>3 DEF HistoryReplays
<1>3. StatusInv' /\ DeliveredInv'
  BY <1>1, StatusKept, DeliveredKept
<1>4. Conserved(heads'.reservation)
  <2>1. /\ heads.reservation \in Reservation /\ Covered(w.command, heads.reservation)
        /\ heads'.reservation = Settled(w.command, heads.reservation)
        /\ w.command \in Command /\ Conserved(heads.reservation)
    BY <1>1, WriteFields DEF Extends, TablesOK, Heads, Fits, Projects, TablesInv
  <2> QED
    BY <2>1, SettledFields
<1>5. /\ w.command.key \in Key /\ keys[w.command.key] = Free
      /\ keys' = [keys EXCEPT ![w.command.key] = w.command]
  BY <1>1, WriteFields, CommandFields DEF Extends, Fits
<1>6. Grows /\ keys'[w.command.key] = w.command
  BY <1>5, GrowsWith DEF TablesOK
<1> QED
  BY <1>1, <1>2, <1>3, <1>4, <1>6 DEF TablesInv

(* A key is delivered, and neither a head nor an observation moves.         *)
LEMMA KeyKeeps ==
  ASSUME TablesOK, TablesInv, UNCHANGED <<journal, heads>>,
         NEW k \in Key, keys[k] = Free,
         NEW owner \in Command \cup {Elsewhere},
         keys' = [keys EXCEPT ![k] = owner],
         owner \in Command => journal # <<>>
  PROVE  TablesOK' /\ TablesInv' /\ Grows /\ keys'[k] = owner
<1>1. TablesOK' /\ keys'[k] = owner /\ \A j \in Key : j # k => keys'[j] = keys[j]
  BY DEF TablesOK
<1>2. Grows
  BY GrowsWith
<1>3. HistoryReplays' /\ StatusInv' /\ Conserved(heads'.reservation)
  BY DEF TablesInv, HistoryReplays, Replays, Before, Of, Observations, OneOfANumber,
     HeadOf, HeadsAgree, LimitsHold, Claimed, StatusInv
<1>4. DeliveredInv'
  <2>1. ASSUME NEW i \in Observations
        PROVE  keys'[journal[i].command.key] = journal[i].command
    <3>1. /\ journal[i].command \in Command
          /\ keys[journal[i].command.key] = journal[i].command
      <4>1. journal[i] \in Observation
        BY DEF TablesOK, Observations
      <4> QED
        BY <4>1 DEF Observation, TablesInv, DeliveredInv
    <3>2. journal[i].command.key \in Key /\ journal[i].command # Free
      BY <3>1, CommandFields, SentinelAssumption
    <3> QED
      BY <1>2, <3>1, <3>2 DEF Grows
  <2>2. journal = <<>> => \A j \in Key : keys'[j] \in {Free, Elsewhere}
    BY <1>1 DEF TablesInv, DeliveredInv
  <2> QED
    BY <2>1, <2>2 DEF DeliveredInv, Observations
<1> QED
  BY <1>1, <1>2, <1>3, <1>4 DEF TablesInv

LEMMA AppliedKeeps ==
  ASSUME TablesOK, TablesInv, NEW w \in Write, Fits(w), Applied(w)
  PROVE  TablesOK' /\ TablesInv' /\ Grows /\ keys'[w.command.key] = w.command
<1>1. CASE w.alias
  <2>1. /\ w.command \in Command /\ w.command.key \in Key
        /\ keys[w.command.key] = Free
        /\ keys' = [keys EXCEPT ![w.command.key] = w.command]
        /\ UNCHANGED <<journal, heads>>
    BY <1>1, WriteFields, CommandFields DEF Fits, Applied
  <2>2. journal # <<>>
    <3>1. Claimed(w.command.family) /\ w.command.family \in Family
      BY <1>1, <2>1, CommandFields DEF Fits, Decisive
    <3>2. PICK i \in Of(w.command.family) : TRUE
      BY <3>1 DEF TablesInv, StatusInv
    <3>3. Len(journal) # 0
      BY <3>2 DEF Of, Observations, TablesOK
    <3> QED
      BY <3>3
  <2> QED
    BY <2>1, <2>2, KeyKeeps
<1>2. CASE ~w.alias
  BY <1>2, PlanKeeps
<1> QED
  BY <1>1, <1>2

-----------------------------------------------------------------------------
(* The callers                                                             *)

LEMMA InvParts ==
  Inv => /\ TablesOK /\ TablesInv /\ HolderInv
         /\ call \in [Caller -> CallRecord]
         /\ \A p \in Caller : CallOK(call[p]) /\ CallInv(call[p])
         /\ late \subseteq Write
         /\ \A w \in late : Fits(w)
BY TypeParts DEF Inv

LEMMA InvPartsNext ==
  /\ TablesOK' /\ TablesInv' /\ HolderInv'
  /\ call' \in [Caller -> CallRecord]
  /\ \A p \in Caller : CallOK(call'[p]) /\ CallInv(call[p])'
  /\ late' \subseteq Write
  /\ \A w \in late' : Fits(w)'
  => Inv'
BY TypePartsNext DEF Inv

(* A step of one caller's transaction disturbs no other caller.            *)
LEMMA OneCaller ==
  ASSUME Inv, NEW p \in Caller, NEW c, CallOK(c),
         call' = [call EXCEPT ![p] = c]
  PROVE  /\ call' \in [Caller -> CallRecord]
         /\ \A q \in Caller : CallOK(call'[q])
         /\ call'[p] = c
         /\ \A q \in Caller : q # p => call'[q] = call[q]
BY InvParts DEF CallOK

(* What was decided on the tables holds as long as they do.                *)
LEMMA FitsKept ==
  ASSUME UNCHANGED tables, NEW w, Fits(w)
  PROVE  Fits(w)'
<1>1. keys' = keys /\ journal' = journal /\ heads' = heads
  BY DEF tables
<1>2. Original(w.command.family)' = Original(w.command.family)
  BY <1>1 DEF Original
<1>3. Permitted(w.command, w.accepted)' <=> Permitted(w.command, w.accepted)
  BY <1>1 DEF Permitted, MayClaim, MayCorrect, MayClose, Claimed, Active
<1>4. Projects(w.command, w.accepted)' <=> Projects(w.command, w.accepted)
  BY <1>1 DEF Projects, LastAccepted
<1> QED
  BY <1>1, <1>2, <1>3, <1>4 DEF Fits, Claimed, SameClaim

LEMMA TablesKept ==
  ASSUME UNCHANGED tables, TablesOK, TablesInv
  PROVE  TablesOK' /\ TablesInv'
BY DEF tables, TablesOK, TablesInv, HistoryReplays, Replays, Before, Of, Observations,
   OneOfANumber, HeadOf, HeadsAgree, LimitsHold, Claimed, StatusInv, DeliveredInv

(* A caller nobody touches sees the tables grow, and has nothing written    *)
(* unless they stay.                                                        *)
LEMMA CallKept ==
  ASSUME NEW q \in Caller, call'[q] = call[q], CallOK(call[q]), CallInv(call[q]),
         Grows, UNCHANGED tables \/ call[q].step # "written"
  PROVE  CallInv(call[q])'
<1> DEFINE c == call[q]
<1>1. c.step # "idle" => c.command \in Command /\ c.command.key \in Key
                         /\ c.command # Free
  BY CommandFields, SentinelAssumption DEF CallOK
<1>2. c.step = "written" => Fits(WriteIn(c))'
  <2> SUFFICES ASSUME c.step = "written" PROVE Fits(WriteIn(c))'
    OBVIOUS
  <2>1. PICK w : w = WriteIn(c)
    OBVIOUS
  <2>2. Fits(w)'
    BY <2>1, FitsKept DEF CallInv
  <2>3. WriteIn(c)' = w
    BY <2>1 DEF WriteIn
  <2> QED
    BY <2>2, <2>3
<1>3. /\ c.step # "idle" /\ c.view.owner # Free => keys'[c.command.key] = c.view.owner
      /\ c.step = "landed" => keys'[c.command.key] = c.command
  BY <1>1 DEF CallInv, Grows
<1> QED
  BY <1>2, <1>3 DEF CallInv

(* A step of p that touches nothing but p's own transaction.               *)
LEMMA QuietStep ==
  ASSUME Inv, NEW p \in Caller, NEW c, CallOK(c),
         call' = [call EXCEPT ![p] = c],
         UNCHANGED <<tables, late>>,
         CallInv(c),
         c.step \in {"locked", "written"} => LockFree \/ Holds(p)
  PROVE  Inv'
<1>1. /\ TablesOK /\ TablesInv /\ HolderInv
      /\ \A q \in Caller : CallOK(call[q]) /\ CallInv(call[q])
      /\ late \subseteq Write /\ \A w \in late : Fits(w)
  BY InvParts
<1>2. /\ call' \in [Caller -> CallRecord]
      /\ \A q \in Caller : CallOK(call'[q])
      /\ call'[p] = c
      /\ \A q \in Caller : q # p => call'[q] = call[q]
  BY OneCaller
<1>3. late' = late /\ UNCHANGED tables /\ Grows
  BY DEF tables, Grows
<1>4. TablesOK' /\ TablesInv'
  BY <1>1, <1>3, TablesKept
<1>5. ASSUME NEW q \in Caller
      PROVE  CallInv(call[q])'
  <2>1. CASE q = p
    <3>1. c.step = "written" => Fits(WriteIn(c))'
      BY <1>3, FitsKept DEF CallInv
    <3>2. CallInv(c)'
      BY <1>3, <3>1 DEF CallInv, tables
    <3> QED
      BY <1>2, <2>1, <3>2
  <2>2. CASE q # p
    BY <1>1, <1>2, <1>3, <2>2, CallKept
  <2> QED
    BY <2>1, <2>2
<1>6. HolderInv'
  <2>1. ASSUME NEW q \in Caller, q # p
        PROVE  Holds(q)' <=> Holds(q)
    BY <1>2, <2>1 DEF Holds
  <2>2. Holds(p)' => late = {} /\ \A q \in Caller : q # p => ~Holds(q)
    BY <1>1, <1>2 DEF Holds, LockFree, HolderInv
  <2> QED
    BY <1>1, <1>3, <2>1, <2>2 DEF HolderInv
<1>7. \A w \in late' : Fits(w)'
  BY <1>1, <1>3, FitsKept
<1> QED
  BY <1>1, <1>2, <1>3, <1>4, <1>5, <1>6, <1>7, InvPartsNext

Ended(said) == [step |-> "idle", command |-> None, accepted |-> 0,
                view |-> None, alias |-> FALSE, said |-> said]

LEMMA EndedOK ==
  ASSUME NEW said \in Answer
  PROVE  CallOK(Ended(said)) /\ CallInv(Ended(said)) /\ Ended(said).step = "idle"
<1>1. 0 \in Time
  BY CapacityAssumption DEF Time
<1> QED
  BY <1>1 DEF Ended, CallOK, CallInv, CallRecord, Step

(* A call that ends has left its transaction.                              *)
LEMMA SaysStep ==
  ASSUME Inv, NEW p \in Caller, NEW said \in Answer, Says(p, said)
  PROVE  Inv'
<1>1. call' = [call EXCEPT ![p] = Ended(said)] /\ UNCHANGED <<tables, late>>
  BY DEF Says, Ends, Ended
<1> QED
  BY <1>1, EndedOK, QuietStep

LEMMA SnapshotOK ==
  ASSUME TablesOK, NEW c \in Command
  PROVE  /\ Snapshot(c) \in View
         /\ Snapshot(c).owner = keys[c.key] /\ Snapshot(c).steps = Len(journal)
BY CommandFields DEF TablesOK, Snapshot, View

LEMMA CallsStep ==
  ASSUME Inv, NEW p \in Caller, NEW d \in Command, NEW t \in Time, Calls(p, d, t)
  PROVE  Inv'
<1> DEFINE c == [step |-> "open", command |-> d, accepted |-> t,
                 view |-> Snapshot(d), alias |-> FALSE, said |-> None]
<1>1. call' = [call EXCEPT ![p] = c] /\ UNCHANGED <<tables, late>>
  BY DEF Calls
<1>2. Snapshot(d) \in View /\ Snapshot(d).owner = keys[d.key]
  BY InvParts, SnapshotOK
<1>3. CallOK(c) /\ CallInv(c) /\ c.step = "open"
  BY <1>2 DEF CallOK, CallInv, CallRecord, Step
<1> QED
  BY <1>1, <1>3, QuietStep

LEMMA LocksStep ==
  ASSUME Inv, NEW p \in Caller, Locks(p)
  PROVE  Inv'
<1> DEFINE c == [call[p] EXCEPT !.step = "locked"]
<1>1. call' = [call EXCEPT ![p] = c] /\ UNCHANGED <<tables, late>>
      /\ call[p].step = "open" /\ LockFree
  BY DEF Locks
<1>2. CallOK(call[p]) /\ CallInv(call[p])
  BY InvParts
<1>3. /\ CallOK(c) /\ c.step = "locked" /\ c.command = call[p].command
      /\ c.view = call[p].view
  BY <1>1, <1>2 DEF CallOK, CallRecord, Step
<1>4. CallInv(c)
  BY <1>1, <1>2, <1>3 DEF CallInv
<1> QED
  BY <1>1, <1>3, <1>4, QuietStep

LEMMA FailsStep ==
  ASSUME Inv, NEW p \in Caller, Fails(p)
  PROVE  Inv'
<1>1. CASE Says(p, "not now")
  BY <1>1, SaysStep DEF Answer
<1>2. CASE ~Says(p, "not now")
  <2> DEFINE v == Snapshot(call[p].command)
             c == [call[p] EXCEPT !.step = "open", !.alias = FALSE, !.view = v]
  <2>1. call' = [call EXCEPT ![p] = c] /\ UNCHANGED <<tables, late>>
        /\ call[p].step # "idle"
    BY <1>2 DEF Fails
  <2>2. CallOK(call[p]) /\ call[p].command \in Command
    BY <2>1, InvParts DEF CallOK
  <2>3. v \in View /\ v.owner = keys[call[p].command.key]
    BY <2>2, InvParts, SnapshotOK
  <2> HIDE DEF v
  <2>4. CallOK(c) /\ c.step = "open" /\ c.command = call[p].command /\ c.view = v
    BY <2>2, <2>3 DEF CallOK, CallRecord, Step
  <2>5. CallInv(c)
    BY <2>3, <2>4 DEF CallInv
  <2> QED
    BY <2>1, <2>4, <2>5, QuietStep
<1> QED
  BY <1>1, <1>2

LEMMA AnswersStep ==
  ASSUME Inv, NEW p \in Caller,
         \/ Waits(p) \/ Delivered(p) \/ NoBase(p) \/ OtherClaim(p)
         \/ Rejected(p) \/ Unprojected(p) \/ Acknowledged(p)
  PROVE  Inv'
<1>1. \E said \in Answer : Says(p, said)
  BY DEF Waits, Delivered, NoBase, OtherClaim, Rejected, Unprojected, Acknowledged, Answer
<1> QED
  BY <1>1, SaysStep

LEMMA WritesStep ==
  ASSUME Inv, NEW p \in Caller, WritesAlias(p) \/ WritesPlan(p)
  PROVE  Inv'
<1>1. PICK alias \in BOOLEAN :
        /\ alias => WritesAlias(p)
        /\ ~alias => WritesPlan(p)
        /\ Appends(p, alias)
  BY DEF WritesAlias, WritesPlan
<1> DEFINE c == [call[p] EXCEPT !.step = "written", !.alias = alias]
<1>2. /\ call' = [call EXCEPT ![p] = c] /\ UNCHANGED <<tables, late>>
      /\ keys[call[p].command.key] = Free /\ call[p].step = "locked"
  BY <1>1 DEF Appends, WritesAlias, WritesPlan, Ready, Fresh
<1>3. CallOK(call[p]) /\ CallInv(call[p])
  BY InvParts
<1>4. /\ CallOK(c) /\ c.step = "written" /\ c.command = call[p].command
      /\ c.view = call[p].view /\ c.accepted = call[p].accepted /\ c.alias = alias
  BY <1>2, <1>3 DEF CallOK, CallRecord, Step
<1>5. Fits(WriteIn(c))
  <2>1. /\ WriteIn(c).command = call[p].command
        /\ WriteIn(c).accepted = call[p].accepted /\ WriteIn(c).alias = alias
    BY <1>4 DEF WriteIn
  <2>2. CASE alias
    BY <1>1, <1>2, <2>1, <2>2 DEF WritesAlias, IsClaim, Fits
  <2>3. CASE ~alias
    BY <1>1, <1>2, <2>1, <2>3 DEF WritesPlan, Fits
  <2> QED
    BY <2>2, <2>3
<1>6. CallInv(c)
  BY <1>2, <1>3, <1>4, <1>5 DEF CallInv
<1>7. Holds(p)
  BY <1>2 DEF Holds
<1> QED
  BY <1>2, <1>4, <1>6, <1>7, QuietStep

LEMMA WriteType ==
  ASSUME NEW p \in Caller, CallOK(call[p]), call[p].step # "idle"
  PROVE  /\ WriteOf(p) \in Write /\ WriteOf(p) = WriteIn(call[p])
         /\ WriteOf(p).command = call[p].command /\ WriteOf(p).alias = call[p].alias
BY DEF CallOK, CallRecord, Write, WriteOf, WriteIn

LEMMA LandsStep ==
  ASSUME Inv, NEW p \in Caller, Lands(p)
  PROVE  Inv'
<1> DEFINE c == [call[p] EXCEPT !.step = "landed"]
           w == WriteOf(p)
<1>1. /\ TablesOK /\ TablesInv /\ HolderInv
      /\ call \in [Caller -> CallRecord]
      /\ \A q \in Caller : CallOK(call[q]) /\ CallInv(call[q])
  BY InvParts
<1>2. /\ call[p].step = "written" /\ call' = [call EXCEPT ![p] = c]
      /\ late' = late /\ Applied(w)
  BY DEF Lands
<1>3. w \in Write /\ Fits(w) /\ w.command = call[p].command
  BY <1>1, <1>2, WriteType DEF CallInv
<1> HIDE DEF w
<1>4. TablesOK' /\ TablesInv' /\ Grows /\ keys'[w.command.key] = w.command
  BY <1>1, <1>2, <1>3, AppliedKeeps
<1>5. /\ CallOK(c) /\ c.step = "landed" /\ c.command = call[p].command
      /\ c.view = call[p].view
  BY <1>1, <1>2 DEF CallOK, CallRecord, Step
<1>6. /\ call' \in [Caller -> CallRecord]
      /\ \A q \in Caller : CallOK(call'[q])
      /\ call'[p] = c
      /\ \A q \in Caller : q # p => call'[q] = call[q]
  BY <1>2, <1>5, OneCaller
<1>7. late = {} /\ \A q \in Caller : q # p => ~Holds(q)
  BY <1>1, <1>2 DEF HolderInv, Holds
<1>8. ASSUME NEW q \in Caller
      PROVE  CallInv(call[q])'
  <2>1. CASE q = p
    <3>1. call[p].command.key \in Key
      BY <1>1, <1>2, CommandFields DEF CallOK
    <3>2. c.view.owner # Free => keys'[c.command.key] = c.view.owner
      BY <1>1, <1>2, <1>4, <1>5, <3>1 DEF CallInv, Grows
    <3>3. keys'[c.command.key] = c.command
      BY <1>3, <1>4, <1>5
    <3> HIDE DEF c
    <3> QED
      BY <1>5, <1>6, <2>1, <3>2, <3>3 DEF CallInv
  <2>2. CASE q # p
    BY <1>1, <1>4, <1>6, <1>7, <2>2, CallKept DEF Holds
  <2> QED
    BY <2>1, <2>2
<1>9. HolderInv'
  <2>1. \A q \in Caller : ~Holds(q)'
    BY <1>5, <1>6, <1>7 DEF Holds
  <2> QED
    BY <1>2, <1>7, <2>1 DEF HolderInv
<1> QED
  BY <1>2, <1>4, <1>6, <1>7, <1>8, <1>9, InvPartsNext

LEMMA LosesReplyStep ==
  ASSUME Inv, NEW p \in Caller, LosesReply(p)
  PROVE  /\ Inv'
         /\ \/ late' = late
            \/ /\ call[p].step = "written" /\ late = {}
               /\ late' = {WriteOf(p)}
<1>1. /\ TablesOK /\ TablesInv /\ HolderInv
      /\ \A q \in Caller : CallOK(call[q]) /\ CallInv(call[q])
      /\ late \subseteq Write /\ \A w \in late : Fits(w)
  BY InvParts
<1>2. /\ call[p].step \in {"written", "landed"}
      /\ call' = [call EXCEPT ![p] = Ended("unknown")]
      /\ late' = IF call[p].step = "written" THEN late \cup {WriteOf(p)} ELSE late
      /\ UNCHANGED tables
  BY DEF LosesReply, Ends, Ended
<1>3. CASE call[p].step = "landed"
  <2>1. Says(p, "unknown")
    BY <1>2, <1>3 DEF LosesReply, Says
  <2> QED
    BY <1>2, <1>3, <2>1, SaysStep DEF Answer
<1>4. CASE call[p].step = "written"
  <2>1. /\ CallOK(Ended("unknown")) /\ CallInv(Ended("unknown"))
        /\ Ended("unknown").step = "idle"
    BY EndedOK DEF Answer
  <2>2. late = {} /\ late' = {WriteOf(p)} /\ \A q \in Caller : q # p => ~Holds(q)
    BY <1>1, <1>2, <1>4 DEF HolderInv, Holds
  <2>3. WriteOf(p) \in Write /\ Fits(WriteOf(p))
    BY <1>1, <1>4, WriteType DEF CallInv
  <2>4. /\ call' \in [Caller -> CallRecord]
        /\ \A q \in Caller : CallOK(call'[q])
        /\ call'[p] = Ended("unknown")
        /\ \A q \in Caller : q # p => call'[q] = call[q]
    BY <1>2, <2>1, OneCaller
  <2>5. TablesOK' /\ TablesInv' /\ Grows
    BY <1>1, <1>2, TablesKept DEF tables, Grows
  <2>6. ASSUME NEW q \in Caller
        PROVE  CallInv(call[q])'
    <3>1. CASE q = p
      BY <2>1, <2>4, <3>1 DEF CallInv
    <3>2. CASE q # p
      BY <1>1, <1>2, <2>4, <2>5, <3>2, CallKept
    <3> QED
      BY <3>1, <3>2
  <2>7. HolderInv'
    <3>1. \A q \in Caller : ~Holds(q)'
      BY <2>1, <2>2, <2>4 DEF Holds
    <3> QED
      BY <2>2, <3>1 DEF HolderInv
  <2>8. \A w \in late' : w \in Write /\ Fits(w)'
    <3>1. PICK w : w = WriteOf(p)
      OBVIOUS
    <3>2. Fits(w)'
      BY <1>2, <2>3, <3>1, FitsKept
    <3> QED
      BY <2>2, <2>3, <3>1, <3>2
  <2>9. Inv'
    BY <2>4, <2>5, <2>6, <2>7, <2>8, InvPartsNext
  <2> QED
    BY <1>4, <2>2, <2>9
<1> QED
  BY <1>2, <1>3, <1>4

(* The one COMMIT in doubt ends.                                           *)
LEMMA LateEnds ==
  ASSUME Inv, NEW w \in late, late' = late \ {w}, UNCHANGED call,
         TablesOK', TablesInv', Grows
  PROVE  Inv' /\ late = {w} /\ late' = {}
<1>1. /\ HolderInv /\ call \in [Caller -> CallRecord]
      /\ \A q \in Caller : CallOK(call[q]) /\ CallInv(call[q])
  BY InvParts
<1>2. late = {w} /\ late' = {} /\ \A q \in Caller : ~Holds(q)
  BY <1>1 DEF HolderInv
<1>3. \A q \in Caller : CallInv(call[q])'
  BY <1>1, <1>2, CallKept DEF Holds
<1>4. HolderInv'
  BY <1>2 DEF HolderInv, Holds
<1> QED
  BY <1>1, <1>2, <1>3, <1>4, InvPartsNext

LEMMA LateStep ==
  ASSUME Inv, LateLands \/ LateRollsBack
  PROVE  /\ Inv'
         /\ \E w \in late : /\ late = {w} /\ late' = {} /\ UNCHANGED call
                            /\ Applied(w) \/ UNCHANGED tables
<1>1. CASE LateLands
  <2>1. PICK w \in late : Applied(w) /\ late' = late \ {w} /\ UNCHANGED call
    BY <1>1 DEF LateLands
  <2>2. TablesOK' /\ TablesInv' /\ Grows
    BY <2>1, InvParts, AppliedKeeps
  <2> QED
    BY <2>1, <2>2, LateEnds
<1>2. CASE LateRollsBack
  <2>1. PICK w \in late : late' = late \ {w} /\ UNCHANGED <<tables, call>>
    BY <1>2 DEF LateRollsBack
  <2>2. TablesOK' /\ TablesInv' /\ Grows
    BY <2>1, InvParts, TablesKept DEF tables, Grows
  <2> QED
    BY <2>1, <2>2, LateEnds
<1> QED
  BY <1>1, <1>2

LEMMA ElsewhereStep ==
  ASSUME Inv, NEW k \in Key, DeliveredElsewhere(k)
  PROVE  Inv'
<1>1. /\ TablesOK /\ TablesInv /\ HolderInv
      /\ call \in [Caller -> CallRecord]
      /\ \A q \in Caller : CallOK(call[q]) /\ CallInv(call[q])
      /\ late \subseteq Write /\ \A w \in late : Fits(w)
  BY InvParts
<1>2. /\ keys[k] = Free /\ ~Pending(k)
      /\ keys' = [keys EXCEPT ![k] = Elsewhere]
      /\ UNCHANGED <<journal, heads, call, late>>
  BY DEF DeliveredElsewhere
<1>3. TablesOK' /\ TablesInv' /\ Grows
  BY <1>1, <1>2, KeyKeeps, SentinelAssumption
<1>4. ASSUME NEW w \in Write, Fits(w), w.command.key # k
      PROVE  Fits(w)'
  <2>1. keys'[w.command.key] = Free
    BY <1>1, <1>2, <1>4 DEF TablesOK, Fits
  <2>2. Original(w.command.family)' = Original(w.command.family)
    BY <1>2 DEF Original
  <2>3. Permitted(w.command, w.accepted)' <=> Permitted(w.command, w.accepted)
    BY <1>2 DEF Permitted, MayClaim, MayCorrect, MayClose, Claimed, Active
  <2>4. Projects(w.command, w.accepted)' <=> Projects(w.command, w.accepted)
    BY <1>2 DEF Projects, LastAccepted
  <2> QED
    BY <1>2, <1>4, <2>1, <2>2, <2>3, <2>4 DEF Fits, Claimed, SameClaim
<1>5. ASSUME NEW q \in Caller
      PROVE  CallInv(call[q])'
  <2>1. CASE call[q].step # "written"
    BY <1>1, <1>2, <1>3, <2>1, CallKept
  <2>2. CASE call[q].step = "written"
    <3>1. PICK w : w = WriteIn(call[q])
      OBVIOUS
    <3>2. w \in Write /\ Fits(w) /\ w.command = call[q].command
      BY <1>1, <2>2, <3>1, WriteType DEF CallInv
    <3>3. w.command.key # k
      BY <1>2, <2>2, <3>2 DEF Pending
    <3>4. Fits(w)' /\ WriteIn(call[q])' = w
      BY <1>2, <1>4, <3>1, <3>2, <3>3 DEF WriteIn
    <3>5. call[q].command.key \in Key
      BY <1>1, <2>2, CommandFields DEF CallOK
    <3>6. call[q].view.owner # Free => keys'[call[q].command.key] = call[q].view.owner
      BY <1>1, <1>3, <2>2, <3>5 DEF CallInv, Grows
    <3> QED
      BY <1>2, <2>2, <3>4, <3>6 DEF CallInv
  <2> QED
    BY <2>1, <2>2
<1>6. HolderInv'
  BY <1>1, <1>2 DEF HolderInv, Holds
<1>7. \A w \in late' : Fits(w)'
  BY <1>1, <1>2, <1>4 DEF Pending
<1> QED
  BY <1>1, <1>2, <1>3, <1>5, <1>6, <1>7, InvPartsNext

-----------------------------------------------------------------------------
(* The invariant                                                           *)

LEMMA InitInv == Init => Inv
<1> SUFFICES ASSUME Init PROVE Inv
  OBVIOUS
<1> DEFINE idle == [step |-> "idle", command |-> None, accepted |-> 0,
                    view |-> None, alias |-> FALSE, said |-> None]
<1>1. /\ keys = [k \in Key |-> Free] /\ journal = <<>> /\ late = {}
      /\ heads = [target |-> Absent, reservation |-> Opening,
                  claim |-> [f \in Family |-> Unclaimed], aggregate |-> {}]
      /\ call = [p \in Caller |-> idle]
  BY DEF Init
<1>2. 0 \in Time /\ Maximum - Spent \in Nat /\ Spent \in Nat /\ Maximum \in Nat
  BY CapacityAssumption DEF Time
<1>3. Opening \in Reservation /\ Conserved(Opening)
  BY <1>2 DEF Opening, Reservation, Status, Conserved
<1>4. Unclaimed \in Claim
  BY <1>2 DEF Unclaimed, Claim
<1>5. journal \in Seq(Observation) /\ Len(journal) = 0 /\ Observations = {}
  BY <1>1 DEF Observations
<1>6. TablesOK
  BY <1>1, <1>3, <1>4, <1>5 DEF TablesOK, Heads
<1>7. /\ \A f \in Family : heads.claim[f] = Unclaimed /\ heads.claim[f].number = 0
      /\ \A f \in Family : ~Claimed(f) /\ Of(f) = {}
  BY <1>1, <1>5 DEF Claimed, Unclaimed, Of
<1>8. HistoryReplays
  <2>1. \A f \in Family : OneOfANumber(f) /\ HeadOf(f)
    BY <1>7 DEF OneOfANumber, HeadOf
  <2>2. HeadsAgree /\ LimitsHold
    BY <1>1, <1>5, <1>7 DEF HeadsAgree, LimitsHold, Absent
  <2> QED
    BY <1>5, <2>1, <2>2 DEF HistoryReplays
<1>9. StatusInv /\ DeliveredInv /\ Conserved(heads.reservation)
  BY <1>1, <1>3, <1>5, <1>7 DEF StatusInv, DeliveredInv, Opening
<1>10. ASSUME NEW p \in Caller
       PROVE  CallOK(call[p]) /\ CallInv(call[p]) /\ ~Holds(p)
  <2>1. CallOK(idle) /\ CallInv(idle) /\ idle.step = "idle"
    BY <1>2 DEF CallOK, CallRecord, CallInv, Step
  <2>2. call[p] = idle
    BY <1>1
  <2> HIDE DEF idle
  <2> QED
    BY <2>1, <2>2 DEF Holds
<1>11. call \in [Caller -> CallRecord]
  BY <1>1, <1>2 DEF CallRecord, Step
<1> QED
  BY <1>1, <1>6, <1>8, <1>9, <1>10, <1>11, TypeParts DEF Inv, TablesInv, HolderInv

LEMMA NextInv == Inv /\ [Next]_vars => Inv'
<1> SUFFICES ASSUME Inv, [Next]_vars PROVE Inv'
  OBVIOUS
<1>1. ASSUME NEW p \in Caller, NEW c \in Command, NEW t \in Time, Calls(p, c, t)
      PROVE  Inv'
  BY <1>1, CallsStep
<1>2. ASSUME NEW p \in Caller, Attempt(p)
      PROVE  Inv'
  BY <1>2, LocksStep, FailsStep, AnswersStep, WritesStep, LandsStep, LosesReplyStep
     DEF Attempt
<1>3. CASE LateLands \/ LateRollsBack
  BY <1>3, LateStep
<1>4. ASSUME NEW k \in Shared, DeliveredElsewhere(k)
      PROVE  Inv'
  BY <1>4, ElsewhereStep, CommandAssumption
<1>5. CASE UNCHANGED vars
  <2>1. UNCHANGED <<tables, late, call>>
    BY <1>5 DEF vars, tables
  <2>2. TablesOK' /\ TablesInv' /\ Grows
    BY <2>1, InvParts, TablesKept DEF tables, Grows
  <2>3. \A q \in Caller : CallInv(call[q])'
    BY <2>1, <2>2, InvParts, CallKept
  <2>4. HolderInv' /\ \A w \in late' : Fits(w)'
    BY <2>1, InvParts, FitsKept DEF HolderInv, Holds
  <2> QED
    BY <2>1, <2>2, <2>3, <2>4, InvParts, InvPartsNext
<1> QED
  BY <1>1, <1>2, <1>3, <1>4, <1>5 DEF Next

LEMMA AlwaysInv == Spec => []Inv
BY InitInv, NextInv, PTL DEF Spec

(* The types of the tables, the calls and the COMMITs in doubt.            *)
THEOREM SettlementTypeOK == Spec => []TypeOK
<1>1. Inv => TypeOK
  BY DEF Inv
<1> QED
  BY <1>1, AlwaysInv, PTL

(* For any callers, commands, families and limits, what `append` has        *)
(* written replays as one history that agrees with every head.             *)
THEOREM HistoryTheorem == Spec => []HistoryReplays
<1>1. Inv => HistoryReplays
  BY DEF Inv, TablesInv
<1> QED
  BY <1>1, AlwaysInv, PTL

-----------------------------------------------------------------------------
(* Every step is a step of SettledOnce, or hidden                          *)

LEMMA ShownFields ==
  ASSUME NEW c
  PROVE  /\ Shown(c).command = c.command /\ Shown(c).said = c.said
         /\ Shown(c).wrote = IF c.step # "landed" THEN "nothing"
                             ELSE IF c.alias THEN "alias" ELSE "original"
         /\ Shown(c).running = (c.step # "idle")
BY DEF Shown

LEMMA ShownStep ==
  ASSUME Inv, NEW p \in Caller, NEW c, CallOK(c), call' = [call EXCEPT ![p] = c]
  PROVE  /\ shown' = [shown EXCEPT ![p] = Shown(c)]
         /\ shown[p] = Shown(call[p])
<1>1. /\ call' \in [Caller -> CallRecord] /\ call'[p] = c
      /\ \A q \in Caller : q # p => call'[q] = call[q]
  BY OneCaller
<1> QED
  BY <1>1 DEF shown, Shown

\* What the heads show moves only with them.
LEMMA TablesShown ==
  ASSUME UNCHANGED tables
  PROVE  UNCHANGED <<keys, claims, open, money>>
BY DEF tables, claims, open, money

(* A step that shows nothing: the call goes on, and has not landed.        *)
LEMMA HiddenStep ==
  ASSUME Inv, NEW p \in Caller, NEW c, CallOK(c), call' = [call EXCEPT ![p] = c],
         UNCHANGED <<tables, late>>,
         call[p].step \notin {"idle", "landed"}, c.step \notin {"idle", "landed"},
         c.command = call[p].command, c.said = call[p].said
  PROVE  UNCHANGED <<keys, claims, open, money, shown, doubtful>>
<1>1. Shown(c) = Shown(call[p])
  BY DEF Shown
<1>2. shown' = [shown EXCEPT ![p] = Shown(c)] /\ shown[p] = Shown(call[p])
  BY ShownStep
<1>3. shown' = shown
  BY <1>1, <1>2 DEF shown
<1> QED
  BY <1>3, TablesShown DEF doubtful

LEMMA StepsAreHidden ==
  ASSUME Inv, NEW p \in Caller,
         \/ Locks(p) \/ WritesAlias(p) \/ WritesPlan(p)
         \/ Fails(p) /\ ~Says(p, "not now")
  PROVE  UNCHANGED <<keys, claims, open, money, shown, doubtful>>
<1>1. call \in [Caller -> CallRecord] /\ CallOK(call[p]) /\ call[p] \in CallRecord
  BY InvParts DEF CallOK
<1>2. call' \in [Caller -> CallRecord] /\ CallOK(call'[p])
  BY LocksStep, FailsStep, WritesStep, TypePartsNext DEF Inv
<1>3. /\ UNCHANGED <<tables, late>> /\ call' = [call EXCEPT ![p] = call'[p]]
      /\ call[p].step \in {"open", "locked", "written"}
  BY <1>1, <1>2 DEF Locks, WritesAlias, WritesPlan, Ready, Fresh, Appends, Fails
<1>4. /\ call'[p].step \notin {"idle", "landed"}
      /\ call'[p].command = call[p].command /\ call'[p].said = call[p].said
  <2>1. CASE Locks(p)
    BY <1>1, <2>1 DEF Locks, CallRecord
  <2>2. CASE WritesAlias(p) \/ WritesPlan(p)
    <3>1. PICK alias : call' = [call EXCEPT ![p].step = "written", ![p].alias = alias]
      BY <2>2 DEF WritesAlias, WritesPlan, Appends
    <3> QED
      BY <1>1, <3>1 DEF CallRecord
  <2>3. CASE Fails(p) /\ ~Says(p, "not now")
    <3>1. PICK v : call' = [call EXCEPT ![p].step = "open", ![p].alias = FALSE,
                                        ![p].view = v]
      BY <2>3 DEF Fails
    <3> QED
      BY <1>1, <3>1 DEF CallRecord
  <2> QED
    BY <2>1, <2>2, <2>3
<1> QED
  BY <1>2, <1>3, <1>4, HiddenStep

LEMMA CallsInvoke ==
  ASSUME Inv, NEW p \in Caller, NEW d \in Command, NEW t \in Time, Calls(p, d, t)
  PROVE  Once!Next
<1> DEFINE c == [step |-> "open", command |-> d, accepted |-> t,
                 view |-> Snapshot(d), alias |-> FALSE, said |-> None]
<1>1. call' = [call EXCEPT ![p] = c] /\ UNCHANGED <<tables, late>>
      /\ call[p].step = "idle"
  BY DEF Calls
<1>2. CallOK(c)
  <2>1. Snapshot(d) \in View
    BY InvParts, SnapshotOK
  <2> QED
    BY <2>1 DEF CallOK, CallRecord, Step
<1>3. shown' = [shown EXCEPT ![p] = Shown(c)] /\ shown[p] = Shown(call[p])
  BY <1>1, <1>2, ShownStep
<1>4. Shown(c) = [command |-> d, running |-> TRUE, wrote |-> "nothing", said |-> None]
  BY DEF Shown
<1>5. ~shown[p].running
  <2>1. shown[p].running = (call[p].step # "idle")
    BY <1>3, ShownFields
  <2> QED
    BY <1>1, <2>1, Zenon
<1>6. Once!Invoke(p, d)
  BY <1>1, <1>3, <1>4, <1>5, TablesShown DEF Once!Invoke, doubtful
<1> QED
  BY <1>6 DEF Once!Next

(* The answer of a call that is true of what it wrote.                     *)
LEMMA EndsReturn ==
  ASSUME Inv, NEW p \in Caller, NEW said \in Answer, call[p].step # "idle",
         Ends(p, said), UNCHANGED tables,
         Once!True(said, call[p].command, Shown(call[p]).wrote),
         \/ UNCHANGED doubtful
         \/ /\ said = "unknown" /\ call[p].step = "written"
            /\ doubtful' = doubtful \cup {call[p].command}
  PROVE  Once!Next
<1> DEFINE c == Ended(said)
<1>1. call' = [call EXCEPT ![p] = c]
  BY DEF Ends, Ended
<1>2. shown' = [shown EXCEPT ![p] = Shown(c)] /\ shown[p] = Shown(call[p])
  BY <1>1, EndedOK, ShownStep
<1>3. Shown(c) = [command |-> None, running |-> FALSE, wrote |-> "nothing", said |-> said]
  BY DEF Shown, Ended
<1>4. /\ shown[p].running /\ shown[p].command = call[p].command
      /\ shown[p].wrote = Shown(call[p]).wrote
  <2>1. shown[p].running = (call[p].step # "idle")
    BY <1>2, ShownFields
  <2>2. shown[p].running
    BY <2>1, Zenon
  <2>3. shown[p].command = call[p].command /\ shown[p].wrote = Shown(call[p]).wrote
    BY <1>2, ShownFields
  <2> QED
    BY <2>2, <2>3
<1>5. call[p].step = "written" => shown[p].wrote = "nothing"
  BY <1>4, ShownFields
<1>6. Once!Return(p, said)
  BY <1>2, <1>3, <1>4, <1>5, TablesShown DEF Once!Return
<1>7. said \in Once!Answer
  BY DEF Answer, Once!Answer
<1> QED
  BY <1>6, <1>7 DEF Once!Next

(* What a snapshot showed is true when it is answered.                     *)
LEMMA AnswersAreTrue ==
  ASSUME Inv, NEW p \in Caller,
         \/ Waits(p) \/ Delivered(p) \/ NoBase(p) \/ OtherClaim(p)
         \/ Rejected(p) \/ Unprojected(p)
  PROVE  Once!Next
<1> DEFINE d == call[p].command
<1>1. call[p].step = "locked" /\ CallOK(call[p]) /\ CallInv(call[p])
  BY InvParts DEF Waits, Delivered, NoBase, OtherClaim, Rejected, Unprojected, Ready, Fresh
<1>2. /\ d \in Command /\ (Owner(p) # Free => keys[d.key] = Owner(p))
      /\ Shown(call[p]).wrote = "nothing" /\ d # Free
  BY <1>1, ShownFields, SentinelAssumption DEF CallOK, CallInv, Owner
<1>3. ASSUME NEW said \in Answer, Says(p, said), Once!True(said, d, "nothing")
      PROVE  Once!Next
  BY <1>1, <1>2, <1>3, EndsReturn DEF Says, doubtful
<1>4. CASE Waits(p) \/ NoBase(p) \/ Rejected(p) \/ Unprojected(p)
  <2>1. PICK said \in {"waiting", "integrity", "rejected"} : Says(p, said)
    BY <1>4 DEF Waits, NoBase, Rejected, Unprojected
  <2>2. Once!True(said, d, "nothing")
    BY DEF Once!True
  <2> QED
    BY <1>3, <2>1, <2>2 DEF Answer
<1>5. CASE Delivered(p)
  <2>1. PICK said \in {"duplicate", "identity conflict", "integrity"} :
          /\ Says(p, said) /\ Owner(p) # Free
          /\ said = "duplicate" => Owner(p) = d
          /\ said = "identity conflict" => Owner(p) # d
    BY <1>5 DEF Delivered
  <2>2. Once!True(said, d, "nothing")
    BY <1>2, <2>1 DEF Once!True
  <2> QED
    BY <1>3, <2>1, <2>2 DEF Answer
<1>6. CASE OtherClaim(p)
  <2>1. Says(p, "semantic conflict") /\ d.kind = "ordinary" /\ Claimed(d.family)
    BY <1>6 DEF OtherClaim, IsClaim
  <2>2. claims[d.family].number > 0
    <3>1. d.family \in Family
      BY <1>2, <2>1, CommandFields DEF Decisive
    <3> QED
      BY <2>1, <3>1 DEF Claimed, claims
  <2>3. Once!True("semantic conflict", d, "nothing")
    BY <2>1, <2>2 DEF Once!True
  <2> QED
    BY <1>3, <2>1, <2>3 DEF Answer
<1> QED
  BY <1>4, <1>5, <1>6

(* The ends of a COMMIT, and of an attempt that is not repeated.           *)
LEMMA EndsAreTrue ==
  ASSUME Inv, NEW p \in Caller,
         \/ Acknowledged(p) \/ LosesReply(p)
         \/ Fails(p) /\ Says(p, "not now")
  PROVE  Once!Next
<1>1. call[p].step # "idle" /\ CallOK(call[p]) /\ CallInv(call[p])
  BY InvParts DEF Acknowledged, LosesReply, Fails
<1>2. CASE Acknowledged(p)
  <2>1. PICK said \in {"accepted", "duplicate"} :
          /\ Says(p, said) /\ call[p].step = "landed"
          /\ said = IF call[p].alias THEN "duplicate" ELSE "accepted"
    BY <1>2 DEF Acknowledged
  <2>2. Shown(call[p]).wrote = IF call[p].alias THEN "alias" ELSE "original"
    BY <2>1, ShownFields
  <2>3. keys[call[p].command.key] = call[p].command
    BY <1>1, <2>1 DEF CallInv
  <2>4. Once!True(said, call[p].command, Shown(call[p]).wrote)
    <3>1. CASE call[p].alias
      BY <2>1, <2>2, <2>3, <3>1 DEF Once!True
    <3>2. CASE ~call[p].alias
      BY <2>1, <2>2, <3>2 DEF Once!True
    <3> QED
      BY <3>1, <3>2
  <2> QED
    BY <1>1, <2>1, <2>4, EndsReturn DEF Says, Answer, doubtful
<1>3. CASE LosesReply(p)
  <2>1. Once!True("unknown", call[p].command, Shown(call[p]).wrote)
    BY DEF Once!True
  <2>2. \/ UNCHANGED doubtful
        \/ /\ call[p].step = "written"
           /\ doubtful' = doubtful \cup {call[p].command}
    <3>1. CASE late' = late
      BY <3>1 DEF doubtful
    <3>2. CASE /\ call[p].step = "written" /\ late = {}
               /\ late' = {WriteOf(p)}
      <4>1. WriteOf(p).command = call[p].command
        BY DEF WriteOf
      <4> QED
        BY <3>2, <4>1 DEF doubtful
    <3> QED
      BY <1>3, <3>1, <3>2, LosesReplyStep
  <2> QED
    BY <1>1, <1>3, <2>1, <2>2, EndsReturn DEF LosesReply, Answer
<1>4. CASE Fails(p) /\ Says(p, "not now")
  <2>1. Shown(call[p]).wrote = "nothing"
    BY <1>4, ShownFields DEF Fails
  <2>2. Once!True("not now", call[p].command, "nothing")
    BY DEF Once!True
  <2> QED
    BY <1>1, <1>4, <2>1, <2>2, EndsReturn DEF Says, Answer, doubtful
<1> QED
  BY <1>2, <1>3, <1>4

(* A plan moves what SettledOnce lets it move.                             *)
LEMMA PlanMoves ==
  ASSUME TablesOK, TablesInv, NEW w \in Write, ~w.alias, Fits(w), Applied(w)
  PROVE  LET c == w.command
         IN Once!Register(c) \/ Once!Claim(c) \/ Once!Correct(c) \/ Once!Close(c)
<1> DEFINE c == w.command
           f == c.family
           r == heads.reservation
           s == Settled(c, r)
           n == Len(journal)
<1>1. TablesOK' /\ Extends(w)
  BY AppliedPlan
<1>2. /\ c \in Command /\ r \in Reservation /\ Covered(c, r)
      /\ c.kind \in {"register", "close", "ordinary", "post_hoc"}
      /\ heads'.reservation = s /\ heads.claim \in [Family -> Claim]
      /\ c.atoms \in Int /\ Consumption(c) \in Nat
  BY <1>1, PlanFacts, CommandFields, ConsumptionType DEF Extends, TablesOK, Heads
<1>3. /\ s.consumed = r.consumed + Consumption(c)
      /\ s.released = r.released + Release(c, r)
      /\ s.held = r.held - Consumption(c) - Release(c, r)
      /\ s.status = StatusAfter(c, r)
      /\ r.consumed \in Nat /\ r.held \in Nat /\ r.released \in Nat
  BY <1>2, SettledFields DEF Reservation
<1>4. /\ money = [consumed |-> r.consumed, held |-> r.held, released |-> r.released]
      /\ money' = [consumed |-> s.consumed, held |-> s.held, released |-> s.released]
  BY <1>2 DEF money
<1>5. \A g \in Family : s.status[g] =
        CASE c.kind = "ordinary" /\ f = g             -> "claimed"
          [] c.kind = "close" /\ r.status[g] = "open" -> "closed"
          [] OTHER                                    -> r.status[g]
  BY <1>3 DEF StatusAfter
<1>6. /\ open = {g \in Family : r.status[g] = "open"}
      /\ open' = {g \in Family : s.status[g] = "open"}
  BY <1>2 DEF open
<1> HIDE DEF s, r
<1>7. CASE c.kind = "register"
  <2>1. Consumption(c) = 0 /\ Release(c, r) = 0
    BY <1>7 DEF Consumption, Release
  <2>2. money' = money
    BY <1>3, <1>4, <2>1
  <2>3. open' = open
    BY <1>5, <1>6, <1>7
  <2>4. claims' = claims
    BY <1>1, <1>7 DEF Extends, Decisive, claims
  <2>5. \A k \in Once!Key : keys[k] \in {Free, Elsewhere}
    <3>1. n = 0
      BY <1>1, <1>7, PlanFacts
    <3>2. journal = <<>>
      BY <3>1 DEF TablesOK
    <3> QED
      BY <3>2 DEF TablesInv, DeliveredInv, Once!Key, Key
  <2>6. Once!Register(c)
    BY <1>7, <2>2, <2>3, <2>4, <2>5 DEF Once!Register
  <2> QED
    BY <2>6
<1>8. CASE c.kind = "ordinary"
  <2> DEFINE premium == IF c.atoms > 0 THEN c.atoms ELSE 0
  <2>1. f \in Family /\ r.status[f] = "open" /\ heads.claim[f].number = 0
        /\ NumberOf(c) = 1 /\ Consumption(c) = premium /\ premium <= r.held
    BY <1>1, <1>2, <1>8, PlanFacts, ConsumptionType DEF Covered, r
  <2>2. Release(c, r) = 0
    BY <1>8 DEF Release
  <2>3. s.consumed = r.consumed + premium /\ s.held = r.held - premium
        /\ s.released = r.released
    BY <1>2, <1>3, <2>1, <2>2
  <2>4. money' = [consumed |-> money.consumed + premium,
                  held |-> money.held - premium, released |-> money.released]
    BY <1>4, <2>3
  <2>5. open' = open \ {f} /\ f \in open
    BY <1>5, <1>6, <1>8, <2>1
  <2>6. claims' = [claims EXCEPT ![f] = [number |-> 1, atoms |-> c.atoms]]
    <3>1. heads'.claim = [heads.claim EXCEPT ![f] =
            [number |-> 1, atoms |-> c.atoms, accepted |-> w.accepted]]
      BY <1>1, <1>8, <2>1 DEF Extends, Decisive
    <3>2. heads'.claim[f] = [number |-> 1, atoms |-> c.atoms, accepted |-> w.accepted]
          /\ \A g \in Family : g # f => heads'.claim[g] = heads.claim[g]
      BY <1>2, <2>1, <3>1
    <3> DEFINE new == [number |-> 1, atoms |-> c.atoms]
    <3>3. claims' = [g \in Family |-> IF g = f THEN new ELSE claims[g]]
      BY <2>1, <3>2 DEF claims
    <3>4. claims = [g \in Family |-> claims[g]]
      BY DEF claims
    <3> HIDE DEF new
    <3> QED
      BY <2>1, <3>3, <3>4 DEF new
  <2>7. claims[f].number = 0 /\ premium <= money.held
    BY <1>4, <2>1 DEF claims
  <2>8. Once!Claim(c)
    BY <1>8, <2>4, <2>5, <2>6, <2>7 DEF Once!Claim
  <2> QED
    BY <2>8
<1>9. CASE c.kind = "post_hoc"
  <2>1. f \in Family /\ heads.claim[f].number = c.expected /\ c.expected > 0
        /\ NumberOf(c) = c.expected + 1
    BY <1>1, <1>9, PlanFacts
  <2>2. Consumption(c) = 0 /\ Release(c, r) = 0
    BY <1>9 DEF Consumption, Release
  <2>3. money' = money
    BY <1>3, <1>4, <2>2
  <2>4. open' = open
    BY <1>5, <1>6, <1>9
  <2>5. claims[f].number = c.expected
    BY <2>1 DEF claims
  <2>6. claims' = [claims EXCEPT ![f] = [number |-> @.number + 1, atoms |-> c.atoms]]
    <3>1. heads'.claim = [heads.claim EXCEPT ![f] =
            [number |-> c.expected + 1, atoms |-> c.atoms, accepted |-> w.accepted]]
      BY <1>1, <1>9, <2>1 DEF Extends, Decisive
    <3>2. /\ heads'.claim[f] = [number |-> c.expected + 1, atoms |-> c.atoms,
                                accepted |-> w.accepted]
          /\ \A g \in Family : g # f => heads'.claim[g] = heads.claim[g]
      BY <1>2, <2>1, <3>1
    <3>3. claims' = [claims EXCEPT ![f] = [number |-> c.expected + 1, atoms |-> c.atoms]]
      <4> DEFINE new == [number |-> c.expected + 1, atoms |-> c.atoms]
      <4>1. claims' = [g \in Family |-> IF g = f THEN new ELSE claims[g]]
        BY <2>1, <3>2 DEF claims
      <4>2. claims = [g \in Family |-> claims[g]]
        BY DEF claims
      <4> HIDE DEF new
      <4> QED
        BY <2>1, <4>1, <4>2 DEF new
    <3> QED
      BY <2>1, <2>5, <3>3
  <2>7. Once!Correct(c)
    BY <1>9, <2>1, <2>3, <2>4, <2>5, <2>6 DEF Once!Correct
  <2> QED
    BY <2>7
<1>10. CASE c.kind = "close"
  <2>1. Consumption(c) = 0 /\ Release(c, r) = r.held
    BY <1>10 DEF Consumption, Release
  <2>2. s.consumed = r.consumed /\ s.held = 0 /\ s.released = r.released + r.held
    BY <1>3, <2>1
  <2>3. money' = [consumed |-> money.consumed, held |-> 0,
                  released |-> money.released + money.held]
    BY <1>4, <2>2
  <2>4. open' = {}
    BY <1>5, <1>6, <1>10
  <2>5. claims' = claims
    BY <1>1, <1>10 DEF Extends, Decisive, claims
  <2>6. Once!Close(c)
    BY <1>10, <2>3, <2>4, <2>5 DEF Once!Close
  <2> QED
    BY <2>6
<1> QED
  BY <1>2, <1>7, <1>8, <1>9, <1>10

(* A write that fits lands as SettledOnce lets it.                         *)
LEMMA AppliedLands ==
  ASSUME TablesOK, TablesInv, NEW w \in Write, Fits(w), Applied(w)
  PROVE  Once!Lands(w.command, IF w.alias THEN "alias" ELSE "original")
<1> DEFINE c == w.command
           f == c.family
<1>1. /\ keys[c.key] = Free /\ keys' = [keys EXCEPT ![c.key] = c]
      /\ w.alias \in BOOLEAN /\ c \in Command
  BY WriteFields DEF Fits, Applied
<1>2. CASE ~w.alias
  BY <1>1, <1>2, PlanMoves DEF Once!Lands
<1>3. CASE w.alias
  <2>1. /\ c.kind = "ordinary" /\ Claimed(f) /\ SameClaim(c, Original(f))
        /\ UNCHANGED <<journal, heads>> /\ f \in Family
    BY <1>1, <1>3, CommandFields DEF Fits, Applied, Decisive
  <2>2. UNCHANGED <<claims, open, money>>
    BY <2>1 DEF claims, open, money
  <2>3. claims[f].number > 0
    BY <2>1 DEF Claimed, claims
  <2>4. PICK i \in DOMAIN journal : /\ journal[i].command.kind = "ordinary"
                                    /\ journal[i].command.family = f
                                    /\ Original(f) = journal[i].command
    <3>1. \E i \in DOMAIN journal : /\ journal[i].command.kind = "ordinary"
                                    /\ journal[i].command.family = f
      BY <2>1 DEF TablesInv, StatusInv, Of, Observations
    <3> QED
      BY <3>1 DEF Original
  <2>5. /\ journal[i].command \in Command
        /\ keys[journal[i].command.key] = journal[i].command
    <3>1. journal[i] \in Observation
      BY DEF TablesOK
    <3> QED
      BY <3>1 DEF Observation, TablesInv, DeliveredInv, Observations
  <2>6. journal[i].command.key \in Once!Key
    BY <2>5 DEF Once!Key
  <2>7. Once!Alias(c)
    BY <2>1, <2>2, <2>3, <2>4, <2>5, <2>6 DEF Once!Alias, SameClaim
  <2> QED
    BY <1>1, <1>3, <2>7 DEF Once!Lands
<1> QED
  BY <1>1, <1>2, <1>3

LEMMA LandsTakesEffect ==
  ASSUME Inv, NEW p \in Caller, Lands(p)
  PROVE  Once!Next
<1> DEFINE c == [call[p] EXCEPT !.step = "landed"]
           w == WriteOf(p)
           wrote == IF call[p].alias THEN "alias" ELSE "original"
<1>1. /\ CallOK(call[p]) /\ CallInv(call[p]) /\ TablesOK /\ TablesInv
      /\ call' = [call EXCEPT ![p] = c] /\ late' = late /\ Applied(w)
      /\ call[p].step = "written"
  BY InvParts DEF Lands
<1>2. /\ w \in Write /\ Fits(w) /\ w.command = call[p].command
      /\ w.alias = call[p].alias
  BY <1>1, WriteType DEF CallInv
<1>3. /\ CallOK(c) /\ c.step = "landed" /\ c.command = call[p].command
      /\ c.alias = call[p].alias /\ c.said = call[p].said
  BY <1>1 DEF CallOK, CallRecord, Step
<1>4. shown' = [shown EXCEPT ![p] = Shown(c)] /\ shown[p] = Shown(call[p])
  BY <1>1, <1>3, ShownStep
<1>5. Shown(c) = [shown[p] EXCEPT !.wrote = wrote]
  BY <1>1, <1>3, <1>4 DEF Shown
<1>6. shown' = [shown EXCEPT ![p].wrote = wrote]
  BY <1>4, <1>5 DEF shown
<1>7. shown[p].running /\ shown[p].wrote = "nothing" /\ shown[p].command = w.command
  <2>1. /\ shown[p].running = (call[p].step # "idle")
        /\ shown[p].wrote = "nothing" /\ shown[p].command = call[p].command
    BY <1>1, <1>4, ShownFields
  <2>2. call[p].step # "idle"
    BY <1>1
  <2>3. shown[p].running
    BY <2>1, <2>2, Zenon
  <2> QED
    BY <1>2, <2>1, <2>3
<1>8. Once!Lands(shown[p].command, wrote) /\ wrote \in {"original", "alias"}
  BY <1>1, <1>2, <1>7, AppliedLands
<1> HIDE DEF wrote
<1>9. Once!TakeEffect(p)
  BY <1>1, <1>6, <1>7, <1>8 DEF Once!TakeEffect, doubtful
<1> QED
  BY <1>9 DEF Once!Next

LEMMA LateTakesEffect ==
  ASSUME Inv, LateLands \/ LateRollsBack
  PROVE  Once!Next
<1>1. PICK w \in late : /\ late = {w} /\ late' = {} /\ UNCHANGED call
                        /\ Applied(w) \/ UNCHANGED tables
  BY LateStep
<1>2. w \in Write /\ Fits(w) /\ TablesOK /\ TablesInv
  BY InvParts
<1>3. doubtful = {w.command} /\ doubtful' = {} /\ shown' = shown
  BY <1>1 DEF doubtful, shown
<1>4. CASE Applied(w)
  <2>1. PICK wrote \in {"original", "alias"} : Once!Lands(w.command, wrote)
    BY <1>2, <1>4, AppliedLands
  <2> QED
    BY <1>3, <2>1 DEF Once!Next, Once!TakeEffectLate
<1>5. CASE UNCHANGED tables
  BY <1>3, <1>5, TablesShown DEF Once!Next, Once!NeverTakesEffect
<1> QED
  BY <1>1, <1>4, <1>5

LEMMA InitRefines == Init => Once!Init
<1> SUFFICES ASSUME Init PROVE Once!Init
  OBVIOUS
<1>1. /\ heads = [target |-> Absent, reservation |-> Opening,
                  claim |-> [f \in Family |-> Unclaimed], aggregate |-> {}]
      /\ keys = [k \in Key |-> Free] /\ late = {}
  BY DEF Init
<1>2. shown = [p \in Caller |-> [command |-> None, running |-> FALSE,
                                 wrote |-> "nothing", said |-> None]]
  <2>1. \A p \in Caller : call[p] = Ended(None)
    BY DEF Init, Ended
  <2>2. Shown(Ended(None)) = [command |-> None, running |-> FALSE,
                              wrote |-> "nothing", said |-> None]
    BY DEF Shown, Ended
  <2> QED
    BY <2>1, <2>2 DEF shown
<1>3. claims = [f \in Family |-> [number |-> 0, atoms |-> 0]]
  BY <1>1 DEF claims, Unclaimed
<1>4. open = Family
  BY <1>1 DEF open, Opening
<1>5. money = [consumed |-> Spent, held |-> Maximum - Spent, released |-> 0]
  BY <1>1 DEF money, Opening
<1>6. doubtful = {}
  BY <1>1 DEF doubtful
<1> QED
  BY <1>1, <1>2, <1>3, <1>4, <1>5, <1>6 DEF Once!Init, Key, Once!Key

LEMMA NextRefines == Inv /\ [Next]_vars => [Once!Next]_(Once!vars)
<1> SUFFICES ASSUME Inv, [Next]_vars PROVE [Once!Next]_(Once!vars)
  OBVIOUS
<1> USE DEF Once!vars
<1>1. ASSUME NEW p \in Caller, NEW c \in Command, NEW t \in Time, Calls(p, c, t)
      PROVE  Once!Next
  BY <1>1, CallsInvoke
<1>2. ASSUME NEW p \in Caller, Attempt(p)
      PROVE  [Once!Next]_(Once!vars)
  <2>1. CASE \/ Waits(p) \/ Delivered(p) \/ NoBase(p) \/ OtherClaim(p)
             \/ Rejected(p) \/ Unprojected(p)
    BY <2>1, AnswersAreTrue
  <2>2. CASE Acknowledged(p) \/ LosesReply(p) \/ (Fails(p) /\ Says(p, "not now"))
    BY <2>2, EndsAreTrue
  <2>3. CASE Lands(p)
    BY <2>3, LandsTakesEffect
  <2>4. CASE \/ Locks(p) \/ WritesAlias(p) \/ WritesPlan(p)
             \/ (Fails(p) /\ ~Says(p, "not now"))
    BY <2>4, StepsAreHidden
  <2> QED
    BY <1>2, <2>1, <2>2, <2>3, <2>4 DEF Attempt
<1>3. CASE LateLands \/ LateRollsBack
  BY <1>3, LateTakesEffect
<1>4. ASSUME NEW k \in Shared, DeliveredElsewhere(k)
      PROVE  Once!Next
  <2>1. Once!DeliveredElsewhere(k)
    BY <1>4 DEF DeliveredElsewhere, Once!DeliveredElsewhere, shown, doubtful,
       claims, open, money
  <2>2. k \in Once!Key
    BY CommandAssumption DEF Key, Once!Key
  <2> QED
    BY <2>1, <2>2 DEF Once!Next
<1>5. CASE UNCHANGED vars
  BY <1>5 DEF vars, shown, doubtful, claims, open, money
<1> QED
  BY <1>1, <1>2, <1>3, <1>4, <1>5 DEF Next

(* For any callers, commands, families and limits, `run` over concurrent,   *)
(* retried and interrupted transactions implements calls that settle at     *)
(* once, at most once, move money once, and are answered truthfully.        *)
THEOREM SettlesOnceTheorem == Spec => SettlesOnce
BY InitRefines, NextRefines, AlwaysInv, PTL DEF Spec, SettlesOnce, Once!Spec
=============================================================================
