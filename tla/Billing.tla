------------------------------ MODULE Billing ------------------------------
(***************************************************************************)
(* The billing periods of one customer: billing/term.rs, billing/close.rs, *)
(* billing/cumulative.rs and billing/presentation.rs over the M5 tables of *)
(* store/sqlite.  SQLite's BEGIN IMMEDIATE makes every transaction one     *)
(* action; closing a period and changing the terms at once may take three  *)
(* transactions, between which other callers write: the first finds the    *)
(* period unresolved, the second resolves it at the time the first         *)
(* sampled, the third starts over with a new time.                         *)
(*                                                                         *)
(* A term is the instant it takes effect and the boundaries of its         *)
(* calendar; the period that starts at s ends at the first boundary after  *)
(* s, and a period is named by its term's version and its start.  Entries  *)
(* are the accepted work, outcomes and metered activities of the customer  *)
(* and the corrections of each; one source and one cumulative agreement.   *)
(* A request repeated after it was saved reads its result and writes       *)
(* nothing.  Permissions, agreements and byte limits only decide whether   *)
(* a request is refused.                                                   *)
(*                                                                         *)
(* Bounds: Horizon, MaxEntry, MaxStatement.                                *)
(***************************************************************************)
EXTENDS Integers, Sequences, Sums

CONSTANTS Caller,
          Change,              \* requests to set or change the terms
          Schedule,            \* calendars: sets of boundaries
          Rate,                \* atoms per unit of work
          Numerator, Denominator, \* atoms per unit of activity, a fraction
          Maximum,             \* of the units of one work, and of a period's activity
          Quantity,            \* of work, outcomes and activities
          Delta,               \* of their corrections
          Horizon, MaxEntry, MaxStatement,
          NoChange

\* Instants are counted, so whatever part of a calendar one looks at has a first
\* boundary.
ASSUME ScheduleAssumption == \A schedule \in Schedule :
  /\ schedule \subseteq Nat
  /\ \A S \in SUBSET schedule : S # {} => \E b \in S : \A x \in S : b <= x
ASSUME ChangeAssumption ==
  /\ Change \subseteq [id : Nat, mode : {"initial", "immediate", "next_boundary"},
                       from : Nat, schedule : Schedule, expected : Nat]
  /\ NoChange \notin Change
ASSUME AmountAssumption ==
  /\ {Rate, Maximum} \subseteq Nat /\ {Numerator, Denominator} \subseteq Nat \ {0}
  /\ Quantity \subseteq Nat \ {0} /\ Delta \subseteq Int \ {0}
ASSUME BoundAssumption == {Horizon, MaxEntry, MaxStatement} \subseteq Nat

VARIABLES last,      \* the latest accepted time of the ledger
          terms,     \* billing_m5_term_versions: [change, from, schedule]
          ends,      \* billing_m5_period_resolutions: a period's resolved end
          entries,   \* accepted records with their assignments, oldest first
          closed,    \* billing_m5_period_closes
          presented, \* billing_m5_presentation_claims
          adHoc,     \* ad hoc statements: the adjustments of each
          call       \* the calls between two of their transactions

vars == <<last, terms, ends, entries, closed, presented, adHoc, call>>

-----------------------------------------------------------------------------
Time == 0..Horizon
Period == [term : Nat, start : Nat]
Unassigned == [term |-> 0, start |-> 0]
Kind == {"work", "outcome", "activity"}
Basis == {"acceptance-time", "linked-open-period", "post-close-adjustment"}

\* of: the entry a correction corrects, 0 if none.
\* atoms: what an adjustment adds to the bill, 0 for other entries.
Entry == [kind : Kind, of : Nat, quantity : Int, at : Nat, period : Period,
          basis : Basis, atoms : Int]
\* A closed period: its end, the lines of its statement, what they book, and
\* the adjustments it presents.
Statement == [end : Nat, lines : SUBSET Nat, booked : Int, adjustments : SUBSET Nat]
\* integrity: the call was answered with an integrity failure.
Step == {"idle", "resolve", "again", "integrity"}

Idle == [step |-> "idle", change |-> NoChange, period |-> Unassigned, at |-> 0]

TypeOK ==
  /\ last \in Nat \cup {-1}
  /\ terms \in Seq([change : Change, from : Nat, schedule : Schedule])
  /\ DOMAIN ends \subseteq Period /\ ends \in [DOMAIN ends -> Nat]
  /\ entries \in Seq(Entry)
  /\ DOMAIN closed \subseteq Period /\ closed \in [DOMAIN closed -> Statement]
  /\ presented \subseteq DOMAIN entries
  /\ adHoc \in Seq(SUBSET DOMAIN entries)
  /\ call \in [Caller -> [step : Step, change : Change \cup {NoChange},
                          period : Period, at : Nat]]

Init ==
  /\ last = -1 /\ terms = <<>> /\ entries = <<>>
  /\ ends = [p \in {} |-> 0] /\ closed = [p \in {} |-> 0]
  /\ presented = {} /\ adHoc = <<>>
  /\ call = [c \in Caller |-> Idle]

With(f, x, y) == [z \in DOMAIN f \cup {x} |-> IF z = x THEN y ELSE f[z]]

-----------------------------------------------------------------------------
(* The calendar of a term. *)

\* The first boundary of schedule after t.
HasAfter(schedule, t) == {b \in schedule : b > t} # {}
After(schedule, t) == Min({b \in schedule : b > t})

\* The starts of the periods of a term that takes effect at from.
Starts(from, schedule) ==
  {s \in {from} \cup schedule : s >= from /\ HasAfter(schedule, s)}
\* The period of such a term that starts at s holds the instant t.
Covers(s, from, schedule, t) ==
  s \in Starts(from, schedule) /\ s <= t /\ t < After(schedule, s)

Version == DOMAIN terms
Named(v, s) == [term |-> v, start |-> s]
Periods(v) == {Named(v, s) : s \in Starts(terms[v].from, terms[v].schedule)}
NaturalEnd(p) == After(terms[p.term].schedule, p.start)

Holds(p, t) == Covers(p.start, terms[p.term].from, terms[p.term].schedule, t)

\* The terms that assign what is accepted at t, and the terms a change at t
\* replaces.
Assigns(v, t) == /\ v \in Version /\ terms[v].from <= t
                 /\ \A w \in Version : terms[w].from <= t => w <= v
Current(v, t) == /\ v \in Version /\ terms[v].from <= t
                 /\ \A w \in Version : terms[w].from <= t =>
                      \/ terms[w].from < terms[v].from
                      \/ terms[w].from = terms[v].from /\ w <= v
AcceptedIn(p, t) == Assigns(p.term, t) /\ Holds(p, t)

\* A faulty variant: two writes may share an instant.
MayRepeat(at) == at \in Time /\ at >= last

\* Every write is dated after every other of the ledger.
Advances(at) == at \in Time /\ at > last

-----------------------------------------------------------------------------
(* Entries and what they are worth. *)

Original(i) == IF entries[i].of = 0 THEN i ELSE entries[i].of
Origin(i) == entries[Original(i)].period
IsAdjustment(i) == entries[i].basis = "post-close-adjustment"
Adjustments == {i \in DOMAIN entries : IsAdjustment(i)}

Total(S) == SumOver([i \in S |-> entries[i].quantity], S)
Atoms(S) == SumOver([i \in S |-> entries[i].atoms], S)

\* Rounded to the nearest atom, half of one upwards.
Book(n) == (2 * n * Numerator + Denominator) \div (2 * Denominator)
Worth(kind, n) == CASE kind = "work" -> Rate * n
                    [] kind = "outcome" -> n
                    [] kind = "activity" -> Book(n)

\* An entry with its corrections.
Chain(i) == {j \in DOMAIN entries : Original(j) = Original(i)}
\* All activity of the period p, with its corrections on any route.
Activity(p) == {j \in DOMAIN entries : entries[j].kind = "activity" /\ Origin(j) = p}
\* What is billed together with entry i.
Bucket(i) == IF entries[i].kind = "activity" THEN Activity(Origin(i)) ELSE Chain(i)

-----------------------------------------------------------------------------
(* Acceptance.  The first conjuncts are the refusals. *)

Adds(at, entry) ==
  /\ Len(entries) < MaxEntry
  /\ entries' = Append(entries, entry)
  /\ last' = at
  /\ UNCHANGED <<terms, ends, closed, presented, adHoc, call>>

New(kind, n, at, p) == [kind |-> kind, of |-> 0, quantity |-> n, at |-> at,
                        period |-> p, basis |-> "acceptance-time", atoms |-> 0]

\* Before the customer has terms nothing is assigned.
AcceptUnassigned(kind, n, at) ==
  /\ Advances(at)
  /\ terms = <<>> /\ kind # "activity"
  /\ kind = "work" => n <= Maximum
  /\ Adds(at, New(kind, n, at, Unassigned))

Accept(kind, n, at, p) ==
  /\ Advances(at)
  /\ AcceptedIn(p, at) /\ p \notin DOMAIN closed
  /\ kind = "work" => n <= Maximum
  /\ Adds(at, New(kind, n, at, p))

ActivitySubmit(n, at, p) ==
  /\ Advances(at)
  /\ AcceptedIn(p, at)
  /\ Total({j \in Activity(p) : entries[j].period = p}) + n <= Maximum
  /\ Adds(at, New("activity", n, at, p))

Correction(i, n, at, p, basis, atoms) ==
  [kind |-> entries[i].kind, of |-> i, quantity |-> n, at |-> at, period |-> p,
   basis |-> basis, atoms |-> atoms]

\* A faulty variant: only what the statement lists is taken for billed.
SinceTheStatement(i, n) ==
  LET total == Total({j \in Bucket(i) : ~IsAdjustment(j)}) IN
  Worth(entries[i].kind, total + n) - Worth(entries[i].kind, total)

\* What a correction by n adds to a bill already drawn up.
Difference(i, n) == LET total == Total(Bucket(i)) IN
  Worth(entries[i].kind, total + n) - Worth(entries[i].kind, total)

\* A correction before the customer has terms.
CorrectUnassigned(i, n, at) ==
  /\ Advances(at)
  /\ terms = <<>> /\ entries[i].of = 0 /\ entries[i].kind = "outcome"
  /\ Adds(at, Correction(i, n, at, Unassigned, "acceptance-time", 0))

\* An outcome is corrected through its target's chain, work and activity by
\* their quantities.
Correctable(i, n, at) ==
  /\ Advances(at)
  /\ entries[i].of = 0 /\ terms # <<>>
  /\ IF entries[i].kind = "outcome"
       THEN \E v \in Version : Assigns(v, at)
       ELSE \A S \in {Chain(i), Bucket(i)} : Total(S) + n \in 0..Maximum

\* A faulty variant: whether the period is closed is not looked at.
CorrectInPlace(i, n, at) ==
  /\ Correctable(i, n, at)
  /\ Adds(at, Correction(i, n, at, Origin(i), "linked-open-period", 0))

CorrectOpen(i, n, at) ==
  /\ Correctable(i, n, at)
  /\ Origin(i) \notin DOMAIN closed
  /\ Adds(at, Correction(i, n, at, Origin(i), "linked-open-period", 0))

CorrectClosed(i, n, at, p) ==
  /\ Correctable(i, n, at)
  /\ Origin(i) \in DOMAIN closed
  /\ AcceptedIn(p, at) /\ p \notin DOMAIN closed
  /\ Adds(at, Correction(i, n, at, p, "post-close-adjustment", Difference(i, n)))

-----------------------------------------------------------------------------
(* Terms. *)

Saved(change) == \E v \in Version : terms[v].change.id = change.id

Takes(change, from) ==
  [change |-> change, from |-> from, schedule |-> change.schedule]
\* The customer's first terms, which assign everything accepted before.
SetTerms(change, at) ==
  /\ change.mode = "initial" /\ terms = <<>> /\ change.expected = 0
  /\ Advances(at)
  /\ terms' = <<Takes(change, change.from)>>
  /\ HasAfter(change.schedule, change.from)
  /\ ends' = With(ends, Named(1, change.from), After(change.schedule, change.from))
  /\ \E start \in [DOMAIN entries -> Starts(change.from, change.schedule)] :
       /\ \A i \in DOMAIN entries :
            Covers(start[i], change.from, change.schedule, entries[i].at)
       /\ entries' = [i \in DOMAIN entries |->
                        [entries[i] EXCEPT !.period = Named(1, start[i])]]
  /\ last' = at
  /\ UNCHANGED <<closed, presented, adHoc, call>>

\* A caller that is not between transactions, or one that starts over.
Attempts(c, change, p) ==
  \/ call[c].step \in {"idle", "integrity"}
  \/ /\ call[c].step = "again" /\ call[c].change = change
     /\ change = NoChange => call[c].period = p

Finishes(c) == call' = [call EXCEPT ![c] = Idle]

\* A faulty variant: a change that has yet to take effect does not count.
ReplacesPending(change, at, p) ==
  /\ change.expected = Len(terms) /\ terms # <<>> /\ ~Saved(change)
  /\ Current(p.term, at) /\ Holds(p, at)

\* p is the current period at the time at, when change may replace its terms.
Replaces(change, at, p) ==
  /\ change.expected = Len(terms) /\ terms # <<>> /\ ~Saved(change)
  /\ Current(p.term, at) /\ Holds(p, at)
  /\ \A v \in Version : terms[v].from <= at

Installs(change, from, resolved) ==
  /\ HasAfter(change.schedule, from)
  /\ terms' = Append(terms, Takes(change, from))
  /\ ends' = With(resolved, Named(Len(terms) + 1, from), After(change.schedule, from))

TransitionNext(c, change, at, p) ==
  /\ change.mode = "next_boundary"
  /\ Attempts(c, change, p)
  /\ Advances(at)
  /\ Installs(change, NaturalEnd(p), ends)
  /\ last' = at /\ Finishes(c)
  /\ UNCHANGED <<entries, closed, presented, adHoc>>

\* A change at once needs a current period it can clip.
Clips(change, at, p) ==
  /\ change.mode = "immediate"
  /\ p.start < at
  /\ HasAfter(change.schedule, at)

TransitionNow(c, change, at, p) ==
  /\ Attempts(c, change, p)
  /\ Clips(change, at, p) /\ Advances(at)
  /\ p \in DOMAIN ends /\ ends[p] = NaturalEnd(p)
  /\ Installs(change, at, With(ends, p, at))
  /\ last' = at /\ Finishes(c)
  /\ UNCHANGED <<entries, closed, presented, adHoc>>

\* The first transaction of a call that has to resolve p: it is rolled back,
\* and its time is kept (one that does not advance would only be refused later).
Unresolved(c, change, at, p) ==
  /\ Advances(at)
  /\ call[c].step \in {"idle", "integrity"}
  /\ p \notin DOMAIN ends
  /\ call' = [call EXCEPT ![c] = [step |-> "resolve", change |-> change,
                                  period |-> p, at |-> at]]
  /\ UNCHANGED <<last, terms, ends, entries, closed, presented, adHoc>>

TransitionResolves(c, change, at, p) ==
  Clips(change, at, p) /\ Unresolved(c, change, at, p)

\* Started over, the change finds another period than the one it resolved.
TransitionMisses(c, change, at, p) ==
  /\ call[c].step = "again" /\ call[c].change = change
  /\ Clips(change, at, p) /\ p \notin DOMAIN ends
  /\ call' = [call EXCEPT ![c] = [Idle EXCEPT !.step = "integrity"]]
  /\ UNCHANGED <<last, terms, ends, entries, closed, presented, adHoc>>

-----------------------------------------------------------------------------
(* Resolving and closing a period. *)

\* p starts, and if it ends at e also ends, before other terms take effect.
Precedes(p, e) == p.term < Len(terms) =>
  p.start < terms[p.term + 1].from /\ e <= terms[p.term + 1].from

Resolve(c) == LET p == call[c].period IN
  /\ call[c].step = "resolve"
  /\ IF p \in DOMAIN ends THEN UNCHANGED <<last, ends>>
     ELSE /\ Advances(call[c].at) /\ p.start <= call[c].at
          /\ Precedes(p, NaturalEnd(p))
          /\ ends' = With(ends, p, NaturalEnd(p))
          /\ last' = call[c].at
  /\ call' = [call EXCEPT ![c].step = "again"]
  /\ UNCHANGED <<terms, entries, closed, presented, adHoc>>

\* A refusal, a failure or the process's end between two transactions.
Stops(c) ==
  /\ call[c].step \in {"resolve", "again"}
  /\ Finishes(c)
  /\ UNCHANGED <<last, terms, ends, entries, closed, presented, adHoc>>

\* What the statement of p lists, and the adjustments it has to present.
Lines(p) == {i \in DOMAIN entries : entries[i].period = p /\ ~IsAdjustment(i)}
Due(p) == {i \in Adjustments : entries[i].period = p} \ presented
Presentable(S) == \A i \in S : Origin(i) \in DOMAIN closed

OfKind(S, kind) == {i \in S : entries[i].kind = kind}
Booked(S) == LET Value(kind) == Worth(kind, Total(OfKind(S, kind)))
             IN Value("work") + Value("outcome") + Value("activity")

\* The bounds a close finds for p: the resolved ones, or else the calendar's.
ClosesAt(p, e) ==
  /\ p \in Periods(p.term)
  /\ p \notin DOMAIN closed
  /\ e = IF p \in DOMAIN ends THEN ends[p] ELSE NaturalEnd(p)
  /\ e <= NaturalEnd(p) /\ Precedes(p, e)

PeriodClose(c, at, p) ==
  /\ Attempts(c, NoChange, p)
  /\ p \in DOMAIN ends
  /\ ClosesAt(p, ends[p]) /\ ends[p] <= at /\ Advances(at)
  /\ Presentable(Due(p))
  /\ closed' = With(closed, p, [end |-> ends[p], lines |-> Lines(p),
                                booked |-> Booked(Lines(p)), adjustments |-> Due(p)])
  /\ presented' = presented \cup Due(p)
  /\ last' = at /\ Finishes(c)
  /\ UNCHANGED <<terms, ends, entries, adHoc>>

CloseResolves(c, at, p) ==
  /\ ClosesAt(p, NaturalEnd(p)) /\ NaturalEnd(p) <= at
  /\ Presentable(Due(p))
  /\ Unresolved(c, NoChange, at, p)

\* A statement of chosen adjustments between closes.
StatementAdHoc(S, at) ==
  /\ S # {} /\ S \subseteq Adjustments \ presented
  /\ Presentable(S)
  /\ Advances(at) /\ Len(adHoc) < MaxStatement
  /\ adHoc' = Append(adHoc, S)
  /\ presented' = presented \cup S
  /\ last' = at
  /\ UNCHANGED <<terms, ends, entries, closed, call>>

-----------------------------------------------------------------------------
AllPeriods == UNION {Periods(v) : v \in Version}

\* What the ledger does at a time, and with a period at a time.
Does(at) ==
  \/ \E kind \in Kind, n \in Quantity : AcceptUnassigned(kind, n, at)
  \/ \E i \in DOMAIN entries, n \in Delta :
       CorrectUnassigned(i, n, at) \/ CorrectOpen(i, n, at)
  \/ \E change \in Change : SetTerms(change, at)
  \/ \E S \in SUBSET Adjustments : StatementAdHoc(S, at)

Accepts(at, p) == \E n \in Quantity :
  \/ \E kind \in {"work", "outcome"} : Accept(kind, n, at, p)
  \/ ActivitySubmit(n, at, p)
Corrects(at, p) ==
  \E i \in DOMAIN entries, n \in Delta : CorrectClosed(i, n, at, p)
ChangesTerms(change, at, p) == Replaces(change, at, p) /\ \E c \in Caller :
  \/ TransitionNext(c, change, at, p) \/ TransitionNow(c, change, at, p)
  \/ TransitionResolves(c, change, at, p) \/ TransitionMisses(c, change, at, p)
Closes(c, at, p) == PeriodClose(c, at, p) \/ CloseResolves(c, at, p)

Next ==
  \/ \E at \in Time : Does(at)
  \/ \E p \in AllPeriods, at \in Time :
       \/ Accepts(at, p) \/ Corrects(at, p)
       \/ \E c \in Caller : Closes(c, at, p)
  \/ \E change \in Change, p \in AllPeriods, at \in Time : ChangesTerms(change, at, p)
  \/ \E c \in Caller : Resolve(c) \/ Stops(c)

Spec == Init /\ [][Next]_vars

-----------------------------------------------------------------------------
PeriodEnd(p) == IF p \in DOMAIN ends THEN ends[p] ELSE NaturalEnd(p)

\* The periods of a customer leave no gap and no overlap where its terms change:
\* a period that began under the old terms ends no later than the new ones take
\* effect, and the last of them exactly then.  Otherwise a period would be billed
\* under both terms, or could never be closed (BILLING_M5_PERIOD).
PeriodsMeet ==
  \A v \in Version : \A p \in Periods(v) :
    v < Len(terms) /\ p.start < terms[v + 1].from =>
      /\ PeriodEnd(p) <= terms[v + 1].from
      /\ NaturalEnd(p) >= terms[v + 1].from => PeriodEnd(p) = terms[v + 1].from

\* Whatever is assigned by its acceptance time lies inside its period as it was
\* resolved, even where a change of terms clipped the period after the entry was
\* accepted; a correction of an open period stays with what it corrects.
EntriesFallInTheirPeriod ==
  \A i \in DOMAIN entries : LET p == entries[i].period IN
    /\ p = Unassigned <=> terms = <<>>
    /\ terms # <<>> =>
         IF entries[i].basis = "linked-open-period" THEN p = Origin(i)
         ELSE p.start <= entries[i].at /\ entries[i].at < PeriodEnd(p)

\* A closed period stays as its statement says: its end is never resolved anew,
\* nothing is assigned to it later, every adjustment assigned to it is presented,
\* and no adjustment is presented by two statements, of periods or ad hoc.
BilledOnce ==
  /\ \A p \in DOMAIN closed :
       /\ p \in DOMAIN ends /\ closed[p].end = ends[p]
       /\ closed[p].lines = Lines(p)
       /\ Due(p) = {}
       /\ \A q \in DOMAIN closed \ {p} :
            closed[p].adjustments \cap closed[q].adjustments = {}
       /\ \A k \in DOMAIN adHoc : closed[p].adjustments \cap adHoc[k] = {}
  /\ \A j, k \in DOMAIN adHoc : j # k => adHoc[j] \cap adHoc[k] = {}

\* What belongs to the bill of p: its lines, and the adjustments of its entries.
BelongsTo(p) == {i \in DOMAIN entries :
                   IF IsAdjustment(i) THEN Origin(i) = p ELSE entries[i].period = p}

\* A closed period's statement and the adjustments made to it since add up to what
\* its work, outcomes and activity are worth in the end: rounding the activity of
\* a period as a whole loses or gains no atom, whatever the order and the routes of
\* the corrections.
BookedIsExact ==
  \A p \in DOMAIN closed :
    closed[p].booked + Atoms(BelongsTo(p) \cap Adjustments) = Booked(BelongsTo(p))

\* An integrity failure means that retained data are damaged (exit 9 in
\* docs/billing-cli-contract.md); here they never are.
IntegrityMeansDamage == \A c \in Caller : call[c].step # "integrity"
=============================================================================
