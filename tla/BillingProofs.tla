--------------------------- MODULE BillingProofs ---------------------------
(***************************************************************************)
(* Proofs about Billing, for any calendars, terms, amounts and callers.    *)
(* BillingInv is inductive: the terms take effect one after the other      *)
(* (TermsInv); a period's resolved end is its calendar's, or the instant   *)
(* at which the next terms clipped it (EndsInv); whatever is recorded was  *)
(* accepted by now, in a period of its customer's terms (EntriesInv); a    *)
(* closed period had ended, and what has been presented stays presented    *)
(* (ClosedInv).                                                            *)
(***************************************************************************)
EXTENDS Billing, SumTheorems

-----------------------------------------------------------------------------
(* The invariant. *)

TermsInv == \A v, w \in DOMAIN terms : v < w => terms[v].from < terms[w].from

IsPeriod(p) == p.term \in DOMAIN terms /\ p \in Periods(p.term)

\* The end of p is its calendar's, or other terms clipped it.
Clipped(p) == /\ p.term + 1 \in DOMAIN terms
              /\ ends[p] = terms[p.term + 1].from
              /\ ends[p] < NaturalEnd(p)
EndsInv == \A p \in DOMAIN ends :
  IsPeriod(p) /\ (ends[p] = NaturalEnd(p) \/ Clipped(p))

CallInv == \A c \in Caller : call[c].step = "resolve" => IsPeriod(call[c].period)

EntryInv(i) ==
  /\ entries[i].at <= last
  /\ entries[i].of # 0 =>
       /\ entries[i].of \in DOMAIN entries
       /\ entries[entries[i].of].of = 0
       /\ entries[entries[i].of].kind = entries[i].kind
  /\ IF terms = <<>>
       THEN entries[i].basis = "acceptance-time" ELSE IsPeriod(entries[i].period)
  /\ entries[i].basis = "acceptance-time" /\ entries[i].kind = "activity" =>
       entries[i].of = 0
  /\ IsAdjustment(i) => entries[i].of # 0 /\ Origin(i) \in DOMAIN closed
EntriesInv == \A i \in DOMAIN entries : EntryInv(i)

ClosedInv ==
  /\ \A p \in DOMAIN closed : /\ p \in DOMAIN ends /\ ends[p] <= last
                              /\ closed[p].adjustments \subseteq presented
  /\ \A k \in DOMAIN adHoc : adHoc[k] \subseteq presented

BillingInv == /\ TypeOK /\ TermsInv /\ EndsInv /\ CallInv /\ EntriesInv /\ ClosedInv
              /\ PeriodsMeet /\ EntriesFallInTheirPeriod /\ BilledOnce /\ BookedIsExact

-----------------------------------------------------------------------------
(* Calendars. *)

\* The first boundary after t is one, and no other lies between.
LEMMA AfterIs ==
  ASSUME NEW schedule \in Schedule, NEW t, HasAfter(schedule, t)
  PROVE  /\ After(schedule, t) \in schedule /\ After(schedule, t) \in Nat
         /\ After(schedule, t) > t
         /\ \A b \in schedule : b > t => After(schedule, t) <= b
<1> DEFINE S == {b \in schedule : b > t}
<1>1. schedule \subseteq Nat  BY ScheduleAssumption
<1>2. PICK b \in S : \A x \in S : b <= x
  BY ScheduleAssumption DEF HasAfter
<1>3. \E x \in S : \A y \in S : x <= y  BY <1>2
<1>4. Min(S) \in S /\ \A y \in S : Min(S) <= y
  <2> HIDE DEF S
  <2> QED BY <1>3 DEF Min
<1>5. After(schedule, t) = Min(S)  BY DEF After
<1> QED BY <1>1, <1>4, <1>5

\* A period ends no later than any that starts after it.
LEMMA StartsApart ==
  ASSUME NEW from \in Nat, NEW schedule \in Schedule,
         NEW r \in Starts(from, schedule), NEW s \in Starts(from, schedule), r < s
  PROVE  After(schedule, r) <= s
<1>1. schedule \subseteq Nat  BY ScheduleAssumption
<1>2. r \in Nat /\ s \in Nat /\ r >= from /\ s \in {from} \cup schedule
      /\ HasAfter(schedule, r)
  BY <1>1 DEF Starts
<1>3. s \in schedule  BY <1>2
<1> QED BY <1>2, <1>3, AfterIs

TermsTyped == terms \in Seq([change : Change, from : Nat, schedule : Schedule])

LEMMA TermFacts ==
  ASSUME TermsTyped, NEW v \in DOMAIN terms
  PROVE  /\ terms[v].from \in Nat /\ terms[v].schedule \in Schedule
         /\ v \in Nat /\ v >= 1 /\ v <= Len(terms)
<1> DEFINE R == [change : Change, from : Nat, schedule : Schedule]
<1>1. terms \in Seq(R)  BY DEF TermsTyped
<1>2. terms[v] \in R /\ v \in 1..Len(terms) /\ Len(terms) \in Nat
  <2> HIDE DEF R
  <2> QED BY <1>1
<1> QED BY <1>2

LEMMA PeriodFacts ==
  ASSUME TermsTyped, NEW p, IsPeriod(p)
  PROVE  /\ p = Named(p.term, p.start) /\ p \in Period /\ p # Unassigned
         /\ p.term \in DOMAIN terms /\ p.term \in Nat /\ p.start \in Nat
         /\ p.start \in Starts(terms[p.term].from, terms[p.term].schedule)
         /\ p.start >= terms[p.term].from
         /\ NaturalEnd(p) \in terms[p.term].schedule
         /\ NaturalEnd(p) \in Nat /\ NaturalEnd(p) > p.start
         /\ \A b \in terms[p.term].schedule : b > p.start => NaturalEnd(p) <= b
<1> DEFINE v == p.term
<1>1. /\ terms[v].from \in Nat /\ terms[v].schedule \in Schedule
      /\ v \in DOMAIN terms /\ v \in Nat /\ v >= 1
  BY TermFacts DEF IsPeriod
<1>2. PICK s \in Starts(terms[v].from, terms[v].schedule) : p = Named(v, s)
  BY DEF IsPeriod, Periods
<1>3. p.start = s  BY <1>2 DEF Named
<1>4. terms[v].schedule \subseteq Nat  BY <1>1, ScheduleAssumption
<1>5. s \in Nat /\ s >= terms[v].from /\ HasAfter(terms[v].schedule, s)
  BY <1>1, <1>4 DEF Starts
<1>6. /\ NaturalEnd(p) \in terms[v].schedule /\ NaturalEnd(p) \in Nat
      /\ NaturalEnd(p) > s
      /\ \A b \in terms[v].schedule : b > s => NaturalEnd(p) <= b
  BY <1>1, <1>3, <1>5, AfterIs DEF NaturalEnd
<1>7. p \in Period /\ p # Unassigned
  BY <1>1, <1>2, <1>5 DEF Named, Period, Unassigned
<1> QED BY <1>1, <1>2, <1>3, <1>5, <1>6, <1>7

\* Of two periods of the same terms one ends before the other starts.
LEMMA PeriodsApart ==
  ASSUME TermsTyped, NEW p, IsPeriod(p), NEW q, IsPeriod(q), p.term = q.term
  PROVE  p = q \/ NaturalEnd(p) <= q.start \/ NaturalEnd(q) <= p.start
<1>1. p.start = q.start \/ p.start < q.start \/ q.start < p.start
  BY PeriodFacts
<1>2. CASE p.start = q.start  BY <1>2, PeriodFacts
<1>3. CASE p.start < q.start
  BY <1>3, StartsApart, PeriodFacts, TermFacts DEF NaturalEnd
<1>4. CASE q.start < p.start
  BY <1>4, StartsApart, PeriodFacts, TermFacts DEF NaturalEnd
<1> QED BY <1>1, <1>2, <1>3, <1>4

-----------------------------------------------------------------------------
(* What is recorded, of any sequence of entries. *)

OriginIn(es, i) == es[IF es[i].of = 0 THEN i ELSE es[i].of].period
AdjustsIn(es) == {i \in DOMAIN es : es[i].basis = "post-close-adjustment"}
BelongsIn(es, p) == {i \in DOMAIN es :
  IF i \in AdjustsIn(es) THEN OriginIn(es, i) = p ELSE es[i].period = p}
LinesIn(es, p) == {i \in DOMAIN es : es[i].period = p /\ i \notin AdjustsIn(es)}
KindIn(es, S, kind) == {i \in S : es[i].kind = kind}

TotalIn(es, S) == SumOver([i \in S |-> es[i].quantity], S)
AtomsIn(es, S) == SumOver([i \in S |-> es[i].atoms], S)
BookedIn(es, S) == Worth("work", TotalIn(es, KindIn(es, S, "work")))
                   + Worth("outcome", TotalIn(es, KindIn(es, S, "outcome")))
                   + Worth("activity", TotalIn(es, KindIn(es, S, "activity")))
ExactAt(es, p, booked) ==
  booked + AtomsIn(es, BelongsIn(es, p) \cap AdjustsIn(es)) = BookedIn(es, BelongsIn(es, p))
Exact(es, cl) == \A p \in DOMAIN cl : ExactAt(es, p, cl[p].booked)

\* What a correction corrects is an original of its kind; activity's entries that
\* are no adjustments stay with what they correct.
Refers(es, e) == e.of # 0 =>
  e.of \in DOMAIN es /\ es[e.of].of = 0 /\ es[e.of].kind = e.kind
WellFormed(es) == es \in Seq(Entry) /\ \A i \in DOMAIN es : Refers(es, es[i])

LEMMA ReadExact ==
  /\ BookedIsExact <=> Exact(entries, closed)
  /\ BookedIsExact' <=> Exact(entries', closed')
<1>1. BookedIsExact <=> Exact(entries, closed)
  BY Zenon DEF BookedIsExact, Exact, ExactAt, Atoms, AtomsIn, BelongsTo, BelongsIn, Adjustments,
     AdjustsIn, IsAdjustment, Origin, Original, OriginIn, Booked, BookedIn, Total,
     TotalIn, OfKind, KindIn
<1>2. BookedIsExact' <=> Exact(entries', closed')
  BY Zenon DEF BookedIsExact, Exact, ExactAt, Atoms, AtomsIn, BelongsTo, BelongsIn, Adjustments,
     AdjustsIn, IsAdjustment, Origin, Original, OriginIn, Booked, BookedIn, Total,
     TotalIn, OfKind, KindIn
<1> QED BY <1>1, <1>2

LEMMA EntriesTyped ==
  ASSUME NEW es, es \in Seq(Entry)
  PROVE  /\ DOMAIN es = 1..Len(es) /\ Len(es) \in Nat
         /\ IsFiniteSet(DOMAIN es)
         /\ \A i \in DOMAIN es : es[i] \in Entry
<1>1. DOMAIN es = 1..Len(es) /\ Len(es) \in Nat  OBVIOUS
<1>2. IsFiniteSet(1..Len(es))  BY <1>1, FS_Interval
<1>3. \A i \in DOMAIN es : es[i] \in Entry  OBVIOUS
<1> QED BY <1>1, <1>2, <1>3

LEMMA FieldsTyped ==
  ASSUME NEW e \in Entry
  PROVE  /\ e.kind \in Kind /\ e.of \in Nat /\ e.quantity \in Int /\ e.at \in Nat
         /\ e.period \in Period /\ e.basis \in Basis /\ e.atoms \in Int
BY DEF Entry

LEMMA SumsTyped ==
  ASSUME NEW es, es \in Seq(Entry), NEW S \in SUBSET DOMAIN es
  PROVE  IsFiniteSet(S) /\ TotalIn(es, S) \in Int /\ AtomsIn(es, S) \in Int
<1>1. IsFiniteSet(S)  BY EntriesTyped, FS_Subset
<1>2. \A i \in S : es[i].quantity \in Int /\ es[i].atoms \in Int
  BY EntriesTyped, FieldsTyped
<1>3. SumOver([i \in S |-> es[i].quantity], S) \in Int  BY <1>1, <1>2, SumType
<1>4. SumOver([i \in S |-> es[i].atoms], S) \in Int  BY <1>1, <1>2, SumType
<1> QED BY <1>1, <1>3, <1>4 DEF TotalIn, AtomsIn

LEMMA BookTyped == ASSUME NEW n \in Int PROVE Book(n) \in Int
<1>1. Denominator \in Nat \ {0} /\ Numerator \in Nat  BY AmountAssumption
<1>2. 2 * n * Numerator + Denominator \in Int /\ 2 * Denominator \in Int
      /\ 2 * Denominator > 0
  BY <1>1
<1> QED BY <1>2 DEF Book

LEMMA WorthTyped ==
  ASSUME NEW kind \in Kind, NEW n \in Int PROVE Worth(kind, n) \in Int
<1>1. Rate \in Nat  BY AmountAssumption
<1>2. Rate * n \in Int  BY <1>1
<1> QED BY <1>2, BookTyped DEF Worth, Kind

LEMMA BookedTyped ==
  ASSUME NEW es, es \in Seq(Entry), NEW S \in SUBSET DOMAIN es
  PROVE  BookedIn(es, S) \in Int
<1>1. \A kind \in Kind : KindIn(es, S, kind) \in SUBSET DOMAIN es  BY DEF KindIn
<1>2. \A kind \in Kind : TotalIn(es, KindIn(es, S, kind)) \in Int
  BY <1>1, SumsTyped
<1>3. \A kind \in Kind : Worth(kind, TotalIn(es, KindIn(es, S, kind))) \in Int
  BY <1>2, WorthTyped
<1> QED BY <1>3 DEF BookedIn, Kind

\* An entry more changes no other.
LEMMA Appended ==
  ASSUME NEW es, es \in Seq(Entry), NEW e \in Entry
  PROVE  /\ Append(es, e) \in Seq(Entry)
         /\ Len(es) + 1 \notin DOMAIN es
         /\ DOMAIN Append(es, e) = DOMAIN es \cup {Len(es) + 1}
         /\ Append(es, e)[Len(es) + 1] = e
         /\ \A i \in DOMAIN es : Append(es, e)[i] = es[i]
OBVIOUS

LEMMA TotalsStay ==
  ASSUME NEW es, es \in Seq(Entry), NEW e \in Entry, NEW S \in SUBSET DOMAIN es
  PROVE  /\ TotalIn(Append(es, e), S) = TotalIn(es, S)
         /\ AtomsIn(Append(es, e), S) = AtomsIn(es, S)
<1>1. IsFiniteSet(S)  BY SumsTyped
<1>2. \A i \in S : Append(es, e)[i] = es[i]  BY Appended
<1>3. [i \in S |-> Append(es, e)[i].quantity] = [i \in S |-> es[i].quantity]
  BY <1>2
<1>4. [i \in S |-> Append(es, e)[i].atoms] = [i \in S |-> es[i].atoms]
  BY <1>2
<1> QED BY <1>3, <1>4 DEF TotalIn, AtomsIn

LEMMA TotalsGrow ==
  ASSUME NEW es, es \in Seq(Entry), NEW e \in Entry, NEW S \in SUBSET DOMAIN es
  PROVE  LET k == Len(es) + 1 IN
         /\ TotalIn(Append(es, e), S \cup {k}) = TotalIn(es, S) + e.quantity
         /\ AtomsIn(Append(es, e), S \cup {k}) = AtomsIn(es, S) + e.atoms
<1> DEFINE k == Len(es) + 1
           new == Append(es, e)
           q == [i \in S \cup {k} |-> new[i].quantity]
           a == [i \in S \cup {k} |-> new[i].atoms]
<1>1. IsFiniteSet(S) /\ k \notin S  BY SumsTyped, Appended
<1>2. /\ \A i \in S \cup {k} : q[i] \in Int /\ a[i] \in Int
      /\ q[k] = e.quantity /\ a[k] = e.atoms
  <2>1. \A i \in S \cup {k} : new[i] \in Entry  BY Appended, EntriesTyped
  <2>2. new[k] = e  BY Appended
  <2> HIDE DEF new, k
  <2> QED BY <2>1, <2>2, FieldsTyped
<1>3. SumOver(q, S \cup {k}) = SumOver(q, S) + e.quantity
  <2> HIDE DEF q, k
  <2> QED BY <1>1, <1>2, SumAdd
<1>4. SumOver(a, S \cup {k}) = SumOver(a, S) + e.atoms
  <2> HIDE DEF a, k
  <2> QED BY <1>1, <1>2, SumAdd
<1>5. \A i \in S : q[i] = [j \in S |-> new[j].quantity][i]
                   /\ a[i] = [j \in S |-> new[j].atoms][i]
  OBVIOUS
<1>6. SumOver(q, S) = TotalIn(new, S) /\ SumOver(a, S) = AtomsIn(new, S)
  <2> HIDE DEF q, a, new
  <2> QED BY <1>1, <1>5, SumCong DEF TotalIn, AtomsIn
<1>7. TotalIn(new, S) = TotalIn(es, S) /\ AtomsIn(new, S) = AtomsIn(es, S)
  BY TotalsStay
<1>8. TotalIn(new, S \cup {k}) = SumOver(q, S \cup {k})
      /\ AtomsIn(new, S \cup {k}) = SumOver(a, S \cup {k})
  BY DEF TotalIn, AtomsIn
<1> QED BY <1>3, <1>4, <1>6, <1>7, <1>8

LEMMA BookedStays ==
  ASSUME NEW es, es \in Seq(Entry), NEW e \in Entry, NEW S \in SUBSET DOMAIN es
  PROVE  BookedIn(Append(es, e), S) = BookedIn(es, S)
<1>1. \A kind : KindIn(Append(es, e), S, kind) = KindIn(es, S, kind)
                /\ KindIn(es, S, kind) \in SUBSET DOMAIN es
  BY Appended DEF KindIn
<1>2. \A kind : TotalIn(Append(es, e), KindIn(Append(es, e), S, kind))
                  = TotalIn(es, KindIn(es, S, kind))
  BY <1>1, TotalsStay
<1> QED BY <1>2 DEF BookedIn

\* An entry more adds to the amount of its own kind.
LEMMA BookedGrows ==
  ASSUME NEW es, es \in Seq(Entry), NEW e \in Entry, NEW S \in SUBSET DOMAIN es
  PROVE  LET total == TotalIn(es, KindIn(es, S, e.kind)) IN
         BookedIn(Append(es, e), S \cup {Len(es) + 1})
           = BookedIn(es, S) + (Worth(e.kind, total + e.quantity) - Worth(e.kind, total))
<1> DEFINE k == Len(es) + 1
           new == Append(es, e)
           Amount(kind) == Worth(kind, TotalIn(es, KindIn(es, S, kind)))
           After2(kind) == Worth(kind, TotalIn(new, KindIn(new, S \cup {k}, kind)))
           total == TotalIn(es, KindIn(es, S, e.kind))
<1>1. \A kind : KindIn(es, S, kind) \in SUBSET DOMAIN es  BY DEF KindIn
<1>2. ASSUME NEW kind, kind # e.kind  PROVE After2(kind) = Amount(kind)
  <2>1. KindIn(new, S \cup {k}, kind) = KindIn(es, S, kind)
    BY <1>2, Appended DEF KindIn
  <2> QED BY <1>1, <2>1, TotalsStay
<1>3. After2(e.kind) = Worth(e.kind, total + e.quantity)
  <2>1. KindIn(new, S \cup {k}, e.kind) = KindIn(es, S, e.kind) \cup {k}
    BY Appended DEF KindIn
  <2>2. KindIn(es, S, e.kind) \in SUBSET DOMAIN es  BY <1>1
  <2>3. TotalIn(new, KindIn(es, S, e.kind) \cup {k}) = total + e.quantity
    <3> DEFINE T == KindIn(es, S, e.kind)
    <3>1. T \in SUBSET DOMAIN es  BY <2>2
    <3> HIDE DEF T
    <3>2. TotalIn(new, T \cup {k}) = TotalIn(es, T) + e.quantity
      BY <3>1, TotalsGrow
    <3> QED BY <3>2 DEF T
  <2> HIDE DEF new, total, k
  <2> QED BY <2>1, <2>3
<1>4. \A kind \in Kind : Amount(kind) \in Int /\ After2(kind) \in Int
  <2>1. \A kind : KindIn(new, S \cup {k}, kind) \in SUBSET DOMAIN new
    BY Appended DEF KindIn
  <2>2. new \in Seq(Entry)  BY Appended
  <2> HIDE DEF new
  <2> QED BY <1>1, <2>1, <2>2, SumsTyped, WorthTyped
<1>5. e.kind \in Kind  BY FieldsTyped
<1>6. BookedIn(es, S) = Amount("work") + Amount("outcome") + Amount("activity")
  BY DEF BookedIn
<1>7. BookedIn(new, S \cup {k}) = After2("work") + After2("outcome") + After2("activity")
  BY DEF BookedIn
<1>8. Worth(e.kind, total) = Amount(e.kind)  OBVIOUS
<1> HIDE DEF Amount, After2, total, new, k
<1> SUFFICES BookedIn(new, S \cup {k}) = BookedIn(es, S)
               + (Worth(e.kind, total + e.quantity) - Worth(e.kind, total))
  BY DEF total, new, k
<1>9. BookedIn(new, S \cup {k}) = BookedIn(es, S) + (After2(e.kind) - Amount(e.kind))
  <2>1. CASE e.kind = "work"
    <3>1. After2("outcome") = Amount("outcome") /\ After2("activity") = Amount("activity")
      BY <1>2, <2>1
    <3> QED BY <1>4, <1>6, <1>7, <2>1, <3>1 DEF Kind
  <2>2. CASE e.kind = "outcome"
    <3>1. After2("work") = Amount("work") /\ After2("activity") = Amount("activity")
      BY <1>2, <2>2
    <3> QED BY <1>4, <1>6, <1>7, <2>2, <3>1 DEF Kind
  <2>3. CASE e.kind = "activity"
    <3>1. After2("work") = Amount("work") /\ After2("outcome") = Amount("outcome")
      BY <1>2, <2>3
    <3> QED BY <1>4, <1>6, <1>7, <2>3, <3>1 DEF Kind
  <2> QED BY <1>5, <2>1, <2>2, <2>3 DEF Kind
<1> QED BY <1>3, <1>8, <1>9

\* Where entries belong does not change when one more is recorded.
LEMMA Belonging ==
  ASSUME NEW es, WellFormed(es), NEW e \in Entry, Refers(es, e)
  PROVE  LET new == Append(es, e)
             k == Len(es) + 1 IN
         /\ WellFormed(new)
         /\ \A i \in DOMAIN es : OriginIn(new, i) = OriginIn(es, i)
         /\ OriginIn(new, k) = IF e.of = 0 THEN e.period ELSE es[e.of].period
         /\ AdjustsIn(new) = AdjustsIn(es) \cup
              (IF e.basis = "post-close-adjustment" THEN {k} ELSE {})
         /\ \A p : BelongsIn(new, p) = BelongsIn(es, p) \cup
              (IF p = IF e.basis = "post-close-adjustment"
                        THEN OriginIn(new, k) ELSE e.period
                 THEN {k} ELSE {})
         /\ \A p : LinesIn(new, p) = LinesIn(es, p) \cup
              (IF e.basis # "post-close-adjustment" /\ e.period = p THEN {k} ELSE {})
<1> DEFINE new == Append(es, e)
           k == Len(es) + 1
<1>1. es \in Seq(Entry) /\ \A i \in DOMAIN es : Refers(es, es[i])
  BY DEF WellFormed
<1>2. /\ new \in Seq(Entry) /\ k \notin DOMAIN es
      /\ DOMAIN new = DOMAIN es \cup {k} /\ new[k] = e
      /\ \A i \in DOMAIN es : new[i] = es[i]
  BY <1>1, Appended
<1> HIDE DEF new, k
<1>3. \A i \in DOMAIN new : Refers(new, new[i])
  BY <1>1, <1>2 DEF Refers
<1>4. \A i \in DOMAIN es : OriginIn(new, i) = OriginIn(es, i)
  BY <1>1, <1>2 DEF OriginIn, Refers
<1>5. OriginIn(new, k) = IF e.of = 0 THEN e.period ELSE es[e.of].period
  BY <1>2 DEF OriginIn, Refers
<1>6. AdjustsIn(new) = AdjustsIn(es) \cup
        (IF e.basis = "post-close-adjustment" THEN {k} ELSE {})
  BY <1>2 DEF AdjustsIn
<1>7. /\ AdjustsIn(es) \subseteq DOMAIN es
      /\ \A i \in DOMAIN es : i \in AdjustsIn(new) <=> i \in AdjustsIn(es)
      /\ k \in AdjustsIn(new) <=> e.basis = "post-close-adjustment"
  BY <1>2, <1>6 DEF AdjustsIn
<1>8. ASSUME NEW p
      PROVE  BelongsIn(new, p) = BelongsIn(es, p) \cup
               (IF p = IF e.basis = "post-close-adjustment"
                         THEN OriginIn(new, k) ELSE e.period
                  THEN {k} ELSE {})
  <2>1. \A i : i \in BelongsIn(new, p) <=> i \in DOMAIN new /\
          IF i \in AdjustsIn(new) THEN OriginIn(new, i) = p ELSE new[i].period = p
    BY DEF BelongsIn
  <2>2. \A i : i \in BelongsIn(es, p) <=> i \in DOMAIN es /\
          IF i \in AdjustsIn(es) THEN OriginIn(es, i) = p ELSE es[i].period = p
    BY DEF BelongsIn
  <2> QED BY <1>2, <1>4, <1>7, <2>1, <2>2
<1>9. ASSUME NEW p
      PROVE  LinesIn(new, p) = LinesIn(es, p) \cup
               (IF e.basis # "post-close-adjustment" /\ e.period = p THEN {k} ELSE {})
  <2>1. \A i : i \in LinesIn(new, p)
                 <=> i \in DOMAIN new /\ new[i].period = p /\ i \notin AdjustsIn(new)
    BY DEF LinesIn
  <2>2. \A i : i \in LinesIn(es, p)
                 <=> i \in DOMAIN es /\ es[i].period = p /\ i \notin AdjustsIn(es)
    BY DEF LinesIn
  <2>3. \A i : i \in LinesIn(new, p) <=>
          \/ i \in LinesIn(es, p)
          \/ i = k /\ e.basis # "post-close-adjustment" /\ e.period = p
    <3>1. \A i \in DOMAIN es : i \in LinesIn(new, p) <=> i \in LinesIn(es, p)
      BY <1>2, <1>7, <2>1, <2>2
    <3>2. k \in LinesIn(new, p) <=> e.basis # "post-close-adjustment" /\ e.period = p
      BY <1>2, <1>7, <2>1
    <3> QED BY <1>2, <2>1, <2>2, <3>1, <3>2
  <2>4. CASE e.basis # "post-close-adjustment" /\ e.period = p
    <3>1. LinesIn(new, p) = LinesIn(es, p) \cup {k}  BY <2>3, <2>4
    <3> QED BY <2>4, <3>1
  <2>5. CASE ~(e.basis # "post-close-adjustment" /\ e.period = p)
    <3>1. LinesIn(new, p) = LinesIn(es, p)  BY <2>3, <2>5
    <3> QED BY <2>5, <3>1
  <2> QED BY <2>4, <2>5
<1>10. WellFormed(new)  BY <1>2, <1>3 DEF WellFormed
<1> QED BY <1>4, <1>5, <1>6, <1>8, <1>9, <1>10 DEF new, k

\* What is recorded in open periods leaves every statement exact.
LEMMA ExactAccepted ==
  ASSUME NEW es, WellFormed(es), NEW e \in Entry, Refers(es, e), NEW cl,
         Exact(es, cl), e.basis # "post-close-adjustment", e.period \notin DOMAIN cl
  PROVE  Exact(Append(es, e), cl)
<1> SUFFICES ASSUME NEW p \in DOMAIN cl
             PROVE  ExactAt(Append(es, e), p, cl[p].booked)
  BY DEF Exact
<1> DEFINE new == Append(es, e)
           S == BelongsIn(es, p)
           T == S \cap AdjustsIn(es)
<1>1. es \in Seq(Entry)  BY DEF WellFormed
<1>2. BelongsIn(new, p) = S /\ AdjustsIn(new) = AdjustsIn(es)
  <2>1. AdjustsIn(new) = AdjustsIn(es) \cup {}  BY Belonging
  <2>2. p # e.period  OBVIOUS
  <2>3. BelongsIn(new, p) = BelongsIn(es, p) \cup
          (IF p = IF e.basis = "post-close-adjustment"
                    THEN OriginIn(new, Len(es) + 1) ELSE e.period
             THEN {Len(es) + 1} ELSE {})
    BY Belonging
  <2>4. BelongsIn(new, p) = BelongsIn(es, p) \cup {}  BY <2>2, <2>3
  <2> QED BY <2>1, <2>4
<1>3. S \in SUBSET DOMAIN es /\ T \in SUBSET DOMAIN es  BY DEF BelongsIn
<1>4. AtomsIn(new, T) = AtomsIn(es, T) /\ BookedIn(new, S) = BookedIn(es, S)
  <2> HIDE DEF S, T
  <2> QED BY <1>1, <1>3, TotalsStay, BookedStays
<1>5. cl[p].booked + AtomsIn(es, T) = BookedIn(es, S)  BY DEF Exact, ExactAt
<1> QED BY <1>2, <1>4, <1>5 DEF ExactAt

\* An adjustment adds to the statement it is of what the period gained.
LEMMA ExactAdjusted ==
  ASSUME NEW es, WellFormed(es), NEW e \in Entry, Refers(es, e), NEW cl,
         Exact(es, cl), e.basis = "post-close-adjustment", e.of # 0,
         \A p \in DOMAIN cl : cl[p].booked \in Int,
         LET total == TotalIn(es, KindIn(es, BelongsIn(es, es[e.of].period), e.kind))
         IN e.atoms = Worth(e.kind, total + e.quantity) - Worth(e.kind, total)
  PROVE  Exact(Append(es, e), cl)
<1> SUFFICES ASSUME NEW p \in DOMAIN cl
             PROVE  ExactAt(Append(es, e), p, cl[p].booked)
  BY DEF Exact
<1> DEFINE new == Append(es, e)
           k == Len(es) + 1
           S == BelongsIn(es, p)
           T == S \cap AdjustsIn(es)
<1>1. es \in Seq(Entry)  BY DEF WellFormed
<1>2. /\ AdjustsIn(new) = AdjustsIn(es) \cup {k}
      /\ BelongsIn(new, p) = S \cup (IF p = es[e.of].period THEN {k} ELSE {})
  BY Belonging
<1>3. S \in SUBSET DOMAIN es /\ T \in SUBSET DOMAIN es /\ k \notin S
  BY <1>1, Appended DEF BelongsIn
<1>4. cl[p].booked + AtomsIn(es, T) = BookedIn(es, S)  BY DEF Exact, ExactAt
<1>5. CASE p # es[e.of].period
  <2>1. BelongsIn(new, p) = S /\ S \cap AdjustsIn(new) = T
    BY <1>2, <1>3, <1>5
  <2>2. AtomsIn(new, T) = AtomsIn(es, T) /\ BookedIn(new, S) = BookedIn(es, S)
    <3> HIDE DEF S, T
    <3> QED BY <1>1, <1>3, TotalsStay, BookedStays
  <2> QED BY <1>4, <2>1, <2>2 DEF ExactAt
<1>6. CASE p = es[e.of].period
  <2>1. BelongsIn(new, p) = S \cup {k} /\ (S \cup {k}) \cap AdjustsIn(new) = T \cup {k}
    BY <1>2, <1>3, <1>6
  <2>2. AtomsIn(new, T \cup {k}) = AtomsIn(es, T) + e.atoms
    <3> HIDE DEF T
    <3> QED BY <1>1, <1>3, TotalsGrow
  <2>3. BookedIn(new, S \cup {k}) = BookedIn(es, S) + e.atoms
    <3>1. e.atoms = Worth(e.kind, TotalIn(es, KindIn(es, S, e.kind)) + e.quantity)
                    - Worth(e.kind, TotalIn(es, KindIn(es, S, e.kind)))
      BY <1>6
    <3> HIDE DEF S
    <3> QED BY <1>1, <1>3, <3>1, BookedGrows
  <2>4. cl[p].booked \in Int /\ AtomsIn(es, T) \in Int /\ BookedIn(es, S) \in Int
        /\ e.atoms \in Int
    <3> HIDE DEF S, T
    <3> QED BY <1>1, <1>3, SumsTyped, BookedTyped, FieldsTyped
  <2> HIDE DEF S, T, new, k
  <2>5. cl[p].booked + (AtomsIn(es, T) + e.atoms) = BookedIn(es, S) + e.atoms
    BY <1>4, <2>4
  <2>6. ExactAt(new, p, cl[p].booked)
    BY <2>1, <2>2, <2>3, <2>5 DEF ExactAt
  <2> QED BY <2>6 DEF new
<1> QED BY <1>5, <1>6

\* A statement drawn up over lines nothing adjusts yet is exact.
LEMMA ExactClosed ==
  ASSUME NEW es, WellFormed(es), NEW cl, Exact(es, cl), NEW p, NEW x,
         x.booked = BookedIn(es, LinesIn(es, p)),
         \A i \in AdjustsIn(es) : OriginIn(es, i) # p
  PROVE  Exact(es, With(cl, p, x))
<1>1. BelongsIn(es, p) = LinesIn(es, p)  BY DEF BelongsIn, LinesIn
<1>2. BelongsIn(es, p) \cap AdjustsIn(es) = {}  BY <1>1 DEF LinesIn
<1>3. AtomsIn(es, {}) = 0  BY SumEmpty DEF AtomsIn
<1>4. BookedIn(es, LinesIn(es, p)) \in Int
  BY BookedTyped DEF WellFormed, LinesIn
<1>5. ExactAt(es, p, x.booked)
  <2> DEFINE b == BookedIn(es, LinesIn(es, p))
  <2>1. b + 0 = b
    <3>1. b \in Int  BY <1>4
    <3> HIDE DEF b
    <3> QED BY <3>1
  <2>2. AtomsIn(es, BelongsIn(es, p) \cap AdjustsIn(es)) = 0  BY Zenon, <1>2, <1>3
  <2>3. BookedIn(es, BelongsIn(es, p)) = b  BY Zenon, <1>1
  <2> QED BY Zenon, <2>1, <2>2, <2>3 DEF ExactAt
<1>6. \A q \in DOMAIN cl : ExactAt(es, q, cl[q].booked)  BY DEF Exact
<1> QED BY <1>5, <1>6 DEF Exact, With

-----------------------------------------------------------------------------
(* What an acceptance or a correction records. *)

Recorded(at, e) == /\ Advances(at)
                   /\ entries' = Append(entries, e) /\ last' = at
                   /\ UNCHANGED <<terms, ends, closed, presented, adHoc, call>>

Gained(e) ==
  LET total == TotalIn(entries, KindIn(entries, BelongsIn(entries, entries[e.of].period),
                                       e.kind))
  IN Worth(e.kind, total + e.quantity) - Worth(e.kind, total)

\* Before there are terms an entry has no period; afterwards an open one.
Placed(e) ==
  /\ e.at \in Nat /\ Refers(entries, e) /\ e.period \notin DOMAIN closed
  /\ IF terms = <<>> THEN e.period = Unassigned /\ e.basis = "acceptance-time"
                     ELSE IsPeriod(e.period)
\* It lies in its period, or stays with what it corrects.
Lies(e) ==
  IF e.basis = "linked-open-period"
    THEN e.of # 0 /\ e.period = entries[e.of].period
    ELSE terms # <<>> => e.period.start <= e.at /\ e.at < PeriodEnd(e.period)
\* An adjustment is of a closed period, and worth what that gained.
Adjusts(e) ==
  /\ e.basis = "acceptance-time" /\ e.kind = "activity" => e.of = 0
  /\ e.basis = "post-close-adjustment" =>
       e.of # 0 /\ entries[e.of].period \in DOMAIN closed /\ e.atoms = Gained(e)
Fits(at, e) == e \in Entry /\ e.at = at /\ Placed(e) /\ Lies(e) /\ Adjusts(e)
Records(at) == \E e : Recorded(at, e) /\ Fits(at, e)

LEMMA EntriesWell == ASSUME TypeOK, EntriesInv PROVE WellFormed(entries)
BY DEF TypeOK, EntriesInv, EntryInv, WellFormed, Refers

LEMMA Timely ==
  ASSUME TypeOK, NEW at, Advances(at) PROVE at \in Nat /\ last \in Int /\ at > last
<1>1. Horizon \in Nat  BY BoundAssumption
<1> QED BY <1>1 DEF TypeOK, Advances, Time

\* What is accepted in a period is accepted inside it, and the period is open.
LEMMA AcceptedInside ==
  ASSUME BillingInv, NEW p, IsPeriod(p), NEW at, Advances(at), AcceptedIn(p, at)
  PROVE  /\ terms # <<>> /\ p.start <= at /\ at < PeriodEnd(p)
         /\ p \notin DOMAIN closed
<1> USE DEF BillingInv
<1>1. at \in Nat /\ last \in Int /\ at > last  BY Timely
<1>2. TermsTyped  BY DEF TypeOK, TermsTyped
<1>3. p.start <= at /\ at < NaturalEnd(p)
  BY DEF AcceptedIn, Holds, Covers, NaturalEnd
<1>4. \A v \in DOMAIN terms : terms[v].from <= at => v <= p.term
  BY DEF AcceptedIn, Assigns, Version
<1>5. at < PeriodEnd(p)
  <2>1. CASE p \notin DOMAIN ends  BY <1>3, <2>1 DEF PeriodEnd
  <2>2. CASE p \in DOMAIN ends /\ ends[p] = NaturalEnd(p)
    BY <1>3, <2>2 DEF PeriodEnd
  <2>3. CASE p \in DOMAIN ends /\ Clipped(p)
    <3>1. p.term \in Nat /\ p.term + 1 \in DOMAIN terms
      BY <1>2, <2>3, PeriodFacts DEF Clipped
    <3>2. terms[p.term + 1].from \in Nat  BY <1>2, <3>1, TermFacts
    <3>3. ~(terms[p.term + 1].from <= at)  BY <1>4, <3>1
    <3> QED BY <1>1, <2>3, <3>2, <3>3 DEF PeriodEnd, Clipped
  <2> QED BY <2>1, <2>2, <2>3 DEF EndsInv
<1>6. p \notin DOMAIN closed
  <2> SUFFICES ASSUME p \in DOMAIN closed PROVE FALSE  OBVIOUS
  <2>1. p \in DOMAIN ends /\ ends[p] <= last  BY DEF ClosedInv
  <2>2. ends[p] \in Nat  BY <2>1 DEF TypeOK
  <2> QED BY <1>1, <1>5, <2>1, <2>2 DEF PeriodEnd
<1>7. terms # <<>>  BY DEF IsPeriod
<1> QED BY <1>3, <1>5, <1>6, <1>7

LEMMA NotTaken ==
  ASSUME BillingInv, terms = <<>>
  PROVE  DOMAIN ends = {} /\ DOMAIN closed = {}
<1>0. DOMAIN terms = {}  OBVIOUS
<1>1. DOMAIN ends = {}
  <2>1. \A q \in DOMAIN ends : q.term \in DOMAIN terms
    BY DEF BillingInv, EndsInv, IsPeriod
  <2> QED BY <1>0, <2>1
<1> QED BY <1>1 DEF BillingInv, ClosedInv

\* What is new fits, with or without a period.
LEMMA NewFits ==
  ASSUME BillingInv, NEW kind \in Kind, NEW n \in Quantity, NEW at, NEW p,
         Adds(at, New(kind, n, at, p)), Advances(at),
         \/ terms = <<>> /\ p = Unassigned
         \/ IsPeriod(p) /\ AcceptedIn(p, at)
  PROVE  Records(at)
<1> DEFINE e == New(kind, n, at, p)
<1>1. Recorded(at, e)  BY DEF Adds, Recorded
<1>2. at \in Nat /\ n \in Int  BY Timely, AmountAssumption DEF BillingInv
<1>3. /\ e.kind = kind /\ e.of = 0 /\ e.quantity = n /\ e.at = at /\ e.period = p
      /\ e.basis = "acceptance-time" /\ e.atoms = 0
  BY DEF New
<1>4. p \in Period
  <2>1. Unassigned \in Period  BY DEF Unassigned, Period
  <2> QED BY <2>1, PeriodFacts DEF BillingInv, TypeOK, TermsTyped
<1>5. e \in Entry  BY <1>2, <1>4 DEF New, Entry, Basis
<1> HIDE DEF e
<1>6. p \notin DOMAIN closed /\ (terms # <<>> => p.start <= at /\ at < PeriodEnd(p))
  BY NotTaken, AcceptedInside
<1>7. Placed(e)
  <2>1. terms # <<>> => IsPeriod(p)  OBVIOUS
  <2>2. terms = <<>> => p = Unassigned  BY DEF IsPeriod
  <2> QED BY <1>2, <1>3, <1>6, <2>1, <2>2 DEF Placed, Refers
<1>8. Lies(e) /\ Adjusts(e)  BY <1>3, <1>6 DEF Lies, Adjusts
<1> QED BY <1>1, <1>3, <1>5, <1>7, <1>8 DEF Records, Fits

LEMMA AcceptFits ==
  ASSUME BillingInv, NEW kind \in Kind, NEW n \in Quantity, NEW at
  PROVE  /\ AcceptUnassigned(kind, n, at) => Records(at)
         /\ \A p : IsPeriod(p) /\ Accept(kind, n, at, p) => Records(at)
         /\ \A p : IsPeriod(p) /\ ActivitySubmit(n, at, p) => Records(at)
<1>1. ASSUME AcceptUnassigned(kind, n, at)  PROVE Records(at)
  BY <1>1, NewFits DEF AcceptUnassigned
<1>2. ASSUME NEW p, IsPeriod(p), Accept(kind, n, at, p)  PROVE Records(at)
  BY <1>2, NewFits DEF Accept
<1>3. ASSUME NEW p, IsPeriod(p), ActivitySubmit(n, at, p)  PROVE Records(at)
  <2>1. "activity" \in Kind  BY DEF Kind
  <2> QED BY <1>3, <2>1, NewFits DEF ActivitySubmit
<1> QED BY <1>1, <1>2, <1>3

\* A correction refers to what it corrects.
LEMMA CorrectionIs ==
  ASSUME BillingInv, NEW i \in DOMAIN entries, entries[i].of = 0, NEW n \in Delta,
         NEW at \in Nat, NEW p \in Period, NEW basis \in Basis, NEW atoms \in Int
  PROVE  LET e == Correction(i, n, at, p, basis, atoms) IN
         /\ e \in Entry /\ Refers(entries, e)
         /\ e.of = i /\ e.of # 0 /\ e.kind = entries[i].kind /\ e.quantity = n
         /\ e.at = at /\ e.period = p /\ e.basis = basis /\ e.atoms = atoms
<1>1. entries \in Seq(Entry)  BY DEF BillingInv, TypeOK
<1>2. entries[i] \in Entry /\ i \in Nat /\ i # 0  BY <1>1, EntriesTyped
<1>3. entries[i].kind \in Kind /\ n \in Int  BY <1>2, FieldsTyped, AmountAssumption
<1> QED BY <1>2, <1>3 DEF Correction, Entry, Refers

LEMMA CorrectUnassignedFits ==
  ASSUME BillingInv, NEW i \in DOMAIN entries, NEW n \in Delta, NEW at,
         CorrectUnassigned(i, n, at)
  PROVE  Records(at)
<1> DEFINE e == Correction(i, n, at, Unassigned, "acceptance-time", 0)
<1>1. Recorded(at, e) /\ entries[i].of = 0 /\ terms = <<>>
      /\ entries[i].kind = "outcome"
  BY DEF CorrectUnassigned, Adds, Recorded
<1>2. at \in Nat  BY <1>1, Timely DEF BillingInv, Recorded
<1>3. Unassigned \in Period /\ "acceptance-time" \in Basis
  BY DEF Unassigned, Period, Basis
<1>4. /\ e \in Entry /\ Refers(entries, e) /\ e.kind = "outcome" /\ e.at = at
      /\ e.period = Unassigned /\ e.basis = "acceptance-time"
  BY <1>1, <1>2, <1>3, CorrectionIs
<1> HIDE DEF e
<1>5. DOMAIN closed = {}  BY <1>1, NotTaken
<1>6. Placed(e) /\ Lies(e) /\ Adjusts(e)
  BY <1>1, <1>2, <1>4, <1>5 DEF Placed, Lies, Adjusts
<1> QED BY <1>1, <1>4, <1>6 DEF Records, Fits

LEMMA EntryPeriod ==
  ASSUME BillingInv, terms # <<>>, NEW i \in DOMAIN entries
  PROVE  IsPeriod(entries[i].period) /\ entries[i].period \in Period
BY PeriodFacts DEF BillingInv, EntriesInv, EntryInv, TypeOK, TermsTyped

LEMMA CorrectOpenFits ==
  ASSUME BillingInv, NEW i \in DOMAIN entries, NEW n \in Delta, NEW at,
         CorrectOpen(i, n, at)
  PROVE  Records(at)
<1> DEFINE o == entries[i].period
           e == Correction(i, n, at, o, "linked-open-period", 0)
<1>1. /\ Recorded(at, e) /\ entries[i].of = 0 /\ terms # <<>>
      /\ o \notin DOMAIN closed
  BY DEF CorrectOpen, Correctable, Adds, Recorded, Origin, Original
<1>2. at \in Nat  BY <1>1, Timely DEF BillingInv, Recorded
<1>3. IsPeriod(o) /\ o \in Period /\ "linked-open-period" \in Basis
  BY <1>1, EntryPeriod DEF Basis
<1> HIDE DEF o
<1>4. /\ e \in Entry /\ Refers(entries, e) /\ e.of = i /\ e.of # 0 /\ e.at = at
      /\ e.period = o /\ e.basis = "linked-open-period"
  <2>1. entries[i].of = 0 /\ 0 \in Int  BY <1>1
  <2> QED BY <1>2, <1>3, <2>1, CorrectionIs
<1> HIDE DEF e
<1>5. Placed(e)  BY <1>1, <1>2, <1>3, <1>4 DEF Placed
<1>6. Lies(e)  BY <1>4 DEF Lies, o
<1>7. Adjusts(e)  BY <1>4 DEF Adjusts
<1> QED BY <1>1, <1>4, <1>5, <1>6, <1>7 DEF Records, Fits

\* All activity of a period belongs to its bill.
LEMMA ActivityBelongs ==
  ASSUME BillingInv, terms # <<>>, NEW p
  PROVE  Activity(p) = KindIn(entries, BelongsIn(entries, p), "activity")
<1>1. WellFormed(entries)  BY EntriesWell DEF BillingInv
<1>2. ASSUME NEW j \in DOMAIN entries, entries[j].kind = "activity", ~IsAdjustment(j)
      PROVE  Origin(j) = entries[j].period
  <2>1. entries[j] \in Entry  BY <1>1, EntriesTyped DEF WellFormed
  <2>2. entries[j].basis \in {"acceptance-time", "linked-open-period"}
    BY <1>2, <2>1, FieldsTyped DEF IsAdjustment, Basis
  <2>3. CASE entries[j].basis = "acceptance-time"
    <3>1. entries[j].of = 0
      BY <1>2, <2>3 DEF BillingInv, EntriesInv, EntryInv
    <3> QED BY <3>1 DEF Origin, Original
  <2>4. CASE entries[j].basis = "linked-open-period"
    BY <2>4 DEF BillingInv, EntriesFallInTheirPeriod
  <2> QED BY <2>2, <2>3, <2>4
<1>3. \A j \in DOMAIN entries : Origin(j) = OriginIn(entries, j)
  BY DEF Origin, Original, OriginIn
<1>4. \A j \in DOMAIN entries : IsAdjustment(j) <=> j \in AdjustsIn(entries)
  BY DEF IsAdjustment, AdjustsIn
<1>5. \A j : j \in Activity(p) <=> j \in DOMAIN entries
               /\ entries[j].kind = "activity" /\ Origin(j) = p
  BY DEF Activity
<1>6. \A j : j \in KindIn(entries, BelongsIn(entries, p), "activity")
        <=> /\ j \in DOMAIN entries /\ entries[j].kind = "activity"
            /\ IF j \in AdjustsIn(entries) THEN OriginIn(entries, j) = p
                                           ELSE entries[j].period = p
  BY DEF KindIn, BelongsIn
<1>7. \A j \in DOMAIN entries : j \in Activity(p)
        <=> j \in KindIn(entries, BelongsIn(entries, p), "activity")
  BY <1>2, <1>3, <1>4, <1>5, <1>6
<1> QED BY <1>5, <1>6, <1>7

\* What a correction adds does not depend on what it is added to, but for the
\* rounding of a period's activity.
LEMMA WorthDiffers ==
  ASSUME NEW kind \in Kind, kind # "activity", NEW m \in Int, NEW t \in Int, NEW n \in Int
  PROVE  Worth(kind, m + n) - Worth(kind, m) = Worth(kind, t + n) - Worth(kind, t)
<1>1. Rate \in Nat  BY AmountAssumption
<1>2. Rate * (m + n) = Rate * m + Rate * n /\ Rate * (t + n) = Rate * t + Rate * n
  BY <1>1
<1>3. Rate * m \in Int /\ Rate * n \in Int /\ Rate * t \in Int  BY <1>1
<1>4. CASE kind = "work"
  <2>1. \A x : Worth(kind, x) = Rate * x  BY <1>4 DEF Worth
  <2>2. Worth(kind, m + n) - Worth(kind, m) = Rate * n
    BY <1>2, <1>3, <2>1
  <2>3. Worth(kind, t + n) - Worth(kind, t) = Rate * n
    BY <1>2, <1>3, <2>1
  <2> QED BY <2>2, <2>3
<1>5. CASE kind = "outcome"
  <2>1. \A x : Worth(kind, x) = x  BY <1>5 DEF Worth
  <2> QED BY <2>1
<1> QED BY <1>4, <1>5 DEF Kind

LEMMA DifferenceIs ==
  ASSUME BillingInv, terms # <<>>, NEW i \in DOMAIN entries, entries[i].of = 0,
         NEW n \in Delta
  PROVE  LET t == TotalIn(entries, KindIn(entries,
                    BelongsIn(entries, entries[i].period), entries[i].kind))
         IN /\ Difference(i, n) = Worth(entries[i].kind, t + n) - Worth(entries[i].kind, t)
            /\ Difference(i, n) \in Int
<1> DEFINE kind == entries[i].kind
           T == KindIn(entries, BelongsIn(entries, entries[i].period), kind)
           t == TotalIn(entries, T)
           m == TotalIn(entries, Bucket(i))
<1>1. entries \in Seq(Entry)  BY DEF BillingInv, TypeOK
<1>2. kind \in Kind /\ n \in Int
  BY <1>1, EntriesTyped, FieldsTyped, AmountAssumption
<1>3. T \in SUBSET DOMAIN entries  BY DEF KindIn, BelongsIn
<1>4. Bucket(i) \in SUBSET DOMAIN entries  BY DEF Bucket, Activity, Chain
<1>5. t \in Int /\ m \in Int
  <2> HIDE DEF T
  <2> QED BY <1>1, <1>3, <1>4, SumsTyped
<1>6. Difference(i, n) = Worth(kind, m + n) - Worth(kind, m)
  BY DEF Difference, Total, TotalIn
<1>7. Worth(kind, m + n) \in Int /\ Worth(kind, m) \in Int
  <2> HIDE DEF kind, m
  <2> QED BY <1>2, <1>5, WorthTyped
<1>8. CASE kind = "activity"
  <2>1. Origin(i) = entries[i].period  BY DEF Origin, Original
  <2>2. Bucket(i) = T  BY <1>8, <2>1, ActivityBelongs DEF Bucket
  <2>3. m = t  BY <2>2
  <2> HIDE DEF m, t, kind, T
  <2>4. Difference(i, n) = Worth(kind, t + n) - Worth(kind, t)  BY <1>6, <2>3
  <2>5. Difference(i, n) \in Int  BY <1>6, <1>7
  <2> QED BY <2>4, <2>5 DEF t, T, kind
<1>9. CASE kind # "activity"
  <2> HIDE DEF m, t, kind, T
  <2>4. Difference(i, n) = Worth(kind, t + n) - Worth(kind, t)
    BY <1>2, <1>5, <1>6, <1>9, WorthDiffers
  <2>5. Difference(i, n) \in Int  BY <1>6, <1>7
  <2> QED BY <2>4, <2>5 DEF t, T, kind
<1> QED BY <1>8, <1>9

LEMMA CorrectClosedFits ==
  ASSUME BillingInv, NEW i \in DOMAIN entries, NEW n \in Delta, NEW at,
         NEW p, IsPeriod(p), CorrectClosed(i, n, at, p)
  PROVE  Records(at)
<1> DEFINE atoms == Difference(i, n)
           e == Correction(i, n, at, p, "post-close-adjustment", atoms)
<1>1. /\ Recorded(at, e) /\ terms # <<>> /\ AcceptedIn(p, at) /\ p \notin DOMAIN closed
      /\ entries[i].period \in DOMAIN closed
  BY DEF CorrectClosed, Correctable, Adds, Recorded, Origin, Original
<1>2. entries[i].of = 0  BY DEF CorrectClosed, Correctable
<1>3. at \in Nat  BY <1>1, Timely DEF BillingInv, Recorded
<1>4. p \in Period /\ "post-close-adjustment" \in Basis
  BY PeriodFacts DEF BillingInv, TypeOK, TermsTyped, Basis
<1>5. atoms \in Int  BY <1>1, <1>2, DifferenceIs
<1>6. atoms = LET t == TotalIn(entries, KindIn(entries,
                         BelongsIn(entries, entries[i].period), entries[i].kind))
              IN Worth(entries[i].kind, t + n) - Worth(entries[i].kind, t)
  BY <1>1, <1>2, DifferenceIs
<1> HIDE DEF atoms
<1>7. /\ e \in Entry /\ Refers(entries, e) /\ e.of = i /\ e.of # 0
      /\ e.kind = entries[i].kind /\ e.quantity = n /\ e.at = at
      /\ e.period = p /\ e.basis = "post-close-adjustment" /\ e.atoms = atoms
  BY <1>2, <1>3, <1>4, <1>5, CorrectionIs
<1> HIDE DEF e
<1>8. p.start <= at /\ at < PeriodEnd(p)
  BY <1>1, AcceptedInside DEF Recorded
<1>9. Placed(e)  BY <1>1, <1>3, <1>7 DEF Placed
<1>10. Lies(e)  BY <1>7, <1>8 DEF Lies
<1>11. Adjusts(e)
  <2>1. e.atoms = Gained(e)  BY <1>6, <1>7 DEF Gained
  <2> QED BY <1>1, <1>7, <2>1 DEF Adjusts
<1> QED BY <1>1, <1>7, <1>9, <1>10, <1>11 DEF Records, Fits

-----------------------------------------------------------------------------
(* An entry more. *)

\* Terms and ends that stay leave the calendar as it is.
LEMMA CalendarKept ==
  ASSUME UNCHANGED <<terms, ends>>
  PROVE  /\ TermsInv => TermsInv'
         /\ EndsInv => EndsInv'
         /\ PeriodsMeet => PeriodsMeet'
         /\ \A p : /\ IsPeriod(p)' <=> IsPeriod(p)
                   /\ PeriodEnd(p)' = PeriodEnd(p)
<1>1. TermsInv => TermsInv'  BY DEF TermsInv
<1>2. \A p : NaturalEnd(p)' = NaturalEnd(p)  BY DEF NaturalEnd
<1>3. \A p : IsPeriod(p)' <=> IsPeriod(p)  BY DEF IsPeriod, Periods
<1>4. \A p : Clipped(p)' <=> Clipped(p)  BY <1>2 DEF Clipped
<1>5. EndsInv => EndsInv'  BY <1>2, <1>3, <1>4 DEF EndsInv
<1>6. \A p : PeriodEnd(p)' = PeriodEnd(p)  BY <1>2 DEF PeriodEnd
<1>7. PeriodsMeet => PeriodsMeet'
  <2>1. Version' = Version /\ \A v : Periods(v)' = Periods(v)
    BY DEF Version, Periods
  <2> QED BY <1>2, <1>6, <2>1 DEF PeriodsMeet
<1> QED BY <1>1, <1>3, <1>5, <1>6, <1>7

LEMMA CallsKept ==
  ASSUME CallInv, UNCHANGED <<terms, call>>
  PROVE  CallInv'
BY DEF CallInv, IsPeriod, Periods

LEMMA SubsetSeq ==
  ASSUME NEW S, NEW T, S \subseteq T, NEW s \in Seq(SUBSET S)
  PROVE  s \in Seq(SUBSET T)
OBVIOUS

LEMMA Grown ==
  ASSUME BillingInv, NEW at, NEW e, Recorded(at, e), Fits(at, e),
         NEW k, k = Len(entries) + 1
  PROVE  /\ entries' \in Seq(Entry) /\ k \notin DOMAIN entries
         /\ DOMAIN entries' = DOMAIN entries \cup {k} /\ entries'[k] = e
         /\ \A i \in DOMAIN entries : entries'[i] = entries[i]
         /\ at \in Nat /\ last \in Int /\ at > last /\ last' = at
<1>1. entries \in Seq(Entry) /\ e \in Entry /\ entries' = Append(entries, e)
  BY DEF BillingInv, TypeOK, Fits, Recorded
<1>2. at \in Nat /\ last \in Int /\ at > last /\ last' = at
  BY Timely DEF BillingInv, Recorded
<1> QED BY <1>1, <1>2, Appended, Zenon

LEMMA RecordedTypes ==
  ASSUME BillingInv, NEW at, NEW e, Recorded(at, e), Fits(at, e),
         NEW k, k = Len(entries) + 1
  PROVE  TypeOK'
<1>1. /\ entries' \in Seq(Entry) /\ DOMAIN entries \subseteq DOMAIN entries'
      /\ at \in Nat /\ last' = at
  BY Grown
<1>2. presented' \subseteq DOMAIN entries'
  BY <1>1 DEF BillingInv, TypeOK, Recorded
<1>3. adHoc' \in Seq(SUBSET DOMAIN entries')
  BY <1>1, SubsetSeq DEF BillingInv, TypeOK, Recorded
<1> QED BY <1>1, <1>2, <1>3 DEF BillingInv, TypeOK, Recorded

\* Where entries are, after one more.
LEMMA RecordedOrigins ==
  ASSUME BillingInv, NEW at, NEW e, Recorded(at, e), Fits(at, e),
         NEW k, k = Len(entries) + 1
  PROVE  /\ \A i \in DOMAIN entries : /\ Origin(i)' = Origin(i)
                                      /\ IsAdjustment(i)' <=> IsAdjustment(i)
         /\ Origin(k)' = IF e.of = 0 THEN e.period ELSE entries[e.of].period
         /\ IsAdjustment(k)' <=> e.basis = "post-close-adjustment"
<1>1. /\ k \notin DOMAIN entries
      /\ DOMAIN entries' = DOMAIN entries \cup {k} /\ entries'[k] = e
      /\ \A i \in DOMAIN entries : entries'[i] = entries[i]
  BY Grown
<1>2. \A i \in DOMAIN entries : entries[i].of # 0 => entries[i].of \in DOMAIN entries
  BY DEF BillingInv, EntriesInv, EntryInv
<1>3. e.of # 0 => e.of \in DOMAIN entries  BY DEF Fits, Placed, Refers
<1>4. \A i \in DOMAIN entries : Origin(i)' = Origin(i)
  BY <1>1, <1>2 DEF Origin, Original
<1>5. Origin(k)' = IF e.of = 0 THEN e.period ELSE entries[e.of].period
  BY <1>1, <1>3 DEF Origin, Original
<1>6. \A i \in DOMAIN entries : IsAdjustment(i)' <=> IsAdjustment(i)
  BY <1>1 DEF IsAdjustment
<1>7. IsAdjustment(k)' <=> e.basis = "post-close-adjustment"
  BY <1>1 DEF IsAdjustment
<1> QED BY <1>4, <1>5, <1>6, <1>7

LEMMA RecordedEntries ==
  ASSUME BillingInv, NEW at, NEW e, Recorded(at, e), Fits(at, e),
         NEW k, k = Len(entries) + 1
  PROVE  EntriesInv'
<1>1. /\ k \notin DOMAIN entries
      /\ DOMAIN entries' = DOMAIN entries \cup {k} /\ entries'[k] = e
      /\ \A i \in DOMAIN entries : entries'[i] = entries[i]
      /\ at \in Nat /\ last \in Int /\ at > last /\ last' = at
  BY Grown
<1>2. /\ \A i \in DOMAIN entries : /\ Origin(i)' = Origin(i)
                                   /\ IsAdjustment(i)' <=> IsAdjustment(i)
      /\ Origin(k)' = IF e.of = 0 THEN e.period ELSE entries[e.of].period
      /\ IsAdjustment(k)' <=> e.basis = "post-close-adjustment"
  BY RecordedOrigins
<1>3. UNCHANGED <<terms, ends, closed>>  BY DEF Recorded
<1>4. \A p : IsPeriod(p)' <=> IsPeriod(p)  BY <1>3, CalendarKept
<1>5. ASSUME NEW i \in DOMAIN entries  PROVE EntryInv(i)'
  <2>1. EntryInv(i) /\ entries[i].at \in Int
    BY EntriesTyped, FieldsTyped DEF BillingInv, TypeOK, EntriesInv
  <2> QED BY <1>1, <1>2, <1>3, <1>4, <2>1 DEF EntryInv
<1>6. EntryInv(k)'
  <2>1. /\ e.at = at /\ Refers(entries, e) /\ Adjusts(e)
        /\ IF terms = <<>> THEN e.basis = "acceptance-time" ELSE IsPeriod(e.period)
    BY DEF Fits, Placed
  <2> QED BY <1>1, <1>2, <1>3, <1>4, <2>1 DEF EntryInv, Refers, Adjusts
<1> QED BY <1>1, <1>5, <1>6 DEF EntriesInv

LEMMA RecordedFall ==
  ASSUME BillingInv, NEW at, NEW e, Recorded(at, e), Fits(at, e),
         NEW k, k = Len(entries) + 1
  PROVE  EntriesFallInTheirPeriod'
<1> DEFINE Falls(i) == LET p == entries[i].period IN
             /\ p = Unassigned <=> terms = <<>>
             /\ terms # <<>> =>
                  IF entries[i].basis = "linked-open-period" THEN p = Origin(i)
                  ELSE p.start <= entries[i].at /\ entries[i].at < PeriodEnd(p)
<1>1. /\ k \notin DOMAIN entries
      /\ DOMAIN entries' = DOMAIN entries \cup {k} /\ entries'[k] = e
      /\ \A i \in DOMAIN entries : entries'[i] = entries[i]
  BY Grown
<1>2. /\ \A i \in DOMAIN entries : Origin(i)' = Origin(i)
      /\ Origin(k)' = IF e.of = 0 THEN e.period ELSE entries[e.of].period
  BY RecordedOrigins
<1>3. UNCHANGED <<terms, ends, closed>>  BY DEF Recorded
<1>4. \A p : PeriodEnd(p)' = PeriodEnd(p)  BY <1>3, CalendarKept
<1>5. \A i \in DOMAIN entries : Falls(i)
  BY DEF BillingInv, EntriesFallInTheirPeriod
<1>6. \A i \in DOMAIN entries : Falls(i)'  BY <1>1, <1>2, <1>3, <1>4, <1>5
<1>7. Falls(k)'
  <2>1. Lies(e) /\ (IF terms = <<>> THEN e.period = Unassigned ELSE IsPeriod(e.period))
        /\ e.at = at
    BY DEF Fits, Placed
  <2>2. e.period = Unassigned <=> terms = <<>>
    BY <2>1, PeriodFacts DEF BillingInv, TypeOK, TermsTyped
  <2> QED BY <1>1, <1>2, <1>3, <1>4, <2>1, <2>2 DEF Lies
<1> QED BY <1>1, <1>6, <1>7 DEF EntriesFallInTheirPeriod

LEMMA RecordedClosed ==
  ASSUME BillingInv, NEW at, NEW e, Recorded(at, e), Fits(at, e),
         NEW k, k = Len(entries) + 1
  PROVE  ClosedInv' /\ BilledOnce'
<1>1. /\ k \notin DOMAIN entries
      /\ DOMAIN entries' = DOMAIN entries \cup {k} /\ entries'[k] = e
      /\ \A i \in DOMAIN entries : entries'[i] = entries[i]
      /\ at \in Nat /\ last \in Int /\ at > last /\ last' = at
  BY Grown
<1>2. \A i \in DOMAIN entries : IsAdjustment(i)' <=> IsAdjustment(i)
  BY RecordedOrigins
<1>3. UNCHANGED <<terms, ends, closed, presented, adHoc>> /\ e.period \notin DOMAIN closed
  BY DEF Recorded, Fits, Placed
<1>4. ClosedInv'
  <2>1. \A p \in DOMAIN ends : ends[p] \in Nat  BY DEF BillingInv, TypeOK
  <2> QED BY <1>1, <1>3, <2>1 DEF BillingInv, ClosedInv
<1>5. ASSUME NEW p \in DOMAIN closed
      PROVE  Lines(p)' = Lines(p) /\ Due(p)' = Due(p)
  <2>1. e.period # p  BY <1>3
  <2>2. Lines(p)' = Lines(p)  BY <1>1, <1>2, <2>1 DEF Lines
  <2>3. Due(p)' = Due(p)  BY <1>1, <1>2, <1>3, <2>1 DEF Due, Adjustments
  <2> QED BY <2>2, <2>3
<1>6. BilledOnce'  BY <1>3, <1>5 DEF BillingInv, BilledOnce
<1> QED BY <1>4, <1>6

LEMMA RecordedExact ==
  ASSUME BillingInv, NEW at, NEW e, Recorded(at, e), Fits(at, e)
  PROVE  BookedIsExact'
<1>1. WellFormed(entries) /\ e \in Entry /\ Refers(entries, e)
      /\ Exact(entries, closed)
  BY EntriesWell, ReadExact DEF BillingInv, Fits, Placed
<1>2. entries' = Append(entries, e) /\ closed' = closed  BY DEF Recorded
<1>3. Exact(Append(entries, e), closed)
  <2>1. CASE e.basis # "post-close-adjustment"
    <3>1. e.period \notin DOMAIN closed  BY DEF Fits, Placed
    <3> QED BY <1>1, <2>1, <3>1, ExactAccepted
  <2>2. CASE e.basis = "post-close-adjustment"
    <3>1. e.of # 0 /\ e.atoms = Gained(e)  BY <2>2 DEF Fits, Adjusts
    <3>2. \A p \in DOMAIN closed : closed[p].booked \in Int
      BY DEF BillingInv, TypeOK, Statement
    <3> QED BY <1>1, <2>2, <3>1, <3>2, ExactAdjusted DEF Gained
  <2> QED BY <2>1, <2>2
<1> QED BY <1>2, <1>3, ReadExact

LEMMA RecordsKeeps ==
  ASSUME BillingInv, NEW at, Records(at)
  PROVE  BillingInv'
<1>1. PICK e : Recorded(at, e) /\ Fits(at, e)  BY DEF Records
<1>k. PICK k : k = Len(entries) + 1  OBVIOUS
<1>2. UNCHANGED <<terms, ends, call>>  BY <1>1 DEF Recorded
<1>3. TermsInv' /\ EndsInv' /\ PeriodsMeet' /\ CallInv'
  BY <1>2, CalendarKept, CallsKept DEF BillingInv
<1> QED BY <1>1, <1>k, <1>3, RecordedTypes, RecordedEntries, RecordedFall, RecordedClosed,
        RecordedExact DEF BillingInv

-----------------------------------------------------------------------------
(* Steps that record nothing. *)

LEMMA EntriesKept ==
  ASSUME BillingInv, UNCHANGED entries, last' \in Int, last <= last',
         terms' = <<>> <=> terms = <<>>,
         \A p : IsPeriod(p) => IsPeriod(p)',
         DOMAIN closed \subseteq DOMAIN closed'
  PROVE  EntriesInv'
<1>1. last \in Int  BY DEF BillingInv, TypeOK
<1>2. \A i \in DOMAIN entries : /\ Origin(i)' = Origin(i)
                                /\ IsAdjustment(i)' <=> IsAdjustment(i)
  BY DEF Origin, Original, IsAdjustment
<1>3. ASSUME NEW i \in DOMAIN entries  PROVE EntryInv(i)'
  <2>1. EntryInv(i) /\ entries[i].at \in Int
    BY EntriesTyped, FieldsTyped DEF BillingInv, TypeOK, EntriesInv
  <2>2. entries'[i].at <= last'  BY <1>1, <2>1 DEF EntryInv
  <2> QED BY <1>2, <2>1, <2>2 DEF EntryInv
<1> QED BY <1>3 DEF EntriesInv

\* Entries stay in their periods while these end after them.
LEMMA FallKept ==
  ASSUME BillingInv, UNCHANGED entries, terms' = <<>> <=> terms = <<>>,
         \A i \in DOMAIN entries : IsPeriod(entries[i].period) =>
           \/ PeriodEnd(entries[i].period)' = PeriodEnd(entries[i].period)
           \/ entries[i].at < PeriodEnd(entries[i].period)'
  PROVE  EntriesFallInTheirPeriod'
<1>1. \A i \in DOMAIN entries : Origin(i)' = Origin(i)  BY DEF Origin, Original
<1>2. \A i \in DOMAIN entries : terms # <<>> => IsPeriod(entries[i].period)
  BY DEF BillingInv, EntriesInv, EntryInv
<1>3. ASSUME NEW i \in DOMAIN entries
      PROVE  LET p == entries[i].period IN
             /\ p = Unassigned <=> terms' = <<>>
             /\ terms' # <<>> =>
                  IF entries[i].basis = "linked-open-period" THEN p = Origin(i)
                  ELSE p.start <= entries[i].at /\ entries[i].at < PeriodEnd(p)'
  BY <1>2 DEF BillingInv, EntriesFallInTheirPeriod
<1> QED BY <1>1, <1>3 DEF EntriesFallInTheirPeriod

LEMMA ListsKept ==
  ASSUME UNCHANGED entries, presented \subseteq presented', NEW p
  PROVE  Lines(p)' = Lines(p) /\ Due(p)' \subseteq Due(p)
BY DEF Lines, Due, Adjustments, IsAdjustment

LEMMA BilledKept ==
  ASSUME BillingInv, UNCHANGED <<entries, closed, presented, adHoc>>,
         \A p \in DOMAIN closed : p \in DOMAIN ends' /\ ends'[p] = ends[p],
         last' \in Int, last <= last'
  PROVE  ClosedInv' /\ BilledOnce'
<1>1. \A p : Lines(p)' = Lines(p) /\ Due(p)' \subseteq Due(p)  BY ListsKept
<1>2. \A p \in DOMAIN closed : ends[p] \in Nat /\ ends[p] <= last
  BY DEF BillingInv, ClosedInv, TypeOK
<1>3. last \in Int  BY DEF BillingInv, TypeOK
<1>4. \A p \in DOMAIN closed : ends'[p] <= last'  BY <1>2, <1>3
<1>5. ClosedInv'  BY <1>4 DEF BillingInv, ClosedInv
<1>6. BilledOnce'  BY <1>1 DEF BillingInv, BilledOnce
<1> QED BY <1>5, <1>6

LEMMA ExactKept ==
  ASSUME BillingInv, UNCHANGED <<entries, closed>>
  PROVE  BookedIsExact'
BY ReadExact DEF BillingInv

CallsTyped == call \in [Caller -> [step : Step, change : Change \cup {NoChange},
                                   period : Period, at : Nat]]

LEMMA IdleTyped == Idle \in [step : Step, change : Change \cup {NoChange},
                             period : Period, at : Nat]
                   /\ Idle.step = "idle"
BY DEF Idle, Step, Unassigned, Period

LEMMA FinishesTyped ==
  ASSUME CallsTyped, NEW c \in Caller, Finishes(c)
  PROVE  /\ CallsTyped'
         /\ \A d \in Caller : call'[d].step = "resolve" => call'[d] = call[d]
BY IdleTyped DEF CallsTyped, Finishes

\* Only calls change.
LEMMA QuietKeeps ==
  ASSUME BillingInv, UNCHANGED <<last, terms, ends, entries, closed, presented, adHoc>>,
         CallsTyped', CallInv'
  PROVE  BillingInv'
<1>1. TypeOK'  BY DEF BillingInv, TypeOK, CallsTyped
<1>2. /\ TermsInv' /\ EndsInv' /\ PeriodsMeet'
      /\ \A p : (IsPeriod(p)' <=> IsPeriod(p)) /\ PeriodEnd(p)' = PeriodEnd(p)
  BY CalendarKept DEF BillingInv
<1>3. last' \in Int /\ last <= last'  BY DEF BillingInv, TypeOK
<1>4. EntriesInv'  BY <1>2, <1>3, EntriesKept
<1>5. EntriesFallInTheirPeriod'  BY <1>2, FallKept
<1>6. ClosedInv' /\ BilledOnce'
  BY <1>3, BilledKept DEF BillingInv, ClosedInv
<1>7. BookedIsExact'  BY ExactKept
<1> QED BY <1>1, <1>2, <1>4, <1>5, <1>6, <1>7 DEF BillingInv

LEMMA StopsKeeps ==
  ASSUME BillingInv, NEW c \in Caller, Stops(c)
  PROVE  BillingInv'
<1>1. CallsTyped  BY DEF BillingInv, TypeOK, CallsTyped
<1>2. /\ Finishes(c)
      /\ UNCHANGED <<last, terms, ends, entries, closed, presented, adHoc>>
  BY DEF Stops
<1>3. CallsTyped' /\ \A d \in Caller : call'[d].step = "resolve" => call'[d] = call[d]
  BY <1>1, <1>2, FinishesTyped
<1>4. \A p : IsPeriod(p)' <=> IsPeriod(p)  BY <1>2, CalendarKept
<1>5. CallInv'  BY <1>3, <1>4 DEF BillingInv, CallInv
<1> QED BY <1>2, <1>3, <1>5, QuietKeeps

LEMMA UnresolvedKeeps ==
  ASSUME BillingInv, NEW c \in Caller, NEW change \in Change \cup {NoChange},
         NEW at, NEW p, IsPeriod(p), Unresolved(c, change, at, p)
  PROVE  BillingInv'
<1> DEFINE now == [step |-> "resolve", change |-> change, period |-> p, at |-> at]
<1>1. CallsTyped  BY DEF BillingInv, TypeOK, CallsTyped
<1>2. /\ call' = [call EXCEPT ![c] = now] /\ Advances(at)
      /\ UNCHANGED <<last, terms, ends, entries, closed, presented, adHoc>>
  BY DEF Unresolved
<1>3. at \in Nat /\ p \in Period
  BY <1>2, Timely, PeriodFacts DEF BillingInv, TypeOK, TermsTyped
<1>4. now \in [step : Step, change : Change \cup {NoChange}, period : Period, at : Nat]
      /\ now.period = p
  BY <1>3 DEF Step
<1> HIDE DEF now
<1>5. CallsTyped'  BY <1>1, <1>2, <1>4 DEF CallsTyped
<1>6. \A q : IsPeriod(q)' <=> IsPeriod(q)  BY <1>2, CalendarKept
<1>7. \A d \in Caller : IF d = c THEN call'[d] = now ELSE call'[d] = call[d]
  BY <1>1, <1>2 DEF CallsTyped
<1>8. CallInv'  BY <1>4, <1>6, <1>7 DEF BillingInv, CallInv
<1> QED BY <1>2, <1>5, <1>8, QuietKeeps

LEMMA MissesKeeps ==
  ASSUME BillingInv, NEW c \in Caller, NEW change, NEW at, NEW p,
         TransitionMisses(c, change, at, p)
  PROVE  BillingInv'
<1> DEFINE now == [Idle EXCEPT !.step = "integrity"]
<1>1. CallsTyped  BY DEF BillingInv, TypeOK, CallsTyped
<1>2. /\ call' = [call EXCEPT ![c] = now]
      /\ UNCHANGED <<last, terms, ends, entries, closed, presented, adHoc>>
  BY DEF TransitionMisses
<1>3. now \in [step : Step, change : Change \cup {NoChange}, period : Period, at : Nat]
      /\ now.step # "resolve"
  BY DEF Idle, Step, Unassigned, Period
<1> HIDE DEF now
<1>4. CallsTyped'  BY <1>1, <1>2, <1>3 DEF CallsTyped
<1>5. \A q : IsPeriod(q)' <=> IsPeriod(q)  BY <1>2, CalendarKept
<1>6. \A d \in Caller : IF d = c THEN call'[d] = now ELSE call'[d] = call[d]
  BY <1>1, <1>2 DEF CallsTyped
<1>7. CallInv'  BY <1>3, <1>5, <1>6 DEF BillingInv, CallInv
<1> QED BY <1>2, <1>4, <1>7, QuietKeeps

-----------------------------------------------------------------------------
(* Resolving and closing periods, and statements between closes. *)

LEMMA WithIs ==
  ASSUME NEW f, NEW x, NEW y
  PROVE  /\ DOMAIN With(f, x, y) = DOMAIN f \cup {x}
         /\ With(f, x, y)[x] = y
         /\ \A z \in DOMAIN f : z # x => With(f, x, y)[z] = f[z]
BY DEF With

LEMMA ResolveKeeps ==
  ASSUME BillingInv, NEW c \in Caller, Resolve(c)
  PROVE  BillingInv'
<1> DEFINE p == call[c].period
<1>1. CallsTyped /\ TermsTyped
  BY DEF BillingInv, TypeOK, CallsTyped, TermsTyped
<1>2. /\ call[c].step = "resolve" /\ call' = [call EXCEPT ![c].step = "again"]
      /\ UNCHANGED <<terms, entries, closed, presented, adHoc>>
  BY DEF Resolve
<1>3. CallsTyped' /\ \A d \in Caller : call'[d].step = "resolve" => call'[d] = call[d]
  BY <1>1, <1>2 DEF CallsTyped, Step
<1>4. \A q : IsPeriod(q)' <=> IsPeriod(q)  BY <1>2 DEF IsPeriod, Periods
<1>5. CallInv'  BY <1>3, <1>4 DEF BillingInv, CallInv
<1>6. CASE p \in DOMAIN ends
  BY <1>2, <1>3, <1>5, <1>6, QuietKeeps DEF Resolve
<1>7. CASE p \notin DOMAIN ends
  <2> DEFINE at == call[c].at
  <2>1. /\ Advances(at) /\ last' = at
        /\ ends' = With(ends, p, NaturalEnd(p))
    BY <1>7 DEF Resolve
  <2>2. IsPeriod(p)  BY <1>2 DEF BillingInv, CallInv
  <2> HIDE DEF p, at
  <2>3. at \in Nat /\ last \in Int /\ at > last  BY <2>1, Timely DEF BillingInv
  <2>4. NaturalEnd(p) \in Nat /\ p \in Period  BY <1>1, <2>2, PeriodFacts
  <2>5. /\ DOMAIN ends' = DOMAIN ends \cup {p} /\ ends'[p] = NaturalEnd(p)
        /\ \A q \in DOMAIN ends : ends'[q] = ends[q]
        /\ ends' = [q \in DOMAIN ends' |-> ends'[q]]
    BY <1>7, <2>1, WithIs DEF With
  <2>6. TypeOK'
    <3>1. DOMAIN ends' \subseteq Period /\ ends' \in [DOMAIN ends' -> Nat]
      BY <2>4, <2>5 DEF BillingInv, TypeOK
    <3> QED BY <1>2, <1>3, <2>1, <2>3, <3>1 DEF BillingInv, TypeOK, CallsTyped
  <2>7. \A q : NaturalEnd(q)' = NaturalEnd(q)  BY <1>2 DEF NaturalEnd
  <2>8. \A q : PeriodEnd(q)' = PeriodEnd(q)
    BY <1>7, <2>5, <2>7 DEF PeriodEnd
  <2>9. TermsInv'  BY <1>2 DEF BillingInv, TermsInv
  <2>10. EndsInv'
    <3>1. \A q \in DOMAIN ends : Clipped(q) => Clipped(q)'
      BY <1>2, <2>5, <2>7 DEF Clipped
    <3> QED BY <1>4, <2>2, <2>5, <2>7, <3>1 DEF BillingInv, EndsInv
  <2>11. PeriodsMeet'
    <3>1. Version' = Version /\ \A v : Periods(v)' = Periods(v)
      BY <1>2 DEF Version, Periods
    <3> QED BY <1>2, <2>7, <2>8, <3>1 DEF BillingInv, PeriodsMeet
  <2>12. last' \in Int /\ last <= last'  BY <2>1, <2>3
  <2>13. EntriesInv'  BY <1>2, <1>4, <2>12, EntriesKept
  <2>14. EntriesFallInTheirPeriod'  BY <1>2, <2>8, FallKept
  <2>15. ClosedInv' /\ BilledOnce'
    <3>1. \A q \in DOMAIN closed : q \in DOMAIN ends' /\ ends'[q] = ends[q]
      BY <2>5 DEF BillingInv, ClosedInv
    <3> QED BY <1>2, <2>12, <3>1, BilledKept
  <2>16. BookedIsExact'  BY <1>2, ExactKept
  <2> QED BY <1>5, <2>6, <2>9, <2>10, <2>11, <2>13, <2>14, <2>15, <2>16 DEF BillingInv
<1> QED BY <1>6, <1>7

LEMMA CloseStatement ==
  ASSUME BillingInv, NEW p \in DOMAIN ends
  PROVE  [end |-> ends[p], lines |-> Lines(p), booked |-> Booked(Lines(p)),
          adjustments |-> Due(p)] \in Statement
<1>1. entries \in Seq(Entry)  BY DEF BillingInv, TypeOK
<1>2. DOMAIN entries \subseteq Nat  BY <1>1, EntriesTyped
<1>3. ends[p] \in Nat  BY DEF BillingInv, TypeOK
<1>4. Lines(p) \in SUBSET DOMAIN entries /\ Due(p) \in SUBSET DOMAIN entries
  BY DEF Lines, Due, Adjustments
<1>5. Booked(Lines(p)) = BookedIn(entries, Lines(p))
  BY Zenon DEF Booked, BookedIn, Total, TotalIn, OfKind, KindIn
<1>6. Booked(Lines(p)) \in Int  BY <1>1, <1>4, <1>5, BookedTyped
<1> QED BY <1>2, <1>3, <1>4, <1>6 DEF Statement

LEMMA CloseKeeps ==
  ASSUME BillingInv, NEW c \in Caller, NEW at, NEW p, PeriodClose(c, at, p)
  PROVE  BillingInv'
<1> DEFINE x == [end |-> ends[p], lines |-> Lines(p), booked |-> Booked(Lines(p)),
                 adjustments |-> Due(p)]
<1>1. CallsTyped  BY DEF BillingInv, TypeOK, CallsTyped
<1>2. /\ p \in DOMAIN ends /\ p \notin DOMAIN closed /\ ends[p] <= at /\ Advances(at)
      /\ closed' = With(closed, p, x) /\ presented' = presented \cup Due(p)
      /\ last' = at /\ Finishes(c)
      /\ UNCHANGED <<terms, ends, entries, adHoc>>
  BY DEF PeriodClose, ClosesAt
<1>3. CallsTyped' /\ \A d \in Caller : call'[d].step = "resolve" => call'[d] = call[d]
  BY <1>1, <1>2, FinishesTyped
<1>4. at \in Nat /\ last \in Int /\ at > last  BY <1>2, Timely DEF BillingInv
<1>5. /\ x \in Statement /\ x.end = ends[p] /\ x.lines = Lines(p)
      /\ x.adjustments = Due(p) /\ x.booked = Booked(Lines(p))
  BY <1>2, CloseStatement
<1> HIDE DEF x
<1>6. /\ DOMAIN closed' = DOMAIN closed \cup {p} /\ closed'[p] = x
      /\ \A q \in DOMAIN closed : closed'[q] = closed[q]
      /\ closed' = [q \in DOMAIN closed' |-> closed'[q]]
  BY <1>2, WithIs DEF With
<1>7. TypeOK'
  <2>1. DOMAIN closed' \subseteq Period /\ closed' \in [DOMAIN closed' -> Statement]
    BY <1>2, <1>5, <1>6 DEF BillingInv, TypeOK
  <2>2. presented' \subseteq DOMAIN entries
    BY <1>2 DEF BillingInv, TypeOK, Due, Adjustments
  <2> QED BY <1>2, <1>3, <1>4, <2>1, <2>2 DEF BillingInv, TypeOK, CallsTyped
<1>8. TermsInv' /\ EndsInv' /\ PeriodsMeet'
      /\ (\A q : (IsPeriod(q)' <=> IsPeriod(q)) /\ PeriodEnd(q)' = PeriodEnd(q))
  BY <1>2, CalendarKept DEF BillingInv
<1>9. CallInv'  BY <1>3, <1>8 DEF BillingInv, CallInv
<1>10. last' \in Int /\ last <= last'  BY <1>2, <1>4
<1>11. EntriesInv'  BY <1>2, <1>6, <1>8, <1>10, EntriesKept
<1>12. EntriesFallInTheirPeriod'  BY <1>2, <1>8, FallKept
<1>13. ClosedInv'
  <2>1. \A q \in DOMAIN closed : ends[q] \in Nat /\ ends[q] <= last
    BY DEF BillingInv, ClosedInv, TypeOK
  <2>2. \A q \in DOMAIN closed' : ends'[q] <= last'
    BY <1>2, <1>4, <1>6, <2>1
  <2> QED BY <1>2, <1>5, <1>6, <2>2 DEF BillingInv, ClosedInv
<1>14. BilledOnce'
  <2>1. \A q : Lines(q)' = Lines(q) /\ Due(q)' \subseteq Due(q)  BY <1>2, ListsKept
  <2>2. Due(p)' = {}  BY <1>2 DEF Due, Adjustments, IsAdjustment
  <2>3. Due(p) \cap presented = {}  BY DEF Due
  <2>4. \A q \in DOMAIN closed : closed[q].adjustments \cap Due(p) = {}
    BY <2>3 DEF BillingInv, ClosedInv
  <2>5. \A k \in DOMAIN adHoc : Due(p) \cap adHoc[k] = {}
    BY <2>3 DEF BillingInv, ClosedInv
  <2>6. ASSUME NEW q \in DOMAIN closed'
        PROVE  /\ q \in DOMAIN ends' /\ closed'[q].end = ends'[q]
               /\ closed'[q].lines = Lines(q)' /\ Due(q)' = {}
    <3>1. CASE q = p  BY <1>2, <1>5, <1>6, <2>1, <2>2, <3>1
    <3>2. CASE q \in DOMAIN closed
      BY <1>2, <1>6, <2>1, <3>2 DEF BillingInv, BilledOnce
    <3> QED BY <1>6, <3>1, <3>2
  <2>7. ASSUME NEW q \in DOMAIN closed', NEW r \in DOMAIN closed' \ {q}
        PROVE  closed'[q].adjustments \cap closed'[r].adjustments = {}
    <3>1. CASE q = p
      <4>1. r \in DOMAIN closed /\ closed'[q].adjustments = Due(p)
        BY <1>5, <1>6, <3>1
      <4> QED BY <1>6, <2>4, <4>1
    <3>2. CASE r = p
      <4>1. q \in DOMAIN closed /\ closed'[r].adjustments = Due(p)
        BY <1>5, <1>6, <3>2
      <4> QED BY <1>6, <2>4, <4>1
    <3>3. CASE q \in DOMAIN closed /\ r \in DOMAIN closed
      BY <1>6, <3>3 DEF BillingInv, BilledOnce
    <3> QED BY <1>6, <3>1, <3>2, <3>3
  <2>8. ASSUME NEW q \in DOMAIN closed', NEW k \in DOMAIN adHoc
        PROVE  closed'[q].adjustments \cap adHoc[k] = {}
    <3>1. CASE q = p  BY <1>5, <1>6, <2>5, <3>1
    <3>2. CASE q \in DOMAIN closed  BY <1>6, <3>2 DEF BillingInv, BilledOnce
    <3> QED BY <1>6, <3>1, <3>2
  <2>9. \A j, k \in DOMAIN adHoc : j # k => adHoc[j] \cap adHoc[k] = {}
    BY DEF BillingInv, BilledOnce
  <2> QED BY <1>2, <2>6, <2>7, <2>8, <2>9 DEF BilledOnce
<1>15. BookedIsExact'
  <2>1. WellFormed(entries) /\ Exact(entries, closed)
    BY EntriesWell, ReadExact DEF BillingInv
  <2>2. Lines(p) = LinesIn(entries, p)
    BY DEF Lines, LinesIn, IsAdjustment, AdjustsIn
  <2>3. x.booked = BookedIn(entries, LinesIn(entries, p))
    BY Zenon, <1>5, <2>2 DEF Booked, BookedIn, Total, TotalIn, OfKind, KindIn
  <2>4. \A i \in AdjustsIn(entries) : OriginIn(entries, i) # p
    <3>1. \A i \in AdjustsIn(entries) :
            i \in DOMAIN entries /\ IsAdjustment(i) /\ OriginIn(entries, i) = Origin(i)
      BY DEF AdjustsIn, IsAdjustment, OriginIn, Origin, Original
    <3> QED BY <1>2, <3>1 DEF BillingInv, EntriesInv, EntryInv
  <2>5. Exact(entries, With(closed, p, x))  BY <2>1, <2>3, <2>4, ExactClosed
  <2> QED BY <1>2, <2>5, ReadExact
<1> QED BY <1>7, <1>8, <1>9, <1>11, <1>12, <1>13, <1>14, <1>15 DEF BillingInv

LEMMA AdHocKeeps ==
  ASSUME BillingInv, NEW S, NEW at, StatementAdHoc(S, at)
  PROVE  BillingInv'
<1>1. /\ S \subseteq Adjustments \ presented /\ Advances(at)
      /\ adHoc' = Append(adHoc, S) /\ presented' = presented \cup S /\ last' = at
      /\ UNCHANGED <<terms, ends, entries, closed, call>>
  BY DEF StatementAdHoc
<1>2. at \in Nat /\ last \in Int /\ at > last  BY <1>1, Timely DEF BillingInv
<1>3. S \in SUBSET DOMAIN entries /\ S \cap presented = {}
  BY <1>1 DEF Adjustments
<1>k. PICK k : k = Len(adHoc) + 1  OBVIOUS
<1>4. /\ adHoc' \in Seq(SUBSET DOMAIN entries) /\ k \notin DOMAIN adHoc
      /\ DOMAIN adHoc' = DOMAIN adHoc \cup {k} /\ adHoc'[k] = S
      /\ \A j \in DOMAIN adHoc : adHoc'[j] = adHoc[j]
  <2>1. adHoc \in Seq(SUBSET DOMAIN entries)  BY DEF BillingInv, TypeOK
  <2> QED BY <1>1, <1>3, <1>k, <2>1
<1>5. TypeOK'  BY <1>1, <1>2, <1>3, <1>4 DEF BillingInv, TypeOK
<1>6. TermsInv' /\ EndsInv' /\ PeriodsMeet' /\ CallInv'
      /\ (\A q : (IsPeriod(q)' <=> IsPeriod(q)) /\ PeriodEnd(q)' = PeriodEnd(q))
  BY <1>1, CalendarKept, CallsKept DEF BillingInv
<1>7. last' \in Int /\ last <= last'  BY <1>1, <1>2
<1>8. EntriesInv' /\ EntriesFallInTheirPeriod'
  BY <1>1, <1>6, <1>7, EntriesKept, FallKept
<1>9. ClosedInv'
  <2>1. \A q \in DOMAIN closed : ends[q] \in Nat /\ ends[q] <= last
    BY DEF BillingInv, ClosedInv, TypeOK
  <2>2. \A q \in DOMAIN closed : ends[q] <= last'  BY <1>1, <1>2, <2>1
  <2>3. \A j \in DOMAIN adHoc' : adHoc'[j] \subseteq presented'
    BY <1>1, <1>4 DEF BillingInv, ClosedInv
  <2> QED BY <1>1, <2>2, <2>3 DEF BillingInv, ClosedInv
<1>10. BilledOnce'
  <2>1. \A q : Lines(q)' = Lines(q) /\ Due(q)' \subseteq Due(q)  BY <1>1, ListsKept
  <2>2. \A q \in DOMAIN closed : closed[q].adjustments \cap S = {}
    BY <1>3 DEF BillingInv, ClosedInv
  <2>3. \A j \in DOMAIN adHoc : adHoc[j] \cap S = {}
    BY <1>3 DEF BillingInv, ClosedInv
  <2>4. \A q \in DOMAIN closed, j \in DOMAIN adHoc' :
          closed[q].adjustments \cap adHoc'[j] = {}
    BY <1>4, <2>2 DEF BillingInv, BilledOnce
  <2>5. ASSUME NEW i \in DOMAIN adHoc', NEW j \in DOMAIN adHoc', i # j
        PROVE  adHoc'[i] \cap adHoc'[j] = {}
    <3>1. CASE i = k  BY <1>4, <2>3, <2>5, <3>1
    <3>2. CASE j = k  BY <1>4, <2>3, <2>5, <3>2
    <3>3. CASE i \in DOMAIN adHoc /\ j \in DOMAIN adHoc
      BY <1>4, <2>5, <3>3 DEF BillingInv, BilledOnce
    <3> QED BY <1>4, <3>1, <3>2, <3>3
  <2> QED BY <1>1, <2>1, <2>4, <2>5 DEF BillingInv, BilledOnce
<1>11. BookedIsExact'  BY <1>1, ExactKept
<1> QED BY <1>5, <1>6, <1>8, <1>9, <1>10, <1>11 DEF BillingInv

-----------------------------------------------------------------------------
(* The customer's first terms. *)

ChangeIs(change) == /\ change.from \in Nat /\ change.schedule \in Schedule
                    /\ change \in Change

LEMMA ChangeTyped == ASSUME NEW change \in Change PROVE ChangeIs(change)
BY ChangeAssumption DEF ChangeIs

LEMMA TakesTyped ==
  ASSUME NEW change \in Change, NEW from \in Nat
  PROVE  /\ Takes(change, from) \in [change : Change, from : Nat, schedule : Schedule]
         /\ Takes(change, from).from = from
         /\ Takes(change, from).schedule = change.schedule
BY ChangeTyped DEF ChangeIs, Takes

\* Where everything accepted before lies under the first terms.
LEMMA FirstTermsAre ==
  ASSUME BillingInv, NEW change \in Change, NEW at, SetTerms(change, at),
         NEW q, q = Named(1, change.from)
  PROVE  /\ terms = <<>> /\ DOMAIN ends = {} /\ DOMAIN closed = {}
         /\ terms' = <<Takes(change, change.from)>> /\ TermsTyped'
         /\ DOMAIN terms' = {1}
         /\ terms'[1].from = change.from /\ terms'[1].schedule = change.schedule
         /\ IsPeriod(q)' /\ NaturalEnd(q)' = After(change.schedule, change.from)
         /\ DOMAIN ends' = {q} /\ ends'[q] = NaturalEnd(q)'
<1>1. /\ terms = <<>> /\ HasAfter(change.schedule, change.from)
      /\ terms' = <<Takes(change, change.from)>>
      /\ ends' = With(ends, q, After(change.schedule, change.from))
  BY DEF SetTerms
<1>2. change.from \in Nat /\ change.schedule \in Schedule  BY ChangeTyped DEF ChangeIs
<1>3. TermsTyped'  BY <1>1, <1>2, TakesTyped DEF TermsTyped
<1>4. /\ DOMAIN terms' = {1} /\ terms'[1].from = change.from
      /\ terms'[1].schedule = change.schedule
  BY <1>1, <1>2, TakesTyped
<1>5. q.term = 1 /\ q.start = change.from  BY DEF Named
<1>6. change.from \in Starts(change.from, change.schedule)
  BY <1>1, <1>2 DEF Starts
<1>7. IsPeriod(q)'  BY <1>4, <1>5, <1>6 DEF IsPeriod, Periods
<1>8. NaturalEnd(q)' = After(change.schedule, change.from)
  BY <1>4, <1>5 DEF NaturalEnd
<1>9. DOMAIN ends = {} /\ DOMAIN closed = {}  BY <1>1, NotTaken
<1>10. DOMAIN ends' = {q} /\ ends'[q] = After(change.schedule, change.from)
  <2>1. PICK e : e = After(change.schedule, change.from)  BY Zenon
  <2>2. ends' = With(ends, q, e)  BY <1>1, <2>1
  <2>3. DOMAIN ends' = DOMAIN ends \cup {q} /\ ends'[q] = e  BY <2>2 DEF With
  <2> QED BY <1>9, <2>1, <2>3
<1> QED BY <1>1, <1>3, <1>4, <1>7, <1>8, <1>9, <1>10

LEMMA SetTermsKeeps ==
  ASSUME BillingInv, NEW change \in Change, NEW at, SetTerms(change, at)
  PROVE  BillingInv'
<1>q. PICK q : q = Named(1, change.from)  OBVIOUS
<1>1. /\ terms = <<>> /\ DOMAIN ends = {} /\ DOMAIN closed = {}
      /\ terms' # <<>> /\ TermsTyped' /\ DOMAIN terms' = {1}
      /\ terms'[1].from = change.from /\ terms'[1].schedule = change.schedule
      /\ IsPeriod(q)'
      /\ DOMAIN ends' = {q} /\ ends'[q] = NaturalEnd(q)'
      /\ ends' = [z \in DOMAIN ends' |-> ends'[z]]
  BY <1>q, FirstTermsAre DEF SetTerms, With
<1>2. /\ Advances(at) /\ last' = at
      /\ UNCHANGED <<closed, presented, adHoc, call>>
  BY DEF SetTerms
<1>3. PICK start \in [DOMAIN entries -> Starts(change.from, change.schedule)] :
        /\ \A i \in DOMAIN entries :
             Covers(start[i], change.from, change.schedule, entries[i].at)
        /\ entries' = [i \in DOMAIN entries |->
                         [entries[i] EXCEPT !.period = Named(1, start[i])]]
  BY DEF SetTerms
<1>4. change.from \in Nat /\ change.schedule \in Schedule  BY ChangeTyped DEF ChangeIs
<1>5. at \in Nat /\ last \in Int /\ at > last  BY <1>2, Timely DEF BillingInv
<1>6. /\ entries \in Seq(Entry) /\ \A i \in DOMAIN entries : entries[i] \in Entry
  BY EntriesTyped DEF BillingInv, TypeOK
<1>7. \A p : IsPeriod(p)' => p.start \in Nat /\ p \in Period /\ NaturalEnd(p)' \in Nat
                             /\ p # Unassigned
  <2>1. ASSUME NEW p, IsPeriod(p)'  PROVE p = Named(1, p.start)
        /\ p.start \in Starts(change.from, change.schedule)
    <3>1. p.term = 1 /\ p \in Periods(p.term)'  BY <1>1, <2>1 DEF IsPeriod
    <3>2. PICK s \in Starts(change.from, change.schedule) : p = Named(1, s)
      BY <1>1, <3>1 DEF Periods
    <3> QED BY <3>2 DEF Named
  <2>2. \A s \in Starts(change.from, change.schedule) :
          s \in Nat /\ HasAfter(change.schedule, s)
    BY <1>4, ScheduleAssumption DEF Starts
  <2>3. \A s \in Starts(change.from, change.schedule) :
          After(change.schedule, s) \in Nat
    BY <1>4, <2>2, AfterIs
  <2>4. ASSUME NEW p, IsPeriod(p)'
        PROVE  NaturalEnd(p)' = After(change.schedule, p.start)
    BY <1>1, <2>4 DEF IsPeriod, NaturalEnd
  <2>5. \A s \in Nat : Named(1, s) \in Period /\ Named(1, s) # Unassigned
    BY DEF Named, Period, Unassigned
  <2> QED BY <2>1, <2>2, <2>3, <2>4, <2>5
<1>8. /\ DOMAIN entries' = DOMAIN entries
      /\ \A i \in DOMAIN entries :
           /\ entries'[i] \in Entry /\ entries'[i].period = Named(1, start[i])
           /\ entries'[i].of = entries[i].of /\ entries'[i].kind = entries[i].kind
           /\ entries'[i].at = entries[i].at /\ entries'[i].basis = entries[i].basis
           /\ IsPeriod(Named(1, start[i]))' /\ Named(1, start[i]).start = start[i]
           /\ NaturalEnd(Named(1, start[i]))' = After(change.schedule, start[i])
  <2>1. DOMAIN entries' = DOMAIN entries  BY <1>3
  <2>2. ASSUME NEW i \in DOMAIN entries, NEW p, p = Named(1, start[i])
        PROVE  /\ entries'[i] \in Entry /\ entries'[i].period = p
               /\ entries'[i].of = entries[i].of /\ entries'[i].kind = entries[i].kind
               /\ entries'[i].at = entries[i].at /\ entries'[i].basis = entries[i].basis
               /\ IsPeriod(p)' /\ p.start = start[i]
               /\ NaturalEnd(p)' = After(change.schedule, start[i])
    <3>1. start[i] \in Starts(change.from, change.schedule)  BY <1>3
    <3>2. p.term = 1 /\ p.start = start[i]  BY <2>2 DEF Named
    <3>3. p \in {Named(1, s) : s \in Starts(change.from, change.schedule)}
      BY <2>2, <3>1
    <3>4. IsPeriod(p)'  BY <1>1, <3>2, <3>3 DEF IsPeriod, Periods
    <3>5. p \in Period  BY <1>7, <3>4
    <3>6. entries'[i] = [entries[i] EXCEPT !.period = p]  BY <1>3, <2>2
    <3>7. entries[i] \in Entry  BY <1>6
    <3>8. /\ entries'[i] \in Entry /\ entries'[i].period = p
          /\ entries'[i].of = entries[i].of /\ entries'[i].kind = entries[i].kind
          /\ entries'[i].at = entries[i].at /\ entries'[i].basis = entries[i].basis
      BY <3>5, <3>6, <3>7 DEF Entry
    <3>9. NaturalEnd(p)' = After(change.schedule, start[i])
      BY <1>1, <3>2 DEF NaturalEnd
    <3> QED BY <3>2, <3>4, <3>8, <3>9
  <2> QED BY <2>1, <2>2
<1>9. entries' \in Seq(Entry)
  <2>1. Len(entries) \in Nat /\ DOMAIN entries = 1..Len(entries)
    BY <1>6, EntriesTyped
  <2>2. entries' = [i \in 1..Len(entries) |-> entries'[i]]  BY <1>3, <2>1
  <2> QED BY <1>8, <2>1, <2>2
<1>10. TypeOK'
  <2>1. DOMAIN ends' \subseteq Period /\ ends' \in [DOMAIN ends' -> Nat]
    BY <1>1, <1>7
  <2> QED BY <1>1, <1>2, <1>5, <1>8, <1>9, <2>1 DEF BillingInv, TypeOK, TermsTyped
<1>11. TermsInv'  BY <1>1 DEF TermsInv
<1>12. EndsInv'  BY <1>1 DEF EndsInv
<1>13. CallInv'
  <2>1. DOMAIN terms = {}  BY <1>1
  <2>2. \A c \in Caller : call[c].step # "resolve"
    BY <2>1 DEF BillingInv, CallInv, IsPeriod
  <2> QED BY <1>2, <2>2 DEF CallInv
<1>14. PeriodsMeet'
  <2>1. Len(terms') = 1  BY DEF SetTerms
  <2> QED BY <1>1, <2>1 DEF PeriodsMeet, Version
<1>15. \A i \in DOMAIN entries : EntryInv(i) /\ entries[i].basis = "acceptance-time"
  BY <1>1 DEF BillingInv, EntriesInv, EntryInv
<1>16. EntriesInv'
  <2>1. \A i \in DOMAIN entries : ~IsAdjustment(i)'
    BY <1>8, <1>15 DEF IsAdjustment
  <2>2. ASSUME NEW i \in DOMAIN entries  PROVE EntryInv(i)'
    <3>1. entries[i].at \in Int  BY <1>6, FieldsTyped
    <3>2. entries'[i].at <= last'  BY <1>2, <1>5, <1>8, <1>15, <3>1 DEF EntryInv
    <3>3. PICK p : p = Named(1, start[i])  OBVIOUS
    <3>4. entries'[i].period = p /\ IsPeriod(p)'  BY <1>8, <3>3
    <3>5. IsPeriod(entries[i].period)'  BY <3>4 DEF IsPeriod, Periods
    <3> QED BY <1>1, <1>8, <1>15, <2>1, <3>2, <3>5 DEF EntryInv
  <2> QED BY <1>8, <2>2 DEF EntriesInv
<1>17. EntriesFallInTheirPeriod'
  <2>1. \A p : IsPeriod(p)' => PeriodEnd(p)' = NaturalEnd(p)'
    BY <1>1 DEF PeriodEnd
  <2>2. ASSUME NEW i \in DOMAIN entries, NEW p, p = Named(1, start[i])
        PROVE  /\ entries'[i].period = p /\ p # Unassigned
               /\ entries'[i].basis # "linked-open-period"
               /\ p.start <= entries'[i].at /\ entries'[i].at < PeriodEnd(p)'
    <3>1. Covers(start[i], change.from, change.schedule, entries[i].at)  BY <1>3
    <3>2. start[i] <= entries[i].at /\ entries[i].at < After(change.schedule, start[i])
      BY <3>1 DEF Covers
    <3>3. /\ IsPeriod(p)' /\ p.start = start[i] /\ entries'[i].period = p
          /\ NaturalEnd(p)' = After(change.schedule, start[i])
          /\ entries'[i].at = entries[i].at /\ entries'[i].basis = entries[i].basis
      BY <1>8, <2>2
    <3> QED BY <1>7, <1>15, <2>1, <3>2, <3>3
  <2>3. \A i \in DOMAIN entries' : LET p == entries'[i].period IN
          /\ p # Unassigned /\ entries'[i].basis # "linked-open-period"
          /\ p.start <= entries'[i].at
          /\ \A z : z = p => entries'[i].at < PeriodEnd(z)'
    BY <1>8, <2>2
  <2> QED BY <1>1, <2>3 DEF EntriesFallInTheirPeriod
<1>18. ClosedInv' /\ BilledOnce'
  BY <1>1, <1>2 DEF BillingInv, ClosedInv, BilledOnce
<1>19. BookedIsExact'  BY <1>1, <1>2 DEF BookedIsExact
<1> QED BY <1>10, <1>11, <1>12, <1>13, <1>14, <1>16, <1>17, <1>18, <1>19 DEF BillingInv

-----------------------------------------------------------------------------
(* Terms that replace others. *)

\* From the end of the current period p, or at once and clipping it.
Installed(p, change, from, at) ==
  /\ p.term = Len(terms) /\ from \in Nat
  /\ p.start < from /\ from <= NaturalEnd(p)
  /\ HasAfter(change.schedule, from)
  /\ terms' = Append(terms, Takes(change, from))
  /\ LET q == Named(Len(terms) + 1, from)
         end == After(change.schedule, from)
     IN \/ from = NaturalEnd(p) /\ ends' = With(ends, q, end)
        \/ /\ from = at /\ p \in DOMAIN ends /\ ends[p] = NaturalEnd(p)
           /\ from < NaturalEnd(p)
           /\ ends' = With(With(ends, p, from), q, end)

LEMMA ReplacesLast ==
  ASSUME BillingInv, NEW change, NEW at \in Nat, NEW p, IsPeriod(p),
         Replaces(change, at, p)
  PROVE  p.term = Len(terms) /\ p.start <= at /\ at < NaturalEnd(p)
<1> DEFINE n == Len(terms)
<1>1. TermsTyped  BY DEF BillingInv, TypeOK, TermsTyped
<1>2. p.term \in DOMAIN terms /\ p.term \in Nat  BY <1>1, PeriodFacts
<1>3. n \in DOMAIN terms /\ n \in Nat /\ p.term <= n
  BY <1>1, <1>2 DEF TermsTyped
<1>4. /\ \A v \in DOMAIN terms : terms[v].from <= at
      /\ \A v \in DOMAIN terms : terms[v].from <= at =>
           \/ terms[v].from < terms[p.term].from
           \/ terms[v].from = terms[p.term].from /\ v <= p.term
  BY DEF Replaces, Version, Current
<1>5. terms[n].from \in Nat /\ terms[p.term].from \in Nat  BY <1>1, <1>2, <1>3, TermFacts
<1> HIDE DEF n
<1>6. p.term < n => terms[p.term].from < terms[n].from
  BY <1>2, <1>3 DEF BillingInv, TermsInv
<1>7. p.term = n  BY <1>2, <1>3, <1>4, <1>5, <1>6
<1>8. p.start <= at /\ at < NaturalEnd(p)
  BY DEF Replaces, Holds, Covers, NaturalEnd
<1> QED BY <1>7, <1>8 DEF n

LEMMA TransitionsInstall ==
  ASSUME BillingInv, NEW c \in Caller, NEW change \in Change, NEW at, NEW p, IsPeriod(p),
         Replaces(change, at, p),
         TransitionNext(c, change, at, p) \/ TransitionNow(c, change, at, p)
  PROVE  /\ \E from : Installed(p, change, from, at)
         /\ Advances(at) /\ last' = at /\ Finishes(c)
         /\ UNCHANGED <<entries, closed, presented, adHoc>>
<1>1. /\ Advances(at) /\ last' = at /\ Finishes(c)
      /\ UNCHANGED <<entries, closed, presented, adHoc>>
  BY DEF TransitionNext, TransitionNow
<1>2. at \in Nat  BY <1>1, Timely DEF BillingInv
<1>3. p.term = Len(terms) /\ p.start <= at /\ at < NaturalEnd(p)
  BY <1>2, ReplacesLast
<1>4. NaturalEnd(p) \in Nat /\ NaturalEnd(p) > p.start /\ p.start \in Nat
  BY PeriodFacts DEF BillingInv, TypeOK, TermsTyped
<1>5. CASE TransitionNext(c, change, at, p)
  <2>1. Installed(p, change, NaturalEnd(p), at)
    BY <1>3, <1>4, <1>5 DEF TransitionNext, Installs, Installed
  <2> QED BY <1>1, <2>1
<1>6. CASE TransitionNow(c, change, at, p)
  <2>1. Installed(p, change, at, at)
    BY <1>2, <1>3, <1>4, <1>6 DEF TransitionNow, Clips, Installs, Installed
  <2> QED BY <1>1, <2>1
<1> QED BY <1>5, <1>6

\* The terms that were there keep their periods; q is the first of the new ones.
TermsHave(change, from, p, n, q) ==
  /\ n \in Nat /\ n + 1 \notin DOMAIN terms /\ TermsTyped' /\ Len(terms') = n + 1
  /\ n \in DOMAIN terms /\ p.term = n
  /\ DOMAIN terms' = DOMAIN terms \cup {n + 1}
  /\ \A v \in DOMAIN terms : terms'[v] = terms[v] /\ v \in Nat /\ v <= n
  /\ terms'[n + 1].from = from /\ from \in Nat
  /\ \A r : IsPeriod(r) => /\ IsPeriod(r)' /\ NaturalEnd(r)' = NaturalEnd(r)
                           /\ r # q
  /\ \A r : IsPeriod(r)' /\ r.term \in DOMAIN terms => IsPeriod(r)
  /\ IsPeriod(q)' /\ q.term = n + 1 /\ q \in Period
  /\ NaturalEnd(q)' = After(change.schedule, from) /\ NaturalEnd(q)' \in Nat

LEMMA TermsGrown ==
  ASSUME TermsTyped, NEW change \in Change, NEW from, NEW at, NEW p, IsPeriod(p),
         Installed(p, change, from, at),
         NEW n, n = Len(terms), NEW q, q = Named(n + 1, from)
  PROVE  TermsHave(change, from, p, n, q)
<1>. USE DEF TermsHave
<1> DEFINE new == Takes(change, from)
           R == [change : Change, from : Nat, schedule : Schedule]
<1>1. /\ from \in Nat /\ HasAfter(change.schedule, from)
      /\ terms' = Append(terms, new) /\ p.term = n
  BY DEF Installed
<1>2. new \in R /\ new.from = from /\ new.schedule = change.schedule
  BY <1>1, TakesTyped
<1>3. terms \in Seq(R)  BY DEF TermsTyped
<1> HIDE DEF R, new
<1>4. /\ terms' \in Seq(R) /\ Len(terms') = n + 1 /\ n \in Nat
      /\ DOMAIN terms' = DOMAIN terms \cup {n + 1} /\ n + 1 \notin DOMAIN terms
      /\ terms'[n + 1] = new
      /\ \A v \in DOMAIN terms : terms'[v] = terms[v] /\ v \in Nat /\ v <= n
  BY <1>1, <1>2, <1>3
<1>5. TermsTyped'  BY <1>4 DEF TermsTyped, R
<1>6. n \in DOMAIN terms  BY <1>1 DEF IsPeriod
<1>7. q.term = n + 1 /\ q.start = from  BY DEF Named
<1>8. \A r : IsPeriod(r) => /\ IsPeriod(r)' /\ NaturalEnd(r)' = NaturalEnd(r) /\ r # q
  BY <1>4, <1>7 DEF IsPeriod, Periods, NaturalEnd
<1>9. \A r : IsPeriod(r)' /\ r.term \in DOMAIN terms => IsPeriod(r)
  BY <1>4 DEF IsPeriod, Periods
<1>10. change.schedule \in Schedule /\ change.schedule \subseteq Nat
  BY ChangeTyped, ScheduleAssumption DEF ChangeIs
<1>11. from \in Starts(from, change.schedule)  BY <1>1 DEF Starts
<1>12. IsPeriod(q)'
  <2>1. q \in {Named(n + 1, s) : s \in Starts(from, change.schedule)}  BY <1>11
  <2> QED BY <1>2, <1>4, <1>7, <2>1 DEF IsPeriod, Periods
<1>13. NaturalEnd(q)' = After(change.schedule, from)
  BY <1>2, <1>4, <1>7 DEF NaturalEnd
<1>14. After(change.schedule, from) \in Nat  BY <1>1, <1>10, AfterIs
<1>15. q \in Period  BY <1>1, <1>4 DEF Named, Period
<1> QED BY <1>1, <1>2, <1>4, <1>5, <1>6, <1>7, <1>8, <1>9, <1>12, <1>13, <1>14, <1>15

\* Only the current period's end changes, and only where it is clipped.
EndsHave(from, at, p, q) ==
  /\ DOMAIN ends' = DOMAIN ends \cup {q} /\ q \notin DOMAIN ends
  /\ ends'[q] = NaturalEnd(q)'
  /\ ends' = [r \in DOMAIN ends' |-> ends'[r]]
  /\ \A r \in DOMAIN ends : r # p => ends'[r] = ends[r]
  /\ p \in DOMAIN ends => \/ ends'[p] = ends[p]
                          \/ /\ ends'[p] = from /\ from = at
                             /\ ends[p] = NaturalEnd(p) /\ from < NaturalEnd(p)
  /\ p \notin DOMAIN ends \/ ends'[p] = ends[p] => from = NaturalEnd(p)

LEMMA EndsGrown ==
  ASSUME TermsTyped, EndsInv, NEW change \in Change, NEW from, NEW at, NEW p, IsPeriod(p),
         Installed(p, change, from, at),
         NEW n, n = Len(terms), NEW q, q = Named(n + 1, from)
  PROVE  EndsHave(from, at, p, q)
<1>. USE DEF EndsHave
<1>t. TermsHave(change, from, p, n, q)  BY TermsGrown
<1>1. /\ \A r : IsPeriod(r) => r # q
      /\ NaturalEnd(q)' = After(change.schedule, from)
  BY <1>t DEF TermsHave
<1>2. q \notin DOMAIN ends /\ p # q  BY <1>1 DEF EndsInv
<1>3. PICK end : end = After(change.schedule, from)  BY Zenon
<1>4. \/ from = NaturalEnd(p) /\ ends' = With(ends, q, end)
      \/ /\ from = at /\ p \in DOMAIN ends /\ ends[p] = NaturalEnd(p)
         /\ from < NaturalEnd(p)
         /\ ends' = With(With(ends, p, from), q, end)
  BY <1>3 DEF Installed
<1>5. CASE from = NaturalEnd(p) /\ ends' = With(ends, q, end)
  <2>1. /\ DOMAIN ends' = DOMAIN ends \cup {q} /\ ends'[q] = end
        /\ ends' = [r \in DOMAIN ends' |-> ends'[r]]
        /\ \A r \in DOMAIN ends : ends'[r] = ends[r]
    BY <1>2, <1>5 DEF With
  <2> QED BY <1>1, <1>2, <1>3, <1>5, <2>1
<1>6. CASE /\ from = at /\ p \in DOMAIN ends /\ ends[p] = NaturalEnd(p)
           /\ from < NaturalEnd(p)
           /\ ends' = With(With(ends, p, from), q, end)
  <2>1. PICK mid : mid = With(ends, p, from)  OBVIOUS
  <2>2. /\ DOMAIN mid = DOMAIN ends /\ mid[p] = from
        /\ \A r \in DOMAIN ends : r # p => mid[r] = ends[r]
    BY <1>6, <2>1 DEF With
  <2>3. /\ DOMAIN ends' = DOMAIN mid \cup {q} /\ ends'[q] = end
        /\ ends' = [r \in DOMAIN ends' |-> ends'[r]]
        /\ \A r \in DOMAIN mid : r # q => ends'[r] = mid[r]
    BY <1>6, <2>1 DEF With
  <2>4. ends'[p] = from /\ \A r \in DOMAIN ends : r # p => ends'[r] = ends[r]
    BY <1>2, <1>6, <2>2, <2>3
  <2>5. NaturalEnd(p) \in Nat /\ from \in Nat  BY PeriodFacts DEF Installed
  <2>6. ends'[p] # ends[p]  BY <1>6, <2>4, <2>5
  <2> QED BY <1>1, <1>2, <1>3, <1>6, <2>2, <2>3, <2>4, <2>6
<1> QED BY <1>4, <1>5, <1>6

LEMMA InstalledCalendar ==
  ASSUME BillingInv, NEW change \in Change, NEW from, NEW at, NEW p, IsPeriod(p),
         Installed(p, change, from, at), TermsTyped,
         NEW n, n = Len(terms), NEW q, q = Named(n + 1, from)
  PROVE  TermsInv' /\ EndsInv' /\ PeriodsMeet'
<1>t. TermsHave(change, from, p, n, q)  BY TermsGrown
<1>e. EndsHave(from, at, p, q)  BY EndsGrown DEF BillingInv
<1>1. /\ n \in Nat /\ n + 1 \notin DOMAIN terms /\ Len(terms') = n + 1
      /\ n \in DOMAIN terms /\ p.term = n
      /\ DOMAIN terms' = DOMAIN terms \cup {n + 1}
      /\ \A v \in DOMAIN terms : terms'[v] = terms[v] /\ v \in Nat /\ v <= n
      /\ terms'[n + 1].from = from /\ from \in Nat
  BY <1>t DEF TermsHave
<1>2. /\ \A r : IsPeriod(r) => IsPeriod(r)' /\ NaturalEnd(r)' = NaturalEnd(r) /\ r # q
      /\ \A r : IsPeriod(r)' /\ r.term \in DOMAIN terms => IsPeriod(r)
      /\ IsPeriod(q)' /\ q.term = n + 1 /\ NaturalEnd(q)' \in Nat
  BY <1>t DEF TermsHave
<1>3. /\ DOMAIN ends' = DOMAIN ends \cup {q} /\ q \notin DOMAIN ends
      /\ ends'[q] = NaturalEnd(q)'
      /\ \A r \in DOMAIN ends : r # p => ends'[r] = ends[r]
      /\ p \in DOMAIN ends => \/ ends'[p] = ends[p]
                              \/ /\ ends'[p] = from /\ from = at
                                 /\ ends[p] = NaturalEnd(p) /\ from < NaturalEnd(p)
      /\ p \notin DOMAIN ends \/ ends'[p] = ends[p] => from = NaturalEnd(p)
  BY <1>e DEF EndsHave
<1>4. p.start < from /\ from <= NaturalEnd(p)  BY DEF Installed
<1>5. p.start \in Nat /\ p.start >= terms[n].from /\ NaturalEnd(p) \in Nat
      /\ terms[n].from \in Nat
  BY <1>1, PeriodFacts, TermFacts
<1>6. TermsInv'
  <2>1. \A v \in DOMAIN terms : terms[v].from \in Nat  BY TermFacts
  <2>2. \A v \in DOMAIN terms : v < n => terms[v].from < terms[n].from
    BY <1>1 DEF BillingInv, TermsInv
  <2>3. \A v \in DOMAIN terms : terms[v].from < from
    <3> SUFFICES ASSUME NEW v \in DOMAIN terms PROVE terms[v].from < from  OBVIOUS
    <3>1. v = n \/ v < n  BY <1>1
    <3>2. terms[v].from \in Nat /\ terms[v].from <= terms[n].from
      BY <1>5, <2>1, <2>2, <3>1
    <3> QED BY <1>1, <1>4, <1>5, <3>2
  <2>4. ASSUME NEW v \in DOMAIN terms', NEW w \in DOMAIN terms', v < w
        PROVE  terms'[v].from < terms'[w].from
    <3>1. v \in DOMAIN terms  BY <1>1, <2>4
    <3>2. CASE w = n + 1  BY <1>1, <2>3, <3>1, <3>2
    <3>3. CASE w \in DOMAIN terms
      BY <1>1, <2>4, <3>1, <3>3 DEF BillingInv, TermsInv
    <3> QED BY <1>1, <3>2, <3>3
  <2> QED BY <2>4 DEF TermsInv
<1>7. EndsInv'
  <2>1. \A r : Clipped(r)' <=> /\ r.term + 1 \in DOMAIN terms'
                               /\ ends'[r] = terms'[r.term + 1].from
                               /\ ends'[r] < NaturalEnd(r)'
    BY DEF Clipped
  <2>2. ASSUME NEW r \in DOMAIN ends'
        PROVE  IsPeriod(r)' /\ (ends'[r] = NaturalEnd(r)' \/ Clipped(r)')
    <3>1. CASE r = q  BY <1>2, <1>3, <3>1
    <3>2. CASE r \in DOMAIN ends /\ ends'[r] = ends[r]
      <4>1. IsPeriod(r) /\ (ends[r] = NaturalEnd(r) \/ Clipped(r))
        BY <3>2 DEF BillingInv, EndsInv
      <4> QED BY <1>1, <1>2, <2>1, <3>2, <4>1 DEF Clipped
    <3>3. CASE r = p /\ ends'[p] = from /\ from < NaturalEnd(p)
      BY <1>1, <1>2, <2>1, <3>3
    <3> QED BY <1>3, <3>1, <3>2, <3>3
  <2> QED BY <2>2 DEF EndsInv
<1>8. PeriodsMeet'
  <2>1. ASSUME NEW v \in DOMAIN terms', NEW r \in Periods(v)', v < Len(terms'),
               r.start < terms'[v + 1].from
        PROVE  /\ PeriodEnd(r)' <= terms'[v + 1].from
               /\ NaturalEnd(r)' >= terms'[v + 1].from => PeriodEnd(r)' = terms'[v + 1].from
    <3>1. v \in DOMAIN terms /\ v \in Nat /\ v <= n  BY <1>1, <2>1
    <3>2. r.term = v /\ r \in Periods(v)
      BY <1>1, <2>1, <3>1 DEF Periods, Named
    <3>3. IsPeriod(r)  BY <3>1, <3>2 DEF IsPeriod
    <3>4. NaturalEnd(r)' = NaturalEnd(r) /\ r # q  BY <1>2, <3>3
    <3>5. /\ r.start \in Nat /\ NaturalEnd(r) \in Nat /\ NaturalEnd(r) > r.start
          /\ \A b \in terms[v].schedule : b > r.start => NaturalEnd(r) <= b
      BY <3>2, <3>3, PeriodFacts
    <3>6. CASE v < n
      <4>1. v + 1 \in DOMAIN terms  BY <1>1, <3>1, <3>6, TermFacts DEF TermsTyped
      <4>2. r # p  BY <1>1, <3>2, <3>6
      <4>3. PeriodEnd(r)' = PeriodEnd(r)
        BY <1>3, <3>4, <4>2 DEF PeriodEnd
      <4>4. terms'[v + 1] = terms[v + 1]  BY <1>1, <4>1
      <4>5. v \in Version /\ v < Len(terms) /\ r.start < terms[v + 1].from
        BY <2>1, <3>1, <3>6, <4>4 DEF Version
      <4>6. /\ PeriodEnd(r) <= terms[v + 1].from
            /\ NaturalEnd(r) >= terms[v + 1].from => PeriodEnd(r) = terms[v + 1].from
        BY <3>2, <4>5 DEF BillingInv, PeriodsMeet
      <4> QED BY <3>4, <4>3, <4>4, <4>6
    <3>7. CASE v = n
      <4>1. terms'[v + 1].from = from /\ r.start < from  BY <1>1, <2>1, <3>7
      <4>2. ~Clipped(r)  BY <1>1, <3>2, <3>7 DEF Clipped
      <4>3. PeriodEnd(r) = NaturalEnd(r)
        BY <4>2 DEF BillingInv, EndsInv, PeriodEnd
      <4>4. CASE r # p
        <5>1. PeriodEnd(r)' = NaturalEnd(r)
          BY <1>3, <3>4, <4>3, <4>4 DEF PeriodEnd
        <5>2. r = p \/ NaturalEnd(r) <= p.start \/ NaturalEnd(p) <= r.start
          BY <1>1, <3>2, <3>3, <3>7, PeriodsApart
        <5>3. NaturalEnd(r) < from
          BY <1>1, <1>4, <1>5, <3>5, <4>1, <4>4, <5>2
        <5> QED BY <1>1, <3>4, <3>5, <4>1, <5>1, <5>3
      <4>5. CASE r = p
        <5>1. CASE p \in DOMAIN ends /\ ends'[p] = from
          <6>1. PeriodEnd(r)' = from  BY <1>3, <4>5, <5>1 DEF PeriodEnd
          <6> QED BY <1>1, <4>1, <6>1
        <5>2. CASE ~(p \in DOMAIN ends /\ ends'[p] = from)
          <6>1. from = NaturalEnd(p) /\ (p \in DOMAIN ends => ends'[p] = ends[p])
            BY <1>3, <5>2
          <6>2. PeriodEnd(r)' = NaturalEnd(r)
            BY <1>3, <3>4, <4>3, <4>5, <6>1 DEF PeriodEnd
          <6> QED BY <1>1, <4>1, <4>5, <6>1, <6>2
        <5> QED BY <5>1, <5>2
      <4> QED BY <4>4, <4>5
    <3> QED BY <1>1, <3>1, <3>6, <3>7
  <2> QED BY <2>1 DEF PeriodsMeet, Version
<1> QED BY <1>6, <1>7, <1>8

LEMMA TransitionKeeps ==
  ASSUME BillingInv, NEW c \in Caller, NEW change \in Change, NEW at, NEW p, IsPeriod(p),
         Replaces(change, at, p),
         TransitionNext(c, change, at, p) \/ TransitionNow(c, change, at, p)
  PROVE  BillingInv'
<1>1. /\ Advances(at) /\ last' = at /\ Finishes(c)
      /\ UNCHANGED <<entries, closed, presented, adHoc>>
  BY TransitionsInstall
<1>2. PICK from : Installed(p, change, from, at)  BY TransitionsInstall
<1>3. TermsTyped /\ CallsTyped  BY DEF BillingInv, TypeOK, TermsTyped, CallsTyped
<1>4. PICK n : n = Len(terms)  OBVIOUS
<1>5. PICK q : q = Named(n + 1, from)  OBVIOUS
<1>t. TermsHave(change, from, p, n, q)  BY <1>2, <1>3, <1>4, <1>5, TermsGrown
<1>e. EndsHave(from, at, p, q)  BY <1>2, <1>3, <1>4, <1>5, EndsGrown DEF BillingInv
<1>6. at \in Nat /\ last \in Int /\ at > last  BY <1>1, Timely DEF BillingInv
<1>7. /\ TermsTyped' /\ terms # <<>> /\ terms' # <<>>
      /\ \A r : IsPeriod(r) => IsPeriod(r)' /\ NaturalEnd(r)' = NaturalEnd(r) /\ r # q
      /\ q \in Period /\ NaturalEnd(q)' \in Nat /\ from \in Nat
  <2>1. /\ TermsTyped' /\ n \in DOMAIN terms /\ n \in DOMAIN terms'
        /\ \A r : IsPeriod(r) => IsPeriod(r)' /\ NaturalEnd(r)' = NaturalEnd(r) /\ r # q
        /\ q \in Period /\ NaturalEnd(q)' \in Nat /\ from \in Nat
    BY <1>t DEF TermsHave
  <2> QED BY <2>1
<1>8. /\ DOMAIN ends' = DOMAIN ends \cup {q} /\ q \notin DOMAIN ends
      /\ ends'[q] = NaturalEnd(q)'
      /\ ends' = [r \in DOMAIN ends' |-> ends'[r]]
      /\ \A r \in DOMAIN ends : r # p => ends'[r] = ends[r]
      /\ p \in DOMAIN ends => \/ ends'[p] = ends[p]
                              \/ /\ ends'[p] = from /\ from = at
                                 /\ ends[p] = NaturalEnd(p) /\ from < NaturalEnd(p)
  BY <1>e DEF EndsHave
<1>9. CallsTyped' /\ \A d \in Caller : call'[d].step = "resolve" => call'[d] = call[d]
  BY <1>1, <1>3, FinishesTyped
<1>10. TypeOK'
  <2>1. \A r \in DOMAIN ends' : ends'[r] \in Nat
    BY <1>7, <1>8 DEF BillingInv, TypeOK
  <2>2. DOMAIN ends' \subseteq Period /\ ends' \in [DOMAIN ends' -> Nat]
    BY <1>7, <1>8, <2>1 DEF BillingInv, TypeOK
  <2> QED BY <1>1, <1>6, <1>7, <1>9, <2>2 DEF BillingInv, TypeOK, TermsTyped, CallsTyped
<1>11. TermsInv' /\ EndsInv' /\ PeriodsMeet'
  BY <1>2, <1>3, <1>4, <1>5, InstalledCalendar
<1>12. CallInv'  BY <1>7, <1>9 DEF BillingInv, CallInv
<1>13. last' \in Int /\ last <= last'  BY <1>1, <1>6
<1>14. EntriesInv'  BY <1>1, <1>7, <1>13, EntriesKept
<1>15. EntriesFallInTheirPeriod'
  <2>1. ASSUME NEW i \in DOMAIN entries, NEW r, r = entries[i].period, IsPeriod(r)
        PROVE  PeriodEnd(r)' = PeriodEnd(r) \/ entries[i].at < PeriodEnd(r)'
    <3>1. entries[i].at \in Nat /\ entries[i].at <= last
      BY EntriesTyped, FieldsTyped DEF BillingInv, TypeOK, EntriesInv, EntryInv
    <3>2. CASE r \notin DOMAIN ends \/ ends'[r] = ends[r]
      <4>1. r # q /\ NaturalEnd(r)' = NaturalEnd(r)  BY <1>7, <2>1
      <4> QED BY <1>8, <3>2, <4>1 DEF PeriodEnd
    <3>3. CASE r \in DOMAIN ends /\ ends'[r] = at
      <4>1. PeriodEnd(r)' = at  BY <1>8, <3>3 DEF PeriodEnd
      <4> QED BY <1>6, <3>1, <4>1
    <3> QED BY <1>8, <3>2, <3>3
  <2>2. \A i \in DOMAIN entries : IsPeriod(entries[i].period) =>
           \/ PeriodEnd(entries[i].period)' = PeriodEnd(entries[i].period)
           \/ entries[i].at < PeriodEnd(entries[i].period)'
    <3> SUFFICES ASSUME NEW i \in DOMAIN entries, IsPeriod(entries[i].period)
                 PROVE  \/ PeriodEnd(entries[i].period)' = PeriodEnd(entries[i].period)
                        \/ entries[i].at < PeriodEnd(entries[i].period)'
      OBVIOUS
    <3>1. PICK r : r = entries[i].period  OBVIOUS
    <3>2. PeriodEnd(r)' = PeriodEnd(entries[i].period)'
      BY <1>1, <3>1 DEF PeriodEnd, NaturalEnd
    <3> QED BY <2>1, <3>1, <3>2
  <2> QED BY <1>1, <1>7, <2>2, FallKept
<1>16. ClosedInv' /\ BilledOnce'
  <2>1. ASSUME NEW r \in DOMAIN closed  PROVE r \in DOMAIN ends' /\ ends'[r] = ends[r]
    <3>1. r \in DOMAIN ends /\ ends[r] <= last /\ ends[r] \in Nat
      BY DEF BillingInv, ClosedInv, TypeOK
    <3>2. ~(from = at /\ ends[r] = NaturalEnd(p) /\ from < NaturalEnd(p))
      BY <1>6, <3>1
    <3> QED BY <1>8, <3>1, <3>2
  <2> QED BY <1>1, <1>13, <2>1, BilledKept
<1>17. BookedIsExact'  BY <1>1, ExactKept
<1> QED BY <1>10, <1>11, <1>12, <1>14, <1>15, <1>16, <1>17 DEF BillingInv

-----------------------------------------------------------------------------
(* The invariant is inductive. *)

LEMMA BillingInit == Init => BillingInv
<1> SUFFICES ASSUME Init PROVE BillingInv  OBVIOUS
<1>1. /\ last = -1 /\ terms = <<>> /\ entries = <<>>
      /\ DOMAIN ends = {} /\ DOMAIN closed = {}
      /\ ends = [p \in {} |-> 0] /\ closed = [p \in {} |-> 0]
      /\ presented = {} /\ adHoc = <<>>
      /\ call = [c \in Caller |-> Idle]
  BY DEF Init
<1>2. DOMAIN terms = {} /\ DOMAIN entries = {} /\ DOMAIN adHoc = {} /\ Len(terms) = 0
  BY <1>1
<1>3. TypeOK
  <2>1. ends \in [DOMAIN ends -> Nat] /\ closed \in [DOMAIN closed -> Statement]
    BY <1>1
  <2>2. call \in [Caller -> [step : Step, change : Change \cup {NoChange},
                             period : Period, at : Nat]]
    BY <1>1, IdleTyped
  <2> QED BY <1>1, <2>1, <2>2 DEF TypeOK
<1>4. TermsInv /\ EndsInv  BY <1>1, <1>2 DEF TermsInv, EndsInv
<1>5. CallInv  BY <1>1, IdleTyped DEF CallInv
<1>6. EntriesInv /\ EntriesFallInTheirPeriod
  BY <1>2 DEF EntriesInv, EntriesFallInTheirPeriod
<1>7. ClosedInv /\ BilledOnce  BY <1>1, <1>2 DEF ClosedInv, BilledOnce
<1>8. PeriodsMeet  BY <1>2 DEF PeriodsMeet, Version
<1>9. BookedIsExact  BY <1>1 DEF BookedIsExact
<1> QED BY <1>3, <1>4, <1>5, <1>6, <1>7, <1>8, <1>9 DEF BillingInv

LEMMA ListedPeriods ==
  ASSUME NEW p \in AllPeriods PROVE IsPeriod(p)
<1>1. PICK v \in DOMAIN terms : p \in Periods(v)  BY DEF AllPeriods, Version
<1>2. p.term = v  BY <1>1 DEF Periods, Named
<1> QED BY <1>1, <1>2 DEF IsPeriod

LEMMA DoesKeeps ==
  ASSUME BillingInv, NEW at, Does(at)
  PROVE  BillingInv'
<1>1. CASE \E kind \in Kind, n \in Quantity : AcceptUnassigned(kind, n, at)
  <2>1. Records(at)  BY <1>1, AcceptFits
  <2> QED BY <2>1, RecordsKeeps
<1>2. CASE \E i \in DOMAIN entries, n \in Delta :
             CorrectUnassigned(i, n, at) \/ CorrectOpen(i, n, at)
  <2>1. Records(at)  BY <1>2, CorrectUnassignedFits, CorrectOpenFits
  <2> QED BY <2>1, RecordsKeeps
<1>3. CASE \E change \in Change : SetTerms(change, at)
  BY <1>3, SetTermsKeeps
<1>4. CASE \E S \in SUBSET Adjustments : StatementAdHoc(S, at)
  BY <1>4, AdHocKeeps
<1> QED BY <1>1, <1>2, <1>3, <1>4 DEF Does

LEMMA AcceptsKeeps ==
  ASSUME BillingInv, NEW at, NEW p \in AllPeriods,
         Accepts(at, p) \/ Corrects(at, p)
  PROVE  BillingInv'
<1>1. IsPeriod(p)  BY ListedPeriods
<1>2. CASE Accepts(at, p)
  <2>1. PICK n \in Quantity :
          \/ \E kind \in {"work", "outcome"} : Accept(kind, n, at, p)
          \/ ActivitySubmit(n, at, p)
    BY <1>2 DEF Accepts
  <2>2. {"work", "outcome"} \subseteq Kind /\ "activity" \in Kind  BY DEF Kind
  <2>3. Records(at)  BY <1>1, <2>1, <2>2, AcceptFits
  <2> QED BY <2>3, RecordsKeeps
<1>3. CASE Corrects(at, p)
  <2>1. Records(at)  BY <1>1, <1>3, CorrectClosedFits DEF Corrects
  <2> QED BY <2>1, RecordsKeeps
<1> QED BY <1>2, <1>3

LEMMA ChangesKeeps ==
  ASSUME BillingInv, NEW change \in Change, NEW at, NEW p \in AllPeriods,
         ChangesTerms(change, at, p)
  PROVE  BillingInv'
<1>1. IsPeriod(p)  BY ListedPeriods
<1>2. PICK c \in Caller :
        \/ TransitionNext(c, change, at, p) \/ TransitionNow(c, change, at, p)
        \/ TransitionResolves(c, change, at, p) \/ TransitionMisses(c, change, at, p)
  BY DEF ChangesTerms
<1>3. Replaces(change, at, p)  BY DEF ChangesTerms
<1>4. CASE TransitionNext(c, change, at, p) \/ TransitionNow(c, change, at, p)
  BY <1>1, <1>3, <1>4, TransitionKeeps
<1>5. CASE TransitionResolves(c, change, at, p)
  BY <1>1, <1>5, UnresolvedKeeps DEF TransitionResolves
<1>6. CASE TransitionMisses(c, change, at, p)
  BY <1>6, MissesKeeps
<1> QED BY <1>2, <1>4, <1>5, <1>6

LEMMA BillingStep == BillingInv /\ [Next]_vars => BillingInv'
<1> SUFFICES ASSUME BillingInv, [Next]_vars PROVE BillingInv'  OBVIOUS
<1>1. CASE \E at \in Time : Does(at)
  BY <1>1, DoesKeeps
<1>2. CASE \E p \in AllPeriods, at \in Time :
             \/ Accepts(at, p) \/ Corrects(at, p)
             \/ \E c \in Caller : Closes(c, at, p)
  <2>1. PICK p \in AllPeriods, at \in Time :
          \/ Accepts(at, p) \/ Corrects(at, p)
          \/ \E c \in Caller : Closes(c, at, p)
    BY <1>2
  <2>2. CASE Accepts(at, p) \/ Corrects(at, p)  BY <2>2, AcceptsKeeps
  <2>3. CASE \E c \in Caller : Closes(c, at, p)
    <3>1. PICK c \in Caller : PeriodClose(c, at, p) \/ CloseResolves(c, at, p)
      BY <2>3 DEF Closes
    <3>2. CASE PeriodClose(c, at, p)  BY <3>2, CloseKeeps
    <3>3. CASE CloseResolves(c, at, p)
      BY <3>3, ListedPeriods, UnresolvedKeeps DEF CloseResolves
    <3> QED BY <3>1, <3>2, <3>3
  <2> QED BY <2>1, <2>2, <2>3
<1>3. CASE \E change \in Change, p \in AllPeriods, at \in Time :
             ChangesTerms(change, at, p)
  BY <1>3, ChangesKeeps
<1>4. CASE \E c \in Caller : Resolve(c) \/ Stops(c)
  BY <1>4, ResolveKeeps, StopsKeeps
<1>5. CASE UNCHANGED vars
  <2>1. /\ UNCHANGED <<last, terms, ends, entries, closed, presented, adHoc>>
        /\ UNCHANGED <<terms, call>>
    BY <1>5 DEF vars
  <2>2. CallsTyped'  BY <2>1 DEF BillingInv, TypeOK, CallsTyped
  <2>3. CallInv'  BY <2>1, CallsKept DEF BillingInv
  <2> QED BY <2>1, <2>2, <2>3, QuietKeeps
<1> QED BY <1>1, <1>2, <1>3, <1>4, <1>5 DEF Next

LEMMA BillingAlways == Spec => []BillingInv
BY BillingInit, BillingStep, PTL DEF Spec

\* The records of a customer's billing have their types: nothing presented, listed
\* or linked is of an entry that was never accepted.
THEOREM BillingTypes == Spec => []TypeOK
<1>1. BillingInv => TypeOK  BY DEF BillingInv
<1> QED BY <1>1, BillingAlways, PTL

\* The periods of a customer leave no gap and no overlap where its terms change,
\* for any calendars and however many changes (PeriodsMeet).
THEOREM PeriodsTheorem == Spec => []PeriodsMeet
<1>1. BillingInv => PeriodsMeet  BY DEF BillingInv
<1> QED BY <1>1, BillingAlways, PTL

\* Whatever is assigned by its acceptance time lies inside its period as it was
\* resolved (EntriesFallInTheirPeriod).
THEOREM AssignmentTheorem == Spec => []EntriesFallInTheirPeriod
<1>1. BillingInv => EntriesFallInTheirPeriod  BY DEF BillingInv
<1> QED BY <1>1, BillingAlways, PTL

\* A closed period stays as its statement says, and no adjustment is presented
\* twice (BilledOnce).
THEOREM BilledTheorem == Spec => []BilledOnce
<1>1. BillingInv => BilledOnce  BY DEF BillingInv
<1> QED BY <1>1, BillingAlways, PTL

\* A statement and the adjustments made to it since add up to what the period is
\* worth in the end, for any rate and fraction (BookedIsExact).
THEOREM BookedTheorem == Spec => []BookedIsExact
<1>1. BillingInv => BookedIsExact  BY DEF BillingInv
<1> QED BY <1>1, BillingAlways, PTL
=============================================================================
