----------------------------- MODULE FenceProofs -----------------------------
(***************************************************************************)
(* Proofs about Fence for any set of processes, directories and anchors:   *)
(* its types, that no cut of a commit locks an owner out, that witnesses   *)
(* name contents, and that every anchor publishes one history.             *)
(***************************************************************************)
EXTENDS Fence, TLAPS

Rec(a, s) == [anchor |-> a, state |-> s]

(* A commit attempt: its witness is newer than the one it replaces and     *)
(* names the log with the change at its end.                               *)
Attempt(h, g) ==
  /\ h \in 0..issued /\ g \in 0..issued /\ h < g
  /\ contents[g] = Append(contents[h], g)

(* The first witness names the empty log, and a log holds no change newer  *)
(* than the witness that names it.                                         *)
ContentsInv ==
  /\ contents[Genesis] = <<>>
  /\ \A h \in 0..issued : \A i \in 1..Len(contents[h]) : contents[h][i] <= h

(* A stable record has one witness, a pending one those of an attempt.     *)
RecordsInv ==
  \A a \in Anchor : anchors[a] # None =>
    LET s == anchors[a].state IN
    /\ s.old \in 0..issued /\ s.new \in 0..issued
    /\ s.kind = "stable" => s.old = s.new
    /\ s.kind = "pending" => Attempt(s.old, s.new)

(* A database lies where its witness says.                                 *)
FilesInv ==
  \A d \in Directory : files[d] # None /\ files[d].row # None =>
    /\ files[d].row.hash \in 0..issued
    /\ files[d].log = contents[files[d].row.hash]

(* The two locks.                                                          *)
LocksInv ==
  \A p, q \in Process : p # q =>
    /\ proc[p].dir = proc[q].dir => proc[p].dir = None
    /\ proc[p].anchor = proc[q].anchor => proc[p].anchor = None

Anchored == {"seeded", "recovering", "open", "begun", "prepared", "committed",
             "failed"}

(* How far each handle has come, against its database and its record.      *)
StepInv(p) ==
  LET c == proc[p]
      a == proc[p].anchor
      f == files[proc[p].dir]
      h == files[proc[p].dir].row.hash
      r == anchors[proc[p].anchor]
  IN
  /\ c.step = "closed" => c = Closed
  /\ c.step # "closed" => c.dir \in Directory /\ f # None
  /\ c.step = "plain" => a = None /\ f.row = None
  /\ c.step \notin {"closed", "plain"} => a \in Anchor
  /\ c.step = "creating" =>
       /\ f.row = None /\ f.log = <<>> /\ ~c.renamed /\ Readable(a)
       /\ c.memory = MemoryOf(a)
  /\ c.step \in Anchored => f.row # None /\ f.row.anchor = a
  /\ c.step = "seeded" =>
       h = Genesis /\ r = IF c.renamed THEN Rec(a, Stable(h)) ELSE None
  /\ c.step = "recovering" =>
       \/ c.renamed /\ r = Rec(a, Stable(h))
       \/ /\ ~c.renamed /\ r # None /\ r.anchor = a
          /\ r.state.kind = "pending" /\ h \in {r.state.old, r.state.new}
  /\ c.step = "open" => ~c.renamed /\ r = Rec(a, Stable(h))
  /\ c.step = "begun" =>
       /\ c.change = c.new /\ Attempt(h, c.new)
       /\ r = Rec(a, IF c.renamed THEN Pending(h, c.new) ELSE Stable(h))
  /\ c.step = "prepared" =>
       /\ c.change = c.new /\ Attempt(h, c.new) /\ ~c.renamed
       /\ r = Rec(a, Pending(h, c.new))
  /\ c.step = "committed" =>
       /\ c.new = h /\ r # None /\ r.anchor = a /\ r.state.new = h
       /\ c.renamed => r = Rec(a, Stable(h))
       /\ ~c.renamed => r.state.kind = "pending"
  /\ c.step = "failed" => Accepts(a, f)

IInv == /\ TypeOK /\ ContentsInv /\ RecordsInv /\ FilesInv /\ LocksInv
        /\ \A p \in Process : StepInv(p)

-----------------------------------------------------------------------------
(* A handle is undisturbed by whoever leaves its database, its record and  *)
(* the contents of existing witnesses alone.                               *)
LEMMA Undisturbed ==
  ASSUME NEW q \in Process, TypeOK, TypeOK', StepInv(q),
         proc'[q] = proc[q],
         proc[q].dir \in Directory => files'[proc[q].dir] = files[proc[q].dir],
         proc[q].anchor \in Anchor =>
           anchors'[proc[q].anchor] = anchors[proc[q].anchor],
         issued <= issued',
         \A h \in 0..issued : contents'[h] = contents[h]
  PROVE  StepInv(q)'
<1>. USE DEF TypeOK
<1>1. CASE proc[q].step = "closed"
  BY <1>1 DEF StepInv, Anchored
<1>2. CASE proc[q].step = "plain"
  BY <1>2 DEF StepInv, Anchored
<1>3. CASE proc[q].step \notin {"closed", "plain"}
  <2>1. /\ proc[q].dir \in Directory /\ proc[q].anchor \in Anchor
        /\ files'[proc[q].dir] = files[proc[q].dir]
        /\ anchors'[proc[q].anchor] = anchors[proc[q].anchor]
    BY <1>3 DEF StepInv
  <2>2. ASSUME NEW h, NEW g, Attempt(h, g) PROVE Attempt(h, g)'
    <3>1. contents'[h] = contents[h] /\ contents'[g] = contents[g]
      BY <2>2 DEF Attempt
    <3>2. issued \in Nat /\ issued' \in Nat
      BY BoundAssumption
    <3>. HIDE DEF TypeOK
    <3>. QED
      BY <2>2, <3>1, <3>2 DEF Attempt
  <2>3. /\ Readable(proc[q].anchor) => Readable(proc[q].anchor)'
        /\ MemoryOf(proc[q].anchor)' = MemoryOf(proc[q].anchor)
        /\ Accepts(proc[q].anchor, files[proc[q].dir]) =>
             Accepts(proc[q].anchor, files[proc[q].dir])'
    BY <2>1 DEF Readable, MemoryOf, Accepts
  <2>. QED
    BY <1>3, <2>1, <2>2, <2>3 DEF StepInv, Anchored
<1>. QED
  BY <1>1, <1>2, <1>3

(* Appending the newest change keeps a log ordered below its witness.      *)
LEMMA AppendFacts ==
  ASSUME NEW s \in Seq(Nat), NEW x \in Nat
  PROVE  /\ Append(s, x) \in Seq(Nat)
         /\ Len(Append(s, x)) = Len(s) + 1
         /\ \A i \in 1..Len(s) : Append(s, x)[i] = s[i]
         /\ Append(s, x)[Len(s) + 1] = x
  OBVIOUS

(* Of two processes at most one is given a lock that was free.             *)
LEMMA LocksStep ==
  ASSUME NEW p \in Process, TypeOK, LocksInv, NEW c,
         proc' = [proc EXCEPT ![p] = c],
         c.dir = None \/ c.dir = proc[p].dir \/ OwnerFree(c.dir),
         c.anchor = None \/ c.anchor = proc[p].anchor \/ AnchorFree(c.anchor)
  PROVE  LocksInv'
  BY DEF LocksInv, TypeOK, OwnerFree, AnchorFree

(* A step of one process touches only what its own locks cover, so that    *)
(* every other handle is undisturbed.                                      *)
LEMMA ProcessStep ==
  ASSUME NEW p \in Process, IInv, TypeOK', NEW c,
         proc' = [proc EXCEPT ![p] = c],
         c.dir = None \/ c.dir = proc[p].dir \/ OwnerFree(c.dir),
         c.anchor = None \/ c.anchor = proc[p].anchor \/ AnchorFree(c.anchor),
         \A d \in Directory : d # proc[p].dir /\ d # c.dir => files'[d] = files[d],
         \A a \in Anchor : a # proc[p].anchor => anchors'[a] = anchors[a],
         issued <= issued',
         \A h \in 0..issued : contents'[h] = contents[h],
         StepInv(p)'
  PROVE  LocksInv' /\ \A q \in Process : StepInv(q)'
<1>1. LocksInv'
  BY LocksStep DEF IInv
<1>2. ASSUME NEW q \in Process PROVE StepInv(q)'
  <2>1. CASE q = p
    BY <2>1
  <2>2. CASE q # p
    <3>1. proc'[q] = proc[q] /\ proc'[p] = c
      BY <2>2 DEF IInv, TypeOK
    <3>2. proc[q].dir \in Directory =>
            proc[q].dir # proc[p].dir /\ proc[q].dir # c.dir
      BY <1>1, <2>2, <3>1, SentinelAssumption DEF IInv, LocksInv
    <3>3. proc[q].anchor \in Anchor => proc[q].anchor # proc[p].anchor
      BY <2>2, SentinelAssumption DEF IInv, LocksInv
    <3>. QED
      BY <3>1, <3>2, <3>3, Undisturbed DEF IInv
  <2>. QED
    BY <2>1, <2>2
<1>. QED
  BY <1>1, <1>2

(* When witnesses only become more, what was said of the old ones stands.  *)
LEMMA Extended ==
  ASSUME TypeOK, FilesInv, RecordsInv, TypeOK', issued <= issued',
         \A h \in 0..issued : contents'[h] = contents[h]
  PROVE  /\ files' = files => FilesInv'
         /\ anchors' = anchors => RecordsInv'
         /\ \A h, g : Attempt(h, g) => Attempt(h, g)'
<1>1. ASSUME NEW h, NEW g, Attempt(h, g) PROVE Attempt(h, g)'
  <2>1. contents'[h] = contents[h] /\ contents'[g] = contents[g]
    BY <1>1 DEF Attempt
  <2>2. issued \in Nat /\ issued' \in Nat
    BY BoundAssumption DEF TypeOK
  <2>. QED
    BY <1>1, <2>1, <2>2 DEF Attempt
<1>2. ASSUME files' = files PROVE FilesInv'
  BY <1>2 DEF TypeOK, FilesInv
<1>3. ASSUME anchors' = anchors PROVE RecordsInv'
  <2>1. issued \in Nat /\ issued' \in Nat
    BY BoundAssumption DEF TypeOK
  <2>2. ASSUME NEW a \in Anchor, anchors[a] # None, NEW s, s = anchors[a].state
        PROVE  /\ s.old \in 0..issued' /\ s.new \in 0..issued'
               /\ s.kind = "stable" => s.old = s.new
               /\ s.kind = "pending" => Attempt(s.old, s.new)'
    <3>1. /\ s.old \in 0..issued /\ s.new \in 0..issued
          /\ s.kind = "stable" => s.old = s.new
          /\ s.kind = "pending" => Attempt(s.old, s.new)
      BY <2>2 DEF RecordsInv
    <3>. QED
      BY <1>1, <2>1, <3>1
  <2>. QED
    BY <1>3, <2>2 DEF RecordsInv
<1>. QED
  BY <1>1, <1>2, <1>3

-----------------------------------------------------------------------------
(* One lemma per action.                                                   *)

LEMMA ClosedFacts == Closed \in Handle /\ Closed.step = "closed"
                     /\ Closed.dir = None /\ Closed.anchor = None
  BY BoundAssumption DEF Closed, Handle, Step, Hash, Genesis

(* Giving up the locks is always possible.                                 *)
LEMMA CloseStep ==
  ASSUME NEW p \in Process, IInv, proc' = [proc EXCEPT ![p] = Closed],
         UNCHANGED <<files, anchors, issued, contents, seen>>
  PROVE  IInv'
<1>1. TypeOK'
  BY ClosedFacts DEF IInv, TypeOK
<1>2. proc'[p] = Closed
  BY DEF IInv, TypeOK
<1>3. StepInv(p)'
  BY <1>2, ClosedFacts DEF StepInv, Anchored
<1>4. issued <= issued'
  BY DEF IInv, TypeOK
<1>5. LocksInv' /\ \A q \in Process : StepInv(q)'
  BY <1>1, <1>3, <1>4, ClosedFacts, ProcessStep
<1>6. ContentsInv' /\ RecordsInv' /\ FilesInv'
  BY DEF IInv, ContentsInv, RecordsInv, FilesInv, Attempt
<1>. QED
  BY <1>1, <1>5, <1>6 DEF IInv

(* What a handle is given when a store is opened or created.               *)
LEMMA HandedFacts ==
  ASSUME TypeOK, NEW p \in Process, NEW step \in Step, NEW d \in Directory,
         NEW a \in Anchor \cup {None}, NEW m \in State \cup {None},
         Handed(p, step, d, a, m)
  PROVE  /\ proc' \in [Process -> Handle]
         /\ proc' = [proc EXCEPT ![p] = proc'[p]]
         /\ proc'[p].step = step /\ proc'[p].dir = d /\ proc'[p].anchor = a
         /\ proc'[p].memory = m /\ ~proc'[p].renamed
  BY ClosedFacts DEF Handed, TypeOK, Handle, Closed

LEMMA CreateStep ==
  ASSUME NEW p \in Process, NEW d \in Directory, NEW a \in Anchor,
         IInv, Create(p, d, a)
  PROVE  IInv'
<1>. USE DEF Create
<1>1. MemoryOf(a) \in State \cup {None}
  BY DEF IInv, TypeOK, MemoryOf, Record
<1>2. /\ proc' \in [Process -> Handle]
      /\ proc' = [proc EXCEPT ![p] = proc'[p]]
      /\ proc'[p].step = "creating" /\ proc'[p].dir = d
      /\ proc'[p].anchor = a /\ proc'[p].memory = MemoryOf(a)
      /\ ~proc'[p].renamed
  BY <1>1, HandedFacts DEF IInv, Step
<1>a. [log |-> <<>>, row |-> None] \in Database
  BY DEF Database
<1>b. files' \in [Directory -> Database \cup {None}]
  BY <1>a DEF IInv, TypeOK
<1>c. files'[d] = [log |-> <<>>, row |-> None] /\ files'[d] # None
  BY <1>a, SentinelAssumption DEF IInv, TypeOK
<1>3. TypeOK' /\ files'[d] = [log |-> <<>>, row |-> None] /\ files'[d] # None
  BY <1>2, <1>b, <1>c DEF IInv, TypeOK
<1>4. StepInv(p)'
  BY <1>2, <1>3 DEF StepInv, Anchored, Readable, MemoryOf
<1>5. issued <= issued'
  BY DEF IInv, TypeOK
<1>6. LocksInv' /\ \A q \in Process : StepInv(q)'
  <2>1. \A e \in Directory : e # d => files'[e] = files[e]
    BY DEF IInv, TypeOK
  <2>. QED
    BY <1>2, <1>3, <1>4, <1>5, <2>1, ProcessStep
<1>7. ContentsInv' /\ RecordsInv' /\ FilesInv'
  BY <1>3 DEF IInv, TypeOK, ContentsInv, RecordsInv, FilesInv, Attempt
<1>. QED
  BY <1>3, <1>6, <1>7 DEF IInv

LEMMA InitializeStep ==
  ASSUME NEW p \in Process, IInv, Initialize(p)
  PROVE  IInv'
<1>1. CASE proc[p].memory # None
  BY <1>1, CloseStep DEF Initialize
<1>2. CASE proc[p].memory = None
  <2>. DEFINE d == proc[p].dir
              a == proc[p].anchor
  <2>1. /\ proc[p].step = "creating"
        /\ files' = [files EXCEPT ![d] =
             [log |-> files[d].log, row |-> [anchor |-> a, hash |-> Genesis]]]
        /\ proc' = [proc EXCEPT ![p].step = "seeded"]
        /\ UNCHANGED <<anchors, issued, contents, seen>>
    BY <1>2 DEF Initialize, FileOf
  <2>2. /\ d \in Directory /\ a \in Anchor /\ files[d] \in Database
        /\ files[d].log = <<>> /\ anchors[a] = None /\ ~proc[p].renamed
    BY <1>2, <2>1, SentinelAssumption
      DEF IInv, TypeOK, StepInv, MemoryOf, Record
  <2>a. [anchor |-> a, hash |-> Genesis] \in Row
    BY <2>2 DEF Row, Hash, Genesis
  <2>b. [log |-> <<>>, row |-> [anchor |-> a, hash |-> Genesis]] \in Database
    BY <2>a DEF Database
  <2>3. /\ files'[d] = [log |-> <<>>, row |-> [anchor |-> a, hash |-> Genesis]]
        /\ files'[d] # None /\ files'[d].row # None
        /\ \A e \in Directory : e # d => files'[e] = files[e]
    BY <2>1, <2>2, <2>a, <2>b, SentinelAssumption DEF IInv, TypeOK
  <2>4. proc'[p] = [proc[p] EXCEPT !.step = "seeded"]
    BY <2>1 DEF IInv, TypeOK
  <2>c. files' \in [Directory -> Database \cup {None}]
    BY <2>1, <2>2, <2>b DEF IInv, TypeOK
  <2>e. /\ proc'[p].step = "seeded" /\ proc'[p].dir = d /\ proc'[p].anchor = a
        /\ ~proc'[p].renamed /\ proc'[p] \in Handle
    <3>1. proc[p] \in Handle /\ "seeded" \in Step
      BY DEF IInv, TypeOK, Step
    <3>. QED
      BY <2>2, <2>4, <3>1 DEF Handle
  <2>d. proc' \in [Process -> Handle]
    BY <2>1, <2>4, <2>e DEF IInv, TypeOK
  <2>5. TypeOK'
    BY <2>1, <2>c, <2>d DEF IInv, TypeOK
  <2>6. StepInv(p)'
    <3>1. /\ files'[proc'[p].dir].row = [anchor |-> a, hash |-> Genesis]
          /\ files'[proc'[p].dir] # None /\ files'[proc'[p].dir].row # None
          /\ files'[proc'[p].dir].row.anchor = a
          /\ files'[proc'[p].dir].row.hash = Genesis
          /\ anchors'[proc'[p].anchor] = None
      BY <2>1, <2>2, <2>3, <2>e
    <3>. QED
      BY <2>2, <2>e, <3>1 DEF StepInv, Anchored
  <2>7. issued <= issued'
    BY <2>1 DEF IInv, TypeOK
  <2>8. LocksInv' /\ \A q \in Process : StepInv(q)'
    <3>1. /\ proc' = [proc EXCEPT ![p] = proc'[p]]
          /\ proc'[p].dir = d /\ proc'[p].anchor = a
      BY <2>1, <2>4 DEF IInv, TypeOK, Handle
    <3>. QED
      BY <2>1, <2>3, <2>5, <2>6, <2>7, <3>1, ProcessStep
  <2>9. ContentsInv' /\ RecordsInv' /\ FilesInv'
    <3>1. ContentsInv' /\ RecordsInv'
      BY <2>1 DEF IInv, ContentsInv, RecordsInv, Attempt
    <3>2. Genesis \in 0..issued /\ contents[Genesis] = <<>>
      BY BoundAssumption DEF IInv, TypeOK, ContentsInv, Genesis
    <3>3. ASSUME NEW e \in Directory, files'[e] # None, files'[e].row # None
          PROVE  /\ files'[e].row.hash \in 0..issued
                 /\ files'[e].log = contents[files'[e].row.hash]
      <4>1. CASE e = d
        BY <2>2, <2>3, <3>2, <4>1
      <4>2. CASE e # d
        BY <2>3, <3>3, <4>2 DEF IInv, FilesInv
      <4>. QED
        BY <4>1, <4>2
    <3>. QED
      BY <2>1, <3>1, <3>3 DEF FilesInv
  <2>. QED
    BY <2>5, <2>8, <2>9 DEF IInv
<1>. QED
  BY <1>1, <1>2

LEMMA OpenFencedStep ==
  ASSUME NEW p \in Process, NEW d \in Directory, NEW a \in Anchor,
         IInv, OpenFenced(p, d, a)
  PROVE  IInv'
<1>. DEFINE step == IF anchors[a].state.kind = "stable" THEN "open"
                    ELSE "recovering"
<1>1. /\ anchors[a] # None /\ anchors[a] \in Record /\ anchors[a].anchor = a
      /\ files[d] # None /\ files[d].row # None /\ files[d].row.anchor = a
      /\ files[d].row.hash \in {anchors[a].state.old, anchors[a].state.new}
      /\ MemoryOf(a) = anchors[a].state /\ anchors[a].state \in State
  BY DEF OpenFenced, Accepts, IInv, TypeOK, MemoryOf, Record
<1>2. /\ proc' \in [Process -> Handle]
      /\ proc' = [proc EXCEPT ![p] = proc'[p]]
      /\ proc'[p].step = step /\ proc'[p].dir = d /\ proc'[p].anchor = a
      /\ ~proc'[p].renamed
  <2>1. step \in Step
    BY DEF Step
  <2>. QED
    BY <1>1, <2>1, HandedFacts DEF OpenFenced, IInv
<1>3. TypeOK'
  BY <1>2 DEF OpenFenced, IInv, TypeOK
<1>4. StepInv(p)'
  <2>1. CASE anchors[a].state.kind = "stable"
    <3>1. anchors[a].state.old = anchors[a].state.new
      BY <1>1, <2>1 DEF IInv, RecordsInv
    <3>2. anchors[a] = Rec(a, Stable(files[d].row.hash))
      BY <1>1, <2>1, <3>1 DEF Record, State, Rec, Stable
    <3>. QED
      BY <1>1, <1>2, <2>1, <3>2 DEF OpenFenced, StepInv, Anchored
  <2>2. CASE anchors[a].state.kind # "stable"
    <3>1. anchors[a].state.kind = "pending"
      BY <1>1, <2>2 DEF State
    <3>. QED
      BY <1>1, <1>2, <2>2, <3>1 DEF OpenFenced, StepInv, Anchored
  <2>. QED
    BY <2>1, <2>2
<1>5. issued <= issued'
  BY DEF OpenFenced, IInv, TypeOK
<1>6. LocksInv' /\ \A q \in Process : StepInv(q)'
  BY <1>2, <1>3, <1>4, <1>5, ProcessStep DEF OpenFenced
<1>7. ContentsInv' /\ RecordsInv' /\ FilesInv'
  BY DEF OpenFenced, IInv, ContentsInv, RecordsInv, FilesInv, Attempt
<1>. QED
  BY <1>3, <1>6, <1>7 DEF IInv

LEMMA OpenPlainStep ==
  ASSUME NEW p \in Process, NEW d \in Directory, IInv, OpenPlain(p, d)
  PROVE  IInv'
<1>1. /\ proc' \in [Process -> Handle]
      /\ proc' = [proc EXCEPT ![p] = proc'[p]]
      /\ proc'[p].step = "plain" /\ proc'[p].dir = d /\ proc'[p].anchor = None
      /\ ~proc'[p].renamed
  BY HandedFacts DEF OpenPlain, IInv, Step
<1>2. TypeOK'
  BY <1>1 DEF OpenPlain, IInv, TypeOK
<1>3. StepInv(p)'
  BY <1>1 DEF OpenPlain, MayOpenPlain, StepInv, Anchored
<1>4. issued <= issued'
  BY DEF OpenPlain, IInv, TypeOK
<1>5. LocksInv' /\ \A q \in Process : StepInv(q)'
  BY <1>1, <1>2, <1>3, <1>4, ProcessStep DEF OpenPlain
<1>6. ContentsInv' /\ RecordsInv' /\ FilesInv'
  BY DEF OpenPlain, IInv, ContentsInv, RecordsInv, FilesInv, Attempt
<1>. QED
  BY <1>2, <1>5, <1>6 DEF IInv

(* What is known of a handle that publishes.                               *)
LEMMA PublisherFacts ==
  ASSUME NEW p \in Process, IInv, proc[p].step \in Anchored
  PROVE  /\ proc[p].dir \in Directory /\ proc[p].anchor \in Anchor
         /\ proc[p] \in Handle
         /\ files[proc[p].dir] \in Database /\ files[proc[p].dir] # None
         /\ files[proc[p].dir].row \in Row /\ files[proc[p].dir].row # None
         /\ files[proc[p].dir].row.anchor = proc[p].anchor
         /\ files[proc[p].dir].row.hash \in 0..issued
         /\ files[proc[p].dir].log = contents[files[proc[p].dir].row.hash]
<1>1. /\ proc[p].dir \in Directory /\ proc[p].anchor \in Anchor
      /\ files[proc[p].dir] # None /\ files[proc[p].dir].row # None
      /\ files[proc[p].dir].row.anchor = proc[p].anchor
  BY DEF IInv, StepInv, Anchored
<1>2. proc[p] \in Handle /\ files[proc[p].dir] \in Database
  BY <1>1 DEF IInv, TypeOK
<1>3. files[proc[p].dir].row \in Row
  BY <1>1, <1>2 DEF Database
<1>. QED
  BY <1>1, <1>2, <1>3 DEF IInv, FilesInv

(* A rename puts a well-formed record into the anchor.                     *)
LEMMA TargetFacts ==
  ASSUME NEW p \in Process, IInv, proc[p].step \in Publishing,
         ~proc[p].renamed, NEW s, s = Target(p)
  PROVE  /\ s \in State /\ s.old \in 0..issued /\ s.new \in 0..issued
         /\ s.kind = "stable" => s.old = s.new
         /\ s.kind = "pending" => Attempt(s.old, s.new)
<1>1. proc[p].step \in Anchored /\ StepInv(p) /\ issued \in Nat
  BY BoundAssumption DEF Publishing, Anchored, IInv, TypeOK
<1>2. /\ proc[p] \in Handle
      /\ files[proc[p].dir].row.hash \in 0..issued
  BY <1>1, PublisherFacts
<1>3. CASE proc[p].step = "seeded"
  BY <1>1, <1>3 DEF State, Hash, Genesis, Target, Stable
<1>4. CASE proc[p].step = "recovering"
  BY <1>1, <1>2, <1>4 DEF State, Hash, FileOf, Target, Stable
<1>5. CASE proc[p].step = "begun"
  <2>1. Attempt(files[proc[p].dir].row.hash, proc[p].new)
    BY <1>1, <1>5 DEF StepInv
  <2>2. proc[p].new \in 0..issued
    BY <2>1 DEF Attempt
  <2>3. s = [kind |-> "pending", old |-> files[proc[p].dir].row.hash,
             new |-> proc[p].new]
    BY <1>5 DEF FileOf, Target, Pending
  <2>4. /\ s.kind = "pending" /\ s.new = proc[p].new
        /\ s.old = files[proc[p].dir].row.hash
    BY <2>3
  <2>5. s \in State
    BY <1>1, <1>2, <2>2, <2>3 DEF State, Hash
  <2>. QED
    BY <1>2, <2>1, <2>2, <2>4, <2>5
<1>6. CASE proc[p].step = "committed"
  <2>1. proc[p].new \in 0..issued
    BY <1>1, <1>2, <1>6 DEF StepInv
  <2>. QED
    BY <1>1, <1>6, <2>1 DEF State, Hash, Target, Stable
<1>. QED
  BY <1>3, <1>4, <1>5, <1>6 DEF Publishing

LEMMA RenameStep ==
  ASSUME NEW p \in Process, IInv, Rename(p)
  PROVE  IInv'
<1>. DEFINE a == proc[p].anchor
            h == files[proc[p].dir].row.hash
            r == Rec(a, Target(p))
<1>1. /\ proc[p].step \in Publishing /\ ~proc[p].renamed
      /\ anchors' = [anchors EXCEPT ![a] = r]
      /\ proc' = [proc EXCEPT ![p].renamed = TRUE]
      /\ UNCHANGED <<files, issued, contents, seen>>
  BY DEF Rename, Rec
<1>2. /\ proc[p].dir \in Directory /\ a \in Anchor /\ proc[p] \in Handle
      /\ files[proc[p].dir] # None
      /\ files[proc[p].dir].row # None /\ files[proc[p].dir].row.anchor = a
      /\ StepInv(p)
  BY <1>1, PublisherFacts DEF Publishing, Anchored, IInv
<1>3. /\ r.state = Target(p) /\ r.anchor = a /\ r \in Record /\ r # None
      /\ r.state.old \in 0..issued /\ r.state.new \in 0..issued
      /\ r.state.kind = "stable" => r.state.old = r.state.new
      /\ r.state.kind = "pending" => Attempt(r.state.old, r.state.new)
  <2>1. /\ r.state = Target(p) /\ r.anchor = a
    BY DEF Rec
  <2>2. Target(p) \in State
    BY <1>1, TargetFacts
  <2>3. r \in Record
    BY <1>2, <2>2 DEF Rec, Record
  <2>. QED
    BY <1>1, <2>1, <2>3, TargetFacts, SentinelAssumption
<1>4. /\ anchors'[a] = r
      /\ \A b \in Anchor : b # a => anchors'[b] = anchors[b]
      /\ proc'[p] = [proc[p] EXCEPT !.renamed = TRUE]
  BY <1>1, <1>2 DEF IInv, TypeOK
<1>5. TypeOK'
  <2>1. proc'[p] \in Handle
    BY <1>2, <1>4 DEF Handle
  <2>2. proc' \in [Process -> Handle]
    BY <1>1, <1>4, <2>1 DEF IInv, TypeOK
  <2>3. anchors' \in [Anchor -> Record \cup {None}]
    BY <1>1, <1>3 DEF IInv, TypeOK
  <2>. QED
    BY <1>1, <2>2, <2>3 DEF IInv, TypeOK
<1>6. RecordsInv'
  <2>1. issued' = issued /\ contents' = contents
    BY <1>1
  <2>2. \A g, k : Attempt(g, k)' <=> Attempt(g, k)
    BY <2>1 DEF Attempt
  <2>3. ASSUME NEW b \in Anchor, anchors'[b] # None, NEW s,
               s = anchors'[b].state
        PROVE  /\ s.old \in 0..issued' /\ s.new \in 0..issued'
               /\ s.kind = "stable" => s.old = s.new
               /\ s.kind = "pending" => Attempt(s.old, s.new)'
    <3>1. CASE b = a
      BY <1>3, <1>4, <2>1, <2>2, <2>3, <3>1
    <3>2. CASE b # a
      BY <1>4, <2>1, <2>2, <2>3, <3>2 DEF IInv, RecordsInv
    <3>. QED
      BY <3>1, <3>2
  <2>. QED
    BY <2>3 DEF RecordsInv
<1>7. StepInv(p)'
  <2>1. /\ proc'[p].step = proc[p].step /\ proc'[p].dir = proc[p].dir
        /\ proc'[p].anchor = a /\ proc'[p].renamed
        /\ proc'[p].new = proc[p].new /\ proc'[p].change = proc[p].change
    BY <1>2, <1>4 DEF Handle
  <2>2. /\ files'[proc'[p].dir] = files[proc[p].dir]
        /\ anchors'[proc'[p].anchor] = Rec(a, Target(p))
    BY <1>1, <1>4, <2>1
  <2>3. CASE proc[p].step = "seeded"
    BY <1>2, <2>1, <2>2, <2>3 DEF StepInv, Anchored, Target
  <2>4. CASE proc[p].step = "recovering"
    BY <1>2, <2>1, <2>2, <2>4 DEF StepInv, Anchored, Target, FileOf
  <2>5. CASE proc[p].step = "begun"
    BY <1>1, <1>2, <2>1, <2>2, <2>5
      DEF StepInv, Anchored, Target, FileOf, Attempt
  <2>6. CASE proc[p].step = "committed"
    <3>1. Rec(a, Target(p)) = Rec(a, Stable(h)) /\ proc[p].new = h
      BY <1>2, <2>6 DEF StepInv, Target
    <3>2. Rec(a, Stable(h)).anchor = a /\ Rec(a, Stable(h)).state.new = h
      BY DEF Rec, Stable
    <3>3. /\ anchors'[proc'[p].anchor] = Rec(a, Stable(h))
          /\ Rec(a, Stable(h)) # None /\ proc'[p].step = "committed"
          /\ files'[proc'[p].dir].row = files[proc[p].dir].row
          /\ files'[proc'[p].dir] # None /\ proc'[p].new = h
      BY <1>2, <1>3, <2>1, <2>2, <2>6, <3>1
    <3>. QED
      BY <1>2, <2>1, <3>2, <3>3 DEF StepInv, Anchored
  <2>. QED
    BY <1>1, <2>3, <2>4, <2>5, <2>6 DEF Publishing
<1>8. LocksInv' /\ \A q \in Process : StepInv(q)'
  <2>1. /\ proc' = [proc EXCEPT ![p] = proc'[p]]
        /\ proc'[p].dir = proc[p].dir /\ proc'[p].anchor = a
    BY <1>1, <1>2, <1>4 DEF IInv, TypeOK, Handle
  <2>2. issued <= issued'
    BY <1>1 DEF IInv, TypeOK
  <2>. QED
    BY <1>1, <1>4, <1>5, <1>7, <2>1, <2>2, ProcessStep
<1>9. ContentsInv' /\ FilesInv'
  BY <1>1 DEF IInv, ContentsInv, FilesInv
<1>. QED
  BY <1>5, <1>6, <1>8, <1>9 DEF IInv

LEMMA SyncStep ==
  ASSUME NEW p \in Process, IInv, Sync(p)
  PROVE  IInv'
<1>. DEFINE a == proc[p].anchor
            f == files[proc[p].dir]
            step == IF proc[p].step = "begun" THEN "prepared" ELSE "open"
<1>1. /\ proc[p].step \in Publishing /\ proc[p].renamed
      /\ proc' = [proc EXCEPT ![p].step = step,
                              ![p].memory = anchors[a].state,
                              ![p].renamed = FALSE]
      /\ seen' = IF proc[p].step = "committed"
                   THEN [seen EXCEPT ![a] = f.log] ELSE seen
      /\ UNCHANGED <<files, anchors, issued, contents>>
  BY DEF Sync, FileOf
<1>2. /\ proc[p].dir \in Directory /\ a \in Anchor /\ proc[p] \in Handle
      /\ f \in Database /\ f # None /\ f.row # None /\ f.row.anchor = a
      /\ StepInv(p)
  BY <1>1, PublisherFacts DEF Publishing, Anchored, IInv
<1>3. anchors[a] # None /\ anchors[a] \in Record /\ anchors[a].state \in State
  <2>1. anchors[a] = Rec(a, anchors[a].state)
    BY <1>1, <1>2 DEF StepInv, Publishing, Rec
  <2>2. anchors[a] # None
    <3>1. \A s : Rec(a, s) \in Record \/ s \notin State
      BY <1>2 DEF Rec, Record
    <3>2. \A k, g \in 0..issued : Stable(k) \in State /\ Pending(k, g) \in State
      BY BoundAssumption DEF IInv, TypeOK, Stable, Pending, State, Hash
    <3>3. Genesis \in 0..issued /\ f.row.hash \in 0..issued
      <4>1. issued \in Nat
        BY BoundAssumption DEF IInv, TypeOK
      <4>2. f.row.hash \in 0..issued
        BY <1>1, PublisherFacts DEF Publishing, Anchored
      <4>. QED
        BY <4>1, <4>2 DEF Genesis
    <3>4. CASE proc[p].step = "begun"
      BY <1>1, <1>2, <3>1, <3>2, <3>3, <3>4, SentinelAssumption
        DEF StepInv, Attempt
    <3>5. CASE proc[p].step # "begun"
      BY <1>1, <1>2, <3>1, <3>2, <3>3, <3>5, SentinelAssumption
        DEF StepInv, Publishing
    <3>. QED
      BY <3>4, <3>5
  <2>. QED
    BY <1>2, <2>2 DEF IInv, TypeOK, Record
<1>4. proc'[p] = [proc[p] EXCEPT !.step = step, !.memory = anchors[a].state,
                                 !.renamed = FALSE]
  BY <1>1 DEF IInv, TypeOK
<1>5. /\ proc'[p].step = step /\ proc'[p].dir = proc[p].dir
      /\ proc'[p].anchor = a /\ ~proc'[p].renamed
      /\ proc'[p].new = proc[p].new /\ proc'[p].change = proc[p].change
  BY <1>2, <1>4 DEF Handle
<1>6. TypeOK'
  <2>1. proc'[p] \in Handle
    BY <1>2, <1>3, <1>4 DEF Handle, Step
  <2>2. proc' \in [Process -> Handle]
    BY <1>1, <1>4, <2>1 DEF IInv, TypeOK
  <2>3. seen' \in [Anchor -> Seq(Nat)]
    BY <1>1, <1>2 DEF IInv, TypeOK, Database
  <2>. QED
    BY <1>1, <2>2, <2>3 DEF IInv, TypeOK
<1>7. StepInv(p)'
  <2>a. /\ files'[proc'[p].dir] = f
        /\ anchors'[proc'[p].anchor] = anchors[a]
        /\ \A k, g : Attempt(k, g)' <=> Attempt(k, g)
    BY <1>1, <1>5 DEF Attempt
  <2>1. CASE proc[p].step = "begun"
    <3>1. /\ proc[p].change = proc[p].new
          /\ Attempt(f.row.hash, proc[p].new)
          /\ anchors[a] = Rec(a, Pending(f.row.hash, proc[p].new))
      BY <1>1, <1>2, <2>1 DEF StepInv
    <3>2. proc'[p].step = "prepared"
      BY <1>5, <2>1
    <3>. QED
      BY <1>2, <1>5, <2>a, <3>1, <3>2 DEF StepInv, Anchored
  <2>2. CASE proc[p].step # "begun"
    <3>1. anchors[a] = Rec(a, Stable(f.row.hash))
      BY <1>1, <1>2, <2>2 DEF StepInv, Publishing
    <3>2. proc'[p].step = "open"
      BY <1>5, <2>2
    <3>. QED
      BY <1>2, <1>5, <2>a, <3>1, <3>2 DEF StepInv, Anchored
  <2>. QED
    BY <2>1, <2>2
<1>8. LocksInv' /\ \A q \in Process : StepInv(q)'
  <2>1. proc' = [proc EXCEPT ![p] = proc'[p]]
    BY <1>1 DEF IInv, TypeOK
  <2>2. issued <= issued'
    BY <1>1 DEF IInv, TypeOK
  <2>. QED
    BY <1>1, <1>5, <1>6, <1>7, <2>1, <2>2, ProcessStep
<1>9. ContentsInv' /\ RecordsInv' /\ FilesInv'
  BY <1>1 DEF IInv, ContentsInv, RecordsInv, FilesInv, Attempt
<1>. QED
  BY <1>6, <1>8, <1>9 DEF IInv

(* A handle whose step alone changes.                                      *)
LEMMA StepOnly ==
  ASSUME NEW p \in Process, IInv, NEW step \in Step,
         proc' = [proc EXCEPT ![p] = [@ EXCEPT !.step = step,
                                               !.renamed = FALSE]]
  PROVE  /\ proc' \in [Process -> Handle]
         /\ proc' = [proc EXCEPT ![p] = proc'[p]]
         /\ proc'[p].step = step /\ proc'[p].dir = proc[p].dir
         /\ proc'[p].anchor = proc[p].anchor /\ ~proc'[p].renamed
         /\ proc'[p].new = proc[p].new /\ proc'[p].change = proc[p].change
  BY DEF IInv, TypeOK, Handle

LEMMA PublishFailsStep ==
  ASSUME NEW p \in Process, IInv, PublishFails(p)
  PROVE  IInv'
<1>. DEFINE a == proc[p].anchor
            f == files[proc[p].dir]
<1>1. CASE proc[p].step \in {"seeded", "recovering"}
  <2>1. proc' = [proc EXCEPT ![p] = Closed]
    BY <1>1 DEF PublishFails
  <2>. QED
    BY <2>1, CloseStep DEF PublishFails
<1>2. CASE proc[p].step \in {"begun", "committed"}
  <2>1. /\ proc' = [proc EXCEPT ![p] = [@ EXCEPT !.step = "failed",
                                                 !.renamed = FALSE]]
        /\ UNCHANGED <<files, anchors, issued, contents, seen>>
    BY <1>2 DEF PublishFails
  <2>2. /\ proc' \in [Process -> Handle]
        /\ proc' = [proc EXCEPT ![p] = proc'[p]]
        /\ proc'[p].step = "failed" /\ proc'[p].dir = proc[p].dir
        /\ proc'[p].anchor = a /\ ~proc'[p].renamed
    BY <2>1, StepOnly DEF Step
  <2>3. TypeOK'
    BY <2>1, <2>2 DEF IInv, TypeOK
  <2>4. /\ proc[p].dir \in Directory /\ a \in Anchor
        /\ f \in Database /\ f # None /\ f.row # None /\ f.row.anchor = a
        /\ f.row \in Row /\ anchors[a] \in Record \cup {None} /\ StepInv(p)
    BY <1>2, PublisherFacts DEF Anchored, IInv, TypeOK
  <2>5. /\ anchors[a] # None /\ anchors[a].anchor = a
        /\ f.row.hash \in {anchors[a].state.old, anchors[a].state.new}
    <3>1. CASE proc[p].step = "begun"
      <4>1. \E t \in {Stable(f.row.hash), Pending(f.row.hash, proc[p].new)} :
              anchors[a] = Rec(a, t)
        BY <2>4, <3>1 DEF StepInv
      <4>2. /\ Stable(f.row.hash).old = f.row.hash
            /\ Pending(f.row.hash, proc[p].new).old = f.row.hash
        BY DEF Stable, Pending
      <4>3. proc[p].new \in Hash
        BY DEF IInv, TypeOK, Handle
      <4>4. /\ Stable(f.row.hash) \in State
            /\ Pending(f.row.hash, proc[p].new) \in State
        BY <2>4, <4>3 DEF Stable, Pending, State, Row
      <4>5. \A t \in State : /\ Rec(a, t) # None /\ Rec(a, t).anchor = a
                             /\ Rec(a, t).state = t
        <5>1. \A t \in State : Rec(a, t) \in Record
          BY <2>4 DEF Rec, Record
        <5>. QED
          BY <5>1, SentinelAssumption DEF Rec
      <4>. QED
        BY <4>1, <4>2, <4>4, <4>5
    <3>2. CASE proc[p].step = "committed"
      BY <2>4, <3>2 DEF StepInv
    <3>. QED
      BY <1>2, <3>1, <3>2
  <2>6. StepInv(p)'
    <3>1. /\ files'[proc'[p].dir] = f
          /\ anchors'[proc'[p].anchor] = anchors[a]
      BY <2>1, <2>2
    <3>. QED
      BY <2>2, <2>4, <2>5, <3>1 DEF StepInv, Anchored, Accepts
  <2>7. issued <= issued'
    BY <2>1 DEF IInv, TypeOK
  <2>8. LocksInv' /\ \A q \in Process : StepInv(q)'
    BY <2>1, <2>2, <2>3, <2>6, <2>7, ProcessStep
  <2>9. ContentsInv' /\ RecordsInv' /\ FilesInv'
    BY <2>1 DEF IInv, ContentsInv, RecordsInv, FilesInv, Attempt
  <2>. QED
    BY <2>3, <2>8, <2>9 DEF IInv
<1>. QED
  BY <1>1, <1>2 DEF PublishFails, Publishing

LEMMA ReadStep ==
  ASSUME NEW p \in Process, IInv, Read(p)
  PROVE  IInv'
<1>1. seen' \in [Anchor -> Seq(Nat)]
  <2>1. FileOf(p) \in Database /\ proc[p].anchor \in Anchor
    BY PublisherFacts DEF Read, Anchored, FileOf
  <2>. QED
    BY <2>1 DEF Read, IInv, TypeOK, Database
<1>2. TypeOK'
  BY <1>1 DEF Read, IInv, TypeOK
<1>3. issued <= issued'
  BY DEF Read, IInv, TypeOK
<1>4. ASSUME NEW q \in Process PROVE StepInv(q)'
  BY <1>2, <1>3, Undisturbed DEF Read, IInv
<1>5. LocksInv' /\ ContentsInv' /\ RecordsInv' /\ FilesInv'
  BY DEF Read, IInv, LocksInv, ContentsInv, RecordsInv, FilesInv, Attempt
<1>. QED
  BY <1>2, <1>4, <1>5 DEF IInv

(* What Prepare makes: a newer witness, for the log with the change.       *)
LEMMA PrepareFacts ==
  ASSUME NEW p \in Process, IInv, Prepare(p)
  PROVE  \A g, h : g = issued' /\ h = files[proc[p].dir].row.hash =>
           /\ issued \in Nat /\ contents \in [0..issued -> Seq(Nat)]
           /\ g = issued + 1 /\ g \in Nat /\ g \in 0..MaxCommit
           /\ contents' \in [0..g -> Seq(Nat)]
           /\ \A k \in 0..issued : contents'[k] = contents[k]
           /\ h \in 0..issued
           /\ contents'[g] = Append(contents[h], g)
<1>. SUFFICES ASSUME NEW g, g = issued', NEW h, h = files[proc[p].dir].row.hash
     PROVE  /\ issued \in Nat /\ contents \in [0..issued -> Seq(Nat)]
            /\ g = issued + 1 /\ g \in Nat /\ g \in 0..MaxCommit
            /\ contents' \in [0..g -> Seq(Nat)]
            /\ \A k \in 0..issued : contents'[k] = contents[k]
            /\ h \in 0..issued
            /\ contents'[g] = Append(contents[h], g)
  OBVIOUS
<1>. DEFINE f == files[proc[p].dir]
<1>1. issued \in Nat /\ g = issued + 1 /\ g \in 0..MaxCommit
  BY BoundAssumption DEF Prepare, IInv, TypeOK
<1>2. /\ f.row.hash \in 0..issued /\ f.log = contents[f.row.hash]
      /\ f.log \in Seq(Nat)
  BY PublisherFacts DEF Prepare, Anchored, IInv, TypeOK
<1>3. contents' = [k \in 0..g |->
        IF k = g THEN Append(f.log, g) ELSE contents[k]]
  BY <1>1 DEF Prepare, FreshWitness, FileOf
<1>4. Append(f.log, g) \in Seq(Nat)
  BY <1>1, <1>2, AppendFacts
<1>5. \A k \in 0..g : k = g \/ k \in 0..issued
  BY <1>1
<1>a. contents \in [0..issued -> Seq(Nat)]
  BY DEF IInv, TypeOK
<1>6. contents' \in [0..g -> Seq(Nat)]
  BY <1>3, <1>4, <1>5, <1>a
<1>b. \A k \in 0..issued : k \in 0..g /\ k # g
  BY <1>1
<1>7. \A k \in 0..issued : contents'[k] = contents[k]
  BY <1>3, <1>b
<1>c. g \in 0..g /\ g \in Nat
  BY <1>1
<1>8. contents'[g] = Append(f.log, g)
  BY <1>3, <1>c
<1>. QED
  BY <1>1, <1>a, <1>c, <1>2, <1>6, <1>7, <1>8

LEMMA NextNumber ==
  ASSUME NEW n \in Nat, NEW g, g = n + 1, NEW h \in 0..n
  PROVE  /\ g \in Nat /\ n <= g /\ h \in 0..g /\ g \in 0..g /\ h < g
         /\ \A k \in 0..g : k = g \/ k \in 0..n
  OBVIOUS

(* A log that gains the newest change stays below its new witness.         *)
LEMMA StaysBelow ==
  ASSUME NEW s \in Seq(Nat), NEW g \in Nat, NEW h \in Nat, h < g,
         \A i \in 1..Len(s) : s[i] <= h
  PROVE  \A i \in 1..Len(Append(s, g)) : Append(s, g)[i] <= g
<1>1. ASSUME NEW i \in 1..(Len(s) + 1) PROVE Append(s, g)[i] <= g
  <2>1. CASE i = Len(s) + 1
    BY <2>1, AppendFacts
  <2>2. CASE i # Len(s) + 1
    <3>1. i \in 1..Len(s)
      BY <2>2
    <3>2. Append(s, g)[i] = s[i] /\ s[i] <= h /\ s[i] \in Nat
      BY <3>1, AppendFacts
    <3>. QED
      BY <3>2
  <2>. QED
    BY <2>1, <2>2
<1>. QED
  BY <1>1, AppendFacts

LEMMA PrepareStep ==
  ASSUME NEW p \in Process, IInv, Prepare(p)
  PROVE  IInv'
<1>. DEFINE a == proc[p].anchor
            f == files[proc[p].dir]
<1>. SUFFICES ASSUME NEW g, g = issued', NEW h,
                      h = files[proc[p].dir].row.hash
              PROVE  IInv'
  OBVIOUS
<1>1. /\ issued \in Nat /\ contents \in [0..issued -> Seq(Nat)]
      /\ g = issued + 1 /\ g \in Nat /\ g \in 0..MaxCommit
      /\ contents' \in [0..g -> Seq(Nat)]
      /\ \A k \in 0..issued : contents'[k] = contents[k]
      /\ h \in 0..issued
      /\ contents'[g] = Append(contents[h], g)
  <2>1. issued \in Nat /\ contents \in [0..issued -> Seq(Nat)]
    BY PrepareFacts
  <2>2. g = issued + 1 /\ g \in Nat /\ g \in 0..MaxCommit
    BY PrepareFacts
  <2>3. contents' \in [0..g -> Seq(Nat)]
    BY PrepareFacts
  <2>4. \A k \in 0..issued : contents'[k] = contents[k]
    BY PrepareFacts
  <2>5. h \in 0..issued /\ contents'[g] = Append(contents[h], g)
    BY PrepareFacts
  <2>. QED
    BY <2>1, <2>2, <2>3, <2>4, <2>5, Zenon
<1>a. issued \in Nat /\ h \in 0..issued /\ g = issued + 1 /\ g \in Nat
  BY <1>1
<1>b. /\ issued <= g /\ h \in 0..g /\ g \in 0..g /\ h < g
      /\ \A k \in 0..g : k = g \/ k \in 0..issued
  BY <1>a, NextNumber
<1>2. proc[p].step = "open" /\ UNCHANGED <<files, anchors, seen>>
  BY DEF Prepare
<1>3. /\ proc[p].dir \in Directory /\ a \in Anchor
      /\ f # None /\ f.row # None /\ f.row.anchor = a
      /\ anchors[a] = Rec(a, Stable(h)) /\ ~proc[p].renamed
  BY <1>2, PublisherFacts DEF Anchored, IInv, StepInv
<1>4. /\ proc' \in [Process -> Handle]
      /\ proc' = [proc EXCEPT ![p] = proc'[p]]
      /\ proc'[p].step = "begun" /\ proc'[p].dir = proc[p].dir
      /\ proc'[p].anchor = a /\ ~proc'[p].renamed
      /\ proc'[p].new = g /\ proc'[p].change = g
  <2>1. g \in Hash /\ "begun" \in Step /\ g \in 0..MaxCommit
    BY <1>1 DEF Hash, Step
  <2>2. proc \in [Process -> Handle]
    BY DEF IInv, TypeOK
  <2>3. proc' = [proc EXCEPT ![p] =
          [@ EXCEPT !.step = "begun", !.new = g, !.change = g]]
    BY <1>a DEF Prepare, FreshWitness
  <2>4. ~proc[p].renamed
    BY <1>3
  <2>. QED
    BY <2>1, <2>2, <2>3, <2>4 DEF Handle
<1>5. TypeOK'
  <2>1. /\ files' \in [Directory -> Database \cup {None}]
        /\ anchors' \in [Anchor -> Record \cup {None}]
        /\ seen' \in [Anchor -> Seq(Nat)]
    BY <1>2 DEF IInv, TypeOK
  <2>2. issued' \in 0..MaxCommit /\ contents' \in [0..issued' -> Seq(Nat)]
    BY <1>1
  <2>. QED
    BY <1>4, <2>1, <2>2 DEF TypeOK
<1>6. Attempt(h, g)'
  <2>1. contents'[g] = Append(contents[h], g) /\ contents'[h] = contents[h]
    BY <1>1
  <2>. QED
    BY <1>b, <2>1 DEF Attempt
<1>7. StepInv(p)'
  <2>1. /\ files'[proc'[p].dir] = f
        /\ anchors'[proc'[p].anchor] = Rec(a, Stable(h))
    BY <1>2, <1>3, <1>4
  <2>. QED
    BY <1>3, <1>4, <1>6, <2>1 DEF StepInv, Anchored
<1>8. issued <= issued'
  BY <1>b
<1>9. LocksInv' /\ \A q \in Process : StepInv(q)'
  <2>1. \A k \in 0..issued : contents'[k] = contents[k]
    BY <1>1
  <2>. QED
    BY <2>1, <1>2, <1>4, <1>5, <1>7, <1>8, ProcessStep
<1>10. RecordsInv' /\ FilesInv'
  <2>1. \A k \in 0..issued : contents'[k] = contents[k]
    BY <1>1
  <2>. QED
    BY <2>1, <1>2, <1>5, <1>8, Extended DEF IInv
<1>11. ContentsInv'
  <2>a. \A k \in 0..issued : contents'[k] = contents[k]
    BY <1>1
  <2>b. /\ contents[Genesis] = <<>>
        /\ \A k \in 0..issued : \A i \in 1..Len(contents[k]) :
             contents[k][i] <= k
    BY DEF IInv, ContentsInv
  <2>1. contents'[Genesis] = <<>>
    <3>1. Genesis \in 0..issued
      BY <1>a DEF Genesis
    <3>. QED
      BY <2>a, <2>b, <3>1
  <2>2. ASSUME NEW k \in 0..g
        PROVE  \A i \in 1..Len(contents'[k]) : contents'[k][i] <= k
    <3>1. CASE k \in 0..issued
      BY <2>a, <2>b, <3>1
    <3>2. CASE k = g
      <4>1. contents[h] \in Seq(Nat) /\ g \in Nat /\ h < g
        BY <1>1, <1>b
      <4>a. h \in Nat
        BY <1>a
      <4>2. \A i \in 1..Len(Append(contents[h], g)) :
              Append(contents[h], g)[i] <= g
        BY <1>a, <2>b, <4>1, <4>a, StaysBelow
      <4>3. contents'[k] = Append(contents[h], g)
        BY <1>1, <3>2
      <4>. QED
        BY <3>2, <4>2, <4>3
    <3>. QED
      BY <1>b, <3>1, <3>2
  <2>. QED
    BY <2>1, <2>2 DEF ContentsInv
<1>. QED
  BY <1>5, <1>9, <1>10, <1>11 DEF IInv

(* What COMMIT leaves behind: a database its new witness names.            *)
LEMMA CommittedFacts ==
  ASSUME NEW p \in Process, IInv, proc[p].step = "prepared",
         files' = Committed(p), UNCHANGED <<anchors, issued, contents, seen>>
  PROVE  /\ files' \in [Directory -> Database \cup {None}]
         /\ files'[proc[p].dir] # None /\ files'[proc[p].dir].row # None
         /\ files'[proc[p].dir].row.anchor = proc[p].anchor
         /\ files'[proc[p].dir].row.hash = proc[p].new
         /\ \A e \in Directory : e # proc[p].dir => files'[e] = files[e]
         /\ FilesInv'
<1>. DEFINE d == proc[p].dir
            f == files[proc[p].dir]
            g == proc[p].new
            row == [anchor |-> proc[p].anchor, hash |-> g]
            new == [log |-> Append(f.log, proc[p].change), row |-> row]
<1>1. /\ d \in Directory /\ proc[p].anchor \in Anchor /\ f \in Database
      /\ f.log = contents[f.row.hash] /\ StepInv(p)
  BY PublisherFacts DEF Anchored, IInv
<1>2. proc[p].change = g /\ Attempt(f.row.hash, g)
  BY <1>1 DEF StepInv
<1>3. /\ g \in 0..issued /\ contents[g] = Append(f.log, g)
  BY <1>1, <1>2 DEF Attempt
<1>4. g \in Nat
  BY <1>3, BoundAssumption DEF IInv, TypeOK
<1>5. new.log = contents[g] /\ new.row = row
      /\ row.anchor = proc[p].anchor /\ row.hash = g
  BY <1>2, <1>3
<1>6. row \in Row /\ row # None
  BY <1>1, <1>4, SentinelAssumption DEF Row, Hash
<1>7. new.log \in Seq(Nat)
  BY <1>3, <1>5 DEF IInv, TypeOK
<1>8. new \in Database /\ new # None
  <2>1. Append(f.log, proc[p].change) \in Seq(Nat)
    BY <1>7
  <2>2. new \in Database
    BY <1>6, <2>1 DEF Database
  <2>. QED
    BY <2>2, SentinelAssumption
<1>9. files' = [files EXCEPT ![d] = new]
  BY DEF Committed, FileOf
<1>. HIDE DEF new, row
<1>10. /\ files'[d] = new
       /\ \A e \in Directory : e # d => files'[e] = files[e]
       /\ files' \in [Directory -> Database \cup {None}]
  BY <1>1, <1>8, <1>9 DEF IInv, TypeOK
<1>11. FilesInv'
  <2>1. issued' = issued /\ contents' = contents
    OBVIOUS
  <2>2. ASSUME NEW e \in Directory, files'[e] # None, files'[e].row # None
        PROVE  /\ files'[e].row.hash \in 0..issued
               /\ files'[e].log = contents[files'[e].row.hash]
    <3>1. CASE e = d
      BY <1>3, <1>5, <1>10, <3>1
    <3>2. CASE e # d
      BY <1>10, <2>2, <3>2 DEF IInv, FilesInv
    <3>. QED
      BY <3>1, <3>2
  <2>. QED
    BY <2>1, <2>2 DEF FilesInv
<1>. QED
  BY <1>5, <1>6, <1>8, <1>10, <1>11

LEMMA CommitStep ==
  ASSUME NEW p \in Process, IInv, Commit(p)
  PROVE  IInv'
<1>. DEFINE a == proc[p].anchor
            f == files[proc[p].dir]
<1>1. /\ proc[p].step = "prepared" /\ files' = Committed(p)
      /\ proc' = [proc EXCEPT ![p].step = "committed"]
      /\ UNCHANGED <<anchors, issued, contents, seen>>
  BY DEF Commit
<1>2. /\ proc[p].dir \in Directory /\ a \in Anchor /\ proc[p] \in Handle
      /\ StepInv(p) /\ ~proc[p].renamed
      /\ anchors[a] = Rec(a, Pending(f.row.hash, proc[p].new))
      /\ f.row.hash \in Nat /\ proc[p].new \in Nat
  <2>1. /\ proc[p].dir \in Directory /\ a \in Anchor /\ proc[p] \in Handle
        /\ StepInv(p) /\ f.row \in Row
    BY <1>1, PublisherFacts DEF Anchored, IInv
  <2>. QED
    BY <1>1, <2>1 DEF StepInv, Row, Hash, Handle
<1>3. /\ files' \in [Directory -> Database \cup {None}]
      /\ files'[proc[p].dir] # None /\ files'[proc[p].dir].row # None
      /\ files'[proc[p].dir].row.anchor = a
      /\ files'[proc[p].dir].row.hash = proc[p].new
      /\ \A e \in Directory : e # proc[p].dir => files'[e] = files[e]
      /\ FilesInv'
  BY <1>1, CommittedFacts
<1>4. /\ proc' \in [Process -> Handle]
      /\ proc' = [proc EXCEPT ![p] = proc'[p]]
      /\ proc'[p].step = "committed" /\ proc'[p].dir = proc[p].dir
      /\ proc'[p].anchor = a /\ ~proc'[p].renamed
      /\ proc'[p].new = proc[p].new
  BY <1>1, <1>2 DEF IInv, TypeOK, Handle, Step
<1>5. TypeOK'
  BY <1>1, <1>3, <1>4 DEF IInv, TypeOK
<1>6. StepInv(p)'
  <2>1. /\ Pending(f.row.hash, proc[p].new) \in State
        /\ Pending(f.row.hash, proc[p].new).kind = "pending"
        /\ Pending(f.row.hash, proc[p].new).new = proc[p].new
    BY <1>2 DEF Pending, State, Hash
  <2>2. \A t \in State : /\ Rec(a, t) # None /\ Rec(a, t).anchor = a
                         /\ Rec(a, t).state = t
    <3>1. \A t \in State : Rec(a, t) \in Record
      BY <1>2 DEF Rec, Record
    <3>. QED
      BY <3>1, SentinelAssumption DEF Rec
  <2>3. /\ anchors'[a] # None /\ anchors'[a].anchor = a
        /\ anchors'[a].state.new = proc[p].new
        /\ anchors'[a].state.kind = "pending"
    BY <1>1, <1>2, <2>1, <2>2
  <2>. QED
    BY <1>2, <1>3, <1>4, <2>3 DEF StepInv, Anchored
<1>7. issued <= issued'
  BY <1>1 DEF IInv, TypeOK
<1>8. LocksInv' /\ \A q \in Process : StepInv(q)'
  BY <1>1, <1>3, <1>4, <1>5, <1>6, <1>7, ProcessStep
<1>9. ContentsInv' /\ RecordsInv'
  BY <1>1 DEF IInv, ContentsInv, RecordsInv, Attempt
<1>. QED
  BY <1>3, <1>5, <1>8, <1>9 DEF IInv

LEMMA CommitFailsStep ==
  ASSUME NEW p \in Process, IInv, CommitFails(p)
  PROVE  IInv'
<1>. DEFINE a == proc[p].anchor
            f == files[proc[p].dir]
<1>1. /\ proc[p].step = "prepared" /\ files' \in {files, Committed(p)}
      /\ proc' = [proc EXCEPT ![p].step = "failed"]
      /\ UNCHANGED <<anchors, issued, contents, seen>>
  BY DEF CommitFails
<1>2. /\ proc[p].dir \in Directory /\ a \in Anchor /\ proc[p] \in Handle
      /\ StepInv(p) /\ ~proc[p].renamed
      /\ anchors[a] = Rec(a, Pending(f.row.hash, proc[p].new))
      /\ f.row.hash \in Nat /\ proc[p].new \in Nat
      /\ f # None /\ f.row # None /\ f.row.anchor = a
  <2>1. /\ proc[p].dir \in Directory /\ a \in Anchor /\ proc[p] \in Handle
        /\ StepInv(p) /\ f.row \in Row
        /\ f # None /\ f.row # None /\ f.row.anchor = a
    BY <1>1, PublisherFacts DEF Anchored, IInv
  <2>. QED
    BY <1>1, <2>1 DEF StepInv, Row, Hash, Handle
<1>3. /\ files' \in [Directory -> Database \cup {None}]
      /\ files'[proc[p].dir] # None /\ files'[proc[p].dir].row # None
      /\ files'[proc[p].dir].row.anchor = a
      /\ files'[proc[p].dir].row.hash \in {f.row.hash, proc[p].new}
      /\ \A e \in Directory : e # proc[p].dir => files'[e] = files[e]
      /\ FilesInv'
  <2>1. CASE files' = files
    BY <1>1, <1>2, <2>1 DEF IInv, TypeOK, FilesInv
  <2>2. CASE files' = Committed(p)
    BY <1>1, <2>2, CommittedFacts
  <2>. QED
    BY <1>1, <2>1, <2>2
<1>4. /\ proc' \in [Process -> Handle]
      /\ proc' = [proc EXCEPT ![p] = proc'[p]]
      /\ proc'[p].step = "failed" /\ proc'[p].dir = proc[p].dir
      /\ proc'[p].anchor = a /\ ~proc'[p].renamed
  BY <1>1, <1>2 DEF IInv, TypeOK, Handle, Step
<1>5. TypeOK'
  BY <1>1, <1>3, <1>4 DEF IInv, TypeOK
<1>6. StepInv(p)'
  <2>1. /\ Pending(f.row.hash, proc[p].new) \in State
        /\ Pending(f.row.hash, proc[p].new).old = f.row.hash
        /\ Pending(f.row.hash, proc[p].new).new = proc[p].new
    BY <1>2 DEF Pending, State, Hash
  <2>2. \A t \in State : /\ Rec(a, t) # None /\ Rec(a, t).anchor = a
                         /\ Rec(a, t).state = t
    <3>1. \A t \in State : Rec(a, t) \in Record
      BY <1>2 DEF Rec, Record
    <3>. QED
      BY <3>1, SentinelAssumption DEF Rec
  <2>3. /\ anchors'[a] # None /\ anchors'[a].anchor = a
        /\ anchors'[a].state.old = f.row.hash
        /\ anchors'[a].state.new = proc[p].new
    BY <1>1, <1>2, <2>1, <2>2
  <2>4. Accepts(a, files[proc[p].dir])'
    BY <1>1, <1>3, <1>4, <2>3 DEF Accepts
  <2>5. files'[proc'[p].dir] = files'[proc[p].dir]
    BY <1>4
  <2>. QED
    BY <1>2, <1>3, <1>4, <2>3, <2>5 DEF StepInv, Anchored, Accepts
<1>7. issued <= issued'
  BY <1>1 DEF IInv, TypeOK
<1>8. LocksInv' /\ \A q \in Process : StepInv(q)'
  BY <1>1, <1>3, <1>4, <1>5, <1>6, <1>7, ProcessStep
<1>9. ContentsInv' /\ RecordsInv'
  BY <1>1 DEF IInv, ContentsInv, RecordsInv, Attempt
<1>. QED
  BY <1>3, <1>5, <1>8, <1>9 DEF IInv

LEMMA PlainCommitStep ==
  ASSUME NEW p \in Process, IInv, PlainCommit(p)
  PROVE  IInv'
<1>. DEFINE d == proc[p].dir
            f == files[proc[p].dir]
            new == [log |-> Append(f.log, 0), row |-> f.row]
<1>1. /\ proc[p].step = "plain" /\ files' = [files EXCEPT ![d] = new]
      /\ UNCHANGED <<anchors, proc, issued, contents, seen>>
  BY DEF PlainCommit, FileOf
<1>2. /\ d \in Directory /\ f # None /\ f.row = None /\ f \in Database
      /\ StepInv(p)
  BY <1>1 DEF IInv, StepInv, TypeOK
<1>3. new \in Database /\ new # None /\ new.row = None
  <2>1. Append(f.log, 0) \in Seq(Nat)
    BY <1>2, AppendFacts DEF Database
  <2>2. new \in Database
    BY <1>2, <2>1 DEF Database
  <2>. QED
    BY <1>2, <2>2, SentinelAssumption
<1>. HIDE DEF new
<1>4. /\ files' \in [Directory -> Database \cup {None}] /\ files'[d] = new
      /\ \A e \in Directory : e # d => files'[e] = files[e]
  BY <1>1, <1>2, <1>3 DEF IInv, TypeOK
<1>5. TypeOK'
  BY <1>1, <1>4 DEF IInv, TypeOK
<1>6. StepInv(p)'
  BY <1>1, <1>2, <1>3, <1>4 DEF StepInv, Anchored
<1>7. issued <= issued' /\ proc' = [proc EXCEPT ![p] = proc[p]]
  BY <1>1 DEF IInv, TypeOK
<1>8. LocksInv' /\ \A q \in Process : StepInv(q)'
  BY <1>1, <1>4, <1>5, <1>6, <1>7, ProcessStep
<1>9. ContentsInv' /\ RecordsInv'
  BY <1>1 DEF IInv, ContentsInv, RecordsInv, Attempt
<1>10. FilesInv'
  BY <1>1, <1>3, <1>4 DEF IInv, FilesInv
<1>. QED
  BY <1>5, <1>8, <1>9, <1>10 DEF IInv

LEMMA CopyDatabaseStep ==
  ASSUME NEW d \in Directory, NEW e \in Directory, IInv, CopyDatabase(d, e)
  PROVE  IInv'
<1>1. /\ files' \in [Directory -> Database \cup {None}]
      /\ files'[e] = files[d]
      /\ \A k \in Directory : k # e => files'[k] = files[k]
  BY DEF CopyDatabase, IInv, TypeOK
<1>2. TypeOK'
  BY <1>1 DEF CopyDatabase, IInv, TypeOK
<1>3. issued <= issued'
  BY DEF CopyDatabase, IInv, TypeOK
<1>4. ASSUME NEW q \in Process PROVE StepInv(q)'
  <2>1. proc[q].dir # e
    BY DEF CopyDatabase, OwnerFree
  <2>. QED
    BY <1>1, <1>2, <1>3, <2>1, Undisturbed DEF CopyDatabase, IInv
<1>5. FilesInv'
  BY <1>1 DEF CopyDatabase, IInv, FilesInv
<1>6. LocksInv' /\ ContentsInv' /\ RecordsInv'
  BY DEF CopyDatabase, IInv, LocksInv, ContentsInv, RecordsInv, Attempt
<1>. QED
  BY <1>2, <1>4, <1>5, <1>6 DEF IInv

LEMMA CopyAnchorStep ==
  ASSUME NEW a \in Anchor, NEW b \in Anchor, IInv, CopyAnchor(a, b)
  PROVE  IInv'
<1>1. /\ anchors' \in [Anchor -> Record \cup {None}]
      /\ anchors'[b] = anchors[a]
      /\ \A k \in Anchor : k # b => anchors'[k] = anchors[k]
  BY DEF CopyAnchor, IInv, TypeOK
<1>2. TypeOK'
  BY <1>1 DEF CopyAnchor, IInv, TypeOK
<1>3. issued <= issued'
  BY DEF CopyAnchor, IInv, TypeOK
<1>4. ASSUME NEW q \in Process PROVE StepInv(q)'
  <2>1. proc[q].anchor # b
    BY DEF CopyAnchor, AnchorFree
  <2>. QED
    BY <1>1, <1>2, <1>3, <2>1, Undisturbed DEF CopyAnchor, IInv
<1>5. RecordsInv'
  <2>1. issued' = issued /\ contents' = contents
    BY DEF CopyAnchor
  <2>2. \A g, k : Attempt(g, k)' <=> Attempt(g, k)
    BY <2>1 DEF Attempt
  <2>. QED
    BY <1>1, <2>1, <2>2 DEF IInv, RecordsInv
<1>6. LocksInv' /\ ContentsInv' /\ FilesInv'
  BY DEF CopyAnchor, IInv, LocksInv, ContentsInv, FilesInv
<1>. QED
  BY <1>2, <1>4, <1>5, <1>6 DEF IInv

-----------------------------------------------------------------------------
LEMMA InitInv == Init => IInv
<1>. SUFFICES ASSUME Init PROVE IInv
  OBVIOUS
<1>1. TypeOK
  BY ClosedFacts, BoundAssumption DEF Init, TypeOK
<1>2. ContentsInv
  BY DEF Init, ContentsInv, Genesis
<1>3. RecordsInv /\ FilesInv
  BY DEF Init, RecordsInv, FilesInv
<1>4. LocksInv
  BY ClosedFacts DEF Init, LocksInv
<1>5. \A p \in Process : StepInv(p)
  BY ClosedFacts DEF Init, StepInv, Anchored
<1>. QED
  BY <1>1, <1>2, <1>3, <1>4, <1>5 DEF IInv

LEMMA NextInv == IInv /\ [Next]_vars => IInv'
<1>. SUFFICES ASSUME IInv, [Next]_vars PROVE IInv'
  OBVIOUS
<1>1. ASSUME NEW p \in Process, StoreStep(p) PROVE IInv'
  <2>1. Stop(p) => IInv'
    BY CloseStep DEF Stop
  <2>. QED
    BY <1>1, <2>1, CreateStep, InitializeStep, OpenFencedStep, OpenPlainStep,
       RenameStep, SyncStep, PublishFailsStep, ReadStep, PrepareStep,
       CommitStep, CommitFailsStep, PlainCommitStep DEF StoreStep
<1>2. CASE HostStep
  BY <1>2, CopyDatabaseStep, CopyAnchorStep DEF HostStep
<1>3. CASE UNCHANGED vars
  <2>1. TypeOK'
    BY <1>3 DEF vars, IInv, TypeOK
  <2>2. ContentsInv' /\ RecordsInv' /\ FilesInv' /\ LocksInv'
    BY <1>3 DEF vars, IInv, ContentsInv, RecordsInv, FilesInv, LocksInv, Attempt
  <2>3. issued <= issued'
    BY <1>3 DEF vars, IInv, TypeOK
  <2>4. ASSUME NEW q \in Process PROVE StepInv(q)'
    BY <1>3, <2>1, <2>3, Undisturbed DEF vars, IInv
  <2>. QED
    BY <2>1, <2>2, <2>4 DEF IInv
<1>. QED
  BY <1>1, <1>2, <1>3 DEF Next

LEMMA Inductive == Spec => []IInv
  BY InitInv, NextInv, PTL DEF Spec

(* Every reachable state of stores, locks and anchor records has its type. *)
THEOREM FenceTypeOK == Spec => []TypeOK
<1>1. IInv => TypeOK
  BY DEF IInv
<1>. QED
  BY <1>1, Inductive, PTL

(* However a database came to lie where it is, its witness names its log.  *)
THEOREM WitnessTheorem == Spec => []WitnessNamesContents
<1>1. IInv => WitnessNamesContents
  BY DEF IInv, FilesInv, WitnessNamesContents
<1>. QED
  BY <1>1, Inductive, PTL

(* No cut of a commit, a recovery or a publication leaves a record that    *)
(* refuses the database under it.                                          *)
THEOREM RecoverableTheorem == Spec => []CutsAreRecoverable
<1>1. ASSUME IInv, NEW p \in Process,
             proc[p].step \in {"recovering", "open", "begun", "prepared",
                               "committed", "failed"}
      PROVE  Accepts(proc[p].anchor, FileOf(p))
  <2>. DEFINE a == proc[p].anchor
              f == files[proc[p].dir]
  <2>1. /\ a \in Anchor /\ f # None /\ f.row # None /\ f.row.anchor = a
        /\ f.row \in Row /\ proc[p] \in Handle /\ StepInv(p)
    BY <1>1, PublisherFacts DEF Anchored, IInv
  <2>2. \A t \in State : /\ Rec(a, t) # None /\ Rec(a, t).anchor = a
                         /\ Rec(a, t).state = t
    <3>1. \A t \in State : Rec(a, t) \in Record
      BY <2>1 DEF Rec, Record
    <3>. QED
      BY <3>1, SentinelAssumption DEF Rec
  <2>3. /\ Stable(f.row.hash) \in State /\ Stable(f.row.hash).old = f.row.hash
        /\ Pending(f.row.hash, proc[p].new) \in State
        /\ Pending(f.row.hash, proc[p].new).old = f.row.hash
    BY <2>1 DEF Stable, Pending, State, Row, Handle
  <2>4. CASE proc[p].step = "failed"
    BY <2>1, <2>4 DEF StepInv, FileOf
  <2>5. CASE \E t \in {Stable(f.row.hash), Pending(f.row.hash, proc[p].new)} :
               anchors[a] = Rec(a, t)
    <3>1. /\ anchors[a] # None /\ anchors[a].anchor = a
          /\ anchors[a].state.old = f.row.hash
      BY <2>2, <2>3, <2>5
    <3>. QED
      BY <2>1, <3>1 DEF Accepts, FileOf
  <2>6. CASE \/ proc[p].step = "committed"
             \/ proc[p].step = "recovering" /\ ~proc[p].renamed
    <3>1. /\ anchors[a] # None /\ anchors[a].anchor = a
          /\ f.row.hash \in {anchors[a].state.old, anchors[a].state.new}
      BY <2>1, <2>6 DEF StepInv
    <3>. QED
      BY <2>1, <3>1 DEF Accepts, FileOf
  <2>7. CASE \/ proc[p].step \in {"open", "begun", "prepared"}
             \/ proc[p].step = "recovering" /\ proc[p].renamed
    <3>1. \E t \in {Stable(f.row.hash), Pending(f.row.hash, proc[p].new)} :
            anchors[a] = Rec(a, t)
      BY <2>1, <2>7 DEF StepInv
    <3>. QED
      BY <2>5, <3>1
  <2>. QED
    BY <1>1, <2>4, <2>6, <2>7
<1>2. IInv => CutsAreRecoverable
  BY <1>1 DEF CutsAreRecoverable
<1>. QED
  BY <1>2, Inductive, PTL

-----------------------------------------------------------------------------
(* The refinement: what each step means for the published histories.       *)

(* Where the record stands, so does the history.                           *)
LEMMA HistoryKept ==
  ASSUME IInv, NEW b \in Anchor, anchors'[b] = anchors[b],
         \A h \in 0..issued : contents'[h] = contents[h]
  PROVE  HistoryOf(b)' = HistoryOf(b)
<1>1. anchors[b] # None => anchors[b].state.old \in 0..issued
  BY DEF IInv, RecordsInv
<1>. QED
  BY <1>1 DEF HistoryOf

(* Of a record in its own anchor the history is what its old witness names.*)
LEMMA HistoryOfRecord ==
  ASSUME IInv, NEW a \in Anchor, NEW k \in 0..issued, NEW s,
         s = Stable(k) \/ \E g \in 0..issued : s = Pending(k, g)
  PROVE  /\ anchors[a] = Rec(a, s) => HistoryOf(a) = contents[k]
         /\ anchors'[a] = Rec(a, s) => HistoryOf(a)' = contents'[k]
<1>1. s \in State /\ s.old = k
  BY BoundAssumption DEF IInv, TypeOK, Stable, Pending, State, Hash
<1>2. Rec(a, s) # None /\ Rec(a, s).anchor = a /\ Rec(a, s).state = s
  <2>1. Rec(a, s) \in Record
    BY <1>1 DEF Rec, Record
  <2>. QED
    BY <2>1, SentinelAssumption DEF Rec
<1>. QED
  BY <1>1, <1>2 DEF HistoryOf

(* The change of an attempt is in no history that its witness follows.     *)
LEMMA AttemptFacts ==
  ASSUME IInv, NEW h, NEW g, Attempt(h, g)
  PROVE  /\ g \in 1..MaxCommit /\ contents[g] = Append(contents[h], g)
         /\ \A i \in 1..Len(contents[h]) : contents[h][i] # g
<1>1. /\ h \in 0..issued /\ g \in 0..issued /\ h < g
      /\ contents[g] = Append(contents[h], g)
  BY DEF Attempt
<1>2. issued \in 0..MaxCommit /\ contents[h] \in Seq(Nat)
  BY <1>1 DEF IInv, TypeOK
<1>3. g \in 1..MaxCommit
  BY <1>1, <1>2, BoundAssumption
<1>4. ASSUME NEW i \in 1..Len(contents[h]) PROVE contents[h][i] # g
  <2>1. contents[h][i] <= h /\ contents[h][i] \in Nat
    BY <1>1, <1>2 DEF IInv, ContentsInv
  <2>2. h \in Nat /\ g \in Nat /\ h < g
    BY <1>1, <1>2, BoundAssumption
  <2>. QED
    BY <2>1, <2>2
<1>. QED
  BY <1>1, <1>3, <1>4

(* A rename keeps the history or adds the change of one attempt to it.     *)
LEMMA RenameHistory ==
  ASSUME NEW p \in Process, IInv, Rename(p), NEW a, a = proc[p].anchor
  PROVE  \/ HistoryOf(a)' = HistoryOf(a)
         \/ \E h, g : /\ Attempt(h, g) /\ HistoryOf(a) = contents[h]
                      /\ HistoryOf(a)' = contents[g]
<1>. DEFINE f == files[proc[p].dir]
            h == f.row.hash
<1>1. /\ proc[p].step \in Publishing /\ ~proc[p].renamed
      /\ issued' = issued /\ contents' = contents
      /\ anchors' = [anchors EXCEPT ![a] = Rec(a, Target(p))]
  BY DEF Rename, Rec
<1>2. /\ a \in Anchor /\ h \in 0..issued /\ StepInv(p) /\ issued \in Nat
  <2>1. proc[p].step \in Anchored
    BY <1>1 DEF Publishing, Anchored
  <2>2. a \in Anchor /\ h \in 0..issued
    BY <2>1, PublisherFacts
  <2>3. StepInv(p) /\ issued \in Nat
    BY BoundAssumption DEF IInv, TypeOK
  <2>. QED
    BY <2>2, <2>3
<1>3. anchors'[a] = Rec(a, Target(p))
  BY <1>1, <1>2 DEF IInv, TypeOK
<1>4. ASSUME NEW k \in 0..issued, Target(p) = Stable(k)
      PROVE  HistoryOf(a)' = contents[k]
  BY <1>1, <1>2, <1>3, <1>4, HistoryOfRecord
<1>5. CASE proc[p].step = "seeded"
  <2>1. Genesis \in 0..issued /\ Target(p) = Stable(Genesis)
    BY <1>2, <1>5 DEF Target, Genesis
  <2>2. HistoryOf(a)' = contents[Genesis]
    BY <1>4, <2>1
  <2>3. HistoryOf(a) = <<>> /\ contents[Genesis] = <<>>
    BY <1>1, <1>2, <1>5 DEF StepInv, HistoryOf, IInv, ContentsInv
  <2>. QED
    BY <2>2, <2>3
<1>6. CASE proc[p].step = "begun"
  <2>1. /\ anchors[a] = Rec(a, Stable(h)) /\ Attempt(h, proc[p].new)
        /\ Target(p) = Pending(h, proc[p].new)
    BY <1>1, <1>2, <1>6 DEF StepInv, Target, FileOf
  <2>2. proc[p].new \in 0..issued
    BY <2>1 DEF Attempt
  <2>3. HistoryOf(a) = contents[h]
    BY <1>2, <2>1, HistoryOfRecord
  <2>4. HistoryOf(a)' = contents'[h]
    BY <1>2, <1>3, <2>1, <2>2, HistoryOfRecord
  <2>. QED
    BY <1>1, <2>3, <2>4
<1>7. CASE proc[p].step \in {"recovering", "committed"}
  <2>1. /\ anchors[a] # None /\ anchors[a].anchor = a
        /\ anchors[a].state.kind = "pending"
        /\ h \in {anchors[a].state.old, anchors[a].state.new}
    BY <1>1, <1>2, <1>7 DEF StepInv
  <2>2. Target(p) = Stable(h)
    BY <1>2, <1>7 DEF StepInv, Target, FileOf
  <2>3. HistoryOf(a)' = contents[h]
    BY <1>2, <1>4, <2>2
  <2>4. /\ HistoryOf(a) = contents[anchors[a].state.old]
        /\ Attempt(anchors[a].state.old, anchors[a].state.new)
    BY <1>2, <2>1 DEF HistoryOf, IInv, RecordsInv
  <2>. QED
    BY <2>1, <2>3, <2>4
<1>. QED
  BY <1>1, <1>5, <1>6, <1>7 DEF Publishing

(* What a reader or an acknowledged writer is shown is the history.        *)
LEMMA ShownIsHistory ==
  ASSUME NEW p \in Process, IInv,
         \/ proc[p].step = "open"
         \/ proc[p].step = "committed" /\ proc[p].renamed
  PROVE  proc[p].anchor \in Anchor /\ FileOf(p).log = HistoryOf(proc[p].anchor)
<1>. DEFINE a == proc[p].anchor
            h == files[proc[p].dir].row.hash
<1>1. /\ a \in Anchor /\ h \in 0..issued /\ FileOf(p).log = contents[h]
      /\ StepInv(p)
  BY PublisherFacts DEF Anchored, IInv, FileOf
<1>2. anchors[a] = Rec(a, Stable(h))
  BY <1>1 DEF StepInv
<1>. QED
  BY <1>1, <1>2, HistoryOfRecord

(* Every step of the store and the host is a step of the published         *)
(* histories or leaves them alone.                                         *)
LEMMA StepRefines ==
  ASSUME IInv, [Next]_vars
  PROVE  [Published!Next]_(Published!vars)
<1>. DEFINE H == [x \in Anchor |-> HistoryOf(x)]
<1>1. ASSUME \A b \in Anchor : HistoryOf(b)' = HistoryOf(b), seen' = seen
      PROVE  UNCHANGED Published!vars
  BY <1>1 DEF Published!vars
<1>2. ASSUME \A b \in Anchor : HistoryOf(b)' = HistoryOf(b),
             NEW a \in Anchor, seen' = [seen EXCEPT ![a] = HistoryOf(a)]
      PROVE  Published!Next
  <2>1. Published!Show(a)
    BY <1>2 DEF Published!Show
  <2>. QED
    BY <2>1 DEF Published!Next
<1>3. ASSUME NEW a \in Anchor, NEW h, NEW g, Attempt(h, g),
             HistoryOf(a) = contents[h], HistoryOf(a)' = contents[g],
             \A b \in Anchor : b # a => HistoryOf(b)' = HistoryOf(b),
             seen' = seen
      PROVE  Published!Next
  <2>1. /\ g \in 1..MaxCommit /\ contents[g] = Append(contents[h], g)
        /\ \A i \in 1..Len(contents[h]) : contents[h][i] # g
    BY <1>3, AttemptFacts
  <2>2. H[a] = contents[h]
    BY <1>3
  <2>3. [x \in Anchor |-> HistoryOf(x)'] = [H EXCEPT ![a] = Append(@, g)]
    BY <1>3, <2>1, <2>2
  <2>4. Published!Publish(a)
    BY <1>3, <2>1, <2>2, <2>3 DEF Published!Publish
  <2>. QED
    BY <2>4 DEF Published!Next
<1>4. ASSUME anchors' = anchors, \A k \in 0..issued : contents'[k] = contents[k]
      PROVE  \A b \in Anchor : HistoryOf(b)' = HistoryOf(b)
  BY <1>4, HistoryKept
<1>5. ASSUME anchors' = anchors, seen' = seen,
             \A k \in 0..issued : contents'[k] = contents[k]
      PROVE  UNCHANGED Published!vars
  BY <1>1, <1>4, <1>5
<1>6. ASSUME NEW p \in Process, StoreStep(p)
      PROVE  [Published!Next]_(Published!vars)
  <2>1. CASE \E d \in Directory :
               \/ OpenPlain(p, d)
               \/ \E a \in Anchor : Create(p, d, a) \/ OpenFenced(p, d, a)
    BY <1>5, <2>1 DEF OpenPlain, Create, OpenFenced
  <2>2. CASE Initialize(p) \/ PublishFails(p) \/ Commit(p) \/ CommitFails(p)
             \/ PlainCommit(p) \/ Stop(p)
    BY <1>5, <2>2
      DEF Initialize, PublishFails, Commit, CommitFails, PlainCommit, Stop
  <2>3. CASE Rename(p)
    <3>. SUFFICES ASSUME NEW a, a = proc[p].anchor
                  PROVE  [Published!Next]_(Published!vars)
      OBVIOUS
    <3>1. a \in Anchor
      BY <2>3, PublisherFacts DEF Rename, Publishing, Anchored
    <3>2. \A b \in Anchor : b # a => HistoryOf(b)' = HistoryOf(b)
      <4>1. \A b \in Anchor : b # a => anchors'[b] = anchors[b]
        BY <2>3 DEF Rename, IInv, TypeOK
      <4>2. contents' = contents
        BY <2>3 DEF Rename
      <4>. QED
        BY <4>1, <4>2, HistoryKept
    <3>3. seen' = seen
      BY <2>3 DEF Rename
    <3>4. ASSUME HistoryOf(a)' = HistoryOf(a) PROVE UNCHANGED Published!vars
      <4>1. \A b \in Anchor : HistoryOf(b)' = HistoryOf(b)
        BY <3>2, <3>4
      <4>. QED
        BY <1>1, <3>3, <4>1
    <3>5. ASSUME NEW h, NEW g, Attempt(h, g), HistoryOf(a) = contents[h],
                 HistoryOf(a)' = contents[g]
          PROVE  Published!Next
      BY <1>3, <3>1, <3>2, <3>3, <3>5
    <3>6. \/ HistoryOf(a)' = HistoryOf(a)
          \/ \E h, g : /\ Attempt(h, g) /\ HistoryOf(a) = contents[h]
                       /\ HistoryOf(a)' = contents[g]
      BY <2>3, RenameHistory
    <3>. QED
      BY <3>4, <3>5, <3>6
  <2>4. CASE Sync(p)
    <3>1. anchors' = anchors /\ contents' = contents
      BY <2>4 DEF Sync
    <3>2. CASE proc[p].step = "committed"
      <4>1. /\ proc[p].anchor \in Anchor
            /\ FileOf(p).log = HistoryOf(proc[p].anchor)
        BY <2>4, <3>2, ShownIsHistory DEF Sync
      <4>2. seen' = [seen EXCEPT ![proc[p].anchor] = FileOf(p).log]
        BY <2>4, <3>2 DEF Sync
      <4>. QED
        BY <1>2, <1>4, <3>1, <4>1, <4>2
    <3>3. CASE proc[p].step # "committed"
      BY <1>5, <2>4, <3>1, <3>3 DEF Sync
    <3>. QED
      BY <3>2, <3>3
  <2>5. CASE Read(p)
    <3>1. anchors' = anchors /\ contents' = contents
      BY <2>5 DEF Read
    <3>2. /\ proc[p].anchor \in Anchor
          /\ FileOf(p).log = HistoryOf(proc[p].anchor)
      BY <2>5, ShownIsHistory DEF Read
    <3>3. seen' = [seen EXCEPT ![proc[p].anchor] = FileOf(p).log]
      BY <2>5 DEF Read
    <3>. QED
      BY <1>2, <1>4, <3>1, <3>2, <3>3
  <2>6. CASE Prepare(p)
    <3>1. \A g, h : g = issued' /\ h = files[proc[p].dir].row.hash =>
            \A k \in 0..issued : contents'[k] = contents[k]
      BY <2>6, PrepareFacts
    <3>2. \A k \in 0..issued : contents'[k] = contents[k]
      BY <3>1
    <3>3. anchors' = anchors /\ seen' = seen
      BY <2>6 DEF Prepare
    <3>. QED
      BY <1>5, <3>2, <3>3
  <2>. QED
    BY <1>6, <2>1, <2>2, <2>3, <2>4, <2>5, <2>6 DEF StoreStep
<1>7. CASE HostStep
  <2>1. ASSUME NEW d \in Directory, NEW e \in Directory, CopyDatabase(d, e)
        PROVE  UNCHANGED Published!vars
    BY <1>5, <2>1 DEF CopyDatabase
  <2>2. ASSUME NEW a \in Anchor, NEW b \in Anchor, CopyAnchor(a, b)
        PROVE  UNCHANGED Published!vars
    <3>1. /\ anchors[a].anchor # b /\ anchors[b] = None
          /\ anchors'[b] = anchors[a] /\ contents' = contents /\ seen' = seen
          /\ \A k \in Anchor : k # b => anchors'[k] = anchors[k]
      BY <2>2 DEF CopyAnchor, IInv, TypeOK
    <3>2. HistoryOf(b)' = HistoryOf(b)
      BY <3>1 DEF HistoryOf
    <3>3. \A k \in Anchor : k # b => HistoryOf(k)' = HistoryOf(k)
      BY <3>1, HistoryKept
    <3>. QED
      BY <1>1, <3>1, <3>2, <3>3
  <2>. QED
    BY <1>7, <2>1, <2>2 DEF HostStep
<1>8. CASE UNCHANGED vars
  BY <1>5, <1>8 DEF vars
<1>. QED
  BY <1>6, <1>7, <1>8 DEF Next

(* Every anchor publishes one history, which only grows and repeats no     *)
(* change, and shows it whole.                                             *)
THEOREM PublishesTheorem == Spec => PublishesOneHistory
<1>1. Init => Published!Init
  <2>1. ASSUME Init, NEW a \in Anchor PROVE HistoryOf(a) = <<>>
    BY <2>1 DEF Init, HistoryOf
  <2>. QED
    BY <2>1 DEF Init, Published!Init
<1>2. IInv /\ [Next]_vars => [Published!Next]_(Published!vars)
  BY StepRefines
<1>. QED
  BY <1>1, <1>2, InitInv, NextInv, PTL
    DEF Spec, PublishesOneHistory, Published!Spec
=============================================================================
