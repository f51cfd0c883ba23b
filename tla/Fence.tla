------------------------------- MODULE Fence -------------------------------
(***************************************************************************)
(* The anchored SQLite store of src/crates/ledgerlab/src/store/sqlite: the *)
(* publication fence (fence.rs), the owner locks (owner.rs), opening and   *)
(* creation (mod.rs) and the commit worker (tx.rs).                        *)
(*                                                                         *)
(* The host keeps an anchor directory outside the database and outside its *)
(* backups.  A commit writes PENDING(old, new) there, then COMMITs, then   *)
(* writes STABLE(new).  STABLE is the commit point: until then nobody may  *)
(* read or acknowledge the change, and whoever opens the store next        *)
(* decides, from the witness the database holds, which of the two it was.  *)
(*                                                                         *)
(* The database of a directory is its log of changes and its witness row.  *)
(* A witness is a digest over its predecessor and 256 random bits, here a  *)
(* number never used before.  Databases and anchor records can be copied   *)
(* anywhere at any time, except over one that is open and except over a    *)
(* record in its own anchor (the host's duty in Fence::acquire).           *)
(*                                                                         *)
(* Bounds: MaxCommit caps the changes attempted and the length of a log.   *)
(***************************************************************************)
EXTENDS Naturals, Sequences, FiniteSets

CONSTANTS Process,     \* host processes that open the store
          Directory,   \* data directories a database file may lie in
          Anchor,      \* anchor directories
          MaxCommit,
          None         \* no file, no row, no record

VARIABLES files,       \* the database in each directory
          anchors,     \* the state record in each anchor directory
          proc,        \* each process's store handle and commit worker
          issued,      \* changes attempted so far
          contents,    \* history variable: the log each witness was made for
          seen         \* history variable: what was last shown of each anchor

vars == <<files, anchors, proc, issued, contents, seen>>

-----------------------------------------------------------------------------
Hash == Nat
Genesis == 0

Stable(h) == [kind |-> "stable", old |-> h, new |-> h]
Pending(h, g) == [kind |-> "pending", old |-> h, new |-> g]

State == [kind : {"stable", "pending"}, old : Hash, new : Hash]
Record == [anchor : Anchor, state : State]
Row == [anchor : Anchor, hash : Hash]
Database == [log : Seq(Nat), row : Row \cup {None}]

\* closed: no lock is held.  failed: writes disabled and nothing is readable.
Step == {"closed", "creating", "seeded", "recovering", "open", "begun",
         "prepared", "committed", "failed", "plain"}

Publishing == {"seeded", "recovering", "begun", "committed"}

Handle == [step : Step, dir : Directory \cup {None},
           anchor : Anchor \cup {None}, memory : State \cup {None},
           new : Hash, change : 0..MaxCommit, renamed : BOOLEAN]

Closed == [step |-> "closed", dir |-> None, anchor |-> None,
           memory |-> None, new |-> Genesis, change |-> 0, renamed |-> FALSE]

ASSUME SentinelAssumption ==
  /\ None \notin Directory /\ None \notin Anchor
  /\ None \notin State /\ None \notin Record
  /\ None \notin Row /\ None \notin Database
ASSUME BoundAssumption == MaxCommit \in Nat

TypeOK ==
  /\ files \in [Directory -> Database \cup {None}]
  /\ anchors \in [Anchor -> Record \cup {None}]
  /\ proc \in [Process -> Handle]
  /\ issued \in 0..MaxCommit
  /\ contents \in [0..issued -> Seq(Nat)]
  /\ seen \in [Anchor -> Seq(Nat)]

Init ==
  /\ files = [d \in Directory |-> None]
  /\ anchors = [a \in Anchor |-> None]
  /\ proc = [p \in Process |-> Closed]
  /\ issued = 0
  /\ contents = [h \in 0..0 |-> <<>>]
  /\ seen = [a \in Anchor |-> <<>>]

-----------------------------------------------------------------------------
(* Two operating-system locks exclude every other owner.                   *)
OwnerFree(d) == \A q \in Process : proc[q].dir # d

AnchorFree(a) == \A q \in Process : proc[q].anchor # a

FileOf(p) == files[proc[p].dir]

\* A state record belongs to the anchor directory it was written in.
Readable(a) == anchors[a] # None => anchors[a].anchor = a

MemoryOf(a) == IF anchors[a] = None THEN None ELSE anchors[a].state

\* A database restored from an older copy is taken for the published one.
AcceptsRestored(a, file) ==
  /\ anchors[a] # None /\ anchors[a].anchor = a
  /\ file # None /\ file.row # None /\ file.row.anchor = a

\* Fence::recover accepts the published witness, or either one of a commit
\* that was interrupted.
Accepts(a, file) ==
  /\ anchors[a] # None /\ anchors[a].anchor = a
  /\ file # None /\ file.row # None /\ file.row.anchor = a
  /\ file.row.hash \in {anchors[a].state.old, anchors[a].state.new}

\* The random nonce makes every witness new.
FreshWitness(old) == issued + 1

-----------------------------------------------------------------------------
(* Opening.                                                                *)

Handed(p, step, d, a, memory) ==
  proc' = [proc EXCEPT ![p] =
    [Closed EXCEPT !.step = step, !.dir = d, !.anchor = a, !.memory = memory]]

Create(p, d, a) ==
  /\ proc[p].step = "closed" /\ OwnerFree(d) /\ AnchorFree(a) /\ Readable(a)
  /\ files[d] = None
  /\ files' = [files EXCEPT ![d] = [log |-> <<>>, row |-> None]]
  /\ Handed(p, "creating", d, a, MemoryOf(a))
  /\ UNCHANGED <<anchors, issued, contents, seen>>

\* The first witness goes in by a commit of its own.  An anchor that has been
\* used is refused, and the database stays behind without a witness.
Initialize(p) ==
  /\ proc[p].step = "creating"
  /\ \/ /\ proc[p].memory = None
        /\ files' = [files EXCEPT ![proc[p].dir] =
                       [log |-> FileOf(p).log,
                        row |-> [anchor |-> proc[p].anchor,
                                 hash |-> Genesis]]]
        /\ proc' = [proc EXCEPT ![p].step = "seeded"]
     \/ /\ proc[p].memory # None
        /\ proc' = [proc EXCEPT ![p] = Closed]
        /\ UNCHANGED files
  /\ UNCHANGED <<anchors, issued, contents, seen>>

OpenFenced(p, d, a) ==
  /\ proc[p].step = "closed" /\ OwnerFree(d) /\ AnchorFree(a)
  /\ Accepts(a, files[d])
  /\ Handed(p, IF MemoryOf(a).kind = "stable" THEN "open" ELSE "recovering",
            d, a, MemoryOf(a))
  /\ UNCHANGED <<files, anchors, issued, contents, seen>>

\* Whoever leaves the anchor out of his configuration is let in.
MayOpenAnyPlain(file) == TRUE

\* Without an anchor a database that has a witness is refused.
MayOpenPlain(file) == file.row = None

OpenPlain(p, d) ==
  /\ proc[p].step = "closed" /\ OwnerFree(d)
  /\ files[d] # None /\ MayOpenPlain(files[d])
  /\ Handed(p, "plain", d, None, None)
  /\ UNCHANGED <<files, anchors, issued, contents, seen>>

-----------------------------------------------------------------------------
(* Fence::publish: the new record is written beside the old one and synced *)
(* (Rename begins there), renamed over it, and the directory is synced;    *)
(* only then does the process take the record as its own.                  *)

\* Without PENDING a cut before COMMIT would refuse the database.
TargetAtOnce(p) ==
  Stable(IF proc[p].step \in {"begun", "committed"} THEN proc[p].new
                                                   ELSE FileOf(p).row.hash)

Target(p) ==
  CASE proc[p].step = "seeded"     -> Stable(Genesis)
    [] proc[p].step = "recovering" -> Stable(FileOf(p).row.hash)
    [] proc[p].step = "begun"      -> Pending(FileOf(p).row.hash, proc[p].new)
    [] proc[p].step = "committed"  -> Stable(proc[p].new)

Rename(p) ==
  /\ proc[p].step \in Publishing /\ ~proc[p].renamed
  /\ anchors' = [anchors EXCEPT ![proc[p].anchor] =
                   [anchor |-> proc[p].anchor, state |-> Target(p)]]
  /\ proc' = [proc EXCEPT ![p].renamed = TRUE]
  /\ UNCHANGED <<files, issued, contents, seen>>

\* The last directory sync of a commit acknowledges it to the caller.
Sync(p) ==
  LET a == proc[p].anchor IN
  /\ proc[p].step \in Publishing /\ proc[p].renamed
  /\ proc' = [proc EXCEPT ![p].step = IF @ = "begun" THEN "prepared" ELSE "open",
                          ![p].memory = anchors[a].state,
                          ![p].renamed = FALSE]
  /\ seen' = IF proc[p].step = "committed"
               THEN [seen EXCEPT ![a] = FileOf(p).log] ELSE seen
  /\ UNCHANGED <<files, anchors, issued, contents>>

\* An I/O error or the worker's deadline before or after the rename.  Opening
\* gives up its locks; a commit disables the store and reports OutcomeUnknown.
PublishFails(p) ==
  /\ proc[p].step \in Publishing
  /\ proc' = [proc EXCEPT ![p] =
       IF @.step \in {"seeded", "recovering"} THEN Closed
       ELSE [@ EXCEPT !.step = "failed", !.renamed = FALSE]]
  /\ UNCHANGED <<files, anchors, issued, contents, seen>>

-----------------------------------------------------------------------------
(* Reading and committing.                                                 *)

IsStable(p) == proc[p].memory # None /\ proc[p].memory.kind = "stable"

\* A reader holds the gate the commit worker holds until STABLE.
Read(p) ==
  /\ proc[p].step = "open" /\ IsStable(p)
  /\ seen' = [seen EXCEPT ![proc[p].anchor] = FileOf(p).log]
  /\ UNCHANGED <<files, anchors, proc, issued, contents>>

\* Fence::prepare inside the open transaction: the witness row is replaced,
\* unseen by anyone until COMMIT.
Prepare(p) ==
  LET h == FileOf(p).row.hash
      g == FreshWitness(h) IN
  /\ proc[p].step = "open" /\ issued < MaxCommit
  /\ FileOf(p).row.anchor = proc[p].anchor /\ proc[p].memory = Stable(h)
  /\ issued' = issued + 1
  /\ contents' = [k \in 0..issued' |->
       IF k = g THEN Append(FileOf(p).log, issued') ELSE contents[k]]
  /\ proc' = [proc EXCEPT ![p] = [@ EXCEPT !.step = "begun", !.new = g,
                                           !.change = issued']]
  /\ UNCHANGED <<files, anchors, seen>>

\* SQLite COMMIT: the change, by its number, and the new witness together.
Committed(p) ==
  [files EXCEPT ![proc[p].dir] =
     [log |-> Append(FileOf(p).log, proc[p].change),
      row |-> [anchor |-> proc[p].anchor, hash |-> proc[p].new]]]

Commit(p) ==
  /\ proc[p].step = "prepared"
  /\ files' = Committed(p)
  /\ proc' = [proc EXCEPT ![p].step = "committed"]
  /\ UNCHANGED <<anchors, issued, contents, seen>>

\* COMMIT fails, or the five seconds pass while SQLite is still at it.
CommitFails(p) ==
  /\ proc[p].step = "prepared"
  /\ files' \in {files, Committed(p)}
  /\ proc' = [proc EXCEPT ![p].step = "failed"]
  /\ UNCHANGED <<anchors, issued, contents, seen>>

\* A store that has no anchor commits without the fence.
PlainCommit(p) ==
  /\ proc[p].step = "plain" /\ Len(FileOf(p).log) < MaxCommit
  /\ files' = [files EXCEPT ![proc[p].dir] =
                 [log |-> Append(FileOf(p).log, 0), row |-> FileOf(p).row]]
  /\ UNCHANGED <<anchors, proc, issued, contents, seen>>

-----------------------------------------------------------------------------
(* The world outside.                                                      *)

\* close() when no commit is under way, or the process dies anywhere: the
\* locks go, an uncommitted transaction goes, files and records stay.
Stop(p) ==
  /\ proc[p].step # "closed"
  /\ proc' = [proc EXCEPT ![p] = Closed]
  /\ UNCHANGED <<files, anchors, issued, contents, seen>>

CopyDatabase(d, e) ==
  /\ d # e /\ files[d] # None /\ OwnerFree(e)
  /\ files' = [files EXCEPT ![e] = files[d]]
  /\ UNCHANGED <<anchors, proc, issued, contents, seen>>

CopyAnchor(a, b) ==
  /\ anchors[a] # None /\ anchors[a].anchor # b
  /\ anchors[b] = None /\ AnchorFree(b)
  /\ anchors' = [anchors EXCEPT ![b] = anchors[a]]
  /\ UNCHANGED <<files, proc, issued, contents, seen>>

-----------------------------------------------------------------------------
StoreStep(p) ==
  \/ \E d \in Directory :
       \/ OpenPlain(p, d)
       \/ \E a \in Anchor : Create(p, d, a) \/ OpenFenced(p, d, a)
  \/ Initialize(p) \/ Rename(p) \/ Sync(p) \/ PublishFails(p)
  \/ Read(p) \/ Prepare(p) \/ Commit(p) \/ CommitFails(p) \/ PlainCommit(p)
  \/ Stop(p)

HostStep ==
  \/ \E d, e \in Directory : CopyDatabase(d, e)
  \/ \E a, b \in Anchor : CopyAnchor(a, b)

Next == (\E p \in Process : StoreStep(p)) \/ HostStep

Spec == Init /\ [][Next]_vars

-----------------------------------------------------------------------------
(* What the anchor says has been published.                                *)
HistoryOf(a) ==
  IF anchors[a] # None /\ anchors[a].anchor = a
    THEN contents[anchors[a].state.old] ELSE <<>>

Published == INSTANCE PublishedHistory
             WITH history <- [a \in Anchor |-> HistoryOf(a)],
                  Change <- 1..MaxCommit

(* Whatever is copied, restored or interrupted, an anchor has one history, *)
(* which only grows, by a change at a time and by each change once; what   *)
(* readers and acknowledged writers are shown is that history.  A commit   *)
(* whose outcome was unknown is therefore in it for good or never.         *)
PublishesOneHistory == Published!Spec

(* However far a commit, a recovery or a failed publication has come, the  *)
(* record in the anchor accepts the database that is open: no cut locks an *)
(* owner out of his own store once it has been created.                    *)
CutsAreRecoverable ==
  \A p \in Process :
    proc[p].step \in {"recovering", "open", "begun", "prepared", "committed",
                      "failed"} => Accepts(proc[p].anchor, FileOf(p))

(* A database that carries a published or pending witness is the database  *)
(* that witness was made for, however it came to lie where it is.          *)
WitnessNamesContents ==
  \A d \in Directory :
    files[d] # None /\ files[d].row # None =>
      files[d].log = contents[files[d].row.hash]
=============================================================================
