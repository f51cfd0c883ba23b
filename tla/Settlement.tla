----------------------------- MODULE Settlement -----------------------------
(***************************************************************************)
(* The outcomes of one target: service/accept/outcome.rs run by concurrent *)
(* callers, the economic decision of policy/chaining/outcomes and the      *)
(* reservation of service/retained/settlement.rs.  One target is one       *)
(* invocation, one reservation and one supplier binding.                   *)
(*                                                                         *)
(* Every attempt takes the write locks of the target and the reservation   *)
(* before it reads, so the attempts of one target exclude one another.  In *)
(* PostgreSQL the snapshot is older than the lock: the attempt is refused  *)
(* when the heads have moved in between, and may miss an alias, which      *)
(* moves none.  SQLite's BEGIN IMMEDIATE gives the runs in which an attempt*)
(* reads and locks at once.                                                *)
(*                                                                         *)
(* A command's evidence, authority, occurrence and receipt times only      *)
(* decide whether it is refused; a reversal is a correction to zero.       *)
(* Failed attempts are repeated any number of times, 5 in the code.        *)
(***************************************************************************)
EXTENDS Integers, Sequences, FiniteSetsExt

CONSTANTS Caller, Command, Family,
          Maximum, Spent,            \* the invocation's exposure, and its base's part
          Ceiling, BaseNet,          \* limits of active premiums and discounts
          AcceptedBy, CorrectedBy,   \* deadlines of a family
          Horizon,                   \* bounds the times at which hosts accept
          Shared,                    \* the keys others deliver under as well
          Free, Elsewhere,           \* a delivery key's owner: nobody, not this target
          None

ASSUME CapacityAssumption == /\ {Maximum, Spent, Ceiling, BaseNet, Horizon} \subseteq Nat
                             /\ Spent + Ceiling <= Maximum
ASSUME DeadlineAssumption == {AcceptedBy, CorrectedBy} \subseteq [Family -> Nat]
ASSUME SentinelAssumption == /\ None \notin Family \cup Command
                             /\ Free \notin Command \cup {Elsewhere}
                             /\ Elsewhere \notin Command

VARIABLES keys,      \* outcome_deliveries, in the namespace the profiles share
          journal,   \* the observations, oldest first
          heads,     \* outcome_heads
          call,      \* each caller's call and the transaction of its attempt
          late       \* COMMITs nobody waits for any more

vars == <<keys, journal, heads, call, late>>
tables == <<keys, journal, heads>>

-----------------------------------------------------------------------------
Time == 0..Horizon
Key == {c.key : c \in Command}
Decisive == {"ordinary", "post_hoc"}
Absent == -1

\* expected: the revision a correction or a close was written against.
\* facts: whatever else makes two claims differ.
ASSUME CommandAssumption ==
  /\ Command \subseteq [key : Key, kind : {"register", "close"} \cup Decisive,
                        family : Family \cup {None}, atoms : Int, facts : Nat,
                        expected : Nat, reason : {"deadline", "authorized"}]
  /\ \A c \in Command : c.kind \in Decisive <=> c.family # None
  /\ Shared \subseteq Key

Status == {"open", "claimed", "closed"}
Reservation == [revision : Nat, consumed : Nat, held : Nat, released : Nat,
                status : [Family -> Status]]
Claim == [number : Nat, atoms : Int, accepted : Time]
Heads == [target : Nat \cup {Absent}, reservation : Reservation,
          claim : [Family -> Claim], aggregate : SUBSET (Family \X Nat)]
Observation == [command : Command, accepted : Time, number : Nat,
                after : Reservation]
Write == [command : Command, accepted : Time, alias : BOOLEAN]
View == [owner : Command \cup {Free, Elsewhere}, steps : Nat]

Step == {"idle", "open", "locked", "written", "landed"}
Answer == {"accepted", "duplicate", "identity conflict", "semantic conflict",
           "rejected", "waiting", "integrity", "not now", "unknown"}

TypeOK ==
  /\ keys \in [Key -> Command \cup {Free, Elsewhere}]
  /\ journal \in Seq(Observation)
  /\ heads \in Heads
  /\ call \in [Caller -> [step : Step, command : Command \cup {None},
                          accepted : Time, view : View \cup {None},
                          alias : BOOLEAN, said : Answer \cup {None}]]
  /\ \A p \in Caller : call[p].step # "idle" => call[p].command \in Command
                                                /\ call[p].view \in View
  /\ late \subseteq Write

\* checkpoint: the reservation the base acceptance leaves.
Opening == [revision |-> 0, consumed |-> Spent, held |-> Maximum - Spent,
            released |-> 0, status |-> [f \in Family |-> "open"]]

Unclaimed == [number |-> 0, atoms |-> 0, accepted |-> 0]

Init ==
  /\ keys = [k \in Key |-> Free]
  /\ journal = <<>>
  /\ heads = [target |-> Absent, reservation |-> Opening,
              claim |-> [f \in Family |-> Unclaimed], aggregate |-> {}]
  /\ call = [p \in Caller |-> [step |-> "idle", command |-> None, accepted |-> 0,
                               view |-> None, alias |-> FALSE, said |-> None]]
  /\ late = {}

-----------------------------------------------------------------------------
(* The reservation: settlement.rs project. *)

\* A faulty variant: a correction gives back what it takes from the claim.
Replenished(c) == CASE c.kind = "ordinary" -> Max({c.atoms, 0})
                    [] c.kind = "post_hoc" -> Min({c.atoms, 0})
                    [] OTHER -> 0

Consumption(c) == IF c.kind = "ordinary" THEN Max({c.atoms, 0}) ELSE 0

Release(c, r) == IF c.kind = "close" THEN r.held ELSE 0

StatusAfter(c, r) ==
  [f \in Family |->
     CASE c.kind = "ordinary" /\ c.family = f          -> "claimed"
       [] c.kind = "close" /\ r.status[f] = "open"     -> "closed"
       [] OTHER                                        -> r.status[f]]

\* A change of anything is a new revision; a correction and a repeated close
\* change nothing.
Settled(c, r) ==
  LET next == [r EXCEPT !.consumed = @ + Consumption(c),
                        !.released = @ + Release(c, r),
                        !.held = @ - Consumption(c) - Release(c, r),
                        !.status = StatusAfter(c, r)]
  IN IF next = r THEN r ELSE [next EXCEPT !.revision = @ + 1]

\* What project checks of a command the economic decision let through.
Covered(c, r) == Consumption(c) <= r.held

LastAccepted == IF journal = <<>> THEN 0 ELSE journal[Len(journal)].accepted

Projects(c, t) ==
  /\ (c.kind = "register") = (journal = <<>>)
  /\ LastAccepted <= t
  /\ Covered(c, heads.reservation)

-----------------------------------------------------------------------------
(* The decision: evaluate, and the rejections of build. *)

Claimed(f) == heads.claim[f].number > 0

\* The active results with family f's replaced.
Active(f, atoms) == [g \in Family |-> IF g = f THEN atoms ELSE heads.claim[g].atoms]
Premiums(a) == MapThenSumSet(LAMBDA f : Max({a[f], 0}), Family)
Discounts(a) == MapThenSumSet(LAMBDA f : Max({-a[f], 0}), Family)
WithinLimits(a) == Premiums(a) <= Ceiling /\ Discounts(a) <= BaseNet

MayClaim(c, t) ==
  LET f == c.family
  IN /\ t <= AcceptedBy[f] /\ journal[1].accepted <= t
     /\ WithinLimits(Active(f, c.atoms))
     /\ heads.reservation.status[f] = "open"

\* A faulty variant: whichever revision is current is corrected.
CorrectsCurrent(c, t) ==
  LET f == c.family
  IN /\ Claimed(f)
     /\ heads.claim[f].accepted <= t /\ t <= CorrectedBy[f]
     /\ WithinLimits(Active(f, c.atoms))

MayCorrect(c, t) ==
  LET f == c.family
  IN /\ Claimed(f) /\ c.expected = heads.claim[f].number
     /\ heads.claim[f].accepted <= t /\ t <= CorrectedBy[f]
     /\ WithinLimits(Active(f, c.atoms))

MayClose(c, t) ==
  /\ c.expected = heads.reservation.revision
  /\ c.reason = "deadline" => \A f \in Family : AcceptedBy[f] < t

Permitted(c, t) ==
  CASE c.kind = "register" -> TRUE
    [] c.kind = "ordinary" -> MayClaim(c, t)
    [] c.kind = "post_hoc" -> MayCorrect(c, t)
    [] c.kind = "close"    -> MayClose(c, t)

\* The family's permanent claim.
Original(f) == LET i == CHOOSE i \in DOMAIN journal :
                          /\ journal[i].command.kind = "ordinary"
                          /\ journal[i].command.family = f
               IN journal[i].command

SameClaim(c, d) == c.atoms = d.atoms /\ c.facts = d.facts

-----------------------------------------------------------------------------
(* An attempt. *)

\* The server has not ended the transaction that holds the target.
Holds(p) == call[p].step \in {"locked", "written"}
LockFree == late = {} /\ \A p \in Caller : ~Holds(p)

Snapshot(c) == [owner |-> keys[c.key], steps |-> Len(journal)]

Ends(p, said) ==
  call' = [call EXCEPT ![p] = [step |-> "idle", command |-> None, accepted |-> 0,
                               view |-> None, alias |-> FALSE, said |-> said]]
Says(p, said) ==
  /\ Ends(p, said)
  /\ UNCHANGED <<tables, late>>

Calls(p, c, t) ==
  /\ call[p].step = "idle"
  /\ call' = [call EXCEPT ![p] = [step |-> "open", command |-> c, accepted |-> t,
                                  view |-> Snapshot(c), alias |-> FALSE,
                                  said |-> None]]
  /\ UNCHANGED <<tables, late>>

\* FOR UPDATE of a head fails when it is newer than the snapshot.  The scope's
\* own row never changes, so an attempt that saw no head goes on.
Unmoved(v) == v.steps \in {0, Len(journal)}

Locks(p) ==
  /\ call[p].step = "open" /\ LockFree
  /\ Unmoved(call[p].view)
  /\ call' = [call EXCEPT ![p].step = "locked"]
  /\ UNCHANGED <<tables, late>>

\* A lock, a deadline, the serialisation, an expected head or a unique index
\* refused the attempt, or it has learnt which other locks it needs: it is
\* rolled back and repeated, or given up.  A refused authority gives up too.
Fails(p) ==
  /\ call[p].step \in {"open", "locked", "written"}
  /\ \/ /\ call' = [call EXCEPT ![p].step = "open", ![p].alias = FALSE,
                                ![p].view = Snapshot(call[p].command)]
        /\ UNCHANGED <<tables, late>>
     \/ Says(p, "not now")

Owner(p) == call[p].view.owner
Fresh(p) == call[p].step = "locked" /\ Owner(p) = Free
Registered(p) == call[p].view.steps > 0

\* The shared namespace knows the key: from this target, or from another
\* profile or another target, whose receipt is not among the records read.
Delivered(p) ==
  /\ call[p].step = "locked" /\ Owner(p) # Free
  /\ \/ Owner(p) = call[p].command /\ Says(p, "duplicate")
     \/ Owner(p) # call[p].command /\ Says(p, "identity conflict")
     \/ Owner(p) = Elsewhere /\ Says(p, "integrity")

\* A record the host requires is not there.
Waits(p) == call[p].step = "locked" /\ Says(p, "waiting")

\* Without a base there is nothing to decide on.
NoBase(p) ==
  /\ Fresh(p) /\ ~Registered(p) /\ call[p].command.kind # "register"
  /\ Says(p, "integrity")

IsClaim(p) == Registered(p) /\ call[p].command.kind = "ordinary"
                            /\ Claimed(call[p].command.family)

OtherClaim(p) ==
  /\ Fresh(p) /\ IsClaim(p)
  /\ ~SameClaim(call[p].command, Original(call[p].command.family))
  /\ Says(p, "semantic conflict")

Ready(p) == /\ Fresh(p) /\ ~IsClaim(p)
            /\ Registered(p) \/ call[p].command.kind = "register"

Rejected(p) ==
  /\ Ready(p) /\ Registered(p)
  /\ ~Permitted(call[p].command, call[p].accepted)
  /\ Says(p, "rejected")

\* A second registration, an acceptance dated before the last one, or a claim
\* beyond what is held.
Unprojected(p) ==
  /\ Ready(p) /\ Registered(p)
  /\ Permitted(call[p].command, call[p].accepted)
  /\ ~Projects(call[p].command, call[p].accepted)
  /\ Says(p, "integrity")

\* append: observed heads and unique indexes answer for what is committed now.
Appends(p, alias) ==
  /\ keys[call[p].command.key] = Free
  /\ call[p].view.steps = Len(journal)
  /\ call' = [call EXCEPT ![p].step = "written", ![p].alias = alias]
  /\ UNCHANGED <<tables, late>>

WritesAlias(p) ==
  /\ Fresh(p) /\ IsClaim(p)
  /\ SameClaim(call[p].command, Original(call[p].command.family))
  /\ Appends(p, TRUE)

WritesPlan(p) ==
  /\ Ready(p)
  /\ Permitted(call[p].command, call[p].accepted)
  /\ Projects(call[p].command, call[p].accepted)
  /\ Appends(p, FALSE)

-----------------------------------------------------------------------------
(* COMMIT *)

WriteOf(p) == [command |-> call[p].command, accepted |-> call[p].accepted,
               alias |-> call[p].alias]

NumberOf(c) == IF c.kind \in Decisive THEN heads.claim[c.family].number + 1 ELSE 0

\* The latest revision of every claim of the binding.
Latest(aggregate, f, n) == {r \in aggregate : r[1] # f} \cup {<<f, n>>}

HeadsAfter(c, t) ==
  LET f == c.family
      n == NumberOf(c)
      moved == [heads EXCEPT !.target = @ + 1,
                             !.reservation = Settled(c, heads.reservation)]
  IN IF c.kind \notin Decisive THEN moved
     ELSE [moved EXCEPT
             !.claim[f] = [number |-> n, atoms |-> c.atoms, accepted |-> t],
             !.aggregate = Latest(@, f, n)]

Applied(w) ==
  /\ keys' = [keys EXCEPT ![w.command.key] = w.command]
  /\ IF w.alias THEN UNCHANGED <<journal, heads>>
     ELSE /\ heads' = HeadsAfter(w.command, w.accepted)
          /\ journal' = Append(journal,
               [command |-> w.command, accepted |-> w.accepted,
                number |-> NumberOf(w.command),
                after |-> Settled(w.command, heads.reservation)])

Lands(p) ==
  /\ call[p].step = "written"
  /\ Applied(WriteOf(p))
  /\ call' = [call EXCEPT ![p].step = "landed"]
  /\ UNCHANGED late

Acknowledged(p) ==
  /\ call[p].step = "landed"
  /\ Says(p, IF call[p].alias THEN "duplicate" ELSE "accepted")

LosesReply(p) ==
  /\ call[p].step \in {"written", "landed"}
  /\ Ends(p, "unknown")
  /\ late' = IF call[p].step = "written" THEN late \cup {WriteOf(p)} ELSE late
  /\ UNCHANGED tables

LateLands == \E w \in late : Applied(w) /\ late' = late \ {w} /\ UNCHANGED call

LateRollsBack == \E w \in late : late' = late \ {w} /\ UNCHANGED <<tables, call>>

\* An uncommitted delivery holds its key against every other writer.
Pending(k) == \/ \E w \in late : w.command.key = k
              \/ \E p \in Caller : call[p].step = "written" /\ call[p].command.key = k

DeliveredElsewhere(k) ==
  /\ keys[k] = Free /\ ~Pending(k)
  /\ keys' = [keys EXCEPT ![k] = Elsewhere]
  /\ UNCHANGED <<journal, heads, call, late>>

-----------------------------------------------------------------------------
Attempt(p) ==
  \/ Locks(p) \/ Fails(p)
  \/ Waits(p) \/ Delivered(p) \/ NoBase(p) \/ OtherClaim(p) \/ Rejected(p) \/ Unprojected(p)
  \/ WritesAlias(p) \/ WritesPlan(p)
  \/ Lands(p) \/ Acknowledged(p) \/ LosesReply(p)

Next ==
  \/ \E p \in Caller : \/ \E c \in Command, t \in Time : Calls(p, c, t)
                       \/ Attempt(p)
  \/ LateLands \/ LateRollsBack
  \/ \E k \in Shared : DeliveredElsewhere(k)

Spec == Init /\ [][Next]_vars

-----------------------------------------------------------------------------
(* The history every later call replays. *)

Observations == DOMAIN journal
Of(f) == {i \in Observations : journal[i].command.family = f}
Before(i) == IF i = 1 THEN Opening ELSE journal[i - 1].after

\* Each observation projects the reservation the one before it left, in the
\* order of acceptance.
Replays(i) ==
  LET o == journal[i]
      c == o.command
  IN /\ (c.kind = "register") = (i = 1)
     /\ i > 1 => journal[i - 1].accepted <= o.accepted
     /\ Covered(c, Before(i)) /\ o.after = Settled(c, Before(i))
     /\ o.after.consumed + o.after.held + o.after.released = Maximum
     /\ c.kind = "ordinary" => /\ Before(i).status[c.family] = "open"
                               /\ o.number = 1 /\ o.accepted <= AcceptedBy[c.family]
     /\ c.kind = "post_hoc" =>
          /\ Before(i).status[c.family] = "claimed" /\ o.number = c.expected + 1
          /\ \E j \in Of(c.family) : j < i /\ journal[j].number = c.expected
     /\ c.kind = "close" => c.expected = Before(i).revision

\* The revisions of a family are one claim and the corrections of its latest.
OneOfANumber(f) ==
  \A i, j \in Of(f) : journal[i].number = journal[j].number => i = j

HeadOf(f) ==
  LET h == heads.claim[f]
  IN /\ \A i \in Of(f) : journal[i].number <= h.number
     /\ IF h.number = 0 THEN Of(f) = {} /\ h = Unclaimed
        ELSE \E i \in Of(f) : /\ journal[i].number = h.number
                              /\ journal[i].command.atoms = h.atoms
                              /\ journal[i].accepted = h.accepted

\* The other heads, which are written one by one, say what the history says.
HeadsAgree ==
  /\ heads.aggregate = {<<f, heads.claim[f].number>> : f \in {f \in Family : Claimed(f)}}
  /\ heads.target = Len(journal) - 1
  /\ heads.reservation = IF journal = <<>> THEN Opening ELSE journal[Len(journal)].after

\* What the last decision established of the active results.
LimitsHold == (\E f \in Family : Claimed(f))
                => WithinLimits([f \in Family |-> heads.claim[f].atoms])

\* service/retained.rs replays the whole history of a target, and compares it
\* with the heads, before a call decides anything: were it to fail, the target
\* would be refused for ever.  However calls, retries and late commits of build
\* and append interleave, it succeeds.
HistoryReplays ==
  /\ \A i \in Observations : Replays(i)
  /\ \A f \in Family : OneOfANumber(f) /\ HeadOf(f)
  /\ HeadsAgree
  /\ LimitsHold

-----------------------------------------------------------------------------
(* What a caller and the money of the target show. *)
Shown(c) == [command |-> c.command, running |-> c.step # "idle",
             wrote |-> IF c.step # "landed" THEN "nothing"
                       ELSE IF c.alias THEN "alias" ELSE "original",
             said |-> c.said]
shown == [p \in Caller |-> Shown(call[p])]
doubtful == {w.command : w \in late}
claims == [f \in Family |-> [number |-> heads.claim[f].number,
                             atoms |-> heads.claim[f].atoms]]
open == {f \in Family : heads.reservation.status[f] = "open"}
money == [consumed |-> heads.reservation.consumed, held |-> heads.reservation.held,
          released |-> heads.reservation.released]

Once == INSTANCE SettledOnce WITH call <- shown, late <- doubtful

\* Every call of `run` is one atomic step of SettledOnce at the moment its
\* COMMIT lands: a claim takes its money once, nothing gives it back, and what
\* the call answers is true.
SettlesOnce == Once!Spec
=============================================================================
