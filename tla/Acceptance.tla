----------------------------- MODULE Acceptance -----------------------------
(***************************************************************************)
(* The one acceptance algorithm of service/accept.rs, run by concurrent    *)
(* callers over the transactions of store/postgres: each attempt is a      *)
(* SERIALIZABLE transaction that reads one snapshot, locks its chain's row *)
(* FOR UPDATE, and from its first write on holds the row of the commit     *)
(* witness, so one transaction writes at a time.  SQLite's BEGIN IMMEDIATE *)
(* gives the runs of this module in which one transaction is open at once. *)
(*                                                                         *)
(* A COMMIT whose reply is lost leaves the caller with OutcomeUnknown and  *)
(* the server with a transaction that still holds its locks: it lands, or  *)
(* is rolled back, later.                                                  *)
(*                                                                         *)
(* A candidate is what normalisation makes of a submission: its delivery   *)
(* key (source and external id), its operation, its chain and its other    *)
(* facts; its ingress is the candidate itself.  Grants, bindings, pricing  *)
(* and the rest of a plan only decide whether a call is rejected.          *)
(*                                                                         *)
(* Bounds: MaxAttempt, 5 in the code.                                      *)
(***************************************************************************)
EXTENDS Integers, FiniteSets

CONSTANTS Caller,
          Submitter,           \* the callers whose principal can submit
          Candidate,
          Chain,
          MaxAttempt,
          Free, Elsewhere,     \* a delivery key's owner: nobody, the other profile
          None

ASSUME CallerAssumption == Submitter \subseteq Caller /\ MaxAttempt \in Nat \ {0}
ASSUME SentinelAssumption == /\ None \notin Candidate
                             /\ Free \notin Candidate \cup {Elsewhere}
                             /\ Elsewhere \notin Candidate

VARIABLES keys,      \* delivery_keys, with the namespace the profiles share
          claims,    \* claims and events: an operation's event, its position
          heads,     \* chains: the revision of each
          call,      \* each caller's call and the transaction of its attempt
          late       \* COMMITs nobody waits for any more

vars == <<keys, claims, heads, call, late>>

-----------------------------------------------------------------------------
Key == {c.key : c \in Candidate}
Operation == {c.operation : c \in Candidate}
Absent == -1

ASSUME CandidateAssumption ==
  Candidate \subseteq [key : Key, operation : Operation, facts : Nat, chain : Chain]

Claim == [event : Candidate, position : Nat]
ASSUME ClaimAssumption == None \notin Claim
Binding == Candidate \cup {Free, Elsewhere}
Journal == [keys : [Key -> Binding], claims : [Operation -> Claim \cup {None}],
            heads : [Chain -> Nat \cup {Absent}]]
Kind == {"original", "alias"}
Write == [event : Candidate, kind : Kind, position : Nat]

\* begin: an attempt is due.  open: its snapshot is taken.  chained: it holds
\* its chain and a plan.  written: it holds the writer's lock as well.
\* landed, refused: what the server did, before the caller knows.
Step == {"idle", "begin", "open", "chained", "written", "committing",
         "landed", "refused"}
Answer == {"accepted", "alias", "duplicate", "conflict", "semantic conflict",
           "waiting", "would accept", "would alias", "not now", "unknown"}

TypeOK ==
  /\ keys \in [Key -> Binding]
  /\ claims \in [Operation -> Claim \cup {None}]
  /\ heads \in [Chain -> Nat \cup {Absent}]
  /\ call \in [Caller -> [step : Step, candidate : Candidate \cup {None},
                          dry : BOOLEAN, left : 0..MaxAttempt,
                          view : Journal \cup {None}, kind : Kind \cup {None},
                          said : Answer \cup {None}]]
  /\ \A p \in Caller :
       /\ call[p].step # "idle" => call[p].candidate \in Candidate
       /\ call[p].step \notin {"idle", "begin"} => call[p].view \in Journal
       /\ call[p].step \in {"written", "committing", "landed", "refused"} =>
            call[p].kind \in Kind
  /\ late \subseteq Write

Init ==
  /\ keys = [k \in Key |-> Free]
  /\ claims = [o \in Operation |-> None]
  /\ heads \in [Chain -> {Absent, 0}]
  /\ call = [p \in Caller |-> [step |-> "idle", candidate |-> None,
                               dry |-> FALSE, left |-> 0, view |-> None,
                               kind |-> None, said |-> None]]
  /\ late = {}

-----------------------------------------------------------------------------
SameFacts(c, d) == c.facts = d.facts /\ c.chain = d.chain

\* The locks of the transactions the server has not ended.
HasWriter(p) == call[p].step \in {"written", "committing"}
WriterFree == late = {} /\ \A p \in Caller : ~HasWriter(p)

HasChain(p, x) == /\ call[p].candidate.chain = x
                  /\ \/ call[p].step = "chained"
                     \/ HasWriter(p) /\ call[p].kind = "original"
ChainFree(x) == /\ \A p \in Caller : call[p].step # "idle" => ~HasChain(p, x)
                /\ \A w \in late : w.kind = "original" => w.event.chain # x

Moves(p, step) == call' = [call EXCEPT ![p].step = step]

Says(p, said) ==
  call' = [call EXCEPT ![p].step = "idle", ![p].said = said, ![p].left = 0,
                       ![p].view = None, ![p].kind = None]

Calls(p, c, dry) ==
  /\ call[p].step = "idle"
  /\ call' = [call EXCEPT ![p] = [step |-> "begin", candidate |-> c, dry |-> dry,
                                  left |-> MaxAttempt, view |-> None,
                                  kind |-> None, said |-> None]]
  /\ UNCHANGED <<keys, claims, heads, late>>

Begin(p) ==
  /\ call[p].step = "begin"
  /\ call' = [call EXCEPT ![p].step = "open",
                ![p].view = [keys |-> keys, claims |-> claims, heads |-> heads]]
  /\ UNCHANGED <<keys, claims, heads, late>>

-----------------------------------------------------------------------------
(* prepare: what an attempt concludes from its snapshot. *)

\* The snapshot's owner of the call's delivery key.
Owner(p) == call[p].view.keys[call[p].candidate.key]
\* The snapshot's claim on the call's operation.
Held(p) == call[p].view.claims[call[p].candidate.operation]
Revision(p) == call[p].view.heads[call[p].candidate.chain]

Reads(p) == call[p].step = "open"
UnknownKey(p) == Reads(p) /\ Owner(p) = Free

Delivered(p) ==
  /\ Reads(p) /\ Owner(p) # Free
  /\ Says(p, IF Owner(p) = call[p].candidate THEN "duplicate" ELSE "conflict")
  /\ UNCHANGED <<keys, claims, heads, late>>

OtherFacts(p) ==
  /\ UnknownKey(p) /\ Held(p) # None
  /\ ~SameFacts(call[p].candidate, Held(p).event)
  /\ Says(p, "semantic conflict")
  /\ UNCHANGED <<keys, claims, heads, late>>

NoChain(p) ==
  /\ UnknownKey(p) /\ Held(p) = None /\ p \in Submitter
  /\ Revision(p) = Absent
  /\ Says(p, "waiting")
  /\ UNCHANGED <<keys, claims, heads, late>>

\* A faulty variant: a chain's revision is planned against without looking at it again.
AnyRevision(p) == TRUE

\* SELECT ... FOR UPDATE waits for the row's lock, and fails when the row is
\* newer than the snapshot; AdvanceChain compares the revision once more.
Current(p) == heads[call[p].candidate.chain] = Revision(p)
LockChain(p) ==
  /\ UnknownKey(p) /\ Held(p) = None /\ p \in Submitter
  /\ Revision(p) # Absent
  /\ ChainFree(call[p].candidate.chain) /\ Current(p)
  /\ Moves(p, "chained")
  /\ UNCHANGED <<keys, claims, heads, late>>

PreviewAlias(p) ==
  /\ UnknownKey(p) /\ call[p].dry /\ Held(p) # None
  /\ SameFacts(call[p].candidate, Held(p).event)
  /\ Says(p, "would alias")
  /\ UNCHANGED <<keys, claims, heads, late>>

PreviewPlan(p) ==
  /\ call[p].step = "chained" /\ call[p].dry
  /\ Says(p, "would accept")
  /\ UNCHANGED <<keys, claims, heads, late>>

-----------------------------------------------------------------------------
(* The writes of an attempt.  A unique index answers for what is committed  *)
(* now, not for the snapshot.                                              *)

UniqueKey(c) == keys[c.key] = Free
UniqueClaim(c) == claims[c.operation] = None

Writes(p, kind) ==
  /\ WriterFree
  /\ UniqueKey(call[p].candidate)
  /\ call' = [call EXCEPT ![p].step = "written", ![p].kind = kind]
  /\ UNCHANGED <<keys, claims, heads, late>>

WriteAlias(p) ==
  /\ UnknownKey(p) /\ ~call[p].dry /\ Held(p) # None
  /\ SameFacts(call[p].candidate, Held(p).event)
  /\ Writes(p, "alias")

WriteOriginal(p) ==
  /\ call[p].step = "chained" /\ ~call[p].dry
  /\ UniqueClaim(call[p].candidate) /\ Current(p)
  /\ Writes(p, "original")

\* The attempt is rolled back: a lock or a deadline timed out, a unique index
\* or the serialisation refused it, it was a deadlock's victim, or a check
\* rejected the candidate.  The first four are retried while attempts and
\* time are left.
Fails(p) ==
  /\ call[p].step \in {"begin", "open", "chained", "written", "refused"}
  /\ \/ /\ call[p].left > 1
        /\ call' = [call EXCEPT ![p].step = "begin", ![p].left = @ - 1,
                                ![p].view = None, ![p].kind = None]
     \/ Says(p, "not now")
  /\ UNCHANGED <<keys, claims, heads, late>>

-----------------------------------------------------------------------------
(* COMMIT *)

WriteOf(p) == [event |-> call[p].candidate, kind |-> call[p].kind,
               position |-> IF call[p].kind = "original" THEN Revision(p) + 1 ELSE 0]

\* What a write that commits leaves in the tables.
Applied(w) ==
  /\ keys' = [keys EXCEPT ![w.event.key] = w.event]
  /\ IF w.kind = "original"
     THEN /\ claims' = [claims EXCEPT ![w.event.operation] =
                          [event |-> w.event, position |-> w.position]]
          /\ heads' = [heads EXCEPT ![w.event.chain] = w.position]
     ELSE UNCHANGED <<claims, heads>>

Sends(p) ==
  /\ call[p].step = "written"
  /\ Moves(p, "committing")
  /\ UNCHANGED <<keys, claims, heads, late>>

Lands(p) ==
  /\ call[p].step = "committing"
  /\ Applied(WriteOf(p))
  /\ Moves(p, "landed")
  /\ UNCHANGED late

Refuses(p) ==
  /\ call[p].step = "committing"
  /\ Moves(p, "refused")
  /\ UNCHANGED <<keys, claims, heads, late>>

Acknowledged(p) ==
  /\ call[p].step = "landed"
  /\ Says(p, IF call[p].kind = "original" THEN "accepted" ELSE "alias")
  /\ UNCHANGED <<keys, claims, heads, late>>

\* A faulty variant: every failed COMMIT is taken for one that was rolled back.
TakesForRolledBack(p) ==
  /\ call[p].step \in {"committing", "landed", "refused"}
  /\ late' = IF call[p].step = "committing" THEN late \cup {WriteOf(p)} ELSE late
  /\ Says(p, "not now")
  /\ UNCHANGED <<keys, claims, heads>>

\* The connection or the five seconds of the drain are gone.
LosesReply(p) ==
  /\ call[p].step \in {"committing", "landed", "refused"}
  /\ late' = IF call[p].step = "committing" THEN late \cup {WriteOf(p)} ELSE late
  /\ Says(p, "unknown")
  /\ UNCHANGED <<keys, claims, heads>>

LateLands == \E w \in late : /\ Applied(w)
                             /\ late' = late \ {w}
                             /\ UNCHANGED call

LateRollsBack == \E w \in late : /\ late' = late \ {w}
                                 /\ UNCHANGED <<keys, claims, heads, call>>

\* An outcome's delivery claims its key in the shared namespace.
OutcomeDelivers(k) ==
  /\ WriterFree /\ keys[k] = Free
  /\ keys' = [keys EXCEPT ![k] = Elsewhere]
  /\ UNCHANGED <<claims, heads, call, late>>

-----------------------------------------------------------------------------
Attempt(p) ==
  \/ Begin(p)
  \/ Delivered(p) \/ OtherFacts(p) \/ NoChain(p) \/ LockChain(p)
  \/ PreviewAlias(p) \/ PreviewPlan(p)
  \/ WriteAlias(p) \/ WriteOriginal(p) \/ Fails(p)
  \/ Sends(p) \/ Lands(p) \/ Refuses(p) \/ Acknowledged(p) \/ LosesReply(p)

Next ==
  \/ \E p \in Caller : \/ \E c \in Candidate, dry \in BOOLEAN : Calls(p, c, dry)
                       \/ Attempt(p)
  \/ LateLands \/ LateRollsBack
  \/ \E k \in Key : OutcomeDelivers(k)

Spec == Init /\ [][Next]_vars

-----------------------------------------------------------------------------
\* The journal is whole: the events of a chain are numbered from one without a
\* gap up to its head, every event was delivered under its own key, and every
\* key a candidate holds leads to an event of the same operation and facts.
JournalIsWhole ==
  /\ \A x \in Chain :
       {claims[o].position : o \in {o \in Operation :
                                      claims[o] # None /\ claims[o].event.chain = x}}
         = 1..heads[x]
  /\ \A o, q \in Operation :
       /\ claims[o] # None /\ claims[q] # None /\ o # q
       /\ claims[o].event.chain = claims[q].event.chain
       => claims[o].position # claims[q].position
  /\ \A o \in Operation :
       claims[o] # None => /\ claims[o].event.operation = o
                           /\ keys[claims[o].event.key] = claims[o].event
  /\ \A k \in Key :
       keys[k] \in Candidate =>
         /\ keys[k].key = k
         /\ claims[keys[k].operation] # None
         /\ SameFacts(keys[k], claims[keys[k].operation].event)

-----------------------------------------------------------------------------
\* Every call of `run` is one atomic step of AcceptedOnce: it takes effect at
\* the moment its COMMIT lands, and what it answers from an older snapshot is
\* still true when it is answered.
Shown(c) == [candidate |-> c.candidate, dry |-> c.dry,
             running |-> c.step # "idle",
             wrote |-> IF c.step = "landed" THEN c.kind ELSE "nothing",
             said |-> c.said]
shown == [p \in Caller |-> Shown(call[p])]
doubtful == {w.event : w \in late}

Once == INSTANCE AcceptedOnce WITH call <- shown, late <- doubtful

AcceptsOnce == Once!Spec

=============================================================================
