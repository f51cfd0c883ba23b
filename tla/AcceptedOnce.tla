---------------------------- MODULE AcceptedOnce ----------------------------
(***************************************************************************)
(* What acceptance promises its callers: a call takes effect at once, at   *)
(* most once, and its answer is the truth.  "accepted" and "alias" mean    *)
(* that this very call wrote; every other definite answer means that it    *)
(* wrote nothing and never will.  A caller told "unknown" has a write that *)
(* landed, that may land yet, or that never will.                          *)
(***************************************************************************)
EXTENDS Integers

CONSTANTS Caller, Candidate, Chain,
          Free, Elsewhere,     \* a delivery key's owner: nobody, the other profile
          None                 \* no claim, no candidate, no answer

VARIABLES keys,      \* the candidate that was delivered under each key
          claims,    \* the operation's one event and its position in its chain
          heads,     \* the revision of each chain
          call,      \* each caller's call
          late       \* the writes of calls that were told "unknown"

vars == <<keys, claims, heads, call, late>>

Key == {c.key : c \in Candidate}
Operation == {c.operation : c \in Candidate}
Absent == -1

SameFacts(c, d) == c.facts = d.facts /\ c.chain = d.chain

Answer == {"accepted", "alias", "duplicate", "conflict", "semantic conflict",
           "waiting", "would accept", "would alias", "not now", "unknown"}

Call(c, dry, running, wrote, said) ==
  [candidate |-> c, dry |-> dry, running |-> running, wrote |-> wrote, said |-> said]

Init == /\ keys = [k \in Key |-> Free]
        /\ claims = [o \in Operation |-> None]
        /\ heads \in [Chain -> {Absent, 0}]
        /\ call = [p \in Caller |-> Call(None, FALSE, FALSE, "nothing", None)]
        /\ late = {}

\* A dry call is a preview.
Invoke(p, c, dry) ==
  /\ ~call[p].running
  /\ call' = [call EXCEPT ![p] = Call(c, dry, TRUE, "nothing", None)]
  /\ UNCHANGED <<keys, claims, heads, late>>

\* A new operation becomes the next event of its chain.
Accept(c) ==
  /\ claims[c.operation] = None
  /\ heads[c.chain] # Absent
  /\ claims' = [claims EXCEPT ![c.operation] =
                  [event |-> c, position |-> heads[c.chain] + 1]]
  /\ heads' = [heads EXCEPT ![c.chain] = @ + 1]

\* The same operation, delivered under another key.
Alias(c) ==
  /\ claims[c.operation] # None
  /\ SameFacts(c, claims[c.operation].event)
  /\ UNCHANGED <<claims, heads>>

Lands(c, kind) ==
  /\ keys[c.key] = Free
  /\ keys' = [keys EXCEPT ![c.key] = c]
  /\ \/ kind = "original" /\ Accept(c)
     \/ kind = "alias" /\ Alias(c)

TakeEffect(p) ==
  /\ call[p].running /\ ~call[p].dry /\ call[p].wrote = "nothing"
  /\ \E kind \in {"original", "alias"} :
       /\ Lands(call[p].candidate, kind)
       /\ call' = [call EXCEPT ![p].wrote = kind]
  /\ UNCHANGED late

TakeEffectLate ==
  \E c \in late, kind \in {"original", "alias"} :
    /\ Lands(c, kind)
    /\ late' = late \ {c}
    /\ UNCHANGED call

NeverTakesEffect ==
  \E c \in late : late' = late \ {c} /\ UNCHANGED <<keys, claims, heads, call>>

\* What a call that did `wrote` for candidate c may be told.
True(said, c, wrote) ==
  CASE said = "accepted" -> wrote = "original"
    [] said = "alias"    -> wrote = "alias"
    [] said = "unknown"  -> TRUE
    [] OTHER ->
         /\ wrote = "nothing"
         /\ said = "duplicate" => keys[c.key] = c
         /\ said = "conflict"  => keys[c.key] \notin {Free, c}
         /\ said \in {"semantic conflict", "would alias"} =>
              /\ claims[c.operation] # None
              /\ (said = "would alias") <=> SameFacts(c, claims[c.operation].event)
         /\ said = "waiting" => heads[c.chain] = Absent

Return(p, said) ==
  /\ call[p].running
  /\ True(said, call[p].candidate, call[p].wrote)
  /\ call' = [call EXCEPT ![p] =
                Call(call[p].candidate, call[p].dry, FALSE, "nothing", said)]
  /\ \/ UNCHANGED late
     \/ /\ said = "unknown" /\ ~call[p].dry /\ call[p].wrote = "nothing"
        /\ late' = late \cup {call[p].candidate}
  /\ UNCHANGED <<keys, claims, heads>>

OtherProfile(k) ==
  /\ keys[k] = Free
  /\ keys' = [keys EXCEPT ![k] = Elsewhere]
  /\ UNCHANGED <<claims, heads, call, late>>

Next == \/ \E p \in Caller : \/ \E c \in Candidate, dry \in BOOLEAN : Invoke(p, c, dry)
                             \/ TakeEffect(p)
                             \/ \E said \in Answer : Return(p, said)
        \/ TakeEffectLate \/ NeverTakesEffect
        \/ \E k \in Key : OtherProfile(k)

Spec == Init /\ [][Next]_vars
=============================================================================
