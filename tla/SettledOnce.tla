---------------------------- MODULE SettledOnce ----------------------------
(***************************************************************************)
(* What settlement promises.  A family is claimed once, for ever; the      *)
(* claim takes its premium from what is held and nothing puts it back: a   *)
(* correction moves the result and no money of the reservation, and the    *)
(* first close releases the rest.  A call takes effect at once and at most *)
(* once, and its answer is the truth.                                      *)
(***************************************************************************)
EXTENDS Integers

CONSTANTS Caller, Command, Family, Maximum, Spent,
          Free, Elsewhere, None

VARIABLES keys,      \* the command delivered under each key
          claims,    \* the revision of each family's result, 0 before its claim
          open,      \* the families that may still be claimed
          money,     \* what is consumed, held and released
          call, late

vars == <<keys, claims, open, money, call, late>>

Key == {c.key : c \in Command}

Answer == {"accepted", "duplicate", "identity conflict", "semantic conflict",
           "rejected", "waiting", "integrity", "not now", "unknown"}

Init == /\ keys = [k \in Key |-> Free]
        /\ claims = [f \in Family |-> [number |-> 0, atoms |-> 0]]
        /\ open = Family
        /\ money = [consumed |-> Spent, held |-> Maximum - Spent, released |-> 0]
        /\ call = [p \in Caller |-> [command |-> None, running |-> FALSE,
                                     wrote |-> "nothing", said |-> None]]
        /\ late = {}

Invoke(p, c) ==
  /\ ~call[p].running
  /\ call' = [call EXCEPT ![p] = [command |-> c, running |-> TRUE,
                                  wrote |-> "nothing", said |-> None]]
  /\ UNCHANGED <<keys, claims, open, money, late>>

Claim(c) ==
  LET f == c.family
      premium == IF c.atoms > 0 THEN c.atoms ELSE 0
  IN /\ c.kind = "ordinary"
     /\ f \in open /\ claims[f].number = 0 /\ premium <= money.held
     /\ open' = open \ {f}
     /\ claims' = [claims EXCEPT ![f] = [number |-> 1, atoms |-> c.atoms]]
     /\ money' = [consumed |-> money.consumed + premium,
                  held |-> money.held - premium, released |-> money.released]

Correct(c) ==
  LET f == c.family
  IN /\ c.kind = "post_hoc"
     /\ claims[f].number > 0 /\ c.expected = claims[f].number
     /\ claims' = [claims EXCEPT ![f] = [number |-> @.number + 1, atoms |-> c.atoms]]
     /\ UNCHANGED <<open, money>>

Close(c) ==
  /\ c.kind = "close"
  /\ open' = {}
  /\ money' = [consumed |-> money.consumed, held |-> 0,
               released |-> money.released + money.held]
  /\ UNCHANGED claims

Register(c) == /\ c.kind = "register"
               /\ \A k \in Key : keys[k] \in {Free, Elsewhere}
               /\ UNCHANGED <<claims, open, money>>

\* The same claim under another key.
Alias(c) == /\ c.kind = "ordinary" /\ claims[c.family].number > 0
            /\ \E k \in Key : /\ keys[k] \in Command /\ keys[k].kind = "ordinary"
                              /\ keys[k].family = c.family
                              /\ keys[k].atoms = c.atoms /\ keys[k].facts = c.facts
            /\ UNCHANGED <<claims, open, money>>

Lands(c, wrote) ==
  /\ keys[c.key] = Free
  /\ keys' = [keys EXCEPT ![c.key] = c]
  /\ \/ wrote = "original" /\ (Register(c) \/ Claim(c) \/ Correct(c) \/ Close(c))
     \/ wrote = "alias" /\ Alias(c)

TakeEffect(p) ==
  /\ call[p].running /\ call[p].wrote = "nothing"
  /\ \E wrote \in {"original", "alias"} : /\ Lands(call[p].command, wrote)
                                          /\ call' = [call EXCEPT ![p].wrote = wrote]
  /\ UNCHANGED late

TakeEffectLate ==
  \E c \in late, wrote \in {"original", "alias"} :
    /\ Lands(c, wrote) /\ late' = late \ {c} /\ UNCHANGED call

NeverTakesEffect ==
  \E c \in late : late' = late \ {c} /\ UNCHANGED <<keys, claims, open, money, call>>

\* What a call that did `wrote` for command c may be told.
True(said, c, wrote) ==
  CASE said = "accepted"  -> wrote = "original"
    [] said = "duplicate" -> wrote # "original" /\ keys[c.key] = c
    [] said = "unknown"   -> TRUE
    [] OTHER ->
         /\ wrote = "nothing"
         /\ said = "identity conflict" => keys[c.key] \notin {Free, c}
         /\ said = "semantic conflict" =>
              c.kind = "ordinary" /\ claims[c.family].number > 0

Return(p, said) ==
  /\ call[p].running
  /\ True(said, call[p].command, call[p].wrote)
  /\ call' = [call EXCEPT ![p] = [command |-> None, running |-> FALSE,
                                  wrote |-> "nothing", said |-> said]]
  /\ \/ UNCHANGED late
     \/ /\ said = "unknown" /\ call[p].wrote = "nothing"
        /\ late' = late \cup {call[p].command}
  /\ UNCHANGED <<keys, claims, open, money>>

DeliveredElsewhere(k) ==
  /\ keys[k] = Free
  /\ keys' = [keys EXCEPT ![k] = Elsewhere]
  /\ UNCHANGED <<claims, open, money, call, late>>

Next == \/ \E p \in Caller : \/ \E c \in Command : Invoke(p, c)
                             \/ TakeEffect(p)
                             \/ \E said \in Answer : Return(p, said)
        \/ TakeEffectLate \/ NeverTakesEffect
        \/ \E k \in Key : DeliveredElsewhere(k)

Spec == Init /\ [][Next]_vars
=============================================================================
