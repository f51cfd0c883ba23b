-------------------------- MODULE AcceptanceProofs --------------------------
(***************************************************************************)
(* Proofs about Acceptance for any callers, candidates and chains: its     *)
(* types, that the journal stays whole, and that each call is one atomic   *)
(* step of AcceptedOnce.                                                   *)
(***************************************************************************)
EXTENDS Acceptance, TLAPS

(* The journal, part by part: positions lie on their chain, none is left   *)
(* out, none is used twice, and keys and claims agree.                     *)
PositionsInv ==
  /\ \A o \in Operation : claims[o] # None =>
       claims[o].position \in 1..heads[claims[o].event.chain]
  /\ \A x \in Chain : \A i \in 1..heads[x] : \E o \in Operation :
       claims[o] # None /\ claims[o].event.chain = x /\ claims[o].position = i

DistinctInv ==
  \A o, q \in Operation :
    /\ claims[o] # None /\ claims[q] # None /\ o # q
    /\ claims[o].event.chain = claims[q].event.chain
    => claims[o].position # claims[q].position

DeliveredInv ==
  /\ \A o \in Operation :
       claims[o] # None => /\ claims[o].event.operation = o
                           /\ keys[claims[o].event.key] = claims[o].event
  /\ \A k \in Key :
       keys[k] \in Candidate =>
         /\ keys[k].key = k
         /\ claims[keys[k].operation] # None
         /\ SameFacts(keys[k], claims[keys[k].operation].event)

(* What a snapshot shows is still so: only more is known now.              *)
ViewInv(p) ==
  call[p].step \notin {"idle", "begin"} =>
    /\ \A k \in Key : call[p].view.keys[k] # Free => keys[k] = call[p].view.keys[k]
    /\ \A o \in Operation :
         call[p].view.claims[o] # None => claims[o] = call[p].view.claims[o]
    /\ \A x \in Chain : call[p].view.heads[x] = Absent <=> heads[x] = Absent

(* A write that may still commit is exactly what the journal lacks.        *)
Fits(w) ==
  /\ keys[w.event.key] = Free
  /\ w.kind = "original" =>
       /\ claims[w.event.operation] = None
       /\ heads[w.event.chain] # Absent
       /\ w.position = heads[w.event.chain] + 1
  /\ w.kind = "alias" =>
       /\ claims[w.event.operation] # None
       /\ SameFacts(w.event, claims[w.event.operation].event)

StepInv(p) ==
  /\ call[p].step = "chained" => Revision(p) # Absent /\ Current(p)
  /\ call[p].step \in {"written", "committing", "landed", "refused"} => ~call[p].dry
  /\ HasWriter(p) => Fits(WriteOf(p))

(* The locks: one writer, and one holder of each chain.                    *)
WriterInv ==
  /\ \A p, q \in Caller : HasWriter(p) /\ HasWriter(q) => p = q
  /\ \A p \in Caller : HasWriter(p) => late = {}
  /\ \A v, w \in late : v = w

ChainInv ==
  \A p \in Caller : call[p].step = "chained" =>
    /\ \A q \in Caller : call[q].step = "chained" /\ q # p =>
         call[q].candidate.chain # call[p].candidate.chain
    /\ \A q \in Caller : HasWriter(q) /\ call[q].kind = "original" =>
         call[q].candidate.chain # call[p].candidate.chain
    /\ \A w \in late : w.kind = "original" =>
         w.event.chain # call[p].candidate.chain

Inv == /\ TypeOK
       /\ PositionsInv /\ DistinctInv /\ DeliveredInv
       /\ \A p \in Caller : ViewInv(p) /\ StepInv(p)
       /\ WriterInv /\ ChainInv
       /\ \A w \in late : Fits(w)

-----------------------------------------------------------------------------
(* Types                                                                   *)

CallRecord == [step : Step, candidate : Candidate \cup {None},
               dry : BOOLEAN, left : 0..MaxAttempt,
               view : Journal \cup {None}, kind : Kind \cup {None},
               said : Answer \cup {None}]

(* What TypeOK says of one caller.                                         *)
CallOK(c) ==
  /\ c \in CallRecord
  /\ c.step # "idle" => c.candidate \in Candidate
  /\ c.step \notin {"idle", "begin"} => c.view \in Journal
  /\ c.step \in {"written", "committing", "landed", "refused"} => c.kind \in Kind

JournalOK == /\ keys \in [Key -> Binding]
             /\ claims \in [Operation -> Claim \cup {None}]
             /\ heads \in [Chain -> Nat \cup {Absent}]

LEMMA CandidateFields ==
  ASSUME NEW c \in Candidate
  PROVE  c.key \in Key /\ c.operation \in Operation /\ c.chain \in Chain
<1>1. c \in [key : Key, operation : Operation, facts : Nat, chain : Chain]
  BY CandidateAssumption
<1> QED
  BY <1>1

(* TypeOK, caller by caller.                                               *)
LEMMA TypeParts ==
  TypeOK <=> /\ JournalOK
             /\ call \in [Caller -> CallRecord]
             /\ \A p \in Caller : CallOK(call[p])
             /\ late \subseteq Write
BY DEF TypeOK, JournalOK, CallOK, CallRecord

LEMMA TypePartsNext ==
  TypeOK' <=> /\ JournalOK'
              /\ call' \in [Caller -> CallRecord]
              /\ \A p \in Caller : CallOK(call'[p])
              /\ late' \subseteq Write
BY DEF TypeOK, JournalOK, CallOK, CallRecord

(* A step of one caller's transaction disturbs no other caller.            *)
LEMMA OneCaller ==
  ASSUME TypeOK, NEW p \in Caller, NEW c, CallOK(c),
         call' = [call EXCEPT ![p] = c]
  PROVE  /\ call' \in [Caller -> CallRecord]
         /\ \A q \in Caller : CallOK(call'[q])
         /\ call'[p] = c
         /\ \A q \in Caller : q # p => call'[q] = call[q]
BY TypeParts DEF CallOK

LEMMA WriteType ==
  ASSUME TypeOK, NEW p \in Caller, HasWriter(p) \/ call[p].step = "landed"
  PROVE  /\ WriteOf(p) \in Write
         /\ WriteOf(p).event = call[p].candidate
         /\ WriteOf(p).kind = call[p].kind
<1>1. CallOK(call[p])
  BY TypeParts
<1>2. /\ call[p].candidate \in Candidate /\ call[p].kind \in Kind
      /\ call[p].view \in Journal
  BY <1>1 DEF CallOK, HasWriter
<1>3. Revision(p) \in Nat \cup {Absent}
  BY <1>2, CandidateFields DEF Journal, Revision
<1>4. Revision(p) + 1 \in Nat
  BY <1>3 DEF Absent
<1> QED
  BY <1>2, <1>4 DEF WriteOf, Write

-----------------------------------------------------------------------------
(* The journal                                                             *)

JournalInv == PositionsInv /\ DistinctInv /\ DeliveredInv

Grows ==
  /\ \A k \in Key : keys[k] # Free => keys'[k] = keys[k]
  /\ \A o \in Operation : claims[o] # None => claims'[o] = claims[o]
  /\ \A x \in Chain : heads[x] = Absent <=> heads'[x] = Absent

LEMMA AppliedAlias ==
  ASSUME JournalOK, JournalInv, NEW w \in Write, w.kind = "alias", Fits(w), Applied(w)
  PROVE  JournalOK' /\ JournalInv' /\ Grows
<1> DEFINE k == w.event.key
<1>1. w.event \in Candidate /\ k \in Key
  BY CandidateFields DEF Write
<1>2. /\ keys' = [keys EXCEPT ![k] = w.event] /\ keys[k] = Free
      /\ UNCHANGED <<claims, heads>>
      /\ claims[w.event.operation] # None
      /\ SameFacts(w.event, claims[w.event.operation].event)
  BY DEF Applied, Fits
<1>3. keys'[k] = w.event /\ \A j \in Key : j # k => keys'[j] = keys[j]
  BY <1>1, <1>2 DEF JournalOK
<1>4. JournalOK'
  BY <1>1, <1>2 DEF JournalOK, Binding
<1>5. Grows
  BY <1>2, <1>3 DEF Grows
<1>6. PositionsInv' /\ DistinctInv'
  BY <1>2 DEF JournalInv, PositionsInv, DistinctInv
<1>7. DeliveredInv'
  <2>1. ASSUME NEW o \in Operation, claims'[o] # None
        PROVE  /\ claims'[o].event.operation = o
               /\ keys'[claims'[o].event.key] = claims'[o].event
    <3>1. claims[o] \in Claim /\ claims[o].event \in Candidate
      BY <1>2, <2>1 DEF JournalOK, Claim
    <3>2. claims[o].event.key \in Key /\ keys[claims[o].event.key] = claims[o].event
      BY <1>2, <2>1, <3>1, CandidateFields DEF JournalInv, DeliveredInv
    <3>3. claims[o].event.key # k
      BY <1>2, <3>1, <3>2, SentinelAssumption
    <3> QED
      BY <1>2, <1>3, <2>1, <3>2, <3>3 DEF JournalInv, DeliveredInv
  <2>2. ASSUME NEW j \in Key, keys'[j] \in Candidate
        PROVE  /\ keys'[j].key = j
               /\ claims'[keys'[j].operation] # None
               /\ SameFacts(keys'[j], claims'[keys'[j].operation].event)
    <3>1. CASE j = k
      BY <1>2, <1>3, <3>1
    <3>2. CASE j # k
      BY <1>2, <1>3, <2>2, <3>2 DEF JournalInv, DeliveredInv
    <3> QED
      BY <3>1, <3>2
  <2> QED
    BY <2>1, <2>2 DEF DeliveredInv, SameFacts
<1> QED
  BY <1>4, <1>5, <1>6, <1>7 DEF JournalInv

LEMMA AppliedOriginal ==
  ASSUME JournalOK, JournalInv, NEW w \in Write, w.kind = "original", Fits(w),
         Applied(w)
  PROVE  JournalOK' /\ JournalInv' /\ Grows
<1> DEFINE k == w.event.key
           o == w.event.operation
           x == w.event.chain
           n == w.position
           new == [event |-> w.event, position |-> n]
<1>1. w.event \in Candidate /\ k \in Key /\ o \in Operation /\ x \in Chain /\ n \in Nat
  BY CandidateFields DEF Write
<1>2. /\ keys' = [keys EXCEPT ![k] = w.event] /\ keys[k] = Free
      /\ claims' = [claims EXCEPT ![o] = new] /\ claims[o] = None
      /\ heads' = [heads EXCEPT ![x] = n]
      /\ heads[x] # Absent /\ n = heads[x] + 1
  BY DEF Applied, Fits
<1>3. /\ keys'[k] = w.event /\ \A j \in Key : j # k => keys'[j] = keys[j]
      /\ claims'[o] = new /\ \A q \in Operation : q # o => claims'[q] = claims[q]
      /\ heads'[x] = n /\ \A y \in Chain : y # x => heads'[y] = heads[y]
  BY <1>1, <1>2 DEF JournalOK
<1>4. new \in Claim /\ new # None /\ new.event = w.event /\ new.position = n
  BY <1>1, ClaimAssumption DEF Claim
<1>5. JournalOK'
  BY <1>1, <1>2, <1>4 DEF JournalOK, Binding
<1>6. heads[x] \in Nat /\ n # Absent
  BY <1>1, <1>2 DEF JournalOK, Absent
<1>7. Grows
  BY <1>2, <1>3, <1>6 DEF Grows
<1>8. ASSUME NEW q \in Operation, claims'[q] # None, q # o
      PROVE  /\ claims[q] # None /\ claims'[q] = claims[q]
             /\ claims[q] \in Claim /\ claims[q].event \in Candidate
             /\ claims[q].position \in Nat
             /\ claims[q].event.key \in Key /\ claims[q].event.chain \in Chain
             /\ claims[q].event.operation = q
             /\ keys[claims[q].event.key] = claims[q].event
             /\ claims[q].event.key # k
             /\ claims[q].position \in 1..heads[claims[q].event.chain]
  <2>1. /\ claims[q] # None /\ claims'[q] = claims[q] /\ claims[q] \in Claim
        /\ claims[q].event \in Candidate /\ claims[q].position \in Nat
    BY <1>3, <1>8 DEF JournalOK, Claim
  <2>2. claims[q].event.key \in Key /\ claims[q].event.chain \in Chain
    BY <2>1, CandidateFields
  <2>3. /\ claims[q].event.operation = q
        /\ keys[claims[q].event.key] = claims[q].event
    BY <2>1 DEF JournalInv, DeliveredInv
  <2>4. claims[q].position \in 1..heads[claims[q].event.chain]
    BY <2>1 DEF JournalInv, PositionsInv
  <2>5. claims[q].event.key # k
    BY <1>2, <2>1, <2>3, SentinelAssumption
  <2> QED
    BY <2>1, <2>2, <2>3, <2>4, <2>5
<1>9. PositionsInv'
  <2>1. ASSUME NEW q \in Operation, claims'[q] # None
        PROVE  claims'[q].position \in 1..heads'[claims'[q].event.chain]
    <3>1. CASE q = o
      BY <1>1, <1>3, <1>4, <1>6, <3>1, <1>2
    <3>2. CASE q # o
      <4>1. claims'[q] = claims[q] /\ claims[q].event.chain \in Chain
            /\ claims[q].position \in 1..heads[claims[q].event.chain]
        BY <1>8, <2>1, <3>2
      <4>2. CASE claims[q].event.chain = x
        BY <1>2, <1>3, <1>6, <4>1, <4>2
      <4>3. CASE claims[q].event.chain # x
        BY <1>3, <4>1, <4>3
      <4> QED
        BY <4>2, <4>3
    <3> QED
      BY <3>1, <3>2
  <2>2. ASSUME NEW y \in Chain, NEW i \in 1..heads'[y]
        PROVE  \E q \in Operation : claims'[q] # None /\ claims'[q].event.chain = y
                                      /\ claims'[q].position = i
    <3>1. CASE y = x /\ i = n
      BY <1>1, <1>3, <1>4, <3>1
    <3>2. CASE ~(y = x /\ i = n)
      <4>1. i \in 1..heads[y]
        <5>1. CASE y = x
          BY <1>2, <1>3, <1>6, <2>2, <3>2, <5>1
        <5>2. CASE y # x
          BY <1>3, <2>2, <5>2
        <5> QED
          BY <5>1, <5>2
      <4>2. PICK q \in Operation : claims[q] # None /\ claims[q].event.chain = y
                                     /\ claims[q].position = i
        BY <4>1 DEF JournalInv, PositionsInv
      <4> QED
        BY <1>2, <1>3, <4>2
    <3> QED
      BY <3>1, <3>2
  <2> QED
    BY <2>1, <2>2 DEF PositionsInv
<1>10. DistinctInv'
  <2> SUFFICES ASSUME NEW p \in Operation, NEW q \in Operation,
                      claims'[p] # None, claims'[q] # None, p # q,
                      claims'[p].event.chain = claims'[q].event.chain
               PROVE  claims'[p].position # claims'[q].position
    BY DEF DistinctInv
  <2>1. ASSUME NEW r \in Operation, claims'[r] # None, r # o,
               claims'[r].event.chain = x
        PROVE  claims'[r].position # n
    BY <1>2, <1>6, <1>8, <2>1
  <2>2. CASE p = o
    BY <1>3, <1>4, <2>1, <2>2
  <2>3. CASE q = o
    BY <1>3, <1>4, <2>1, <2>3
  <2>4. CASE p # o /\ q # o
    BY <1>3, <2>4 DEF JournalInv, DistinctInv
  <2> QED
    BY <2>2, <2>3, <2>4
<1>11. DeliveredInv'
  <2>1. ASSUME NEW q \in Operation, claims'[q] # None
        PROVE  /\ claims'[q].event.operation = q
               /\ keys'[claims'[q].event.key] = claims'[q].event
    <3>1. CASE q = o
      BY <1>3, <1>4, <3>1
    <3>2. CASE q # o
      BY <1>3, <1>8, <2>1, <3>2
    <3> QED
      BY <3>1, <3>2
  <2>2. ASSUME NEW j \in Key, keys'[j] \in Candidate
        PROVE  /\ keys'[j].key = j
               /\ claims'[keys'[j].operation] # None
               /\ SameFacts(keys'[j], claims'[keys'[j].operation].event)
    <3>1. CASE j = k
      BY <1>1, <1>3, <1>4, <3>1 DEF SameFacts
    <3>2. CASE j # k
      <4>1. keys'[j] = keys[j] /\ keys[j].operation \in Operation
        BY <1>3, <2>2, <3>2, CandidateFields
      <4>2. /\ keys[j].key = j /\ claims[keys[j].operation] # None
            /\ SameFacts(keys[j], claims[keys[j].operation].event)
        BY <2>2, <4>1 DEF JournalInv, DeliveredInv
      <4> QED
        BY <1>7, <4>1, <4>2 DEF Grows
    <3> QED
      BY <3>1, <3>2
  <2> QED
    BY <2>1, <2>2 DEF DeliveredInv, SameFacts
<1> QED
  BY <1>5, <1>7, <1>9, <1>10, <1>11 DEF JournalInv

LEMMA AppliedKeeps ==
  ASSUME JournalOK, JournalInv, NEW w \in Write, Fits(w), Applied(w)
  PROVE  JournalOK' /\ JournalInv' /\ Grows
<1>1. w.kind = "original" \/ w.kind = "alias"
  BY DEF Write, Kind
<1> QED
  BY <1>1, AppliedOriginal, AppliedAlias

LEMMA OutcomeKeeps ==
  ASSUME JournalOK, JournalInv, NEW k \in Key, OutcomeDelivers(k)
  PROVE  JournalOK' /\ JournalInv' /\ Grows
<1>1. /\ keys' = [keys EXCEPT ![k] = Elsewhere] /\ keys[k] = Free
      /\ UNCHANGED <<claims, heads>>
  BY DEF OutcomeDelivers
<1>2. keys'[k] = Elsewhere /\ \A j \in Key : j # k => keys'[j] = keys[j]
  BY <1>1 DEF JournalOK
<1>3. JournalOK'
  BY <1>1 DEF JournalOK, Binding
<1>4. Grows
  BY <1>1, <1>2 DEF Grows
<1>5. PositionsInv' /\ DistinctInv'
  BY <1>1 DEF JournalInv, PositionsInv, DistinctInv
<1>6. ASSUME NEW o \in Operation, claims'[o] # None
      PROVE  /\ claims'[o].event.operation = o
             /\ keys'[claims'[o].event.key] = claims'[o].event
  <2>1. claims[o].event \in Candidate
    BY <1>1, <1>6 DEF JournalOK, Claim
  <2>2. /\ claims[o].event.key \in Key /\ claims[o].event.operation = o
        /\ keys[claims[o].event.key] = claims[o].event
    BY <1>1, <1>6, <2>1, CandidateFields DEF JournalInv, DeliveredInv
  <2>3. claims[o].event.key # k
    BY <1>1, <2>1, <2>2, SentinelAssumption
  <2> QED
    BY <1>1, <1>2, <2>2, <2>3
<1>7. ASSUME NEW j \in Key, keys'[j] \in Candidate
      PROVE  /\ keys'[j].key = j
             /\ claims'[keys'[j].operation] # None
             /\ SameFacts(keys'[j], claims'[keys'[j].operation].event)
  <2>1. j # k
    BY <1>2, <1>7, SentinelAssumption
  <2> QED
    BY <1>1, <1>2, <1>7, <2>1 DEF JournalInv, DeliveredInv
<1> QED
  BY <1>3, <1>4, <1>5, <1>6, <1>7 DEF JournalInv, DeliveredInv, SameFacts

-----------------------------------------------------------------------------
(* The callers                                                             *)

LEMMA InvParts ==
  Inv <=> /\ TypeOK /\ JournalInv
          /\ \A p \in Caller : ViewInv(p) /\ StepInv(p)
          /\ WriterInv /\ ChainInv
          /\ \A w \in late : Fits(w)
BY DEF Inv, JournalInv

LEMMA ViewKept ==
  ASSUME NEW p \in Caller, ViewInv(p), Grows, call'[p] = call[p]
  PROVE  ViewInv(p)'
BY DEF ViewInv, Grows

LEMMA Unchanged ==
  ASSUME UNCHANGED <<keys, claims, heads>>, JournalInv
  PROVE  JournalInv' /\ Grows
BY DEF JournalInv, PositionsInv, DistinctInv, DeliveredInv, SameFacts, Grows

(* A transaction nobody touches, over a journal nobody touches.            *)
LEMMA StepKept ==
  ASSUME NEW q \in Caller, StepInv(q), call'[q] = call[q],
         UNCHANGED <<keys, claims, heads>>
  PROVE  StepInv(q)'
<1>1. HasWriter(q)' <=> HasWriter(q)
  BY DEF HasWriter
<1>2. Revision(q)' = Revision(q) /\ (Current(q)' <=> Current(q))
  BY DEF Revision, Current
<1>3. WriteOf(q)' = WriteOf(q)
  BY <1>2 DEF WriteOf
<1>4. Fits(WriteOf(q))' <=> Fits(WriteOf(q))
  BY <1>3 DEF Fits, SameFacts
<1> QED
  BY <1>1, <1>2, <1>4 DEF StepInv

(* A step of p that touches nothing but p's own transaction.               *)
LEMMA QuietStep ==
  ASSUME Inv, NEW p \in Caller, NEW c, CallOK(c),
         call' = [call EXCEPT ![p] = c],
         UNCHANGED <<keys, claims, heads, late>>,
         ViewInv(p)', StepInv(p)',
         c.step \in {"written", "committing"} =>
           \/ WriterFree
           \/ HasWriter(p) /\ c.candidate = call[p].candidate /\ c.kind = call[p].kind,
         c.step = "chained" => ChainFree(c.candidate.chain),
         c.step \in {"written", "committing"} /\ c.kind = "original" =>
           /\ c.candidate = call[p].candidate
           /\ \/ call[p].step = "chained"
              \/ HasWriter(p) /\ call[p].kind = "original"
  PROVE  Inv'
<1>1. /\ TypeOK /\ JournalInv /\ WriterInv /\ ChainInv
      /\ \A q \in Caller : ViewInv(q) /\ StepInv(q)
      /\ \A w \in late : Fits(w)
  BY InvParts
<1>2. /\ call' \in [Caller -> CallRecord]
      /\ \A q \in Caller : CallOK(call'[q])
      /\ call'[p] = c
      /\ \A q \in Caller : q # p => call'[q] = call[q]
  BY <1>1, OneCaller
<1>3. TypeOK'
  BY <1>1, <1>2, TypeParts, TypePartsNext DEF JournalOK
<1>4. JournalInv' /\ Grows
  BY <1>1, Unchanged
<1>5. ASSUME NEW q \in Caller
      PROVE  ViewInv(q)' /\ StepInv(q)'
  <2>1. CASE q = p
    BY <2>1
  <2>2. CASE q # p
    <3>1. call'[q] = call[q]
      BY <1>2, <2>2
    <3>2. ViewInv(q)'
      BY <1>1, <1>4, <3>1, ViewKept
    <3>3. StepInv(q)'
      BY <1>1, <3>1, StepKept
    <3> QED
      BY <3>2, <3>3
  <2> QED
    BY <2>1, <2>2
<1>6. WriterInv'
  <2>1. ASSUME NEW q \in Caller, q # p
        PROVE  HasWriter(q)' <=> HasWriter(q)
    BY <1>2, <2>1 DEF HasWriter
  <2>2. HasWriter(p)' => late = {} /\ \A q \in Caller : q # p => ~HasWriter(q)
    BY <1>1, <1>2 DEF HasWriter, WriterFree, WriterInv
  <2> QED
    BY <1>1, <2>1, <2>2 DEF WriterInv
<1>7. ChainInv'
  <2> SUFFICES ASSUME NEW r \in Caller, call'[r].step = "chained"
               PROVE  /\ \A q \in Caller : call'[q].step = "chained" /\ q # r =>
                           call'[q].candidate.chain # call'[r].candidate.chain
                      /\ \A q \in Caller :
                           call'[q].step \in {"written", "committing"}
                             /\ call'[q].kind = "original" =>
                           call'[q].candidate.chain # call'[r].candidate.chain
                      /\ \A w \in late : w.kind = "original" =>
                           w.event.chain # call'[r].candidate.chain
    BY DEF ChainInv, HasWriter
  <2>1. CASE r = p
    BY <1>1, <1>2, <2>1 DEF ChainFree, HasChain, HasWriter
  <2>2. CASE r # p
    <3>1. call'[r] = call[r]
      BY <1>2, <2>2
    <3>2. ASSUME NEW q \in Caller, q # p
          PROVE  call'[q] = call[q]
      BY <1>2, <3>2
    <3>3. \A w \in late : w.kind = "original" =>
            w.event.chain # call'[r].candidate.chain
      BY <1>1, <3>1 DEF ChainInv
    <3>4. ASSUME NEW q \in Caller, call'[q].step = "chained", q # r
          PROVE  call'[q].candidate.chain # call'[r].candidate.chain
      BY <1>1, <1>2, <2>2, <3>1, <3>2, <3>4 DEF ChainInv, ChainFree, HasChain
    <3>5. ASSUME NEW q \in Caller, call'[q].step \in {"written", "committing"},
                 call'[q].kind = "original"
          PROVE  call'[q].candidate.chain # call'[r].candidate.chain
      BY <1>1, <1>2, <2>2, <3>1, <3>2, <3>5 DEF ChainInv, HasWriter
    <3> QED
      BY <3>3, <3>4, <3>5
  <2> QED
    BY <2>1, <2>2
<1>8. \A w \in late' : Fits(w)'
  BY <1>1 DEF Fits, SameFacts
<1> QED
  BY <1>3, <1>4, <1>5, <1>6, <1>7, <1>8 DEF Inv, JournalInv

(* A call that ends has left its transaction.                              *)
LEMMA SaysStep ==
  ASSUME Inv, NEW p \in Caller, NEW said \in Answer, Says(p, said),
         UNCHANGED <<keys, claims, heads, late>>
  PROVE  Inv'
<1> DEFINE c == [call[p] EXCEPT !.step = "idle", !.said = said, !.left = 0,
                                !.view = None, !.kind = None]
<1>1. call \in [Caller -> CallRecord] /\ CallOK(call[p])
  BY TypeParts DEF Inv
<1>2. call' = [call EXCEPT ![p] = c]
  BY <1>1 DEF Says
<1>3. CallOK(c) /\ c.step = "idle"
  <2>1. 0 \in 0..MaxAttempt
    BY CallerAssumption
  <2>2. call[p] \in CallRecord
    BY <1>1 DEF CallOK
  <2>3. c \in CallRecord
    BY <2>1, <2>2 DEF CallRecord, Step
  <2>4. c.step = "idle"
    BY <2>2 DEF CallRecord
  <2> QED
    BY <2>3, <2>4 DEF CallOK
<1>4. call'[p] = c
  BY <1>1, <1>2
<1>5. ViewInv(p)' /\ StepInv(p)'
  BY <1>3, <1>4 DEF ViewInv, StepInv, HasWriter
<1> QED
  BY <1>2, <1>3, <1>5, QuietStep

(* A transaction goes on with the same candidate, snapshot and kind.       *)
LEMMA MovesStep ==
  ASSUME Inv, NEW p \in Caller, NEW step \in Step, Moves(p, step),
         UNCHANGED <<keys, claims, heads, late>>,
         step # "idle" /\ call[p].step \notin {"idle", "begin"},
         step = "chained" =>
           Revision(p) # Absent /\ Current(p) /\ ChainFree(call[p].candidate.chain),
         step \notin {"chained", "refused", "committing"} => FALSE,
         step \in {"refused", "committing"} => HasWriter(p)
  PROVE  Inv'
<1> DEFINE c == [call[p] EXCEPT !.step = step]
<1>1. call \in [Caller -> CallRecord] /\ CallOK(call[p])
  BY TypeParts DEF Inv
<1>2. call' = [call EXCEPT ![p] = c]
  BY <1>1 DEF Moves
<1>3. CallOK(c)
  BY <1>1 DEF CallOK, CallRecord, HasWriter
<1>4. call'[p] = c
  BY <1>1, <1>2
<1>5. /\ c.step = step /\ c.view = call[p].view /\ c.kind = call[p].kind
      /\ c.candidate = call[p].candidate /\ c.dry = call[p].dry
  BY <1>1 DEF CallOK, CallRecord
<1>6. ViewInv(p) /\ StepInv(p)
  BY DEF Inv
<1>7. ViewInv(p)'
  BY <1>4, <1>5, <1>6 DEF ViewInv
<1>8. StepInv(p)'
  <2>1. CASE step = "chained"
    BY <1>4, <1>5, <2>1 DEF StepInv, Revision, Current, HasWriter
  <2>2. CASE step = "refused"
    BY <1>4, <1>5, <1>6, <2>2 DEF StepInv, HasWriter
  <2>3. CASE step = "committing"
    BY <1>4, <1>5, <1>6, <2>3 DEF StepInv, HasWriter, Fits, WriteOf, Revision, SameFacts
  <2> QED
    BY <2>1, <2>2, <2>3
<1> QED
  BY <1>2, <1>3, <1>5, <1>7, <1>8, QuietStep

LEMMA CallsStep ==
  ASSUME Inv, NEW p \in Caller, NEW d \in Candidate, NEW dry \in BOOLEAN,
         Calls(p, d, dry)
  PROVE  Inv'
<1> DEFINE c == [step |-> "begin", candidate |-> d, dry |-> dry,
                 left |-> MaxAttempt, view |-> None, kind |-> None, said |-> None]
<1>1. call \in [Caller -> CallRecord]
  BY TypeParts DEF Inv
<1>2. call' = [call EXCEPT ![p] = c] /\ UNCHANGED <<keys, claims, heads, late>>
  BY DEF Calls
<1>3. CallOK(c) /\ c.step = "begin"
  BY CallerAssumption DEF CallOK, CallRecord, Step
<1>4. call'[p] = c
  BY <1>1, <1>2
<1>5. ViewInv(p)' /\ StepInv(p)'
  BY <1>3, <1>4 DEF ViewInv, StepInv, HasWriter
<1> QED
  BY <1>2, <1>3, <1>5, QuietStep

LEMMA BeginStep ==
  ASSUME Inv, NEW p \in Caller, Begin(p)
  PROVE  Inv'
<1> DEFINE now == [keys |-> keys, claims |-> claims, heads |-> heads]
           c == [call[p] EXCEPT !.step = "open", !.view = now]
<1>1. /\ call \in [Caller -> CallRecord] /\ CallOK(call[p]) /\ JournalOK
  BY TypeParts DEF Inv
<1>2. call' = [call EXCEPT ![p] = c] /\ UNCHANGED <<keys, claims, heads, late>>
      /\ call[p].step = "begin"
  BY <1>1 DEF Begin
<1>3. now \in Journal
  BY <1>1 DEF Journal, JournalOK
<1>4. CallOK(c) /\ c.step = "open" /\ c.view = now
  BY <1>1, <1>2, <1>3 DEF CallOK, CallRecord, Step
<1>5. call'[p] = c
  BY <1>1, <1>2
<1>6. ViewInv(p)' /\ StepInv(p)'
  BY <1>2, <1>4, <1>5 DEF ViewInv, StepInv, HasWriter
<1> QED
  BY <1>2, <1>4, <1>6, QuietStep

LEMMA FailsStep ==
  ASSUME Inv, NEW p \in Caller, Fails(p)
  PROVE  Inv'
<1>1. CASE Says(p, "not now")
  BY <1>1, SaysStep DEF Fails, Answer
<1>2. CASE ~Says(p, "not now")
  <2> DEFINE c == [call[p] EXCEPT !.step = "begin", !.left = @ - 1,
                                  !.view = None, !.kind = None]
  <2>1. call \in [Caller -> CallRecord] /\ CallOK(call[p])
    BY TypeParts DEF Inv
  <2>2. /\ call' = [call EXCEPT ![p] = c] /\ UNCHANGED <<keys, claims, heads, late>>
        /\ call[p].step # "idle" /\ call[p].left > 1
    BY <1>2, <2>1 DEF Fails
  <2>3. call[p].left - 1 \in 0..MaxAttempt
    BY <2>1, <2>2, CallerAssumption DEF CallOK, CallRecord
  <2>4. CallOK(c) /\ c.step = "begin"
    BY <2>1, <2>2, <2>3 DEF CallOK, CallRecord, Step
  <2>5. call'[p] = c
    BY <2>1, <2>2
  <2>6. ViewInv(p)' /\ StepInv(p)'
    BY <2>4, <2>5 DEF ViewInv, StepInv, HasWriter
  <2> QED
    BY <2>2, <2>4, <2>6, QuietStep
<1> QED
  BY <1>1, <1>2

(* A write is recorded in the transaction once the indexes let it in.      *)
LEMMA WritesStep ==
  ASSUME Inv, NEW p \in Caller, WriteAlias(p) \/ WriteOriginal(p)
  PROVE  Inv'
<1> DEFINE d == call[p].candidate
<1>1. PICK kind \in Kind :
        /\ Writes(p, kind) /\ ~call[p].dry
        /\ call[p].step \in {"open", "chained"}
        /\ kind = "alias" => UnknownKey(p) /\ Held(p) # None /\ SameFacts(d, Held(p).event)
        /\ kind = "original" => /\ call[p].step = "chained" /\ UniqueClaim(d)
                                /\ Current(p)
  BY DEF WriteAlias, WriteOriginal, Kind, UnknownKey, Reads
<1> DEFINE c == [call[p] EXCEPT !.step = "written", !.kind = kind]
<1>2. call \in [Caller -> CallRecord] /\ CallOK(call[p])
  BY TypeParts DEF Inv
<1>3. /\ call' = [call EXCEPT ![p] = c] /\ UNCHANGED <<keys, claims, heads, late>>
      /\ WriterFree /\ keys[d.key] = Free
  BY <1>1, <1>2 DEF Writes, UniqueKey
<1>4. d \in Candidate /\ d.operation \in Operation /\ d.key \in Key /\ d.chain \in Chain
  BY <1>1, <1>2, CandidateFields DEF CallOK
<1>5. /\ CallOK(c) /\ c.step = "written" /\ c.kind = kind /\ c.view = call[p].view
      /\ c.candidate = d /\ c.dry = call[p].dry
  BY <1>1, <1>2 DEF CallOK, CallRecord, Step
<1>6. call'[p] = c
  BY <1>2, <1>3
<1>7. ViewInv(p) /\ StepInv(p)
  BY DEF Inv
<1>8. ViewInv(p)'
  BY <1>1, <1>3, <1>5, <1>6, <1>7 DEF ViewInv
<1>9. Fits(WriteOf(p))'
  <2>1. /\ (WriteOf(p).event)' = d /\ (WriteOf(p).kind)' = kind
        /\ (WriteOf(p).position)' = IF kind = "original" THEN Revision(p) + 1 ELSE 0
    BY <1>5, <1>6 DEF WriteOf, Revision
  <2>2. kind = "alias" => /\ claims[d.operation] # None
                          /\ SameFacts(d, claims[d.operation].event)
    BY <1>1, <1>4, <1>7 DEF ViewInv, Held
  <2>3. kind = "original" => /\ claims[d.operation] = None
                             /\ heads[d.chain] # Absent
                             /\ Revision(p) + 1 = heads[d.chain] + 1
    BY <1>1, <1>7 DEF StepInv, UniqueClaim, Current
  <2> QED
    BY <1>3, <2>1, <2>2, <2>3 DEF Fits, SameFacts
<1>10. StepInv(p)'
  BY <1>1, <1>5, <1>6, <1>9 DEF StepInv
<1> QED
  BY <1>1, <1>3, <1>5, <1>8, <1>10, QuietStep DEF Kind

(* A write that commits leaves the other transactions what they were.      *)
LEMMA OtherStep ==
  ASSUME Inv, NEW q \in Caller, NEW w \in Write, Applied(w), call'[q] = call[q],
         ~HasWriter(q),
         w.kind = "original" /\ call[q].step = "chained" =>
           w.event.chain # call[q].candidate.chain
  PROVE  StepInv(q)'
<1>1. StepInv(q) /\ JournalOK /\ CallOK(call[q])
  BY TypeParts DEF Inv
<1>2. call[q].step = "chained" => Current(q)'
  <2>1. SUFFICES ASSUME call[q].step = "chained" PROVE Current(q)'
    OBVIOUS
  <2>2. Current(q) /\ call[q].candidate.chain \in Chain
    BY <1>1, <2>1, CandidateFields DEF StepInv, CallOK
  <2>3. heads'[call[q].candidate.chain] = heads[call[q].candidate.chain]
    BY <1>1, <2>1, <2>2 DEF Applied, JournalOK
  <2> QED
    BY <2>2, <2>3 DEF Current, Revision
<1> QED
  BY <1>1, <1>2 DEF StepInv, Revision, HasWriter

LEMMA LandsStep ==
  ASSUME Inv, NEW p \in Caller, Lands(p)
  PROVE  Inv' /\ Fits(WriteOf(p)) /\ WriteOf(p) \in Write /\ Grows
<1> DEFINE c == [call[p] EXCEPT !.step = "landed"]
           w == WriteOf(p)
<1>1. /\ TypeOK /\ JournalInv /\ WriterInv /\ ChainInv /\ JournalOK
      /\ \A q \in Caller : ViewInv(q) /\ StepInv(q)
      /\ call \in [Caller -> CallRecord] /\ CallOK(call[p])
  BY InvParts, TypeParts
<1>2. /\ call' = [call EXCEPT ![p] = c] /\ late' = late /\ Applied(w)
      /\ call[p].step = "committing" /\ HasWriter(p)
  BY <1>1 DEF Lands, Moves, HasWriter
<1>3. w \in Write /\ Fits(w) /\ w.event = call[p].candidate /\ w.kind = call[p].kind
  BY <1>1, <1>2, WriteType DEF StepInv
<1>4. JournalOK' /\ JournalInv' /\ Grows
  BY <1>1, <1>2, <1>3, AppliedKeeps
<1>5. /\ CallOK(c) /\ c.step = "landed" /\ c.dry = call[p].dry /\ c.view = call[p].view
  BY <1>1, <1>2 DEF CallOK, CallRecord, Step
<1>6. /\ call' \in [Caller -> CallRecord]
      /\ \A q \in Caller : CallOK(call'[q])
      /\ call'[p] = c
      /\ \A q \in Caller : q # p => call'[q] = call[q]
  BY <1>1, <1>2, <1>5, OneCaller
<1>7. TypeOK'
  BY <1>1, <1>2, <1>4, <1>6, TypeParts, TypePartsNext
<1>8. late = {} /\ \A q \in Caller : q # p => ~HasWriter(q)
  BY <1>1, <1>2 DEF WriterInv
<1>9. ASSUME NEW q \in Caller
      PROVE  ViewInv(q)' /\ StepInv(q)'
  <2>1. CASE q = p
    <3>1. StepInv(p)'
      BY <1>1, <1>2, <1>5, <1>6 DEF StepInv, HasWriter
    <3>2. ViewInv(p)'
      BY <1>1, <1>2, <1>4, <1>5, <1>6 DEF ViewInv, Grows
    <3> QED
      BY <2>1, <3>1, <3>2
  <2>2. CASE q # p
    <3>1. ViewInv(q)'
      BY <1>1, <1>4, <1>6, <2>2, ViewKept
    <3>2. w.kind = "original" /\ call[q].step = "chained" =>
            w.event.chain # call[q].candidate.chain
      BY <1>1, <1>2, <1>3 DEF ChainInv
    <3>3. StepInv(q)'
      BY <1>2, <1>3, <1>6, <1>8, <2>2, <3>2, OtherStep
    <3> QED
      BY <3>1, <3>3
  <2> QED
    BY <2>1, <2>2
<1>10. ASSUME NEW q \in Caller PROVE ~HasWriter(q)'
  BY <1>5, <1>6, <1>8, <1>10 DEF HasWriter
<1>11. WriterInv'
  BY <1>2, <1>8, <1>10 DEF WriterInv
<1>12. ChainInv'
  <2>1. ASSUME NEW q \in Caller, call'[q].step = "chained"
        PROVE  call'[q] = call[q]
    BY <1>5, <1>6, <2>1
  <2> QED
    BY <1>1, <1>2, <1>8, <1>10, <2>1 DEF ChainInv
<1>13. \A v \in late' : Fits(v)'
  BY <1>2, <1>8
<1> QED
  BY <1>3, <1>4, <1>7, <1>9, <1>11, <1>12, <1>13 DEF Inv, JournalInv

LEMMA LateLandsStep ==
  ASSUME Inv, NEW w \in late, Applied(w), late' = late \ {w}, UNCHANGED call
  PROVE  Inv' /\ late = {w} /\ late' = {} /\ Fits(w) /\ w \in Write
<1>1. /\ TypeOK /\ JournalInv /\ WriterInv /\ ChainInv /\ JournalOK
      /\ \A q \in Caller : ViewInv(q) /\ StepInv(q)
      /\ Fits(w) /\ w \in Write
  BY InvParts, TypeParts
<1>2. JournalOK' /\ JournalInv' /\ Grows
  BY <1>1, AppliedKeeps
<1>3. late = {w} /\ late' = {} /\ \A q \in Caller : ~HasWriter(q)
  BY <1>1 DEF WriterInv
<1>4. TypeOK'
  BY <1>1, <1>2, <1>3, TypeParts, TypePartsNext
<1>5. ASSUME NEW q \in Caller
      PROVE  ViewInv(q)' /\ StepInv(q)'
  <2>1. ViewInv(q)'
    BY <1>1, <1>2, ViewKept
  <2>2. w.kind = "original" /\ call[q].step = "chained" =>
          w.event.chain # call[q].candidate.chain
    BY <1>1 DEF ChainInv
  <2> QED
    BY <1>1, <1>3, <2>1, <2>2, OtherStep
<1>6. WriterInv' /\ ChainInv'
  BY <1>1, <1>3 DEF WriterInv, ChainInv, HasWriter
<1> QED
  BY <1>1, <1>2, <1>3, <1>4, <1>5, <1>6 DEF Inv, JournalInv

LEMMA LateRollsBackStep ==
  ASSUME Inv, NEW w \in late, late' = late \ {w},
         UNCHANGED <<keys, claims, heads, call>>
  PROVE  Inv' /\ late = {w} /\ late' = {}
<1>1. /\ TypeOK /\ JournalInv /\ WriterInv /\ ChainInv
      /\ \A q \in Caller : ViewInv(q) /\ StepInv(q)
  BY InvParts
<1>2. late = {w} /\ late' = {}
  BY <1>1 DEF WriterInv
<1>3. TypeOK'
  BY <1>1, <1>2, TypeParts, TypePartsNext DEF JournalOK
<1>4. JournalInv' /\ Grows
  BY <1>1, Unchanged
<1>5. ASSUME NEW q \in Caller
      PROVE  ViewInv(q)' /\ StepInv(q)'
  BY <1>1, <1>4, ViewKept, StepKept
<1>6. WriterInv' /\ ChainInv'
  BY <1>1, <1>2 DEF WriterInv, ChainInv, HasWriter
<1> QED
  BY <1>2, <1>3, <1>4, <1>5, <1>6 DEF Inv, JournalInv

LEMMA LosesReplyStep ==
  ASSUME Inv, NEW p \in Caller, LosesReply(p)
  PROVE  /\ Inv'
         /\ call[p].step = "committing" =>
              late = {} /\ late' = {WriteOf(p)} /\ WriteOf(p).event = call[p].candidate
         /\ call[p].step # "committing" => late' = late
<1> DEFINE c == [call[p] EXCEPT !.step = "idle", !.said = "unknown", !.left = 0,
                                !.view = None, !.kind = None]
           w == WriteOf(p)
<1>1. CASE call[p].step # "committing"
  BY <1>1, SaysStep DEF LosesReply, Answer
<1>2. CASE call[p].step = "committing"
  <2>1. /\ TypeOK /\ JournalInv /\ WriterInv /\ ChainInv /\ JournalOK
        /\ \A q \in Caller : ViewInv(q) /\ StepInv(q)
        /\ call \in [Caller -> CallRecord] /\ CallOK(call[p])
    BY InvParts, TypeParts
  <2>2. /\ call' = [call EXCEPT ![p] = c] /\ late' = late \cup {w} /\ HasWriter(p)
        /\ UNCHANGED <<keys, claims, heads>>
    BY <1>2, <2>1 DEF LosesReply, Says, HasWriter
  <2>3. w \in Write /\ Fits(w) /\ w.event = call[p].candidate /\ w.kind = call[p].kind
    BY <2>1, <2>2, WriteType DEF StepInv
  <2>4. late = {} /\ late' = {w} /\ \A q \in Caller : q # p => ~HasWriter(q)
    BY <2>1, <2>2 DEF WriterInv
  <2>5. CallOK(c) /\ c.step = "idle"
    <3>1. 0 \in 0..MaxAttempt
      BY CallerAssumption
    <3>2. call[p] \in CallRecord
      BY <2>1 DEF CallOK
    <3>3. c \in CallRecord
      BY <3>1, <3>2 DEF CallRecord, Step, Answer
    <3>4. c.step = "idle"
      BY <3>2 DEF CallRecord
    <3> QED
      BY <3>3, <3>4 DEF CallOK
  <2>6. /\ call' \in [Caller -> CallRecord]
        /\ \A q \in Caller : CallOK(call'[q])
        /\ call'[p] = c
        /\ \A q \in Caller : q # p => call'[q] = call[q]
    BY <2>1, <2>2, <2>5, OneCaller
  <2>7. TypeOK'
    BY <2>1, <2>2, <2>3, <2>4, <2>6, TypeParts, TypePartsNext DEF JournalOK
  <2>8. JournalInv' /\ Grows
    BY <2>1, <2>2, Unchanged
  <2>9. ASSUME NEW q \in Caller
        PROVE  ViewInv(q)' /\ StepInv(q)'
    <3>1. CASE q = p
      BY <2>5, <2>6, <3>1 DEF ViewInv, StepInv, HasWriter
    <3>2. CASE q # p
      <4>1. call'[q] = call[q]
        BY <2>6, <3>2
      <4>2. StepInv(q)'
        BY <2>1, <2>2, <4>1, StepKept
      <4> QED
        BY <2>1, <2>8, <4>1, <4>2, ViewKept
    <3> QED
      BY <3>1, <3>2
  <2>10. ASSUME NEW q \in Caller PROVE ~HasWriter(q)'
    BY <2>4, <2>5, <2>6, <2>10 DEF HasWriter
  <2>11. WriterInv'
    BY <2>4, <2>10 DEF WriterInv
  <2>12. ChainInv'
    <3>1. ASSUME NEW q \in Caller, call'[q].step = "chained"
          PROVE  call'[q] = call[q]
      BY <2>5, <2>6, <3>1
    <3>2. ASSUME NEW q \in Caller, call'[q].step = "chained", w.kind = "original"
          PROVE  w.event.chain # call'[q].candidate.chain
      <4>1. call'[q] = call[q]
        BY <3>1, <3>2
      <4>2. call[p].candidate.chain # call[q].candidate.chain
        BY <2>1, <2>2, <2>3, <3>2, <4>1 DEF ChainInv
      <4> QED
        BY <2>3, <4>1, <4>2
    <3>3. ASSUME NEW q \in Caller, call'[q].step = "chained",
                 NEW r \in Caller, call'[r].step = "chained", r # q
          PROVE  call'[r].candidate.chain # call'[q].candidate.chain
      <4>1. call'[q] = call[q] /\ call'[r] = call[r]
        BY <3>1, <3>3
      <4> QED
        BY <2>1, <3>3, <4>1 DEF ChainInv
    <3>4. \A v \in late' : v = w
      BY <2>4
    <3> QED
      BY <2>10, <3>2, <3>3, <3>4 DEF ChainInv
  <2>13. \A v \in late' : Fits(v)'
    BY <2>2, <2>3, <2>4 DEF Fits, SameFacts
  <2> QED
    BY <1>2, <2>3, <2>4, <2>7, <2>8, <2>9, <2>11, <2>12, <2>13 DEF Inv, JournalInv
<1> QED
  BY <1>1, <1>2

LEMMA OutcomeStep ==
  ASSUME Inv, NEW k \in Key, OutcomeDelivers(k)
  PROVE  Inv'
<1>1. /\ TypeOK /\ JournalInv /\ WriterInv /\ ChainInv /\ JournalOK
      /\ \A q \in Caller : ViewInv(q) /\ StepInv(q)
  BY InvParts, TypeParts
<1>2. JournalOK' /\ JournalInv' /\ Grows
  BY <1>1, OutcomeKeeps
<1>3. UNCHANGED <<claims, heads, call, late>> /\ WriterFree
  BY DEF OutcomeDelivers
<1>4. TypeOK'
  BY <1>1, <1>2, <1>3, TypeParts, TypePartsNext
<1>5. ASSUME NEW q \in Caller
      PROVE  ViewInv(q)' /\ StepInv(q)'
  <2>1. ViewInv(q)'
    BY <1>1, <1>2, <1>3, ViewKept
  <2>2. ~HasWriter(q)
    BY <1>3 DEF WriterFree
  <2>3. StepInv(q)'
    BY <1>1, <1>3, <2>2 DEF StepInv, Revision, Current, HasWriter
  <2> QED
    BY <2>1, <2>3
<1>6. WriterInv' /\ ChainInv' /\ \A w \in late' : Fits(w)'
  BY <1>1, <1>3 DEF WriterInv, ChainInv, HasWriter, WriterFree
<1> QED
  BY <1>2, <1>4, <1>5, <1>6 DEF Inv, JournalInv

-----------------------------------------------------------------------------
(* The invariant                                                           *)

LEMMA InitInv == Init => Inv
<1> SUFFICES ASSUME Init PROVE Inv
  OBVIOUS
<1> USE DEF Init
<1>1. JournalOK /\ late = {}
  BY DEF JournalOK, Binding, Absent
<1>2. \A p \in Caller : call[p].step = "idle"
  OBVIOUS
<1>3. call \in [Caller -> CallRecord] /\ \A p \in Caller : CallOK(call[p])
  <2>1. 0 \in 0..MaxAttempt
    BY CallerAssumption
  <2> QED
    BY <2>1 DEF CallOK, CallRecord, Step
<1>4. TypeOK
  BY <1>1, <1>3, TypeParts
<1>5. JournalInv
  <2>1. \A x \in Chain : 1..heads[x] = {}
    BY DEF Absent
  <2>2. \A o \in Operation : claims[o] = None
    OBVIOUS
  <2>3. \A k \in Key : keys[k] \notin Candidate
    BY SentinelAssumption
  <2> QED
    BY <2>1, <2>2, <2>3 DEF JournalInv, PositionsInv, DistinctInv, DeliveredInv
<1>6. WriterInv /\ ChainInv
  BY <1>1, <1>2 DEF WriterInv, ChainInv, HasWriter
<1>7. \A p \in Caller : ViewInv(p) /\ StepInv(p)
  BY <1>2 DEF ViewInv, StepInv, HasWriter
<1> QED
  BY <1>1, <1>4, <1>5, <1>6, <1>7, InvParts

LEMMA AttemptStep ==
  ASSUME Inv, NEW p \in Caller, Attempt(p)
  PROVE  Inv'
<1>1. CASE Begin(p)
  BY <1>1, BeginStep
<1>2. CASE Delivered(p)
  BY <1>2, SaysStep DEF Delivered, Answer
<1>3. CASE OtherFacts(p)
  BY <1>3, SaysStep DEF OtherFacts, Answer
<1>4. CASE NoChain(p)
  BY <1>4, SaysStep DEF NoChain, Answer
<1>5. CASE LockChain(p)
  BY <1>5, MovesStep DEF LockChain, UnknownKey, Reads, Step
<1>6. CASE PreviewAlias(p)
  BY <1>6, SaysStep DEF PreviewAlias, Answer
<1>7. CASE PreviewPlan(p)
  BY <1>7, SaysStep DEF PreviewPlan, Answer
<1>8. CASE WriteAlias(p) \/ WriteOriginal(p)
  BY <1>8, WritesStep
<1>9. CASE Fails(p)
  BY <1>9, FailsStep
<1>10. CASE Sends(p)
  BY <1>10, MovesStep DEF Sends, HasWriter, Step
<1>11. CASE Lands(p)
  BY <1>11, LandsStep
<1>12. CASE Refuses(p)
  BY <1>12, MovesStep DEF Refuses, HasWriter, Step
<1>13. CASE Acknowledged(p)
  BY <1>13, SaysStep DEF Acknowledged, Answer
<1>14. CASE LosesReply(p)
  BY <1>14, LosesReplyStep
<1> QED
  BY <1>1, <1>2, <1>3, <1>4, <1>5, <1>6, <1>7, <1>8, <1>9, <1>10, <1>11, <1>12,
     <1>13, <1>14 DEF Attempt

LEMMA NextInv == Inv /\ [Next]_vars => Inv'
<1> SUFFICES ASSUME Inv, [Next]_vars PROVE Inv'
  OBVIOUS
<1>1. ASSUME NEW p \in Caller, NEW c \in Candidate, NEW dry \in BOOLEAN, Calls(p, c, dry)
      PROVE  Inv'
  BY <1>1, CallsStep
<1>2. ASSUME NEW p \in Caller, Attempt(p)
      PROVE  Inv'
  BY <1>2, AttemptStep
<1>3. CASE LateLands
  BY <1>3, LateLandsStep DEF LateLands
<1>4. CASE LateRollsBack
  BY <1>4, LateRollsBackStep DEF LateRollsBack
<1>5. ASSUME NEW k \in Key, OutcomeDelivers(k)
      PROVE  Inv'
  BY <1>5, OutcomeStep
<1>6. CASE UNCHANGED vars
  <2>1. UNCHANGED <<keys, claims, heads, call, late>>
    BY <1>6 DEF vars
  <2>2. TypeOK' /\ JournalInv' /\ Grows
    BY <2>1, Unchanged DEF Inv, TypeOK, JournalInv
  <2>3. \A q \in Caller : ViewInv(q)' /\ StepInv(q)'
    BY <2>1, <2>2, ViewKept, StepKept DEF Inv
  <2>4. WriterInv' /\ ChainInv' /\ \A w \in late' : Fits(w)'
    BY <2>1 DEF Inv, WriterInv, ChainInv, HasWriter, Fits, SameFacts
  <2> QED
    BY <2>2, <2>3, <2>4 DEF Inv, JournalInv
<1> QED
  BY <1>1, <1>2, <1>3, <1>4, <1>5, <1>6 DEF Next

LEMMA AlwaysInv == Spec => []Inv
BY InitInv, NextInv, PTL DEF Spec

(* The types, for every instance: transactions, snapshots, written rows and *)
(* the attempts that `run` counts.                                          *)
THEOREM AcceptanceTypeOK == Spec => []TypeOK
<1>1. Inv => TypeOK
  BY DEF Inv
<1> QED
  BY <1>1, AlwaysInv, PTL

(* The events of a chain are numbered without gap or repetition, and keys   *)
(* and claims agree, whatever attempts race, repeat or land late.           *)
THEOREM JournalTheorem == Spec => []JournalIsWhole
<1>1. Inv => JournalIsWhole
  <2> SUFFICES ASSUME Inv PROVE JournalIsWhole
    OBVIOUS
  <2>1. TypeOK /\ JournalInv /\ JournalOK
    BY InvParts, TypeParts
  <2>2. ASSUME NEW x \in Chain
        PROVE  {claims[o].position : o \in {o \in Operation :
                   claims[o] # None /\ claims[o].event.chain = x}} = 1..heads[x]
    BY <2>1 DEF JournalInv, PositionsInv
  <2> QED
    BY <2>1, <2>2 DEF JournalInv, DistinctInv, DeliveredInv, JournalIsWhole
<1> QED
  BY <1>1, AlwaysInv, PTL

-----------------------------------------------------------------------------
(* Each call is one atomic step of AcceptedOnce                            *)

LEMMA ShownFields ==
  ASSUME NEW c
  PROVE  /\ Shown(c).candidate = c.candidate /\ Shown(c).dry = c.dry
         /\ Shown(c).wrote = IF c.step = "landed" THEN c.kind ELSE "nothing"
         /\ Shown(c).said = c.said
         /\ Shown(c).running = (c.step # "idle")
BY DEF Shown

LEMMA ShownStep ==
  ASSUME Inv, NEW p \in Caller, NEW c, CallOK(c), call' = [call EXCEPT ![p] = c]
  PROVE  /\ shown' = [shown EXCEPT ![p] = Shown(c)]
         /\ shown[p] = Shown(call[p])
<1>1. /\ call' \in [Caller -> CallRecord] /\ call'[p] = c
      /\ \A q \in Caller : q # p => call'[q] = call[q]
  BY OneCaller DEF Inv
<1> QED
  BY <1>1 DEF shown, Shown

(* A step that shows nothing: the call goes on, and has not landed.        *)
LEMMA HiddenStep ==
  ASSUME Inv, NEW p \in Caller, NEW c, CallOK(c), call' = [call EXCEPT ![p] = c],
         UNCHANGED <<keys, claims, heads, late>>,
         call[p].step \notin {"idle", "landed"}, c.step \notin {"idle", "landed"},
         c.candidate = call[p].candidate, c.dry = call[p].dry, c.said = call[p].said
  PROVE  UNCHANGED <<keys, claims, heads, shown, doubtful>>
<1>1. Shown(c) = Shown(call[p])
  BY DEF Shown
<1>2. shown' = [shown EXCEPT ![p] = Shown(c)] /\ shown[p] = Shown(call[p])
  BY ShownStep
<1>3. shown' = shown
  BY <1>1, <1>2 DEF shown
<1> QED
  BY <1>3 DEF doubtful

(* The answer of a call that is true of what it wrote.                     *)
LEMMA SaysReturn ==
  ASSUME Inv, NEW p \in Caller, NEW said \in Answer, call[p].step # "idle",
         Says(p, said), UNCHANGED <<keys, claims, heads>>,
         Once!True(said, call[p].candidate, Shown(call[p]).wrote),
         \/ UNCHANGED doubtful
         \/ /\ said = "unknown" /\ call[p].step = "committing"
            /\ doubtful' = doubtful \cup {call[p].candidate}
  PROVE  Once!Next
<1> DEFINE c == [call[p] EXCEPT !.step = "idle", !.said = said, !.left = 0,
                                !.view = None, !.kind = None]
<1>1. call \in [Caller -> CallRecord] /\ CallOK(call[p]) /\ call[p] \in CallRecord
  BY TypeParts DEF Inv
<1>2. call' = [call EXCEPT ![p] = c]
  BY <1>1 DEF Says
<1>3. /\ CallOK(c) /\ c.step = "idle" /\ c.candidate = call[p].candidate
      /\ c.dry = call[p].dry /\ c.said = said
  <2>1. 0 \in 0..MaxAttempt
    BY CallerAssumption
  <2>2. c \in CallRecord
    BY <1>1, <2>1 DEF CallRecord, Step
  <2>3. /\ c.step = "idle" /\ c.candidate = call[p].candidate
        /\ c.dry = call[p].dry /\ c.said = said
    BY <1>1 DEF CallRecord
  <2> QED
    BY <2>2, <2>3 DEF CallOK
<1>4. shown' = [shown EXCEPT ![p] = Shown(c)] /\ shown[p] = Shown(call[p])
  BY <1>2, <1>3, ShownStep
<1>5. Shown(c) = [candidate |-> call[p].candidate, dry |-> call[p].dry,
                  running |-> FALSE, wrote |-> "nothing", said |-> said]
  <2>1. (c.step # "idle") = FALSE
    BY <1>3
  <2> HIDE DEF c
  <2>2. (IF c.step = "landed" THEN c.kind ELSE "nothing") = "nothing"
    BY <1>3
  <2> QED
    BY <1>3, <2>1, <2>2, Zenon DEF Shown
<1>6. shown' = [shown EXCEPT ![p] =
                  Once!Call(call[p].candidate, call[p].dry, FALSE, "nothing", said)]
  BY <1>4, <1>5 DEF Once!Call
<1>7. /\ shown[p].running /\ shown[p].candidate = call[p].candidate
      /\ shown[p].wrote = Shown(call[p]).wrote /\ shown[p].dry = call[p].dry
  <2>1. call[p].step # "idle"
    OBVIOUS
  <2>2. shown[p].running = (call[p].step # "idle")
    BY <1>4, ShownFields
  <2>3. shown[p].running
    BY <2>1, <2>2, Zenon
  <2>4. /\ shown[p].candidate = call[p].candidate
        /\ shown[p].wrote = Shown(call[p]).wrote /\ shown[p].dry = call[p].dry
    BY <1>4, ShownFields
  <2> QED
    BY <2>3, <2>4
<1>8. call[p].step = "committing" => ~call[p].dry /\ shown[p].wrote = "nothing"
  BY <1>4 DEF Inv, StepInv, Shown
<1>9. Once!Return(p, said)
  BY <1>6, <1>7, <1>8 DEF Once!Return
<1>10. said \in Once!Answer
  BY DEF Answer, Once!Answer
<1> QED
  BY <1>9, <1>10 DEF Once!Next

LEMMA CallsInvoke ==
  ASSUME Inv, NEW p \in Caller, NEW d \in Candidate, NEW dry \in BOOLEAN,
         Calls(p, d, dry)
  PROVE  Once!Next
<1> DEFINE c == [step |-> "begin", candidate |-> d, dry |-> dry,
                 left |-> MaxAttempt, view |-> None, kind |-> None, said |-> None]
<1>1. call' = [call EXCEPT ![p] = c] /\ UNCHANGED <<keys, claims, heads, late>>
      /\ call[p].step = "idle"
  BY DEF Calls
<1>2. CallOK(c)
  BY CallerAssumption DEF CallOK, CallRecord, Step
<1>3. shown' = [shown EXCEPT ![p] = Shown(c)] /\ shown[p] = Shown(call[p])
  BY <1>1, <1>2, ShownStep
<1>4. Shown(c) = [candidate |-> d, dry |-> dry, running |-> TRUE,
                  wrote |-> "nothing", said |-> None]
  BY DEF Shown
<1>5. ~shown[p].running
  <2>1. shown[p].running = (call[p].step # "idle")
    BY <1>3, ShownFields
  <2> QED
    BY <1>1, <2>1, Zenon
<1>6. Once!Invoke(p, d, dry)
  BY <1>1, <1>3, <1>4, <1>5 DEF Once!Invoke, Once!Call, doubtful
<1> QED
  BY <1>6 DEF Once!Next

(* A write that fits lands as AcceptedOnce lets it.                        *)
LEMMA AppliedLands ==
  ASSUME JournalOK, NEW w \in Write, Fits(w), Applied(w)
  PROVE  Once!Lands(w.event, w.kind)
<1>1. /\ w.kind \in {"original", "alias"}
      /\ w.event.operation \in Operation /\ w.event.chain \in Chain
  BY CandidateFields DEF Write, Kind
<1>2. CASE w.kind = "original"
  <2>1. /\ heads' = [heads EXCEPT ![w.event.chain] = heads[w.event.chain] + 1]
        /\ claims' = [claims EXCEPT ![w.event.operation] =
                        [event |-> w.event, position |-> heads[w.event.chain] + 1]]
        /\ heads[w.event.chain] # Absent
    BY <1>2 DEF Applied, Fits
  <2>2. Once!Accept(w.event)
    BY <1>2, <2>1 DEF Fits, Once!Accept, Absent, Once!Absent
  <2> QED
    BY <1>2, <2>2 DEF Applied, Fits, Once!Lands
<1>3. CASE w.kind = "alias"
  BY <1>3 DEF Applied, Fits, SameFacts, Once!SameFacts, Once!Lands, Once!Alias
<1> QED
  BY <1>1, <1>2, <1>3

LEMMA LandsTakesEffect ==
  ASSUME Inv, NEW p \in Caller, Lands(p)
  PROVE  Once!Next
<1> DEFINE c == [call[p] EXCEPT !.step = "landed"]
           w == WriteOf(p)
<1>1. /\ call \in [Caller -> CallRecord] /\ CallOK(call[p]) /\ JournalOK /\ StepInv(p)
  BY TypeParts DEF Inv
<1>2. /\ call' = [call EXCEPT ![p] = c] /\ late' = late /\ Applied(w)
      /\ call[p].step = "committing" /\ HasWriter(p)
  BY <1>1 DEF Lands, Moves, HasWriter
<1>3. w \in Write /\ Fits(w) /\ w.event = call[p].candidate /\ w.kind = call[p].kind
  BY <1>1, <1>2, WriteType DEF StepInv, Inv
<1>4. /\ CallOK(c) /\ c.step = "landed" /\ c.dry = call[p].dry
      /\ c.kind = call[p].kind /\ c.candidate = call[p].candidate
      /\ c.said = call[p].said /\ call[p].kind \in {"original", "alias"}
  BY <1>1, <1>2 DEF CallOK, CallRecord, Step, Kind
<1>5. shown' = [shown EXCEPT ![p] = Shown(c)] /\ shown[p] = Shown(call[p])
  BY <1>2, <1>4, ShownStep
<1>6. Shown(c) = [shown[p] EXCEPT !.wrote = call[p].kind]
  BY <1>2, <1>4, <1>5 DEF Shown
<1>7. shown' = [shown EXCEPT ![p].wrote = call[p].kind]
  BY <1>5, <1>6 DEF shown
<1>8. /\ shown[p].running /\ ~shown[p].dry /\ shown[p].wrote = "nothing"
      /\ shown[p].candidate = w.event
  <2>1. /\ shown[p].running = (call[p].step # "idle") /\ shown[p].dry = call[p].dry
        /\ shown[p].wrote = "nothing" /\ shown[p].candidate = call[p].candidate
    BY <1>2, <1>5, ShownFields
  <2>2. call[p].step # "idle" /\ ~call[p].dry
    BY <1>1, <1>2 DEF StepInv
  <2>3. shown[p].running /\ ~shown[p].dry
    BY <2>1, <2>2, Zenon
  <2> QED
    BY <1>3, <2>1, <2>3
<1>9. Once!Lands(shown[p].candidate, call[p].kind)
  BY <1>1, <1>2, <1>3, <1>8, AppliedLands
<1>10. Once!TakeEffect(p)
  BY <1>2, <1>4, <1>7, <1>8, <1>9 DEF Once!TakeEffect, doubtful
<1> QED
  BY <1>10 DEF Once!Next

LEMMA LateTakesEffect ==
  ASSUME Inv, LateLands \/ LateRollsBack
  PROVE  Once!Next
<1>1. CASE LateLands
  <2>1. PICK w \in late : Applied(w) /\ late' = late \ {w} /\ UNCHANGED call
    BY <1>1 DEF LateLands
  <2>2. late = {w} /\ late' = {} /\ Fits(w) /\ w \in Write /\ JournalOK
    BY <2>1, LateLandsStep, TypeParts DEF Inv
  <2>3. Once!Lands(w.event, w.kind) /\ w.kind \in {"original", "alias"}
    BY <2>1, <2>2, AppliedLands DEF Write, Kind
  <2>4. doubtful = {w.event} /\ doubtful' = {}
    BY <2>2 DEF doubtful
  <2>5. shown' = shown
    BY <2>1 DEF shown
  <2> QED
    BY <2>3, <2>4, <2>5 DEF Once!Next, Once!TakeEffectLate
<1>2. CASE LateRollsBack
  <2>1. PICK w \in late : late' = late \ {w} /\ UNCHANGED <<keys, claims, heads, call>>
    BY <1>2 DEF LateRollsBack
  <2>2. late = {w} /\ late' = {}
    BY <2>1, LateRollsBackStep
  <2>3. doubtful = {w.event} /\ doubtful' = {}
    BY <2>2 DEF doubtful
  <2>4. shown' = shown
    BY <2>1 DEF shown
  <2> QED
    BY <2>1, <2>3, <2>4 DEF Once!Next, Once!NeverTakesEffect
<1> QED
  BY <1>1, <1>2

(* What a snapshot showed is true when it is answered.                     *)
LEMMA AnswersAreTrue ==
  ASSUME Inv, NEW p \in Caller,
         Delivered(p) \/ OtherFacts(p) \/ NoChain(p) \/ PreviewAlias(p) \/ PreviewPlan(p)
  PROVE  Once!Next
<1> DEFINE d == call[p].candidate
<1>1. /\ CallOK(call[p]) /\ ViewInv(p)
      /\ call[p].step \in {"open", "chained"}
      /\ UNCHANGED <<keys, claims, heads, late>>
  BY TypeParts DEF Inv, Delivered, OtherFacts, NoChain, PreviewAlias, PreviewPlan,
     UnknownKey, Reads
<1>2. /\ d.key \in Key /\ d.operation \in Operation /\ d.chain \in Chain
      /\ call[p].view \in Journal
  BY <1>1, CandidateFields DEF CallOK
<1>3. /\ Owner(p) # Free => keys[d.key] = Owner(p)
      /\ Held(p) # None => claims[d.operation] = Held(p)
      /\ Revision(p) = Absent <=> heads[d.chain] = Absent
  BY <1>1, <1>2 DEF ViewInv, Owner, Held, Revision
<1>4. Shown(call[p]).wrote = "nothing" /\ UNCHANGED doubtful /\ call[p].step # "idle"
  BY <1>1, ShownFields DEF doubtful
<1>5. CASE Delivered(p)
  <2>1. PICK said \in {"duplicate", "conflict"} :
          /\ Says(p, said) /\ Owner(p) # Free
          /\ (said = "duplicate") <=> Owner(p) = d
    BY <1>5 DEF Delivered
  <2>2. Once!True(said, d, "nothing")
    BY <1>3, <2>1 DEF Once!True
  <2> QED
    BY <1>1, <1>4, <2>1, <2>2, SaysReturn DEF Answer
<1>6. CASE OtherFacts(p)
  <2>1. Says(p, "semantic conflict") /\ Held(p) # None /\ ~SameFacts(d, Held(p).event)
    BY <1>6 DEF OtherFacts
  <2>2. Once!True("semantic conflict", d, "nothing")
    BY <1>3, <2>1 DEF Once!True, SameFacts, Once!SameFacts
  <2> QED
    BY <1>1, <1>4, <2>1, <2>2, SaysReturn DEF Answer
<1>7. CASE NoChain(p)
  <2>1. Says(p, "waiting") /\ Revision(p) = Absent
    BY <1>7 DEF NoChain
  <2>2. Once!True("waiting", d, "nothing")
    BY <1>3, <2>1 DEF Once!True, Absent, Once!Absent
  <2> QED
    BY <1>1, <1>4, <2>1, <2>2, SaysReturn DEF Answer
<1>8. CASE PreviewAlias(p)
  <2>1. Says(p, "would alias") /\ Held(p) # None /\ SameFacts(d, Held(p).event)
    BY <1>8 DEF PreviewAlias
  <2>2. Once!True("would alias", d, "nothing")
    BY <1>3, <2>1 DEF Once!True, SameFacts, Once!SameFacts
  <2> QED
    BY <1>1, <1>4, <2>1, <2>2, SaysReturn DEF Answer
<1>9. CASE PreviewPlan(p)
  <2>1. Says(p, "would accept")
    BY <1>9 DEF PreviewPlan
  <2>2. Once!True("would accept", d, "nothing")
    BY DEF Once!True
  <2> QED
    BY <1>1, <1>4, <2>1, <2>2, SaysReturn DEF Answer
<1> QED
  BY <1>5, <1>6, <1>7, <1>8, <1>9

(* The three ends of a COMMIT, and of an attempt that is not repeated.     *)
LEMMA EndsAreTrue ==
  ASSUME Inv, NEW p \in Caller,
         \/ Acknowledged(p) \/ LosesReply(p)
         \/ Fails(p) /\ Says(p, "not now")
  PROVE  Once!Next
<1>1. call[p].step # "idle" /\ CallOK(call[p])
  BY TypeParts DEF Acknowledged, LosesReply, Fails, Inv
<1>2. CASE Acknowledged(p)
  <2>1. call[p].step = "landed" /\ call[p].kind \in {"original", "alias"}
    BY <1>1, <1>2 DEF Acknowledged, CallOK, Kind
  <2>2. PICK said \in {"accepted", "alias"} :
          Says(p, said) /\ said = IF call[p].kind = "original" THEN "accepted" ELSE "alias"
    BY <1>2 DEF Acknowledged
  <2>3. Shown(call[p]).wrote = call[p].kind
    BY <2>1, ShownFields
  <2>4. Once!True(said, call[p].candidate, call[p].kind)
    BY <2>1, <2>2 DEF Once!True
  <2> QED
    BY <1>1, <1>2, <2>2, <2>3, <2>4, SaysReturn DEF Acknowledged, Answer, doubtful
<1>3. CASE LosesReply(p)
  <2>1. Once!True("unknown", call[p].candidate, Shown(call[p]).wrote)
    BY DEF Once!True
  <2>2. \/ UNCHANGED doubtful
        \/ /\ call[p].step = "committing"
           /\ doubtful' = doubtful \cup {call[p].candidate}
    BY <1>3, LosesReplyStep DEF doubtful
  <2> QED
    BY <1>1, <1>3, <2>1, <2>2, SaysReturn DEF LosesReply, Answer
<1>4. CASE Fails(p) /\ Says(p, "not now")
  <2>1. Shown(call[p]).wrote = "nothing"
    BY <1>4, ShownFields DEF Fails
  <2>2. Once!True("not now", call[p].candidate, "nothing")
    BY DEF Once!True
  <2> QED
    BY <1>1, <1>4, <2>1, <2>2, SaysReturn DEF Fails, Answer, doubtful
<1> QED
  BY <1>2, <1>3, <1>4

(* The steps between, of which a caller sees nothing.                      *)
LEMMA StepsAreHidden ==
  ASSUME Inv, NEW p \in Caller,
         \/ Begin(p) \/ LockChain(p) \/ WriteAlias(p) \/ WriteOriginal(p)
         \/ Sends(p) \/ Refuses(p)
         \/ Fails(p) /\ ~Says(p, "not now")
  PROVE  UNCHANGED <<keys, claims, heads, shown, doubtful>>
<1>1. call \in [Caller -> CallRecord] /\ CallOK(call[p]) /\ call[p] \in CallRecord
      /\ TypeOK
  BY TypeParts DEF Inv
<1>2. call' \in [Caller -> CallRecord] /\ CallOK(call'[p]) /\ TypeOK'
  <2>1. Next
    BY DEF Next, Attempt
  <2>2. Inv'
    BY <2>1, NextInv
  <2> QED
    BY <2>2, TypePartsNext DEF Inv
<1>3. /\ UNCHANGED <<keys, claims, heads, late>>
      /\ call' = [call EXCEPT ![p] = call'[p]]
      /\ call[p].step \notin {"idle", "landed"}
  BY <1>1, <1>2 DEF Begin, LockChain, WriteAlias, WriteOriginal, Writes, Sends, Refuses, Fails,
     Moves, UnknownKey, Reads
<1>4. /\ call'[p].step \notin {"idle", "landed"}
      /\ call'[p].candidate = call[p].candidate /\ call'[p].dry = call[p].dry
      /\ call'[p].said = call[p].said
  <2>1. CASE Begin(p)
    BY <1>1, <2>1 DEF Begin, CallRecord
  <2>2. CASE LockChain(p) \/ Sends(p) \/ Refuses(p)
    <3>1. PICK step \in {"chained", "committing", "refused"} :
            call' = [call EXCEPT ![p].step = step]
      BY <2>2 DEF LockChain, Sends, Refuses, Moves
    <3> QED
      BY <1>1, <3>1 DEF CallRecord
  <2>3. CASE WriteAlias(p) \/ WriteOriginal(p)
    <3>1. PICK kind \in Kind :
            call' = [call EXCEPT ![p].step = "written", ![p].kind = kind]
      BY <2>3 DEF WriteAlias, WriteOriginal, Writes, Kind
    <3> QED
      BY <1>1, <3>1 DEF CallRecord
  <2>4. CASE Fails(p) /\ ~Says(p, "not now")
    <3>1. call' = [call EXCEPT ![p].step = "begin", ![p].left = @ - 1,
                               ![p].view = None, ![p].kind = None]
      BY <2>4 DEF Fails
    <3> QED
      BY <1>1, <3>1 DEF CallRecord
  <2> QED
    BY <2>1, <2>2, <2>3, <2>4
<1> QED
  BY <1>2, <1>3, <1>4, HiddenStep

LEMMA InitRefines == Init => Once!Init
<1> SUFFICES ASSUME Init PROVE Once!Init
  OBVIOUS
<1>1. shown = [p \in Caller |-> [candidate |-> None, dry |-> FALSE, running |-> FALSE,
                                 wrote |-> "nothing", said |-> None]]
  <2>1. \A p \in Caller : call[p] = [step |-> "idle", candidate |-> None, dry |-> FALSE,
                                     left |-> 0, view |-> None, kind |-> None,
                                     said |-> None]
    BY DEF Init
  <2>2. ASSUME NEW p \in Caller
        PROVE  Shown(call[p]) = [candidate |-> None, dry |-> FALSE, running |-> FALSE,
                                 wrote |-> "nothing", said |-> None]
    <3>1. /\ call[p].step = "idle" /\ call[p].candidate = None /\ call[p].dry = FALSE
          /\ call[p].said = None
          /\ (call[p].step # "idle") = FALSE
          /\ (IF call[p].step = "landed" THEN call[p].kind ELSE "nothing") = "nothing"
      BY <2>1
    <3> QED
      BY <3>1, Zenon DEF Shown
  <2> QED
    BY <2>2 DEF shown
<1>2. doubtful = {}
  BY DEF Init, doubtful
<1> QED
  BY <1>1, <1>2 DEF Init, Once!Init, Once!Call, Key, Operation, Once!Key, Once!Operation,
     Absent, Once!Absent

LEMMA NextRefines == Inv /\ [Next]_vars => [Once!Next]_(Once!vars)
<1> SUFFICES ASSUME Inv, [Next]_vars PROVE [Once!Next]_(Once!vars)
  OBVIOUS
<1> USE DEF Once!vars
<1>1. ASSUME NEW p \in Caller, NEW c \in Candidate, NEW dry \in BOOLEAN, Calls(p, c, dry)
      PROVE  Once!Next
  BY <1>1, CallsInvoke
<1>2. ASSUME NEW p \in Caller, Attempt(p)
      PROVE  [Once!Next]_(Once!vars)
  <2>1. CASE \/ Delivered(p) \/ OtherFacts(p) \/ NoChain(p)
             \/ PreviewAlias(p) \/ PreviewPlan(p)
    BY <2>1, AnswersAreTrue
  <2>2. CASE Acknowledged(p) \/ LosesReply(p) \/ (Fails(p) /\ Says(p, "not now"))
    BY <2>2, EndsAreTrue
  <2>3. CASE Lands(p)
    BY <2>3, LandsTakesEffect
  <2>4. CASE \/ Begin(p) \/ LockChain(p) \/ WriteAlias(p) \/ WriteOriginal(p)
             \/ Sends(p) \/ Refuses(p) \/ (Fails(p) /\ ~Says(p, "not now"))
    BY <2>4, StepsAreHidden
  <2> QED
    BY <1>2, <2>1, <2>2, <2>3, <2>4 DEF Attempt
<1>3. CASE LateLands \/ LateRollsBack
  BY <1>3, LateTakesEffect
<1>4. ASSUME NEW k \in Key, OutcomeDelivers(k)
      PROVE  Once!Next
  <2>1. Once!OtherProfile(k)
    BY <1>4 DEF OutcomeDelivers, Once!OtherProfile, shown, doubtful
  <2> QED
    BY <2>1 DEF Once!Next, Key, Once!Key
<1>5. CASE UNCHANGED vars
  BY <1>5 DEF vars, shown, doubtful
<1> QED
  BY <1>1, <1>2, <1>3, <1>4, <1>5 DEF Next

(* For any callers, candidates and chains, `run` over transactions with     *)
(* snapshots, locks, retries and lost replies implements calls that take    *)
(* effect at once, at most once, and are answered truthfully.               *)
THEOREM AcceptsOnceTheorem == Spec => AcceptsOnce
BY InitRefines, NextRefines, AlwaysInv, PTL DEF Spec, AcceptsOnce, Once!Spec
=============================================================================
