---------------------------- MODULE SumTheorems ----------------------------
(***************************************************************************)
(* Facts about SumOver for every finite set.  The provers do not apply the *)
(* library's induction theorems, which quantify over operators; here the   *)
(* induction hypothesis is a set, whose complement would have a least      *)
(* element.                                                                *)
(***************************************************************************)
EXTENDS Sums, FiniteSets, FiniteSetTheorems, WellFoundedInduction, TLAPS

\* Every non-empty set of natural numbers has a least element.
LEMMA LeastNat ==
  ASSUME NEW S \in SUBSET Nat, S # {}
  PROVE  \E m \in S : \A x \in S : m <= x
<1> DEFINE R == {ss \in Nat \X Nat : ss[1] < ss[2]}
<1>1. R = OpToRel(<, Nat)  BY DEF OpToRel
<1>2. IsWellFoundedOn(R, Nat)  BY <1>1, NatLessThanWellFounded
<1>3. \A x, y \in S : y < x => <<y, x>> \in R  OBVIOUS
<1> HIDE DEF R
<1>4. PICK m \in S : \A y \in S : ~(<<y, m>> \in R)
  BY <1>2, WFMin
<1>5. \A y \in S : ~(y < m)  BY <1>3, <1>4
<1>6. \A y \in S : m <= y
  <2> TAKE y \in S
  <2>1. m \in Nat /\ y \in Nat /\ ~(y < m) BY <1>5
  <2> QED BY <2>1
<1> QED BY <1>6

\* What holds of zero and passes from each number to the next holds of all.
LEMMA NatInduct ==
  ASSUME NEW T, 0 \in T, \A n \in Nat : n \in T => n + 1 \in T
  PROVE  Nat \subseteq T
<1> SUFFICES ASSUME Nat \ T # {} PROVE FALSE  OBVIOUS
<1>1. PICK m \in Nat \ T : \A x \in Nat \ T : m <= x  BY LeastNat
<1>2. m # 0 /\ m - 1 \in Nat  OBVIOUS
<1>3. m - 1 \in T  BY <1>1, <1>2
<1>4. (m - 1) + 1 \in T  BY <1>2, <1>3
<1> QED BY <1>1, <1>4

-----------------------------------------------------------------------------
(* The sum's recursive function exists. *)

\* The element a sum takes next, and one round of the recursion.
Pick(s) == CHOOSE x \in s : TRUE
Round(f, dom, it) ==
  [s \in dom |-> IF s = {} THEN 0 ELSE f[Pick(s)] + it[s \ {Pick(s)}]]
Solves(it, f, dom) == it = Round(f, dom, it)
Iter(f, S) == CHOOSE it : it = Round(f, SUBSET S, it)

LEMMA SumUnfolds ==
  ASSUME NEW f, NEW S
  PROVE  SumOver(f, S) = Iter(f, S)[S]
BY DEF SumOver, Iter, Round, Pick, MapThenSumSet, MapThenFoldSet

LEMMA PickIn == ASSUME NEW s, s # {} PROVE Pick(s) \in s
BY DEF Pick

LEMMA RoundAt ==
  ASSUME NEW f, NEW dom, NEW it, NEW s \in dom
  PROVE  /\ s = {} => Round(f, dom, it)[s] = 0
         /\ s # {} => Round(f, dom, it)[s] = f[Pick(s)] + it[s \ {Pick(s)}]
BY DEF Round

\* A function the round reproduces satisfies the recursion.
LEMMA Recursion ==
  ASSUME NEW f, NEW dom, NEW it, Solves(it, f, dom), NEW s \in dom
  PROVE  /\ s = {} => it[s] = 0
         /\ s # {} => it[s] = f[Pick(s)] + it[s \ {Pick(s)}]
<1>1. /\ s = {} => Round(f, dom, it)[s] = 0
      /\ s # {} => Round(f, dom, it)[s] = f[Pick(s)] + it[s \ {Pick(s)}]
  BY RoundAt
<1>2. it[s] = Round(f, dom, it)[s]  BY Zenon DEF Solves
<1> QED BY <1>1, <1>2

LEMMA IterExists ==
  ASSUME NEW f, NEW S, IsFiniteSet(S)
  PROVE  Solves(Iter(f, S), f, SUBSET S)
<1> DEFINE Small(n) == {s \in SUBSET S : Cardinality(s) <= n}
           T == {n \in Nat : \E it : it = Round(f, Small(n), it)}
<1>0. \A s \in SUBSET S : IsFiniteSet(s) /\ Cardinality(s) \in Nat
  BY FS_Subset, FS_CardinalityType
<1>1. 0 \in T
  <2>1. \A s \in Small(0) : s = {}  BY <1>0, FS_EmptySet
  <2>2. [s \in Small(0) |-> 0] = Round(f, Small(0), [s \in Small(0) |-> 0])
    BY <2>1 DEF Round
  <2> QED BY <2>2
<1>2. ASSUME NEW n \in Nat, n \in T  PROVE n + 1 \in T
  <2>1. PICK it : it = Round(f, Small(n), it)  BY <1>2
  <2> DEFINE up == Round(f, Small(n + 1), it)
  <2>2. ASSUME NEW s \in Small(n + 1), s # {}, NEW x \in s
        PROVE  s \ {x} \in Small(n)
    BY <1>0, <2>2, FS_RemoveElement
  <2>3. \A s \in Small(n) : s \in Small(n + 1)  BY <1>0
  <2>4. \A s \in Small(n) : up[s] = it[s]  BY <2>1, <2>3 DEF Round
  <2>5. up = Round(f, Small(n + 1), up)
    <3>1. ASSUME NEW s \in Small(n + 1), s # {}
          PROVE  up[s \ {Pick(s)}] = it[s \ {Pick(s)}]
      <4>1. s \ {Pick(s)} \in Small(n)  BY <2>2, <3>1, PickIn
      <4> QED BY <2>4, <4>1
    <3>2. ASSUME NEW s \in Small(n + 1)
          PROVE  up[s] = Round(f, Small(n + 1), up)[s]
      <4> HIDE DEF Small
      <4>1. CASE s = {}  BY <4>1, RoundAt
      <4>2. CASE s # {}
        <5>1. up[s] = f[Pick(s)] + it[s \ {Pick(s)}]  BY <4>2, RoundAt
        <5> HIDE DEF up
        <5>2. Round(f, Small(n + 1), up)[s] = f[Pick(s)] + up[s \ {Pick(s)}]
          BY <4>2, RoundAt
        <5> QED BY <5>1, <5>2, <3>1, <4>2
      <4> QED BY <4>1, <4>2
    <3>3. up = [s \in Small(n + 1) |-> up[s]]  BY DEF Round
    <3>4. Round(f, Small(n + 1), up)
            = [s \in Small(n + 1) |-> Round(f, Small(n + 1), up)[s]]
      BY DEF Round
    <3> HIDE DEF up
    <3> QED BY <3>2, <3>3, <3>4, Zenon
  <2> QED BY <2>5
<1>3. Cardinality(S) \in T
  <2>1. Nat \subseteq T
    <3> HIDE DEF T
    <3> QED BY <1>1, <1>2, NatInduct
  <2> QED BY <2>1, FS_CardinalityType
<1>4. Small(Cardinality(S)) = SUBSET S  BY FS_Subset, FS_CardinalityType
<1>5. PICK it : it = Round(f, SUBSET S, it)  BY <1>3, <1>4
<1> QED BY <1>5, Zenon DEF Iter, Solves

LEMMA IterAt ==
  ASSUME NEW f, NEW S, IsFiniteSet(S), NEW s \in SUBSET S, s # {}
  PROVE  Iter(f, S)[s] = f[Pick(s)] + Iter(f, S)[s \ {Pick(s)}]
<1>1. Solves(Iter(f, S), f, SUBSET S)  BY IterExists
<1>2. PICK it : it = Iter(f, S)  OBVIOUS
<1>3. Solves(it, f, SUBSET S)  BY <1>1, <1>2, Zenon
<1>4. it[s] = f[Pick(s)] + it[s \ {Pick(s)}]  BY <1>3, Recursion
<1> QED BY <1>2, <1>4, Zenon

\* Over a subset of S, the recursion of S computes what that of the subset does.
LEMMA IterOfSubset ==
  ASSUME NEW f, NEW S, IsFiniteSet(S), NEW T \in SUBSET S
  PROVE  Iter(f, T)[T] = Iter(f, S)[T]
<1> DEFINE Bad == {n \in Nat : \E s \in SUBSET T :
                     Cardinality(s) = n /\ Iter(f, T)[s] # Iter(f, S)[s]}
<1>0. \A s \in SUBSET T : IsFiniteSet(s) /\ Cardinality(s) \in Nat
  BY FS_Subset, FS_CardinalityType
<1> SUFFICES ASSUME Bad # {} PROVE FALSE  BY <1>0
<1>1. PICK m \in Bad : \A n \in Bad : m <= n
  <2>1. Bad \in SUBSET Nat  OBVIOUS
  <2> HIDE DEF Bad
  <2> QED BY <2>1, LeastNat
<1>2. PICK s \in SUBSET T : Cardinality(s) = m /\ Iter(f, T)[s] # Iter(f, S)[s]
  OBVIOUS
<1>3. Solves(Iter(f, T), f, SUBSET T) /\ Solves(Iter(f, S), f, SUBSET S)
  BY IterExists, FS_Subset
<1>4. s # {}
  <2>1. s \in SUBSET S  OBVIOUS
  <2> HIDE DEF Bad
  <2>2. s = {} => Iter(f, T)[s] = 0  BY <1>3, Recursion
  <2>3. s = {} => Iter(f, S)[s] = 0  BY <1>3, <2>1, Recursion
  <2> QED BY <1>2, <2>2, <2>3
<1> DEFINE x == Pick(s)
<1>5. x \in s  BY <1>4, PickIn
<1>6. /\ Iter(f, T)[s] = f[x] + Iter(f, T)[s \ {x}]
      /\ Iter(f, S)[s] = f[x] + Iter(f, S)[s \ {x}]
  <2>1. s \in SUBSET S  OBVIOUS
  <2> HIDE DEF Bad
  <2> QED BY <1>3, <1>4, <2>1, Recursion
<1>7. Cardinality(s \ {x}) = m - 1  BY <1>0, <1>2, <1>5, FS_RemoveElement
<1>8. s \ {x} \in SUBSET T /\ Cardinality(s \ {x}) \in Nat  BY <1>0
<1>9. Iter(f, T)[s \ {x}] = Iter(f, S)[s \ {x}]
  <2> SUFFICES ASSUME Iter(f, T)[s \ {x}] # Iter(f, S)[s \ {x}] PROVE FALSE  OBVIOUS
  <2>1. m - 1 \in Bad  BY <1>7, <1>8
  <2> QED BY <1>1, <2>1
<1> QED BY <1>2, <1>6, <1>9

-----------------------------------------------------------------------------
(* Sums. *)

LEMMA SumEmpty == ASSUME NEW f PROVE SumOver(f, {}) = 0
<1>1. Solves(Iter(f, {}), f, SUBSET {})  BY IterExists, FS_EmptySet
<1>2. {} \in SUBSET {}  OBVIOUS
<1>3. Iter(f, {})[{}] = 0  BY <1>1, <1>2, Recursion
<1> QED BY <1>3, SumUnfolds

\* A non-empty set gives up the element it picks.
LEMMA SumFirst ==
  ASSUME NEW f, NEW S, IsFiniteSet(S), S # {}
  PROVE  SumOver(f, S) = f[Pick(S)] + SumOver(f, S \ {Pick(S)})
<1> DEFINE x == Pick(S)
<1>1. x \in S  BY PickIn
<1>2. Iter(f, S)[S] = f[x] + Iter(f, S)[S \ {x}]
  BY IterAt
<1>3. SumOver(f, S \ {x}) = Iter(f, S)[S \ {x}]
  BY SumUnfolds, IterOfSubset
<1>4. SumOver(f, S) = Iter(f, S)[S]  BY SumUnfolds
<1> QED BY <1>2, <1>3, <1>4

LEMMA SumChoose ==
  ASSUME NEW f, NEW S, IsFiniteSet(S), S # {}
  PROVE  \E x \in S : SumOver(f, S) = f[x] + SumOver(f, S \ {x})
BY SumFirst, PickIn

\* Induction over the subsets of a finite set, from smaller ones to larger.
LEMMA FiniteInduct ==
  ASSUME NEW S, IsFiniteSet(S), NEW P,
         \A T \in SUBSET S : (\A x \in T : T \ {x} \in P) => T \in P
  PROVE  S \in P
<1> DEFINE Bad == {n \in Nat : \E T \in SUBSET S : Cardinality(T) = n /\ T \notin P}
<1>0. \A T \in SUBSET S : IsFiniteSet(T) /\ Cardinality(T) \in Nat
  BY FS_Subset, FS_CardinalityType
<1> SUFFICES ASSUME Bad # {} PROVE FALSE  BY <1>0
<1>1. PICK m \in Bad : \A n \in Bad : m <= n
  <2>1. Bad \in SUBSET Nat  OBVIOUS
  <2> HIDE DEF Bad
  <2> QED BY <2>1, LeastNat
<1>2. PICK T \in SUBSET S : Cardinality(T) = m /\ T \notin P  OBVIOUS
<1>3. PICK x \in T : T \ {x} \notin P  BY <1>2
<1>4. Cardinality(T \ {x}) = m - 1  BY <1>0, <1>2, <1>3, FS_RemoveElement
<1>5. m - 1 \in Bad  BY <1>0, <1>3, <1>4
<1> QED BY <1>1, <1>5

LEMMA SumType ==
  ASSUME NEW S, IsFiniteSet(S), NEW f, \A x \in S : f[x] \in Int
  PROVE  SumOver(f, S) \in Int
<1> DEFINE P == {T \in SUBSET S : SumOver(f, T) \in Int}
<1>1. ASSUME NEW T \in SUBSET S, \A x \in T : T \ {x} \in P
      PROVE  T \in P
  <2>1. CASE T = {}  BY <2>1, SumEmpty
  <2>2. CASE T # {}
    <3>1. PICK x \in T : SumOver(f, T) = f[x] + SumOver(f, T \ {x})
      BY <2>2, SumChoose, FS_Subset
    <3> QED BY <1>1, <3>1
  <2> QED BY <2>1, <2>2
<1> HIDE DEF P
<1>2. S \in P  BY <1>1, FiniteInduct
<1> QED BY <1>2 DEF P

\* Any element can be taken out first.
LEMMA SumRemove ==
  ASSUME NEW S, IsFiniteSet(S), NEW f, \A x \in S : f[x] \in Int, NEW e \in S
  PROVE  SumOver(f, S) = f[e] + SumOver(f, S \ {e})
<1> DEFINE P == {T \in SUBSET S : \A y \in T :
                   SumOver(f, T) = f[y] + SumOver(f, T \ {y})}
<1>1. ASSUME NEW T \in SUBSET S, \A x \in T : T \ {x} \in P
      PROVE  T \in P
  <2> SUFFICES ASSUME NEW y \in T
               PROVE  SumOver(f, T) = f[y] + SumOver(f, T \ {y})
    OBVIOUS
  <2>1. PICK x \in T : SumOver(f, T) = f[x] + SumOver(f, T \ {x})
    BY SumChoose, FS_Subset
  <2>2. CASE x = y  BY <2>1, <2>2
  <2>3. CASE x # y
    <3>1. SumOver(f, T \ {x}) = f[y] + SumOver(f, (T \ {x}) \ {y})
      BY <1>1, <2>3
    <3>2. SumOver(f, T \ {y}) = f[x] + SumOver(f, (T \ {y}) \ {x})
      BY <1>1, <2>3
    <3>3. (T \ {x}) \ {y} = (T \ {y}) \ {x}  OBVIOUS
    <3>4. SumOver(f, (T \ {x}) \ {y}) \in Int
      BY SumType, FS_Subset
    <3>5. f[x] \in Int /\ f[y] \in Int  OBVIOUS
    <3>6. PICK rest \in Int : rest = SumOver(f, (T \ {x}) \ {y})  BY <3>4
    <3>7. SumOver(f, T \ {y}) = f[x] + rest  BY <3>2, <3>3, <3>6
    <3>8. SumOver(f, T) = f[x] + (f[y] + rest)  BY <2>1, <3>1, <3>6
    <3> QED BY <3>5, <3>7, <3>8
  <2> QED BY <2>2, <2>3
<1> HIDE DEF P
<1>2. S \in P  BY <1>1, FiniteInduct
<1> QED BY <1>2 DEF P

\* One more element.
LEMMA SumAdd ==
  ASSUME NEW S, IsFiniteSet(S), NEW e, e \notin S, NEW f,
         \A x \in S \cup {e} : f[x] \in Int
  PROVE  SumOver(f, S \cup {e}) = SumOver(f, S) + f[e]
<1>1. IsFiniteSet(S \cup {e})  BY FS_AddElement
<1>2. (S \cup {e}) \ {e} = S  OBVIOUS
<1>3. SumOver(f, S \cup {e}) = f[e] + SumOver(f, S)  BY <1>1, <1>2, SumRemove
<1>4. f[e] \in Int /\ SumOver(f, S) \in Int  BY SumType
<1> QED BY <1>3, <1>4

\* Functions that agree on a set have one sum over it.
LEMMA SumCong ==
  ASSUME NEW S, IsFiniteSet(S), NEW f, NEW g, \A x \in S : f[x] = g[x]
  PROVE  SumOver(f, S) = SumOver(g, S)
<1> DEFINE P == {T \in SUBSET S : SumOver(f, T) = SumOver(g, T)}
<1>1. ASSUME NEW T \in SUBSET S, \A x \in T : T \ {x} \in P
      PROVE  T \in P
  <2>1. CASE T = {}  BY <2>1, SumEmpty
  <2>2. CASE T # {}
    <3> DEFINE x == Pick(T)
    <3>1. x \in T  BY <2>2, PickIn
    <3>2. /\ SumOver(f, T) = f[x] + SumOver(f, T \ {x})
          /\ SumOver(g, T) = g[x] + SumOver(g, T \ {x})
      BY <2>2, FS_Subset, SumFirst
    <3> HIDE DEF x
    <3> QED BY <1>1, <3>1, <3>2
  <2> QED BY <2>1, <2>2
<1> HIDE DEF P
<1>2. S \in P  BY <1>1, FiniteInduct
<1> QED BY <1>2 DEF P

\* The sum over two sets that share no element.
LEMMA SumUnion ==
  ASSUME NEW S, IsFiniteSet(S), NEW T, IsFiniteSet(T), S \cap T = {},
         NEW f, \A x \in S \cup T : f[x] \in Int
  PROVE  SumOver(f, S \cup T) = SumOver(f, S) + SumOver(f, T)
<1> DEFINE P == {U \in SUBSET T : SumOver(f, S \cup U) = SumOver(f, S) + SumOver(f, U)}
<1>0. SumOver(f, S) \in Int  BY SumType
<1>1. ASSUME NEW U \in SUBSET T, \A x \in U : U \ {x} \in P
      PROVE  U \in P
  <2>1. CASE U = {}
    <3>1. SumOver(f, U) = 0  BY <2>1, SumEmpty
    <3>2. SumOver(f, S \cup U) = SumOver(f, S)
      <4>1. S \cup U = S  BY <2>1
      <4> QED BY <4>1, Zenon
    <3>3. SumOver(f, S \cup U) = SumOver(f, S) + SumOver(f, U)  BY <1>0, <3>1, <3>2
    <3> QED BY <3>3
  <2>2. CASE U # {}
    <3>1. PICK x \in U : TRUE  BY <2>2
    <3>2. SumOver(f, S \cup (U \ {x})) = SumOver(f, S) + SumOver(f, U \ {x})
      BY <1>1
    <3>3. IsFiniteSet(U) /\ IsFiniteSet(S \cup U) /\ IsFiniteSet(U \ {x})
      BY FS_Subset, FS_Union
    <3>4. (S \cup U) \ {x} = S \cup (U \ {x})  OBVIOUS
    <3>5. SumOver(f, S \cup U) = f[x] + SumOver(f, S \cup (U \ {x}))
      BY <3>3, <3>4, SumRemove
    <3>6. SumOver(f, U) = f[x] + SumOver(f, U \ {x})  BY <3>3, SumRemove
    <3>7. f[x] \in Int /\ SumOver(f, U \ {x}) \in Int  BY <3>3, SumType
    <3>8. SumOver(f, S \cup U) = SumOver(f, S) + SumOver(f, U)
      BY <1>0, <3>2, <3>5, <3>6, <3>7
    <3> QED BY <3>8
  <2> QED BY <2>1, <2>2
<1> HIDE DEF P
<1>2. T \in P  BY <1>1, FiniteInduct
<1> QED BY <1>2 DEF P

\* g is f but for its value at e.
Changes(f, g, S, e) ==
  /\ \A x \in S : f[x] \in Int /\ g[x] \in Int
  /\ \A x \in S : x # e => g[x] = f[x]

\* Another value at one element.
LEMMA SumExcept ==
  ASSUME NEW S, IsFiniteSet(S), NEW e \in S, NEW f, NEW g,
         Changes(f, g, S, e)
  PROVE  SumOver(g, S) = SumOver(f, S) + g[e] - f[e]
<1>. USE DEF Changes
<1>1. IsFiniteSet(S \ {e})  BY FS_Subset
<1>2. SumOver(g, S \ {e}) = SumOver(f, S \ {e})  BY <1>1, SumCong
<1>3. SumOver(f, S) = f[e] + SumOver(f, S \ {e})  BY SumRemove
<1>4. SumOver(g, S) = g[e] + SumOver(g, S \ {e})  BY SumRemove
<1>5. SumOver(f, S \ {e}) \in Int  BY <1>1, SumType
<1> QED BY <1>2, <1>3, <1>4, <1>5

\* A sum of values that are not negative is not negative.
LEMMA SumNat ==
  ASSUME NEW S, IsFiniteSet(S), NEW f, \A x \in S : f[x] \in Nat
  PROVE  SumOver(f, S) \in Nat
<1> DEFINE P == {T \in SUBSET S : SumOver(f, T) \in Nat}
<1>1. ASSUME NEW T \in SUBSET S, \A x \in T : T \ {x} \in P
      PROVE  T \in P
  <2>1. CASE T = {}  BY <2>1, SumEmpty
  <2>2. CASE T # {}
    <3>1. PICK x \in T : SumOver(f, T) = f[x] + SumOver(f, T \ {x})
      BY <2>2, SumChoose, FS_Subset
    <3> QED BY <1>1, <3>1
  <2> QED BY <2>1, <2>2
<1> HIDE DEF P
<1>2. S \in P  BY <1>1, FiniteInduct
<1> QED BY <1>2 DEF P

\* A sum of zeros.
LEMMA SumZero ==
  ASSUME NEW S, IsFiniteSet(S), NEW f, \A x \in S : f[x] = 0
  PROVE  SumOver(f, S) = 0
<1> DEFINE P == {T \in SUBSET S : SumOver(f, T) = 0}
<1>1. ASSUME NEW T \in SUBSET S, \A x \in T : T \ {x} \in P
      PROVE  T \in P
  <2>1. CASE T = {}  BY <2>1, SumEmpty
  <2>2. CASE T # {}
    <3>1. PICK x \in T : SumOver(f, T) = f[x] + SumOver(f, T \ {x})
      BY <2>2, SumChoose, FS_Subset
    <3> QED BY <1>1, <3>1
  <2> QED BY <2>1, <2>2
<1> HIDE DEF P
<1>2. S \in P  BY <1>1, FiniteInduct
<1> QED BY <1>2 DEF P

\* A sum of one value, which the elements outside T lack.
LEMMA SumConst ==
  ASSUME NEW S, IsFiniteSet(S), NEW T \in SUBSET S, NEW f, NEW c \in Int,
         \A x \in T : f[x] = c, \A x \in S \ T : f[x] = 0
  PROVE  SumOver(f, S) = Cardinality(T) * c
<1> DEFINE P == {U \in SUBSET T : SumOver(f, U) = Cardinality(U) * c}
<1>0. /\ IsFiniteSet(T) /\ IsFiniteSet(S \ T)
      /\ \A U \in SUBSET T : IsFiniteSet(U) /\ Cardinality(U) \in Nat
  BY FS_Subset, FS_CardinalityType
<1>1. ASSUME NEW U \in SUBSET T, \A x \in U : U \ {x} \in P
      PROVE  U \in P
  <2>1. CASE U = {}
    <3>1. SumOver(f, U) = 0 /\ Cardinality(U) = 0  BY <2>1, SumEmpty, FS_EmptySet
    <3>2. 0 * c = 0  OBVIOUS
    <3> QED BY <3>1, <3>2
  <2>2. CASE U # {}
    <3>1. PICK x \in U : SumOver(f, U) = f[x] + SumOver(f, U \ {x})
      BY <1>0, <2>2, SumChoose
    <3>2. SumOver(f, U \ {x}) = Cardinality(U \ {x}) * c  BY <1>1
    <3>3. Cardinality(U \ {x}) = Cardinality(U) - 1  BY <1>0, FS_RemoveElement
    <3>4. f[x] = c  OBVIOUS
    <3>5. \A n \in Nat : c + (n - 1) * c = n * c  OBVIOUS
    <3>6. SumOver(f, U) = Cardinality(U) * c
      BY <1>0, <3>1, <3>2, <3>3, <3>4, <3>5
    <3> QED BY <3>6
  <2> QED BY <2>1, <2>2
<1> HIDE DEF P
<1>2. T \in P  BY <1>0, <1>1, FiniteInduct
<1>3. SumOver(f, T) = Cardinality(T) * c  BY <1>2 DEF P
<1>4. SumOver(f, S \ T) = 0  BY <1>0, SumZero
<1>5. T \cap (S \ T) = {}  OBVIOUS
<1>6. \A x \in T \cup (S \ T) : f[x] \in Int  OBVIOUS
<1>7. SumOver(f, T \cup (S \ T)) = SumOver(f, T) + SumOver(f, S \ T)
  BY <1>0, <1>5, <1>6, SumUnion
<1>8. SumOver(f, T) \in Int  BY <1>0, SumType
<1>9. T \cup (S \ T) = S  OBVIOUS
<1>10. SumOver(f, S) = SumOver(f, T) + SumOver(f, S \ T)  BY <1>7, <1>9, Zenon
<1> QED BY <1>3, <1>4, <1>8, <1>10
=============================================================================
