--------------------------------- MODULE Extrema ---------------------------------
(***************************************************************************)
(* Order in finite sets of integers: what Min and Max choose, and the      *)
(* places that counting gives the elements, for the proofs about the       *)
(* modules that anchor a row on the latest reading, pick the first         *)
(* location of a list or list readings by their times.                     *)
(***************************************************************************)
EXTENDS Integers, FiniteSetsExt, FiniteSetTheorems, WellFoundedInduction, TLAPS

\* Every set of natural numbers has a least element.
LEMMA LeastNatural ==
  ASSUME NEW S, S \subseteq Nat, S # {}
  PROVE  \E x \in S : \A y \in S : x <= y
  <1> DEFINE Less == {p \in Nat \X Nat : p[1] < p[2]}
  <1>0. IsWellFoundedOn(Less, Nat)
    BY NatLessThanWellFounded DEF OpToRel
  <1>1. PICK x \in S : \A y \in S : ~ (<<y, x>> \in Less)
    <2>. HIDE DEF Less
    <2>. QED
      BY <1>0, WFMin
  <1>2. ASSUME NEW y \in S
        PROVE  x <= y
    <2>1. x \in Nat /\ y \in Nat
      OBVIOUS
    <2>2. y < x => <<y, x>> \in Less
      BY <2>1
    <2>. QED
      BY <1>1, <2>1, <2>2
  <1>. QED
    BY <1>2

\* Induction on the subsets of a finite set: of those that are bad, one is good again
\* without any of its elements.
LEMMA SmallestSubset ==
  ASSUME NEW D, IsFiniteSet(D), NEW Bad, Bad \subseteq SUBSET D, Bad # {}
  PROVE  \E S \in Bad : \A x \in S : S \ {x} \notin Bad
  <1> DEFINE Sizes == {Cardinality(S) : S \in Bad}
  <1>1. \A S \in Bad : IsFiniteSet(S) /\ Cardinality(S) \in Nat
    BY FS_Subset, FS_CardinalityType
  <1>2. Sizes \subseteq Nat /\ Sizes # {}
    BY <1>1
  <1>3. PICK n \in Sizes : \A k \in Sizes : n <= k
    <2>. HIDE DEF Sizes
    <2>. QED
      BY <1>2, LeastNatural
  <1>4. PICK S \in Bad : Cardinality(S) = n
    OBVIOUS
  <1>5. ASSUME NEW x \in S, S \ {x} \in Bad
        PROVE  FALSE
    <2>1. Cardinality(S \ {x}) = Cardinality(S) - 1
      BY <1>1, FS_RemoveElement
    <2>2. Cardinality(S \ {x}) \in Sizes /\ n \in Nat
      BY <1>2, <1>5
    <2>. HIDE DEF Sizes
    <2>. QED
      BY <1>3, <1>4, <2>1, <2>2
  <1>. QED
    BY <1>5

\* A finite set of integers has a greatest element: a smallest subset without one
\* would have one as soon as an element is put back.
LEMMA GreatestExists ==
  ASSUME NEW S, IsFiniteSet(S), S \subseteq Int, S # {}
  PROVE  \E x \in S : \A y \in S : x >= y
  <1> DEFINE Topless(T) == T # {} /\ \A x \in T : \E y \in T : ~ (x >= y)
             Bad == {T \in SUBSET S : Topless(T)}
  <1>1. SUFFICES ASSUME Topless(S)
                 PROVE  FALSE
    OBVIOUS
  <1>2. PICK T \in Bad : \A x \in T : T \ {x} \notin Bad
    <2>1. Bad \subseteq SUBSET S /\ Bad # {}
      BY <1>1
    <2>. HIDE DEF Bad
    <2>. QED
      BY <2>1, SmallestSubset
  <1>3. T \in SUBSET S /\ Topless(T)
    OBVIOUS
  <1>4. PICK x \in T : TRUE
    BY <1>3
  <1> DEFINE U == T \ {x}
  <1>5. U \in SUBSET S /\ ~ Topless(U)
    <2>1. U \notin Bad /\ U \in SUBSET S
      BY <1>2, <1>3
    <2>. HIDE DEF U, Topless
    <2>. QED
      BY <2>1
  <1>6. CASE U = {}
    <2>1. T = {x}
      BY <1>6
    <2>. QED
      BY <1>3, <2>1
  <1>7. CASE U # {}
    <2>1. PICK m \in U : \A y \in U : m >= y
      BY <1>5, <1>7
    <2>2. CASE m >= x
      BY <1>3, <2>1, <2>2
    <2>3. CASE ~ (m >= x)
      BY <1>3, <2>1, <2>3
    <2>. QED
      BY <2>2, <2>3
  <1>. QED
    BY <1>6, <1>7

\* Max(S) is in S, and nothing in S is greater.
LEMMA MaxIsGreatest ==
  ASSUME NEW S, IsFiniteSet(S), S \subseteq Int, S # {}
  PROVE  Max(S) \in S /\ \A y \in S : y <= Max(S)
  <1>1. \E x \in S : \A y \in S : x >= y
    BY GreatestExists
  <1>2. Max(S) \in S /\ \A y \in S : Max(S) >= y
    BY <1>1 DEF Max
  <1>. QED
    BY <1>2

\* Min(S) is in S, and nothing in S is smaller.
LEMMA MinIsLeast ==
  ASSUME NEW S, S \subseteq Nat, S # {}
  PROVE  Min(S) \in S /\ \A y \in S : Min(S) <= y
  BY LeastNatural DEF Min

--------------------------------------------------------------------------------
(* Places in the order.                                                    *)

\* The greater of two elements has more elements up to it.
LEMMA FurtherUp ==
  ASSUME NEW S, IsFiniteSet(S), S \subseteq Int, NEW u \in S, NEW v \in S, u < v
  PROVE  Cardinality({x \in S : x <= u}) < Cardinality({x \in S : x <= v})
  <1> DEFINE A == {x \in S : x <= u}
             B == {x \in S : x <= v}
  <1>1. A \in SUBSET B /\ v \in B /\ v \notin A
    <2>1. u \in Int /\ v \in Int
      OBVIOUS
    <2>2. \A x \in S : x \in Int /\ (x <= u => x <= v)
      BY <2>1
    <2>3. A \subseteq B
      BY <2>2
    <2>4. v <= v /\ ~ (v <= u)
      BY <2>1
    <2>. QED
      BY <2>3, <2>4
  <1>2. IsFiniteSet(B) /\ IsFiniteSet(A)
    <2>1. A \in SUBSET S /\ B \in SUBSET S
      OBVIOUS
    <2>. HIDE DEF A, B
    <2>. QED
      BY <2>1, FS_Subset
  <1>. HIDE DEF A, B
  <1>3. Cardinality(A) <= Cardinality(B) /\ Cardinality(A) # Cardinality(B)
    BY <1>1, <1>2, FS_Subset
  <1>4. Cardinality(A) \in Nat /\ Cardinality(B) \in Nat
    BY <1>2, FS_CardinalityType
  <1>. QED
    BY <1>3, <1>4 DEF A, B

\* Every element has a place, and every place its element.
LEMMA Places ==
  ASSUME NEW S, IsFiniteSet(S), S \subseteq Int
  PROVE  /\ \A u \in S : Cardinality({x \in S : x <= u}) \in 1 .. Cardinality(S)
         /\ \A n \in 1 .. Cardinality(S) :
              \E u \in S : Cardinality({x \in S : x <= u}) = n
  <1> DEFINE n == Cardinality(S)
             place == [u \in S |-> Cardinality({x \in S : x <= u})]
  <1>1. ASSUME NEW u \in S
        PROVE  place[u] \in 1 .. n
    <2> DEFINE A == {x \in S : x <= u}
    <2>1. A \in SUBSET S /\ A # {}
      OBVIOUS
    <2>2. IsFiniteSet(A) /\ Cardinality(A) <= n
      BY <2>1, FS_Subset
    <2>3. Cardinality(A) \in Nat /\ n \in Nat /\ Cardinality(A) # 0
      BY <2>1, <2>2, FS_CardinalityType, FS_EmptySet
    <2>4. place[u] = Cardinality(A)
      OBVIOUS
    <2>. QED
      BY <2>2, <2>3, <2>4
  <1>2. n \in Nat /\ IsFiniteSet(1 .. n) /\ Cardinality(1 .. n) = n
    <2>1. n \in Nat
      BY FS_CardinalityType
    <2>. QED
      BY <2>1, FS_Interval
  <1>3. ASSUME NEW u \in S, NEW v \in S, place[u] = place[v]
        PROVE  u = v
    <2>1. \A a, b \in S : a < b => place[a] < place[b]
      BY FurtherUp
    <2>2. place[u] \in Int /\ place[v] \in Int
      BY <1>1, <1>2
    <2>3. ~ (u < v) /\ ~ (v < u)
      <3>. HIDE DEF place
      <3>. QED
        BY <1>3, <2>1, <2>2
    <2>. QED
      BY <2>3
  <1>4. place \in Injection(S, 1 .. n)
    BY <1>1, <1>3 DEF Injection, IsInjective
  <1>5. place \in Surjection(S, 1 .. n)
    <2>. HIDE DEF place
    <2>. QED
      BY <1>2, <1>4, FS_Injection
  <1>6. \A k \in 1 .. n : \E u \in S : place[u] = k
    <2>. HIDE DEF place
    <2>. QED
      BY <1>5 DEF Surjection
  <1>. QED
    BY <1>1, <1>6
==================================================================================
