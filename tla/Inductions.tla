------------------------------ MODULE Inductions -------------------------------
(***************************************************************************)
(* Induction as a fact about sets of natural numbers, from the library's   *)
(* theorem that < is well founded, and what it shows of sums: that what    *)
(* Functions calls SumFunctionOnSet is defined on every finite set, and    *)
(* that its elements can be taken in any order.                            *)
(***************************************************************************)
EXTENDS Integers, Functions, FiniteSetTheorems, WellFoundedInduction, TLAPS

\* A set of natural numbers has a least one, if it has any.
LEMMA LeastNatural ==
    ASSUME NEW T, T \subseteq Nat, T # {}
    PROVE  \E n \in T : \A m \in T : n =< m
<1> DEFINE R == OpToRel(<, Nat)
<1>1. IsWellFoundedOn(R, Nat)
  BY NatLessThanWellFounded
<1>2. \A m, n \in Nat : m < n => <<m, n>> \in R
  BY DEF OpToRel
<1> HIDE DEF R
<1>3. PICK n \in T : \A m \in T : <<m, n>> \notin R
  BY <1>1, WFMin
<1>4. ASSUME NEW m \in T
      PROVE  n =< m
  <2>1. m \in Nat /\ n \in Nat /\ ~(m < n)
    BY <1>2, <1>3
  <2> QED
    BY <2>1, SMT
<1> QED
  BY <1>4

\* A set of natural numbers has a greatest one, if it has any and a bound.
LEMMA GreatestNatural ==
    ASSUME NEW T, T \subseteq Nat, T # {}, NEW b \in Nat, \A n \in T : n =< b
    PROVE  \E n \in T : \A m \in T : m =< n
<1> DEFINE U == {k \in Nat : \A m \in T : m =< k}
<1>1. U \subseteq Nat /\ b \in U
  OBVIOUS
<1>2. PICK n \in U : \A k \in U : n =< k
  BY <1>1, LeastNatural
<1>3. n \in Nat /\ \A m \in T : m =< n
  BY <1>2
<1>4. ASSUME n \notin T
      PROVE  FALSE
  <2>1. PICK m \in T : m \in Nat
    OBVIOUS
  <2>2. n # 0
    BY <1>3, <1>4, <2>1, SMT
  <2>3. n - 1 \in Nat /\ \A k \in T : k =< n - 1
    BY <1>3, <1>4, <2>2, SMT
  <2>4. n - 1 \in U
    BY <2>3
  <2> QED
    BY <1>2, <1>3, <2>4, SMT
<1> QED
  BY <1>3, <1>4

\* Induction: a set of natural numbers with 0 and with the successor of each is all of them.
LEMMA AllNaturals ==
    ASSUME NEW T, 0 \in T, \A n \in Nat : n \in T => n + 1 \in T
    PROVE  \A n \in Nat : n \in T
<1> DEFINE U == Nat \ T
<1>1. SUFFICES ASSUME U # {}
               PROVE  FALSE
  OBVIOUS
<1>2. PICK n \in U : \A k \in U : n =< k
  <2>1. U \subseteq Nat
    OBVIOUS
  <2> HIDE DEF U
  <2> QED
    BY <1>1, <2>1, LeastNatural
<1>3. n # 0 /\ n \in Nat
  OBVIOUS
<1>4. n - 1 \in Nat /\ ~(n =< n - 1) /\ (n - 1) + 1 = n
  BY <1>3, SMT
<1>5. n - 1 \in T
  BY <1>2, <1>4
<1> QED
  BY <1>4, <1>5

-------------------------------------------------------------------------------
(* Sums                                                                    *)

\* The element that a fold takes first, and what it does with it.
FirstOf(s) == CHOOSE x \in s : TRUE
SumUp(f, g, s) == IF s = {} THEN 0 ELSE f[FirstOf(s)] + g[s \ {FirstOf(s)}]

\* The sums over the sets in U, as the recursion has them.
SumsOn(g, f, U) == g = [s \in U |-> SumUp(f, g, s)]

\* SumFunctionOnSet without the operators that it is made of.
LEMMA SumIsRecursive ==
    ASSUME NEW f, NEW S
    PROVE  SumFunctionOnSet(f, S) = (CHOOSE g : SumsOn(g, f, SUBSET S))[S]
BY DEF SumFunctionOnSet, FoldFunctionOnSet, MapThenFoldSet, SumsOn, SumUp, FirstOf

\* What is left of a finite set without its first element.
LEMMA RestIsSmaller ==
    ASSUME NEW S, IsFiniteSet(S), NEW s \in SUBSET S, s # {}
    PROVE  /\ FirstOf(s) \in s /\ s \ {FirstOf(s)} \in SUBSET S
           /\ Cardinality(s) \in Nat \ {0} /\ Cardinality(s \ {FirstOf(s)}) = Cardinality(s) - 1
<1>1. FirstOf(s) \in s
  BY DEF FirstOf
<1>2. IsFiniteSet(s)
  BY FS_Subset
<1>3. Cardinality(s) \in Nat /\ Cardinality(s) # 0
  BY <1>2, FS_CardinalityType, FS_EmptySet
<1>4. Cardinality(s \ {FirstOf(s)}) = Cardinality(s) - 1
  BY <1>1, <1>2, FS_RemoveElement
<1> QED
  BY <1>1, <1>3, <1>4

\* The recursion defines the sums over all subsets of a finite set: those of n + 1 elements
\* from those of n.
LEMMA SumsExist ==
    ASSUME NEW f, NEW S, IsFiniteSet(S)
    PROVE  \E g : SumsOn(g, f, SUBSET S)
<1> DEFINE Level(n) == {s \in SUBSET S : Cardinality(s) =< n}
           T == {n \in Nat : \E g : SumsOn(g, f, Level(n))}
<1>1. 0 \in T
  <2> DEFINE g == [s \in Level(0) |-> 0]
  <2>1. ASSUME NEW s \in Level(0)
        PROVE  s = {}
    <3>1. SUFFICES ASSUME s # {}
                   PROVE  FALSE
      OBVIOUS
    <3>2. Cardinality(s) \in Nat \ {0} /\ Cardinality(s) =< 0
      BY <3>1, RestIsSmaller
    <3> QED
      BY <3>2, SMT
  <2>2. g = [s \in Level(0) |-> SumUp(f, g, s)]
    BY <2>1 DEF SumUp
  <2> QED
    BY <2>2 DEF SumsOn
<1>2. ASSUME NEW n \in Nat, n \in T
      PROVE  n + 1 \in T
  <2>1. PICK g : SumsOn(g, f, Level(n))
    BY <1>2
  <2> DEFINE h == [s \in Level(n + 1) |-> SumUp(f, g, s)]
  <2>2. ASSUME NEW s \in Level(n + 1)
        PROVE  h[s] = SumUp(f, h, s)
    <3>1. CASE s = {}
      BY <3>1 DEF SumUp
    <3>2. CASE s # {}
      <4> DEFINE r == s \ {FirstOf(s)}
      <4>1. /\ r \in SUBSET S /\ Cardinality(s) \in Nat /\ Cardinality(s) =< n + 1
            /\ Cardinality(r) = Cardinality(s) - 1
        BY <3>2, RestIsSmaller
      <4>2. r \in Level(n) /\ r \in Level(n + 1)
        <5> HIDE DEF r
        <5>1. Cardinality(r) =< n /\ Cardinality(r) =< n + 1
          BY <4>1, SMT
        <5> QED
          BY <4>1, <5>1
      <4>3. g[r] = SumUp(f, g, r)
        <5> HIDE DEF Level, r
        <5> QED
          BY <2>1, <4>2 DEF SumsOn
      <4>4. h[r] = SumUp(f, g, r)
        <5> HIDE DEF Level, r
        <5> QED
          BY <4>2
      <4> QED
        BY <3>2, <4>3, <4>4 DEF SumUp
    <3> QED
      BY <3>1, <3>2
  <2>3. h = [s \in Level(n + 1) |-> SumUp(f, h, s)]
    <3> HIDE DEF Level
    <3> QED
      BY <2>2
  <2>4. n + 1 \in Nat /\ SumsOn(h, f, Level(n + 1))
    BY <2>3 DEF SumsOn
  <2> HIDE DEF h, Level
  <2> QED
    BY <2>4
<1>3. Cardinality(S) \in T
  <2>1. \A n \in Nat : n \in T
    <3> HIDE DEF T
    <3> QED
      BY <1>1, <1>2, AllNaturals
  <2> QED
    BY <2>1, FS_CardinalityType
<1>4. Level(Cardinality(S)) = SUBSET S
  BY FS_Subset
<1> QED
  BY <1>3, <1>4

\* Two such recursions agree on the sets that both of them have.
LEMMA SumsAgree ==
    ASSUME NEW f, NEW S, IsFiniteSet(S), NEW R \in SUBSET S, NEW g, NEW h,
           SumsOn(g, f, SUBSET S), SumsOn(h, f, SUBSET R)
    PROVE  \A s \in SUBSET R : g[s] = h[s]
<1> DEFINE T == {n \in Nat : \A s \in SUBSET R : Cardinality(s) = n => g[s] = h[s]}
<1>1. IsFiniteSet(R)
  BY FS_Subset
<1>2. \A s \in SUBSET R : g[s] = SumUp(f, g, s) /\ h[s] = SumUp(f, h, s)
  BY DEF SumsOn
<1>3. 0 \in T
  <2>1. ASSUME NEW s \in SUBSET R, Cardinality(s) = 0
        PROVE  g[s] = h[s]
    <3>1. s = {}
      BY <1>1, <2>1, RestIsSmaller
    <3> QED
      BY <1>2, <3>1 DEF SumUp
  <2> QED
    BY <2>1
<1>4. ASSUME NEW n \in Nat, n \in T
      PROVE  n + 1 \in T
  <2>1. ASSUME NEW s \in SUBSET R, Cardinality(s) = n + 1
        PROVE  g[s] = h[s]
    <3>1. s # {}
      <4>1. n + 1 # 0
        BY SMT
      <4> QED
        BY <2>1, <4>1, FS_EmptySet
    <3>2. /\ s \ {FirstOf(s)} \in SUBSET R
          /\ Cardinality(s \ {FirstOf(s)}) = Cardinality(s) - 1
      BY <1>1, <3>1, RestIsSmaller
    <3>3. Cardinality(s \ {FirstOf(s)}) = n
      BY <2>1, <3>2, SMT
    <3>4. g[s \ {FirstOf(s)}] = h[s \ {FirstOf(s)}]
      BY <1>4, <3>2, <3>3
    <3> QED
      BY <1>2, <3>1, <3>4 DEF SumUp
  <2> QED
    BY <2>1
<1>5. \A n \in Nat : n \in T
  <2> HIDE DEF T
  <2> QED
    BY <1>3, <1>4, AllNaturals
<1>6. ASSUME NEW s \in SUBSET R
      PROVE  g[s] = h[s]
  <2>1. Cardinality(s) \in Nat
    BY <1>1, FS_Subset, FS_CardinalityType
  <2> QED
    BY <1>5, <2>1
<1> QED
  BY <1>6

\* The sum over a set is its first element more than the sum over the rest.
LEMMA SumStep ==
    ASSUME NEW f, NEW S, IsFiniteSet(S)
    PROVE  SumFunctionOnSet(f, S) =
              IF S = {} THEN 0 ELSE f[FirstOf(S)] + SumFunctionOnSet(f, S \ {FirstOf(S)})
<1> DEFINE G(U) == CHOOSE g : SumsOn(g, f, SUBSET U)
           R == S \ {FirstOf(S)}
<1>1. ASSUME NEW U, IsFiniteSet(U)
      PROVE  SumsOn(G(U), f, SUBSET U)
  BY <1>1, SumsExist
<1>2. IsFiniteSet(R) /\ R \in SUBSET S
  BY FS_Subset
<1>3. SumsOn(G(S), f, SUBSET S) /\ SumsOn(G(R), f, SUBSET R)
  <2> HIDE DEF G, R
  <2> QED
    BY <1>1, <1>2
<1>4. SumFunctionOnSet(f, S) = G(S)[S] /\ SumFunctionOnSet(f, R) = G(R)[R]
  BY SumIsRecursive
<1> HIDE DEF G
<1>5. G(S)[S] = SumUp(f, G(S), S)
  BY <1>3 DEF SumsOn
<1>6. G(S)[R] = G(R)[R]
  <2> DEFINE g == G(S)
             h == G(R)
  <2>1. SumsOn(g, f, SUBSET S) /\ SumsOn(h, f, SUBSET R)
    BY <1>3
  <2> HIDE DEF g, h, R
  <2>2. \A s \in SUBSET R : g[s] = h[s]
    BY <1>2, <2>1, SumsAgree
  <2>3. R \in SUBSET R
    OBVIOUS
  <2>4. g[R] = h[R]
    BY <2>2, <2>3
  <2> QED
    BY <2>4 DEF g, h
<1> QED
  BY <1>4, <1>5, <1>6 DEF SumUp

\* A sum of natural numbers is one, and its elements can be taken in any order.
LEMMA SumOfNaturals ==
    ASSUME NEW S, IsFiniteSet(S), NEW f, \A x \in S : f[x] \in Nat
    PROVE  /\ SumFunctionOnSet(f, S) \in Nat
           /\ \A x \in S : SumFunctionOnSet(f, S) = f[x] + SumFunctionOnSet(f, S \ {x})
<1> DEFINE Total(s) == SumFunctionOnSet(f, s)
           Right(s) == Total(s) \in Nat /\ \A x \in s : Total(s) = f[x] + Total(s \ {x})
           T == {n \in Nat : \A s \in SUBSET S : Cardinality(s) =< n => Right(s)}
<1>1. ASSUME NEW s \in SUBSET S
      PROVE  IsFiniteSet(s) /\ Cardinality(s) \in Nat
  BY FS_Subset, FS_CardinalityType
<1>2. ASSUME NEW s \in SUBSET S
      PROVE  Total(s) = IF s = {} THEN 0 ELSE f[FirstOf(s)] + Total(s \ {FirstOf(s)})
  BY <1>1, SumStep
<1> HIDE DEF Total
<1>3. 0 \in T
  <2>1. ASSUME NEW s \in SUBSET S, Cardinality(s) =< 0
        PROVE  Right(s)
    <3>1. Cardinality(s) = 0
      BY <1>1, <2>1, SMT
    <3>2. s = {}
      BY <3>1, RestIsSmaller
    <3>3. Total(s) = 0
      BY <1>2, <3>2
    <3> QED
      BY <3>2, <3>3
  <2> HIDE DEF Right
  <2> QED
    BY <2>1
<1>4. ASSUME NEW n \in Nat, n \in T
      PROVE  n + 1 \in T
  <2>1. ASSUME NEW s \in SUBSET S, Cardinality(s) =< n + 1
        PROVE  Right(s)
    <3>1. ASSUME NEW q \in SUBSET S, NEW x \in q
          PROVE  Cardinality(q \ {x}) = Cardinality(q) - 1 /\ Cardinality(q) \in Nat \ {0}
      BY <1>1, FS_RemoveElement, RestIsSmaller
    <3>2. ASSUME NEW q \in SUBSET S, Cardinality(q) =< n
          PROVE  Right(q)
      <4> HIDE DEF Right
      <4> QED
        BY <1>4, <3>2
    <3>3. CASE s = {}
      <4>1. Total(s) = 0
        BY <1>2, <3>3
      <4> QED
        BY <3>3, <4>1
    <3>4. CASE s # {}
      <4> DEFINE a == FirstOf(s)
                 r == s \ {a}
      <4>1. a \in s /\ r \in SUBSET S
        BY <3>4, RestIsSmaller
      <4>2. Cardinality(r) =< n
        BY <2>1, <3>1, <4>1, SMT
      <4>3. Right(r)
        <5> HIDE DEF Right, r, a
        <5> QED
          BY <3>2, <4>1, <4>2
      <4>4. Total(s) = f[a] + Total(r)
        BY <1>2, <3>4
      <4>5. f[a] \in Nat /\ Total(r) \in Nat
        BY <4>1, <4>3
      <4>6. ASSUME NEW x \in s, x # a
            PROVE  Total(s) = f[x] + Total(s \ {x})
        <5> DEFINE q == s \ {x}
                   p == r \ {x}
        <5>1. x \in r /\ a \in q /\ p = q \ {a} /\ q \in SUBSET S /\ p \in SUBSET S
          BY <4>1, <4>6
        <5>2. Cardinality(q) =< n /\ Cardinality(p) =< n
          <6>1. Cardinality(q) = Cardinality(s) - 1 /\ Cardinality(s) \in Nat
            BY <3>1
          <6>2. Cardinality(p) = Cardinality(r) - 1 /\ Cardinality(r) \in Nat
            BY <3>1, <4>1, <5>1
          <6> HIDE DEF q, p, r
          <6> QED
            BY <2>1, <4>2, <6>1, <6>2, SMT
        <5>3. Right(q) /\ Right(p)
          <6> HIDE DEF Right, q, p
          <6> QED
            BY <3>2, <5>1, <5>2
        <5>4. Total(r) = f[x] + Total(p) /\ Total(q) = f[a] + Total(p)
          BY <4>3, <5>1, <5>3
        <5>5. f[x] \in Nat /\ Total(p) \in Nat
          BY <5>3
        <5>6. Total(s) = f[x] + Total(q)
          <6> HIDE DEF q, p, r, a
          <6> QED
            BY <4>4, <4>5, <5>4, <5>5, SMT
        <5> QED
          BY <5>6
      <4>7. Total(s) \in Nat
        BY <4>4, <4>5, SMT
      <4> QED
        BY <4>4, <4>6, <4>7
    <3> QED
      BY <3>3, <3>4
  <2> HIDE DEF Right
  <2> QED
    BY <2>1
<1>5. \A n \in Nat : n \in T
  <2> HIDE DEF T
  <2> QED
    BY <1>3, <1>4, AllNaturals
<1>6. Right(S)
  <2>1. S \in SUBSET S /\ Cardinality(S) \in Nat /\ Cardinality(S) =< Cardinality(S)
    BY <1>1, SMT
  <2> HIDE DEF Right
  <2> QED
    BY <1>5, <2>1
<1> QED
  BY <1>6 DEF Total

\* The sum depends on the values in the set alone.
LEMMA SumOfSame ==
    ASSUME NEW S, IsFiniteSet(S), NEW f, NEW g, \A x \in S : f[x] = g[x]
    PROVE  SumFunctionOnSet(f, S) = SumFunctionOnSet(g, S)
<1> DEFINE Same(s) == SumFunctionOnSet(f, s) = SumFunctionOnSet(g, s)
           T == {n \in Nat : \A s \in SUBSET S : Cardinality(s) = n => Same(s)}
<1>1. ASSUME NEW s \in SUBSET S
      PROVE  IsFiniteSet(s) /\ Cardinality(s) \in Nat
  BY FS_Subset, FS_CardinalityType
<1>2. 0 \in T
  <2>1. ASSUME NEW s \in SUBSET S, Cardinality(s) = 0
        PROVE  Same(s)
    <3>1. s = {}
      BY <2>1, RestIsSmaller
    <3> QED
      BY <1>1, <3>1, SumStep
  <2> HIDE DEF Same
  <2> QED
    BY <2>1
<1>3. ASSUME NEW n \in Nat, n \in T
      PROVE  n + 1 \in T
  <2>1. ASSUME NEW s \in SUBSET S, Cardinality(s) = n + 1
        PROVE  Same(s)
    <3>1. n + 1 # 0 /\ (n + 1) - 1 = n
      BY SMT
    <3>2. s # {}
      BY <2>1, <3>1, FS_EmptySet
    <3>3. FirstOf(s) \in s /\ s \ {FirstOf(s)} \in SUBSET S /\ Cardinality(s \ {FirstOf(s)}) = n
      BY <2>1, <3>1, <3>2, RestIsSmaller
    <3>4. Same(s \ {FirstOf(s)})
      <4> HIDE DEF Same
      <4> QED
        BY <1>3, <3>3
    <3>5. f[FirstOf(s)] = g[FirstOf(s)]
      BY <3>3
    <3>6. /\ SumFunctionOnSet(f, s) = f[FirstOf(s)] + SumFunctionOnSet(f, s \ {FirstOf(s)})
          /\ SumFunctionOnSet(g, s) = g[FirstOf(s)] + SumFunctionOnSet(g, s \ {FirstOf(s)})
      BY <1>1, <3>2, SumStep
    <3> QED
      BY <3>4, <3>5, <3>6
  <2> HIDE DEF Same
  <2> QED
    BY <2>1
<1>4. \A n \in Nat : n \in T
  <2> HIDE DEF T
  <2> QED
    BY <1>2, <1>3, AllNaturals
<1>5. Same(S)
  <2> HIDE DEF Same
  <2> QED
    BY <1>1, <1>4
<1> QED
  BY <1>5

===============================================================================
