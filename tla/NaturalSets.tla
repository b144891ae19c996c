----------------------------- MODULE NaturalSets ----------------------------
(***************************************************************************)
(* The least and the greatest of a set of naturals, which the walks that   *)
(* page by an id or a position are reasoned about with, and induction over *)
(* sets of naturals, which definitions by recursion are.                   *)
(***************************************************************************)
EXTENDS Integers, FiniteSets, FiniteSetTheorems, WellFoundedInduction, TLAPS

\* Naturals have a least.
LEMMA LeastOf ==
  ASSUME NEW S, S \subseteq Nat, S # {}
  PROVE  \E x \in S : \A y \in S : x <= y
<1> DEFINE R == OpToRel(<, Nat)
<1>1. IsWellFoundedOn(R, Nat)
  BY NatLessThanWellFounded
<1>2. \A x, y \in Nat : x < y => <<x, y>> \in R
  BY DEF OpToRel
<1> HIDE DEF R
<1>3. PICK x \in S : \A y \in S : ~(<<y, x>> \in R)
  BY <1>1, WFMin
<1>4. \A y \in S : ~(y < x)
  BY <1>2, <1>3
<1>5. \A y \in S : x <= y
  BY <1>4
<1> QED BY <1>5

\* Finitely many naturals have a greatest.
LEMMA GreatestOf ==
  ASSUME NEW S, S \subseteq Nat, S # {}, IsFiniteSet(S)
  PROVE  \E x \in S : \A y \in S : y <= x
<1> DEFINE above(x) == {y \in S : y > x}
           T == {above(x) : x \in S}
           R == StrictSubsetOrdering(S)
<1>1. IsWellFoundedOn(R, FiniteSubsetsOf(S))
  BY FS_StrictSubsetOrderingWellFounded
<1>2. \A U, V \in SUBSET S : U \subseteq V /\ U # V => <<U, V>> \in R
  BY DEF StrictSubsetOrdering
<1>3. T \subseteq FiniteSubsetsOf(S)
  <2>1. ASSUME NEW x \in S PROVE above(x) \in SUBSET S
    OBVIOUS
  <2>2. ASSUME NEW x \in S PROVE IsFiniteSet(above(x))
    BY <2>1, FS_Subset
  <2> QED BY <2>1, <2>2 DEF FiniteSubsetsOf
<1>4. T # {}
  OBVIOUS
<1> HIDE DEF R
<1>5. PICK U \in T : \A V \in T : ~(<<V, U>> \in R)
  <2> HIDE DEF T
  <2> QED BY <1>1, <1>3, <1>4, WFMin
<1>6. PICK x \in S : U = above(x)
  OBVIOUS
<1>7. ASSUME NEW y \in S, y > x
      PROVE  FALSE
  <2>1. above(y) \subseteq above(x) /\ y \in above(x) /\ y \notin above(y)
    <3>1. x \in Nat /\ y \in Nat /\ \A z \in S : z \in Nat
      OBVIOUS
    <3>2. y \in above(x)
      BY <1>7
    <3>3. y \notin above(y)
      BY <3>1
    <3>4. ASSUME NEW z \in above(y) PROVE z \in above(x)
      <4>1. z \in S /\ z > y /\ z \in Nat
        BY <3>1
      <4> QED BY <4>1, <1>7, <3>1
    <3> QED BY <3>2, <3>3, <3>4
  <2>2. above(y) \in T /\ above(y) \in SUBSET S /\ above(x) \in SUBSET S
    OBVIOUS
  <2> HIDE DEF above, T
  <2> QED BY <2>1, <2>2, <1>2, <1>5, <1>6
<1> QED BY <1>7

\* A set is as small as what a function maps it to without confusing two of it.
LEMMA SmallAsItsImage ==
  ASSUME NEW S, NEW T, IsFiniteSet(T), NEW f \in [S -> T],
         \A a, b \in S : f[a] = f[b] => a = b
  PROVE  IsFiniteSet(S) /\ Cardinality(S) <= Cardinality(T)
<1>1. f \in Injection(S, T)
  BY DEF Injection, IsInjective
<1> QED BY <1>1, FS_Injection

\* What a function reaches from a set is as small as the set, and as large when it confuses
\* no two.
LEMMA AsManyImages ==
  ASSUME NEW S, NEW T, IsFiniteSet(S), NEW f \in [S -> T],
         \A t \in T : \E a \in S : f[a] = t
  PROVE  /\ IsFiniteSet(T) /\ Cardinality(T) <= Cardinality(S)
         /\ (\A a, b \in S : f[a] = f[b] => a = b) => Cardinality(T) = Cardinality(S)
<1>1. f \in Surjection(S, T)
  BY DEF Surjection
<1>2. (\A a, b \in S : f[a] = f[b] => a = b) => f \in Injection(S, T)
  BY DEF Injection, IsInjective
<1> QED BY <1>1, <1>2, FS_Surjection

\* What holds at 0 and passes from each number to the next holds up to any number.
LEMMA UpTo ==
  ASSUME NEW N \in Nat, NEW S, 0 \in S, \A n \in 1..N : n - 1 \in S => n \in S
  PROVE  \A n \in 0..N : n \in S
<1> DEFINE Rest == {n \in 0..N : n \notin S}
<1> SUFFICES ASSUME Rest # {} PROVE FALSE
  OBVIOUS
<1>1. Rest \subseteq Nat
  OBVIOUS
<1> HIDE DEF Rest
<1>2. PICK m \in Rest : \A n \in Rest : m <= n
  BY <1>1, LeastOf
<1> USE DEF Rest
<1>3. m \in 1..N
  BY <1>2
<1>4. m - 1 \in 0..N /\ m - 1 \notin Rest
  BY <1>2, <1>3
<1> QED BY <1>2, <1>3, <1>4

\* f starts at a, and T carries it from each number to the next.
CarriesOn(f, a, T, N) == f[0] = a /\ \A n \in 1..N : f[n] = T[f[n - 1]]

\* A value is carried on by a function any number of times: what makes a definition by
\* recursion on a number the definition of something.
LEMMA CarriedOn ==
  ASSUME NEW X, NEW a \in X, NEW T \in [X -> X], NEW N \in Nat
  PROVE  \E f \in [0..N -> X] : CarriesOn(f, a, T, N)
<1> DEFINE S == {m \in Nat : \E f \in [0..m -> X] : CarriesOn(f, a, T, m)}
<1>1. 0 \in S
  <2> DEFINE f == [i \in 0..0 |-> a]
  <2>1. f \in [0..0 -> X] /\ CarriesOn(f, a, T, 0)
    BY DEF CarriesOn
  <2> QED BY <2>1
<1>2. ASSUME NEW m \in 1..N, m - 1 \in S PROVE m \in S
  <2>1. PICK f \in [0..(m - 1) -> X] :
          f[0] = a /\ \A n \in 1..(m - 1) : f[n] = T[f[n - 1]]
    BY <1>2 DEF CarriesOn
  <2> DEFINE g == [i \in 0..m |-> IF i = m THEN T[f[m - 1]] ELSE f[i]]
  <2>2. m \in Nat /\ m > 0
    OBVIOUS
  <2>3. \A i \in 0..m : i # m => i \in 0..(m - 1)
    BY <2>2
  <2>4. m - 1 \in 0..(m - 1)
    BY <2>2
  <2>5. g \in [0..m -> X]
    BY <2>3, <2>4
  <2>6. g[0] = a
    BY <2>1, <2>2
  <2>7. ASSUME NEW n \in 1..m PROVE g[n] = T[g[n - 1]]
    <3>1. n - 1 \in 0..m /\ n - 1 # m /\ n \in 0..m
      BY <2>2
    <3>2. g[n - 1] = f[n - 1]
      BY <3>1
    <3>3. CASE n = m
      BY <3>1, <3>2, <3>3
    <3>4. CASE n # m
      <4>1. n \in 1..(m - 1)
        BY <2>2, <3>4
      <4>2. g[n] = f[n]
        BY <3>1, <3>4
      <4> QED BY <2>1, <3>2, <4>1, <4>2
    <3> QED BY <3>3, <3>4
  <2> HIDE DEF g
  <2>8. CarriesOn(g, a, T, m)
    BY <2>6, <2>7 DEF CarriesOn
  <2> QED BY <2>2, <2>5, <2>8
<1>3. N \in 0..N
  OBVIOUS
<1> HIDE DEF S
<1>4. N \in S
  BY <1>1, <1>2, <1>3, UpTo
<1> QED BY <1>4 DEF S
=============================================================================
