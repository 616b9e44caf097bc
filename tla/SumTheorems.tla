---------------------------- MODULE SumTheorems ----------------------------
(***************************************************************************)
(* Sums of amounts over finite sets.  MapThenSumSet sums in the order in   *)
(* which CHOOSE takes the elements, with a function that is recursive on   *)
(* the subsets of the set.  That such a function exists, and that the sum  *)
(* depends on no order, are shown with a smallest set of which it would    *)
(* not be true.  The last part lists finite sets of numbers in order.      *)
(***************************************************************************)
EXTENDS Integers, FiniteSets, FiniteSetsExt, FiniteSetTheorems,
        WellFoundedInduction, TLAPS

\* The element of a set that MapThenSumSet takes first.
AnyOf(s) == CHOOSE x \in s : TRUE

\* g gives the sum of f over every subset of S.
Adds(g, f, S) ==
    g = [s \in SUBSET S |-> IF s = {} THEN 0 ELSE f[AnyOf(s)] + g[s \ {AnyOf(s)}]]

\* The sum of f over S.
Sum(f, S) == (CHOOSE g : Adds(g, f, S))[S]

\* It is one of the elements.
LEMMA AnyMember ==
    ASSUME NEW s, s # {}
    PROVE  AnyOf(s) \in s
  BY DEF AnyOf

\* Among subsets of a finite set there is one of which no part is among them.
LEMMA MinimalSet ==
    ASSUME NEW S, IsFiniteSet(S), NEW C \in SUBSET SUBSET S, C # {}
    PROVE  \E s \in C : \A t \in SUBSET s : t # s => t \notin C
  <1>1. IsWellFoundedOn(StrictSubsetOrdering(S), SUBSET S)
    BY FS_StrictSubsetOrderingWellFounded, FS_FiniteSubsetsOfFinite
  <1>2. PICK s \in C : \A t \in C : ~ (<<t, s>> \in StrictSubsetOrdering(S))
    BY <1>1, WFMin
  <1>3. \A t \in SUBSET s : t # s => t \notin C
    BY <1>2 DEF StrictSubsetOrdering
  <1> QED
    BY <1>3

\* The equation at one subset.
LEMMA AddsStep ==
    ASSUME NEW g, NEW f, NEW S, Adds(g, f, S), NEW s \in SUBSET S
    PROVE  g[s] = IF s = {} THEN 0 ELSE f[AnyOf(s)] + g[s \ {AnyOf(s)}]
  BY DEF Adds

\* Two such functions agree where their summands do.
LEMMA AddsUnique ==
    ASSUME NEW f, NEW g, NEW S, Adds(g, f, S),
           NEW e, NEW h, NEW T, Adds(h, e, T),
           NEW U, IsFiniteSet(U), U \subseteq S, U \subseteq T,
           \A x \in U : f[x] = e[x]
    PROVE  g[U] = h[U]
  <1> DEFINE C == {u \in SUBSET U : g[u] # h[u]}
  <1>1. C \in SUBSET SUBSET U
    OBVIOUS
  <1> SUFFICES ASSUME C # {} PROVE FALSE
    OBVIOUS
  <1>2. PICK u \in C : \A t \in SUBSET u : t # u => t \notin C
    <2> HIDE DEF C
    <2> QED BY <1>1, MinimalSet
  <1>3. u \in SUBSET U /\ u \in SUBSET S /\ u \in SUBSET T /\ g[u] # h[u]
    OBVIOUS
  <1>4. g[u] = IF u = {} THEN 0 ELSE f[AnyOf(u)] + g[u \ {AnyOf(u)}]
    <2>1. Adds(g, f, S) /\ u \in SUBSET S
      BY <1>3
    <2> QED BY ONLY <2>1 DEF Adds
  <1>5. h[u] = IF u = {} THEN 0 ELSE e[AnyOf(u)] + h[u \ {AnyOf(u)}]
    <2>1. Adds(h, e, T) /\ u \in SUBSET T
      BY <1>3
    <2> QED BY ONLY <2>1 DEF Adds
  <1>6. u # {}
    BY <1>3, <1>4, <1>5
  <1>7. AnyOf(u) \in u
    BY <1>6, AnyMember
  <1>8. g[u \ {AnyOf(u)}] = h[u \ {AnyOf(u)}]
    BY <1>2, <1>3, <1>7
  <1> QED
    BY <1>3, <1>4, <1>5, <1>6, <1>7, <1>8

\* There is such a function for every finite set.
LEMMA AddsExists ==
    ASSUME NEW f, NEW S, IsFiniteSet(S)
    PROVE  \E g : Adds(g, f, S)
  <1> DEFINE C == {s \in SUBSET S : ~ \E g : Adds(g, f, s)}
  <1>1. C \in SUBSET SUBSET S
    OBVIOUS
  <1> SUFFICES ASSUME C # {} PROVE FALSE
    OBVIOUS
  <1>2. PICK s \in C : \A t \in SUBSET s : t # s => t \notin C
    <2> HIDE DEF C
    <2> QED BY <1>1, MinimalSet
  <1>3. s \in SUBSET S /\ ~ \E g : Adds(g, f, s)
    OBVIOUS
  <1>4. \A t \in SUBSET s : t # s => \E g : Adds(g, f, t)
    BY <1>2, <1>3
  <1> HIDE DEF C
  <1> DEFINE G(t) == CHOOSE g : Adds(g, f, t)
             v(t) == IF t = s
                       THEN IF s = {} THEN 0
                            ELSE f[AnyOf(s)] + G(s \ {AnyOf(s)})[s \ {AnyOf(s)}]
                       ELSE G(t)[t]
             h == [t \in SUBSET s |-> v(t)]
  <1>5. \A t \in SUBSET s : t # s => Adds(G(t), f, t)
    BY <1>4
  <1> HIDE DEF G
  <1>6. ASSUME NEW t \in SUBSET s
        PROVE  v(t) = IF t = {} THEN 0 ELSE f[AnyOf(t)] + v(t \ {AnyOf(t)})
    <2>1. CASE t = {}
      <3>1. CASE s = {}
        BY <2>1, <3>1
      <3>2. CASE s # {}
        <4>1. Adds(G(t), f, t)
          BY <1>5, <2>1, <3>2
        <4>2. G(t)[t] = 0
          BY <4>1, <2>1, AddsStep
        <4> QED
          BY <4>2, <2>1, <3>2
      <3> QED
        BY <3>1, <3>2
    <2>2. CASE t # {} /\ t = s
      <3>1. AnyOf(s) \in s /\ s \ {AnyOf(s)} # s
        BY <2>2, AnyMember
      <3>2. v(s \ {AnyOf(s)}) = G(s \ {AnyOf(s)})[s \ {AnyOf(s)}]
        BY <3>1
      <3>3. v(s) = f[AnyOf(s)] + G(s \ {AnyOf(s)})[s \ {AnyOf(s)}]
        BY <2>2
      <3> QED
        BY <3>2, <3>3, <2>2
    <2>3. CASE t # {} /\ t # s
      <3> DEFINE r == t \ {AnyOf(t)}
      <3>1. AnyOf(t) \in t /\ r \in SUBSET s /\ r # s /\ r \subseteq t
        BY <2>3, AnyMember
      <3> HIDE DEF r
      <3>2. Adds(G(t), f, t) /\ Adds(G(r), f, r)
        BY <1>5, <2>3, <3>1
      <3>3. IsFiniteSet(r)
        BY <1>3, <3>1, FS_Subset
      <3>4. G(t)[r] = G(r)[r]
        BY <3>1, <3>2, <3>3, AddsUnique
      <3>5. G(t)[t] = f[AnyOf(t)] + G(t)[r]
        BY <3>2, <2>3, AddsStep DEF r
      <3>6. v(t) = G(t)[t] /\ v(r) = G(r)[r]
        BY <2>3, <3>1
      <3> HIDE DEF v
      <3>7. v(t) = f[AnyOf(t)] + v(r)
        BY <3>4, <3>5, <3>6
      <3> QED
        BY <3>7, <2>3 DEF r
    <2> QED
      BY <2>1, <2>2, <2>3
  <1> HIDE DEF v
  <1>7. \A t \in SUBSET s : h[t] = v(t)
    OBVIOUS
  <1>8. \A t \in SUBSET s : t \ {AnyOf(t)} \in SUBSET s
    OBVIOUS
  <1>9. \A t \in SUBSET s : h[t] = IF t = {} THEN 0 ELSE f[AnyOf(t)] + h[t \ {AnyOf(t)}]
    BY <1>6, <1>7, <1>8
  <1>10. h = [t \in SUBSET s |-> h[t]]
    OBVIOUS
  <1> HIDE DEF h
  <1>11. Adds(h, f, s)
    BY <1>9, <1>10 DEF Adds
  <1> QED
    BY <1>3, <1>11

\* Any such function on a larger set gives the sum.
LEMMA SumIs ==
    ASSUME NEW f, NEW S, IsFiniteSet(S),
           NEW e, NEW T, NEW g, Adds(g, e, T), S \subseteq T,
           \A x \in S : f[x] = e[x]
    PROVE  Sum(f, S) = g[S]
  <1>1. Adds(CHOOSE h : Adds(h, f, S), f, S)
    BY AddsExists
  <1> QED
    BY <1>1, AddsUnique DEF Sum

\* Only the values of f on the set count.
LEMMA SumSame ==
    ASSUME NEW f, NEW e, NEW S, IsFiniteSet(S), \A x \in S : f[x] = e[x]
    PROVE  Sum(f, S) = Sum(e, S)
  <1>1. Adds(CHOOSE h : Adds(h, e, S), e, S)
    BY AddsExists
  <1> QED
    BY <1>1, SumIs DEF Sum

\* The empty sum.
LEMMA SumEmpty ==
    ASSUME NEW f
    PROVE  Sum(f, {}) = 0
  <1>1. Adds(CHOOSE h : Adds(h, f, {}), f, {})
    BY AddsExists, FS_EmptySet
  <1> QED
    BY <1>1, AddsStep DEF Sum

\* Taking off the element that CHOOSE takes.
LEMMA SumAny ==
    ASSUME NEW f, NEW S, IsFiniteSet(S), S # {}
    PROVE  Sum(f, S) = f[AnyOf(S)] + Sum(f, S \ {AnyOf(S)})
  <1> DEFINE g == CHOOSE h : Adds(h, f, S)
             R == S \ {AnyOf(S)}
  <1>1. Adds(g, f, S)
    BY AddsExists
  <1>2. g[S] = f[AnyOf(S)] + g[R]
    BY <1>1, AddsStep
  <1>3. IsFiniteSet(R)
    BY FS_Subset
  <1>4. Sum(f, R) = g[R]
    <2> HIDE DEF g
    <2> QED BY <1>1, <1>3, SumIs
  <1> QED
    BY <1>2, <1>4 DEF Sum

\* Taking off any element.
LEMMA SumElement ==
    ASSUME NEW f, NEW S, IsFiniteSet(S), \A x \in S : f[x] \in Nat
    PROVE  /\ Sum(f, S) \in Nat
           /\ \A x \in S : Sum(f, S) = f[x] + Sum(f, S \ {x})
  <1> DEFINE P(s) == /\ Sum(f, s) \in Nat
                     /\ \A x \in s : Sum(f, s) = f[x] + Sum(f, s \ {x})
             C == {s \in SUBSET S : ~ P(s)}
  <1>1. C \in SUBSET SUBSET S
    OBVIOUS
  <1> SUFFICES ASSUME C # {} PROVE FALSE
    OBVIOUS
  <1>2. PICK s \in C : \A t \in SUBSET s : t # s => t \notin C
    <2> HIDE DEF C
    <2> QED BY <1>1, MinimalSet
  <1>3. s \in SUBSET S /\ ~ P(s)
    OBVIOUS
  <1>4. \A t \in SUBSET s : t # s => P(t)
    BY <1>2, <1>3
  <1>5. IsFiniteSet(s)
    BY <1>3, FS_Subset
  <1> HIDE DEF C, P
  <1>6. s # {}
    BY <1>3, SumEmpty DEF P
  <1> DEFINE y == AnyOf(s)
  <1>7. y \in s
    BY <1>6, AnyMember
  <1>8. Sum(f, s) = f[y] + Sum(f, s \ {y})
    BY <1>5, <1>6, SumAny
  <1> HIDE DEF y
  <1>9. f[y] \in Nat /\ Sum(f, s \ {y}) \in Nat
    BY <1>3, <1>4, <1>7 DEF P
  <1>10. ASSUME NEW x \in s PROVE Sum(f, s) = f[x] + Sum(f, s \ {x})
    <2>1. CASE x = y
      BY <1>8, <2>1
    <2>2. CASE x # y
      <3> DEFINE r == (s \ {y}) \ {x}
      <3>1. r = (s \ {x}) \ {y} /\ x \in s \ {y} /\ y \in s \ {x}
        BY <1>7, <2>2
      <3>2. P(s \ {y}) /\ P(s \ {x}) /\ P(r)
        BY <1>4, <1>7, <3>1
      <3>3. Sum(f, s \ {y}) = f[x] + Sum(f, r)
        BY <3>2, <3>1 DEF P
      <3>4. Sum(f, s \ {x}) = f[y] + Sum(f, r)
        BY <3>2, <3>1 DEF P
      <3>5. f[x] \in Nat /\ Sum(f, r) \in Nat
        BY <1>3, <3>2 DEF P
      <3> QED
        BY <1>8, <1>9, <3>3, <3>4, <3>5
    <2> QED
      BY <2>1, <2>2
  <1>11. Sum(f, s) \in Nat
    BY <1>8, <1>9
  <1>12. P(s)
    BY <1>10, <1>11 DEF P
  <1> QED
    BY <1>3, <1>12

\* Adding an element.
LEMMA SumAdd ==
    ASSUME NEW f, NEW S, IsFiniteSet(S), \A x \in S : f[x] \in Nat,
           NEW y, y \notin S, f[y] \in Nat
    PROVE  Sum(f, S \cup {y}) = Sum(f, S) + f[y]
  <1>1. IsFiniteSet(S \cup {y}) /\ (S \cup {y}) \ {y} = S
    BY FS_AddElement
  <1>2. Sum(f, S \cup {y}) = f[y] + Sum(f, (S \cup {y}) \ {y})
    BY <1>1, SumElement
  <1>3. Sum(f, S) \in Nat
    BY SumElement
  <1>4. Sum(f, S \cup {y}) = f[y] + Sum(f, S)
    BY <1>1, <1>2, Zenon
  <1> QED
    BY <1>3, <1>4

\* A set falls into two parts.
LEMMA SumDisjoint ==
    ASSUME NEW f, NEW S, IsFiniteSet(S), \A x \in S : f[x] \in Nat,
           NEW T \in SUBSET S
    PROVE  Sum(f, S) = Sum(f, T) + Sum(f, S \ T)
  <1> DEFINE P(t) == Sum(f, S) = Sum(f, t) + Sum(f, S \ t)
             C == {t \in SUBSET S : ~ P(t)}
  <1>1. C \in SUBSET SUBSET S
    OBVIOUS
  <1> SUFFICES ASSUME C # {} PROVE FALSE
    OBVIOUS
  <1>2. PICK s \in C : \A t \in SUBSET s : t # s => t \notin C
    <2> HIDE DEF C
    <2> QED BY <1>1, MinimalSet
  <1>3. s \in SUBSET S /\ ~ P(s)
    OBVIOUS
  <1>4. \A t \in SUBSET s : t # s => P(t)
    BY <1>2, <1>3
  <1> HIDE DEF C, P
  <1>5. s # {}
    <2>1. Sum(f, S) \in Nat
      BY SumElement
    <2>2. P({})
      BY <2>1, SumEmpty DEF P
    <2> QED
      BY <1>3, <2>2
  <1>6. PICK y \in s : TRUE
    BY <1>5
  <1> DEFINE r == s \ {y}
  <1>7. r \in SUBSET S /\ r # s /\ y \notin r /\ s = r \cup {y} /\ y \in S
    BY <1>3, <1>6
  <1>8. P(r)
    BY <1>4, <1>6, <1>7
  <1> HIDE DEF r
  <1>9. IsFiniteSet(r) /\ IsFiniteSet(s) /\ IsFiniteSet(S \ r)
    BY <1>3, <1>7, FS_Subset
  <1>10. Sum(f, s) = Sum(f, r) + f[y]
    BY <1>7, <1>9, SumAdd
  <1>11. Sum(f, S \ r) = f[y] + Sum(f, (S \ r) \ {y})
    <2>1. y \in S \ r /\ \A x \in S \ r : f[x] \in Nat
      BY <1>7
    <2> QED
      BY <1>9, <2>1, SumElement
  <1>12. (S \ r) \ {y} = S \ s
    BY <1>7
  <1>13. Sum(f, r) \in Nat /\ f[y] \in Nat /\ Sum(f, S \ s) \in Nat
    <2>1. IsFiniteSet(S \ s)
      BY FS_Subset
    <2> QED
      BY <2>1, <1>7, <1>9, SumElement
  <1>14. Sum(f, S) = Sum(f, s) + Sum(f, S \ s)
    <2>1. Sum(f, S) = Sum(f, r) + Sum(f, S \ r)
      BY <1>8 DEF P
    <2>2. Sum(f, S \ r) = f[y] + Sum(f, S \ s)
      BY <1>11, <1>12, Zenon
    <2> QED
      BY <2>1, <2>2, <1>10, <1>13
  <1> QED
    BY <1>3, <1>14 DEF P

\* A part sums up to no more, and to no less than each of its elements.
LEMMA SumMonotone ==
    ASSUME NEW f, NEW S, IsFiniteSet(S), \A x \in S : f[x] \in Nat,
           NEW T \in SUBSET S
    PROVE  /\ Sum(f, T) \in Nat
           /\ Sum(f, T) <= Sum(f, S)
           /\ \A x \in T : f[x] <= Sum(f, T)
  <1>1. IsFiniteSet(T) /\ IsFiniteSet(S \ T)
    BY FS_Subset
  <1>2. Sum(f, T) \in Nat /\ Sum(f, S \ T) \in Nat
    BY <1>1, SumElement
  <1>3. Sum(f, S) = Sum(f, T) + Sum(f, S \ T)
    BY SumDisjoint
  <1>4. ASSUME NEW x \in T PROVE f[x] <= Sum(f, T)
    <2>1. Sum(f, T) = f[x] + Sum(f, T \ {x})
      BY <1>1, SumElement
    <2>2. IsFiniteSet(T \ {x})
      BY <1>1, FS_Subset
    <2>3. Sum(f, T \ {x}) \in Nat /\ f[x] \in Nat
      BY <2>2, SumElement
    <2> QED
      BY <2>1, <2>3
  <1> QED
    BY <1>2, <1>3, <1>4

\* The sum of the community modules is this one.
LEMMA MapSum ==
    ASSUME NEW f, NEW S
    PROVE  MapThenSumSet(LAMBDA a : f[a], S) = Sum(f, S)
  BY DEF MapThenSumSet, MapThenFoldSet, AnyOf, Sum, Adds

\* So it is with the amounts of attempts.
LEMMA MapSumAmt ==
    ASSUME NEW h, NEW S, IsFiniteSet(S)
    PROVE  MapThenSumSet(LAMBDA a : h[a].amt, S) = Sum([a \in S |-> h[a].amt], S)
  <1> DEFINE f == [a \in S |-> h[a].amt]
             B(g) == g = [s \in SUBSET S |-> IF s = {} THEN 0 ELSE h[AnyOf(s)].amt + g[s \ {AnyOf(s)}]]
  <1>1. MapThenSumSet(LAMBDA a : h[a].amt, S) = (CHOOSE g : B(g))[S]
    BY DEF MapThenSumSet, MapThenFoldSet, AnyOf
  <1>2. \A g : B(g) <=> Adds(g, f, S)
    <2>1. \A s \in SUBSET S : s # {} => f[AnyOf(s)] = h[AnyOf(s)].amt
      BY AnyMember
    <2> HIDE DEF f
    <2> QED
      BY <2>1 DEF Adds
  <1>3. \E g : Adds(g, f, S)
    BY AddsExists
  <1> HIDE DEF B, f
  <1>4. Adds(CHOOSE g : B(g), f, S)
    BY <1>2, <1>3
  <1>5. Sum(f, S) = (CHOOSE g : B(g))[S]
    BY <1>4, SumIs
  <1> QED
    BY <1>1, <1>5 DEF f

-----------------------------------------------------------------------------
(* Finite sets of numbers as lists.                                        *)

\* The number of elements of S up to x.
Rank(S, x) == Cardinality({y \in S : y <= x})

\* Numbers of a finite set are ranked in their order.
LEMMA RankIncreases ==
    ASSUME NEW S \in SUBSET Nat, IsFiniteSet(S), NEW x \in S
    PROVE  /\ Rank(S, x) \in 1 .. Cardinality(S)
           /\ \A y \in S : x < y => Rank(S, x) < Rank(S, y)
<1>1. /\ IsFiniteSet({y \in S : y <= x})
      /\ Cardinality({y \in S : y <= x}) \in Nat
      /\ Cardinality(S) \in Nat
      /\ Cardinality({y \in S : y <= x}) <= Cardinality(S)
  BY FS_Subset, FS_CardinalityType
<1>2. Rank(S, x) \in 1 .. Cardinality(S)
  <2>1. x \in {y \in S : y <= x}
    OBVIOUS
  <2>2. Cardinality({y \in S : y <= x}) # 0
    BY <1>1, <2>1, FS_EmptySet
  <2> QED
    BY <1>1, <2>2 DEF Rank
<1>3. ASSUME NEW y \in S, x < y
      PROVE  Rank(S, x) < Rank(S, y)
  <2>1. /\ {z \in S : z <= x} \in SUBSET {z \in S : z <= y}
        /\ y \in {z \in S : z <= y} /\ y \notin {z \in S : z <= x}
    <3>1. x \in Nat /\ y \in Nat /\ \A z \in S : z \in Nat
      OBVIOUS
    <3>2. \A z \in S : z <= x => z <= y
      BY <1>3, <3>1
    <3>3. y <= y /\ ~ (y <= x)
      BY <1>3, <3>1
    <3> QED
      BY <3>2, <3>3
  <2>2. IsFiniteSet({z \in S : z <= y})
    BY FS_Subset
  <2>3. Cardinality({z \in S : z <= y}) \in Nat
    BY <2>2, FS_CardinalityType
  <2>4. /\ Cardinality({z \in S : z <= x}) <= Cardinality({z \in S : z <= y})
        /\ Cardinality({z \in S : z <= x}) # Cardinality({z \in S : z <= y})
    <3> DEFINE T == {z \in S : z <= x}
               U == {z \in S : z <= y}
    <3> HIDE DEF T, U
    <3>1. T \in SUBSET U /\ IsFiniteSet(U) /\ T # U
      BY <2>1, <2>2 DEF T, U
    <3> QED
      BY <3>1, FS_Subset DEF T, U
  <2> QED
    BY <1>1, <2>3, <2>4 DEF Rank
<1> QED
  BY <1>2, <1>3

\* A finite set of numbers can be listed in ascending order.
LEMMA SortedExists ==
    ASSUME NEW S \in SUBSET Nat, IsFiniteSet(S)
    PROVE  \E s \in [1 .. Cardinality(S) -> S] :
               \A i, j \in DOMAIN s : i < j => s[i] < s[j]
<1> DEFINE n == Cardinality(S)
           rank == [x \in S |-> Rank(S, x)]
<1>1. n \in Nat
  BY FS_CardinalityType
<1>2. IsFiniteSet(1 .. n) /\ Cardinality(1 .. n) = n
  BY <1>1, FS_Interval
<1>3. rank \in Injection(S, 1 .. n)
  <2>1. rank \in [S -> 1 .. n]
    BY RankIncreases
  <2>2. \A x, y \in S : rank[x] = rank[y] => x = y
    <3> SUFFICES ASSUME NEW x \in S, NEW y \in S, rank[x] = rank[y], x # y
                 PROVE  FALSE
      OBVIOUS
    <3>1. x < y \/ y < x
      OBVIOUS
    <3>2. rank[x] \in Int /\ rank[y] \in Int
      BY <2>1
    <3> QED
      BY <3>1, <3>2, RankIncreases
  <2> QED
    BY <2>1, <2>2 DEF Injection, IsInjective
<1>4. rank \in Surjection(S, 1 .. n)
  BY <1>2, <1>3, FS_Injection
<1>5. \A i \in 1 .. n : \E x \in S : Rank(S, x) = i
  BY <1>4 DEF Surjection
<1> DEFINE s == [i \in 1 .. n |-> CHOOSE x \in S : Rank(S, x) = i]
<1>6. \A i \in 1 .. n : s[i] \in S /\ Rank(S, s[i]) = i
  BY <1>5
<1>7. s \in [1 .. n -> S]
  BY <1>6
<1>8. \A i, j \in 1 .. n : i < j => s[i] < s[j]
  <2> SUFFICES ASSUME NEW i \in 1 .. n, NEW j \in 1 .. n, i < j, ~ (s[i] < s[j])
               PROVE  FALSE
    OBVIOUS
  <2>1. s[i] \in S /\ s[j] \in S /\ Rank(S, s[i]) = i /\ Rank(S, s[j]) = j
    BY <1>6
  <2> HIDE DEF s
  <2>2. s[j] < s[i] \/ s[j] = s[i]
    BY <2>1, s[i] \in Nat, s[j] \in Nat
  <2>3. CASE s[j] < s[i]
    <3>1. Rank(S, s[j]) < Rank(S, s[i])
      BY <2>1, <2>3, RankIncreases
    <3> QED
      BY <2>1, <3>1
  <2>4. CASE s[j] = s[i]
    BY <2>1, <2>4
  <2> QED
    BY <2>2, <2>3, <2>4
<1> QED
  BY <1>7, <1>8

\* Such a list has every element, and has it once.
LEMMA SortedListing ==
    ASSUME NEW S \in SUBSET Nat, IsFiniteSet(S),
           NEW s \in [1 .. Cardinality(S) -> S],
           \A i, j \in DOMAIN s : i < j => s[i] < s[j]
    PROVE  /\ \A i, j \in 1 .. Cardinality(S) : s[i] = s[j] => i = j
           /\ \A x \in S : \E i \in 1 .. Cardinality(S) : s[i] = x
<1> DEFINE n == Cardinality(S)
<1>1. n \in Nat
  BY FS_CardinalityType
<1> HIDE DEF n
<1>2. s \in [1 .. n -> S] /\ \A i, j \in DOMAIN s : i < j => s[i] < s[j]
  BY DEF n
<1>3. \A i, j \in 1 .. n : s[i] = s[j] => i = j
  <2> SUFFICES ASSUME NEW i \in 1 .. n, NEW j \in 1 .. n, s[i] = s[j], i # j
               PROVE  FALSE
    OBVIOUS
  <2>1. i \in DOMAIN s /\ j \in DOMAIN s /\ (i < j \/ j < i)
    <3>1. i < j \/ j < i
      BY <1>1
    <3> QED
      BY <1>2, <3>1
  <2>2. s[i] \in Nat
    BY <1>2
  <2> QED
    BY <1>2, <2>1, <2>2
<1>4. s \in Injection(1 .. n, S)
  BY <1>2, <1>3 DEF Injection, IsInjective
<1>5. Cardinality(1 .. n) = n /\ IsFiniteSet(1 .. n)
  BY <1>1, FS_Interval
<1>6. s \in Surjection(1 .. n, S)
  BY <1>4, <1>5, FS_Injection DEF n
<1> QED
  BY <1>3, <1>6 DEF Surjection, n

\* A set of numbers has a smallest one.
LEMMA SmallestNat ==
    ASSUME NEW S \in SUBSET Nat, S # {}
    PROVE  \E n \in S : \A m \in S : n <= m
<1>1. IsWellFoundedOn(OpToRel(<, Nat), Nat)
  BY NatLessThanWellFounded
<1>2. PICK n \in S : \A m \in S : ~ (<<m, n>> \in OpToRel(<, Nat))
  BY <1>1, WFMin
<1>3. \A m \in S : m \in Nat /\ n \in Nat /\ ~ (m < n)
  BY <1>2 DEF OpToRel
<1> QED
  BY <1>3
=============================================================================
