---------------------------- MODULE Sums_proofs ----------------------------
(***************************************************************************)
(* What sums of natural numbers over a finite domain do: they are natural  *)
(* numbers, one value can be taken out, they grow with the values and add  *)
(* up place by place. A sum is the size of a set of units, so the facts    *)
(* rest on the library's theorems about cardinality.                       *)
(***************************************************************************)
EXTENDS Sums, FiniteSetTheorems, TLAPS

\* Summable: finitely many values, all natural.
Units(f) == UNION {{x} \X (1 .. f[x]) : x \in DOMAIN f}
Summable(f) == IsFiniteSet(DOMAIN f) /\ \A x \in DOMAIN f : f[x] \in Nat

\* A unit is a place of the domain with a number up to the value there.
LEMMA UnitsAre ==
    ASSUME NEW f
    PROVE  \A u : u \in Units(f) <=> \E x \in DOMAIN f : \E n \in 1 .. f[x] : u = <<x, n>>
<1> QED
  BY DEF Units

\* One row of units.
LEMMA UnitRow ==
    ASSUME NEW x, NEW n \in Nat
    PROVE  IsFiniteSet({x} \X (1 .. n)) /\ Cardinality({x} \X (1 .. n)) = n
<1>1. IsFiniteSet({x}) /\ Cardinality({x}) = 1
  BY FS_Singleton
<1>2. IsFiniteSet(1 .. n) /\ Cardinality(1 .. n) = n
  BY FS_Interval
<1>3. /\ IsFiniteSet({x} \X (1 .. n))
      /\ Cardinality({x} \X (1 .. n)) = Cardinality({x}) * Cardinality(1 .. n)
  BY <1>1, <1>2, FS_Product
<1> QED
  BY <1>1, <1>2, <1>3

\* A sum of natural numbers is one.
LEMMA SumType ==
    ASSUME NEW f, Summable(f)
    PROVE  IsFiniteSet(Units(f)) /\ Sum(f) \in Nat /\ Sum(f) = Cardinality(Units(f))
<1> DEFINE D == DOMAIN f
           P == {{x} \X (1 .. f[x]) : x \in D}
           h == [x \in D |-> {x} \X (1 .. f[x])]
<1>1. h \in Surjection(D, P)
  BY DEF Surjection
<1>2. IsFiniteSet(P)
  BY <1>1, FS_Surjection DEF Summable
<1>3. ASSUME NEW T \in P
      PROVE  IsFiniteSet(T)
  <2>1. PICK x \in D : T = {x} \X (1 .. f[x])
    OBVIOUS
  <2>2. f[x] \in Nat
    BY DEF Summable
  <2> QED
    BY <2>1, <2>2, UnitRow
<1>4. IsFiniteSet(UNION P)
  BY <1>2, <1>3, FS_UNION
<1> QED
  BY <1>4, FS_CardinalityType DEF Units, Sum

\* The part of a function outside one place.
Without(f, x) == [y \in DOMAIN f \ {x} |-> f[y]]

\* A sum is one value and the sum of the others.
LEMMA SumPoint ==
    ASSUME NEW f, Summable(f), NEW x \in DOMAIN f
    PROVE  Summable(Without(f, x)) /\ Sum(f) = f[x] + Sum(Without(f, x))
<1> DEFINE g == Without(f, x)
           R == {x} \X (1 .. f[x])
<1>1. Summable(g)
  BY FS_RemoveElement DEF Summable, Without
<1>2. IsFiniteSet(R) /\ Cardinality(R) = f[x]
  BY UnitRow DEF Summable
<1>3. IsFiniteSet(Units(g)) /\ Sum(g) = Cardinality(Units(g)) /\ Sum(g) \in Nat
  BY <1>1, SumType
<1>4. Units(f) = R \cup Units(g)
  <2>1. ASSUME NEW u
        PROVE  u \in Units(f) <=> u \in R \/ u \in Units(g)
    BY UnitsAre DEF Without
  <2> QED
    BY <2>1
<1>5. R \cap Units(g) = {}
  BY UnitsAre DEF Without
<1>6. Cardinality(Units(f)) = f[x] + Sum(g)
  <2> HIDE DEF R, g
  <2>1. Cardinality(R \cup Units(g)) = Cardinality(R) + Cardinality(Units(g)) - Cardinality(R \cap Units(g))
    BY <1>2, <1>3, FS_Union
  <2>2. Cardinality(R \cap Units(g)) = 0
    BY <1>5, FS_EmptySet
  <2>3. f[x] \in Nat
    BY DEF Summable
  <2> QED
    BY <2>1, <2>2, <2>3, <1>2, <1>3, <1>4
<1> QED
  BY <1>1, <1>6, SumType

\* A sum over more places, with greater values, is not smaller; places of
\* value zero do not matter.
LEMMA SumMonotone ==
    ASSUME NEW f, NEW g, Summable(f), Summable(g),
           \A x \in DOMAIN f : f[x] = 0 \/ (x \in DOMAIN g /\ f[x] <= g[x])
    PROVE  Sum(f) <= Sum(g)
<1>1. IsFiniteSet(Units(g)) /\ Sum(g) = Cardinality(Units(g)) /\ Sum(f) = Cardinality(Units(f))
  BY SumType
<1>2. Units(f) \subseteq Units(g)
  <2> SUFFICES ASSUME NEW x \in DOMAIN f, NEW n \in 1 .. f[x]
               PROVE  n \in 1 .. g[x] /\ x \in DOMAIN g
    BY UnitsAre
  <2> QED
    BY DEF Summable
<1> QED
  BY <1>1, <1>2, FS_Subset

\* Sums add up place by place.
LEMMA SumAdd ==
    ASSUME NEW f, NEW d, Summable(f), Summable(d), DOMAIN d = DOMAIN f
    PROVE  /\ Summable([x \in DOMAIN f |-> f[x] + d[x]])
           /\ Sum([x \in DOMAIN f |-> f[x] + d[x]]) = Sum(f) + Sum(d)
<1> DEFINE g == [x \in DOMAIN f |-> f[x] + d[x]]
           new == {u \in Units(g) : u \notin Units(f)}
           h == [u \in Units(d) |-> <<u[1], f[u[1]] + u[2]>>]
<1>1. Summable(g)
  BY DEF Summable
<1>2. IsFiniteSet(Units(f)) /\ Sum(f) = Cardinality(Units(f)) /\ Sum(f) \in Nat
  BY SumType
<1>3. IsFiniteSet(Units(d)) /\ Sum(d) = Cardinality(Units(d)) /\ Sum(d) \in Nat
  BY SumType
<1>4. IsFiniteSet(Units(g)) /\ Sum(g) = Cardinality(Units(g)) /\ Sum(g) \in Nat
  BY <1>1, SumType
<1>5. Units(f) \subseteq Units(g)
  <2> SUFFICES ASSUME NEW x \in DOMAIN f, NEW n \in 1 .. f[x]
               PROVE  n \in 1 .. g[x] /\ x \in DOMAIN g
    BY UnitsAre
  <2> QED
    BY DEF Summable
<1>6. h \in Bijection(Units(d), new)
  <2>1. ASSUME NEW u \in Units(d)
        PROVE  h[u] \in new
    <3>1. PICK x \in DOMAIN d : \E n \in 1 .. d[x] : u = <<x, n>>
      BY UnitsAre
    <3>2. PICK n \in 1 .. d[x] : u = <<x, n>>
      BY <3>1
    <3>3. h[u] = <<x, f[x] + n>>
      BY <3>2
    <3>4. f[x] \in Nat /\ d[x] \in Nat /\ g[x] = f[x] + d[x] /\ x \in DOMAIN g
      BY DEF Summable
    <3>5. f[x] + n \in 1 .. g[x] /\ f[x] + n \notin 1 .. f[x]
      BY <3>4
    <3> HIDE DEF g, h
    <3>6. <<x, f[x] + n>> \in Units(g)
      BY <3>4, <3>5, UnitsAre
    <3>7. <<x, f[x] + n>> \notin Units(f)
      BY <3>5, UnitsAre
    <3> QED
      BY <3>3, <3>6, <3>7
  <2>2. ASSUME NEW u \in Units(d), NEW v \in Units(d), h[u] = h[v]
        PROVE  u = v
    <3>1. PICK x \in DOMAIN d : \E n \in 1 .. d[x] : u = <<x, n>>
      BY UnitsAre
    <3>2. PICK n \in 1 .. d[x] : u = <<x, n>>
      BY <3>1
    <3>3. PICK y \in DOMAIN d : \E k \in 1 .. d[y] : v = <<y, k>>
      BY UnitsAre
    <3>4. PICK k \in 1 .. d[y] : v = <<y, k>>
      BY <3>3
    <3>5. <<x, f[x] + n>> = <<y, f[y] + k>>
      BY <2>2, <3>2, <3>4
    <3>6. x = y /\ f[x] \in Nat /\ f[x] + n = f[x] + k
      BY <3>5 DEF Summable
    <3> QED
      BY <3>2, <3>4, <3>6
  <2>3. ASSUME NEW w \in new
        PROVE  \E u \in Units(d) : h[u] = w
    <3>1. PICK x \in DOMAIN g : \E n \in 1 .. g[x] : w = <<x, n>>
      BY UnitsAre
    <3>2. PICK n \in 1 .. g[x] : w = <<x, n>>
      BY <3>1
    <3>3. x \in DOMAIN f /\ x \in DOMAIN d /\ f[x] \in Nat /\ d[x] \in Nat /\ g[x] = f[x] + d[x]
      BY DEF Summable
    <3>4. n \notin 1 .. f[x]
      BY <3>2, <3>3, UnitsAre
    <3>5. n - f[x] \in 1 .. d[x] /\ f[x] + (n - f[x]) = n
      BY <3>3, <3>4
    <3>6. <<x, n - f[x]>> \in Units(d)
      BY <3>3, <3>5, UnitsAre
    <3> QED
      BY <3>2, <3>5, <3>6
  <2>4. h \in [Units(d) -> new]
    BY <2>1
  <2> QED
    BY <2>2, <2>3, <2>4 DEF Bijection, Injection, Surjection, IsInjective
<1>7. IsFiniteSet(new) /\ Cardinality(new) = Sum(d)
  BY <1>3, <1>6, FS_Bijection DEF ExistsBijection
<1>8. Units(g) = Units(f) \cup new /\ Units(f) \cap new = {}
  BY <1>5
<1>9. Cardinality(Units(g)) = Sum(f) + Sum(d)
  <2> HIDE DEF g, new
  <2>1. Cardinality(Units(f) \cup new) = Cardinality(Units(f)) + Cardinality(new) - Cardinality(Units(f) \cap new)
    BY <1>2, <1>7, FS_Union
  <2>2. Cardinality(Units(f) \cap new) = 0
    BY <1>8, FS_EmptySet
  <2> QED
    BY <2>1, <2>2, <1>2, <1>3, <1>7, <1>8
<1> QED
  BY <1>1, <1>4, <1>9

\* Places of value zero can be left out.
LEMMA SumZeros ==
    ASSUME NEW f, NEW g, DOMAIN f \subseteq DOMAIN g, \A x \in DOMAIN f : g[x] = f[x],
           \A x \in DOMAIN g \ DOMAIN f : g[x] = 0
    PROVE  Sum(g) = Sum(f)
<1>1. ASSUME NEW u
      PROVE  u \in Units(f) <=> u \in Units(g)
  BY UnitsAre
<1>2. Units(f) = Units(g)
  BY <1>1
<1> QED
  BY <1>2 DEF Sum, Units

\* A sum of nothing but zeros is zero.
LEMMA SumNothing ==
    ASSUME NEW f, \A x \in DOMAIN f : f[x] = 0
    PROVE  Sum(f) = 0
<1>1. \A u : u \notin Units(f)
  BY UnitsAre
<1>2. Units(f) = {}
  BY <1>1
<1> QED
  BY <1>2, FS_EmptySet DEF Sum, Units

\* A sum of one value is that value.
LEMMA SumSingle ==
    ASSUME NEW f, NEW x, DOMAIN f = {x}, f[x] \in Nat
    PROVE  Sum(f) = f[x]
<1>1. Summable(f)
  BY FS_Singleton DEF Summable
<1>2. Sum(Without(f, x)) = 0
  BY SumNothing DEF Without
<1> QED
  BY <1>1, <1>2, SumPoint

\* If one value changes, the sum changes by as much.
LEMMA SumChange ==
    ASSUME NEW f, NEW g, Summable(f), Summable(g), DOMAIN g = DOMAIN f,
           NEW s \in DOMAIN f, \A i \in DOMAIN f : i # s => g[i] = f[i]
    PROVE  Sum(g) = Sum(f) - f[s] + g[s]
<1>1. Without(f, s) = Without(g, s)
  BY DEF Without
<1>2. f[s] \in Nat /\ g[s] \in Nat
  BY DEF Summable
<1>3. /\ Sum(f) = f[s] + Sum(Without(f, s)) /\ Sum(g) = g[s] + Sum(Without(f, s))
      /\ Sum(Without(f, s)) \in Nat
  BY <1>1, SumPoint, SumType
<1> QED
  BY <1>2, <1>3

\* Of the subsets in a collection one has no other one below it.
LEMMA LeastSet ==
    ASSUME NEW F, IsFiniteSet(F), NEW T \in SUBSET SUBSET F, T # {}
    PROVE  \E x \in T : \A y \in T : y \subseteq x => y = x
<1>1. T \subseteq FiniteSubsetsOf(F)
  BY FS_FiniteSubsetsOfFinite
<1>2. PICK x \in T : \A y \in T : ~(<<y, x>> \in StrictSubsetOrdering(F))
  BY <1>1, FS_StrictSubsetOrderingWellFounded, WFMin
<1>3. ASSUME NEW y \in T, y \subseteq x, y # x
      PROVE  FALSE
  <2>1. <<y, x>> \in StrictSubsetOrdering(F)
    BY <1>3 DEF StrictSubsetOrdering
  <2> QED
    BY <1>2, <2>1
<1> QED
  BY <1>3

\* Any quantity up to a sum can be taken out of its values one after the
\* other, so that one of them at most is taken in part.
LEMMA SumPart ==
    ASSUME NEW f, Summable(f), NEW n \in 0 .. Sum(f)
    PROVE  \E t \in [DOMAIN f -> Nat] :
              /\ \A x \in DOMAIN f : t[x] <= f[x]
              /\ Sum(t) = n
              /\ \A x, y \in DOMAIN f : 0 < t[x] /\ t[x] < f[x] /\ 0 < t[y] /\ t[y] < f[y] => x = y
<1> DEFINE D == DOMAIN f
           Full(A) == [x \in D |-> IF x \in A THEN f[x] ELSE 0]
           G == {A \in SUBSET D : Sum(Full(A)) <= n}
           C == {D \ A : A \in G}
<1>0. IsFiniteSet(D) /\ (\A x \in D : f[x] \in Nat) /\ Sum(f) \in Nat /\ n \in Nat
  BY SumType DEF Summable
<1>1. \A A \in SUBSET D : Summable(Full(A)) /\ DOMAIN Full(A) = D /\ Sum(Full(A)) \in Nat
  <2>1. \A A \in SUBSET D : Summable(Full(A)) /\ DOMAIN Full(A) = D
    BY <1>0 DEF Summable
  <2> QED
    BY <2>1, SumType
<1>2. {} \in G
  <2>1. Sum(Full({})) = 0
    BY SumNothing
  <2> QED
    BY <1>0, <2>1
<1>3. C \in SUBSET SUBSET D /\ C # {}
  BY <1>2
<1>4. PICK A \in G : \A B \in G : A \subseteq B => B = A
  <2>1. PICK c \in C : \A d \in C : d \subseteq c => d = c
    <3> HIDE DEF C
    <3> QED
      BY <1>0, <1>3, LeastSet
  <2>2. PICK A \in G : c = D \ A
    OBVIOUS
  <2>3. ASSUME NEW B \in G, A \subseteq B
        PROVE  B = A
    <3>1. D \ B \in C /\ D \ B \subseteq c
      BY <2>2, <2>3
    <3>2. D \ B = D \ A
      BY <2>1, <2>2, <3>1
    <3> QED
      BY <2>2, <3>2
  <2> QED
    BY <2>3
<1>5. A \in SUBSET D /\ Sum(Full(A)) <= n /\ Sum(Full(A)) \in Nat
  BY <1>1
<1>6. CASE Sum(Full(A)) = n
  <2>1. Full(A) \in [D -> Nat] /\ \A x \in D : Full(A)[x] = 0 \/ Full(A)[x] = f[x]
    BY <1>0
  <2> HIDE DEF Full
  <2> QED
    BY <1>0, <1>6, <2>1
<1>7. CASE Sum(Full(A)) < n
  <2>1. PICK x \in D : x \notin A
    <3>1. SUFFICES ASSUME A = D
                   PROVE  FALSE
      BY <1>5
    <3>2. \A y \in DOMAIN f : y \in DOMAIN Full(A) /\ f[y] <= Full(A)[y]
      BY <1>0, <3>1
    <3>3. Sum(f) <= Sum(Full(A))
      BY <1>1, <1>5, <3>2, SumMonotone
    <3> QED
      BY <1>0, <1>5, <1>7, <3>3
  <2> DEFINE B == A \cup {x}
             m == n - Sum(Full(A))
             t == [y \in D |-> IF y = x THEN m ELSE Full(A)[y]]
  <2>2. m \in Nat /\ m > 0
    BY <1>0, <1>5, <1>7
  <2>3. B \in SUBSET D /\ B \notin G
    BY <1>4, <1>5, <2>1
  <2>4. Sum(Full(B)) = Sum(Full(A)) + f[x]
    <3>1. \A i \in D : i # x => Full(B)[i] = Full(A)[i]
      OBVIOUS
    <3>2. Full(A)[x] = 0 /\ Full(B)[x] = f[x]
      BY <2>1
    <3>3. Sum(Full(B)) = Sum(Full(A)) - Full(A)[x] + Full(B)[x]
      <4> HIDE DEF Full, B
      <4> QED
        BY <1>1, <1>5, <2>1, <2>3, <3>1, SumChange
    <3> QED
      BY <1>0, <1>5, <3>2, <3>3
  <2>5. m < f[x]
    <3>1. ~(Sum(Full(B)) <= n) /\ Sum(Full(B)) \in Nat
      <4>1. B \in SUBSET D /\ ~(Sum(Full(B)) <= n)
        BY <2>3
      <4> HIDE DEF Full, B
      <4> QED
        BY <1>1, <4>1
    <3> QED
      BY <1>0, <1>5, <2>4, <3>1
  <2>6. t \in [D -> Nat] /\ Summable(t) /\ DOMAIN t = D
    BY <1>0, <2>2 DEF Summable
  <2>7. Sum(t) = n
    <3>1. \A i \in D : i # x => t[i] = Full(A)[i]
      OBVIOUS
    <3>2. Full(A)[x] = 0 /\ t[x] = m
      BY <2>1
    <3>3. Sum(t) = Sum(Full(A)) - Full(A)[x] + t[x]
      <4> HIDE DEF Full, t, m
      <4> QED
        BY <1>1, <1>5, <2>1, <2>6, <3>1, SumChange
    <3> QED
      BY <1>0, <1>5, <3>2, <3>3
  <2>8. \A y \in D : IF y = x THEN t[y] = m ELSE t[y] = 0 \/ t[y] = f[y]
    OBVIOUS
  <2>9. \A y \in D : t[y] <= f[y]
    BY <1>0, <2>2, <2>5, <2>8
  <2>10. \A y \in D : 0 < t[y] /\ t[y] < f[y] => y = x
    BY <1>0, <2>8
  <2> HIDE DEF t
  <2> QED
    BY <2>6, <2>7, <2>9, <2>10
<1> QED
  BY <1>0, <1>5, <1>6, <1>7
=============================================================================
