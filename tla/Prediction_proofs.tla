------------------------- MODULE Prediction_proofs -------------------------
(***************************************************************************)
(* For every league, fixture list, set of results and number of trials:    *)
(* the table is what the results say, the ranks are what the rules say,    *)
(* and a forecast adds up.                                                 *)
(***************************************************************************)
EXTENDS Prediction, FiniteSetTheorems, TLAPS

(***************************************************************************)
(* Sums, as the sizes of sets.                                             *)
(***************************************************************************)

\* A one-to-one correspondence keeps the size of a finite set.
LEMMA Counterparts ==
  ASSUME NEW S, NEW T, IsFiniteSet(S), NEW f \in [S -> T],
         \A x, y \in S : f[x] = f[y] => x = y,
         \A y \in T : \E x \in S : f[x] = y
  PROVE  IsFiniteSet(T) /\ Cardinality(T) = Cardinality(S)
<1>1. f \in Bijection(S, T)
  BY DEF Bijection, Injection, Surjection, IsInjective
<1> QED BY <1>1, FS_Bijection DEF ExistsBijection

LEMMA Unit ==
  ASSUME NEW S, NEW g \in [S -> Nat], NEW x, NEW k
  PROVE  <<x, k>> \in Units(g) <=> x \in S /\ k \in 1..g[x]
BY DEF Units

LEMMA UnitPair ==
  ASSUME NEW S, NEW g \in [S -> Nat], NEW u \in Units(g)
  PROVE  u = <<u[1], u[2]>> /\ u[1] \in S /\ u[2] \in 1..g[u[1]]
BY DEF Units

LEMMA UnitsFinite ==
  ASSUME NEW S, IsFiniteSet(S), NEW g \in [S -> Nat]
  PROVE  IsFiniteSet(Units(g)) /\ Total(g) \in Nat
<1> DEFINE column == [x \in S |-> {x} \X (1..g[x])]
           columns == {column[x] : x \in S}
<1>1. \A x \in S : IsFiniteSet(column[x])
  <2> SUFFICES ASSUME NEW x \in S PROVE IsFiniteSet({x} \X (1..g[x]))
    OBVIOUS
  <2>1. IsFiniteSet({x})
    BY FS_Singleton
  <2>2. 1 \in Int /\ g[x] \in Int
    OBVIOUS
  <2>3. IsFiniteSet(1..g[x])
    BY <2>2, FS_Interval
  <2> QED BY <2>1, <2>3, FS_Product
<1>2. column \in Surjection(S, columns)
  BY DEF Surjection
<1>3. IsFiniteSet(columns)
  <2> HIDE DEF column, columns
  <2> QED BY <1>2, FS_Surjection
<1>4. IsFiniteSet(UNION columns)
  <2>1. \A c \in columns : IsFiniteSet(c)
    BY <1>1
  <2> HIDE DEF columns
  <2> QED BY <1>3, <2>1, FS_UNION
<1>5. Units(g) = UNION columns
  BY DEF Units
<1> QED BY <1>4, <1>5, FS_CardinalityType DEF Total

\* A disjoint union: the sizes add up.
LEMMA Disjoint ==
  ASSUME NEW A, NEW B, IsFiniteSet(A), IsFiniteSet(B), A \cap B = {}
  PROVE  Cardinality(A \cup B) = Cardinality(A) + Cardinality(B)
<1>1. Cardinality(A) \in Nat /\ Cardinality(B) \in Nat
  BY FS_CardinalityType
<1>2. Cardinality(A \cap B) = 0
  BY FS_EmptySet
<1>3. Cardinality(A \cup B) = Cardinality(A) + Cardinality(B) - Cardinality(A \cap B)
  BY FS_Union
<1> QED BY <1>1, <1>2, <1>3

\* The units of one value.
LEMMA Column ==
  ASSUME NEW x, NEW k \in Nat
  PROVE  IsFiniteSet({x} \X (1..k)) /\ Cardinality({x} \X (1..k)) = k
<1>1. IsFiniteSet({x}) /\ Cardinality({x}) = 1
  BY FS_Singleton
<1>2. 1 \in Int /\ k \in Int
  OBVIOUS
<1>3. IsFiniteSet(1..k) /\ Cardinality(1..k) = k
  BY <1>2, FS_Interval
<1> DEFINE A == {x}
           B == 1..k
<1> HIDE DEF A, B
<1>4. IsFiniteSet(A \X B) /\ Cardinality(A \X B) = Cardinality(A) * Cardinality(B)
  BY <1>1, <1>3, FS_Product DEF A, B
<1> QED BY <1>1, <1>3, <1>4 DEF A, B

\* A sum of which only one term is not zero.
LEMMA TotalOfOne ==
  ASSUME NEW S, NEW g \in [S -> Nat], NEW x \in S, \A y \in S \ {x} : g[y] = 0
  PROVE  Total(g) = g[x]
<1>1. Units(g) = {x} \X (1..g[x])
  BY DEF Units
<1>2. Cardinality({x} \X (1..g[x])) = g[x]
  BY Column
<1> QED BY <1>1, <1>2 DEF Total

LEMMA TotalOfZeros ==
  ASSUME NEW S, NEW g \in [S -> Nat], \A y \in S : g[y] = 0
  PROVE  Total(g) = 0
<1>1. Units(g) = {}
  BY DEF Units
<1> QED BY <1>1, FS_EmptySet DEF Total

\* One more term.
LEMMA TotalGrows ==
  ASSUME NEW S, IsFiniteSet(S), NEW x, x \notin S, NEW g \in [S \cup {x} -> Nat]
  PROVE  Total(g) = Total([y \in S |-> g[y]]) + g[x]
<1> DEFINE h == [y \in S |-> g[y]]
           A == {x} \X (1..g[x])
<1>1. Units(g) = Units(h) \cup A
  BY DEF Units
<1>2. Units(h) \cap A = {}
  BY DEF Units
<1>3. IsFiniteSet(A) /\ Cardinality(A) = g[x]
  BY Column
<1>4. IsFiniteSet(Units(h))
  BY UnitsFinite
<1> QED
  <2> HIDE DEF A, h
  <2>1. Cardinality(Units(g)) = Cardinality(Units(h)) + g[x]
    BY <1>1, <1>2, <1>3, <1>4, Disjoint
  <2> QED BY <2>1 DEF Total, h

\* Two terms are no more than all.
LEMMA TwoTerms ==
  ASSUME NEW S, IsFiniteSet(S), NEW g \in [S -> Nat], NEW x \in S, NEW y \in S, x # y
  PROVE  g[x] + g[y] <= Total(g)
<1> DEFINE A == {x} \X (1..g[x])
           B == {y} \X (1..g[y])
<1>1. IsFiniteSet(A) /\ Cardinality(A) = g[x] /\ IsFiniteSet(B) /\ Cardinality(B) = g[y]
  BY Column
<1>2. A \cap B = {} /\ A \cup B \in SUBSET Units(g)
  BY DEF Units
<1>3. IsFiniteSet(Units(g))
  BY UnitsFinite
<1> HIDE DEF A, B
<1>4. Cardinality(A \cup B) = g[x] + g[y]
  BY <1>1, <1>2, Disjoint
<1> QED BY <1>2, <1>3, <1>4, FS_Subset DEF Total

\* Term by term.
LEMMA TotalPlus ==
  ASSUME NEW S, IsFiniteSet(S), NEW g \in [S -> Nat], NEW h \in [S -> Nat]
  PROVE  Total([x \in S |-> g[x] + h[x]]) = Total(g) + Total(h)
<1> DEFINE both == [x \in S |-> g[x] + h[x]]
           f == [u \in Units(h) |-> <<u[1], g[u[1]] + u[2]>>]
           upper == {f[u] : u \in Units(h)}
<1>1. IsFiniteSet(Units(g)) /\ IsFiniteSet(Units(h))
  BY UnitsFinite
<1>2. \A u, v \in Units(h) : f[u] = f[v] => u = v
  <2> SUFFICES ASSUME NEW u \in Units(h), NEW v \in Units(h),
                      <<u[1], g[u[1]] + u[2]>> = <<v[1], g[v[1]] + v[2]>>
               PROVE  u = v
    OBVIOUS
  <2>1. /\ u = <<u[1], u[2]>> /\ u[1] \in S /\ u[2] \in 1..h[u[1]]
        /\ v = <<v[1], v[2]>> /\ v[1] \in S /\ v[2] \in 1..h[v[1]]
    BY UnitPair
  <2>2. u[1] = v[1] /\ u[2] = v[2]
    BY <2>1
  <2> QED BY <2>1, <2>2
<1>3. IsFiniteSet(upper) /\ Cardinality(upper) = Cardinality(Units(h))
  <2>1. f \in [Units(h) -> upper] /\ \A y \in upper : \E u \in Units(h) : f[u] = y
    OBVIOUS
  <2> HIDE DEF f, upper
  <2> QED BY <1>1, <1>2, <2>1, Counterparts
<1>4. \A x, k : <<x, k>> \in upper <=> x \in S /\ k \in g[x] + 1..g[x] + h[x]
  <2>1. ASSUME NEW x \in S, NEW k \in g[x] + 1..g[x] + h[x]
        PROVE  <<x, k>> \in upper
    <3>1. <<x, k - g[x]>> \in Units(h)
      BY <2>1, Unit
    <3>2. f[<<x, k - g[x]>>] = <<x, k>>
      BY <2>1, <3>1
    <3> QED BY <3>1, <3>2
  <2>2. ASSUME NEW x, NEW k, <<x, k>> \in upper
        PROVE  x \in S /\ k \in g[x] + 1..g[x] + h[x]
    <3>1. PICK u \in Units(h) : <<x, k>> = <<u[1], g[u[1]] + u[2]>>
      BY <2>2
    <3> QED BY <3>1, UnitPair
  <2> QED BY <2>1, <2>2
<1>5. Units(both) = Units(g) \cup upper
  <2>1. \A u \in upper : u = <<u[1], u[2]>>
    OBVIOUS
  <2>2. both \in [S -> Nat] /\ \A x \in S : both[x] = g[x] + h[x]
    OBVIOUS
  <2> HIDE DEF upper, both
  <2>3. ASSUME NEW u \in Units(both) PROVE u \in Units(g) \cup upper
    <3>1. u = <<u[1], u[2]>> /\ u[1] \in S /\ u[2] \in 1..g[u[1]] + h[u[1]]
      BY <2>2, UnitPair
    <3>2. u[2] \in 1..g[u[1]] \/ u[2] \in g[u[1]] + 1..g[u[1]] + h[u[1]]
      BY <3>1
    <3>3. <<u[1], u[2]>> \in Units(g) \cup upper
      BY <1>4, <3>1, <3>2, Unit
    <3> QED BY <3>1, <3>3
  <2>4. ASSUME NEW u \in Units(g) PROVE u \in Units(both)
    <3>1. u = <<u[1], u[2]>> /\ u[1] \in S /\ u[2] \in 1..g[u[1]]
      BY UnitPair
    <3>2. u[2] \in 1..both[u[1]]
      BY <2>2, <3>1
    <3>3. <<u[1], u[2]>> \in Units(both)
      BY <2>2, <3>1, <3>2, Unit
    <3> QED BY <3>1, <3>3
  <2>5. ASSUME NEW u \in upper PROVE u \in Units(both)
    <3>1. u = <<u[1], u[2]>> /\ u[1] \in S /\ u[2] \in g[u[1]] + 1..g[u[1]] + h[u[1]]
      BY <1>4, <2>1
    <3>2. u[2] \in 1..both[u[1]]
      BY <2>2, <3>1
    <3>3. <<u[1], u[2]>> \in Units(both)
      BY <2>2, <3>1, <3>2, Unit
    <3> QED BY <3>1, <3>3
  <2> QED BY <2>3, <2>4, <2>5
<1>6. Units(g) \cap upper = {}
  <2> SUFFICES ASSUME NEW u \in Units(g), u \in upper PROVE FALSE
    OBVIOUS
  <2>1. u = <<u[1], u[2]>> /\ u[1] \in S /\ u[2] \in 1..g[u[1]]
    BY UnitPair
  <2> HIDE DEF upper
  <2>2. u[2] \in g[u[1]] + 1..g[u[1]] + h[u[1]]
    BY <1>4, <2>1
  <2> QED BY <2>1, <2>2
<1> HIDE DEF both, upper, f
<1>7. Cardinality(Units(both)) = Cardinality(Units(g)) + Cardinality(Units(h))
  BY <1>1, <1>3, <1>5, <1>6, Disjoint
<1> QED BY <1>7 DEF Total, both

\* In any order.
LEMMA TotalPermuted ==
  ASSUME NEW S, NEW T, IsFiniteSet(S), NEW f \in [S -> T], NEW g \in [T -> Nat],
         \A x, y \in S : f[x] = f[y] => x = y,
         \A y \in T : \E x \in S : f[x] = y
  PROVE  Total([x \in S |-> g[f[x]]]) = Total(g)
<1> DEFINE h == [x \in S |-> g[f[x]]]
           e == [u \in Units(h) |-> <<f[u[1]], u[2]>>]
<1>0. h \in [S -> Nat] /\ \A x \in S : h[x] = g[f[x]]
  OBVIOUS
<1> HIDE DEF h
<1>1. \A u \in Units(h) : e[u] \in Units(g)
  <2> SUFFICES ASSUME NEW u \in Units(h) PROVE <<f[u[1]], u[2]>> \in Units(g)
    OBVIOUS
  <2>1. u[1] \in S /\ u[2] \in 1..h[u[1]]
    BY <1>0, UnitPair
  <2>2. f[u[1]] \in T /\ u[2] \in 1..g[f[u[1]]]
    BY <1>0, <2>1
  <2> QED BY <2>2, Unit
<1>2. \A u, v \in Units(h) : e[u] = e[v] => u = v
  <2> SUFFICES ASSUME NEW u \in Units(h), NEW v \in Units(h),
                      <<f[u[1]], u[2]>> = <<f[v[1]], v[2]>>
               PROVE  u = v
    OBVIOUS
  <2>1. u = <<u[1], u[2]>> /\ u[1] \in S /\ v = <<v[1], v[2]>> /\ v[1] \in S
    BY <1>0, UnitPair
  <2>2. u[1] = v[1] /\ u[2] = v[2]
    BY <2>1
  <2> QED BY <2>1, <2>2
<1>3. \A v \in Units(g) : \E u \in Units(h) : e[u] = v
  <2> SUFFICES ASSUME NEW v \in Units(g) PROVE \E u \in Units(h) : e[u] = v
    OBVIOUS
  <2>1. v = <<v[1], v[2]>> /\ v[1] \in T /\ v[2] \in 1..g[v[1]]
    BY UnitPair
  <2>2. PICK x \in S : f[x] = v[1]
    BY <2>1
  <2>3. v[2] \in 1..h[x]
    BY <1>0, <2>1, <2>2
  <2>4. <<x, v[2]>> \in Units(h)
    BY <1>0, <2>2, <2>3, Unit
  <2>5. e[<<x, v[2]>>] = v
    BY <2>1, <2>2, <2>4
  <2> QED BY <2>4, <2>5
<1>4. e \in [Units(h) -> Units(g)]
  BY <1>1
<1>5. IsFiniteSet(Units(h))
  BY <1>0, UnitsFinite
<1> HIDE DEF e
<1>6. Cardinality(Units(g)) = Cardinality(Units(h))
  BY <1>2, <1>3, <1>4, <1>5, Counterparts
<1> QED BY <1>6 DEF Total, h

\* Little Gauss.
LEMMA SumOfRanks ==
  ASSUME NEW m \in Nat
  PROVE  2 * Total([r \in 1..m |-> r]) = m * (m + 1)
<1> DEFINE g == [r \in 1..m |-> r]
           grid == (1..m) \X (1..m + 1)
           rest == grid \ Units(g)
           f == [u \in Units(g) |-> <<m + 1 - u[1], m + 2 - u[2]>>]
<1>0. g \in [1..m -> Nat] /\ \A r \in 1..m : g[r] = r
  OBVIOUS
<1> HIDE DEF g
<1>1. \A r, k : <<r, k>> \in Units(g) <=> r \in 1..m /\ k \in 1..r
  <2> SUFFICES ASSUME NEW r, NEW k
               PROVE  <<r, k>> \in Units(g) <=> r \in 1..m /\ k \in 1..r
    OBVIOUS
  <2>1. <<r, k>> \in Units(g) <=> r \in 1..m /\ k \in 1..g[r]
    BY <1>0, Unit
  <2> QED BY <1>0, <2>1
<1>2. \A u \in Units(g) : u = <<u[1], u[2]>> /\ u[1] \in 1..m /\ u[2] \in 1..u[1]
  BY <1>0, UnitPair
<1>3. IsFiniteSet(grid) /\ Cardinality(grid) = m * (m + 1)
  <2>1. IsFiniteSet(1..m) /\ Cardinality(1..m) = m
    BY FS_Interval
  <2>2. IsFiniteSet(1..m + 1) /\ Cardinality(1..m + 1) = m + 1
    BY FS_Interval
  <2> DEFINE A == 1..m
             B == 1..m + 1
  <2> HIDE DEF A, B
  <2>3. IsFiniteSet(A \X B) /\ Cardinality(A \X B) = Cardinality(A) * Cardinality(B)
    BY <2>1, <2>2, FS_Product DEF A, B
  <2> QED BY <2>1, <2>2, <2>3 DEF A, B
<1>4. \A u \in grid : u = <<u[1], u[2]>> /\ u[1] \in 1..m /\ u[2] \in 1..m + 1
  OBVIOUS
<1>5. Units(g) \subseteq grid
  BY <1>2
<1>6. \A r \in 1..m, k \in 1..m + 1 : <<r, k>> \in rest <=> k \in r + 1..m + 1
  <2> SUFFICES ASSUME NEW r \in 1..m, NEW k \in 1..m + 1
               PROVE  <<r, k>> \in rest <=> k \in r + 1..m + 1
    OBVIOUS
  <2>1. <<r, k>> \in rest <=> k \notin 1..r
    BY <1>1
  <2> QED BY <2>1
<1>7. f \in [Units(g) -> rest]
  <2> SUFFICES ASSUME NEW u \in Units(g)
               PROVE  <<m + 1 - u[1], m + 2 - u[2]>> \in rest
    OBVIOUS
  <2>1. /\ m + 1 - u[1] \in 1..m /\ m + 2 - u[2] \in 1..m + 1
        /\ m + 2 - u[2] \in (m + 1 - u[1]) + 1..m + 1
    BY <1>2
  <2> HIDE DEF rest
  <2> QED BY <1>6, <2>1
<1>8. \A u, v \in Units(g) : f[u] = f[v] => u = v
  <2> SUFFICES ASSUME NEW u \in Units(g), NEW v \in Units(g),
                      m + 1 - u[1] = m + 1 - v[1], m + 2 - u[2] = m + 2 - v[2]
               PROVE  u = v
    OBVIOUS
  <2>1. u[1] = v[1] /\ u[2] = v[2]
    BY <1>2
  <2> QED BY <1>2, <2>1
<1>9. \A v \in rest : \E u \in Units(g) : f[u] = v
  <2> SUFFICES ASSUME NEW v \in rest PROVE \E u \in Units(g) : f[u] = v
    OBVIOUS
  <2>1. v = <<v[1], v[2]>> /\ v[1] \in 1..m /\ v[2] \in 1..m + 1
    BY <1>4
  <2>2. v[2] \in v[1] + 1..m + 1
    <3>1. <<v[1], v[2]>> \in rest
      BY <2>1
    <3> HIDE DEF rest
    <3> QED BY <1>6, <2>1, <3>1
  <2>3. m + 1 - v[1] \in 1..m /\ m + 2 - v[2] \in 1..m + 1 - v[1]
    BY <2>1, <2>2
  <2>4. <<m + 1 - v[1], m + 2 - v[2]>> \in Units(g)
    BY <1>1, <2>3
  <2>5. f[<<m + 1 - v[1], m + 2 - v[2]>>] = <<v[1], v[2]>>
    BY <2>1, <2>4
  <2> QED BY <2>1, <2>4, <2>5
<1>10. IsFiniteSet(Units(g)) /\ Total(g) \in Nat
  <2>1. IsFiniteSet(1..m)
    BY FS_Interval
  <2> QED BY <1>0, <2>1, UnitsFinite
<1>11. Units(g) \cap rest = {} /\ Units(g) \cup rest = grid
  BY <1>5
<1> HIDE DEF f, rest, grid
<1>12. IsFiniteSet(rest) /\ Cardinality(rest) = Cardinality(Units(g))
  BY <1>7, <1>8, <1>9, <1>10, Counterparts
<1>13. Cardinality(grid) = Cardinality(Units(g)) + Cardinality(Units(g))
  BY <1>10, <1>11, <1>12, Disjoint
<1> QED BY <1>3, <1>10, <1>13 DEF Total, g

(***************************************************************************)
(* The order of a sorted table.                                            *)
(***************************************************************************)

\* R leaves no two elements of S level.
Decides(R, S) ==
  /\ \A s \in S : <<s, s>> \notin R
  /\ \A s, t \in S : s # t => <<s, t>> \in R \/ <<t, s>> \in R

\* No place of p is taken by an element that belongs before an earlier one.
SortedBy(p, m, R) ==
  \A i, j \in 1..m : i < j => p[i] # p[j] /\ <<p[j], p[i]>> \notin R

Preceding(e, S, R) == {s \in S : <<s, e>> \in R}

\* An order that leaves no two elements level has one sorted sequence: each
\* element's place is one more than the number of elements before it.
LEMMA Place ==
  ASSUME NEW S, IsFiniteSet(S), NEW m \in Nat, Cardinality(S) = m,
         NEW R, Decides(R, S), NEW p \in [1..m -> S], SortedBy(p, m, R)
  PROVE  /\ \A i, j \in 1..m : p[i] = p[j] => i = j
         /\ \A s \in S : \E i \in 1..m : p[i] = s
         /\ \A i \in 1..m : i = 1 + Cardinality(Preceding(p[i], S, R))
<1>1. \A i, j \in 1..m : p[i] = p[j] => i = j
  <2> SUFFICES ASSUME NEW i \in 1..m, NEW j \in 1..m, p[i] = p[j] PROVE i = j
    OBVIOUS
  <2>1. ~(i < j) /\ ~(j < i)
    BY DEF SortedBy
  <2> QED BY <2>1
<1>2. IsFiniteSet(1..m) /\ Cardinality(1..m) = m
  BY FS_Interval
<1>3. \A s \in S : \E i \in 1..m : p[i] = s
  <2> DEFINE D == 1..m
  <2>1. p \in Injection(D, S)
    BY <1>1 DEF Injection, IsInjective
  <2> HIDE DEF D
  <2>2. p \in Surjection(D, S)
    BY <1>2, <2>1, FS_Injection DEF D
  <2> QED BY <2>2 DEF Surjection, D
<1>4. ASSUME NEW i \in 1..m
      PROVE  i = 1 + Cardinality(Preceding(p[i], S, R))
  <2> DEFINE before == {s \in S : <<s, p[i]>> \in R}
             low == 1..i - 1
             f == [j \in low |-> p[j]]
  <2>1. f \in [low -> before]
    <3> SUFFICES ASSUME NEW j \in low PROVE p[j] \in S /\ <<p[j], p[i]>> \in R
      OBVIOUS
    <3>1. j \in 1..m /\ j < i
      OBVIOUS
    <3> QED BY <3>1 DEF Decides, SortedBy
  <2>2. \A j, k \in low : f[j] = f[k] => j = k
    BY <1>1
  <2>3. \A s \in before : \E j \in low : f[j] = s
    <3> SUFFICES ASSUME NEW s \in S, <<s, p[i]>> \in R PROVE \E j \in low : f[j] = s
      OBVIOUS
    <3>1. PICK j \in 1..m : p[j] = s
      BY <1>3
    <3>2. j # i /\ ~(i < j)
      BY <3>1 DEF Decides, SortedBy
    <3>3. j \in low
      BY <3>2
    <3> QED BY <3>1, <3>3
  <2>4. IsFiniteSet(low) /\ Cardinality(low) = i - 1
    BY FS_Interval
  <2> HIDE DEF before, low, f
  <2>5. Cardinality(before) = i - 1
    BY <2>1, <2>2, <2>3, <2>4, Counterparts
  <2> QED BY <2>5 DEF before, Preceding
<1> QED BY <1>1, <1>3, <1>4

(***************************************************************************)
(* The league table.                                                       *)
(***************************************************************************)
RowType == [played: Nat, won: Nat, drawn: Nat, lost: Nat,
            gf: Nat, ga: Nat, gd: Int, points: Nat]

LostBy(t) == PlayedBy(t) \ (WonBy(t) \cup DrawnBy(t))

\* What the matches say of team t.
Row(t) ==
  [played |-> Cardinality(PlayedBy(t)),
   won    |-> Cardinality(WonBy(t)),
   drawn  |-> Cardinality(DrawnBy(t)),
   lost   |-> Cardinality(LostBy(t)),
   gf     |-> GoalsFor(t),
   ga     |-> GoalsAgainst(t),
   gd     |-> GoalsFor(t) - GoalsAgainst(t),
   points |-> Points(t)]

Looping ==
  /\ results \in [DOMAIN Fixtures -> [home: Goals, away: Goals] \cup {Null}]
  /\ next \in 0..Len(Fixtures) + 1

\* A table exists only after the last match, and is sorted.
TableInv ==
  /\ Looping
  /\ rows \in [Teams -> RowType]
  /\ RowsCountTheMatches
  /\ table # <<>> => next = Len(Fixtures) + 1 /\ table \in Sorted(rows)

LEMMA FixtureTypes ==
  /\ Len(Fixtures) \in Nat
  /\ DOMAIN Fixtures = 1..Len(Fixtures)
  /\ \A i \in 1..Len(Fixtures) :
       /\ Fixtures[i].home \in Teams /\ Fixtures[i].away \in Teams
       /\ Fixtures[i].home # Fixtures[i].away
<1>1. Fixtures \in Seq([home: Teams, away: Teams])
  BY StandingsAssumption
<1>2. Len(Fixtures) \in Nat /\ DOMAIN Fixtures = 1..Len(Fixtures)
  BY <1>1
<1>3. \A i \in 1..Len(Fixtures) : Fixtures[i] \in [home: Teams, away: Teams]
  <2> DEFINE T == [home: Teams, away: Teams]
  <2>1. Fixtures \in Seq(T)
    BY <1>1
  <2> HIDE DEF T
  <2>2. \A i \in 1..Len(Fixtures) : Fixtures[i] \in T
    BY <2>1
  <2> QED BY <2>2 DEF T
<1>4. \A i \in DOMAIN Fixtures : Fixtures[i].home # Fixtures[i].away
  BY StandingsAssumption
<1>5. \A i \in 1..Len(Fixtures) : Fixtures[i].home \in Teams /\ Fixtures[i].away \in Teams
  BY <1>3
<1> QED BY <1>2, <1>4, <1>5

\* A match counted for t has goals on both sides.
LEMMA CountedGoals ==
  ASSUME Looping, NEW t, NEW i \in PlayedBy(t)
  PROVE  /\ i \in DOMAIN Fixtures /\ i \in 1..next - 1
         /\ Scored(t, i) \in Nat /\ Conceded(t, i) \in Nat
<1>1. i \in 1..next - 1 /\ results[i] # Null
  BY DEF PlayedBy
<1>2. i \in DOMAIN Fixtures
  BY <1>1, FixtureTypes DEF Looping
<1>3. results[i] \in [home: Goals, away: Goals]
  BY <1>1, <1>2 DEF Looping
<1>4. results[i].home \in Nat /\ results[i].away \in Nat
  BY <1>3, StandingsAssumption
<1> QED BY <1>1, <1>2, <1>4 DEF Scored, Conceded

LEMMA RowTypes ==
  ASSUME Looping, NEW t
  PROVE  /\ IsFiniteSet(PlayedBy(t)) /\ IsFiniteSet(WonBy(t))
         /\ IsFiniteSet(DrawnBy(t)) /\ IsFiniteSet(LostBy(t))
         /\ Row(t) \in RowType
<1>1. IsFiniteSet(PlayedBy(t))
  <2>1. next - 1 \in Int
    BY FixtureTypes DEF Looping
  <2>2. IsFiniteSet(1..next - 1)
    BY <2>1, FS_Interval
  <2> QED BY <2>2, FS_Subset DEF PlayedBy
<1>2. WonBy(t) \subseteq PlayedBy(t) /\ DrawnBy(t) \subseteq PlayedBy(t)
      /\ LostBy(t) \subseteq PlayedBy(t)
  BY DEF WonBy, DrawnBy, LostBy
<1>3. IsFiniteSet(WonBy(t)) /\ IsFiniteSet(DrawnBy(t)) /\ IsFiniteSet(LostBy(t))
  BY <1>1, <1>2, FS_Subset
<1>4. GoalsFor(t) \in Nat
  <2>1. [i \in PlayedBy(t) |-> Scored(t, i)] \in [PlayedBy(t) -> Nat]
    BY CountedGoals
  <2> QED BY <1>1, <2>1, UnitsFinite DEF GoalsFor
<1>5. GoalsAgainst(t) \in Nat
  <2>1. [i \in PlayedBy(t) |-> Conceded(t, i)] \in [PlayedBy(t) -> Nat]
    BY CountedGoals
  <2> QED BY <1>1, <2>1, UnitsFinite DEF GoalsAgainst
<1>6. /\ Cardinality(PlayedBy(t)) \in Nat /\ Cardinality(WonBy(t)) \in Nat
      /\ Cardinality(DrawnBy(t)) \in Nat /\ Cardinality(LostBy(t)) \in Nat
  BY <1>1, <1>3, FS_CardinalityType
<1>7. Points(t) \in Nat
  BY <1>6 DEF Points
<1> QED BY <1>1, <1>3, <1>4, <1>5, <1>6, <1>7 DEF Row, RowType

\* Nothing is counted before the loop.
LEMMA NothingCounted ==
  ASSUME next \in {0, 1}, NEW t
  PROVE  Row(t) = EmptyRow
<1>1. PlayedBy(t) = {}
  BY DEF PlayedBy
<1>2. WonBy(t) = {} /\ DrawnBy(t) = {} /\ LostBy(t) = {}
  BY <1>1 DEF WonBy, DrawnBy, LostBy
<1>3. GoalsFor(t) = 0 /\ GoalsAgainst(t) = 0
  <2>1. /\ [i \in PlayedBy(t) |-> Scored(t, i)] \in [PlayedBy(t) -> Nat]
        /\ [i \in PlayedBy(t) |-> Conceded(t, i)] \in [PlayedBy(t) -> Nat]
    BY <1>1
  <2> QED BY <1>1, <2>1, TotalOfZeros DEF GoalsFor, GoalsAgainst
<1> QED BY <1>1, <1>2, <1>3, FS_EmptySet DEF Row, EmptyRow, Points

\* A match that is not PLAYED, or not one of t's, changes nothing for t.
LEMMA NotCounted ==
  ASSUME Looping, next \in DOMAIN Fixtures, next' = next + 1, results' = results, NEW t,
         results[next] = Null \/ t \notin {Fixtures[next].home, Fixtures[next].away}
  PROVE  Row(t)' = Row(t)
<1>1. PlayedBy(t)' = PlayedBy(t)
  <2>1. next \in Nat
    BY FixtureTypes DEF Looping
  <2>2. 1..next' - 1 = (1..next - 1) \cup {next} \/ next = 0
    BY <2>1
  <2>3. next # 0
    BY FixtureTypes
  <2> QED BY <2>2, <2>3 DEF PlayedBy
<1>2. /\ WonBy(t)' = WonBy(t) /\ DrawnBy(t)' = DrawnBy(t)
      /\ GoalsFor(t)' = GoalsFor(t) /\ GoalsAgainst(t)' = GoalsAgainst(t)
  BY <1>1 DEF WonBy, DrawnBy, GoalsFor, GoalsAgainst, Scored, Conceded, Total, Units
<1> QED BY <1>1, <1>2 DEF Row, LostBy, Points

\* A played match of t adds one to its count, with its goals and its points.
LEMMA Counted ==
  ASSUME Looping, next \in DOMAIN Fixtures, next' = next + 1, results' = results, NEW t,
         results[next] # Null, t \in {Fixtures[next].home, Fixtures[next].away}
  PROVE  Row(t)' = ApplyResult(Row(t), Scored(t, next), Conceded(t, next))
<1> DEFINE a == Scored(t, next)
           b == Conceded(t, next)
<1>1. next \in Nat /\ next \in 1..Len(Fixtures)
  BY FixtureTypes DEF Looping
<1>2. 1..next' - 1 = (1..next - 1) \cup {next} /\ next \notin 1..next - 1
  BY <1>1
<1>3. /\ PlayedBy(t)' = PlayedBy(t) \cup {next}
      /\ next \notin PlayedBy(t) /\ next \notin WonBy(t)
      /\ next \notin DrawnBy(t) /\ next \notin LostBy(t)
  BY <1>2 DEF PlayedBy, WonBy, DrawnBy, LostBy
<1>4. a \in Nat /\ b \in Nat
  <2>1. results[next] \in [home: Goals, away: Goals]
    BY DEF Looping
  <2>2. results[next].home \in Nat /\ results[next].away \in Nat
    BY <2>1, StandingsAssumption
  <2> QED BY <2>2 DEF Scored, Conceded
<1>5. \A i : Scored(t, i)' = Scored(t, i) /\ Conceded(t, i)' = Conceded(t, i)
  BY DEF Scored, Conceded
<1>6. /\ WonBy(t)'   = IF a > b THEN WonBy(t) \cup {next} ELSE WonBy(t)
      /\ DrawnBy(t)' = IF a = b THEN DrawnBy(t) \cup {next} ELSE DrawnBy(t)
  BY <1>3, <1>5 DEF WonBy, DrawnBy
<1>7. LostBy(t)' = IF a < b THEN LostBy(t) \cup {next} ELSE LostBy(t)
  <2> HIDE DEF a, b
  <2>1. CASE a > b
    BY <1>3, <1>4, <1>6, <2>1 DEF LostBy
  <2>2. CASE a = b
    BY <1>3, <1>4, <1>6, <2>2 DEF LostBy
  <2>3. CASE a < b
    BY <1>3, <1>4, <1>6, <2>3 DEF LostBy
  <2> QED BY <1>4, <2>1, <2>2, <2>3
<1>8. /\ IsFiniteSet(PlayedBy(t)) /\ IsFiniteSet(WonBy(t))
      /\ IsFiniteSet(DrawnBy(t)) /\ IsFiniteSet(LostBy(t)) /\ Row(t) \in RowType
  BY RowTypes
<1>9. /\ Cardinality(PlayedBy(t) \cup {next}) = Cardinality(PlayedBy(t)) + 1
      /\ Cardinality(WonBy(t) \cup {next})    = Cardinality(WonBy(t)) + 1
      /\ Cardinality(DrawnBy(t) \cup {next})  = Cardinality(DrawnBy(t)) + 1
      /\ Cardinality(LostBy(t) \cup {next})   = Cardinality(LostBy(t)) + 1
  BY <1>3, <1>8, FS_AddElement
<1>10. GoalsFor(t)' = GoalsFor(t) + a
  <2> DEFINE S == PlayedBy(t)
             g == [i \in S \cup {next} |-> Scored(t, i)]
  <2>1. g \in [S \cup {next} -> Nat] /\ g[next] = a
    BY <1>4, CountedGoals
  <2>2. [i \in S |-> g[i]] = [i \in S |-> Scored(t, i)]
    OBVIOUS
  <2>3. GoalsFor(t)' = Total(g)
    BY <1>3, <1>5 DEF GoalsFor, Total, Units
  <2>4. Total(g) = Total([i \in S |-> g[i]]) + g[next]
    <3> HIDE DEF S, g
    <3> QED BY <1>3, <1>8, <2>1, TotalGrows DEF S
  <2> QED BY <2>1, <2>2, <2>3, <2>4 DEF GoalsFor
<1>11. GoalsAgainst(t)' = GoalsAgainst(t) + b
  <2> DEFINE S == PlayedBy(t)
             g == [i \in S \cup {next} |-> Conceded(t, i)]
  <2>1. g \in [S \cup {next} -> Nat] /\ g[next] = b
    BY <1>4, CountedGoals
  <2>2. [i \in S |-> g[i]] = [i \in S |-> Conceded(t, i)]
    OBVIOUS
  <2>3. GoalsAgainst(t)' = Total(g)
    BY <1>3, <1>5 DEF GoalsAgainst, Total, Units
  <2>4. Total(g) = Total([i \in S |-> g[i]]) + g[next]
    <3> HIDE DEF S, g
    <3> QED BY <1>3, <1>8, <2>1, TotalGrows DEF S
  <2> QED BY <2>1, <2>2, <2>3, <2>4 DEF GoalsAgainst
<1> QED
  <2>1. /\ GoalsFor(t) \in Nat /\ GoalsAgainst(t) \in Nat
        /\ Cardinality(PlayedBy(t)) \in Nat /\ Cardinality(WonBy(t)) \in Nat
        /\ Cardinality(DrawnBy(t)) \in Nat /\ Cardinality(LostBy(t)) \in Nat
    BY <1>8 DEF Row, RowType
  <2> HIDE DEF a, b
  <2>2. Cardinality(PlayedBy(t))' = Cardinality(PlayedBy(t)) + 1
    BY <1>3, <1>9
  <2>3. Cardinality(WonBy(t))' = Cardinality(WonBy(t)) + (IF a > b THEN 1 ELSE 0)
    BY <1>6, <1>9, <2>1
  <2>4. Cardinality(DrawnBy(t))' = Cardinality(DrawnBy(t)) + (IF a = b THEN 1 ELSE 0)
    BY <1>6, <1>9, <2>1
  <2>5. Cardinality(LostBy(t))' = Cardinality(LostBy(t)) + (IF a < b THEN 1 ELSE 0)
    BY <1>7, <1>9, <2>1
  <2>6. Points(t)' = Points(t) + (IF a > b THEN 3 ELSE IF a = b THEN 1 ELSE 0)
    BY <1>4, <2>1, <2>3, <2>4 DEF Points
  <2>7. (GoalsFor(t) - GoalsAgainst(t))' = GoalsFor(t) + a - (GoalsAgainst(t) + b)
    BY <1>4, <1>10, <1>11, <2>1
  <2>8. Row(t)' = [played |-> Cardinality(PlayedBy(t)) + 1,
                   won    |-> Cardinality(WonBy(t)) + (IF a > b THEN 1 ELSE 0),
                   drawn  |-> Cardinality(DrawnBy(t)) + (IF a = b THEN 1 ELSE 0),
                   lost   |-> Cardinality(LostBy(t)) + (IF a < b THEN 1 ELSE 0),
                   gf     |-> GoalsFor(t) + a,
                   ga     |-> GoalsAgainst(t) + b,
                   gd     |-> GoalsFor(t) + a - (GoalsAgainst(t) + b),
                   points |-> Points(t) + (IF a > b THEN 3 ELSE IF a = b THEN 1 ELSE 0)]
    BY <1>10, <1>11, <2>2, <2>3, <2>4, <2>5, <2>6, <2>7 DEF Row
  <2>9. Row(t)' = ApplyResult(Row(t), a, b)
    BY <2>8 DEF Row, ApplyResult
  <2> QED BY <2>9 DEF a, b

LEMMA CountKeeps ==
  ASSUME TableInv, Count
  PROVE  TableInv'
<1> DEFINE f == Fixtures[next]
           g == results[next]
<1>1. /\ next \in DOMAIN Fixtures /\ next' = next + 1
      /\ results' = results /\ table' = table
      /\ rows' = IF g = Null THEN rows
                 ELSE [rows EXCEPT ![f.home] = ApplyResult(rows[f.home], g.home, g.away),
                                   ![f.away] = ApplyResult(rows[f.away], g.away, g.home)]
  BY DEF Count
<1>2. Looping /\ rows \in [Teams -> RowType] /\ \A t \in Teams : rows[t] = Row(t)
  BY DEF TableInv, RowsCountTheMatches, Row, LostBy
<1>3. f.home \in Teams /\ f.away \in Teams /\ f.home # f.away /\ next \in 1..Len(Fixtures)
  BY <1>1, FixtureTypes
<1>4. Looping'
  BY <1>1, <1>2, <1>3, FixtureTypes DEF Looping
<1>5. rows' = [t \in Teams |-> rows'[t]]
  BY <1>1, <1>2
<1>6. ASSUME NEW t \in Teams PROVE rows'[t] = Row(t)'
  <2>1. CASE g = Null
    BY <1>1, <1>2, <2>1, NotCounted
  <2>2. CASE g # Null /\ t # f.home /\ t # f.away
    <3>1. Row(t)' = Row(t)
      BY <1>1, <1>2, <2>2, NotCounted
    <3> QED BY <1>1, <1>2, <2>2, <3>1
  <2>3. CASE g # Null /\ (t = f.home \/ t = f.away)
    <3>1. Row(t)' = ApplyResult(Row(t), Scored(t, next), Conceded(t, next))
      BY <1>1, <1>2, <2>3, Counted
    <3>2. rows'[t] = ApplyResult(rows[t], Scored(t, next), Conceded(t, next))
      <4>1. CASE t = f.home
        <5>1. Scored(t, next) = g.home /\ Conceded(t, next) = g.away
          BY <4>1 DEF Scored, Conceded
        <5>2. rows'[t] = ApplyResult(rows[f.home], g.home, g.away)
          BY <1>1, <1>2, <1>3, <2>3, <4>1
        <5> QED BY <4>1, <5>1, <5>2
      <4>2. CASE t = f.away
        <5>1. Scored(t, next) = g.away /\ Conceded(t, next) = g.home
          BY <1>3, <4>2 DEF Scored, Conceded
        <5>2. rows'[t] = ApplyResult(rows[f.away], g.away, g.home)
          BY <1>1, <1>2, <1>3, <2>3, <4>2
        <5> QED BY <4>2, <5>1, <5>2
      <4> QED BY <2>3, <4>1, <4>2
    <3> QED BY <1>2, <3>1, <3>2
  <2> QED BY <2>1, <2>2, <2>3
<1>7. \A t \in Teams : rows'[t] \in RowType
  <2>1. CASE g = Null
    BY <1>1, <1>2, <2>1
  <2>2. CASE g # Null
    <3>1. g \in [home: Goals, away: Goals]
      BY <1>1, <1>2, <2>2 DEF Looping
    <3>2. g.home \in Nat /\ g.away \in Nat
      BY <3>1, StandingsAssumption
    <3>3. \A row \in RowType, a, b \in Nat : ApplyResult(row, a, b) \in RowType
      BY DEF ApplyResult, RowType
    <3>4. /\ ApplyResult(rows[f.home], g.home, g.away) \in RowType
          /\ ApplyResult(rows[f.away], g.away, g.home) \in RowType
      BY <1>2, <1>3, <3>2, <3>3
    <3> QED BY <1>1, <1>2, <1>3, <2>2, <3>4
  <2> QED BY <2>1, <2>2
<1>8. table' = <<>>
  BY <1>1, <1>3, FixtureTypes DEF TableInv
<1>9. rows' \in [Teams -> RowType]
  BY <1>5, <1>7
<1>10. RowsCountTheMatches'
  BY <1>6 DEF RowsCountTheMatches, Row, LostBy
<1> QED BY <1>4, <1>8, <1>9, <1>10 DEF TableInv

\* Nothing looked at, nothing counted.
Blank == Looping /\ next \in {0, 1} /\ rows = [t \in Teams |-> EmptyRow] /\ table = <<>>

LEMMA BlankTable == Blank => TableInv
<1> SUFFICES ASSUME Blank PROVE TableInv
  OBVIOUS
<1> USE DEF Blank
<1>1. \A t \in Teams : rows[t] = Row(t)
  BY NothingCounted
<1>2. EmptyRow \in RowType
  BY DEF EmptyRow, RowType
<1>3. rows \in [Teams -> RowType]
  BY <1>2
<1>4. RowsCountTheMatches
  BY <1>1 DEF RowsCountTheMatches, Row, LostBy
<1> QED BY <1>3, <1>4 DEF TableInv

\* The rows to come depend on the results and on how many are counted.
LEMMA SameRows ==
  ASSUME UNCHANGED <<results, next>>, NEW t
  PROVE  Row(t)' = Row(t)
<1>1. PlayedBy(t)' = PlayedBy(t)
  BY DEF PlayedBy
<1>2. /\ WonBy(t)' = WonBy(t) /\ DrawnBy(t)' = DrawnBy(t)
      /\ GoalsFor(t)' = GoalsFor(t) /\ GoalsAgainst(t)' = GoalsAgainst(t)
  BY <1>1 DEF WonBy, DrawnBy, GoalsFor, GoalsAgainst, Scored, Conceded, Total, Units
<1> QED BY <1>1, <1>2 DEF Row, LostBy, Points

LEMMA RowsStay ==
  ASSUME TableInv, UNCHANGED <<results, next, rows>>
  PROVE  Looping' /\ (rows \in [Teams -> RowType])' /\ RowsCountTheMatches'
<1>1. \A t \in Teams : rows'[t] = Row(t)'
  <2> SUFFICES ASSUME NEW t \in Teams PROVE rows'[t] = Row(t)'
    OBVIOUS
  <2>1. Row(t)' = Row(t)
    BY SameRows
  <2> QED BY <2>1 DEF TableInv, RowsCountTheMatches, Row, LostBy
<1>2. RowsCountTheMatches'
  BY <1>1 DEF RowsCountTheMatches, Row, LostBy
<1> QED BY <1>2 DEF TableInv, Looping

LEMMA TableStays ==
  ASSUME TableInv, UNCHANGED vars
  PROVE  TableInv'
<1>1. Sorted(rows)' = Sorted(rows)
  BY DEF vars, Sorted, Before
<1> QED BY <1>1, RowsStay DEF TableInv, vars

LEMMA RankKeeps ==
  ASSUME TableInv, Rank
  PROVE  TableInv'
<1>1. /\ next = Len(Fixtures) + 1 /\ table' \in Sorted(rows)
      /\ results' = results /\ next' = next /\ rows' = rows
  BY DEF Rank
<1>2. Sorted(rows)' = Sorted(rows)
  BY <1>1 DEF Sorted, Before
<1> QED BY <1>1, <1>2, RowsStay DEF TableInv

\* What a finished table is: every team has one place, and it is the one the
\* rules give it.
LEMMA FinishedTable ==
  ASSUME TableInv, table # <<>>
  PROVE  /\ n \in Nat
         /\ table \in [1..n -> Teams]
         /\ \A i, j \in 1..n : table[i] = table[j] => i = j
         /\ \A t \in Teams : \E i \in 1..n : table[i] = t
         /\ \A i \in 1..n :
              i = 1 + Cardinality({t \in Teams : Before(t, table[i], rows)})
<1> DEFINE R == {e \in Teams \X Teams : Before(e[1], e[2], rows)}
<1>1. IsFiniteSet(Teams) /\ n \in Nat
  BY StandingsAssumption, FS_CardinalityType DEF n
<1>2. /\ table \in [1..n -> Teams]
      /\ \A i, j \in 1..n : i < j => table[i] # table[j] /\ ~Before(table[j], table[i], rows)
  <2>1. table \in Sorted(rows)
    BY DEF TableInv
  <2> QED BY <2>1 DEF Sorted, n
<1>3. \A s, t \in Teams : <<s, t>> \in R <=> Before(s, t, rows)
  OBVIOUS
<1>4. \A t \in Teams : /\ t \in Nat /\ rows[t].points \in Nat
                       /\ rows[t].gd \in Int /\ rows[t].gf \in Nat
  BY StandingsAssumption DEF TableInv, RowType
<1>5. \A s \in Teams : ~Before(s, s, rows)
  BY <1>4 DEF Before
<1>6. \A s, t \in Teams : s # t => Before(s, t, rows) \/ Before(t, s, rows)
  BY <1>4 DEF Before
<1> HIDE DEF R
<1>7. Decides(R, Teams) /\ SortedBy(table, n, R)
  BY <1>2, <1>3, <1>5, <1>6 DEF Decides, SortedBy
<1>8. /\ \A i, j \in 1..n : table[i] = table[j] => i = j
      /\ \A s \in Teams : \E i \in 1..n : table[i] = s
      /\ \A i \in 1..n : i = 1 + Cardinality(Preceding(table[i], Teams, R))
  <2>1. Cardinality(Teams) = n
    BY DEF n
  <2> QED BY <1>1, <1>2, <1>7, <2>1, Place
<1>9. ASSUME NEW i \in 1..n
      PROVE  i = 1 + Cardinality({t \in Teams : Before(t, table[i], rows)})
  <2>1. Preceding(table[i], Teams, R) = {t \in Teams : Before(t, table[i], rows)}
    BY <1>2, <1>3 DEF Preceding
  <2> QED BY <1>8, <2>1
<1> QED BY <1>1, <1>2, <1>8, <1>9

LEMMA TableIsRanked ==
  ASSUME TableInv
  PROVE  OrderedByTheRules
<1> SUFFICES ASSUME table # <<>> PROVE OrderedByTheRules
  BY DEF OrderedByTheRules
<1>1. /\ n \in Nat /\ table \in [1..n -> Teams]
      /\ \A i \in 1..n : i = 1 + Cardinality({t \in Teams : Before(t, table[i], rows)})
  BY FinishedTable
<1>2. \A t \in Teams :
        /\ t \in Nat /\ Points(t) \in Nat /\ GoalsFor(t) \in Nat /\ GoalsAgainst(t) \in Nat
        /\ rows[t].points = Points(t) /\ rows[t].gf = GoalsFor(t)
        /\ rows[t].gd = GoalsFor(t) - GoalsAgainst(t)
  <2> SUFFICES ASSUME NEW t \in Teams
               PROVE  /\ t \in Nat /\ Points(t) \in Nat
                      /\ GoalsFor(t) \in Nat /\ GoalsAgainst(t) \in Nat
                      /\ rows[t].points = Points(t) /\ rows[t].gf = GoalsFor(t)
                      /\ rows[t].gd = GoalsFor(t) - GoalsAgainst(t)
    OBVIOUS
  <2>1. rows[t] = Row(t) /\ Looping
    BY DEF TableInv, RowsCountTheMatches, Row, LostBy
  <2>2. Row(t) \in RowType
    BY <2>1, RowTypes
  <2> QED BY <2>1, <2>2, StandingsAssumption DEF Row, RowType
<1>3. \A s, t \in Teams :
        Before(s, t, rows) <=> Above(s, t) \/ (~Above(t, s) /\ s < t)
  <2> SUFFICES ASSUME NEW s \in Teams, NEW t \in Teams
               PROVE  Before(s, t, rows) <=> Above(s, t) \/ (~Above(t, s) /\ s < t)
    OBVIOUS
  <2> QED BY <1>2 DEF Before, Above
<1>4. ASSUME NEW i \in 1..n
      PROVE  i = 1 + Cardinality({t \in Teams : \/ Above(t, table[i])
                                                \/ ~Above(table[i], t) /\ t < table[i]})
  <2>1. table[i] \in Teams
    BY <1>1
  <2>2. {t \in Teams : \/ Above(t, table[i])
                       \/ ~Above(table[i], t) /\ t < table[i]}
          = {t \in Teams : Before(t, table[i], rows)}
    BY <1>3, <2>1
  <2> QED BY <1>1, <2>2
<1> QED BY <1>1, <1>4 DEF OrderedByTheRules

\* The calculator on its own: whatever the order of the map and of the sort,
\* every row is what the matches say, and every team's rank what the rules say
\* (calculator.go Calculate).
THEOREM TablesFollowFromResults == Spec => [](RowsCountTheMatches /\ OrderedByTheRules)
<1>1. Init => TableInv
  <2> SUFFICES ASSUME Init PROVE TableInv
    OBVIOUS
  <2>1. Looping /\ next \in {0, 1}
    BY FixtureTypes DEF Init, Looping
  <2> QED BY <2>1, BlankTable DEF Init, Blank
<1>2. TableInv /\ [Next]_vars => TableInv'
  <2> SUFFICES ASSUME TableInv, [Next]_vars PROVE TableInv'
    OBVIOUS
  <2>1. CASE UNCHANGED vars
    BY <2>1, TableStays
  <2>2. CASE Count
    BY <2>2, CountKeeps
  <2>3. CASE Rank
    BY <2>3, RankKeeps
  <2>4. CASE Calculated
    BY <2>1, <2>4 DEF Calculated
  <2> QED BY <2>1, <2>2, <2>3, <2>4 DEF Next
<1>3. TableInv => RowsCountTheMatches /\ OrderedByTheRules
  BY TableIsRanked DEF TableInv
<1> QED BY <1>1, <1>2, <1>3, PTL DEF Spec

(***************************************************************************)
(* The trials.                                                             *)
(***************************************************************************)

\* The weighted sum of team t's ranks.
Weight(t) == Total([r \in 1..n |-> r * rankCounts[t][r]])

\* A trial keeps what is played, and no trial is under way after the last.
Trials ==
  /\ played \in [DOMAIN Fixtures -> [home: Goals, away: Goals] \cup {Null}]
  /\ \A i \in DOMAIN Fixtures : played[i] # Null => results[i] = played[i]
  /\ next = 0 => rows = NoRows /\ table = <<>>
  /\ forecast /\ next > 0 => trial < simulations

\* In every trial a team has one rank, the first rank has one team, and the
\* ranks of all teams add up to those of a table.
Tallied ==
  /\ \A t \in Teams : Total(rankCounts[t]) = trial
  /\ n > 0 => Total([t \in Teams |-> rankCounts[t][1]]) = trial
  /\ 2 * Total([t \in Teams |-> Weight(t)]) = trial * (n * (n + 1))

\* No trial so far went against what the played matches have settled.
Titles ==
  \A s \in Teams :
    /\ (\E t \in Teams \ {s} : CannotCatch(s, t)) => rankCounts[s][1] = 0
    /\ (\A t \in Teams \ {s} : CannotCatch(t, s)) => rankCounts[s][1] = trial

\* The answer is computed from the counts of all trials, and sorted.
Answer ==
  predictions # <<>> =>
    /\ forecast /\ trial = simulations
    /\ predictions \in [1..n -> {Prediction(t) : t \in Teams}]
    /\ \A i, j \in 1..n :
         i < j => predictions[i] # predictions[j] /\ ~Ahead(predictions[j], predictions[i])

PInv == TableInv /\ PredictionTypeOK /\ Trials /\ Tallied /\ Titles /\ Answer

LEMMA Numbers ==
  /\ IsFiniteSet(Teams) /\ Teams \subseteq Nat
  /\ n \in Nat /\ Cardinality(Teams) = n
  /\ IsFiniteSet(1..n) /\ n * (n + 1) \in Nat
  /\ Len(Fixtures) \in Nat
<1>1. IsFiniteSet(Teams) /\ n \in Nat /\ Cardinality(Teams) = n
  BY StandingsAssumption, FS_CardinalityType DEF n
<1>2. IsFiniteSet(1..n)
  BY <1>1, FS_Interval
<1> QED BY <1>1, <1>2, FixtureTypes, StandingsAssumption

LEMMA RankCounts ==
  ASSUME PredictionTypeOK
  PROVE  /\ trial \in Nat /\ simulations \in Nat
         /\ \A t \in Teams : rankCounts[t] \in [1..n -> Nat]
         /\ \A t \in Teams, r \in 1..n : rankCounts[t][r] \in 0..trial
         /\ \A t \in Teams : [r \in 1..n |-> r * rankCounts[t][r]] \in [1..n -> Nat]
         /\ \A t \in Teams : Weight(t) \in Nat
<1>1. trial \in Nat /\ simulations \in Nat
  BY PredictionAssumption DEF PredictionTypeOK
<1>2. \A t \in Teams : rankCounts[t] \in [1..n -> 0..trial]
  BY DEF PredictionTypeOK
<1>3. \A t \in Teams, r \in 1..n : rankCounts[t][r] \in 0..trial
  BY <1>2
<1>4. \A t \in Teams : rankCounts[t] \in [1..n -> Nat]
  BY <1>1, <1>2, <1>3
<1>5. \A t \in Teams : [r \in 1..n |-> r * rankCounts[t][r]] \in [1..n -> Nat]
  <2> SUFFICES ASSUME NEW t \in Teams, NEW r \in 1..n PROVE r * rankCounts[t][r] \in Nat
    OBVIOUS
  <2>1. r \in Nat /\ rankCounts[t][r] \in Nat
    BY <1>1, <1>3, Numbers
  <2> QED BY <2>1
<1>6. \A t \in Teams : Weight(t) \in Nat
  BY <1>5, Numbers, UnitsFinite DEF Weight
<1> QED BY <1>1, <1>3, <1>4, <1>5, <1>6

\* A trial's table adds up like the one of before: what Tally does to the sums.
LEMMA TallyAddsUp ==
  ASSUME TableInv, PredictionTypeOK, Tallied, Tally
  PROVE  Tallied'
<1>1. /\ n \in Nat /\ table \in [1..n -> Teams]
      /\ \A i, j \in 1..n : table[i] = table[j] => i = j
      /\ \A t \in Teams : \E i \in 1..n : table[i] = t
  BY FinishedTable DEF Tally
<1>2. /\ trial' = trial + 1
      /\ rankCounts' = [t \in Teams |-> [r \in 1..n |->
                          rankCounts[t][r] + (IF table[r] = t THEN 1 ELSE 0)]]
  BY DEF Tally
<1> DEFINE rank == [t \in Teams |-> CHOOSE i \in 1..n : table[i] = t]
<1>3. /\ rank \in [Teams -> 1..n]
      /\ \A t \in Teams, r \in 1..n : table[r] = t <=> r = rank[t]
  <2>1. \A t \in Teams : rank[t] \in 1..n /\ table[rank[t]] = t
    BY <1>1
  <2>2. rank \in [Teams -> 1..n]
    BY <2>1
  <2> HIDE DEF rank
  <2> QED BY <1>1, <2>1, <2>2
<1> HIDE DEF rank
<1>4. \A t \in Teams :
        rankCounts'[t] = [r \in 1..n |->
                            rankCounts[t][r] + (IF r = rank[t] THEN 1 ELSE 0)]
  <2> SUFFICES ASSUME NEW t \in Teams
               PROVE  rankCounts'[t] = [r \in 1..n |->
                            rankCounts[t][r] + (IF r = rank[t] THEN 1 ELSE 0)]
    OBVIOUS
  <2>1. \A r \in 1..n : (IF table[r] = t THEN 1 ELSE 0) = (IF r = rank[t] THEN 1 ELSE 0)
    BY <1>3
  <2> QED BY <1>2, <2>1
<1>5. \A t \in Teams, r \in 1..n :
       rankCounts'[t][r] = rankCounts[t][r] + (IF r = rank[t] THEN 1 ELSE 0)
  <2>1. \A t \in Teams, r \in 1..n :
          rankCounts'[t][r] = rankCounts[t][r] + (IF table[r] = t THEN 1 ELSE 0)
    BY <1>2
  <2> QED BY <1>3, <2>1
<1>6. ASSUME NEW t \in Teams PROVE Total(rankCounts'[t]) = trial'
  <2> DEFINE c == rankCounts[t]
             d == [r \in 1..n |-> IF r = rank[t] THEN 1 ELSE 0]
  <2>1. c \in [1..n -> Nat] /\ Total(c) = trial
    BY RankCounts DEF Tallied
  <2>2. d \in [1..n -> Nat] /\ \A r \in 1..n : d[r] = IF r = rank[t] THEN 1 ELSE 0
    OBVIOUS
  <2>3. rankCounts'[t] = [r \in 1..n |-> c[r] + d[r]]
    BY <1>4
  <2> HIDE DEF c, d
  <2>4. Total(d) = 1
    <3>1. rank[t] \in 1..n
      BY <1>3
    <3>2. d[rank[t]] = 1 /\ \A r \in (1..n) \ {rank[t]} : d[r] = 0
      BY <2>2, <3>1
    <3> QED BY <2>2, <3>1, <3>2, TotalOfOne
  <2>5. Total([r \in 1..n |-> c[r] + d[r]]) = Total(c) + Total(d)
    BY <2>1, <2>2, Numbers, TotalPlus
  <2> QED BY <1>2, <2>1, <2>3, <2>4, <2>5
<1>7. ASSUME n > 0 PROVE Total([t \in Teams |-> rankCounts'[t][1]]) = trial'
  <2> DEFINE c == [t \in Teams |-> rankCounts[t][1]]
             d == [t \in Teams |-> IF 1 = rank[t] THEN 1 ELSE 0]
  <2>0. 1 \in 1..n
    BY <1>1, <1>7
  <2>1. c \in [Teams -> Nat] /\ Total(c) = trial
    <3>1. \A t \in Teams : rankCounts[t][1] \in Nat
      BY <2>0, RankCounts
    <3> QED BY <1>7, <3>1 DEF Tallied
  <2>2. d \in [Teams -> Nat] /\ \A t \in Teams : d[t] = IF 1 = rank[t] THEN 1 ELSE 0
    OBVIOUS
  <2>3. [t \in Teams |-> rankCounts'[t][1]] = [t \in Teams |-> c[t] + d[t]]
    BY <1>5, <2>0
  <2> HIDE DEF c, d
  <2>4. Total(d) = 1
    <3>1. table[1] \in Teams
      BY <1>1, <2>0
    <3>2. d[table[1]] = 1 /\ \A t \in Teams \ {table[1]} : d[t] = 0
      BY <1>3, <2>0, <2>2, <3>1
    <3> QED BY <2>2, <3>1, <3>2, TotalOfOne
  <2>5. Total([t \in Teams |-> c[t] + d[t]]) = Total(c) + Total(d)
    BY <2>1, <2>2, Numbers, TotalPlus
  <2> QED BY <1>2, <2>1, <2>3, <2>4, <2>5
<1>8. ASSUME NEW t \in Teams PROVE Weight(t)' = Weight(t) + rank[t]
  <2> DEFINE c == [r \in 1..n |-> r * rankCounts[t][r]]
             d == [r \in 1..n |-> IF r = rank[t] THEN r ELSE 0]
  <2>1. c \in [1..n -> Nat] /\ Total(c) = Weight(t)
    BY RankCounts DEF Weight
  <2>2. d \in [1..n -> Nat] /\ \A r \in 1..n : d[r] = IF r = rank[t] THEN r ELSE 0
    OBVIOUS
  <2>3. \A r \in 1..n : r * rankCounts'[t][r] = c[r] + d[r]
    <3> SUFFICES ASSUME NEW r \in 1..n
                 PROVE  r * rankCounts'[t][r]
                          = r * rankCounts[t][r] + (IF r = rank[t] THEN r ELSE 0)
      OBVIOUS
    <3>1. r \in Nat /\ rankCounts[t][r] \in Nat
      BY <1>1, RankCounts
    <3>2. rankCounts'[t][r] = rankCounts[t][r] + (IF r = rank[t] THEN 1 ELSE 0)
      BY <1>5
    <3>3. \A k, j \in Nat : k * (j + 1) = k * j + k /\ k * (j + 0) = k * j + 0
      OBVIOUS
    <3> QED BY <3>1, <3>2, <3>3
  <2>4. [r \in 1..n |-> r * rankCounts'[t][r]] = [r \in 1..n |-> c[r] + d[r]]
    BY <2>3
  <2>5. Weight(t)' = Total([r \in 1..n |-> c[r] + d[r]])
    BY <2>4 DEF Weight, Total, Units
  <2> HIDE DEF c, d
  <2>6. Total(d) = rank[t]
    <3>1. rank[t] \in 1..n
      BY <1>3
    <3>2. d[rank[t]] = rank[t] /\ \A r \in (1..n) \ {rank[t]} : d[r] = 0
      BY <2>2, <3>1
    <3> QED BY <2>2, <3>1, <3>2, TotalOfOne
  <2>7. Total([r \in 1..n |-> c[r] + d[r]]) = Total(c) + Total(d)
    BY <2>1, <2>2, Numbers, TotalPlus
  <2> QED BY <2>1, <2>5, <2>6, <2>7
<1>9. Total(rank) \in Nat /\ 2 * Total(rank) = n * (n + 1)
  <2>1. rank \in [Teams -> Nat]
    BY <1>3
  <2>2. Total([r \in 1..n |-> rank[table[r]]]) = Total(rank)
    <3> DEFINE D == 1..n
    <3>1. /\ IsFiniteSet(D) /\ table \in [D -> Teams]
          /\ \A i, j \in D : table[i] = table[j] => i = j
          /\ \A t \in Teams : \E i \in D : table[i] = t
      BY <1>1, Numbers
    <3> HIDE DEF D
    <3>2. Total([r \in D |-> rank[table[r]]]) = Total(rank)
      BY <2>1, <3>1, TotalPermuted
    <3> QED BY <3>2 DEF D
  <2>3. [r \in 1..n |-> rank[table[r]]] = [r \in 1..n |-> r]
    BY <1>1, <1>3
  <2> QED BY <1>1, <2>1, <2>2, <2>3, Numbers, SumOfRanks, UnitsFinite
<1>10. 2 * Total([t \in Teams |-> Weight(t)'])  = trial' * (n * (n + 1))
  <2> DEFINE c == [t \in Teams |-> Weight(t)]
             N == n * (n + 1)
  <2>1. c \in [Teams -> Nat] /\ 2 * Total(c) = trial * N
    BY RankCounts DEF Tallied
  <2>2. [t \in Teams |-> Weight(t)'] = [t \in Teams |-> c[t] + rank[t]]
    BY <1>8
  <2> HIDE DEF c
  <2>3. rank \in [Teams -> Nat]
    BY <1>3
  <2>4. Total([t \in Teams |-> c[t] + rank[t]]) = Total(c) + Total(rank)
    BY <2>1, <2>3, Numbers, TotalPlus
  <2>5. Total(c) \in Nat
    BY <2>1, Numbers, UnitsFinite
  <2>6. N \in Nat /\ trial \in Nat
    BY Numbers, RankCounts
  <2>7. 2 * Total(rank) = N
    BY <1>9
  <2> HIDE DEF N
  <2>8. (trial + 1) * N = trial * N + N
    BY <2>6
  <2>9. 2 * (Total(c) + Total(rank)) = trial * N + N
    <3>1. trial * N \in Nat
      BY <2>6
    <3>2. PICK z \in Nat : z = trial * N
      BY <3>1
    <3>3. 2 * Total(c) = z /\ Total(rank) \in Nat
      BY <1>9, <2>1, <3>2
    <3>4. 2 * (Total(c) + Total(rank)) = z + N
      BY <2>5, <2>6, <2>7, <3>3
    <3> QED BY <3>2, <3>4
  <2>10. 2 * Total([t \in Teams |-> Weight(t)']) = trial' * N
    BY <1>2, <2>2, <2>4, <2>8, <2>9
  <2> QED BY <2>10 DEF N
<1>11. Total([t \in Teams |-> rankCounts[t][1]])' = Total([t \in Teams |-> rankCounts'[t][1]])
  BY DEF Total, Units
<1>12. \A t \in Teams : Total(rankCounts[t])' = Total(rankCounts'[t])
  BY DEF Total, Units
<1>13. Total([t \in Teams |-> Weight(t)])' = Total([t \in Teams |-> Weight(t)'])
  BY DEF Total, Units
<1> QED BY <1>6, <1>7, <1>10, <1>11, <1>12, <1>13 DEF Tallied

\* What the played matches decide of the points of a complete table: a team
\* keeps the points it has, and gets at most three more a match.
LEMMA PointsWithin ==
  ASSUME TableInv, Trials, next = Len(Fixtures) + 1, NEW t
  PROVE  /\ Points(t) \in Nat /\ PlayedPoints(t) \in Nat /\ Left(t) \in Nat
         /\ PlayedPoints(t) <= Points(t)
         /\ Points(t) <= PlayedPoints(t) + 3 * Left(t)
<1> DEFINE W == WonBy(t) \ PlayedWins(t)
           D == DrawnBy(t) \ PlayedDraws(t)
<1>1. Looping /\ 1..next - 1 = DOMAIN Fixtures
  BY FixtureTypes DEF TableInv
<1>2. /\ IsFiniteSet(WonBy(t)) /\ IsFiniteSet(DrawnBy(t))
  BY <1>1, RowTypes
<1>3. \A i \in PlayedMatches(t) :
        /\ i \in PlayedBy(t) /\ results[i] = played[i]
        /\ played[i].home \in Nat /\ played[i].away \in Nat
  <2> SUFFICES ASSUME NEW i \in PlayedMatches(t)
               PROVE  /\ i \in PlayedBy(t) /\ results[i] = played[i]
                      /\ played[i].home \in Nat /\ played[i].away \in Nat
    OBVIOUS
  <2>1. /\ i \in DOMAIN Fixtures /\ played[i] # Null
        /\ t \in {Fixtures[i].home, Fixtures[i].away}
    BY DEF PlayedMatches
  <2>2. results[i] = played[i]
    BY <2>1 DEF Trials
  <2>3. played[i] \in [home: Goals, away: Goals]
    BY <2>1 DEF Trials
  <2>4. played[i].home \in Nat /\ played[i].away \in Nat
    BY <2>3, StandingsAssumption
  <2> QED BY <1>1, <2>1, <2>2, <2>4 DEF PlayedBy
<1>4. PlayedDraws(t) \subseteq DrawnBy(t)
  BY <1>3 DEF PlayedDraws, DrawnBy, Scored, Conceded
<1>5. PlayedWins(t) \subseteq WonBy(t)
  <2> SUFFICES ASSUME NEW i \in PlayedWins(t) PROVE i \in WonBy(t)
    OBVIOUS
  <2>1. /\ i \in PlayedMatches(t) /\ played[i].home # played[i].away
        /\ (Fixtures[i].home = t) = (played[i].home > played[i].away)
    BY DEF PlayedWins, PlayedDraws
  <2> QED BY <1>3, <2>1 DEF WonBy, Scored, Conceded
<1>6. W \subseteq Unplayed(t) /\ D \subseteq Unplayed(t)
  <2>1. ASSUME NEW i \in PlayedBy(t), i \notin Unplayed(t)
        PROVE  i \in PlayedMatches(t)
    BY <1>1, <2>1 DEF PlayedBy, Unplayed, PlayedMatches
  <2>2. ASSUME NEW i \in WonBy(t), i \in PlayedMatches(t) PROVE i \in PlayedWins(t)
    <3>1. Scored(t, i) > Conceded(t, i)
      BY DEF WonBy
    <3>2. (Fixtures[i].home = t) = (played[i].home > played[i].away)
      <4>1. CASE Fixtures[i].home = t
        BY <1>3, <2>2, <3>1, <4>1 DEF Scored, Conceded
      <4>2. CASE Fixtures[i].home # t
        BY <1>3, <2>2, <3>1, <4>2 DEF Scored, Conceded
      <4> QED BY <4>1, <4>2
    <3>3. played[i].home # played[i].away
      BY <1>3, <2>2, <3>1 DEF Scored, Conceded
    <3> QED BY <2>2, <3>2, <3>3 DEF PlayedWins, PlayedDraws
  <2>3. ASSUME NEW i \in DrawnBy(t), i \in PlayedMatches(t) PROVE i \in PlayedDraws(t)
    <3>1. Scored(t, i) = Conceded(t, i)
      BY DEF DrawnBy
    <3> QED BY <1>3, <2>3, <3>1 DEF Scored, Conceded, PlayedDraws
  <2>4. WonBy(t) \subseteq PlayedBy(t) /\ DrawnBy(t) \subseteq PlayedBy(t)
    BY DEF WonBy, DrawnBy
  <2> QED BY <2>1, <2>2, <2>3, <2>4
<1>7. W \cap D = {} /\ W \cup D \subseteq Unplayed(t)
  <2>1. \A i \in PlayedBy(t) : Scored(t, i) \in Nat /\ Conceded(t, i) \in Nat
    BY <1>1, CountedGoals
  <2>2. WonBy(t) \cap DrawnBy(t) = {}
    BY <2>1 DEF WonBy, DrawnBy
  <2> QED BY <1>6, <2>2
<1>8. /\ IsFiniteSet(W) /\ IsFiniteSet(D)
      /\ IsFiniteSet(PlayedWins(t)) /\ IsFiniteSet(PlayedDraws(t))
  BY <1>2, <1>4, <1>5, FS_Subset, FS_Difference
<1>9. IsFiniteSet(Unplayed(t))
  <2>1. IsFiniteSet(DOMAIN Fixtures)
    BY FixtureTypes, FS_Interval
  <2> QED BY <2>1, FS_Subset DEF Unplayed
<1>10. WonBy(t) = PlayedWins(t) \cup W /\ PlayedWins(t) \cap W = {}
  BY <1>5
<1>11. DrawnBy(t) = PlayedDraws(t) \cup D /\ PlayedDraws(t) \cap D = {}
  BY <1>4
<1> HIDE DEF W, D
<1>12. Cardinality(WonBy(t)) = Cardinality(PlayedWins(t)) + Cardinality(W)
  BY <1>8, <1>10, Disjoint
<1>13. Cardinality(DrawnBy(t)) = Cardinality(PlayedDraws(t)) + Cardinality(D)
  BY <1>8, <1>11, Disjoint
<1>14. Cardinality(W) + Cardinality(D) <= Left(t)
  <2>1. Cardinality(W \cup D) = Cardinality(W) + Cardinality(D)
    BY <1>7, <1>8, Disjoint
  <2>2. Cardinality(W \cup D) <= Cardinality(Unplayed(t))
    BY <1>7, <1>9, FS_Subset
  <2> QED BY <2>1, <2>2 DEF Left
<1>15. /\ Cardinality(W) \in Nat /\ Cardinality(D) \in Nat /\ Left(t) \in Nat
       /\ Cardinality(PlayedWins(t)) \in Nat /\ Cardinality(PlayedDraws(t)) \in Nat
  BY <1>8, <1>9, FS_CardinalityType DEF Left
<1> QED BY <1>12, <1>13, <1>14, <1>15 DEF Points, PlayedPoints

\* A team that cannot catch another is not first.
LEMMA NotFirst ==
  ASSUME TableInv, Trials, table # <<>>,
         NEW s \in Teams, NEW t \in Teams, CannotCatch(s, t)
  PROVE  table[1] # s
<1>1. next = Len(Fixtures) + 1 /\ table \in Sorted(rows)
  BY DEF TableInv
<1>2. Points(s) < Points(t)
  <2>1. /\ Points(s) \in Nat /\ PlayedPoints(s) \in Nat /\ Left(s) \in Nat
        /\ Points(s) <= PlayedPoints(s) + 3 * Left(s)
    BY <1>1, PointsWithin
  <2>2. /\ Points(t) \in Nat /\ PlayedPoints(t) \in Nat
        /\ PlayedPoints(t) <= Points(t)
    BY <1>1, PointsWithin
  <2> QED BY <2>1, <2>2 DEF CannotCatch
<1>3. rows[s].points = Points(s) /\ rows[t].points = Points(t)
  <2>1. rows[s] = Row(s) /\ rows[t] = Row(t)
    BY DEF TableInv, RowsCountTheMatches, Row, LostBy
  <2> QED BY <2>1 DEF Row
<1>4. Before(t, s, rows)
  <2>1. Points(s) \in Nat /\ Points(t) \in Nat
    BY <1>1, PointsWithin
  <2> QED BY <1>2, <1>3, <2>1 DEF Before
<1>5. /\ n \in Nat /\ \E j \in 1..n : table[j] = t
  BY FinishedTable
<1>6. PICK j \in 1..n : table[j] = t
  BY <1>5
<1>7. t # s
  <2>1. Points(s) \in Nat
    BY <1>1, PointsWithin
  <2> QED BY <1>2, <2>1
<1>8. ASSUME table[1] = s PROVE FALSE
  <2>1. j # 1 /\ 1 \in 1..n /\ 1 < j
    BY <1>5, <1>6, <1>7, <1>8
  <2>2. ~Before(table[j], table[1], rows)
    BY <1>1, <2>1 DEF Sorted, n
  <2> QED BY <1>4, <1>6, <1>8, <2>2
<1> QED BY <1>8

LEMMA TallyKeepsTitles ==
  ASSUME TableInv, PredictionTypeOK, Trials, Titles, Tally
  PROVE  Titles'
<1>1. /\ played' = played /\ trial' = trial + 1 /\ table # <<>>
      /\ rankCounts' = [t \in Teams |-> [r \in 1..n |->
                          rankCounts[t][r] + (IF table[r] = t THEN 1 ELSE 0)]]
  BY DEF Tally
<1>2. \A s, t : CannotCatch(s, t)' <=> CannotCatch(s, t)
  BY <1>1 DEF CannotCatch, PlayedPoints, PlayedWins, PlayedDraws, PlayedMatches, Left, Unplayed
<1>3. n \in Nat /\ table \in [1..n -> Teams] /\ \A t \in Teams : \E i \in 1..n : table[i] = t
  BY <1>1, FinishedTable
<1>4. ASSUME NEW s \in Teams
      PROVE  /\ 1 \in 1..n /\ table[1] \in Teams
             /\ rankCounts[s][1] \in Nat /\ trial \in Nat
             /\ rankCounts'[s][1] = rankCounts[s][1] + (IF table[1] = s THEN 1 ELSE 0)
  <2>1. 1 \in 1..n
    BY <1>3
  <2> QED BY <1>1, <1>3, <2>1, RankCounts
<1>5. ASSUME NEW s \in Teams, NEW t \in Teams \ {s}, CannotCatch(s, t)
      PROVE  rankCounts'[s][1] = 0
  <2>1. table[1] # s /\ rankCounts[s][1] = 0
    BY <1>1, <1>5, NotFirst DEF Titles
  <2> QED BY <1>4, <2>1
<1>6. ASSUME NEW s \in Teams, \A t \in Teams \ {s} : CannotCatch(t, s)
      PROVE  rankCounts'[s][1] = trial'
  <2>1. \A t \in Teams \ {s} : table[1] # t
    BY <1>1, <1>6, NotFirst
  <2>2. table[1] = s /\ rankCounts[s][1] = trial
    BY <1>4, <1>6, <2>1 DEF Titles
  <2> QED BY <1>1, <1>4, <2>2
<1> QED BY <1>2, <1>5, <1>6 DEF Titles

(***************************************************************************)
(* The steps of a forecast.                                                *)
(***************************************************************************)
LEMMA PredictionStarts ==
  ASSUME PredictionInit
  PROVE  PInv
<1>1. PICK w \in Played : \E g \in [1..w -> PlayedGoals] :
        played = [i \in DOMAIN Fixtures |-> IF i <= w THEN g[i] ELSE Null]
  BY DEF PredictionInit
<1>2. PICK g \in [1..w -> PlayedGoals] :
        played = [i \in DOMAIN Fixtures |-> IF i <= w THEN g[i] ELSE Null]
  BY <1>1
<1>3. \A i \in DOMAIN Fixtures : played[i] \in [home: Goals, away: Goals] \cup {Null}
  <2> SUFFICES ASSUME NEW i \in DOMAIN Fixtures
               PROVE  played[i] \in [home: Goals, away: Goals] \cup {Null}
    OBVIOUS
  <2>1. CASE i <= w
    <3>1. i \in 1..w
      BY <2>1, FixtureTypes, PredictionAssumption
    <3>2. g[i] \in PlayedGoals
      BY <3>1
    <3> QED BY <1>2, <2>1, <3>2, PredictionAssumption
  <2>2. CASE ~(i <= w)
    BY <1>2, <2>2
  <2> QED BY <2>1, <2>2
<1>4. played \in [DOMAIN Fixtures -> [home: Goals, away: Goals] \cup {Null}]
  BY <1>2, <1>3
<1>5. /\ results = played /\ next \in {0, 1} /\ next = (IF forecast THEN 0 ELSE 1)
      /\ rows = NoRows /\ table = <<>> /\ trial = 0 /\ predictions = <<>>
      /\ rankCounts = [t \in Teams |-> [r \in 1..n |-> 0]]
  BY DEF PredictionInit
<1>6. Blank
  BY <1>4, <1>5, FixtureTypes DEF Blank, Looping, NoRows
<1>7. TableInv
  BY <1>6, BlankTable
<1>8. simulations \in 1..MaxSimulations
  <2>1. PICK k \in Asked : simulations = ClampSimulations(k)
    BY DEF PredictionInit
  <2>2. k \in Int /\ MaxSimulations \in Nat /\ DefaultSimulations \in 1..MaxSimulations
    BY PredictionAssumption
  <2> QED BY <2>1, <2>2 DEF ClampSimulations
<1>9. PredictionTypeOK
  BY <1>5, <1>8, Numbers DEF PredictionTypeOK
<1>10. Trials
  BY <1>4, <1>5 DEF Trials
<1>11. Tallied
  <2>1. \A t \in Teams, r \in 1..n : rankCounts[t][r] = 0
    BY <1>5
  <2>2. ASSUME NEW t \in Teams PROVE Total(rankCounts[t]) = 0
    <3>1. rankCounts[t] \in [1..n -> Nat] /\ \A r \in 1..n : rankCounts[t][r] = 0
      BY <1>9, <2>1, RankCounts
    <3> QED BY <3>1, TotalOfZeros
  <2>3. ASSUME n > 0 PROVE Total([t \in Teams |-> rankCounts[t][1]]) = 0
    <3>1. \A t \in Teams : rankCounts[t][1] = 0
      BY <2>1, <2>3, Numbers
    <3> QED BY <3>1, TotalOfZeros
  <2>4. \A t \in Teams : Weight(t) = 0
    <3> SUFFICES ASSUME NEW t \in Teams PROVE Weight(t) = 0
      OBVIOUS
    <3>1. \A r \in 1..n : r * rankCounts[t][r] = 0
      BY <2>1, Numbers
    <3> DEFINE c == [r \in 1..n |-> r * rankCounts[t][r]]
    <3>2. c \in [1..n -> Nat] /\ \A r \in 1..n : c[r] = 0
      BY <3>1
    <3> HIDE DEF c
    <3>3. Total(c) = 0
      BY <3>2, TotalOfZeros
    <3> QED BY <3>3 DEF Weight, c
  <2>5. Total([t \in Teams |-> Weight(t)]) = 0
    BY <2>4, TotalOfZeros
  <2>6. trial * (n * (n + 1)) = 0
    BY <1>5, Numbers
  <2>7. 2 * Total([t \in Teams |-> Weight(t)]) = trial * (n * (n + 1))
    BY <2>5, <2>6
  <2> QED BY <1>5, <2>2, <2>3, <2>7 DEF Tallied
<1>12. Titles
  <2>1. ASSUME NEW s \in Teams PROVE rankCounts[s][1] = 0
    <3>1. n # 0
      BY Numbers, FS_EmptySet
    <3> QED BY <1>5, <3>1, Numbers
  <2> QED BY <1>5, <2>1 DEF Titles
<1>13. Answer
  BY <1>5 DEF Answer
<1> QED BY <1>7, <1>9, <1>10, <1>11, <1>12, <1>13 DEF PInv

\* Steps that leave the counts alone.
LEMMA CountsStay ==
  ASSUME PredictionTypeOK, Tallied, Titles,
         UNCHANGED <<played, forecast, simulations, trial, rankCounts>>
  PROVE  PredictionTypeOK' /\ Tallied' /\ Titles'
<1>1. PredictionTypeOK'
  BY DEF PredictionTypeOK
<1>2. Tallied'
  BY DEF Tallied, Weight, Total, Units
<1>3. \A s, t : CannotCatch(s, t)' <=> CannotCatch(s, t)
  BY DEF CannotCatch, PlayedPoints, PlayedWins, PlayedDraws, PlayedMatches, Left, Unplayed
<1> QED BY <1>1, <1>2, <1>3 DEF Titles

LEMMA AnswerStays ==
  ASSUME Answer, UNCHANGED <<forecast, simulations, trial, rankCounts, predictions>>
  PROVE  Answer'
<1>1. \A t \in Teams : Prediction(t)' = Prediction(t)
  BY DEF Prediction, Total, Units
<1> QED BY <1>1 DEF Answer, Ahead

LEMMA SimulateKeeps ==
  ASSUME PInv, Simulate
  PROVE  PInv'
<1>1. /\ trial < simulations /\ next = 0 /\ next' = 1
      /\ rows' = rows /\ table' = table
      /\ UNCHANGED <<played, forecast, simulations, trial, rankCounts, predictions>>
      /\ results' \in [DOMAIN Fixtures -> SimulatedGoals \cup PlayedGoals]
      /\ \A i \in DOMAIN Fixtures : played[i] # Null => results'[i] = played[i]
  BY DEF Simulate, predictionVars
<1>2. rows = NoRows /\ table = <<>>
  BY <1>1 DEF PInv, Trials
<1>3. results' \in [DOMAIN Fixtures -> [home: Goals, away: Goals] \cup {Null}]
  BY <1>1, PredictionAssumption
<1>4. Blank'
  BY <1>1, <1>2, <1>3, FixtureTypes DEF Blank, Looping, NoRows
<1>5. TableInv'
  BY <1>4, BlankTable, PTL
<1>6. PredictionTypeOK' /\ Tallied' /\ Titles'
  BY <1>1, CountsStay DEF PInv
<1>7. Answer'
  BY <1>1, AnswerStays DEF PInv
<1>8. Trials'
  BY <1>1 DEF PInv, Trials
<1> QED BY <1>5, <1>6, <1>7, <1>8 DEF PInv

LEMMA CalculateKeeps ==
  ASSUME PInv, CalculateTable
  PROVE  PInv'
<1>1. /\ next > 0 /\ results' = results
      /\ UNCHANGED <<played, forecast, simulations, trial, rankCounts, predictions>>
      /\ Count \/ Rank
  BY DEF CalculateTable, predictionVars, Count, Rank
<1>2. TableInv'
  BY <1>1, CountKeeps, RankKeeps DEF PInv
<1>3. PredictionTypeOK' /\ Tallied' /\ Titles'
  BY <1>1, CountsStay DEF PInv
<1>4. Answer'
  BY <1>1, AnswerStays DEF PInv
<1>5. Trials'
  <2>1. next' > 0 /\ next \in Int
    BY <1>1, FixtureTypes DEF PInv, TableInv, Looping, Count, Rank
  <2> QED BY <1>1, <2>1 DEF PInv, Trials
<1> QED BY <1>2, <1>3, <1>4, <1>5 DEF PInv

LEMMA TallyKeeps ==
  ASSUME PInv, Tally
  PROVE  PInv'
<1>1. /\ forecast /\ table # <<>> /\ trial' = trial + 1
      /\ results' = played /\ next' = 0 /\ rows' = NoRows /\ table' = <<>>
      /\ UNCHANGED <<played, forecast, simulations, predictions>>
      /\ rankCounts' = [t \in Teams |-> [r \in 1..n |->
                          rankCounts[t][r] + (IF table[r] = t THEN 1 ELSE 0)]]
  BY DEF Tally
<1>2. trial < simulations
  <2>1. next > 0
    BY <1>1, FixtureTypes DEF PInv, TableInv
  <2> QED BY <1>1, <2>1 DEF PInv, Trials
<1>3. Blank'
  BY <1>1, FixtureTypes DEF Blank, Looping, NoRows, PInv, Trials
<1>4. TableInv'
  BY <1>3, BlankTable, PTL
<1>5. PredictionTypeOK'
  <2>1. \A t \in Teams, r \in 1..n :
          rankCounts[t][r] + (IF table[r] = t THEN 1 ELSE 0) \in 0..trial + 1
    BY RankCounts DEF PInv
  <2>2. rankCounts' \in [Teams -> [1..n -> 0..trial']]
    BY <1>1, <2>1
  <2>3. trial' \in 0..simulations'
    BY <1>1, <1>2, RankCounts DEF PInv, PredictionTypeOK
  <2> QED BY <1>1, <2>2, <2>3 DEF PInv, PredictionTypeOK
<1>6. Tallied' /\ Titles'
  BY TallyAddsUp, TallyKeepsTitles DEF PInv
<1>7. Trials'
  BY <1>1 DEF PInv, Trials
<1>8. Answer'
  BY <1>1, <1>2, RankCounts DEF PInv, Answer
<1> QED BY <1>4, <1>5, <1>6, <1>7, <1>8 DEF PInv

LEMMA AggregateKeeps ==
  ASSUME PInv, Aggregate
  PROVE  PInv'
<1>1. /\ forecast /\ trial = simulations
      /\ UNCHANGED vars /\ UNCHANGED <<played, forecast, simulations, trial, rankCounts>>
      /\ predictions' \in [1..n -> {Prediction(t) : t \in Teams}]
      /\ \A i, j \in 1..n : i < j =>
           predictions'[i] # predictions'[j] /\ ~Ahead(predictions'[j], predictions'[i])
  BY DEF Aggregate
<1>2. TableInv' /\ Trials'
  BY <1>1, TableStays DEF PInv, Trials, vars
<1>3. PredictionTypeOK' /\ Tallied' /\ Titles'
  BY <1>1, CountsStay DEF PInv
<1>4. \A t \in Teams : Prediction(t)' = Prediction(t)
  BY <1>1 DEF Prediction, Total, Units
<1>5. Answer'
  BY <1>1, <1>4 DEF Answer, Ahead
<1> QED BY <1>2, <1>3, <1>5 DEF PInv

LEMMA PredictionInvariance == PredictionSpec => []PInv
<1>1. PredictionInit => PInv
  BY PredictionStarts
<1>2. PInv /\ [PredictionNext]_<<vars, predictionVars>> => PInv'
  <2> SUFFICES ASSUME PInv, [PredictionNext]_<<vars, predictionVars>> PROVE PInv'
    OBVIOUS
  <2>1. CASE UNCHANGED <<vars, predictionVars>>
    <3>1. TableInv' /\ Trials'
      BY <2>1, TableStays DEF PInv, Trials, vars, predictionVars
    <3>2. PredictionTypeOK' /\ Tallied' /\ Titles'
      BY <2>1, CountsStay DEF PInv, predictionVars
    <3>3. Answer'
      BY <2>1, AnswerStays DEF PInv, predictionVars
    <3> QED BY <3>1, <3>2, <3>3 DEF PInv
  <2>2. CASE Simulate
    BY <2>2, SimulateKeeps
  <2>3. CASE CalculateTable
    BY <2>3, CalculateKeeps
  <2>4. CASE Tally
    BY <2>4, TallyKeeps
  <2>5. CASE Aggregate
    BY <2>5, AggregateKeeps
  <2>6. CASE Predicted
    BY <2>1, <2>6 DEF Predicted
  <2> QED BY <2>1, <2>2, <2>3, <2>4, <2>5, <2>6 DEF PredictionNext
<1> QED BY <1>1, <1>2, PTL DEF PredictionSpec

(***************************************************************************)
(* The answer.                                                             *)
(***************************************************************************)

Answered == predictions # <<>>

\* An answer names every team once, at the place that its counts give it.
LEMMA FinishedAnswer ==
  ASSUME PInv, Answered
  PROVE  /\ n \in Nat /\ n > 0 /\ trial = simulations
         /\ \A i \in 1..n : /\ predictions[i].team \in Teams
                            /\ predictions[i] = Prediction(predictions[i].team)
         /\ \A i, j \in 1..n : predictions[i].team = predictions[j].team => i = j
         /\ \A t \in Teams : \E i \in 1..n : predictions[i].team = t
         /\ \A i \in 1..n :
              i = 1 + Cardinality({t \in Teams : Ahead(Prediction(t), predictions[i])})
<1> DEFINE S == {Prediction(t) : t \in Teams}
           R == {e \in S \X S : Ahead(e[1], e[2])}
           f == [t \in Teams |-> Prediction(t)]
<1>1. /\ trial = simulations
      /\ predictions \in [1..n -> S]
      /\ \A i, j \in 1..n :
           i < j => predictions[i] # predictions[j] /\ ~Ahead(predictions[j], predictions[i])
  BY DEF PInv, Answer, Answered
<1>2. \A t \in Teams : Prediction(t).team = t
  BY DEF Prediction
<1>3. n > 0
  <2>1. n # 0
    BY <1>1 DEF Answered
  <2> QED BY <2>1, Numbers
<1>4. \A t \in Teams : t \in Nat /\ Prediction(t).chance \in Nat /\ Prediction(t).sum \in Nat
  <2> SUFFICES ASSUME NEW t \in Teams
               PROVE  t \in Nat /\ Prediction(t).chance \in Nat /\ Prediction(t).sum \in Nat
    OBVIOUS
  <2>1. 1 \in 1..n
    BY <1>3, Numbers
  <2>2. rankCounts[t][1] \in Nat /\ Weight(t) \in Nat
    BY <2>1, RankCounts DEF PInv
  <2> QED BY <2>2, Numbers DEF Prediction, Weight
<1>5. Decides(R, S)
  <2>1. ASSUME NEW p \in S PROVE ~Ahead(p, p)
    <3>1. p.chance \in Nat /\ p.sum \in Nat /\ p.team \in Nat
      BY <1>2, <1>4
    <3> QED BY <3>1 DEF Ahead
  <2>2. ASSUME NEW p \in S, NEW q \in S, p # q PROVE Ahead(p, q) \/ Ahead(q, p)
    <3>1. p.team # q.team
      BY <1>2, <2>2
    <3>2. /\ p.chance \in Nat /\ p.sum \in Nat /\ p.team \in Nat
          /\ q.chance \in Nat /\ q.sum \in Nat /\ q.team \in Nat
      BY <1>2, <1>4
    <3> QED BY <3>1, <3>2 DEF Ahead
  <2> HIDE DEF S
  <2> QED BY <2>1, <2>2 DEF Decides
<1>6. SortedBy(predictions, n, R)
  <2> HIDE DEF S
  <2> QED BY <1>1 DEF SortedBy
<1>7. IsFiniteSet(S) /\ Cardinality(S) = n
  <2>1. /\ f \in [Teams -> S]
        /\ \A t, u \in Teams : f[t] = f[u] => t = u
        /\ \A p \in S : \E t \in Teams : f[t] = p
    BY <1>2
  <2> HIDE DEF f, S
  <2> QED BY <2>1, Numbers, Counterparts
<1>8. \A p \in S : p.team \in Teams /\ p = Prediction(p.team)
  BY <1>2
<1>9. \A t \in Teams : Prediction(t) \in S
  OBVIOUS
<1>10. \A p, q \in S : <<p, q>> \in R <=> Ahead(p, q)
  OBVIOUS
<1> HIDE DEF R, S, f
<1>11. /\ \A i, j \in 1..n : predictions[i] = predictions[j] => i = j
       /\ \A p \in S : \E i \in 1..n : predictions[i] = p
       /\ \A i \in 1..n : i = 1 + Cardinality(Preceding(predictions[i], S, R))
  BY <1>1, <1>5, <1>6, <1>7, Numbers, Place
<1>12. ASSUME NEW i \in 1..n
       PROVE  i = 1 + Cardinality({t \in Teams : Ahead(Prediction(t), predictions[i])})
  <2> DEFINE A == {t \in Teams : Ahead(Prediction(t), predictions[i])}
             B == Preceding(predictions[i], S, R)
             g == [t \in A |-> Prediction(t)]
  <2>1. predictions[i] \in S
    BY <1>1
  <2>2. g \in [A -> B]
    BY <1>9, <1>10, <2>1 DEF Preceding
  <2>3. \A t, u \in A : g[t] = g[u] => t = u
    BY <1>2
  <2>4. \A p \in B : \E t \in A : g[t] = p
    <3> SUFFICES ASSUME NEW p \in B PROVE \E t \in A : g[t] = p
      OBVIOUS
    <3>1. p \in S /\ Ahead(p, predictions[i])
      BY <1>10, <2>1 DEF Preceding
    <3>2. p.team \in Teams /\ p = Prediction(p.team)
      BY <1>8, <3>1
    <3> QED BY <3>1, <3>2
  <2>5. IsFiniteSet(A)
    BY Numbers, FS_Subset
  <2> HIDE DEF A, B, g
  <2>6. Cardinality(B) = Cardinality(A)
    BY <2>2, <2>3, <2>4, <2>5, Counterparts
  <2> QED BY <1>11, <2>6 DEF A, B
<1>13. \A i, j \in 1..n : predictions[i].team = predictions[j].team => i = j
  BY <1>1, <1>8, <1>11
<1>14. \A t \in Teams : \E i \in 1..n : predictions[i].team = t
  BY <1>2, <1>9, <1>11
<1>15. \A i \in 1..n : /\ predictions[i].team \in Teams
                       /\ predictions[i] = Prediction(predictions[i].team)
  BY <1>1, <1>8
<1> QED BY <1>1, <1>3, <1>12, <1>13, <1>14, <1>15, Numbers

\* A sum over the answer is the sum over the teams.
LEMMA OverTheAnswer ==
  ASSUME PInv, Answered, NEW g \in [Teams -> Nat]
  PROVE  Total([i \in 1..n |-> g[predictions[i].team]]) = Total(g)
<1> DEFINE D == 1..n
           f == [i \in D |-> predictions[i].team]
<1>1. /\ f \in [D -> Teams] /\ IsFiniteSet(D)
      /\ \A i, j \in D : f[i] = f[j] => i = j
      /\ \A t \in Teams : \E i \in D : f[i] = t
  BY FinishedAnswer, Numbers
<1>2. [i \in D |-> g[predictions[i].team]] = [i \in D |-> g[f[i]]]
  OBVIOUS
<1> HIDE DEF D, f
<1>3. Total([i \in D |-> g[f[i]]]) = Total(g)
  BY <1>1, TotalPermuted
<1> QED BY <1>2, <1>3 DEF D

LEMMA AnswerAddsUp ==
  ASSUME PInv
  PROVE  PredictionsAddUp
<1> SUFFICES ASSUME Answered PROVE PredictionsAddUp
  BY DEF PredictionsAddUp, Answered
<1>1. /\ n \in Nat /\ n > 0 /\ 1 \in 1..n /\ trial = simulations
      /\ \A i \in 1..n : /\ predictions[i].team \in Teams
                         /\ predictions[i] = Prediction(predictions[i].team)
      /\ \A t \in Teams : \E i \in 1..n : predictions[i].team = t
  BY FinishedAnswer
<1>2. \A i \in 1..n : /\ predictions[i].chance = rankCounts[predictions[i].team][1]
                      /\ predictions[i].sum = Weight(predictions[i].team)
  <2>1. \A t : Prediction(t).chance = rankCounts[t][1] /\ Prediction(t).sum = Weight(t)
    BY DEF Prediction, Weight
  <2> QED BY <1>1, <2>1
<1>3. {predictions[i].team : i \in 1..n} = Teams
  BY <1>1
<1>4. Total([i \in 1..n |-> predictions[i].chance]) = simulations
  <2> DEFINE g == [t \in Teams |-> rankCounts[t][1]]
  <2>1. g \in [Teams -> Nat] /\ Total(g) = trial
    <3>1. \A t \in Teams : rankCounts[t][1] \in Nat
      BY <1>1, RankCounts DEF PInv
    <3> QED BY <1>1, <3>1 DEF PInv, Tallied
  <2>2. [i \in 1..n |-> predictions[i].chance] = [i \in 1..n |-> g[predictions[i].team]]
    BY <1>1, <1>2
  <2> HIDE DEF g
  <2> QED BY <1>1, <2>1, <2>2, OverTheAnswer
<1>5. 2 * Total([i \in 1..n |-> predictions[i].sum]) = simulations * n * (n + 1)
  <2> DEFINE g == [t \in Teams |-> Weight(t)]
  <2>1. g \in [Teams -> Nat] /\ 2 * Total(g) = trial * (n * (n + 1))
    BY RankCounts DEF PInv, Tallied
  <2>2. [i \in 1..n |-> predictions[i].sum] = [i \in 1..n |-> g[predictions[i].team]]
    BY <1>1, <1>2
  <2> HIDE DEF g
  <2>3. 2 * Total([i \in 1..n |-> predictions[i].sum]) = simulations * (n * (n + 1))
    BY <1>1, <2>1, <2>2, OverTheAnswer
  <2>4. simulations * (n * (n + 1)) = simulations * n * (n + 1)
    <3>1. simulations \in Nat
      BY RankCounts DEF PInv
    <3> QED BY <1>1, <3>1
  <2> QED BY <2>3, <2>4
<1>6. ASSUME NEW i \in 1..n, 2 * predictions[i].chance > simulations
      PROVE  predictions[i].mode = 1
  <2> DEFINE t == predictions[i].team
             counts == rankCounts[t]
  <2>1. t \in Teams /\ counts \in [1..n -> Nat] /\ Total(counts) = simulations
    BY <1>1, RankCounts DEF PInv, Tallied
  <2>2. predictions[i].chance = counts[1]
    BY <1>2
  <2>3. predictions[i].mode
          = CHOOSE r \in 1..n : \A q \in 1..n :
              counts[q] < counts[r] \/ (counts[q] = counts[r] /\ r <= q)
    <3>1. predictions[i] = Prediction(t)
      BY <1>1
    <3> QED BY <3>1 DEF Prediction
  <2> HIDE DEF t, counts
  <2>4. \A q \in 1..n : q # 1 => counts[q] < counts[1]
    <3> SUFFICES ASSUME NEW q \in 1..n, q # 1 PROVE counts[q] < counts[1]
      OBVIOUS
    <3>1. counts[1] + counts[q] <= simulations
      BY <1>1, <2>1, Numbers, TwoTerms
    <3>2. simulations \in Nat /\ counts[1] \in Nat /\ counts[q] \in Nat
      BY <1>1, <2>1, RankCounts DEF PInv
    <3> QED BY <1>6, <2>2, <3>1, <3>2
  <2>5. \A q \in 1..n : counts[q] < counts[1] \/ (counts[q] = counts[1] /\ 1 <= q)
    BY <1>1, <2>4
  <2>6. ASSUME NEW r \in 1..n,
               \A q \in 1..n : counts[q] < counts[r] \/ (counts[q] = counts[r] /\ r <= q)
        PROVE  r = 1
    <3>1. counts[1] < counts[r] \/ counts[1] = counts[r]
      BY <1>1, <2>6
    <3>2. counts[1] \in Nat /\ counts[r] \in Nat
      BY <1>1, <2>1
    <3> QED BY <2>4, <3>1, <3>2
  <2> QED BY <1>1, <2>3, <2>5, <2>6
<1> QED BY <1>3, <1>4, <1>5, <1>6 DEF PredictionsAddUp

LEMMA TitlesAreCertain ==
  ASSUME PInv
  PROVE  SettledTitleIsCertain
<1> SUFFICES ASSUME Answered PROVE SettledTitleIsCertain
  BY DEF SettledTitleIsCertain, Answered
<1>1. /\ n \in Nat /\ n > 0 /\ 1 \in 1..n /\ trial = simulations
      /\ DOMAIN predictions = 1..n
      /\ \A i \in 1..n : /\ predictions[i].team \in Teams
                         /\ predictions[i] = Prediction(predictions[i].team)
  BY FinishedAnswer DEF PInv, Answer, Answered
<1>2. ASSUME NEW i \in 1..n
      PROVE  LET s == predictions[i].team IN
             /\ (\E t \in Teams \ {s} : CannotCatch(s, t)) => predictions[i].chance = 0
             /\ (\A t \in Teams \ {s} : CannotCatch(t, s))
                  => predictions[i].chance = simulations /\ predictions[i].sum = simulations
  <2> DEFINE s == predictions[i].team
             counts == rankCounts[s]
             c == [r \in 1..n |-> r * counts[r]]
  <2>1. s \in Teams /\ predictions[i] = Prediction(s)
    BY <1>1
  <2>2. /\ counts \in [1..n -> Nat] /\ Total(counts) = trial /\ trial \in Nat
        /\ c \in [1..n -> Nat]
    BY <2>1, RankCounts DEF PInv, Tallied
  <2>3. predictions[i].chance = counts[1] /\ predictions[i].sum = Total(c)
    <3>1. Prediction(s).chance = counts[1] /\ Prediction(s).sum = Total(c)
      BY DEF Prediction
    <3> QED BY <2>1, <3>1
  <2>4. /\ (\E t \in Teams \ {s} : CannotCatch(s, t)) => counts[1] = 0
        /\ (\A t \in Teams \ {s} : CannotCatch(t, s)) => counts[1] = trial
    BY <2>1 DEF PInv, Titles
  <2>5. ASSUME counts[1] = trial PROVE Total(c) = trial
    <3>1. \A r \in 1..n : c[r] = r * counts[r]
      OBVIOUS
    <3> HIDE DEF c, counts, s
    <3>2. ASSUME NEW r \in (1..n) \ {1} PROVE c[r] = 0
      <4>0. r \in 1..n /\ 1 # r
        OBVIOUS
      <4>1. counts[1] + counts[r] <= Total(counts)
        BY <1>1, <2>2, <4>0, Numbers, TwoTerms
      <4>2. counts[1] \in Nat /\ counts[r] \in Nat
        BY <1>1, <2>2, <4>0
      <4>3. counts[r] = 0
        BY <2>2, <2>5, <4>1, <4>2
      <4> QED BY <1>1, <3>1, <4>3
    <3>3. c[1] = trial
      BY <1>1, <2>2, <2>5, <3>1
    <3>4. 1 \in 1..n /\ c \in [1..n -> Nat] /\ \A r \in (1..n) \ {1} : c[r] = 0
      BY <1>1, <2>2, <3>2
    <3>5. Total(c) = c[1]
      BY <3>4, TotalOfOne
    <3> QED BY <3>3, <3>5
  <2> QED BY <1>1, <2>3, <2>4, <2>5
<1> QED BY <1>1, <1>2 DEF SettledTitleIsCertain

LEMMA AnswerIsOrdered ==
  ASSUME PInv
  PROVE  OrderFollowsFromCounts
<1> SUFFICES ASSUME Answered PROVE OrderFollowsFromCounts
  BY DEF OrderFollowsFromCounts, Answered
<1>1. /\ DOMAIN predictions = 1..n
      /\ \A i \in 1..n :
           /\ predictions[i].team \in Teams
           /\ predictions[i] = Prediction(predictions[i].team)
           /\ i = 1 + Cardinality({t \in Teams : Ahead(Prediction(t), predictions[i])})
  BY FinishedAnswer DEF PInv, Answer, Answered
<1>2. \A t, s : Ahead(Prediction(t), Prediction(s)) <=>
        LET a == Prediction(t)  b == Prediction(s) IN
        \/ a.chance > b.chance
        \/ a.chance = b.chance /\ (a.sum < b.sum \/ (a.sum = b.sum /\ t < s))
  <2>1. \A t : Prediction(t).team = t
    BY DEF Prediction
  <2> QED BY <2>1 DEF Ahead
<1>3. ASSUME NEW i \in 1..n
      PROVE  LET s == predictions[i].team IN
             i = 1 + Cardinality({t \in Teams :
                       LET a == Prediction(t)  b == Prediction(s) IN
                       \/ a.chance > b.chance
                       \/ a.chance = b.chance
                          /\ (a.sum < b.sum \/ (a.sum = b.sum /\ t < s))})
  <2> DEFINE s == predictions[i].team
             A == {t \in Teams : Ahead(Prediction(t), Prediction(s))}
             B == {t \in Teams :
                     LET a == Prediction(t)  b == Prediction(s) IN
                     \/ a.chance > b.chance
                     \/ a.chance = b.chance
                        /\ (a.sum < b.sum \/ (a.sum = b.sum /\ t < s))}
  <2>1. A = B
    <3> HIDE DEF s
    <3> QED BY <1>2
  <2>2. i = 1 + Cardinality(A)
    BY <1>1
  <2>3. i = 1 + Cardinality(B)
    <3> HIDE DEF A, B
    <3> QED BY <2>1, <2>2
  <2> QED BY <2>3
<1> QED BY <1>1, <1>3 DEF OrderFollowsFromCounts

(***************************************************************************)
(* What the prediction guarantees.                                         *)
(***************************************************************************)

\* Every request's number of trials is within the service's limits and no rank
\* is counted more often than there were trials (clampSimulations, Predict).
THEOREM PredictionTypeCorrect == PredictionSpec => []PredictionTypeOK
<1>1. PInv => PredictionTypeOK
  BY DEF PInv
<1> QED BY <1>1, PredictionInvariance, PTL

\* In every trial, and in the table of a finished league, every row says what
\* the matches say that the trial counts (Predict, Calculate).
THEOREM RowsAlwaysCountTheMatches == PredictionSpec => []RowsCountTheMatches
<1>1. PInv => RowsCountTheMatches
  BY DEF PInv, TableInv
<1> QED BY <1>1, PredictionInvariance, PTL

\* In every trial, and in the table of a finished league, the ranks are those
\* that the rules give, whatever the order of the map and of the sort
\* (Calculate).
THEOREM TablesAlwaysOrdered == PredictionSpec => []OrderedByTheRules
<1>1. PInv => OrderedByTheRules
  BY TableIsRanked DEF PInv
<1> QED BY <1>1, PredictionInvariance, PTL

\* Chances add up to certainty and average positions to those of a table, and
\* who wins most trials is most likely first (aggregate).
THEOREM PredictionsAlwaysAddUp == PredictionSpec => []PredictionsAddUp
<1>1. PInv => PredictionsAddUp
  BY AnswerAddsUp
<1> QED BY <1>1, PredictionInvariance, PTL

\* A title that the played matches settle is settled in the forecast, whatever
\* the simulator scores (Predict).
THEOREM SettledTitlesAreCertain == PredictionSpec => []SettledTitleIsCertain
<1>1. PInv => SettledTitleIsCertain
  BY TitlesAreCertain
<1> QED BY <1>1, PredictionInvariance, PTL

\* The answer's order follows from the counts, whatever the order of the map
\* and of the sort (aggregate).
THEOREM OrderAlwaysFollows == PredictionSpec => []OrderFollowsFromCounts
<1>1. PInv => OrderFollowsFromCounts
  BY AnswerIsOrdered
<1> QED BY <1>1, PredictionInvariance, PTL

=============================================================================
