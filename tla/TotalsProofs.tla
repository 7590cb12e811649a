---------------------------- MODULE TotalsProofs ----------------------------
(***************************************************************************)
(* How a sum changes when its function changes in one place, when a        *)
(* sequence grows at its end or loses its head, and that it is monotonic.  *)
(***************************************************************************)
EXTENDS Totals, FiniteSetTheorems, TLAPS

\* The units of a function are the pairs under its graph.
LEMMA UnitsMember ==
    ASSUME NEW S, NEW f \in [S -> Nat], NEW u
    PROVE  u \in Units(f) <=> \E x \in S : \E k \in 1..f[x] : u = << x, k >>
  <1>1. u \in Units(f) <=> \E x \in S : u \in {x} \X (1..f[x])
    BY DEF Units
  <1>2. \A x \in S : u \in {x} \X (1..f[x]) <=> \E k \in 1..f[x] : u = << x, k >>
    OBVIOUS
  <1>3. QED
    BY <1>1, <1>2

\* Each value contributes that many units.
LEMMA UnitsOfOne ==
    ASSUME NEW x, NEW n \in Nat
    PROVE  IsFiniteSet({x} \X (1..n)) /\ Cardinality({x} \X (1..n)) = n
  <1> DEFINE X == {x}
             N == 1..n
  <1>1. IsFiniteSet(X) /\ Cardinality(X) = 1
    BY FS_Singleton
  <1>2. IsFiniteSet(N) /\ Cardinality(N) = n
    BY FS_Interval
  <1> HIDE DEF X, N
  <1>3. IsFiniteSet(X \X N) /\ Cardinality(X \X N) = 1 * n
    BY <1>1, <1>2, FS_Product
  <1>4. QED
    BY <1>3 DEF X, N

\* A function on a finite set has finitely many units.
LEMMA UnitsFinite ==
    ASSUME NEW S, IsFiniteSet(S), NEW f \in [S -> Nat]
    PROVE  IsFiniteSet(Units(f))
  <1> DEFINE T == { {x} \X (1..f[x]) : x \in S }
             g == [x \in S |-> {x} \X (1..f[x])]
  <1>1. g \in Surjection(S, T)
    BY DEF Surjection
  <1>2. IsFiniteSet(T)
    BY <1>1, FS_Surjection
  <1>3. ASSUME NEW t \in T PROVE IsFiniteSet(t)
    <2>1. PICK x \in S : t = {x} \X (1..f[x])
      OBVIOUS
    <2>2. f[x] \in Nat
      OBVIOUS
    <2>3. QED
      BY <2>1, <2>2, UnitsOfOne
  <1>4. Units(f) = UNION T
    BY DEF Units
  <1>5. QED
    BY <1>2, <1>3, <1>4, FS_UNION

\* The sum is a natural number.
LEMMA TotalType ==
    ASSUME NEW S, IsFiniteSet(S), NEW f \in [S -> Nat]
    PROVE  Total(f) \in Nat
  BY UnitsFinite, FS_CardinalityType DEF Total

\* A sum over no elements is 0.
LEMMA TotalEmpty ==
    ASSUME NEW f, DOMAIN f = {}
    PROVE  Total(f) = 0
  <1>1. Units(f) = {}
    BY DEF Units
  <1>2. QED
    BY <1>1, FS_EmptySet DEF Total

\* One element more adds its value.
LEMMA TotalExtend ==
    ASSUME NEW S, IsFiniteSet(S), NEW x, x \notin S,
           NEW f \in [S -> Nat], NEW g \in [S \cup {x} -> Nat],
           \A y \in S : g[y] = f[y]
    PROVE  Total(g) = Total(f) + g[x]
  <1> DEFINE U == {x} \X (1..g[x])
  <1>1. Units(g) = Units(f) \cup U
    <2>1. ASSUME NEW u PROVE u \in Units(g) <=> u \in Units(f) \/ u \in U
      <3>1. u \in Units(g) <=> \E y \in S \cup {x} : \E k \in 1..g[y] : u = << y, k >>
        BY UnitsMember
      <3>2. u \in Units(f) <=> \E y \in S : \E k \in 1..f[y] : u = << y, k >>
        BY UnitsMember
      <3>3. u \in U <=> \E k \in 1..g[x] : u = << x, k >>
        OBVIOUS
      <3>4. QED
        BY <3>1, <3>2, <3>3
    <2>2. QED
      BY <2>1
  <1>2. Units(f) \cap U = {}
    <2>1. ASSUME NEW u \in Units(f) PROVE u \notin U
      <3>1. PICK y \in S : \E k \in 1..f[y] : u = << y, k >>
        BY UnitsMember
      <3>2. QED
        BY <3>1
    <2>2. QED
      BY <2>1
  <1>3. IsFiniteSet(Units(f))
    BY UnitsFinite
  <1>4. g[x] \in Nat
    OBVIOUS
  <1>5. IsFiniteSet(U) /\ Cardinality(U) = g[x]
    BY <1>4, UnitsOfOne
  <1>6. Cardinality(Units(f)) \in Nat
    BY <1>3, FS_CardinalityType
  <1> HIDE DEF U
  <1>7. Cardinality(Units(g)) = Cardinality(Units(f)) + Cardinality(U) - Cardinality({})
    BY <1>1, <1>2, <1>3, <1>5, FS_Union
  <1>8. QED
    BY <1>4, <1>5, <1>6, <1>7, FS_EmptySet DEF Total

\* The sum without one element lacks its value.
LEMMA TotalSplit ==
    ASSUME NEW S, IsFiniteSet(S), NEW x \in S, NEW f \in [S -> Nat]
    PROVE  Total(f) = Total([y \in S \ {x} |-> f[y]]) + f[x]
  <1> DEFINE T == S \ {x}
             e == [y \in T |-> f[y]]
  <1>1. IsFiniteSet(T)
    BY FS_RemoveElement
  <1>2. x \notin T /\ e \in [T -> Nat] /\ S = T \cup {x} /\ \A y \in T : f[y] = e[y]
    OBVIOUS
  <1>3. f \in [T \cup {x} -> Nat]
    BY <1>2
  <1> HIDE DEF T, e
  <1>4. Total(f) = Total(e) + f[x]
    BY <1>1, <1>2, <1>3, TotalExtend
  <1>5. QED
    BY <1>4 DEF e, T

\* Functions that differ in one place have sums that differ by the values there.
LEMMA TotalUpdate ==
    ASSUME NEW S, IsFiniteSet(S), NEW x \in S,
           NEW f \in [S -> Nat], NEW g \in [S -> Nat],
           \A y \in S \ {x} : g[y] = f[y]
    PROVE  Total(g) = Total(f) - f[x] + g[x]
  <1> DEFINE F == [y \in S \ {x} |-> f[y]]
             G == [y \in S \ {x} |-> g[y]]
  <1>1. F = G
    OBVIOUS
  <1>2. Total(f) = Total(F) + f[x] /\ Total(g) = Total(G) + g[x]
    BY TotalSplit
  <1>3. Total(F) \in Nat
    <2>1. IsFiniteSet(S \ {x})
      BY FS_RemoveElement
    <2>2. F \in [S \ {x} -> Nat]
      OBVIOUS
    <2>3. QED
      BY <2>1, <2>2, TotalType
  <1> HIDE DEF F, G
  <1>4. QED
    BY <1>1, <1>2, <1>3

\* Larger values have a larger sum; a value 0 need not be matched.
LEMMA TotalWithin ==
    ASSUME NEW S, NEW T, IsFiniteSet(T),
           NEW f \in [S -> Nat], NEW g \in [T -> Nat],
           \A x \in S : f[x] = 0 \/ (x \in T /\ f[x] <= g[x])
    PROVE  Total(f) <= Total(g)
  <1>1. ASSUME NEW u \in Units(f) PROVE u \in Units(g)
    <2>1. PICK x \in S : \E k \in 1..f[x] : u = << x, k >>
      BY UnitsMember
    <2>0. PICK k \in 1..f[x] : u = << x, k >>
      BY <2>1
    <2>2. x \in T /\ k \in 1..g[x]
      OBVIOUS
    <2>3. QED
      BY <2>0, <2>2, UnitsMember
  <1>2. IsFiniteSet(Units(g))
    BY UnitsFinite
  <1>3. Units(f) \in SUBSET Units(g)
    BY <1>1
  <1>4. QED
    BY <1>2, <1>3, FS_Subset DEF Total

\* Larger values on a larger domain have a larger sum.
LEMMA TotalMonotonic ==
    ASSUME NEW S, NEW T, S \subseteq T, IsFiniteSet(T),
           NEW f \in [S -> Nat], NEW g \in [T -> Nat],
           \A x \in S : f[x] <= g[x]
    PROVE  Total(f) <= Total(g)
  BY TotalWithin

\* A sum of zeros is 0.
LEMMA TotalZero ==
    ASSUME NEW S, NEW f \in [S -> Nat], \A x \in S : f[x] = 0
    PROVE  Total(f) = 0
  <1>1. ASSUME NEW u \in Units(f) PROVE FALSE
    <2>1. PICK x \in S : \E k \in 1..f[x] : u = << x, k >>
      BY UnitsMember
    <2>2. QED
      BY <2>1
  <1>2. Units(f) = {}
    BY <1>1
  <1>3. QED
    BY <1>2, FS_EmptySet DEF Total

\* The sum over two parts of the domain
LEMMA TotalUnion ==
    ASSUME NEW S, NEW T, IsFiniteSet(S), IsFiniteSet(T), S \cap T = {},
           NEW f \in [S \cup T -> Nat]
    PROVE  Total(f) = Total([x \in S |-> f[x]]) + Total([x \in T |-> f[x]])
  <1> DEFINE g == [x \in S |-> f[x]]
             h == [x \in T |-> f[x]]
  <1>1. /\ g \in [S -> Nat] /\ h \in [T -> Nat]
        /\ \A x \in S : g[x] = f[x]
        /\ \A x \in T : h[x] = f[x]
    OBVIOUS
  <1> HIDE DEF g, h
  <1>2. ASSUME NEW u PROVE u \in Units(f) <=> u \in Units(g) \/ u \in Units(h)
    <2>1. u \in Units(f) <=> \E x \in S \cup T : \E k \in 1..f[x] : u = << x, k >>
      BY UnitsMember
    <2>2. u \in Units(g) <=> \E x \in S : \E k \in 1..g[x] : u = << x, k >>
      BY <1>1, UnitsMember
    <2>3. u \in Units(h) <=> \E x \in T : \E k \in 1..h[x] : u = << x, k >>
      BY <1>1, UnitsMember
    <2>4. QED
      BY <1>1, <2>1, <2>2, <2>3, Zenon
  <1>3. ASSUME NEW u \in Units(g), u \in Units(h) PROVE FALSE
    <2>1. PICK x \in S : \E k \in 1..g[x] : u = << x, k >>
      BY <1>1, UnitsMember
    <2>2. PICK y \in T : \E k \in 1..h[y] : u = << y, k >>
      BY <1>1, <1>3, UnitsMember
    <2>3. x = y
      BY <2>1, <2>2
    <2>4. QED
      BY <2>3
  <1>4. Units(f) = Units(g) \cup Units(h) /\ Units(g) \cap Units(h) = {}
    BY <1>2, <1>3
  <1>5. IsFiniteSet(Units(g)) /\ IsFiniteSet(Units(h))
    BY <1>1, UnitsFinite
  <1>6. Cardinality(Units(g)) \in Nat /\ Cardinality(Units(h)) \in Nat
    BY <1>5, FS_CardinalityType
  <1>7. Cardinality(Units(f)) = Cardinality(Units(g)) + Cardinality(Units(h))
                                  - Cardinality(Units(g) \cap Units(h))
    BY <1>4, <1>5, FS_Union
  <1>8. Cardinality(Units(g) \cap Units(h)) = 0
    BY <1>4, FS_EmptySet
  <1>9. QED
    BY <1>6, <1>7, <1>8 DEF Total, g, h

\* A value is at most the sum.
LEMMA TotalAtLeast ==
    ASSUME NEW S, IsFiniteSet(S), NEW x \in S, NEW f \in [S -> Nat]
    PROVE  f[x] <= Total(f)
  <1>1. IsFiniteSet(S \ {x}) /\ [y \in S \ {x} |-> f[y]] \in [S \ {x} -> Nat]
    BY FS_RemoveElement
  <1>2. Total([y \in S \ {x} |-> f[y]]) \in Nat
    BY <1>1, TotalType
  <1>3. QED
    BY <1>2, TotalSplit

-----------------------------------------------------------------------------
(* Functions on 1..n *)

\* A sequence that grows at its end
LEMMA TotalAppend ==
    ASSUME NEW n \in Nat, NEW f \in [1..n -> Nat], NEW g \in [1..(n + 1) -> Nat],
           \A i \in 1..n : g[i] = f[i]
    PROVE  Total(g) = Total(f) + g[n + 1]
  <1> DEFINE S == 1..(n + 1)
             x == n + 1
             e == [y \in S \ {x} |-> g[y]]
  <1>0. IsFiniteSet(S)
    BY FS_Interval
  <1>1. x \in S /\ g \in [S -> Nat]
    OBVIOUS
  <1>2. f = e
    OBVIOUS
  <1> HIDE DEF S, x
  <1>3. Total(g) = Total(e) + g[x]
    BY <1>0, <1>1, TotalSplit
  <1>4. QED
    BY <1>2, <1>3 DEF x

\* Renaming the elements of the domain does not change the sum.
LEMMA TotalRename ==
    ASSUME NEW S, IsFiniteSet(S), NEW T, NEW g \in [S -> Nat], NEW h \in [T -> Nat],
           NEW r \in Bijection(S, T), \A x \in S : h[r[x]] = g[x]
    PROVE  Total(g) = Total(h)
  <1> DEFINE m == [u \in Units(g) |-> << r[u[1]], u[2] >>]
  <1>1. /\ r \in [S -> T]
        /\ \A x, y \in S : r[x] = r[y] => x = y
        /\ \A t \in T : \E x \in S : r[x] = t
    BY DEF Bijection, Injection, Surjection, IsInjective
  <1>2. \A u \in Units(g) : \E x \in S : \E k \in 1..g[x] : u = << x, k >>
    BY UnitsMember
  <1>3. ASSUME NEW u \in Units(g) PROVE m[u] \in Units(h)
    <2>1. PICK x \in S : \E k \in 1..g[x] : u = << x, k >>
      BY <1>2
    <2>2. PICK k \in 1..g[x] : u = << x, k >>
      BY <2>1
    <2>3. r[x] \in T /\ k \in 1..h[r[x]] /\ m[u] = << r[x], k >>
      BY <1>1, <2>2
    <2>4. QED
      BY <2>3, UnitsMember
  <1>4. ASSUME NEW u \in Units(g), NEW v \in Units(g), m[u] = m[v]
        PROVE  u = v
    <2>1. PICK x \in S : \E k \in 1..g[x] : u = << x, k >>
      BY <1>2
    <2>2. PICK k \in 1..g[x] : u = << x, k >>
      BY <2>1
    <2>3. PICK y \in S : \E l \in 1..g[y] : v = << y, l >>
      BY <1>2
    <2>4. PICK l \in 1..g[y] : v = << y, l >>
      BY <2>3
    <2>5. m[u] = << r[x], k >> /\ m[v] = << r[y], l >>
      BY <2>2, <2>4
    <2>6. r[x] = r[y] /\ k = l
      BY <1>4, <2>5
    <2>7. QED
      BY <1>1, <2>2, <2>4, <2>6
  <1>5. ASSUME NEW v \in Units(h) PROVE \E u \in Units(g) : m[u] = v
    <2>1. PICK t \in T : \E k \in 1..h[t] : v = << t, k >>
      BY UnitsMember
    <2>2. PICK k \in 1..h[t] : v = << t, k >>
      BY <2>1
    <2>3. PICK x \in S : r[x] = t
      BY <1>1
    <2>4. << x, k >> \in Units(g)
      BY <2>2, <2>3, UnitsMember
    <2>5. m[<< x, k >>] = v
      BY <2>2, <2>3, <2>4
    <2>6. QED
      BY <2>4, <2>5
  <1>6. m \in [Units(g) -> Units(h)]
    BY <1>3
  <1>7. IsFiniteSet(Units(g))
    BY UnitsFinite
  <1> HIDE DEF m
  <1>8. m \in Bijection(Units(g), Units(h))
    BY <1>4, <1>5, <1>6 DEF Bijection, Injection, Surjection, IsInjective
  <1>9. QED
    BY <1>7, <1>8, FS_Bijection DEF ExistsBijection, Total

\* A sequence that loses its head
LEMMA TotalTail ==
    ASSUME NEW n \in Nat, NEW f \in [1..(n + 1) -> Nat], NEW g \in [1..n -> Nat],
           \A i \in 1..n : g[i] = f[i + 1]
    PROVE  Total(f) = f[1] + Total(g)
  <1> DEFINE S == 1..(n + 1)
             T == S \ {1}
             N == 1..n
             h == [i \in T |-> f[i]]
             r == [i \in N |-> i + 1]
  <1>1. IsFiniteSet(S) /\ 1 \in S /\ IsFiniteSet(N)
    BY FS_Interval
  <1>2. h \in [T -> Nat] /\ g \in [N -> Nat] /\ f \in [S -> Nat]
    OBVIOUS
  <1>3. r \in [N -> T] /\ \A i \in N : h[r[i]] = g[i]
    OBVIOUS
  <1>4. (\A i, j \in N : r[i] = r[j] => i = j) /\ (\A t \in T : \E i \in N : r[i] = t)
    <2>1. \A t \in T : t - 1 \in N /\ r[t - 1] = t
      OBVIOUS
    <2>2. QED
      BY <2>1
  <1>5. DOMAIN r = N
    OBVIOUS
  <1> HIDE DEF S, N, r
  <1>6. r \in Bijection(N, T)
    BY <1>3, <1>4, <1>5 DEF Bijection, Injection, Surjection, IsInjective
  <1>7. Total(f) = Total(h) + f[1]
    BY <1>1, <1>2, TotalSplit
  <1>8. IsFiniteSet(T)
    BY <1>1, FS_RemoveElement
  <1> HIDE DEF T, h
  <1>9. Total(g) = Total(h)
    BY <1>1, <1>2, <1>3, <1>6, TotalRename
  <1>10. Total(h) \in Nat /\ f[1] \in Nat
    BY <1>1, <1>2, <1>8, TotalType
  <1>11. QED
    BY <1>7, <1>9, <1>10

=============================================================================
