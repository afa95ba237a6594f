------------------------- MODULE LimitPushdownProofs -------------------------
(***************************************************************************)
(* Proofs about ZarrLimitPushdownRule for any plan tree over any number of  *)
(* rows.                                                                    *)
(*                                                                          *)
(* The argument goes up the tree.  Below the least LIMIT every result of    *)
(* the rewritten plan is part of a result of the given one and is short     *)
(* only if it has as many rows as the LIMIT lets through (Covers); the      *)
(* LIMIT makes it a result of the given plan, and so it stays above.        *)
(***************************************************************************)
EXTENDS LimitPushdown, PartitionProofs

-----------------------------------------------------------------------------
(* Numbers. *)

\* The least member of a set of naturals.
LEMMA MinFacts ==
    ASSUME NEW T, T \subseteq Nat, T # {}
    PROVE  Min(T) \in T /\ \A m \in T : Min(T) <= m
  BY LeastNat DEF Min

\* Without an OFFSET all rows count.
LEMMA MaxWithZero ==
    ASSUME NEW n \in Nat
    PROVE  Max({0, n}) = n
  <1>1. \E x \in {0, n} : \A y \in {0, n} : x >= y
    OBVIOUS
  <1>2. Max({0, n}) \in {0, n} /\ \A y \in {0, n} : Max({0, n}) >= y
    BY <1>1, Zenon DEF Max
  <1> QED
    BY <1>2

-----------------------------------------------------------------------------
(* Operators. *)

\* What each operator returns.
LEMMA ZarrIs ==
    ASSUME NEW i, NEW node, NEW below, node.op = "zarr"
    PROVE  NodeResults(i, node, below) = {{i} \X (1 .. FewerOf(node.fetch, NRows))}
  BY Zenon DEF NodeResults

\* The input of a node with one child.
Input(below) == below[CHOOSE j \in DOMAIN below : TRUE]

\* A LIMIT.
LEMMA LimitIs ==
    ASSUME NEW i, NEW node, NEW below, node.op = "limit"
    PROVE  NodeResults(i, node, below) = UNION {Limited(S, node) : S \in Input(below)}
  BY Zenon DEF NodeResults, Input

\* Several children.
LEMMA UnionIs ==
    ASSUME NEW i, NEW node, NEW below, node.op = "union"
    PROVE  NodeResults(i, node, below) = Together(below)
  BY Zenon DEF NodeResults

\* The operators with one child.
LEMMA TopKIs ==
    ASSUME NEW i, NEW node, NEW below, node.op = "topk"
    PROVE  NodeResults(i, node, below) = UNION {TopK(S, node) : S \in Input(below)}
  BY Zenon DEF NodeResults, Input

\* A FilterExec on coordinates.
LEMMA CoordsIs ==
    ASSUME NEW i, NEW node, NEW below, node.op = "coords"
    PROVE  NodeResults(i, node, below) = Input(below)
  BY Zenon DEF NodeResults, Input

\* A FilterExec on a data variable.
LEMMA ValuesIs ==
    ASSUME NEW i, NEW node, NEW below, node.op = "values"
    PROVE  NodeResults(i, node, below) = {{r \in S : Passes(r)} : S \in Input(below)}
  BY Zenon DEF NodeResults, Input

\* An aggregate.
LEMMA CountIs ==
    ASSUME NEW i, NEW node, NEW below, node.op = "count"
    PROVE  NodeResults(i, node, below) = {{<<i, Cardinality(S)>>} : S \in Input(below)}
  BY Zenon DEF NodeResults, Input

\* A choice of one result of each child.
OneEach(f, below) ==
    f = [j \in DOMAIN below |-> f[j]] /\ \A j \in DOMAIN below : f[j] \in below[j]

\* A union returns one result of each child.
LEMMA TogetherIs ==
    ASSUME NEW b
    PROVE  \A U : U \in Together(b) <=> \E f : OneEach(f, b) /\ U = UNION {f[j] : j \in DOMAIN b}
  <1> DEFINE D == DOMAIN b
             All == [D -> UNION {b[j] : j \in D}]
             Fits == {g \in All : \A j \in D : g[j] \in b[j]}
  <1>1. \A f : f \in Fits <=> OneEach(f, b)
    <2>1. ASSUME NEW f, f \in Fits PROVE OneEach(f, b)
      BY <2>1 DEF OneEach
    <2>2. ASSUME NEW f, OneEach(f, b) PROVE f \in Fits
      <3>1. \A j \in D : f[j] \in UNION {b[k] : k \in D}
        BY <2>2 DEF OneEach
      <3>2. f \in All
        BY <2>2, <3>1 DEF OneEach
      <3> QED
        BY <2>2, <3>2 DEF OneEach
    <2> QED
      BY <2>1, <2>2
  <1>2. Together(b) = {UNION {f[j] : j \in D} : f \in Fits}
    BY Zenon DEF Together
  <1> HIDE DEF Fits
  <1>3. \A U : U \in Together(b) <=> \E f \in Fits : U = UNION {f[j] : j \in D}
    BY <1>2
  <1> QED
    BY <1>1, <1>3

\* More results below, more results above.
LEMMA NodeMonotone ==
    ASSUME NEW i, NEW node, NEW D, D # {}, NEW b, NEW c, DOMAIN b = D, DOMAIN c = D,
           \A j \in D : b[j] \subseteq c[j],
           node.op \in {"limit", "topk", "coords", "values", "count", "union"}
    PROVE  NodeResults(i, node, b) \subseteq NodeResults(i, node, c)
  <1>1. Input(b) \subseteq Input(c)
    <2>1. (CHOOSE j \in D : TRUE) \in D
      OBVIOUS
    <2> QED
      BY <2>1 DEF Input
  <1> HIDE DEF Input
  <1>2. CASE node.op = "limit"
    <2>1. NodeResults(i, node, b) = UNION {Limited(S, node) : S \in Input(b)}
      BY <1>2, LimitIs
    <2>2. NodeResults(i, node, c) = UNION {Limited(S, node) : S \in Input(c)}
      BY <1>2, LimitIs
    <2> QED
      BY <1>1, <2>1, <2>2, Zenon
  <1>3. CASE node.op = "topk"
    <2>1. NodeResults(i, node, b) = UNION {TopK(S, node) : S \in Input(b)}
      BY <1>3, TopKIs
    <2>2. NodeResults(i, node, c) = UNION {TopK(S, node) : S \in Input(c)}
      BY <1>3, TopKIs
    <2> QED
      BY <1>1, <2>1, <2>2, Zenon
  <1>4. CASE node.op = "coords"
    BY <1>1, <1>4, CoordsIs
  <1>5. CASE node.op = "values"
    <2>1. NodeResults(i, node, b) = {{r \in S : Passes(r)} : S \in Input(b)}
      BY <1>5, ValuesIs
    <2>2. NodeResults(i, node, c) = {{r \in S : Passes(r)} : S \in Input(c)}
      BY <1>5, ValuesIs
    <2> QED
      BY <1>1, <2>1, <2>2, Zenon
  <1>6. CASE node.op = "count"
    <2>1. NodeResults(i, node, b) = {{<<i, Cardinality(S)>>} : S \in Input(b)}
      BY <1>6, CountIs
    <2>2. NodeResults(i, node, c) = {{<<i, Cardinality(S)>>} : S \in Input(c)}
      BY <1>6, CountIs
    <2> QED
      BY <1>1, <2>1, <2>2, Zenon
  <1>7. CASE node.op = "union"
    <2>1. Together(b) \subseteq Together(c)
      <3> SUFFICES ASSUME NEW U \in Together(b) PROVE U \in Together(c)
        OBVIOUS
      <3>1. PICK f : OneEach(f, b) /\ U = UNION {f[j] : j \in D}
        BY TogetherIs
      <3>2. OneEach(f, c)
        BY <3>1 DEF OneEach
      <3> QED
        BY <3>1, <3>2, TogetherIs
    <2> QED
      BY <1>7, <2>1, UnionIs
  <1> QED
    BY <1>2, <1>3, <1>4, <1>5, <1>6, <1>7

-----------------------------------------------------------------------------
(* Short results. *)

\* Every result of A is a result of B, or is part of one and has n rows.
Covers(A, B, n) ==
    \A S \in A : /\ IsFiniteSet(S)
                 /\ \E T \in B : /\ IsFiniteSet(T) /\ S \subseteq T
                                 /\ S = T \/ Cardinality(S) >= n

\* Between a finite set and a part of it there are sets of every size.
LEMMA Between ==
    ASSUME NEW T, IsFiniteSet(T), NEW S \in SUBSET T,
           NEW k \in Nat, Cardinality(S) <= k, k <= Cardinality(T)
    PROVE  \E U \in SUBSET T : S \subseteq U /\ Cardinality(U) = k
  <1>1. Cardinality(T) \in Nat /\ IsFiniteSet(S) /\ Cardinality(S) \in Nat
    BY FS_CardinalityType, FS_Subset
  <1> DEFINE Has(n) == \E U \in SUBSET T : S \subseteq U /\ Cardinality(U) = n
             Bad == {n \in Nat : Cardinality(S) <= n /\ n <= Cardinality(T) /\ ~Has(n)}
  <1>2. SUFFICES ASSUME Bad # {} PROVE FALSE
    BY <1>1
  <1>3. PICK n \in Bad : \A m \in Bad : n <= m
    BY <1>2, LeastNat
  <1>4. n # Cardinality(S)
    BY <1>3
  <1>5. n - 1 \in Nat /\ Has(n - 1)
    BY <1>1, <1>3, <1>4
  <1>6. PICK U \in SUBSET T : S \subseteq U /\ Cardinality(U) = n - 1
    BY <1>5
  <1>7. IsFiniteSet(U) /\ U # T
    BY <1>1, <1>3, <1>6, FS_Subset
  <1>8. PICK x \in T : x \notin U
    BY <1>6, <1>7
  <1>9. Cardinality(U \cup {x}) = n
    <2>1. Cardinality(U \cup {x}) = Cardinality(U) + 1
      BY <1>7, <1>8, FS_AddElement
    <2>2. (n - 1) + 1 = n
      BY <1>3
    <2> QED
      BY <1>6, <2>1, <2>2
  <1> QED
    BY <1>3, <1>6, <1>8, <1>9

\* The rows of a LIMIT without OFFSET.
LEMMA LimitedFacts ==
    ASSUME NEW S, IsFiniteSet(S), NEW node, node.skip = 0, node.fetch \in Nat \cup {NoFetch}
    PROVE  /\ Cardinality(S) \in Nat
           /\ Limited(S, node) = {U \in SUBSET S : Cardinality(U) = FewerOf(node.fetch, Cardinality(S))}
           /\ FewerOf(node.fetch, Cardinality(S)) \in 0 .. Cardinality(S)
           /\ node.fetch # NoFetch /\ node.fetch <= Cardinality(S)
                => FewerOf(node.fetch, Cardinality(S)) = node.fetch
           /\ node.fetch = NoFetch \/ Cardinality(S) <= node.fetch
                => FewerOf(node.fetch, Cardinality(S)) = Cardinality(S)
  <1>1. Cardinality(S) \in Nat
    BY FS_CardinalityType
  <1>2. Max({0, Cardinality(S) - node.skip}) = Cardinality(S)
    BY <1>1, MaxWithZero
  <1>3. Limited(S, node) = {U \in SUBSET S : Cardinality(U) = FewerOf(node.fetch, Cardinality(S))}
    BY <1>2, Zenon DEF Limited, kSubset
  <1> QED
    BY <1>1, <1>3 DEF FewerOf, NoFetch

\* A LIMIT of n rows or more, or none, keeps short results short.
LEMMA LimitCovers ==
    ASSUME NEW A, NEW B, NEW n \in Nat, Covers(A, B, n),
           NEW node, node.skip = 0, node.fetch \in Nat \cup {NoFetch},
           node.fetch = NoFetch \/ n <= node.fetch
    PROVE  Covers(UNION {Limited(S, node) : S \in A}, UNION {Limited(S, node) : S \in B}, n)
  <1> DEFINE In(C) == UNION {Limited(S, node) : S \in C}
  <1> SUFFICES ASSUME NEW S \in A, NEW U \in Limited(S, node)
               PROVE  /\ IsFiniteSet(U)
                      /\ \E V \in In(B) : /\ IsFiniteSet(V) /\ U \subseteq V
                                          /\ U = V \/ Cardinality(U) >= n
    BY Zenon DEF Covers
  <1>1. PICK T \in B : /\ IsFiniteSet(S) /\ IsFiniteSet(T) /\ S \subseteq T
                       /\ S = T \/ Cardinality(S) >= n
    BY DEF Covers
  <1>2. U \subseteq S /\ Cardinality(U) = FewerOf(node.fetch, Cardinality(S))
    BY <1>1, LimitedFacts
  <1>3. IsFiniteSet(U) /\ Cardinality(U) \in Nat
    BY <1>1, <1>2, FS_Subset, FS_CardinalityType
  <1>4. CASE S = T
    <2>1. U \in In(B)
      BY <1>4
    <2> QED
      BY <1>3, <2>1
  <1>5. CASE Cardinality(S) >= n
    <2>1. Cardinality(S) \in Nat /\ Cardinality(T) \in Nat /\ Cardinality(S) <= Cardinality(T)
      BY <1>1, FS_CardinalityType, FS_Subset
    <2>2. Cardinality(U) >= n
      BY <1>1, <1>2, <1>5, <2>1 DEF FewerOf
    <2> DEFINE k == FewerOf(node.fetch, Cardinality(T))
    <2>3. k \in Nat /\ Cardinality(U) <= k /\ k <= Cardinality(T)
      BY <1>2, <2>1 DEF FewerOf, NoFetch
    <2> HIDE DEF k
    <2>4. PICK V \in SUBSET T : U \subseteq V /\ Cardinality(V) = k
      BY <1>1, <1>2, <2>3, Between
    <2>5. V \in Limited(T, node)
      BY <1>1, <2>4, LimitedFacts DEF k
    <2>6. V \in In(B) /\ IsFiniteSet(V)
      BY <1>1, <2>4, <2>5, FS_Subset
    <2> QED
      BY <1>3, <2>2, <2>4, <2>6
  <1> QED
    BY <1>1, <1>4, <1>5

\* The results that a LIMIT makes of results.
AfterLimit(A, node) == UNION {Limited(S, node) : S \in A}

\* The LIMIT of n rows itself leaves results of B.
LEMMA LimitCuts ==
    ASSUME NEW A, NEW B, NEW node, node.skip = 0, node.fetch \in Nat, Covers(A, B, node.fetch)
    PROVE  AfterLimit(A, node) \subseteq AfterLimit(B, node)
  <1> SUFFICES ASSUME NEW S \in A, NEW U \in Limited(S, node)
               PROVE  \E T \in B : U \in Limited(T, node)
    BY DEF AfterLimit
  <1>1. PICK T \in B : /\ IsFiniteSet(S) /\ IsFiniteSet(T) /\ S \subseteq T
                       /\ S = T \/ Cardinality(S) >= node.fetch
    BY DEF Covers
  <1>2. CASE S = T
    BY <1>2
  <1>3. CASE Cardinality(S) >= node.fetch
    <2>1. Cardinality(S) \in Nat /\ Cardinality(T) \in Nat /\ Cardinality(S) <= Cardinality(T)
      BY <1>1, FS_CardinalityType, FS_Subset
    <2>2. node.fetch # NoFetch /\ node.fetch <= Cardinality(T)
      BY <1>3, <2>1 DEF NoFetch
    <2>3. FewerOf(node.fetch, Cardinality(S)) = node.fetch /\ FewerOf(node.fetch, Cardinality(T)) = node.fetch
      BY <1>3, <2>1, <2>2 DEF FewerOf
    <2>4. U \subseteq S /\ Cardinality(U) = node.fetch
      BY <1>1, <2>3, LimitedFacts
    <2>5. Limited(T, node) = {V \in SUBSET T : Cardinality(V) = node.fetch}
      BY <1>1, <2>3, LimitedFacts
    <2> QED
      BY <1>1, <2>4, <2>5
  <1> QED
    BY <1>1, <1>2, <1>3

\* Filters on coordinates pass all rows on; those on values keep a part a part.
LEMMA ValuesCovers ==
    ASSUME NEW A, NEW B, Covers(A, B, 0)
    PROVE  Covers({{r \in S : Passes(r)} : S \in A}, {{r \in S : Passes(r)} : S \in B}, 0)
  <1> DEFINE Kept(S) == {r \in S : Passes(r)}
  <1>1. ASSUME NEW S \in A
        PROVE  /\ IsFiniteSet(Kept(S))
               /\ \E T \in B : /\ IsFiniteSet(Kept(T)) /\ Kept(S) \subseteq Kept(T)
                               /\ Cardinality(Kept(S)) >= 0
    <2>1. PICK T \in B : IsFiniteSet(S) /\ IsFiniteSet(T) /\ S \subseteq T
      BY DEF Covers
    <2>2. IsFiniteSet(Kept(S)) /\ IsFiniteSet(Kept(T))
      BY <2>1, FS_Subset
    <2>3. Cardinality(Kept(S)) >= 0
      BY <2>2, FS_CardinalityType
    <2>4. Kept(S) \subseteq Kept(T)
      BY <2>1
    <2> HIDE DEF Kept
    <2> QED
      BY <2>2, <2>3, <2>4
  <1> HIDE DEF Kept
  <1>2. Covers({Kept(S) : S \in A}, {Kept(S) : S \in B}, 0)
    BY <1>1 DEF Covers
  <1> QED
    BY <1>2 DEF Kept

\* A scan with a lower limit.
LEMMA ScanCovers ==
    ASSUME NEW i, NEW f, NEW g, NEW n \in Nat, FewerOf(f, NRows) \in Nat, FewerOf(g, NRows) \in Nat,
           FewerOf(f, NRows) <= FewerOf(g, NRows),
           FewerOf(f, NRows) = FewerOf(g, NRows) \/ FewerOf(f, NRows) >= n
    PROVE  Covers({{i} \X (1 .. FewerOf(f, NRows))}, {{i} \X (1 .. FewerOf(g, NRows))}, n)
  <1> DEFINE a == FewerOf(f, NRows)
             b == FewerOf(g, NRows)
  <1> HIDE DEF a, b
  <1>1. a \in Nat /\ b \in Nat /\ a <= b /\ (a = b \/ a >= n)
    BY DEF a, b
  <1>2. \A k \in Nat : IsFiniteSet({i} \X (1 .. k)) /\ Cardinality({i} \X (1 .. k)) = k
    <2> SUFFICES ASSUME NEW k \in Nat
                 PROVE  IsFiniteSet({i} \X (1 .. k)) /\ Cardinality({i} \X (1 .. k)) = k
      OBVIOUS
    <2>1. IsFiniteSet({i}) /\ Cardinality({i}) = 1
      BY FS_Singleton
    <2>2. IsFiniteSet(1 .. k) /\ Cardinality(1 .. k) = k
      <3>1. 1 \in Int /\ k \in Int
        OBVIOUS
      <3>2. /\ IsFiniteSet(1 .. k)
            /\ Cardinality(1 .. k) = IF 1 > k THEN 0 ELSE k - 1 + 1
        BY <3>1, FS_Interval
      <3> QED
        BY <3>2
    <2>3. /\ IsFiniteSet({i} \X (1 .. k))
          /\ Cardinality({i} \X (1 .. k)) = Cardinality({i}) * Cardinality(1 .. k)
      BY <2>1, <2>2, FS_Product
    <2> QED
      BY <2>1, <2>2, <2>3
  <1>3. {i} \X (1 .. a) \subseteq {i} \X (1 .. b)
    BY <1>1
  <1>4. Covers({{i} \X (1 .. a)}, {{i} \X (1 .. b)}, n)
    BY <1>1, <1>2, <1>3 DEF Covers
  <1> QED
    BY <1>4 DEF a, b

\* The members of finitely many finite sets are finitely many.
LEMMA UnionFinite ==
    ASSUME NEW D, IsFiniteSet(D), NEW f, \A j \in D : IsFiniteSet(f[j])
    PROVE  IsFiniteSet(UNION {f[j] : j \in D})
  <1> DEFINE R == {f[j] : j \in D}
             g == [j \in D |-> f[j]]
  <1>1. g \in Surjection(D, R)
    BY DEF Surjection
  <1>2. IsFiniteSet(R)
    BY <1>1, FS_Surjection
  <1>3. \A T \in R : IsFiniteSet(T)
    OBVIOUS
  <1> QED
    BY <1>2, <1>3, FS_UNION

\* A union of short results is short, but only if one of them is.
LEMMA TogetherCovers ==
    ASSUME NEW D, IsFiniteSet(D), NEW b, NEW c, DOMAIN b = D, DOMAIN c = D, NEW n \in Nat,
           \A j \in D : Covers(b[j], c[j], n)
    PROVE  Covers(Together(b), Together(c), n)
  <1> SUFFICES ASSUME NEW S \in Together(b)
               PROVE  /\ IsFiniteSet(S)
                      /\ \E T \in Together(c) : /\ IsFiniteSet(T) /\ S \subseteq T
                                                /\ S = T \/ Cardinality(S) >= n
    BY DEF Covers
  <1>1. PICK f : OneEach(f, b) /\ S = UNION {f[j] : j \in D}
    BY TogetherIs
  <1> DEFINE Fits(j, T) == /\ T \in c[j] /\ IsFiniteSet(T) /\ f[j] \subseteq T
                           /\ f[j] = T \/ Cardinality(f[j]) >= n
             Pick(j) == CHOOSE T : Fits(j, T)
             g == [j \in D |-> Pick(j)]
  <1>2. \A j \in D : IsFiniteSet(f[j]) /\ \E T : Fits(j, T)
    BY <1>1 DEF Covers, OneEach
  <1>3. \A j \in D : Fits(j, g[j])
    <2> HIDE DEF Fits
    <2>1. \A j \in D : Fits(j, Pick(j))
      BY <1>2
    <2> HIDE DEF Pick
    <2> QED
      BY <2>1
  <1> HIDE DEF Pick
  <1> DEFINE T == UNION {g[j] : j \in D}
  <1> HIDE DEF g
  <1>4. T \in Together(c)
    <2>1. OneEach(g, c)
      <3>1. g = [j \in D |-> g[j]]
        BY DEF g
      <3> QED
        BY <1>3, <3>1, Zenon DEF OneEach
    <2> QED
      BY <2>1, TogetherIs
  <1>5. IsFiniteSet(S) /\ IsFiniteSet(T)
    BY <1>1, <1>2, <1>3, UnionFinite
  <1>6. S \subseteq T
    BY <1>1, <1>3
  <1>7. S = T \/ Cardinality(S) >= n
    <2>1. CASE \A j \in D : f[j] = g[j]
      BY <1>1, <2>1
    <2>2. ASSUME NEW j \in D, f[j] # g[j] PROVE Cardinality(S) >= n
      <3>1. Cardinality(f[j]) >= n /\ f[j] \subseteq S
        BY <1>1, <1>3, <2>2
      <3>2. Cardinality(f[j]) \in Nat /\ Cardinality(S) \in Nat
        BY <1>2, <1>5, FS_CardinalityType
      <3>3. Cardinality(f[j]) <= Cardinality(S)
        BY <1>5, <3>1, FS_Subset
      <3> QED
        BY <3>1, <3>2, <3>3
    <2> QED
      BY <2>1, <2>2
  <1> QED
    BY <1>4, <1>5, <1>6, <1>7

-----------------------------------------------------------------------------
(* Trees. *)

\* A set of numbers up to n has a last one.
LEMMA LastOf ==
    ASSUME NEW n \in Nat, NEW T \in SUBSET (1 .. n), T # {}
    PROVE  \E m \in T : \A x \in T : x <= m
  <1> DEFINE R == {n - x : x \in T}
  <1>1. R \subseteq Nat /\ R # {}
    <2>1. \A x \in T : n - x \in Nat
      OBVIOUS
    <2> QED
      BY <2>1
  <1>2. PICK r \in R : \A y \in R : r <= y
    BY <1>1, LeastNat
  <1>3. PICK m \in T : r = n - m
    BY <1>2
  <1>4. \A x \in T : n - m <= n - x
    BY <1>2, <1>3
  <1> QED
    BY <1>4

\* The nodes of a plan.
LEMMA NodeFacts ==
    ASSUME NEW pl, PlanOK(pl)
    PROVE  /\ Len(pl) \in Nat \ {0} /\ DOMAIN pl = 1 .. Len(pl)
           /\ \A i \in DOMAIN pl :
                 /\ pl[i] \in [op : {"zarr", "limit", "topk", "coords", "values", "count", "union"},
                               fetch : Nat \cup {NoFetch}, skip : Nat, parent : Nat]
                 /\ pl[i].parent = 0 <=> i = 1
                 /\ i # 1 => pl[i].parent \in 1 .. i - 1
  <1>1. Len(pl) \in Nat \ {0} /\ DOMAIN pl = 1 .. Len(pl)
    BY DEF PlanOK
  <1>2. ASSUME NEW i \in DOMAIN pl
        PROVE  pl[i] \in [op : {"zarr", "limit", "topk", "coords", "values", "count", "union"},
                          fetch : Nat \cup {NoFetch}, skip : Nat, parent : Nat]
    <2> DEFINE N == [op : {"zarr", "limit", "topk", "coords", "values", "count", "union"},
                     fetch : Nat \cup {NoFetch}, skip : Nat, parent : Nat]
    <2>1. pl \in Seq(N)
      BY DEF PlanOK
    <2> HIDE DEF N
    <2>2. pl[i] \in N
      BY <2>1
    <2> QED
      BY <2>2 DEF N
  <1>3. ASSUME NEW i \in DOMAIN pl
        PROVE  (pl[i].parent = 0 <=> i = 1) /\ (i # 1 => pl[i].parent \in 1 .. i - 1)
    <2>1. IF i = 1 THEN pl[i].parent = 0 ELSE pl[i].parent \in 1 .. i - 1
      BY DEF PlanOK
    <2> QED
      BY <1>1, <2>1
  <1> QED
    BY <1>1, <1>2, <1>3

\* Children come later than their parent.
LEMMA ChildFacts ==
    ASSUME NEW pl, PlanOK(pl), NEW i \in DOMAIN pl
    PROVE  /\ Children(pl, i) \subseteq i + 1 .. Len(pl)
           /\ \A j \in Children(pl, i) : j \in DOMAIN pl /\ pl[j].parent = i
           /\ IsFiniteSet(Children(pl, i))
           /\ pl[i].op = "zarr" <=> Children(pl, i) = {}
  <1>1. \A j \in Children(pl, i) : j \in DOMAIN pl /\ pl[j].parent = i
    BY DEF Children
  <1>2. Children(pl, i) \subseteq i + 1 .. Len(pl)
    <2> SUFFICES ASSUME NEW j \in Children(pl, i) PROVE j \in i + 1 .. Len(pl)
      OBVIOUS
    <2>1. j \in 1 .. Len(pl) /\ i \in 1 .. Len(pl) /\ pl[j].parent = i
      BY <1>1, NodeFacts
    <2>2. j # 1 /\ pl[j].parent \in 1 .. j - 1
      BY <1>1, <2>1, NodeFacts
    <2> QED
      BY <2>1, <2>2
  <1>3. IsFiniteSet(Children(pl, i))
    <2>1. i + 1 \in Int /\ Len(pl) \in Int
      BY NodeFacts
    <2>2. IsFiniteSet(i + 1 .. Len(pl))
      BY <2>1, FS_Interval
    <2> QED
      BY <1>2, <2>2, FS_Subset
  <1>4. pl[i].op = "zarr" <=> Children(pl, i) = {}
    BY DEF PlanOK
  <1> QED
    BY <1>1, <1>2, <1>3, <1>4

\* The results of the children of a node.
Sub(f, pl, i) == [j \in Children(pl, i) |-> f[j]]

\* f gives the results of the nodes from n on.
IsOut(f, n, pl) == f = [i \in n .. Len(pl) |-> NodeResults(i, pl[i], Sub(f, pl, i))]

\* One more node.
LEMMA OutStep ==
    ASSUME NEW pl, PlanOK(pl), NEW m \in 1 .. Len(pl), NEW f, IsOut(f, m + 1, pl)
    PROVE  \E g : IsOut(g, m, pl)
  <1> DEFINE R(i) == NodeResults(i, pl[i], Sub(f, pl, i))
             g == [i \in m .. Len(pl) |-> R(i)]
  <1>1. \A i \in m + 1 .. Len(pl) : f[i] = R(i)
    <2> HIDE DEF R
    <2>1. f = [i \in m + 1 .. Len(pl) |-> R(i)]
      BY DEF IsOut, R
    <2> QED
      BY <2>1
  <1>2. m \in Nat /\ Len(pl) \in Nat /\ DOMAIN pl = 1 .. Len(pl)
    BY NodeFacts
  <1>3. \A i \in m .. Len(pl) : Sub(f, pl, i) = Sub(g, pl, i)
    <2> SUFFICES ASSUME NEW i \in m .. Len(pl) PROVE Sub(f, pl, i) = Sub(g, pl, i)
      OBVIOUS
    <2>1. i \in DOMAIN pl
      BY <1>2
    <2>2. Children(pl, i) \subseteq i + 1 .. Len(pl)
      BY <2>1, ChildFacts
    <2>3. \A j \in Children(pl, i) : j \in m + 1 .. Len(pl) /\ j \in m .. Len(pl)
      BY <1>2, <2>2
    <2> HIDE DEF R
    <2>4. \A j \in Children(pl, i) : f[j] = g[j]
      BY <1>1, <2>3
    <2> HIDE DEF g
    <2> QED
      BY <2>4 DEF Sub
  <1>4. \A i \in m .. Len(pl) : R(i) = NodeResults(i, pl[i], Sub(g, pl, i))
    <2> HIDE DEF g
    <2> QED
      BY <1>3
  <1>5. IsOut(g, m, pl)
    <2> DEFINE Q(i) == NodeResults(i, pl[i], Sub(g, pl, i))
    <2>1. g = [i \in m .. Len(pl) |-> R(i)]
      OBVIOUS
    <2>2. \A i \in m .. Len(pl) : R(i) = Q(i)
      BY <1>4
    <2> HIDE DEF R, g, Q
    <2>3. g = [i \in m .. Len(pl) |-> Q(i)]
      BY <2>1, <2>2
    <2> QED
      BY <2>3 DEF IsOut, Q
  <1> QED
    BY <1>5

\* Every node has results, which Results takes from the root.
LEMMA ResultsAre ==
    ASSUME NEW pl, PlanOK(pl)
    PROVE  \E f : /\ \A i \in DOMAIN pl : f[i] = NodeResults(i, pl[i], Sub(f, pl, i))
                  /\ Results(pl) = f[1]
  <1>1. Len(pl) \in Nat \ {0} /\ DOMAIN pl = 1 .. Len(pl)
    BY NodeFacts
  <1> DEFINE Bad == {m \in 1 .. Len(pl) + 1 : ~ \E f : IsOut(f, m, pl)}
  <1>2. Bad = {}
    <2> SUFFICES ASSUME Bad # {} PROVE FALSE
      OBVIOUS
    <2>1. Len(pl) + 1 \in Nat /\ Bad \in SUBSET (1 .. Len(pl) + 1)
      BY <1>1
    <2>2. PICK m \in Bad : \A x \in Bad : x <= m
      BY <2>1, LastOf
    <2>3. CASE m = Len(pl) + 1
      <3>1. Len(pl) + 1 .. Len(pl) = {}
        BY <1>1
      <3>2. IsOut([i \in {} |-> {}], Len(pl) + 1, pl)
        BY <3>1 DEF IsOut
      <3> QED
        BY <2>2, <2>3, <3>2
    <2>4. CASE m # Len(pl) + 1
      <3>1. m \in 1 .. Len(pl) /\ m + 1 \in 1 .. Len(pl) + 1 /\ m + 1 > m
        BY <1>1, <2>2, <2>4
      <3>2. m + 1 \notin Bad
        BY <2>2, <3>1
      <3> QED
        BY <2>2, <3>1, <3>2, OutStep
    <2> QED
      BY <2>3, <2>4
  <1>3. \E f : IsOut(f, 1, pl)
    <2>1. 1 \in 1 .. Len(pl) + 1
      BY <1>1
    <2> QED
      BY <1>2, <2>1
  <1> DEFINE f == CHOOSE f : IsOut(f, 1, pl)
  <1>4. IsOut(f, 1, pl)
    BY <1>3
  <1>5. Results(pl) = f[1]
    BY <1>1, Zenon DEF Results, IsOut, Sub
  <1> HIDE DEF f
  <1>6. ASSUME NEW i \in DOMAIN pl PROVE f[i] = NodeResults(i, pl[i], Sub(f, pl, i))
    <2> DEFINE R(k) == NodeResults(k, pl[k], Sub(f, pl, k))
    <2>1. f = [k \in 1 .. Len(pl) |-> R(k)]
      BY <1>4 DEF IsOut
    <2> HIDE DEF R
    <2>2. f[i] = R(i)
      BY <1>1, <2>1
    <2> QED
      BY <2>2 DEF R
  <1> QED
    BY <1>5, <1>6

-----------------------------------------------------------------------------
(* Ancestors. *)

\* The nodes above node i, given those above its parent.
Above(f, pl, i) == IF pl[i].parent = 0 THEN {} ELSE {pl[i].parent} \cup f[pl[i].parent]

\* f gives the ancestors of the first n nodes.
IsAnc(f, n, pl) == f = [i \in 1 .. n |-> Above(f, pl, i)]

\* One more node.
LEMMA AncStep ==
    ASSUME NEW pl, PlanOK(pl), NEW m \in 1 .. Len(pl), NEW f, IsAnc(f, m - 1, pl)
    PROVE  \E g : IsAnc(g, m, pl)
  <1> DEFINE R(i) == Above(f, pl, i)
             g == [i \in 1 .. m |-> R(i)]
  <1>1. \A i \in 1 .. m - 1 : f[i] = R(i)
    <2> HIDE DEF R
    <2>1. f = [i \in 1 .. m - 1 |-> R(i)]
      BY DEF IsAnc, R
    <2> QED
      BY <2>1
  <1>2. m \in Nat /\ Len(pl) \in Nat /\ DOMAIN pl = 1 .. Len(pl)
    BY NodeFacts
  <1>3. \A i \in 1 .. m : R(i) = Above(g, pl, i)
    <2> SUFFICES ASSUME NEW i \in 1 .. m, pl[i].parent # 0 PROVE f[pl[i].parent] = g[pl[i].parent]
      BY DEF Above
    <2>1. i \in DOMAIN pl
      BY <1>2
    <2>2. pl[i].parent \in 1 .. i - 1
      BY <2>1, NodeFacts
    <2>3. pl[i].parent \in 1 .. m - 1 /\ pl[i].parent \in 1 .. m
      BY <1>2, <2>2
    <2> HIDE DEF R
    <2> QED
      BY <1>1, <2>3
  <1>4. IsAnc(g, m, pl)
    <2> DEFINE Q(i) == Above(g, pl, i)
    <2>1. g = [i \in 1 .. m |-> R(i)]
      OBVIOUS
    <2>2. \A i \in 1 .. m : R(i) = Q(i)
      BY <1>3
    <2> HIDE DEF R, g, Q
    <2>3. g = [i \in 1 .. m |-> Q(i)]
      BY <2>1, <2>2
    <2> QED
      BY <2>3 DEF IsAnc, Q
  <1> QED
    BY <1>4

\* The ancestors of a node are its parent and those of its parent.
LEMMA AncestorsAre ==
    ASSUME NEW pl, PlanOK(pl), NEW i \in DOMAIN pl
    PROVE  Ancestors(pl)[i] = Above(Ancestors(pl), pl, i)
  <1>1. Len(pl) \in Nat \ {0} /\ DOMAIN pl = 1 .. Len(pl)
    BY NodeFacts
  <1> DEFINE Bad == {m \in 0 .. Len(pl) : ~ \E f : IsAnc(f, m, pl)}
  <1>2. Bad = {}
    <2> SUFFICES ASSUME Bad # {} PROVE FALSE
      OBVIOUS
    <2>1. Bad \subseteq Nat
      BY <1>1
    <2>2. PICK m \in Bad : \A x \in Bad : m <= x
      BY <2>1, LeastNat
    <2>3. CASE m = 0
      <3>1. 1 .. 0 = {}
        OBVIOUS
      <3>2. IsAnc([k \in {} |-> {}], 0, pl)
        BY <3>1 DEF IsAnc
      <3> QED
        BY <2>2, <2>3, <3>2
    <2>4. CASE m # 0
      <3>1. m \in 1 .. Len(pl) /\ m - 1 \in 0 .. Len(pl) /\ m - 1 < m
        BY <1>1, <2>2, <2>4
      <3>2. m - 1 \notin Bad
        BY <2>2, <3>1
      <3> QED
        BY <2>2, <3>1, <3>2, AncStep
    <2> QED
      BY <2>3, <2>4
  <1>3. \E f : IsAnc(f, Len(pl), pl)
    <2>1. Len(pl) \in 0 .. Len(pl)
      BY <1>1
    <2> QED
      BY <1>2, <2>1
  <1> DEFINE f == CHOOSE f : IsAnc(f, Len(pl), pl)
  <1>4. IsAnc(f, Len(pl), pl)
    BY <1>3
  <1>5. Ancestors(pl) = f
    BY <1>1, Zenon DEF Ancestors, IsAnc, Above
  <1> HIDE DEF f
  <1>6. f[i] = Above(f, pl, i)
    <2> DEFINE R(k) == Above(f, pl, k)
    <2>1. f = [k \in 1 .. Len(pl) |-> R(k)]
      BY <1>4 DEF IsAnc
    <2> HIDE DEF R
    <2>2. f[i] = R(i)
      BY <1>1, <2>1
    <2> QED
      BY <2>2 DEF R
  <1> QED
    BY <1>5, <1>6

\* Ancestors come earlier, and theirs are ancestors too.
LEMMA AncestorFacts ==
    ASSUME NEW pl, PlanOK(pl), NEW i \in DOMAIN pl
    PROVE  /\ Ancestors(pl)[i] \subseteq 1 .. i - 1
           /\ \A j \in Ancestors(pl)[i] : Ancestors(pl)[j] \subseteq Ancestors(pl)[i]
  <1>1. Len(pl) \in Nat \ {0} /\ DOMAIN pl = 1 .. Len(pl)
    BY NodeFacts
  <1> DEFINE Anc(k) == Ancestors(pl)[k]
             Good(k) == Anc(k) \subseteq 1 .. k - 1 /\ \A j \in Anc(k) : Anc(j) \subseteq Anc(k)
             Bad == {k \in 1 .. Len(pl) : ~Good(k)}
  <1>2. \A k \in 1 .. Len(pl) :
            Anc(k) = IF k = 1 THEN {} ELSE {pl[k].parent} \cup Anc(pl[k].parent)
    <2> SUFFICES ASSUME NEW k \in DOMAIN pl
                 PROVE  Anc(k) = IF k = 1 THEN {} ELSE {pl[k].parent} \cup Anc(pl[k].parent)
      BY <1>1
    <2>1. Ancestors(pl)[k] = Above(Ancestors(pl), pl, k)
      BY AncestorsAre
    <2>2. pl[k].parent = 0 <=> k = 1
      BY NodeFacts
    <2> QED
      BY <2>1, <2>2 DEF Above
  <1>3. \A k \in 1 .. Len(pl) : k # 1 => pl[k].parent \in 1 .. k - 1
    BY <1>1, NodeFacts
  <1> HIDE DEF Anc
  <1>4. Bad = {}
    <2> SUFFICES ASSUME Bad # {} PROVE FALSE
      OBVIOUS
    <2>0. Bad \subseteq Nat
      BY <1>1
    <2>1. PICK m \in Bad : \A x \in Bad : m <= x
      <3> HIDE DEF Bad
      <3> QED
        BY <2>0, LeastNat
    <2>2. m \in 1 .. Len(pl) /\ ~Good(m)
      BY <2>1
    <2>3. m # 1
      BY <1>2, <2>2
    <2> DEFINE p == pl[m].parent
    <2>4. p \in 1 .. m - 1 /\ p \in 1 .. Len(pl) /\ p < m
      BY <1>1, <1>3, <2>2, <2>3
    <2>5. Anc(m) = {p} \cup Anc(p)
      BY <1>2, <2>2, <2>3
    <2> HIDE DEF p
    <2>6. Good(p)
      <3> HIDE DEF Good
      <3> QED
        BY <2>1, <2>2, <2>4
    <2>7. Anc(m) \subseteq 1 .. m - 1
      BY <2>2, <2>4, <2>5, <2>6
    <2>8. \A j \in Anc(m) : Anc(j) \subseteq Anc(m)
      BY <2>5, <2>6
    <2> QED
      BY <2>2, <2>7, <2>8
  <1>5. Good(i)
    BY <1>1, <1>4
  <1> QED
    BY <1>5 DEF Anc

-----------------------------------------------------------------------------
(* The rule. *)

\* The limits of a plan.
LEMMA LimitsFacts ==
    ASSUME NEW pl, PlanOK(pl)
    PROVE  /\ FindLimitAnywhere(pl) \subseteq Nat
           /\ \A l : l \in FindLimitAnywhere(pl) <=>
                 \E i \in DOMAIN pl : pl[i].op = "limit" /\ pl[i].fetch # NoFetch /\ pl[i].fetch = l
  <1>1. \A l : l \in FindLimitAnywhere(pl) <=>
            \E i \in DOMAIN pl : pl[i].op = "limit" /\ pl[i].fetch # NoFetch /\ pl[i].fetch = l
    BY DEF FindLimitAnywhere, ExtractLimitFromNode
  <1>2. ASSUME NEW l \in FindLimitAnywhere(pl) PROVE l \in Nat
    <2>1. PICK i \in DOMAIN pl : pl[i].fetch # NoFetch /\ pl[i].fetch = l
      BY <1>1
    <2>2. pl[i].fetch \in Nat \cup {NoFetch}
      BY NodeFacts
    <2> QED
      BY <2>1, <2>2
  <1> QED
    BY <1>1, <1>2

\* The limits that reach node i.
Reaching(pl, limits, i) ==
    (IF limits = {} THEN {} ELSE {Min(limits)})
    \cup UNION {ExtractLimitFromNode(pl[j]) : j \in Ancestors(pl)[i]}

\* The limit found first is the least, so no LIMIT above a scan lowers it more.
LEMMA ReachingFacts ==
    ASSUME NEW pl, PlanOK(pl), NEW i \in DOMAIN pl
    PROVE  LET limits == FindLimitAnywhere(pl)
           IN /\ limits = {} => Reaching(pl, limits, i) = {}
              /\ limits # {} => /\ Reaching(pl, limits, i) # {}
                                /\ Min(Reaching(pl, limits, i)) = Min(limits)
  <1> DEFINE limits == FindLimitAnywhere(pl)
             X == UNION {ExtractLimitFromNode(pl[j]) : j \in Ancestors(pl)[i]}
             In == Reaching(pl, limits, i)
  <1>1. X \subseteq limits
    <2>1. Ancestors(pl)[i] \subseteq DOMAIN pl
      <3>1. Ancestors(pl)[i] \subseteq 1 .. i - 1
        BY AncestorFacts
      <3>2. DOMAIN pl = 1 .. Len(pl) /\ Len(pl) \in Nat
        BY NodeFacts
      <3> QED
        BY <3>1, <3>2
    <2> QED
      BY <2>1 DEF FindLimitAnywhere
  <1>2. limits \subseteq Nat
    BY LimitsFacts
  <1>3. In = (IF limits = {} THEN {} ELSE {Min(limits)}) \cup X
    BY DEF Reaching
  <1> HIDE DEF limits, X, In
  <1>4. CASE limits = {}
    BY <1>1, <1>3, <1>4 DEF limits, In
  <1>5. CASE limits # {}
    <2>1. Min(limits) \in limits /\ \A m \in limits : Min(limits) <= m
      BY <1>2, <1>5, MinFacts
    <2>2. In \subseteq limits /\ Min(limits) \in In
      BY <1>1, <1>3, <1>5, <2>1
    <2>3. In \subseteq Nat /\ In # {}
      BY <1>2, <2>2
    <2>4. Min(In) \in In /\ \A m \in In : Min(In) <= m
      BY <2>3, MinFacts
    <2>5. Min(In) <= Min(limits) /\ Min(limits) <= Min(In)
      BY <2>1, <2>2, <2>4
    <2>6. Min(In) \in Nat /\ Min(limits) \in Nat
      BY <1>2, <2>1, <2>3, <2>4
    <2>7. Min(In) = Min(limits)
      BY <2>5, <2>6
    <2> QED
      BY <1>5, <2>3, <2>7 DEF limits, In
  <1> QED
    BY <1>4, <1>5 DEF limits

\* The limit a ZarrExec ends up with.
Lower(fetch, n) == IF fetch = NoFetch \/ n < fetch THEN n ELSE fetch

\* The rewritten plan.
LEMMA PushFacts ==
    ASSUME NEW pl, PlanOK(pl)
    PROVE  LET limits == FindLimitAnywhere(pl)
               q == PushLimitToZarr(pl, limits)
           IN /\ DOMAIN q = DOMAIN pl
              /\ \A i \in DOMAIN pl :
                    /\ pl[i].op # "zarr" \/ limits = {} => q[i] = pl[i]
                    /\ pl[i].op = "zarr" /\ limits # {} =>
                          q[i] = [pl[i] EXCEPT !.fetch = Lower(pl[i].fetch, Min(limits))]
  <1> DEFINE limits == FindLimitAnywhere(pl)
             q == PushLimitToZarr(pl, limits)
             In(i) == Reaching(pl, limits, i)
             Should(i) == In(i) # {} /\ (pl[i].fetch = NoFetch \/ Min(In(i)) < pl[i].fetch)
             Node(i) == IF pl[i].op = "zarr" /\ Should(i)
                        THEN [pl[i] EXCEPT !.fetch = Min(In(i))] ELSE pl[i]
  <1>1. q = [i \in DOMAIN pl |-> Node(i)]
    BY Zenon DEF PushLimitToZarr, Reaching
  <1>2. \A i \in DOMAIN pl : /\ limits = {} => In(i) = {}
                             /\ limits # {} => In(i) # {} /\ Min(In(i)) = Min(limits)
    BY ReachingFacts
  <1> HIDE DEF Node, q
  <1>3. DOMAIN q = DOMAIN pl /\ \A i \in DOMAIN pl : q[i] = Node(i)
    BY <1>1
  <1> HIDE DEF limits, In
  <1>4. ASSUME NEW i \in DOMAIN pl
        PROVE  /\ pl[i].op # "zarr" \/ limits = {} => q[i] = pl[i]
               /\ pl[i].op = "zarr" /\ limits # {} =>
                     q[i] = [pl[i] EXCEPT !.fetch = Lower(pl[i].fetch, Min(limits))]
    <2>1. pl[i].op # "zarr" \/ limits = {} => q[i] = pl[i]
      BY <1>2, <1>3 DEF Node
    <2>2. ASSUME pl[i].op = "zarr", limits # {}
          PROVE  q[i] = [pl[i] EXCEPT !.fetch = Lower(pl[i].fetch, Min(limits))]
      <3>1. In(i) # {} /\ Min(In(i)) = Min(limits)
        BY <1>2, <2>2
      <3>2. CASE pl[i].fetch = NoFetch \/ Min(limits) < pl[i].fetch
        <4>1. Lower(pl[i].fetch, Min(limits)) = Min(limits)
          BY <3>2 DEF Lower
        <4> QED
          BY <1>3, <2>2, <3>1, <3>2, <4>1 DEF Node
      <3>3. CASE ~(pl[i].fetch = NoFetch \/ Min(limits) < pl[i].fetch)
        <4>1. q[i] = pl[i]
          BY <1>3, <2>2, <3>1, <3>3 DEF Node
        <4>2. Lower(pl[i].fetch, Min(limits)) = pl[i].fetch
          BY <3>3 DEF Lower
        <4>3. pl[i] = [pl[i] EXCEPT !.fetch = pl[i].fetch]
          BY NodeFacts
        <4> QED
          BY <4>1, <4>2, <4>3
      <3> QED
        BY <3>2, <3>3
    <2> QED
      BY <2>1, <2>2
  <1> QED
    BY <1>3, <1>4 DEF limits, q

\* q is pl with lower limits in its scans, though none below n rows.
Lowered(q, pl, n) ==
    /\ DOMAIN q = DOMAIN pl
    /\ \A i \in DOMAIN pl :
          /\ q[i].op = pl[i].op /\ q[i].parent = pl[i].parent
          /\ pl[i].op # "zarr" => q[i] = pl[i]
          /\ pl[i].op = "zarr" =>
                /\ FewerOf(q[i].fetch, NRows) <= FewerOf(pl[i].fetch, NRows)
                /\ \/ FewerOf(q[i].fetch, NRows) = FewerOf(pl[i].fetch, NRows)
                   \/ FewerOf(q[i].fetch, NRows) >= n
                /\ FewerOf(q[i].fetch, NRows) \in Nat /\ FewerOf(pl[i].fetch, NRows) \in Nat

\* A lowered limit cuts a scan to n rows at least.
LEMMA LowerFacts ==
    ASSUME NEW f \in Nat \cup {NoFetch}, NEW n \in Nat
    PROVE  /\ Lower(f, n) \in Nat
           /\ FewerOf(Lower(f, n), NRows) \in Nat /\ FewerOf(f, NRows) \in Nat
           /\ FewerOf(Lower(f, n), NRows) <= FewerOf(f, NRows)
           /\ \/ FewerOf(Lower(f, n), NRows) = FewerOf(f, NRows)
              \/ FewerOf(Lower(f, n), NRows) >= n
  BY NRowsAssumption DEF Lower, FewerOf, NoFetch

\* What the rule does to a plan with a limit.
LEMMA PushLowers ==
    ASSUME NEW pl, PlanOK(pl), FindLimitAnywhere(pl) # {}
    PROVE  LET q == PushLimitToZarr(pl, FindLimitAnywhere(pl))
           IN PlanOK(q) /\ Lowered(q, pl, Min(FindLimitAnywhere(pl)))
  <1> DEFINE n == Min(FindLimitAnywhere(pl))
             q == PushLimitToZarr(pl, FindLimitAnywhere(pl))
             N == [op : {"zarr", "limit", "topk", "coords", "values", "count", "union"},
                   fetch : Nat \cup {NoFetch}, skip : Nat, parent : Nat]
  <1>1. n \in Nat
    BY LimitsFacts, MinFacts
  <1>2. /\ DOMAIN q = DOMAIN pl
        /\ \A i \in DOMAIN pl :
              /\ pl[i].op # "zarr" => q[i] = pl[i]
              /\ pl[i].op = "zarr" => q[i] = [pl[i] EXCEPT !.fetch = Lower(pl[i].fetch, n)]
    BY PushFacts
  <1>3. Len(pl) \in Nat \ {0} /\ DOMAIN pl = 1 .. Len(pl) /\ \A i \in DOMAIN pl : pl[i] \in N
    BY NodeFacts
  <1> HIDE DEF n, q
  <1>4. ASSUME NEW i \in DOMAIN pl
        PROVE  /\ q[i] \in N /\ q[i].op = pl[i].op /\ q[i].parent = pl[i].parent
               /\ pl[i].op = "zarr" => q[i].fetch = Lower(pl[i].fetch, n)
    <2>1. CASE pl[i].op # "zarr"
      BY <1>2, <1>3, <2>1
    <2>2. CASE pl[i].op = "zarr"
      <3>1. pl[i] \in N /\ Lower(pl[i].fetch, n) \in Nat
        BY <1>1, <1>3, LowerFacts
      <3>2. q[i] = [pl[i] EXCEPT !.fetch = Lower(pl[i].fetch, n)]
        BY <1>2, <2>2
      <3> QED
        BY <3>1, <3>2
    <2> QED
      BY <2>1, <2>2
  <1>5. Lowered(q, pl, n)
    <2> SUFFICES ASSUME NEW i \in DOMAIN pl, pl[i].op = "zarr"
                 PROVE  /\ FewerOf(q[i].fetch, NRows) <= FewerOf(pl[i].fetch, NRows)
                        /\ \/ FewerOf(q[i].fetch, NRows) = FewerOf(pl[i].fetch, NRows)
                           \/ FewerOf(q[i].fetch, NRows) >= n
                        /\ FewerOf(q[i].fetch, NRows) \in Nat /\ FewerOf(pl[i].fetch, NRows) \in Nat
      BY <1>2, <1>4 DEF Lowered
    <2>1. q[i].fetch = Lower(pl[i].fetch, n) /\ pl[i].fetch \in Nat \cup {NoFetch}
      BY <1>3, <1>4
    <2> QED
      BY <1>1, <2>1, LowerFacts
  <1>6. \A i \in DOMAIN pl : Children(q, i) = Children(pl, i)
    BY <1>2, <1>4 DEF Children
  <1>7. PlanOK(q)
    <2>1. q = [i \in 1 .. Len(pl) |-> q[i]]
      <3>1. q = [i \in DOMAIN pl |-> q[i]]
        BY Zenon DEF q, PushLimitToZarr
      <3> QED
        BY <1>3, <3>1
    <2> HIDE DEF N
    <2>2. q \in [1 .. Len(pl) -> N]
      BY <1>3, <1>4, <2>1
    <2>3. q \in Seq(N) /\ q # <<>>
      BY <1>3, <2>2, FunIsSeq
    <2>4. ASSUME NEW i \in DOMAIN q
          PROVE  /\ IF i = 1 THEN q[i].parent = 0 ELSE q[i].parent \in 1 .. i - 1
                 /\ q[i].op = "zarr" <=> Children(q, i) = {}
                 /\ q[i].op # "union" => \A j, k \in Children(q, i) : j = k
      BY <1>2, <1>4, <1>6 DEF PlanOK
    <2> QED
      BY <2>3, <2>4 DEF PlanOK, N
  <1> QED
    BY <1>5, <1>7 DEF n, q

\* Without a limit the rule does nothing.
LEMMA PushNothing ==
    ASSUME NEW pl, PlanOK(pl), FindLimitAnywhere(pl) = {}
    PROVE  PushLimitToZarr(pl, FindLimitAnywhere(pl)) = pl
  <1> DEFINE q == PushLimitToZarr(pl, FindLimitAnywhere(pl))
  <1>1. DOMAIN q = DOMAIN pl /\ \A i \in DOMAIN pl : q[i] = pl[i]
    BY PushFacts
  <1>2. q = [i \in DOMAIN pl |-> q[i]]
    BY Zenon DEF PushLimitToZarr
  <1>3. pl = [i \in DOMAIN pl |-> pl[i]]
    BY DEF PlanOK
  <1> HIDE DEF q
  <1>4. q = pl
    BY <1>1, <1>2, <1>3
  <1> QED
    BY <1>4 DEF q

-----------------------------------------------------------------------------
(* Up the tree. *)

\* One node, other than a scan, over short results.
LEMMA NodeCovers ==
    ASSUME NEW i, NEW node, NEW n \in Nat, NEW D, IsFiniteSet(D), D # {},
           NEW b, NEW c, DOMAIN b = D, DOMAIN c = D, \A j \in D : Covers(b[j], c[j], n),
           node.fetch \in Nat \cup {NoFetch},
           \/ node.op = "limit" /\ node.skip = 0 /\ (node.fetch = NoFetch \/ n <= node.fetch)
           \/ node.op \in {"coords", "union"}
           \/ node.op = "values" /\ n = 0
    PROVE  Covers(NodeResults(i, node, b), NodeResults(i, node, c), n)
  <1>1. Covers(Input(b), Input(c), n)
    <2>1. (CHOOSE j \in D : TRUE) \in D
      OBVIOUS
    <2> QED
      BY <2>1 DEF Input
  <1>2. CASE node.op = "limit"
    <2>1. NodeResults(i, node, b) = UNION {Limited(S, node) : S \in Input(b)}
      BY <1>2, LimitIs
    <2>2. NodeResults(i, node, c) = UNION {Limited(S, node) : S \in Input(c)}
      BY <1>2, LimitIs
    <2>3. node.skip = 0 /\ (node.fetch = NoFetch \/ n <= node.fetch)
      BY <1>2
    <2>4. Covers(UNION {Limited(S, node) : S \in Input(b)}, UNION {Limited(S, node) : S \in Input(c)}, n)
      BY <1>1, <2>3, LimitCovers
    <2> QED
      BY <2>1, <2>2, <2>4
  <1>3. CASE node.op = "coords"
    BY <1>1, <1>3, CoordsIs
  <1>4. CASE node.op = "values" /\ n = 0
    <2>1. NodeResults(i, node, b) = {{r \in S : Passes(r)} : S \in Input(b)}
      BY <1>4, ValuesIs
    <2>2. NodeResults(i, node, c) = {{r \in S : Passes(r)} : S \in Input(c)}
      BY <1>4, ValuesIs
    <2>3. Covers({{r \in S : Passes(r)} : S \in Input(b)}, {{r \in S : Passes(r)} : S \in Input(c)}, 0)
      BY <1>1, <1>4, ValuesCovers
    <2> QED
      BY <1>4, <2>1, <2>2, <2>3
  <1>5. CASE node.op = "union"
    <2>1. Covers(Together(b), Together(c), n)
      BY TogetherCovers
    <2> QED
      BY <1>5, <2>1, UnionIs
  <1> QED
    BY <1>2, <1>3, <1>4, <1>5

\* Node i of the rewritten plan, with the operator of the given one.
LEMMA TreeCovers ==
    ASSUME NEW pl, PlanOK(pl), NEW q, PlanOK(q), NEW n \in Nat, Lowered(q, pl, n),
           NEW f, NEW g,
           \A i \in DOMAIN q : f[i] = NodeResults(i, q[i], Sub(f, q, i)),
           \A i \in DOMAIN pl : g[i] = NodeResults(i, pl[i], Sub(g, pl, i)),
           NEW i \in DOMAIN pl, \A j \in Children(pl, i) : Covers(f[j], g[j], n),
           \/ pl[i].op = "limit" /\ pl[i].skip = 0 /\ (pl[i].fetch = NoFetch \/ n <= pl[i].fetch)
           \/ pl[i].op \in {"zarr", "coords", "union"}
           \/ pl[i].op = "values" /\ n = 0
    PROVE  Covers(f[i], g[i], n)
  <1>1. i \in DOMAIN q /\ Children(q, i) = Children(pl, i)
    BY DEF Lowered, Children
  <1>2. CASE pl[i].op = "zarr"
    <2>1. q[i].op = "zarr"
      BY <1>2 DEF Lowered
    <2>2. f[i] = {{i} \X (1 .. FewerOf(q[i].fetch, NRows))}
      BY <1>1, <2>1, ZarrIs
    <2>3. g[i] = {{i} \X (1 .. FewerOf(pl[i].fetch, NRows))}
      BY <1>2, ZarrIs
    <2>4. /\ FewerOf(q[i].fetch, NRows) \in Nat /\ FewerOf(pl[i].fetch, NRows) \in Nat
          /\ FewerOf(q[i].fetch, NRows) <= FewerOf(pl[i].fetch, NRows)
          /\ \/ FewerOf(q[i].fetch, NRows) = FewerOf(pl[i].fetch, NRows)
             \/ FewerOf(q[i].fetch, NRows) >= n
      BY <1>2 DEF Lowered
    <2>5. Covers({{i} \X (1 .. FewerOf(q[i].fetch, NRows))},
                 {{i} \X (1 .. FewerOf(pl[i].fetch, NRows))}, n)
      BY <2>4, ScanCovers
    <2> QED
      BY <2>2, <2>3, <2>5
  <1>3. CASE pl[i].op # "zarr"
    <2> DEFINE D == Children(pl, i)
               b == Sub(f, q, i)
               c == Sub(g, pl, i)
    <2>1. IsFiniteSet(D) /\ D # {}
      BY <1>3, ChildFacts
    <2>2. DOMAIN b = D /\ DOMAIN c = D /\ \A j \in D : b[j] = f[j] /\ c[j] = g[j]
      BY <1>1 DEF Sub
    <2>3. f[i] = NodeResults(i, pl[i], b) /\ g[i] = NodeResults(i, pl[i], c)
      BY <1>1, <1>3 DEF Lowered
    <2>4. pl[i].fetch \in Nat \cup {NoFetch}
      BY NodeFacts
    <2> HIDE DEF D, b, c
    <2>5. \A j \in D : Covers(b[j], c[j], n)
      BY <2>2 DEF D
    <2>6. Covers(NodeResults(i, pl[i], b), NodeResults(i, pl[i], c), n)
      BY <1>3, <2>1, <2>2, <2>4, <2>5, NodeCovers
    <2> QED
      BY <2>3, <2>6
  <1> QED
    BY <1>2, <1>3

\* What the rule makes of a plan that nothing counts, sorts or skips in.
LEMMA PartOfAnAnswer ==
    ASSUME NEW pl, PlanOK(pl),
           \A i \in DOMAIN pl : pl[i].op \notin {"count", "topk"} /\ pl[i].skip = 0,
           NEW S \in Results(PushLimitToZarr(pl, FindLimitAnywhere(pl)))
    PROVE  \E T \in Results(pl) : S \subseteq T
  <1> DEFINE q == PushLimitToZarr(pl, FindLimitAnywhere(pl))
  <1>1. CASE FindLimitAnywhere(pl) = {}
    BY <1>1, PushNothing
  <1>2. CASE FindLimitAnywhere(pl) # {}
    <2> DEFINE n == Min(FindLimitAnywhere(pl))
    <2>1. PlanOK(q) /\ Lowered(q, pl, n)
      BY <1>2, PushLowers
    <2>2. Lowered(q, pl, 0)
      <3> HIDE DEF q, n
      <3> QED
        BY <2>1 DEF Lowered
    <2>3. S \in Results(q)
      OBVIOUS
    <2> HIDE DEF q
    <2>4. PICK f : /\ \A i \in DOMAIN q : f[i] = NodeResults(i, q[i], Sub(f, q, i))
                   /\ Results(q) = f[1]
      BY <2>1, ResultsAre
    <2>5. PICK g : /\ \A i \in DOMAIN pl : g[i] = NodeResults(i, pl[i], Sub(g, pl, i))
                   /\ Results(pl) = g[1]
      BY ResultsAre
    <2>6. Len(pl) \in Nat \ {0} /\ DOMAIN pl = 1 .. Len(pl)
      BY NodeFacts
    <2> DEFINE Bad == {i \in 1 .. Len(pl) : ~Covers(f[i], g[i], 0)}
    <2>7. Bad = {}
      <3> SUFFICES ASSUME Bad # {} PROVE FALSE
        OBVIOUS
      <3>1. PICK m \in Bad : \A x \in Bad : x <= m
        <4>1. Bad \in SUBSET (1 .. Len(pl))
          OBVIOUS
        <4> HIDE DEF Bad
        <4> QED
          BY <2>6, <4>1, LastOf
      <3>2. m \in DOMAIN pl /\ ~Covers(f[m], g[m], 0)
        BY <2>6, <3>1
      <3>3. ASSUME NEW j \in Children(pl, m) PROVE Covers(f[j], g[j], 0)
        <4>1. j \in m + 1 .. Len(pl) /\ m \in 1 .. Len(pl)
          BY <2>6, <3>2, ChildFacts
        <4>2. j \in 1 .. Len(pl) /\ ~(j <= m)
          BY <2>6, <4>1
        <4> QED
          BY <3>1, <4>2
      <3>4. \/ pl[m].op = "limit" /\ pl[m].skip = 0 /\ (pl[m].fetch = NoFetch \/ 0 <= pl[m].fetch)
            \/ pl[m].op \in {"zarr", "coords", "union"}
            \/ pl[m].op = "values"
        <4>1. pl[m].op \notin {"count", "topk"} /\ pl[m].skip = 0
          BY <3>2
        <4>2. /\ pl[m].op \in {"zarr", "limit", "topk", "coords", "values", "count", "union"}
              /\ pl[m].fetch \in Nat \cup {NoFetch}
          BY <3>2, NodeFacts
        <4> QED
          BY <4>1, <4>2
      <3>5. Covers(f[m], g[m], 0)
        BY <2>1, <2>2, <2>4, <2>5, <3>2, <3>3, <3>4, TreeCovers
      <3> QED
        BY <3>2, <3>5
    <2>8. Covers(f[1], g[1], 0)
      <3>1. 1 \in 1 .. Len(pl)
        BY <2>6
      <3> QED
        BY <2>7, <3>1
    <2> QED
      BY <2>3, <2>4, <2>5, <2>8 DEF Covers
  <1> QED
    BY <1>1, <1>2

\* Below every node there is a scan.
LEMMA ScanBelow ==
    ASSUME NEW pl, PlanOK(pl), NEW i \in DOMAIN pl, pl[i].op # "zarr"
    PROVE  \E z \in DOMAIN pl : pl[z].op = "zarr" /\ i \in Ancestors(pl)[z]
  <1>1. Len(pl) \in Nat \ {0} /\ DOMAIN pl = 1 .. Len(pl)
    BY NodeFacts
  <1> DEFINE Has(k) == \E z \in DOMAIN pl : pl[z].op = "zarr" /\ k \in Ancestors(pl)[z]
             Bad == {k \in 1 .. Len(pl) : pl[k].op # "zarr" /\ ~Has(k)}
  <1>2. Bad = {}
    <2> SUFFICES ASSUME Bad # {} PROVE FALSE
      OBVIOUS
    <2>1. PICK m \in Bad : \A x \in Bad : x <= m
      <3>1. Bad \in SUBSET (1 .. Len(pl))
        OBVIOUS
      <3> HIDE DEF Bad
      <3> QED
        BY <1>1, <3>1, LastOf
    <2>2. m \in DOMAIN pl /\ pl[m].op # "zarr" /\ ~Has(m)
      BY <1>1, <2>1
    <2>3. PICK c \in Children(pl, m) : TRUE
      BY <2>2, ChildFacts
    <2>4. c \in DOMAIN pl /\ pl[c].parent = m /\ c \in m + 1 .. Len(pl)
      BY <2>2, ChildFacts
    <2>5. m \in Ancestors(pl)[c]
      <3>1. Ancestors(pl)[c] = Above(Ancestors(pl), pl, c)
        BY <2>4, AncestorsAre
      <3>2. pl[c].parent # 0
        BY <1>1, <2>2, <2>4
      <3> QED
        BY <2>4, <3>1, <3>2 DEF Above
    <2>6. CASE pl[c].op = "zarr"
      BY <2>2, <2>4, <2>5, <2>6
    <2>7. CASE pl[c].op # "zarr"
      <3>1. c \in 1 .. Len(pl) /\ ~(c <= m)
        BY <1>1, <2>2, <2>4
      <3>2. Has(c)
        <4> HIDE DEF Has
        <4> QED
          BY <2>1, <2>7, <3>1
      <3>3. PICK z \in DOMAIN pl : pl[z].op = "zarr" /\ c \in Ancestors(pl)[z]
        BY <3>2
      <3>4. Ancestors(pl)[c] \subseteq Ancestors(pl)[z]
        BY <3>3, AncestorFacts
      <3> QED
        BY <2>2, <2>5, <3>3, <3>4
    <2> QED
      BY <2>6, <2>7
  <1> HIDE DEF Has
  <1>3. Has(i)
    BY <1>1, <1>2
  <1> QED
    BY <1>3 DEF Has

\* What the rule makes of a plan whose limits reach its scans.
LEMMA SameAnswers ==
    ASSUME NEW pl, PlanOK(pl), LimitsReachScans(pl)
    PROVE  Results(PushLimitToZarr(pl, FindLimitAnywhere(pl))) \subseteq Results(pl)
  <1> DEFINE q == PushLimitToZarr(pl, FindLimitAnywhere(pl))
             n == Min(FindLimitAnywhere(pl))
             Anc(i) == Ancestors(pl)[i]
  <1>1. CASE FindLimitAnywhere(pl) = {}
    BY <1>1, PushNothing
  <1>2. CASE FindLimitAnywhere(pl) # {}
    <2>1. PlanOK(q) /\ Lowered(q, pl, n)
      BY <1>2, PushLowers
    <2>2. n \in Nat /\ n \in FindLimitAnywhere(pl) /\ \A l \in FindLimitAnywhere(pl) : n <= l
      BY <1>2, LimitsFacts, MinFacts
    <2> HIDE DEF q, n
    <2>3. PICK m \in DOMAIN pl : pl[m].op = "limit" /\ pl[m].fetch # NoFetch /\ pl[m].fetch = n
      BY <2>2, LimitsFacts
    <2>4. /\ pl[m].skip = 0
          /\ \A z \in DOMAIN pl : pl[z].op = "zarr" =>
                /\ m \in Anc(z)
                /\ \A j \in Anc(z) : m \in Anc(j) =>
                      pl[j].op \in {"limit", "coords", "union"} /\ pl[j].skip = 0
      BY <2>3 DEF LimitsReachScans
    <2> HIDE DEF Anc
    <2>5. PICK f : /\ \A i \in DOMAIN q : f[i] = NodeResults(i, q[i], Sub(f, q, i))
                   /\ Results(q) = f[1]
      BY <2>1, ResultsAre
    <2>6. PICK g : /\ \A i \in DOMAIN pl : g[i] = NodeResults(i, pl[i], Sub(g, pl, i))
                   /\ Results(pl) = g[1]
      BY ResultsAre
    <2>7. Len(pl) \in Nat \ {0} /\ DOMAIN pl = 1 .. Len(pl)
      BY NodeFacts
    <2> DEFINE Good(i) == IF m \in Anc(i) THEN Covers(f[i], g[i], n) ELSE f[i] \subseteq g[i]
               Bad == {i \in 1 .. Len(pl) : ~Good(i)}
    <2>8. Bad = {}
      <3> SUFFICES ASSUME Bad # {} PROVE FALSE
        OBVIOUS
      <3>1. PICK i \in Bad : \A x \in Bad : x <= i
        <4>1. Bad \in SUBSET (1 .. Len(pl))
          OBVIOUS
        <4> HIDE DEF Bad
        <4> QED
          BY <2>7, <4>1, LastOf
      <3>2. i \in DOMAIN pl /\ ~Good(i)
        BY <2>7, <3>1
      <3>3. ASSUME NEW j \in Children(pl, i)
            PROVE  Good(j) /\ Anc(j) = {i} \cup Anc(i)
        <4>1. j \in i + 1 .. Len(pl) /\ i \in 1 .. Len(pl) /\ j \in DOMAIN pl /\ pl[j].parent = i
          BY <2>7, <3>2, ChildFacts
        <4>2. j \in 1 .. Len(pl) /\ ~(j <= i) /\ i # 0
          BY <2>7, <4>1
        <4>3. Good(j)
          <5> HIDE DEF Good
          <5> QED
            BY <3>1, <4>2
        <4>4. Ancestors(pl)[j] = {i} \cup Ancestors(pl)[i]
          BY <4>1, <4>2, AncestorsAre DEF Above
        <4> QED
          BY <4>3, <4>4 DEF Anc
      <3>4. CASE m \in Anc(i)
        <4>1. \A j \in Children(pl, i) : Covers(f[j], g[j], n)
          BY <3>3, <3>4
        <4>2. pl[i].op # "zarr" => pl[i].op \in {"limit", "coords", "union"} /\ pl[i].skip = 0
          <5> SUFFICES ASSUME pl[i].op # "zarr"
                       PROVE  pl[i].op \in {"limit", "coords", "union"} /\ pl[i].skip = 0
            OBVIOUS
          <5>1. PICK z \in DOMAIN pl : pl[z].op = "zarr" /\ i \in Anc(z)
            BY <3>2, ScanBelow DEF Anc
          <5> QED
            BY <2>4, <3>4, <5>1
        <4>3. pl[i].op = "limit" => pl[i].fetch = NoFetch \/ n <= pl[i].fetch
          BY <2>2, <3>2, LimitsFacts
        <4>4. \/ pl[i].op = "limit" /\ pl[i].skip = 0 /\ (pl[i].fetch = NoFetch \/ n <= pl[i].fetch)
              \/ pl[i].op \in {"zarr", "coords", "union"}
          BY <4>2, <4>3
        <4>5. Covers(f[i], g[i], n)
          BY <2>1, <2>2, <2>5, <2>6, <3>2, <4>1, <4>4, TreeCovers
        <4> QED
          BY <3>2, <3>4, <4>5
      <3>5. CASE m \notin Anc(i)
        <4> DEFINE D == Children(pl, i)
                   b == Sub(f, q, i)
                   c == Sub(g, pl, i)
        <4>1. pl[i].op # "zarr"
          BY <2>4, <3>2, <3>5
        <4>2. IsFiniteSet(D) /\ D # {}
          BY <3>2, <4>1, ChildFacts
        <4>3. i \in DOMAIN q /\ Children(q, i) = D /\ q[i] = pl[i]
          BY <2>1, <3>2, <4>1 DEF Lowered, Children
        <4>4. DOMAIN b = D /\ DOMAIN c = D /\ \A j \in D : b[j] = f[j] /\ c[j] = g[j]
          BY <4>3 DEF Sub
        <4>5. f[i] = NodeResults(i, pl[i], b) /\ g[i] = NodeResults(i, pl[i], c)
          BY <2>5, <2>6, <3>2, <4>3
        <4> HIDE DEF b, c
        <4>6. CASE i = m
          <5>1. \A j \in D : Covers(b[j], c[j], n)
            BY <3>3, <4>4, <4>6
          <5>2. Covers(Input(b), Input(c), n)
            <6> HIDE DEF D
            <6>1. (CHOOSE j \in D : TRUE) \in D
              BY <4>2
            <6> QED
              BY <4>4, <5>1, <6>1 DEF Input
          <5>3. NodeResults(i, pl[i], b) = AfterLimit(Input(b), pl[i])
            BY <2>3, <4>6, LimitIs DEF AfterLimit
          <5>4. NodeResults(i, pl[i], c) = AfterLimit(Input(c), pl[i])
            BY <2>3, <4>6, LimitIs DEF AfterLimit
          <5>5. /\ pl[i].skip = 0 /\ pl[i].fetch \in Nat
                /\ Covers(Input(b), Input(c), pl[i].fetch)
            BY <2>2, <2>3, <2>4, <4>6, <5>2
          <5>6. AfterLimit(Input(b), pl[i]) \subseteq AfterLimit(Input(c), pl[i])
            BY <5>5, LimitCuts
          <5> QED
            BY <3>2, <3>5, <4>5, <5>3, <5>4, <5>6
        <4>7. CASE i # m
          <5>1. \A j \in D : b[j] \subseteq c[j]
            BY <3>3, <3>5, <4>4, <4>7
          <5>2. pl[i].op \in {"limit", "topk", "coords", "values", "count", "union"}
            <6>1. pl[i].op \in {"zarr", "limit", "topk", "coords", "values", "count", "union"}
              BY <3>2, NodeFacts
            <6> QED
              BY <4>1, <6>1
          <5>3. NodeResults(i, pl[i], b) \subseteq NodeResults(i, pl[i], c)
            <6> HIDE DEF D
            <6> QED
              BY <4>2, <4>4, <5>1, <5>2, NodeMonotone
          <5> QED
            BY <3>2, <3>5, <4>5, <5>3
        <4> QED
          BY <4>6, <4>7
      <3> QED
        BY <3>4, <3>5
    <2>9. f[1] \subseteq g[1]
      <3>1. 1 \in 1 .. Len(pl) /\ 1 \in DOMAIN pl
        BY <2>7
      <3>2. Good(1)
        <4> HIDE DEF Good
        <4> QED
          BY <2>8, <3>1
      <3>3. Anc(1) \subseteq 1 .. 0
        BY <3>1, AncestorFacts DEF Anc
      <3> QED
        BY <3>2, <3>3
    <2> QED
      BY <2>5, <2>6, <2>9 DEF q
  <1> QED
    BY <1>1, <1>2

-----------------------------------------------------------------------------
(* Theorems. *)

\* The plan is the given one, or what the rule makes of it.
RuleInv ==
    /\ given \in Plans /\ step \in {"given", "optimized"}
    /\ plan = IF step = "given" THEN given
              ELSE PushLimitToZarr(given, FindLimitAnywhere(given))

\* The rule runs once, on the plan it was given.
THEOREM RuleInvariant == Spec => []RuleInv
  <1>1. Init => RuleInv
    BY DEF Init, RuleInv
  <1>2. RuleInv /\ [Next]_vars => RuleInv'
    BY DEF RuleInv, Next, Optimize, vars
  <1> QED
    BY <1>1, <1>2, PTL DEF Spec

\* For any plan tree whose limits are above every scan, with nothing in between
\* that drops, orders or counts rows, the rewritten plan returns only what the
\* given one might.
THEOREM LimitsReachHolds == Spec => []EquivalentWhenLimitsReach
  <1>1. RuleInv => EquivalentWhenLimitsReach
    <2> SUFFICES ASSUME RuleInv, LimitsReachScans(given)
                 PROVE  Results(plan) \subseteq Results(given)
      BY DEF EquivalentWhenLimitsReach
    <2>1. PlanOK(given)
      BY PlansAssumption DEF RuleInv
    <2> QED
      BY <2>1, SameAnswers DEF RuleInv
  <1> QED
    BY <1>1, RuleInvariant, PTL

\* For any plan tree in which nothing counts, sorts or skips rows, whatever the
\* filters and unions in it, the rewritten plan returns part of a right answer.
THEOREM NothingInventedHolds == Spec => []NothingInvented
  <1>1. RuleInv => NothingInvented
    <2> SUFFICES ASSUME RuleInv,
                        \A i \in DOMAIN given : /\ given[i].op \notin {"count", "topk"}
                                                /\ given[i].skip = 0,
                        NEW S \in Results(plan)
                 PROVE  \E T \in Results(given) : S \subseteq T
      BY DEF NothingInvented
    <2>1. PlanOK(given)
      BY PlansAssumption DEF RuleInv
    <2>2. CASE step = "given"
      BY <2>2 DEF RuleInv
    <2>3. CASE step = "optimized"
      <3>1. S \in Results(PushLimitToZarr(given, FindLimitAnywhere(given)))
        BY <2>3 DEF RuleInv
      <3> QED
        BY <2>1, <3>1, PartOfAnAnswer
    <2> QED
      BY <2>2, <2>3 DEF RuleInv
  <1> QED
    BY <1>1, RuleInvariant, PTL
=============================================================================
