------------------------ MODULE AggregateRulesProofs ------------------------
(***************************************************************************)
(* Proofs about the aggregate rules and ZarrAggregateExec, for any           *)
(* coordinates, values, queries, partitions and batches.                     *)
(*                                                                          *)
(* The table of groups is at every step that of the rows already folded      *)
(* (TableOf): each accumulator is the count, sum, least and greatest value   *)
(* of the rows of its key (Accumulated).  The rows are those the streams     *)
(* were to produce and no longer hold, and the streams hold each row of the  *)
(* scan once, so that the table at the end is what SQL says of the scan.     *)
(***************************************************************************)
EXTENDS AggregateRules, PartitionProofs

-----------------------------------------------------------------------------
(* Sums over sets. *)

\* What the recursion of SumOver defines.
IsSum(sum, f) ==
    sum = [S \in SUBSET DOMAIN f |->
             IF S = {} THEN 0 ELSE LET x == CHOOSE x \in S : TRUE IN f[x] + sum[S \ {x}]]

\* It is well defined.
LEMMA SumExists ==
    ASSUME NEW D, IsFiniteSet(D), NEW f \in [D -> Int]
    PROVE  \E sum : IsSum(sum, f) /\ sum \in [SUBSET D -> Int]
  <1> DEFINE n == Cardinality(D)
             c == [S \in SUBSET D |-> CHOOSE x \in S : TRUE]
             G == [SUBSET D -> Int]
             Turn(g) == [S \in SUBSET D |-> IF S = {} THEN 0 ELSE f[c[S]] + g[S \ {c[S]}]]
             zero == [S \in SUBSET D |-> 0]
             h == [kg \in (1 .. n) \X G |-> Turn(kg[2])]
  <1>1. n \in Nat
    BY FS_CardinalityType
  <1>2. ASSUME NEW S \in SUBSET D, S # {}
        PROVE  /\ c[S] \in S /\ f[c[S]] \in Int /\ S \ {c[S]} \in SUBSET D
               /\ Cardinality(S) \in 1 .. n /\ Cardinality(S \ {c[S]}) = Cardinality(S) - 1
    <2>1. c[S] \in S
      BY <1>2
    <2> HIDE DEF c
    <2>2. IsFiniteSet(S) /\ Cardinality(S) <= n
      BY FS_Subset
    <2>3. Cardinality(S) \in Nat /\ Cardinality(S) # 0
      BY <1>2, <2>2, FS_CardinalityType, FS_EmptySet
    <2>4. Cardinality(S \ {c[S]}) = Cardinality(S) - 1
      BY <2>1, <2>2, FS_RemoveElement
    <2> QED
      BY <1>1, <2>1, <2>2, <2>3, <2>4
  <1> HIDE DEF c, n
  <1>3. ASSUME NEW g \in G PROVE Turn(g) \in G
    <2>1. ASSUME NEW S \in SUBSET D PROVE (IF S = {} THEN 0 ELSE f[c[S]] + g[S \ {c[S]}]) \in Int
      <3>1. CASE S = {}
        BY <3>1
      <3>2. CASE S # {}
        <4>1. f[c[S]] \in Int /\ g[S \ {c[S]}] \in Int
          BY <1>2, <3>2
        <4> QED
          BY <3>2, <4>1
      <3> QED
        BY <3>1, <3>2
    <2> QED
      BY <2>1
  <1>4. zero \in G
    OBVIOUS
  <1>5. h \in [(1 .. n) \X G -> G]
    <2> HIDE DEF G, Turn
    <2> QED
      BY <1>3
  <1>6. PICK l : IsLoop(l, n, G, zero, h)
    <2> HIDE DEF G, h, zero
    <2> QED
      BY <1>1, <1>4, <1>5, Iterates
  <1>7. /\ \A k \in 0 .. n : l[k] \in G
        /\ \A k \in 1 .. n : l[k] = Turn(l[k - 1])
    <2>1. /\ l \in [0 .. n -> G] /\ \A k \in 1 .. n : l[k] = h[<<k, l[k - 1]>>]
      BY <1>6 DEF IsLoop
    <2>2. \A k \in 1 .. n : k - 1 \in 0 .. n /\ <<k, l[k - 1]>> \in (1 .. n) \X G
      <3>1. \A k \in 1 .. n : k - 1 \in 0 .. n
        BY <1>1
      <3> HIDE DEF G, h
      <3> QED
        BY <2>1, <3>1
    <2>3. ASSUME NEW k \in 1 .. n PROVE l[k] = Turn(l[k - 1])
      <3>1. l[k] = h[<<k, l[k - 1]>>] /\ <<k, l[k - 1]>> \in (1 .. n) \X G
        BY <2>1, <2>2
      <3>2. <<k, l[k - 1]>>[2] = l[k - 1]
        OBVIOUS
      <3> HIDE DEF G, Turn
      <3> QED
        BY <3>1, <3>2
    <2>4. \A k \in 0 .. n : l[k] \in G
      <3> HIDE DEF G
      <3> QED
        BY <2>1
    <2> HIDE DEF G, Turn
    <2> QED
      BY <2>3, <2>4
  <1>8. ASSUME NEW k \in 1 .. n, NEW S \in SUBSET D
        PROVE  l[k][S] = IF S = {} THEN 0 ELSE f[c[S]] + l[k - 1][S \ {c[S]}]
    BY <1>7
  <1> HIDE DEF Turn, h, zero
  \* A turn changes nothing of the sets that are already counted.
  <1> DEFINE Settled(k) == \A S \in SUBSET D : Cardinality(S) < k => l[k][S] = l[k - 1][S]
             T == {k \in 0 .. n : k # 0 => Settled(k)}
  <1>9. 0 \in T
    BY <1>1
  <1>10. ASSUME NEW k \in 1 .. n, k - 1 \in T PROVE k \in T
    <2> SUFFICES ASSUME NEW S \in SUBSET D, Cardinality(S) < k PROVE l[k][S] = l[k - 1][S]
      BY <1>1
    <2>1. CASE S = {}
      <3>1. l[k][S] = 0
        BY <1>8, <2>1
      <3>2. CASE k = 1
        <4>1. l[0] = zero
          BY <1>6 DEF IsLoop
        <4> QED
          BY <3>1, <3>2, <4>1 DEF zero
      <3>3. CASE k # 1
        <4>1. k - 1 \in 1 .. n
          BY <1>1, <3>3
        <4>2. l[k - 1][S] = 0
          BY <1>8, <2>1, <4>1
        <4> QED
          BY <3>1, <4>2
      <3> QED
        BY <3>2, <3>3
    <2>2. CASE S # {}
      <3>1. /\ S \ {c[S]} \in SUBSET D /\ Cardinality(S) \in 1 .. n
            /\ Cardinality(S \ {c[S]}) = Cardinality(S) - 1
        BY <1>2, <2>2
      <3>2. k - 1 \in 1 .. n /\ Cardinality(S \ {c[S]}) < k - 1
        BY <1>1, <3>1
      <3>3. l[k - 1][S \ {c[S]}] = l[(k - 1) - 1][S \ {c[S]}]
        BY <1>10, <3>1, <3>2
      <3>4. l[k][S] = f[c[S]] + l[k - 1][S \ {c[S]}]
        BY <1>8, <2>2
      <3>5. l[k - 1][S] = f[c[S]] + l[(k - 1) - 1][S \ {c[S]}]
        BY <1>8, <2>2, <3>2
      <3> QED
        BY <3>3, <3>4, <3>5
    <2> QED
      BY <2>1, <2>2
  <1>11. \A k \in 0 .. n : k \in T
    <2> HIDE DEF T
    <2> QED
      BY <1>1, <1>9, <1>10, Upward
  <1> DEFINE sum == l[n]
  <1>12. sum \in G
    <2>1. n \in 0 .. n
      BY <1>1
    <2> HIDE DEF G
    <2> QED
      BY <1>7, <2>1
  <1>13. ASSUME NEW S \in SUBSET D
         PROVE  sum[S] = IF S = {} THEN 0 ELSE f[c[S]] + sum[S \ {c[S]}]
    <2>1. CASE n = 0
      <3>1. D = {}
        BY <2>1, FS_EmptySet DEF n
      <3>2. S = {} /\ l[0] = zero
        BY <1>6, <3>1 DEF IsLoop
      <3> QED
        BY <2>1, <3>2 DEF zero
    <2>2. CASE n # 0
      <3>1. n \in 1 .. n
        BY <1>1, <2>2
      <3>2. CASE S = {}
        BY <1>8, <3>1, <3>2
      <3>3. CASE S # {}
        <4>1. l[n][S] = f[c[S]] + l[n - 1][S \ {c[S]}]
          BY <1>8, <3>1, <3>3
        <4>2. S \ {c[S]} \in SUBSET D /\ Cardinality(S \ {c[S]}) < n
          <5>1. /\ S \ {c[S]} \in SUBSET D /\ Cardinality(S) \in 1 .. n
                /\ Cardinality(S \ {c[S]}) = Cardinality(S) - 1
            BY <1>2, <3>3
          <5> QED
            BY <1>1, <5>1
        <4>3. n \in T
          BY <1>11, <3>1
        <4>4. l[n][S \ {c[S]}] = l[n - 1][S \ {c[S]}]
          BY <2>2, <4>2, <4>3
        <4> QED
          BY <3>3, <4>1, <4>4
      <3> QED
        BY <3>2, <3>3
    <2> QED
      BY <2>1, <2>2
  <1> HIDE DEF sum
  <1>14. sum = [S \in SUBSET D |-> IF S = {} THEN 0 ELSE f[c[S]] + sum[S \ {c[S]}]]
    <2>1. sum = [S \in SUBSET D |-> sum[S]]
      BY <1>12
    <2> QED
      BY <1>13, <2>1
  <1>15. sum = [S \in SUBSET D |->
                  IF S = {} THEN 0 ELSE LET x == CHOOSE x \in S : TRUE IN f[x] + sum[S \ {x}]]
    BY <1>14 DEF c
  <1> QED
    BY <1>12, <1>15 DEF IsSum

\* A sum over a set and its recursion.
LEMMA SumIs ==
    ASSUME NEW D, IsFiniteSet(D), NEW f \in [D -> Int]
    PROVE  \E sum : IsSum(sum, f) /\ sum \in [SUBSET D -> Int] /\ SumOver(f) = sum[D]
  <1> DEFINE sum == CHOOSE sum : IsSum(sum, f)
  <1>1. PICK t : IsSum(t, f) /\ t \in [SUBSET D -> Int]
    BY SumExists
  <1>2. IsSum(sum, f)
    BY <1>1
  <1>3. SumOver(f) = sum[D]
    BY DEF SumOver, IsSum
  <1> HIDE DEF sum
  \* There is but one such function.
  <1> DEFINE n == Cardinality(D)
             T == {k \in 0 .. n : \A S \in SUBSET D : Cardinality(S) = k => sum[S] = t[S]}
  <1>4. n \in Nat
    BY FS_CardinalityType
  <1>5. ASSUME NEW S \in SUBSET D
        PROVE  /\ IsFiniteSet(S) /\ Cardinality(S) \in 0 .. n /\ (Cardinality(S) = 0 <=> S = {})
               /\ \A x \in S : Cardinality(S \ {x}) = Cardinality(S) - 1
    <2>1. IsFiniteSet(S) /\ Cardinality(S) <= n
      BY FS_Subset
    <2>2. Cardinality(S) \in Nat /\ (Cardinality(S) = 0 <=> S = {})
      BY <2>1, FS_CardinalityType, FS_EmptySet
    <2>3. \A x \in S : Cardinality(S \ {x}) = Cardinality(S) - 1
      BY <2>1, FS_RemoveElement
    <2> QED
      BY <1>4, <2>1, <2>2, <2>3
  <1> HIDE DEF n
  <1>6. 0 \in T
    <2>1. ASSUME NEW S \in SUBSET D, Cardinality(S) = 0 PROVE sum[S] = t[S]
      <3>1. S = {}
        BY <1>5, <2>1
      <3> QED
        BY <1>1, <1>2, <3>1 DEF IsSum
    <2> QED
      BY <1>4, <2>1
  <1>7. ASSUME NEW k \in 1 .. n, k - 1 \in T PROVE k \in T
    <2>1. ASSUME NEW S \in SUBSET D, Cardinality(S) = k PROVE sum[S] = t[S]
      <3> DEFINE x == CHOOSE x \in S : TRUE
      <3>1. S # {}
        BY <1>4, <1>5, <2>1
      <3>2. x \in S
        BY <3>1
      <3>3. sum[S] = f[x] + sum[S \ {x}] /\ t[S] = f[x] + t[S \ {x}]
        BY <1>1, <1>2, <3>1 DEF IsSum
      <3> HIDE DEF x
      <3>4. S \ {x} \in SUBSET D /\ Cardinality(S \ {x}) = k - 1
        BY <1>5, <2>1, <3>2
      <3>5. sum[S \ {x}] = t[S \ {x}]
        BY <1>7, <3>4
      <3> QED
        BY <3>3, <3>5
    <2> QED
      BY <1>4, <2>1
  <1>8. \A k \in 0 .. n : k \in T
    <2> HIDE DEF T
    <2> QED
      BY <1>4, <1>6, <1>7, Upward
  <1>9. sum = t
    <2>1. \A S \in SUBSET D : sum[S] = t[S]
      BY <1>5, <1>8
    <2>2. sum = [S \in SUBSET D |-> sum[S]] /\ t = [S \in SUBSET D |-> t[S]]
      BY <1>1, <1>2 DEF IsSum
    <2> QED
      BY <2>1, <2>2
  <1> QED
    BY <1>1, <1>3, <1>9

\* A member of the set can be taken out first, whichever it is.
LEMMA SumInsert ==
    ASSUME NEW D, IsFiniteSet(D), NEW f \in [D -> Int], NEW y \in D
    PROVE  /\ SumOver(f) \in Int /\ SumOver([x \in D \ {y} |-> f[x]]) \in Int
           /\ SumOver(f) = SumOver([x \in D \ {y} |-> f[x]]) + f[y]
  <1> DEFINE n == Cardinality(D)
             C == D \ {y}
             g == [x \in C |-> f[x]]
  <1>1. n \in Nat
    BY FS_CardinalityType
  <1>2. ASSUME NEW S \in SUBSET D
        PROVE  /\ IsFiniteSet(S) /\ Cardinality(S) \in 0 .. n /\ (Cardinality(S) = 0 <=> S = {})
               /\ \A x \in S : Cardinality(S \ {x}) = Cardinality(S) - 1
    <2>1. IsFiniteSet(S) /\ Cardinality(S) <= n
      BY FS_Subset
    <2>2. Cardinality(S) \in Nat /\ (Cardinality(S) = 0 <=> S = {})
      BY <2>1, FS_CardinalityType, FS_EmptySet
    <2>3. \A x \in S : Cardinality(S \ {x}) = Cardinality(S) - 1
      BY <2>1, FS_RemoveElement
    <2> QED
      BY <1>1, <2>1, <2>2, <2>3
  <1>3. IsFiniteSet(C) /\ C \subseteq D /\ g \in [C -> Int] /\ f[y] \in Int
    BY <1>2
  <1> HIDE DEF n, g
  <1>4. PICK sum : IsSum(sum, f) /\ sum \in [SUBSET D -> Int] /\ SumOver(f) = sum[D]
    BY SumIs
  <1>5. PICK t : IsSum(t, g) /\ t \in [SUBSET C -> Int] /\ SumOver(g) = t[C]
    <2> HIDE DEF C
    <2> QED
      BY <1>3, SumIs
  <1>6. ASSUME NEW S \in SUBSET D, S # {}
        PROVE  \E x \in S : /\ sum[S] = f[x] + sum[S \ {x}]
                            /\ S \in SUBSET C => t[S] = f[x] + t[S \ {x}]
    <2> DEFINE x == CHOOSE x \in S : TRUE
    <2>1. x \in S
      BY <1>6
    <2>2. sum[S] = f[x] + sum[S \ {x}]
      BY <1>4, <1>6 DEF IsSum
    <2>3. ASSUME S \in SUBSET C PROVE t[S] = f[x] + t[S \ {x}]
      <3>1. DOMAIN g = C /\ g[x] = f[x]
        BY <2>1, <2>3 DEF g
      <3>2. t[S] = g[x] + t[S \ {x}]
        BY <1>5, <1>6, <2>3, <3>1 DEF IsSum
      <3> QED
        BY <3>1, <3>2
    <2> HIDE DEF x
    <2> QED
      BY <2>1, <2>2, <2>3
  <1>7. sum[{}] = 0 /\ t[{}] = 0
    <2>1. DOMAIN g = C
      BY DEF g
    <2> QED
      BY <1>4, <1>5, <2>1 DEF IsSum
  <1> DEFINE Q(S) == /\ S \in SUBSET C => sum[S] = t[S]
                     /\ \A u \in S : sum[S] = f[u] + sum[S \ {u}]
             T == {k \in 0 .. n : \A S \in SUBSET D : Cardinality(S) = k => Q(S)}
  <1>8. 0 \in T
    <2>1. ASSUME NEW S \in SUBSET D, Cardinality(S) = 0 PROVE Q(S)
      <3>1. S = {}
        BY <1>2, <2>1
      <3> QED
        BY <1>7, <3>1
    <2> QED
      BY <1>1, <2>1
  <1>9. ASSUME NEW k \in 1 .. n, k - 1 \in T PROVE k \in T
    <2>1. ASSUME NEW S \in SUBSET D, Cardinality(S) = k PROVE Q(S)
      <3>1. S # {}
        BY <1>1, <1>2, <2>1
      <3>2. PICK x \in S : /\ sum[S] = f[x] + sum[S \ {x}]
                           /\ S \in SUBSET C => t[S] = f[x] + t[S \ {x}]
        BY <1>6, <3>1
      <3>3. S \ {x} \in SUBSET D /\ Cardinality(S \ {x}) = k - 1
        BY <1>2, <2>1
      <3>4. Q(S \ {x})
        BY <1>9, <3>3
      <3>5. S \in SUBSET C => sum[S] = t[S]
        BY <3>2, <3>4
      <3>6. ASSUME NEW u \in S PROVE sum[S] = f[u] + sum[S \ {u}]
        <4>1. CASE x = u
          BY <3>2, <4>1
        <4>2. CASE x # u
          <5>1. S \ {u} \in SUBSET D /\ Cardinality(S \ {u}) = k - 1
            BY <1>2, <2>1
          <5>2. Q(S \ {u})
            BY <1>9, <5>1
          <5>3. u \in S \ {x} /\ x \in S \ {u} /\ (S \ {x}) \ {u} = (S \ {u}) \ {x}
            BY <4>2
          <5> DEFINE R == (S \ {u}) \ {x}
          <5>4. sum[S \ {x}] = f[u] + sum[R] /\ sum[S \ {u}] = f[x] + sum[R]
            BY <3>4, <5>2, <5>3
          <5>5. f[u] \in Int /\ f[x] \in Int /\ sum[R] \in Int
            BY <1>4
          <5> HIDE DEF R
          <5> QED
            BY <3>2, <5>4, <5>5
        <4> QED
          BY <4>1, <4>2
      <3> QED
        BY <3>5, <3>6
    <2> QED
      BY <1>1, <2>1
  <1>10. \A k \in 0 .. n : k \in T
    <2> HIDE DEF T
    <2> QED
      BY <1>1, <1>8, <1>9, Upward
  <1>11. Q(D) /\ Q(C)
    <2>1. D \in SUBSET D /\ C \in SUBSET D
      OBVIOUS
    <2>2. ASSUME NEW S \in SUBSET D PROVE Q(S)
      BY <1>2, <1>10
    <2> HIDE DEF Q
    <2> QED
      BY <2>1, <2>2
  <1>12. sum[D] = f[y] + sum[C] /\ sum[C] = t[C]
    BY <1>11
  <1>13. sum[D] \in Int /\ t[C] \in Int
    BY <1>4, <1>5
  <1>14. SumOver(f) \in Int /\ SumOver(g) \in Int /\ SumOver(f) = SumOver(g) + f[y]
    BY <1>3, <1>4, <1>5, <1>12, <1>13
  <1> QED
    BY <1>14 DEF g

\* The sum over the empty set.
LEMMA SumEmpty ==
    ASSUME NEW f \in [{} -> Int]
    PROVE  SumOver(f) = 0
  <1> DEFINE D == {}
  <1>1. IsFiniteSet(D) /\ f \in [D -> Int]
    BY FS_EmptySet
  <1>2. PICK sum : IsSum(sum, f) /\ SumOver(f) = sum[D]
    <2> HIDE DEF D
    <2> QED
      BY <1>1, SumIs
  <1>3. sum = [S \in SUBSET DOMAIN f |->
                 IF S = {} THEN 0 ELSE LET x == CHOOSE x \in S : TRUE IN f[x] + sum[S \ {x}]]
    BY <1>2 DEF IsSum
  <1> QED
    BY <1>2, <1>3

-----------------------------------------------------------------------------
(* Least and greatest members. *)

\* A finite set of integers has a least and a greatest member.
LEMMA Extremes ==
    ASSUME NEW S, S \subseteq Int, IsFiniteSet(S), S # {}
    PROVE  /\ Min(S) \in S /\ \A y \in S : Min(S) <= y
           /\ Max(S) \in S /\ \A y \in S : Max(S) >= y
  <1> DEFINE n == Cardinality(S)
  <1>1. n \in Nat \ {0}
    BY FS_CardinalityType, FS_EmptySet
  <1>2. PICK f : f \in Bijection(1 .. n, S)
    BY FS_CardinalityType DEF ExistsBijection
  <1>3. f \in [1 .. n -> S] /\ \A y \in S : \E k \in 1 .. n : f[k] = y
    BY <1>2 DEF Bijection, Surjection, Injection
  <1> HIDE DEF n
  <1> DEFINE Bounded(k) == /\ \E m \in 1 .. k : \A j \in 1 .. k : f[m] <= f[j]
                           /\ \E m \in 1 .. k : \A j \in 1 .. k : f[m] >= f[j]
             T == {k \in 0 .. n : k # 0 => Bounded(k)}
  <1>4. 0 \in T
    BY <1>1
  <1>5. ASSUME NEW k \in 1 .. n, k - 1 \in T PROVE k \in T
    <2>1. \A j \in 1 .. k : f[j] \in Int
      <3>1. \A j \in 1 .. k : j \in 1 .. n
        BY <1>1
      <3> QED
        BY <1>3, <3>1
    <2>2. CASE k = 1
      <3>1. \A j \in 1 .. k : j = 1
        BY <2>2
      <3>2. f[1] <= f[1] /\ f[1] >= f[1]
        BY <2>1, <2>2
      <3> QED
        BY <2>2, <3>1, <3>2
    <2>3. CASE k # 1
      <3>1. Bounded(k - 1)
        BY <1>1, <1>5, <2>3
      <3>2. PICK m \in 1 .. k - 1 : \A j \in 1 .. k - 1 : f[m] <= f[j]
        BY <3>1
      <3>3. PICK l \in 1 .. k - 1 : \A j \in 1 .. k - 1 : f[l] >= f[j]
        BY <3>1
      <3>4. /\ m \in 1 .. k /\ l \in 1 .. k /\ k \in 1 .. k
            /\ \A j \in 1 .. k : j \in 1 .. k - 1 \/ j = k
        BY <1>1
      <3>5. f[m] \in Int /\ f[l] \in Int /\ f[k] \in Int
        BY <2>1, <3>4
      <3>6. \E i \in 1 .. k : \A j \in 1 .. k : f[i] <= f[j]
        <4>1. CASE f[m] <= f[k]
          BY <3>2, <3>4, <4>1
        <4>2. CASE f[k] < f[m]
          <5>1. \A j \in 1 .. k - 1 : f[k] <= f[j]
            <6> TAKE j \in 1 .. k - 1
            <6>1. f[j] \in Int /\ f[m] <= f[j]
              BY <1>1, <2>1, <3>2
            <6> QED
              BY <3>5, <4>2, <6>1
          <5>2. f[k] <= f[k]
            BY <3>5
          <5> QED
            BY <3>4, <5>1, <5>2
        <4> QED
          BY <3>5, <4>1, <4>2
      <3>7. \E i \in 1 .. k : \A j \in 1 .. k : f[i] >= f[j]
        <4>1. CASE f[l] >= f[k]
          BY <3>3, <3>4, <4>1
        <4>2. CASE f[k] > f[l]
          <5>1. \A j \in 1 .. k - 1 : f[k] >= f[j]
            <6> TAKE j \in 1 .. k - 1
            <6>1. f[j] \in Int /\ f[l] >= f[j]
              BY <1>1, <2>1, <3>3
            <6> QED
              BY <3>5, <4>2, <6>1
          <5>2. f[k] >= f[k]
            BY <3>5
          <5> QED
            BY <3>4, <5>1, <5>2
        <4> QED
          BY <3>5, <4>1, <4>2
      <3> QED
        BY <3>6, <3>7
    <2> QED
      BY <2>2, <2>3
  <1>6. \A k \in 0 .. n : k \in T
    <2> HIDE DEF T
    <2> QED
      BY <1>1, <1>4, <1>5, Upward
  <1>7. Bounded(n)
    BY <1>1, <1>6
  <1>8. \E x \in S : \A y \in S : x <= y
    <2>1. PICK m \in 1 .. n : \A j \in 1 .. n : f[m] <= f[j]
      BY <1>7
    <2>2. f[m] \in S /\ \A y \in S : f[m] <= y
      BY <1>3, <2>1
    <2> QED
      BY <2>2
  <1>9. \E x \in S : \A y \in S : x >= y
    <2>1. PICK m \in 1 .. n : \A j \in 1 .. n : f[m] >= f[j]
      BY <1>7
    <2>2. f[m] \in S /\ \A y \in S : f[m] >= y
      BY <1>3, <2>1
    <2> QED
      BY <2>2
  <1> QED
    BY <1>8, <1>9 DEF Min, Max

\* One more member.
LEMMA ExtremesAdd ==
    ASSUME NEW S, S \subseteq Int, IsFiniteSet(S), NEW v \in Int
    PROVE  /\ Min(S \cup {v}) = IF S = {} THEN v ELSE Min2(Min(S), v)
           /\ Max(S \cup {v}) = IF S = {} THEN v ELSE Max2(Max(S), v)
  <1> DEFINE U == S \cup {v}
  <1>1. U \subseteq Int /\ IsFiniteSet(U) /\ U # {}
    BY FS_AddElement
  <1>2. /\ Min(U) \in U /\ \A y \in U : Min(U) <= y
        /\ Max(U) \in U /\ \A y \in U : Max(U) >= y
    BY <1>1, Extremes
  <1>3. CASE S = {}
    BY <1>2, <1>3
  <1>4. CASE S # {}
    <2>1. /\ Min(S) \in S /\ \A y \in S : Min(S) <= y
          /\ Max(S) \in S /\ \A y \in S : Max(S) >= y
      BY <1>4, Extremes
    <2> DEFINE a == Min(U)
               b == Max(U)
               c == Min(S)
               d == Max(S)
    <2>2. a \in Int /\ b \in Int /\ c \in Int /\ d \in Int
      BY <1>1, <1>2, <2>1
    <2>3. a <= c /\ a <= v /\ b >= d /\ b >= v
      BY <1>2, <2>1
    <2>4. (a = v \/ c <= a) /\ (b = v \/ d >= b)
      BY <1>2, <2>1
    <2> HIDE DEF a, b, c, d
    <2>5. a = Min2(c, v) /\ b = Max2(d, v)
      BY <2>2, <2>3, <2>4 DEF Min2, Max2
    <2> QED
      BY <1>4, <2>5 DEF a, b, c, d
  <1> QED
    BY <1>3, <1>4

-----------------------------------------------------------------------------
(* Counting. *)

\* Tuples of positions are as many as the product says.
LEMMA PositionsCount ==
    ASSUME NEW n \in Nat, NEW s \in [1 .. n -> Nat]
    PROVE  LET P == {r \in [1 .. n -> Nat] : \A a \in 1 .. n : r[a] \in 1 .. s[a]}
           IN IsFiniteSet(P) /\ Cardinality(P) = Product(s) /\ Product(s) \in Nat
  <1> DEFINE P == {r \in [1 .. n -> Nat] : \A a \in 1 .. n : r[a] \in 1 .. s[a]}
             N == Product(s)
             cell == [k \in 1 .. N |-> [a \in 1 .. n |-> Digit(s, k - 1, a) + 1]]
  <1>1. N \in Nat
    BY ProductFacts
  <1>2. ASSUME NEW k \in 1 .. N PROVE cell[k] \in P
    <2>1. \A a \in 1 .. n : Digit(s, k - 1, a) + 1 \in 1 .. s[a]
      BY DigitRange
    <2>2. \A a \in 1 .. n : s[a] \in Nat
      OBVIOUS
    <2>3. cell[k] = [a \in 1 .. n |-> Digit(s, k - 1, a) + 1]
      BY <1>2
    <2> QED
      BY <2>1, <2>2, <2>3
  <1>3. ASSUME NEW j \in 1 .. N, NEW k \in 1 .. N, cell[j] = cell[k] PROVE j = k
    <2>1. \A a \in 1 .. n : Digit(s, j - 1, a) \in Nat /\ Digit(s, k - 1, a) \in Nat
      BY DigitRange
    <2>2. \A a \in 1 .. n : Digit(s, j - 1, a) + 1 = Digit(s, k - 1, a) + 1
      <3>1. /\ cell[j] = [a \in 1 .. n |-> Digit(s, j - 1, a) + 1]
            /\ cell[k] = [a \in 1 .. n |-> Digit(s, k - 1, a) + 1]
        OBVIOUS
      <3> HIDE DEF cell
      <3> QED
        BY <1>3, <3>1
    <2>3. \A a \in 1 .. n : Digit(s, j - 1, a) = Digit(s, k - 1, a)
      BY <2>1, <2>2
    <2>4. j - 1 \in 0 .. N - 1 /\ k - 1 \in 0 .. N - 1
      BY <1>1
    <2>5. j - 1 = k - 1
      BY <2>3, <2>4, DigitsInjective
    <2> QED
      BY <1>1, <2>5
  <1>4. ASSUME NEW r \in P PROVE \E k \in 1 .. N : cell[k] = r
    <2> DEFINE d == [a \in 1 .. n |-> r[a] - 1]
    <2>1. \A a \in 1 .. n : r[a] \in 1 .. s[a] /\ s[a] \in Nat
      OBVIOUS
    <2>2. d \in [1 .. n -> Nat] /\ \A a \in 1 .. n : d[a] < s[a] /\ d[a] + 1 = r[a]
      BY <2>1
    <2>3. PICK k \in 0 .. N - 1 : \A a \in 1 .. n : Digit(s, k, a) = d[a]
      <3> HIDE DEF d
      <3> QED
        BY <2>2, DigitsSurjective
    <2>4. k + 1 \in 1 .. N /\ (k + 1) - 1 = k
      BY <1>1
    <2>5. cell[k + 1] = [a \in 1 .. n |-> Digit(s, k, a) + 1]
      BY <2>4
    <2>6. r = [a \in 1 .. n |-> r[a]]
      OBVIOUS
    <2> HIDE DEF d, cell
    <2>7. cell[k + 1] = r
      BY <2>2, <2>3, <2>5, <2>6
    <2> QED
      BY <2>4, <2>7
  <1>5. cell \in Bijection(1 .. N, P)
    <2>1. cell \in [1 .. N -> P]
      <3>1. cell = [k \in 1 .. N |-> cell[k]]
        OBVIOUS
      <3> HIDE DEF cell, P
      <3> QED
        BY <1>2, <3>1
    <2> HIDE DEF cell, P
    <2> QED
      BY <2>1, <1>3, <1>4 DEF Bijection, Surjection, Injection, IsInjective
  <1>6. IsFiniteSet(1 .. N) /\ Cardinality(1 .. N) = N
    BY <1>1, FS_Interval
  <1>7. IsFiniteSet(P) /\ Cardinality(P) = N
    <2> HIDE DEF P, cell, N
    <2> QED
      BY <1>5, <1>6, FS_Bijection DEF ExistsBijection
  <1> QED
    BY <1>1, <1>7

\* Tuples of which each entry has at most b[j] values are at most as many as the
\* product says.
LEMMA TuplesBound ==
    ASSUME NEW n \in Nat, NEW b \in [1 .. n -> Nat], NEW V, DOMAIN V = 1 .. n,
           \A j \in 1 .. n : IsFiniteSet(V[j]) /\ Cardinality(V[j]) <= b[j],
           NEW K, \A t \in K : t = [j \in 1 .. n |-> t[j]] /\ \A j \in 1 .. n : t[j] \in V[j]
    PROVE  IsFiniteSet(K) /\ Cardinality(K) <= Product(b) /\ Product(b) \in Nat
  <1> DEFINE P == {r \in [1 .. n -> Nat] : \A a \in 1 .. n : r[a] \in 1 .. b[a]}
             num == [j \in 1 .. n |-> CHOOSE f : f \in Injection(V[j], 1 .. b[j])]
             code == [t \in K |-> [j \in 1 .. n |-> num[j][t[j]]]]
  <1>1. IsFiniteSet(P) /\ Cardinality(P) = Product(b) /\ Product(b) \in Nat
    BY PositionsCount
  <1>2. ASSUME NEW j \in 1 .. n PROVE num[j] \in Injection(V[j], 1 .. b[j])
    <2> DEFINE m == Cardinality(V[j])
    <2>1. m \in Nat /\ m <= b[j] /\ b[j] \in Nat /\ IsFiniteSet(V[j])
      BY FS_CardinalityType
    <2> HIDE DEF m
    <2>2. IsFiniteSet(1 .. m) /\ Cardinality(1 .. m) = m
      <3>1. m \in Nat
        BY <2>1
      <3>2. IsFiniteSet(1 .. m) /\ Cardinality(1 .. m) = IF 1 > m THEN 0 ELSE m - 1 + 1
        BY ONLY <3>1, FS_Interval
      <3> QED
        BY <3>1, <3>2
    <2>3. PICK f : f \in Bijection(V[j], 1 .. m)
      BY <2>1, <2>2, FS_SameCardinalityBij DEF ExistsBijection, m
    <2>4. 1 .. m \subseteq 1 .. b[j]
      BY <2>1
    <2>5. f \in Injection(V[j], 1 .. b[j])
      BY <2>3, <2>4 DEF Bijection, Injection, IsInjective
    <2> QED
      BY <2>5
  <1> HIDE DEF num
  <1>3. ASSUME NEW t \in K PROVE code[t] \in P
    <2>1. \A j \in 1 .. n : num[j][t[j]] \in 1 .. b[j] /\ b[j] \in Nat
      BY <1>2 DEF Injection
    <2>2. code[t] = [j \in 1 .. n |-> num[j][t[j]]]
      OBVIOUS
    <2> HIDE DEF code
    <2> QED
      BY <2>1, <2>2
  <1>4. ASSUME NEW t \in K, NEW u \in K, code[t] = code[u] PROVE t = u
    <2>1. ASSUME NEW j \in 1 .. n PROVE t[j] = u[j]
      <3>1. code[t][j] = num[j][t[j]] /\ code[u][j] = num[j][u[j]]
        OBVIOUS
      <3> HIDE DEF code
      <3>2. num[j][t[j]] = num[j][u[j]] /\ t[j] \in V[j] /\ u[j] \in V[j]
        BY <1>4, <3>1
      <3> QED
        BY <1>2, <3>2 DEF Injection, IsInjective
    <2>2. t = [j \in 1 .. n |-> t[j]] /\ u = [j \in 1 .. n |-> u[j]]
      OBVIOUS
    <2> QED
      BY <2>1, <2>2
  <1>5. code \in Injection(K, P)
    <2>1. code = [t \in K |-> code[t]]
      OBVIOUS
    <2> HIDE DEF code, P
    <2> QED
      BY <1>3, <1>4, <2>1 DEF Injection, IsInjective
  <1> HIDE DEF code, P
  <1> QED
    BY <1>1, <1>5, FS_Injection

\* What a function makes of a finite set.
LEMMA ImageSize ==
    ASSUME NEW S, IsFiniteSet(S), NEW f, DOMAIN f = S
    PROVE  /\ IsFiniteSet({f[x] : x \in S})
           /\ Cardinality({f[x] : x \in S}) <= Cardinality(S)
           /\ Cardinality({f[x] : x \in S}) \in Nat
  <1> DEFINE T == {f[x] : x \in S}
             g == [x \in S |-> f[x]]
  <1>1. g \in Surjection(S, T)
    BY DEF Surjection
  <1>2. IsFiniteSet(T) /\ Cardinality(T) <= Cardinality(S)
    <2> HIDE DEF T, g
    <2> QED
      BY <1>1, FS_Surjection
  <1> HIDE DEF T
  <1>3. Cardinality(T) \in Nat
    BY <1>2, FS_CardinalityType
  <1> QED
    BY <1>2, <1>3 DEF T

-----------------------------------------------------------------------------
(* The rows of a query. *)

\* Axes and columns.
LEMMA QueryFacts ==
    ASSUME NEW q \in Queries
    PROVE  /\ Len(q.coords) \in Nat \ {0} /\ Axes(q) = 1 .. Len(q.coords)
           /\ \A a \in Axes(q) : /\ q.coords[a] \in Seq(Int) /\ Size(q, a) \in Nat
                                 /\ DOMAIN q.coords[a] = 1 .. Size(q, a)
                                 /\ \A k \in 1 .. Size(q, a) : q.coords[a][k] \in Int
           /\ DetermineEffectiveCoords(q) \subseteq Axes(q) /\ DetermineEffectiveCoords(q) # {}
           /\ Len(q.keys) \in Nat /\ DOMAIN q.keys = 1 .. Len(q.keys)
           /\ \A j \in DOMAIN q.keys :
                 /\ q.keys[j].kind \in {"column", "month", "year"}
                 /\ q.keys[j].col = Var => q.keys[j].kind = "column"
                 /\ q.keys[j].col = Var \/ q.keys[j].col \in DetermineEffectiveCoords(q)
           /\ \A i \in DOMAIN q.aggs :
                 /\ q.aggs[i].fn \in {"count", "sum", "avg", "min", "max"}
                 /\ q.aggs[i].col \in {Star, Var} \cup DetermineEffectiveCoords(q)
                 /\ q.aggs[i].distinct \in BOOLEAN
           /\ Star \notin Axes(q) /\ Var \notin Axes(q)
           /\ q.parts \in Nat \ {0} /\ q.budget \in Nat
           /\ q.fetch \in Nat \cup {NoFetch} /\ NoFetch \notin Nat
  <1> DEFINE E == DetermineEffectiveCoords(q)
             A == [fn : {"count", "sum", "avg", "min", "max"}, col : {Star, Var} \cup Axes(q),
                   arg : {"column", "cast", "expr"}, distinct : BOOLEAN]
             K == [kind : {"column"}, col : {Var} \cup Axes(q)]
                  \cup [kind : {"month", "year"}, col : Axes(q)]
  <1>1. QueryOK(q)
    BY QueriesOK
  <1>2. /\ q.coords \in Seq(Seq(Int)) /\ q.coords # <<>>
        /\ q.dims \in Seq(Axes(q)) /\ q.dims # <<>>
        /\ q.aggs \in Seq(A) /\ q.keys \in Seq(K)
        /\ q.parts \in Nat \ {0} /\ q.budget \in Nat /\ q.fetch \in Nat \cup {NoFetch}
        /\ Columns(q) \ {Var} \subseteq E
    BY <1>1 DEF QueryOK
  <1>3. Len(q.coords) \in Nat \ {0} /\ Axes(q) = 1 .. Len(q.coords)
    BY <1>2, EmptySeq DEF Axes
  <1>4. \A a \in Axes(q) : /\ q.coords[a] \in Seq(Int) /\ Size(q, a) \in Nat
                           /\ DOMAIN q.coords[a] = 1 .. Size(q, a)
                           /\ \A k \in 1 .. Size(q, a) : q.coords[a][k] \in Int
    BY <1>2 DEF Axes, Size
  <1>5. Star \notin Axes(q) /\ Var \notin Axes(q) /\ Star # Var /\ NoFetch \notin Nat
    BY <1>3 DEF Star, Var, NoFetch
  <1>6. /\ \A i \in DOMAIN q.aggs : q.aggs[i] \in A
        /\ \A j \in DOMAIN q.keys : q.keys[j] \in K
        /\ Len(q.keys) \in Nat /\ DOMAIN q.keys = 1 .. Len(q.keys)
    <2> HIDE DEF A, K
    <2> QED
      BY <1>2
  <1>7. /\ \A i \in DOMAIN q.aggs : q.aggs[i].col \in {Star, Var} \cup Axes(q)
        /\ \A j \in DOMAIN q.keys : q.keys[j].col \in {Var} \cup Axes(q)
    BY <1>6
  <1>8. Columns(q) \ {Var} \subseteq Axes(q)
    BY <1>7 DEF Columns
  <1>9. E \subseteq Axes(q) /\ E # {}
    <2>1. CASE Var \in Columns(q)
      <3>1. E = ToSet(q.dims)
        BY <2>1 DEF DetermineEffectiveCoords
      <3>2. ToSet(q.dims) \subseteq Axes(q) /\ ToSet(q.dims) # {}
        <4>1. q.dims \in Seq(Axes(q)) /\ q.dims # <<>>
          BY <1>2
        <4>2. Len(q.dims) \in Nat \ {0} /\ DOMAIN q.dims = 1 .. Len(q.dims)
          BY <4>1, EmptySeq
        <4>3. 1 \in DOMAIN q.dims /\ \A k \in DOMAIN q.dims : q.dims[k] \in Axes(q)
          BY <4>1, <4>2
        <4> QED
          BY <4>3 DEF ToSet
      <3> QED
        BY <3>1, <3>2
    <2>2. CASE Var \notin Columns(q) /\ Columns(q) # {} /\ q.fetch # NoFetch
      <3>1. E = Columns(q)
        BY <2>2 DEF DetermineEffectiveCoords
      <3> QED
        BY <1>8, <2>2, <3>1
    <2>3. CASE Var \notin Columns(q) /\ ~(Columns(q) # {} /\ q.fetch # NoFetch)
      <3>1. E = Axes(q)
        BY <2>3 DEF DetermineEffectiveCoords
      <3> QED
        BY <1>3, <3>1
    <2> QED
      BY <2>1, <2>2, <2>3
  <1>10. \A j \in DOMAIN q.keys : q.keys[j].col = Var \/ q.keys[j].col \in E
    BY <1>2 DEF Columns
  <1>11. \A i \in DOMAIN q.aggs : q.aggs[i].col \in {Star, Var} \cup E
    BY <1>2 DEF Columns
  <1>12. /\ \A i \in DOMAIN q.aggs : /\ q.aggs[i].fn \in {"count", "sum", "avg", "min", "max"}
                                     /\ q.aggs[i].distinct \in BOOLEAN
         /\ \A j \in DOMAIN q.keys : /\ q.keys[j].kind \in {"column", "month", "year"}
                                     /\ q.keys[j].col = Var => q.keys[j].kind = "column"
    BY <1>5, <1>6
  <1> HIDE DEF E, A, K
  <1>13. /\ E \subseteq Axes(q) /\ E # {}
         /\ \A j \in DOMAIN q.keys : q.keys[j].col = Var \/ q.keys[j].col \in E
         /\ \A i \in DOMAIN q.aggs : q.aggs[i].col \in {Star, Var} \cup E
    BY <1>9, <1>10, <1>11
  <1> QED
    BY <1>2, <1>3, <1>4, <1>5, <1>6, <1>12, <1>13 DEF E

\* The rows are finitely many, each with a position on every effective axis.
LEMMA RowFacts ==
    ASSUME NEW q \in Queries
    PROVE  LET E == DetermineEffectiveCoords(q)
           IN /\ IsFiniteSet(ScanRows(q)) /\ Cardinality(ScanRows(q)) \in Nat
              /\ \A r \in ScanRows(q) :
                    /\ r = [a \in E |-> r[a]] /\ Value(r) \in Int
                    /\ \A a \in E : /\ r[a] \in 1 .. Size(q, a) /\ q.coords[a][r[a]] \in Int
                                    /\ q.filter.form = "coord" /\ a = 1 => r[a] \in q.filter.keep
  <1> DEFINE E == DetermineEffectiveCoords(q)
             R == ScanRows(q)
             n == Len(q.coords)
             V == [a \in 1 .. n |-> 0 .. Size(q, a)]
             b == [a \in 1 .. n |-> Size(q, a) + 1]
             ext == [r \in R |-> [a \in 1 .. n |-> IF a \in E THEN r[a] ELSE 0]]
             K == {ext[r] : r \in R}
  <1>1. /\ n \in Nat /\ E \subseteq 1 .. n /\ \A a \in 1 .. n : Size(q, a) \in Nat
        /\ \A a \in 1 .. n : \A k \in 1 .. Size(q, a) : q.coords[a][k] \in Int
    BY QueryFacts
  <1>2. ASSUME NEW r \in R
        PROVE  /\ r = [a \in E |-> r[a]] /\ Value(r) \in Int
               /\ \A a \in E : /\ r[a] \in 1 .. Size(q, a)
                               /\ q.filter.form = "coord" /\ a = 1 => r[a] \in q.filter.keep
    <2>1. Value(r) \in Int
      BY ValuesAreNumbers
    <2>2. r \in [E -> UNION {1 .. Size(q, a) : a \in E}]
      BY DEF ScanRows
    <2>3. \A a \in E : r[a] \in {k \in 1 .. Size(q, a) :
                                   q.filter.form = "coord" /\ a = 1 => k \in q.filter.keep}
      BY DEF ScanRows
    <2> HIDE DEF E
    <2> QED
      BY <2>1, <2>2, <2>3
  <1> HIDE DEF E, R, n
  <1>3. \A a \in 1 .. n : IsFiniteSet(V[a]) /\ Cardinality(V[a]) <= b[a]
    <2> TAKE a \in 1 .. n
    <2>1. Size(q, a) \in Nat
      BY <1>1
    <2>2. IsFiniteSet(0 .. Size(q, a)) /\ Cardinality(0 .. Size(q, a)) = Size(q, a) + 1
      BY <2>1, FS_Interval
    <2> QED
      BY <2>1, <2>2
  <1>4. b \in [1 .. n -> Nat] /\ DOMAIN V = 1 .. n
    BY <1>1
  <1>5. \A t \in K : t = [a \in 1 .. n |-> t[a]] /\ \A a \in 1 .. n : t[a] \in V[a]
    <2> SUFFICES ASSUME NEW r \in R
                 PROVE  /\ ext[r] = [a \in 1 .. n |-> ext[r][a]]
                        /\ \A a \in 1 .. n : ext[r][a] \in V[a]
      OBVIOUS
    <2>1. ext[r] = [a \in 1 .. n |-> ext[r][a]]
      OBVIOUS
    <2>2. \A a \in 1 .. n : (IF a \in E THEN r[a] ELSE 0) \in 0 .. Size(q, a)
      BY <1>1, <1>2
    <2>3. \A a \in 1 .. n : ext[r][a] \in V[a]
      BY <2>2
    <2> QED
      BY <2>1, <2>3
  <1>6. IsFiniteSet(K)
    <2> HIDE DEF K, V, b
    <2> QED
      BY <1>1, <1>3, <1>4, <1>5, TuplesBound
  <1>7. ASSUME NEW r \in R, NEW u \in R, ext[r] = ext[u] PROVE r = u
    <2>1. ASSUME NEW a \in E PROVE r[a] = u[a]
      <3>1. a \in 1 .. n
        BY <1>1
      <3>2. ext[r][a] = r[a] /\ ext[u][a] = u[a]
        BY <3>1
      <3> HIDE DEF ext
      <3> QED
        BY <1>7, <3>2
    <2>2. r = [a \in E |-> r[a]] /\ u = [a \in E |-> u[a]]
      BY <1>2
    <2> QED
      BY <2>1, <2>2
  <1>8. ext \in Injection(R, K)
    <2>1. ext = [r \in R |-> ext[r]] /\ \A r \in R : ext[r] \in K
      OBVIOUS
    <2> HIDE DEF ext, K
    <2> QED
      BY <1>7, <2>1 DEF Injection, IsInjective
  <1>9. IsFiniteSet(R)
    <2> HIDE DEF ext, K
    <2> QED
      BY <1>6, <1>8, FS_Injection
  <1>10. Cardinality(R) \in Nat
    BY <1>9, FS_CardinalityType
  <1>11. ASSUME NEW r \in R, NEW a \in E PROVE q.coords[a][r[a]] \in Int
    BY <1>1, <1>2
  <1> HIDE DEF V, b, ext, K
  <1> QED
    BY <1>2, <1>9, <1>10, <1>11 DEF E, R

\* Over all axes and without a filter there are as many rows as the statistics
\* say, and if there is one, then one for each position of an axis.
LEMMA AllRows ==
    ASSUME NEW q \in Queries, DetermineEffectiveCoords(q) = Axes(q)
    PROVE  /\ TotalRows(q) \in Nat
           /\ TotalRows(q) = 0 => ScanRows(q) = {}
           /\ q.filter.form = "none" =>
                 /\ Cardinality(ScanRows(q)) = TotalRows(q)
                 /\ TotalRows(q) # 0 =>
                       \A a \in Axes(q) : \A k \in 1 .. Size(q, a) : \E r \in ScanRows(q) : r[a] = k
  <1> DEFINE n == Len(q.coords)
             s == [a \in 1 .. n |-> Size(q, a)]
             P == {r \in [1 .. n -> Nat] : \A a \in 1 .. n : r[a] \in 1 .. s[a]}
             R == ScanRows(q)
  <1>1. n \in Nat /\ Axes(q) = 1 .. n /\ \A a \in 1 .. n : Size(q, a) \in Nat
    BY QueryFacts
  <1>2. s \in [1 .. n -> Nat] /\ TotalRows(q) = Product(s)
    BY <1>1 DEF TotalRows
  <1>3. IsFiniteSet(P) /\ Cardinality(P) = Product(s) /\ Product(s) \in Nat
    <2> HIDE DEF s
    <2> QED
      BY <1>1, <1>2, PositionsCount
  <1>4. R \subseteq P
    <2> SUFFICES ASSUME NEW r \in R PROVE r \in P
      OBVIOUS
    <2>1. r = [a \in 1 .. n |-> r[a]] /\ \A a \in 1 .. n : r[a] \in 1 .. Size(q, a)
      BY <1>1, RowFacts
    <2>2. \A a \in 1 .. n : r[a] \in Nat
      <3> TAKE a \in 1 .. n
      <3>1. Size(q, a) \in Nat /\ r[a] \in 1 .. Size(q, a)
        BY <1>1, <2>1
      <3> QED
        BY <3>1
    <2>3. \A a \in 1 .. n : s[a] = Size(q, a)
      OBVIOUS
    <2> HIDE DEF R, s
    <2> QED
      BY <2>1, <2>2, <2>3
  <1>5. ASSUME q.filter.form = "none" PROVE P \subseteq R
    <2> SUFFICES ASSUME NEW r \in P PROVE r \in R
      OBVIOUS
    <2>1. \A a \in 1 .. n : s[a] = Size(q, a)
      OBVIOUS
    <2>2. r \in [1 .. n -> Nat] /\ \A a \in 1 .. n : r[a] \in 1 .. Size(q, a)
      BY <2>1
    <2>3. r \in [1 .. n -> UNION {1 .. Size(q, a) : a \in 1 .. n}]
      BY <2>2
    <2>4. \A a \in 1 .. n : r[a] \in {k \in 1 .. Size(q, a) :
                                        q.filter.form = "coord" /\ a = 1 => k \in q.filter.keep}
      BY <1>5, <2>2
    <2> HIDE DEF n
    <2> QED
      BY <1>1, <2>3, <2>4 DEF ScanRows
  <1> HIDE DEF P, R
  <1>6. ASSUME TotalRows(q) = 0 PROVE R = {}
    <2>1. P = {}
      BY <1>2, <1>3, <1>6, FS_EmptySet
    <2> QED
      BY <1>4, <2>1
  <1>7. ASSUME q.filter.form = "none" PROVE Cardinality(R) = TotalRows(q)
    <2>1. R = P
      BY <1>4, <1>5, <1>7
    <2> QED
      BY <1>2, <1>3, <2>1
  <1>8. ASSUME q.filter.form = "none", TotalRows(q) # 0, NEW a \in 1 .. n, NEW k \in 1 .. Size(q, a)
        PROVE  \E r \in R : r[a] = k
    <2>1. \A c \in 1 .. n : s[c] \in Nat \ {0} /\ s[c] = Size(q, c)
      <3>1. \A c \in 1 .. n : s[c] = Size(q, c)
        OBVIOUS
      <3>2. ProductAfter(s, 0) # 0
        BY <1>2, <1>8 DEF Product
      <3> HIDE DEF s
      <3>3. \A c \in 1 .. n : s[c] \in Nat \ {0}
        BY <1>1, <1>2, <3>2, ProductPositive
      <3> QED
        BY <3>1, <3>3
    <2> DEFINE r == [c \in 1 .. n |-> IF c = a THEN k ELSE 1]
    <2> HIDE DEF s
    <2>2. \A c \in 1 .. n : r[c] \in 1 .. s[c]
      BY <2>1
    <2>3. r \in [1 .. n -> Nat] /\ r[a] = k
      BY <2>1
    <2> HIDE DEF r
    <2>4. r \in P
      BY <2>2, <2>3 DEF P
    <2> QED
      BY <1>5, <1>8, <2>3, <2>4
  <1> HIDE DEF s
  <1> QED
    BY <1>1, <1>2, <1>3, <1>6, <1>7, <1>8 DEF R

-----------------------------------------------------------------------------
(* Groups. *)

\* The key of a row has an integer for each expression of the GROUP BY.
LEMMA KeyFacts ==
    ASSUME NEW q \in Queries, NEW r \in ScanRows(q)
    PROVE  /\ KeyOf(q, r) \in [DOMAIN q.keys -> Int]
           /\ KeyOf(q, r) \in Seq(Int) /\ Len(KeyOf(q, r)) = Len(q.keys)
           /\ q.keys = <<>> => KeyOf(q, r) = <<>>
           /\ \A j \in DOMAIN q.keys :
                 q.keys[j].col # Var =>
                    KeyOf(q, r)[j] = LET v == q.coords[q.keys[j].col][r[q.keys[j].col]]
                                     IN IF q.keys[j].kind = "column" THEN v ELSE DatePart(v)
  <1> DEFINE key == KeyOf(q, r)
             k(j) == q.keys[j]
             E == DetermineEffectiveCoords(q)
  <1>1. /\ Len(q.keys) \in Nat /\ DOMAIN q.keys = 1 .. Len(q.keys)
        /\ \A j \in DOMAIN q.keys : /\ k(j).col = Var \/ k(j).col \in E
                                    /\ k(j).col = Var => k(j).kind = "column"
    BY QueryFacts
  <1>2. Value(r) \in Int /\ \A a \in E : q.coords[a][r[a]] \in Int
    BY RowFacts
  <1>3. key = [j \in DOMAIN q.keys |->
                 CASE k(j).kind = "column" /\ k(j).col = Var -> Value(r)
                   [] k(j).kind = "column" /\ k(j).col # Var -> q.coords[k(j).col][r[k(j).col]]
                   [] OTHER -> DatePart(q.coords[k(j).col][r[k(j).col]])]
    BY DEF KeyOf
  <1>4. \A j \in DOMAIN q.keys :
           k(j).col # Var =>
              key[j] = LET v == q.coords[k(j).col][r[k(j).col]]
                       IN IF k(j).kind = "column" THEN v ELSE DatePart(v)
    BY <1>3
  <1>5. ASSUME NEW j \in DOMAIN q.keys PROVE key[j] \in Int
    <2>1. CASE k(j).col = Var /\ k(j).kind = "column"
      BY <1>2, <1>3, <2>1
    <2>2. CASE k(j).col # Var
      <3>1. q.coords[k(j).col][r[k(j).col]] \in Int
        BY <1>1, <1>2, <2>2
      <3>2. DatePart(q.coords[k(j).col][r[k(j).col]]) \in Int
        BY <3>1 DEF DatePart, Period
      <3> QED
        BY <1>4, <2>2, <3>1, <3>2
    <2> QED
      BY <1>1, <2>1, <2>2
  <1> HIDE DEF key
  <1>6. key \in [DOMAIN q.keys -> Int]
    BY <1>3, <1>5
  <1>7. key \in Seq(Int) /\ Len(key) = Len(q.keys)
    BY <1>1, <1>6, FunIsSeq
  <1>8. q.keys = <<>> => key = <<>>
    BY <1>7, EmptySeq
  <1> QED
    BY <1>4, <1>6, <1>7, <1>8 DEF key

\* The groups of a recognized aggregate are at most as many as the rule counts.
LEMMA GroupBound ==
    ASSUME NEW q \in Queries, Recognize(q), q.keys # <<>>,
           TotalRows(q) # 0 \/ DetermineEffectiveCoords(q) = Axes(q)
    PROVE  LET K == {KeyOf(q, r) : r \in ScanRows(q)}
           IN /\ IsFiniteSet(K) /\ Cardinality(K) \in Nat /\ GroupCardinality(q) \in Nat
              /\ Cardinality(K) <= GroupCardinality(q)
  <1> DEFINE E == DetermineEffectiveCoords(q)
             R == ScanRows(q)
             keyOf == [r \in R |-> KeyOf(q, r)]
             K == {keyOf[r] : r \in R}
             col(j) == q.keys[j].col
             n == Len(q.coords)
             m == Len(q.keys)
             Cols == {col(j) : j \in DOMAIN q.keys}
             Bound(k) == IF k.kind = "month" THEN Min2(Size(q, k.col), Period) ELSE Size(q, k.col)
             b == [a \in 1 .. n |-> IF a \in Cols THEN Size(q, a) ELSE 1]
             c == [j \in 1 .. m |-> Bound(q.keys[j])]
  <1>1. /\ n \in Nat /\ Axes(q) = 1 .. n /\ \A a \in 1 .. n : Size(q, a) \in Nat
        /\ m \in Nat /\ DOMAIN q.keys = 1 .. m
    BY QueryFacts
  <1>2. ASSUME NEW j \in 1 .. m
        PROVE  /\ q.keys[j].kind \in {"column", "month"}
               /\ col(j) \in 1 .. n /\ col(j) \in E /\ col(j) # Var
    <2>1. col(j) \in Axes(q) /\ q.keys[j].kind \in {"column", "month"}
      BY <1>1 DEF Recognize, RecognizeKey
    <2> QED
      BY <1>1, <2>1, QueryFacts
  <1>3. ASSUME NEW r \in R
        PROVE  /\ keyOf[r] = [j \in 1 .. m |-> keyOf[r][j]]
               /\ \A a \in E : r[a] \in 1 .. Size(q, a)
               /\ \A j \in 1 .. m :
                     keyOf[r][j] = LET v == q.coords[col(j)][r[col(j)]]
                                   IN IF q.keys[j].kind = "column" THEN v ELSE DatePart(v)
    <2>1. KeyOf(q, r) \in [1 .. m -> Int]
      BY <1>1, KeyFacts
    <2>2. \A j \in 1 .. m :
             KeyOf(q, r)[j] = LET v == q.coords[col(j)][r[col(j)]]
                              IN IF q.keys[j].kind = "column" THEN v ELSE DatePart(v)
      BY <1>1, <1>2, KeyFacts
    <2>3. keyOf[r] = KeyOf(q, r)
      OBVIOUS
    <2> HIDE DEF keyOf
    <2> QED
      BY <2>1, <2>2, <2>3, RowFacts
  <1>4. K = {KeyOf(q, r) : r \in ScanRows(q)}
    OBVIOUS
  <1>5. b \in [1 .. n -> Nat] /\ c \in [1 .. m -> Nat]
    <2>1. b \in [1 .. n -> Nat]
      BY <1>1
    <2>2. ASSUME NEW j \in 1 .. m PROVE Bound(q.keys[j]) \in Nat
      BY <1>1, <1>2 DEF Min2, Period
    <2> QED
      BY <2>1, <2>2
  <1>6. ASSUME NEW a \in 1 .. n
        PROVE  /\ IsFiniteSet({q.coords[a][k] : k \in 1 .. Size(q, a)})
               /\ Cardinality({q.coords[a][k] : k \in 1 .. Size(q, a)}) <= Size(q, a)
    <2>1. Size(q, a) \in Nat /\ DOMAIN q.coords[a] = 1 .. Size(q, a)
      BY <1>1, QueryFacts
    <2>2. IsFiniteSet(1 .. Size(q, a)) /\ Cardinality(1 .. Size(q, a)) = Size(q, a)
      BY ONLY <2>1, FS_Interval
    <2> QED
      BY <2>1, <2>2, ImageSize
  <1> HIDE DEF R, n, m, keyOf
  \* Without rows there are no groups.
  <1>7. CASE TotalRows(q) = 0
    <2>1. R = {}
      BY <1>7, AllRows DEF R
    <2>2. K = {} /\ GroupCardinality(q) = 0
      BY <1>7, <2>1 DEF GroupCardinality
    <2> HIDE DEF K
    <2>3. IsFiniteSet(K) /\ Cardinality(K) = 0
      BY <2>2, FS_EmptySet
    <2> QED
      BY <1>4, <2>2, <2>3
  \* Coordinates: the key is a choice of values on the axes it names.
  <1>8. CASE TotalRows(q) # 0 /\ \A j \in DOMAIN q.keys : q.keys[j].kind = "column"
    <2> DEFINE at == [r \in R |-> [a \in 1 .. n |-> IF a \in Cols THEN q.coords[a][r[a]] ELSE 0]]
               L == {at[r] : r \in R}
               V == [a \in 1 .. n |-> IF a \in Cols THEN {q.coords[a][k] : k \in 1 .. Size(q, a)} ELSE {0}]
               f == [t \in L |-> [j \in 1 .. m |-> t[col(j)]]]
    <2>1. GroupCardinality(q) = Product(b)
      <3>1. q.keys # <<>> /\ ~(TotalRows(q) = 0)
        BY <1>8
      <3>2. GroupCardinality(q) = Product([a \in Axes(q) |-> IF a \in Cols THEN Size(q, a) ELSE 1])
        BY <1>8, <3>1 DEF GroupCardinality
      <3> QED
        BY <1>1, <3>2
    <2>2. \A a \in 1 .. n : IsFiniteSet(V[a]) /\ Cardinality(V[a]) <= b[a]
      <3> TAKE a \in 1 .. n
      <3>1. CASE a \in Cols
        <4> DEFINE X == {q.coords[a][k] : k \in 1 .. Size(q, a)}
        <4>1. IsFiniteSet(X) /\ Cardinality(X) <= Size(q, a)
          BY <1>6
        <4>2. V[a] = X /\ b[a] = Size(q, a)
          BY <3>1
        <4>3. IsFiniteSet(V[a]) /\ Cardinality(V[a]) <= Size(q, a)
          BY ONLY <4>1, <4>2, Zenon
        <4>4. b[a] = Size(q, a)
          BY ONLY <4>2, Zenon
        <4> HIDE DEF X, V, b
        <4> QED
          BY ONLY <4>3, <4>4
      <3>2. CASE a \notin Cols
        <4>1. IsFiniteSet({0}) /\ Cardinality({0}) = 1
          BY FS_Singleton
        <4>2. V[a] = {0} /\ b[a] = 1
          BY <3>2
        <4> HIDE DEF V, b
        <4>3. IsFiniteSet(V[a]) /\ Cardinality(V[a]) = 1
          BY ONLY <4>1, <4>2, Zenon
        <4> QED
          BY ONLY <4>2, <4>3
      <3> QED
        BY <3>1, <3>2
    <2>3. \A t \in L : t = [a \in 1 .. n |-> t[a]] /\ \A a \in 1 .. n : t[a] \in V[a]
      <3> SUFFICES ASSUME NEW r \in R
                   PROVE  /\ at[r] = [a \in 1 .. n |-> at[r][a]]
                          /\ \A a \in 1 .. n : at[r][a] \in V[a]
        OBVIOUS
      <3>1. at[r] = [a \in 1 .. n |-> at[r][a]]
        OBVIOUS
      <3>2. ASSUME NEW a \in 1 .. n PROVE at[r][a] \in V[a]
        <4>1. CASE a \in Cols
          <5>1. r[a] \in 1 .. Size(q, a)
            BY <1>1, <1>2, <1>3, <4>1
          <5> QED
            BY <4>1, <5>1
        <4>2. CASE a \notin Cols
          BY <4>2
        <4> QED
          BY <4>1, <4>2
      <3> QED
        BY <3>1, <3>2
    <2>4. IsFiniteSet(L) /\ Cardinality(L) <= Product(b) /\ Product(b) \in Nat
      <3>1. DOMAIN V = 1 .. n
        OBVIOUS
      <3> HIDE DEF V, L, b
      <3> QED
        BY <1>1, <1>5, <2>2, <2>3, <3>1, TuplesBound
    <2>5. ASSUME NEW r \in R PROVE f[at[r]] = keyOf[r]
      <3>1. at[r] \in L
        OBVIOUS
      <3>2. f[at[r]] = [j \in 1 .. m |-> at[r][col(j)]]
        BY <3>1
      <3>3. ASSUME NEW j \in 1 .. m PROVE at[r][col(j)] = keyOf[r][j]
        <4>1. col(j) \in 1 .. n /\ col(j) \in Cols
          BY <1>1, <1>2
        <4>2. at[r][col(j)] = q.coords[col(j)][r[col(j)]]
          BY <4>1
        <4>3. keyOf[r][j] = q.coords[col(j)][r[col(j)]]
          BY <1>1, <1>3, <1>8
        <4> QED
          BY <4>2, <4>3
      <3>4. keyOf[r] = [j \in 1 .. m |-> keyOf[r][j]]
        BY <1>3
      <3> HIDE DEF at, f, L
      <3> QED
        BY <3>2, <3>3, <3>4
    <2>6. K = {f[t] : t \in L}
      <3>1. \A t \in L : \E r \in R : t = at[r]
        OBVIOUS
      <3>2. \A r \in R : at[r] \in L
        OBVIOUS
      <3> HIDE DEF at, f, L
      <3> QED
        BY <2>5, <3>1, <3>2
    <2>7. DOMAIN f = L
      OBVIOUS
    <2> HIDE DEF f, L
    <2>8. /\ IsFiniteSet({f[t] : t \in L}) /\ Cardinality({f[t] : t \in L}) <= Cardinality(L)
          /\ Cardinality({f[t] : t \in L}) \in Nat
      BY <2>4, <2>7, ImageSize
    <2>9. Cardinality(L) \in Nat
      BY <2>4, FS_CardinalityType
    <2> HIDE DEF K, b
    <2>10. IsFiniteSet(K) /\ Cardinality(K) <= Cardinality(L) /\ Cardinality(K) \in Nat
      BY <2>6, <2>8
    <2> QED
      BY <1>4, <2>1, <2>4, <2>9, <2>10
  \* Date parts: at most a value for each position, or for each of the period.
  <1>9. CASE TotalRows(q) # 0 /\ ~ \A j \in DOMAIN q.keys : q.keys[j].kind = "column"
    <2> DEFINE W(j) == {q.coords[col(j)][k] : k \in 1 .. Size(q, col(j))}
               V == [j \in 1 .. m |-> IF q.keys[j].kind = "column" THEN W(j) ELSE {DatePart(v) : v \in W(j)}]
    <2>1. GroupCardinality(q) = Product(c)
      <3>1. q.keys # <<>> /\ ~(TotalRows(q) = 0)
        BY <1>9
      <3>2. GroupCardinality(q) = Product([j \in DOMAIN q.keys |-> Bound(q.keys[j])])
        BY <1>9, <3>1 DEF GroupCardinality
      <3> QED
        BY <1>1, <3>2
    <2>2. ASSUME NEW j \in 1 .. m PROVE IsFiniteSet(V[j]) /\ Cardinality(V[j]) <= c[j]
      <3>1. /\ col(j) \in 1 .. n /\ Size(q, col(j)) \in Nat /\ q.keys[j].kind \in {"column", "month"}
            /\ IsFiniteSet(W(j)) /\ Cardinality(W(j)) <= Size(q, col(j))
        BY <1>1, <1>2, <1>6
      <3>2. CASE q.keys[j].kind = "column"
        <4>1. V[j] = W(j) /\ c[j] = Size(q, col(j))
          BY <3>2
        <4> QED
          BY <3>1, <4>1
      <3>3. CASE q.keys[j].kind = "month"
        <4> DEFINE g == [v \in W(j) |-> DatePart(v)]
                   D == {g[v] : v \in W(j)}
        <4>1. V[j] = D /\ c[j] = Min2(Size(q, col(j)), Period)
          BY <3>3
        <4>2. D \subseteq 0 .. 1
          <5>1. \A v \in W(j) : v \in Int
            <6>1. col(j) \in Axes(q)
              BY <1>1, <3>1
            <6>2. \A k \in 1 .. Size(q, col(j)) : q.coords[col(j)][k] \in Int
              BY <6>1, QueryFacts, Zenon
            <6> QED
              BY ONLY <6>2
          <5>2. \A v \in Int : DatePart(v) \in 0 .. 1
            BY DEF DatePart, Period
          <5> HIDE DEF W
          <5> QED
            BY <5>1, <5>2
        <4>3. IsFiniteSet(D) /\ Cardinality(D) <= Cardinality(W(j)) /\ Cardinality(D) \in Nat
          <5> HIDE DEF W
          <5> QED
            BY <3>1, ImageSize
        <4>4. IsFiniteSet(0 .. 1) /\ Cardinality(0 .. 1) = 2
          <5>1. 0 \in Int /\ 1 \in Int
            OBVIOUS
          <5>2. IsFiniteSet(0 .. 1) /\ Cardinality(0 .. 1) = IF 0 > 1 THEN 0 ELSE 1 - 0 + 1
            BY ONLY <5>1, FS_Interval, Zenon
          <5> QED
            BY ONLY <5>2
        <4> HIDE DEF D
        <4>5. Cardinality(D) <= 2
          BY <4>2, <4>4, FS_Subset
        <4>6. Cardinality(W(j)) \in Nat
          BY <3>1, FS_CardinalityType
        <4> HIDE DEF W, V, c
        <4>7. Cardinality(D) <= Min2(Size(q, col(j)), Period)
          BY <3>1, <4>3, <4>5, <4>6 DEF Min2, Period
        <4> QED
          BY <4>1, <4>3, <4>7
      <3> QED
        BY <3>1, <3>2, <3>3
    <2>3. \A t \in K : t = [j \in 1 .. m |-> t[j]] /\ \A j \in 1 .. m : t[j] \in V[j]
      <3> SUFFICES ASSUME NEW r \in R
                   PROVE  /\ keyOf[r] = [j \in 1 .. m |-> keyOf[r][j]]
                          /\ \A j \in 1 .. m : keyOf[r][j] \in V[j]
        OBVIOUS
      <3>1. ASSUME NEW j \in 1 .. m PROVE keyOf[r][j] \in V[j]
        <4> DEFINE v == q.coords[col(j)][r[col(j)]]
        <4>1. v \in W(j)
          BY <1>2, <1>3
        <4>2. keyOf[r][j] = IF q.keys[j].kind = "column" THEN v ELSE DatePart(v)
          BY <1>3
        <4> HIDE DEF v, W
        <4> QED
          BY <4>1, <4>2
      <3> QED
        BY <1>3, <3>1
    <2>4. DOMAIN V = 1 .. m
      OBVIOUS
    <2> HIDE DEF V, K, c
    <2>5. IsFiniteSet(K) /\ Cardinality(K) <= Product(c) /\ Product(c) \in Nat
      BY <1>1, <1>5, <2>2, <2>3, <2>4, TuplesBound
    <2>6. Cardinality(K) \in Nat
      BY <2>5, FS_CardinalityType
    <2> QED
      BY <1>4, <2>1, <2>5, <2>6
  <1> QED
    BY <1>7, <1>8, <1>9

-----------------------------------------------------------------------------
(* Accumulators. *)

\* What the accumulator of an aggregate holds after the rows of T.
Accumulated(agg, T) ==
    LET vals == {Value(r) : r \in T}
    IN IF agg.fn = "count"
       THEN [count |-> Cardinality(T), sum |-> 0, min |-> <<>>, max |-> <<>>]
       ELSE [count |-> Cardinality(T), sum |-> SumOver([r \in T |-> Value(r)]),
             min |-> IF T = {} THEN <<>> ELSE <<Min(vals)>>,
             max |-> IF T = {} THEN <<>> ELSE <<Max(vals)>>]

\* Before any row it is that of a new group.
LEMMA AccumulatedNone ==
    ASSUME NEW agg
    PROVE  Accumulated(agg, {}) = [count |-> 0, sum |-> 0, min |-> <<>>, max |-> <<>>]
  <1>1. Cardinality({}) = 0
    BY FS_EmptySet
  <1>2. SumOver([r \in {} |-> Value(r)]) = 0
    <2> DEFINE f == [r \in {} |-> Value(r)]
    <2>1. f \in [{} -> Int]
      OBVIOUS
    <2> HIDE DEF f
    <2>2. SumOver(f) = 0
      BY <2>1, SumEmpty
    <2> QED
      BY <2>2 DEF f
  <1> QED
    BY <1>1, <1>2 DEF Accumulated

\* fold_cell takes one row more into account.
LEMMA FoldCellAdds ==
    ASSUME NEW agg, NEW T, IsFiniteSet(T), \A s \in T : Value(s) \in Int,
           NEW r, r \notin T, Value(r) \in Int
    PROVE  FoldCell(Accumulated(agg, T), agg, r) = Accumulated(agg, T \cup {r})
  <1> DEFINE U == T \cup {r}
             vals == {Value(s) : s \in T}
             v == Value(r)
             f == [s \in U |-> Value(s)]
             g == [s \in T |-> Value(s)]
             acc == Accumulated(agg, T)
  <1>1. IsFiniteSet(U) /\ Cardinality(U) = Cardinality(T) + 1
    BY FS_AddElement
  <1>2. CASE agg.fn = "count"
    <2>1. acc = [count |-> Cardinality(T), sum |-> 0, min |-> <<>>, max |-> <<>>]
      BY <1>2 DEF Accumulated
    <2>2. Accumulated(agg, U) = [count |-> Cardinality(U), sum |-> 0, min |-> <<>>, max |-> <<>>]
      BY <1>2 DEF Accumulated
    <2>3. FoldCell(acc, agg, r) = [acc EXCEPT !.count = acc.count + 1]
      BY <1>2 DEF FoldCell
    <2> HIDE DEF acc, U
    <2>4. [acc EXCEPT !.count = acc.count + 1]
            = [count |-> Cardinality(T) + 1, sum |-> 0, min |-> <<>>, max |-> <<>>]
      BY <2>1
    <2> QED
      BY <1>1, <2>2, <2>3, <2>4 DEF acc, U
  <1>3. CASE agg.fn # "count"
    <2>1. SumOver(f) = SumOver(g) + v
      <3>1. f \in [U -> Int] /\ r \in U
        OBVIOUS
      <3>2. g = [s \in U \ {r} |-> f[s]] /\ f[r] = v
        OBVIOUS
      <3> HIDE DEF f, g, v, U
      <3>3. SumOver(f) = SumOver([s \in U \ {r} |-> f[s]]) + f[r]
        BY <1>1, <3>1, SumInsert
      <3> QED
        BY <3>2, <3>3
    <2>2. vals \subseteq Int /\ IsFiniteSet(vals) /\ v \in Int
      <3>1. DOMAIN g = T /\ vals = {g[s] : s \in T}
        OBVIOUS
      <3>2. vals \subseteq Int /\ v \in Int
        OBVIOUS
      <3> HIDE DEF g, vals, v
      <3>3. IsFiniteSet({g[s] : s \in T})
        BY <3>1, ImageSize
      <3> QED
        BY <3>1, <3>2, <3>3
    <2>3. {Value(s) : s \in U} = vals \cup {v} /\ (vals = {} <=> T = {})
      OBVIOUS
    <2>4. /\ Min({Value(s) : s \in U}) = IF T = {} THEN v ELSE Min2(Min(vals), v)
          /\ Max({Value(s) : s \in U}) = IF T = {} THEN v ELSE Max2(Max(vals), v)
      <3> DEFINE W == {Value(s) : s \in U}
      <3>1. W = vals \cup {v} /\ (vals = {} <=> T = {})
        BY <2>3
      <3> HIDE DEF vals, v, W
      <3>2. /\ Min(vals \cup {v}) = IF vals = {} THEN v ELSE Min2(Min(vals), v)
            /\ Max(vals \cup {v}) = IF vals = {} THEN v ELSE Max2(Max(vals), v)
        BY <2>2, ExtremesAdd
      <3>3. /\ Min(W) = IF T = {} THEN v ELSE Min2(Min(vals), v)
            /\ Max(W) = IF T = {} THEN v ELSE Max2(Max(vals), v)
        BY ONLY <3>1, <3>2
      <3> QED
        BY <3>3 DEF W
    <2>5. Accumulated(agg, U)
            = [count |-> Cardinality(U), sum |-> SumOver(f),
               min |-> <<Min({Value(s) : s \in U})>>, max |-> <<Max({Value(s) : s \in U})>>]
      <3>1. U # {} /\ agg.fn # "count"
        BY <1>3
      <3> HIDE DEF U
      <3> QED
        BY <3>1 DEF Accumulated
    <2>6. acc = [count |-> Cardinality(T), sum |-> SumOver(g),
                 min |-> IF T = {} THEN <<>> ELSE <<Min(vals)>>,
                 max |-> IF T = {} THEN <<>> ELSE <<Max(vals)>>]
      BY <1>3 DEF Accumulated
    <2>7. FoldCell(acc, agg, r) = Push(acc, v)
      BY <1>3 DEF FoldCell
    <2> HIDE DEF acc, U, vals, f, g, v
    <2>8. Push(acc, v)
            = [count |-> Cardinality(T) + 1, sum |-> SumOver(g) + v,
               min |-> IF T = {} THEN <<v>> ELSE <<Min2(Min(vals), v)>>,
               max |-> IF T = {} THEN <<v>> ELSE <<Max2(Max(vals), v)>>]
      <3>1. CASE T = {}
        BY <2>6, <3>1 DEF Push
      <3>2. CASE T # {}
        <4>1. /\ acc.min = <<Min(vals)>> /\ acc.max = <<Max(vals)>>
              /\ acc.count = Cardinality(T) /\ acc.sum = SumOver(g)
          BY <2>6, <3>2
        <4>2. acc.min # <<>> /\ acc.max # <<>> /\ acc.min[1] = Min(vals) /\ acc.max[1] = Max(vals)
          BY <4>1
        <4> QED
          BY <3>2, <4>1, <4>2 DEF Push
      <3> QED
        BY <3>1, <3>2
    <2> QED
      BY <1>1, <2>1, <2>4, <2>5, <2>7, <2>8 DEF acc, U
  <1> QED
    BY <1>2, <1>3

-----------------------------------------------------------------------------
(* The table of groups. *)

\* The rows of a group.
RowsOf(q, T, key) == {r \in T : KeyOf(q, r) = key}

\* The groups that rows make.
KeysOf(q, T) == (IF q.keys = <<>> THEN {<<>>} ELSE {}) \cup {KeyOf(q, r) : r \in T}

\* The table of groups after the rows of T.
TableOf(q, T) ==
    [key \in KeysOf(q, T) |->
        [i \in DOMAIN q.aggs |-> Accumulated(q.aggs[i], RowsOf(q, T, key))]]

\* It begins as the one of no rows.
LEMMA TableOfNone ==
    ASSUME NEW q
    PROVE  TableOf(q, {}) = InitialGroups(q)
  <1>1. KeysOf(q, {}) = IF q.keys = <<>> THEN {<<>>} ELSE {}
    BY DEF KeysOf
  <1>2. \A key : RowsOf(q, {}, key) = {}
    BY DEF RowsOf
  <1>3. [i \in DOMAIN q.aggs |-> Accumulated(q.aggs[i], {})] = NewGroup(q)
    BY AccumulatedNone DEF NewGroup
  <1> QED
    BY <1>1, <1>2, <1>3 DEF TableOf, InitialGroups

\* fold_batch takes the rows of a batch one by one.
LEMMA FoldRowAdds ==
    ASSUME NEW q \in Queries, NEW T \in SUBSET ScanRows(q), NEW r \in ScanRows(q), r \notin T
    PROVE  FoldRow(q, TableOf(q, T), r) = TableOf(q, T \cup {r})
  <1> DEFINE U == T \cup {r}
             key == KeyOf(q, r)
             table == TableOf(q, T)
             group == IF key \in DOMAIN table THEN table[key] ELSE NewGroup(q)
             folded == [i \in DOMAIN group |-> FoldCell(group[i], q.aggs[i], r)]
             Old == RowsOf(q, T, key)
  <1>1. FoldRow(q, table, r) = [k \in DOMAIN table \cup {key} |-> IF k = key THEN folded ELSE table[k]]
    BY DEF FoldRow
  <1>2. DOMAIN table = KeysOf(q, T)
    BY DEF TableOf
  <1>3. KeysOf(q, U) = KeysOf(q, T) \cup {key}
    BY DEF KeysOf
  <1>4. group = [i \in DOMAIN q.aggs |-> Accumulated(q.aggs[i], Old)]
    <2>1. CASE key \in KeysOf(q, T)
      BY <1>2, <2>1 DEF TableOf
    <2>2. CASE key \notin KeysOf(q, T)
      <3>1. Old = {}
        BY <2>2 DEF KeysOf, RowsOf
      <3>2. group = NewGroup(q)
        BY <1>2, <2>2
      <3> HIDE DEF Old, group
      <3>3. [i \in DOMAIN q.aggs |-> Accumulated(q.aggs[i], Old)]
              = [i \in DOMAIN q.aggs |-> [count |-> 0, sum |-> 0, min |-> <<>>, max |-> <<>>]]
        BY <3>1, AccumulatedNone
      <3> QED
        BY <3>2, <3>3 DEF NewGroup
    <2> QED
      BY <2>1, <2>2
  <1>5. RowsOf(q, U, key) = Old \cup {r}
    BY DEF RowsOf
  <1>6. \A k : k # key => RowsOf(q, U, k) = RowsOf(q, T, k)
    BY DEF RowsOf
  <1>7. /\ IsFiniteSet(Old) /\ \A s \in Old : Value(s) \in Int
        /\ r \notin Old /\ Value(r) \in Int
    <2>1. Old \subseteq ScanRows(q) /\ r \notin Old
      BY DEF RowsOf
    <2>2. IsFiniteSet(ScanRows(q)) /\ \A s \in ScanRows(q) : Value(s) \in Int
      BY RowFacts
    <2> HIDE DEF Old
    <2> QED
      BY <2>1, <2>2, FS_Subset
  <1> HIDE DEF U, key, table, group, Old
  <1>8. folded = [i \in DOMAIN q.aggs |-> Accumulated(q.aggs[i], RowsOf(q, U, key))]
    <2>1. \A i \in DOMAIN q.aggs :
             FoldCell(group[i], q.aggs[i], r) = Accumulated(q.aggs[i], RowsOf(q, U, key))
      <3> TAKE i \in DOMAIN q.aggs
      <3>1. FoldCell(Accumulated(q.aggs[i], Old), q.aggs[i], r) = Accumulated(q.aggs[i], Old \cup {r})
        BY <1>7, FoldCellAdds
      <3>2. group[i] = Accumulated(q.aggs[i], Old)
        BY <1>4
      <3> QED
        BY <1>5, <3>1, <3>2
    <2>2. DOMAIN group = DOMAIN q.aggs
      BY <1>4
    <2> QED
      BY <2>1, <2>2
  <1> HIDE DEF folded
  <1>9. \A k \in KeysOf(q, T) :
           table[k] = [i \in DOMAIN q.aggs |-> Accumulated(q.aggs[i], RowsOf(q, T, k))]
    BY DEF TableOf, table
  <1>10. \A k \in KeysOf(q, U) :
            (IF k = key THEN folded ELSE table[k])
              = [i \in DOMAIN q.aggs |-> Accumulated(q.aggs[i], RowsOf(q, U, k))]
    <2> TAKE k \in KeysOf(q, U)
    <2>1. CASE k = key
      BY <1>8, <2>1
    <2>2. CASE k # key
      <3>1. k \in KeysOf(q, T) /\ RowsOf(q, U, k) = RowsOf(q, T, k)
        BY <1>3, <1>6, <2>2
      <3> QED
        BY <1>9, <2>2, <3>1
    <2> QED
      BY <2>1, <2>2
  <1>11. FoldRow(q, table, r) = TableOf(q, U)
    BY <1>1, <1>2, <1>3, <1>10 DEF TableOf
  <1> QED
    BY <1>11 DEF table, U

\* A batch of new rows.
LEMMA FoldRowsAdds ==
    ASSUME NEW q \in Queries, NEW T \in SUBSET ScanRows(q),
           NEW rows \in Seq(ScanRows(q) \ T),
           \A i, j \in 1 .. Len(rows) : rows[i] = rows[j] => i = j
    PROVE  FoldRows(q, TableOf(q, T), rows) = TableOf(q, T \cup Ran(rows))
  <1> DEFINE N == Len(rows)
             First(n) == {rows[i] : i \in 1 .. n}
             Is(f) == f = [n \in 0 .. N |-> IF n = 0 THEN TableOf(q, T)
                                            ELSE FoldRow(q, f[n - 1], rows[n])]
             h == [n \in 0 .. N |-> TableOf(q, T \cup First(n))]
             at == CHOOSE f : Is(f)
  <1>1. N \in Nat /\ DOMAIN rows = 1 .. N /\ \A i \in 1 .. N : rows[i] \in ScanRows(q) /\ rows[i] \notin T
    OBVIOUS
  <1>2. ASSUME NEW n \in 1 .. N
        PROVE  /\ n - 1 \in 0 .. N
               /\ FoldRow(q, TableOf(q, T \cup First(n - 1)), rows[n]) = TableOf(q, T \cup First(n))
    <2>1. n - 1 \in 0 .. N
      BY <1>1
    <2>2. T \cup First(n - 1) \in SUBSET ScanRows(q)
      BY <1>1
    <2>3. rows[n] \in ScanRows(q) /\ rows[n] \notin T \cup First(n - 1)
      BY <1>1
    <2>4. T \cup First(n) = (T \cup First(n - 1)) \cup {rows[n]}
      BY <1>1
    <2> HIDE DEF First
    <2>5. FoldRow(q, TableOf(q, T \cup First(n - 1)), rows[n])
            = TableOf(q, (T \cup First(n - 1)) \cup {rows[n]})
      BY <2>2, <2>3, FoldRowAdds
    <2> QED
      BY <2>1, <2>4, <2>5
  <1>3. First(0) = {} /\ First(N) = Ran(rows)
    <2>1. First(0) = {}
      OBVIOUS
    <2>2. First(N) = Ran(rows)
      BY <1>1 DEF Ran
    <2> QED
      BY <2>1, <2>2
  <1> HIDE DEF N, First
  <1>4. Is(h)
    <2>1. \A n \in 0 .. N : h[n] = IF n = 0 THEN TableOf(q, T) ELSE FoldRow(q, h[n - 1], rows[n])
      <3> TAKE n \in 0 .. N
      <3>1. h[n] = TableOf(q, T \cup First(n))
        OBVIOUS
      <3>2. CASE n = 0
        <4>1. T \cup First(0) = T
          BY <1>3
        <4> QED
          BY <3>1, <3>2, <4>1
      <3>3. CASE n # 0
        <4>1. n \in 1 .. N
          BY <1>1, <3>3
        <4>2. h[n - 1] = TableOf(q, T \cup First(n - 1))
          BY <1>2, <4>1
        <4> QED
          BY <1>2, <3>1, <3>3, <4>1, <4>2
      <3> QED
        BY <3>2, <3>3
    <2>2. h = [n \in 0 .. N |-> h[n]]
      OBVIOUS
    <2> HIDE DEF h
    <2> QED
      BY <2>1, <2>2
  <1>5. Is(at)
    <2>1. \E f : Is(f)
      BY <1>4
    <2> HIDE DEF Is
    <2> QED
      BY <2>1
  <1> HIDE DEF at
  <1>6. \A n \in 0 .. N : at[n] = h[n]
    <2> DEFINE G == {n \in 0 .. N : at[n] = h[n]}
    <2>1. 0 \in G
      <3>1. 0 \in 0 .. N
        BY <1>1
      <3>2. at[0] = TableOf(q, T)
        BY <1>5, <3>1
      <3>3. h[0] = TableOf(q, T)
        <4>1. h[0] = TableOf(q, T \cup First(0)) /\ T \cup First(0) = T
          BY <1>3, <3>1
        <4> QED
          BY ONLY <4>1
      <3> QED
        BY <3>1, <3>2, <3>3
    <2>2. \A n \in 1 .. N : n - 1 \in G => n \in G
      <3> SUFFICES ASSUME NEW n \in 1 .. N, n - 1 \in G PROVE n \in G
        OBVIOUS
      <3>1. n \in 0 .. N /\ n # 0 /\ at[n - 1] = h[n - 1]
        BY <1>1
      <3>2. at[n] = FoldRow(q, at[n - 1], rows[n])
        BY <1>5, <3>1
      <3>3. h[n] = FoldRow(q, h[n - 1], rows[n])
        <4>1. h = [k \in 0 .. N |-> IF k = 0 THEN TableOf(q, T) ELSE FoldRow(q, h[k - 1], rows[k])]
          BY <1>4
        <4> HIDE DEF h
        <4> QED
          BY <3>1, <4>1
      <3> HIDE DEF h
      <3> QED
        BY <3>1, <3>2, <3>3
    <2> HIDE DEF G
    <2>3. \A n \in 0 .. N : n \in G
      BY <1>1, <2>1, <2>2, Upward
    <2> QED
      BY <2>3 DEF G
  <1>7. FoldRows(q, TableOf(q, T), rows) = at[N]
    BY DEF FoldRows, at, N
  <1>8. at[N] = h[N] /\ h[N] = TableOf(q, T \cup First(N))
    BY <1>1, <1>6
  <1> QED
    BY <1>3, <1>7, <1>8

-----------------------------------------------------------------------------
(* The streams of the scan. *)

\* Row-major order is a strict total order of the rows.
LEMMA RowsOrdered ==
    ASSUME NEW q \in Queries
    PROVE  LET R == ScanRows(q)
               O == RowMajorOrder(q)
           IN /\ \A r \in R : <<r, r>> \notin O
              /\ \A r, s \in R : r # s => <<r, s>> \in O \/ <<s, r>> \in O
              /\ \A r, s, t \in R : <<r, s>> \in O /\ <<s, t>> \in O => <<r, t>> \in O
  <1> DEFINE R == ScanRows(q)
             O == RowMajorOrder(q)
             E == DetermineEffectiveCoords(q)
             Lt(r, s) == \E a \in E : r[a] < s[a] /\ \A b \in E : b < a => r[b] = s[b]
  <1>1. E \subseteq Nat
    BY QueryFacts
  <1>2. \A r \in R : r = [a \in E |-> r[a]] /\ \A a \in E : r[a] \in Nat
    <2>1. \A r \in R : r = [a \in E |-> r[a]] /\ \A a \in E : r[a] \in 1 .. Size(q, a)
      BY RowFacts
    <2>2. \A a \in E : Size(q, a) \in Nat
      BY QueryFacts
    <2> QED
      BY <2>1, <2>2
  <1>3. \A r, s \in R : <<r, s>> \in O <=> Lt(r, s)
    BY DEF RowMajorOrder
  <1> HIDE DEF R, O, E
  <1>4. ASSUME NEW r \in R PROVE ~Lt(r, r)
    BY <1>2
  <1>5. ASSUME NEW r \in R, NEW s \in R, r # s PROVE Lt(r, s) \/ Lt(s, r)
    <2> DEFINE D == {a \in E : r[a] # s[a]}
    <2>1. D \subseteq Nat /\ D # {}
      BY <1>1, <1>2, <1>5
    <2> HIDE DEF D
    <2>2. PICK a \in D : \A b \in D : a <= b
      BY <2>1, LeastNat
    <2>3. a \in E /\ r[a] # s[a] /\ r[a] \in Nat /\ s[a] \in Nat
      BY <1>2 DEF D
    <2>4. \A b \in E : b < a => r[b] = s[b]
      BY <1>1, <2>2, <2>3 DEF D
    <2> QED
      BY <2>3, <2>4
  <1>6. ASSUME NEW r \in R, NEW s \in R, NEW t \in R, Lt(r, s), Lt(s, t) PROVE Lt(r, t)
    <2>1. PICK a \in E : r[a] < s[a] /\ \A b \in E : b < a => r[b] = s[b]
      BY <1>6
    <2>2. PICK c \in E : s[c] < t[c] /\ \A b \in E : b < c => s[b] = t[b]
      BY <1>6
    <2>3. /\ a \in Nat /\ c \in Nat
          /\ r[a] \in Nat /\ s[a] \in Nat /\ t[a] \in Nat
          /\ r[c] \in Nat /\ s[c] \in Nat /\ t[c] \in Nat
      BY <1>1, <1>2
    <2>4. CASE a <= c
      <3>1. r[a] < t[a]
        BY <2>1, <2>2, <2>3, <2>4
      <3>2. \A b \in E : b < a => r[b] = t[b]
        BY <1>1, <2>1, <2>2, <2>3, <2>4
      <3> QED
        BY <3>1, <3>2
    <2>5. CASE c < a
      <3>1. r[c] < t[c]
        BY <2>1, <2>2, <2>3, <2>5
      <3>2. \A b \in E : b < c => r[b] = t[b]
        BY <1>1, <2>1, <2>2, <2>3, <2>5
      <3> QED
        BY <3>1, <3>2
    <2> QED
      BY <2>3, <2>4, <2>5
  <1> HIDE DEF Lt
  <1>7. /\ \A r \in R : <<r, r>> \notin O
        /\ \A r, s \in R : r # s => <<r, s>> \in O \/ <<s, r>> \in O
        /\ \A r, s, t \in R : <<r, s>> \in O /\ <<s, t>> \in O => <<r, t>> \in O
    BY <1>3, <1>4, <1>5, <1>6
  <1> QED
    BY <1>7 DEF R, O

\* All rows that streams hold.
Held(strs) == UNION {Ran(strs[p]) : p \in DOMAIN strs}

\* No row stands at two places.
RowsOnce(strs) ==
    \A p, o \in DOMAIN strs :
        \A i \in DOMAIN strs[p], j \in DOMAIN strs[o] : strs[p][i] = strs[o][j] => p = o /\ i = j

\* A row is in one of the blocks.
LEMMA BlockInRange ==
    ASSUME NEW k \in Nat, NEW n \in Nat, k \in 1 .. n, NEW parts \in Nat \ {0}
    PROVE  (k * parts - 1) \div n + 1 \in 1 .. parts
  <1> DEFINE a == k * parts - 1
             d == a \div n
  <1>1. n \in Nat \ {0}
    OBVIOUS
  <1>2. k * parts \in Nat /\ n * parts \in Nat /\ k * parts <= n * parts /\ 1 * parts <= k * parts
    BY MulNat, MulMono
  <1>3. a \in Nat /\ a < parts * n
    BY <1>2
  <1> HIDE DEF a
  <1>4. d \in Nat /\ d * n <= a
    BY <1>1, <1>3, DivFacts
  <1> HIDE DEF d
  <1>5. d < parts
    <2> SUFFICES ASSUME parts <= d PROVE FALSE
      BY <1>4
    <2>1. parts * n <= d * n
      BY <1>1, <1>4, MulMono
    <2>2. parts * n \in Nat /\ d * n \in Nat
      BY <1>1, <1>4, MulNat
    <2> QED
      BY <1>3, <1>4, <2>1, <2>2
  <1>6. d + 1 \in 1 .. parts
    BY <1>4, <1>5
  <1> QED
    BY <1>6 DEF d, a

\* The streams hold each row of the scan once; under a LIMIT the only stream
\* holds as many as the LIMIT.
LEMMA StreamFacts ==
    ASSUME NEW q \in Queries
    PROVE  LET s == ScanStreams(q)
               R == ScanRows(q)
           IN /\ s \in Seq(Seq(R)) /\ Len(s) = q.parts /\ DOMAIN s = 1 .. q.parts
              /\ RowsOnce(s)
              /\ q.fetch = NoFetch => Held(s) = R
              /\ q.fetch # NoFetch /\ q.parts = 1 => Held(s) \in kSubset(Min2(q.fetch, Cardinality(R)), R)
  <1> DEFINE R == ScanRows(q)
             O == RowMajorOrder(q)
             outer == Min(DetermineEffectiveCoords(q))
             Place(r) == (r[outer] * q.parts - 1) \div Size(q, outer) + 1
             InBlock(p) == {r \in R : Place(r) = p}
             Limited(s) == IF q.fetch = NoFetch THEN s ELSE SubSeq(s, 1, Min2(q.fetch, Len(s)))
             ranked == [p \in 1 .. q.parts |-> Ranked(InBlock(p), O)]
             strs == ScanStreams(q)
             N(p) == Cardinality(InBlock(p))
             M(p) == IF q.fetch = NoFetch THEN N(p) ELSE Min2(q.fetch, N(p))
  <1>1. /\ q.parts \in Nat \ {0} /\ q.fetch \in Nat \cup {NoFetch}
        /\ IsFiniteSet(R) /\ Cardinality(R) \in Nat
    BY QueryFacts, RowFacts
  <1>2. \A r \in R : Place(r) \in 1 .. q.parts
    <2>1. outer \in DetermineEffectiveCoords(q)
      <3> DEFINE E == DetermineEffectiveCoords(q)
      <3>1. E # {} /\ Len(q.coords) \in Nat /\ E \subseteq 1 .. Len(q.coords)
        BY QueryFacts
      <3> HIDE DEF E
      <3>2. E \subseteq Int
        BY <3>1
      <3>3. IsFiniteSet(1 .. Len(q.coords))
        BY ONLY <3>1, FS_Interval
      <3>4. IsFiniteSet(E)
        BY <3>1, <3>3, FS_Subset
      <3>5. Min(E) \in E
        BY <3>1, <3>2, <3>4, Extremes
      <3> QED
        BY <3>5 DEF E
    <2> HIDE DEF outer
    <2>2. \A r \in R : r[outer] \in 1 .. Size(q, outer)
      BY <2>1, RowFacts
    <2>3. Size(q, outer) \in Nat
      BY <2>1, QueryFacts
    <2> TAKE r \in R
    <2>4. r[outer] \in Nat /\ r[outer] \in 1 .. Size(q, outer)
      BY <2>2, <2>3
    <2> QED
      BY <1>1, <2>3, <2>4, BlockInRange
  <1>3. strs = [p \in 1 .. q.parts |-> Limited(ranked[p])]
    BY DEF ScanStreams
  <1> HIDE DEF R, O, Place, strs
  <1>4. ASSUME NEW p \in 1 .. q.parts
        PROVE  /\ N(p) \in Nat /\ N(p) <= Cardinality(R) /\ ranked[p] \in [1 .. N(p) -> InBlock(p)]
               /\ \A j, k \in 1 .. N(p) : ranked[p][j] = ranked[p][k] => j = k
               /\ \A r \in InBlock(p) : \E k \in 1 .. N(p) : ranked[p][k] = r
    <2> DEFINE B == InBlock(p)
    <2>1. B \subseteq R
      OBVIOUS
    <2>2. /\ \A r \in R : <<r, r>> \notin O
          /\ \A r, s \in R : r # s => <<r, s>> \in O \/ <<s, r>> \in O
          /\ \A r, s, t \in R : <<r, s>> \in O /\ <<s, t>> \in O => <<r, t>> \in O
      BY RowsOrdered DEF R, O
    <2>3. ranked[p] = Ranked(B, O)
      OBVIOUS
    <2> HIDE DEF B, ranked
    <2>4. IsFiniteSet(B) /\ Cardinality(B) <= Cardinality(R)
      BY <1>1, <2>1, FS_Subset
    <2>5. /\ \A r \in B : <<r, r>> \notin O
          /\ \A r, s \in B : r # s => <<r, s>> \in O \/ <<s, r>> \in O
          /\ \A r, s, t \in B : <<r, s>> \in O /\ <<s, t>> \in O => <<r, t>> \in O
      BY <2>1, <2>2
    <2>6. /\ Cardinality(B) \in Nat
          /\ Ranked(B, O) \in [1 .. Cardinality(B) -> B]
          /\ \A j, k \in 1 .. Cardinality(B) : Ranked(B, O)[j] = Ranked(B, O)[k] => j = k
          /\ \A a \in B : \E k \in 1 .. Cardinality(B) : Ranked(B, O)[k] = a
      BY <2>4, <2>5, RankedFacts
    <2>7. /\ Cardinality(B) \in Nat /\ Cardinality(B) <= Cardinality(R)
          /\ ranked[p] \in [1 .. Cardinality(B) -> B]
          /\ \A j, k \in 1 .. Cardinality(B) : ranked[p][j] = ranked[p][k] => j = k
          /\ \A a \in B : \E k \in 1 .. Cardinality(B) : ranked[p][k] = a
      BY <2>3, <2>4, <2>6
    <2> QED
      BY <2>7 DEF B
  <1> HIDE DEF ranked, N
  <1>5. ASSUME NEW p \in 1 .. q.parts
        PROVE  /\ strs[p] \in Seq(R) /\ Len(strs[p]) = M(p) /\ DOMAIN strs[p] = 1 .. M(p)
               /\ M(p) \in Nat /\ M(p) <= N(p)
               /\ \A i \in 1 .. M(p) : strs[p][i] = ranked[p][i] /\ strs[p][i] \in InBlock(p)
    <2>1. ranked[p] \in Seq(InBlock(p)) /\ Len(ranked[p]) = N(p) /\ N(p) \in Nat
      BY <1>4, FunIsSeq
    <2>2. InBlock(p) \subseteq R
      OBVIOUS
    <2> HIDE DEF InBlock
    <2>3. strs[p] = Limited(ranked[p])
      BY <1>3
    <2>4. CASE q.fetch = NoFetch
      <3>1. strs[p] = ranked[p] /\ M(p) = N(p)
        BY <2>3, <2>4
      <3>2. ranked[p] \in Seq(R) /\ DOMAIN ranked[p] = 1 .. N(p) /\ \A i \in 1 .. N(p) : ranked[p][i] \in InBlock(p)
        BY <1>4, <2>1, <2>2
      <3> HIDE DEF M, Limited
      <3> QED
        BY <2>1, <3>1, <3>2
    <2>5. CASE q.fetch # NoFetch
      <3>1. M(p) = Min2(q.fetch, N(p)) /\ strs[p] = SubSeq(ranked[p], 1, M(p))
        BY <2>1, <2>3, <2>5
      <3>2. M(p) \in Nat /\ M(p) <= N(p)
        BY <1>1, <2>1, <2>5, <3>1 DEF Min2
      <3> HIDE DEF M, Limited
      <3>3. /\ strs[p] \in Seq(InBlock(p)) /\ Len(strs[p]) = M(p)
            /\ \A i \in 1 .. M(p) : strs[p][i] = ranked[p][i]
        BY <2>1, <3>1, <3>2
      <3>4. \A i \in 1 .. M(p) : strs[p][i] \in InBlock(p)
        BY <3>2, <3>3
      <3>5. strs[p] \in Seq(R) /\ DOMAIN strs[p] = 1 .. M(p)
        BY <2>2, <3>3
      <3> QED
        BY <3>2, <3>3, <3>4, <3>5
    <2> QED
      BY <2>4, <2>5
  <1> HIDE DEF M, Limited
  <1>6. strs \in Seq(Seq(R)) /\ Len(strs) = q.parts /\ DOMAIN strs = 1 .. q.parts
    <2>1. strs \in [1 .. q.parts -> Seq(R)]
      BY <1>3, <1>5
    <2> QED
      BY <1>1, <2>1, FunIsSeq
  <1>7. RowsOnce(strs)
    <2> SUFFICES ASSUME NEW p \in DOMAIN strs, NEW o \in DOMAIN strs,
                        NEW i \in DOMAIN strs[p], NEW j \in DOMAIN strs[o], strs[p][i] = strs[o][j]
                 PROVE  p = o /\ i = j
      BY DEF RowsOnce
    <2>0. p \in 1 .. q.parts /\ o \in 1 .. q.parts /\ i \in 1 .. M(p) /\ j \in 1 .. M(o)
      BY <1>5, <1>6
    <2>1. p = o
      <3>1. strs[p][i] \in InBlock(p) /\ strs[o][j] \in InBlock(o)
        BY <1>5, <2>0
      <3> QED
        BY <3>1
    <2>2. i \in 1 .. N(p) /\ j \in 1 .. N(p) /\ ranked[p][i] = ranked[p][j]
      BY <1>4, <1>5, <2>0, <2>1
    <2> QED
      BY <1>4, <2>0, <2>1, <2>2
  <1>8. Held(strs) \subseteq R
    <2>1. \A p \in 1 .. q.parts : Ran(strs[p]) \subseteq R
      BY <1>5 DEF Ran
    <2> QED
      BY <1>6, <2>1 DEF Held
  <1>9. ASSUME q.fetch = NoFetch PROVE Held(strs) = R
    <2>1. ASSUME NEW r \in R PROVE r \in Held(strs)
      <3> DEFINE p == Place(r)
      <3>1. p \in 1 .. q.parts /\ r \in InBlock(p)
        BY <1>2
      <3> HIDE DEF p, InBlock
      <3>2. M(p) = N(p)
        BY <1>9 DEF M
      <3>3. PICK k \in 1 .. N(p) : ranked[p][k] = r
        BY <1>4, <3>1
      <3>4. k \in DOMAIN strs[p] /\ strs[p][k] = r
        BY <1>5, <3>1, <3>2, <3>3
      <3>5. r \in Ran(strs[p])
        BY <3>4 DEF Ran
      <3> QED
        BY <1>6, <3>1, <3>5 DEF Held
    <2> QED
      BY <1>8, <2>1
  <1>10. ASSUME q.fetch # NoFetch, q.parts = 1
         PROVE  Held(strs) \in kSubset(Min2(q.fetch, Cardinality(R)), R)
    <2>1. 1 \in 1 .. q.parts /\ 1 .. q.parts = {1}
      BY <1>10
    <2>2. InBlock(1) = R
      BY <1>2, <2>1
    <2>3. M(1) = Min2(q.fetch, Cardinality(R))
      BY <1>10, <2>2 DEF M, N
    <2>4. Held(strs) = Ran(strs[1])
      BY <1>6, <2>1 DEF Held
    <2>5. Ran(strs[1]) = {strs[1][i] : i \in 1 .. M(1)}
      BY <1>5, <2>1 DEF Ran
    <2>6. \A i, j \in 1 .. M(1) : strs[1][i] = strs[1][j] => i = j
      BY <1>5, <1>6, <1>7, <2>1 DEF RowsOnce
    <2>7. Cardinality(Ran(strs[1])) = M(1)
      <3> DEFINE f == [i \in 1 .. M(1) |-> strs[1][i]]
      <3>1. M(1) \in Nat
        BY <1>5, <2>1
      <3>2. f \in Bijection(1 .. M(1), Ran(strs[1]))
        BY <2>5, <2>6 DEF Bijection, Injection, Surjection, IsInjective
      <3>3. IsFiniteSet(1 .. M(1)) /\ Cardinality(1 .. M(1)) = M(1)
        BY ONLY <3>1, FS_Interval
      <3> HIDE DEF f
      <3>4. Cardinality(1 .. M(1)) = Cardinality(Ran(strs[1]))
        BY <3>2, <3>3, SameSize
      <3> QED
        BY <3>3, <3>4
    <2> HIDE DEF InBlock
    <2> QED
      BY <1>8, <2>3, <2>4, <2>7 DEF kSubset
  <1> QED
    BY <1>6, <1>7, <1>9, <1>10 DEF strs, R

\* A batch is taken off a stream.
LEMMA BatchTaken ==
    ASSUME NEW S, NEW strs \in Seq(Seq(S)), RowsOnce(strs), NEW p \in DOMAIN strs,
           NEW n \in 1 .. Len(strs[p])
    PROVE  LET batch == SubSeq(strs[p], 1, n)
               rest == [strs EXCEPT ![p] = SubSeq(strs[p], n + 1, Len(strs[p]))]
           IN /\ rest \in Seq(Seq(S)) /\ Len(rest) = Len(strs) /\ DOMAIN rest = DOMAIN strs
              /\ RowsOnce(rest) /\ \A o \in DOMAIN strs : o # p => rest[o] = strs[o]
              /\ batch \in Seq(Held(strs)) /\ Len(batch) = n
              /\ \A i, j \in 1 .. n : batch[i] = batch[j] => i = j
              /\ Held(strs) = Held(rest) \cup Ran(batch)
              /\ Held(rest) \cap Ran(batch) = {}
  <1> DEFINE s == strs[p]
             L == Len(s)
             batch == SubSeq(s, 1, n)
             tail == SubSeq(s, n + 1, L)
             rest == [strs EXCEPT ![p] = tail]
  <1>1. s \in Seq(S) /\ L \in Nat /\ DOMAIN s = 1 .. L /\ n \in Nat /\ n >= 1 /\ n <= L
    OBVIOUS
  <1>2. /\ batch \in Seq(S) /\ Len(batch) = n /\ DOMAIN batch = 1 .. n
        /\ \A i \in 1 .. n : batch[i] = s[i] /\ i \in 1 .. L
    BY <1>1
  <1>3. /\ tail \in Seq(S) /\ Len(tail) = L - n /\ DOMAIN tail = 1 .. L - n
        /\ \A i \in 1 .. L - n : tail[i] = s[n + i] /\ n + i \in 1 .. L
    <2>1. n + 1 \in 1 .. L + 1 /\ L - (n + 1) + 1 = L - n /\ L - n \in Nat
      BY <1>1
    <2> HIDE DEF L, s
    <2>2. /\ SubSeq(s, n + 1, L) \in Seq(S)
          /\ Len(SubSeq(s, n + 1, L)) = L - (n + 1) + 1
          /\ \A i \in 1 .. L - (n + 1) + 1 : SubSeq(s, n + 1, L)[i] = s[(n + 1) + i - 1]
      <3>1. n + 1 \in Int /\ L \in Int /\ \A i \in n + 1 .. L : s[i] \in S
        BY <1>1
      <3>2. /\ SubSeq(s, n + 1, L) \in Seq(S)
            /\ Len(SubSeq(s, n + 1, L)) = IF n + 1 <= L THEN L - (n + 1) + 1 ELSE 0
            /\ \A i \in 1 .. L - (n + 1) + 1 : SubSeq(s, n + 1, L)[i] = s[(n + 1) + i - 1]
        BY <3>1, SubSeqProperties
      <3>3. (IF n + 1 <= L THEN L - (n + 1) + 1 ELSE 0) = L - (n + 1) + 1
        BY <1>1
      <3> QED
        BY <3>2, <3>3
    <2>3. \A i \in 1 .. L - n : (n + 1) + i - 1 = n + i /\ n + i \in 1 .. L
      BY <1>1, <2>1
    <2>4. /\ tail \in Seq(S) /\ Len(tail) = L - n
          /\ \A i \in 1 .. L - n : tail[i] = s[(n + 1) + i - 1]
      BY <2>1, <2>2
    <2> HIDE DEF tail
    <2>5. DOMAIN tail = 1 .. L - n
      BY <2>4
    <2>6. \A i \in 1 .. L - n : tail[i] = s[n + i]
      BY <2>3, <2>4
    <2> QED
      BY <2>3, <2>4, <2>5, <2>6
  <1>4. \A i \in 1 .. L : i \in 1 .. n \/ (i - n \in 1 .. L - n /\ n + (i - n) = i)
    BY <1>1
  <1>5. \A i \in 1 .. n, j \in 1 .. L - n : i # n + j
    BY <1>1
  <1>6. \A i, j \in 1 .. L - n : n + i = n + j => i = j
    BY <1>1
  <1>7. /\ rest \in Seq(Seq(S)) /\ Len(rest) = Len(strs) /\ DOMAIN rest = DOMAIN strs
        /\ rest[p] = tail /\ \A o \in DOMAIN strs : o # p => rest[o] = strs[o]
    <2> DEFINE m == Len(strs)
    <2>1. tail \in Seq(S)
      BY <1>3
    <2>2. m \in Nat /\ DOMAIN strs = 1 .. m /\ strs \in [1 .. m -> Seq(S)]
      OBVIOUS
    <2> HIDE DEF tail, m
    <2>3. rest \in [1 .. m -> Seq(S)]
      BY <2>1, <2>2
    <2>4. rest \in Seq(Seq(S)) /\ Len(rest) = m /\ DOMAIN rest = 1 .. m
      <3> HIDE DEF rest
      <3> QED
        BY <2>2, <2>3, FunIsSeq
    <2>5. rest[p] = tail /\ \A o \in DOMAIN strs : o # p => rest[o] = strs[o]
      BY <2>2
    <2> HIDE DEF rest
    <2> QED
      BY <2>2, <2>4, <2>5 DEF m
  <1>8. \A i, j \in DOMAIN s : s[i] = s[j] => i = j
    BY DEF RowsOnce
  <1>9. \A o \in DOMAIN strs : o # p => \A i \in DOMAIN s, j \in DOMAIN strs[o] : s[i] # strs[o][j]
    BY DEF RowsOnce
  <1> HIDE DEF batch, tail, rest, L
  <1>10. Ran(s) = Ran(batch) \cup Ran(tail)
    <2>1. \A i \in 1 .. n : i \in DOMAIN s /\ batch[i] = s[i]
      BY <1>1, <1>2
    <2>2. \A i \in 1 .. L - n : n + i \in DOMAIN s /\ tail[i] = s[n + i]
      BY <1>1, <1>3
    <2>3. ASSUME NEW i \in DOMAIN s PROVE s[i] \in Ran(batch) \cup Ran(tail)
      <3>1. CASE i \in 1 .. n
        BY <1>2, <3>1 DEF Ran
      <3>2. CASE i - n \in 1 .. L - n /\ n + (i - n) = i
        <4>1. i - n \in DOMAIN tail /\ tail[i - n] = s[i]
          BY <1>3, <3>2
        <4> QED
          BY <4>1 DEF Ran
      <3> QED
        BY <1>1, <1>4, <3>1, <3>2
    <2>4. Ran(batch) \subseteq Ran(s)
      BY <1>2, <2>1 DEF Ran
    <2>5. Ran(tail) \subseteq Ran(s)
      BY <1>3, <2>2 DEF Ran
    <2>6. Ran(s) \subseteq Ran(batch) \cup Ran(tail)
      BY <2>3 DEF Ran
    <2> QED
      BY <2>4, <2>5, <2>6
  <1>11. Ran(batch) \cap Ran(tail) = {}
    <2> SUFFICES ASSUME NEW i \in 1 .. n, NEW j \in 1 .. L - n, batch[i] = tail[j] PROVE FALSE
      BY <1>2, <1>3 DEF Ran
    <2>1. s[i] = s[n + j] /\ i \in DOMAIN s /\ n + j \in DOMAIN s
      BY <1>1, <1>2, <1>3
    <2> QED
      BY <1>5, <1>8, <2>1
  <1>12. \A o \in DOMAIN strs : o # p => Ran(strs[o]) \cap Ran(s) = {}
    BY <1>9 DEF Ran
  <1>13. Held(strs) = Ran(s) \cup UNION {Ran(strs[o]) : o \in DOMAIN strs \ {p}}
    BY DEF Held
  <1>14. Held(rest) = Ran(tail) \cup UNION {Ran(strs[o]) : o \in DOMAIN strs \ {p}}
    <2>1. \A o \in DOMAIN strs \ {p} : Ran(rest[o]) = Ran(strs[o])
      BY <1>7
    <2>2. Ran(rest[p]) = Ran(tail)
      BY <1>7
    <2>3. Held(rest) = UNION {Ran(rest[o]) : o \in DOMAIN strs}
      BY <1>7 DEF Held
    <2> HIDE DEF s
    <2> QED
      BY <2>1, <2>2, <2>3
  <1>15. Held(strs) = Held(rest) \cup Ran(batch)
    BY <1>10, <1>13, <1>14
  <1>16. Held(rest) \cap Ran(batch) = {}
    <2>1. ASSUME NEW x \in Ran(batch), x \in Held(rest) PROVE FALSE
      <3>1. x \in Ran(s) /\ x \notin Ran(tail)
        BY <1>10, <1>11
      <3>2. PICK o \in DOMAIN strs \ {p} : x \in Ran(strs[o])
        BY <1>14, <2>1, <3>1
      <3> QED
        BY <1>12, <3>1, <3>2
    <2> QED
      BY <2>1
  <1>17. batch \in Seq(Held(strs))
    <2>1. \A i \in 1 .. n : batch[i] \in Ran(batch)
      BY <1>2 DEF Ran
    <2>2. \A i \in 1 .. n : batch[i] \in Held(strs)
      BY <1>15, <2>1
    <2>3. batch \in [1 .. n -> Held(strs)]
      BY <1>2, <2>2
    <2> QED
      BY <1>1, <2>3, FunIsSeq
  <1>18. \A i, j \in 1 .. n : batch[i] = batch[j] => i = j
    BY <1>1, <1>2, <1>8
  <1>19. RowsOnce(rest)
    <2> SUFFICES ASSUME NEW a \in DOMAIN strs, NEW b \in DOMAIN strs,
                        NEW i \in DOMAIN rest[a], NEW j \in DOMAIN rest[b], rest[a][i] = rest[b][j]
                 PROVE  a = b /\ i = j
      BY <1>7 DEF RowsOnce
    <2>1. CASE a # p /\ b # p
      <3>1. rest[a] = strs[a] /\ rest[b] = strs[b]
        BY <1>7, <2>1
      <3> QED
        BY <3>1 DEF RowsOnce
    <2>2. CASE a = p /\ b = p
      <3>1. /\ i \in 1 .. L - n /\ j \in 1 .. L - n /\ s[n + i] = s[n + j]
            /\ n + i \in DOMAIN s /\ n + j \in DOMAIN s
        BY <1>1, <1>3, <1>7, <2>2
      <3> QED
        BY <1>6, <1>8, <2>2, <3>1
    <2>3. CASE a = p /\ b # p
      <3>1. rest[b] = strs[b] /\ rest[a] = tail
        BY <1>7, <2>3
      <3>2. n + i \in DOMAIN s /\ s[n + i] = strs[b][j]
        BY <1>1, <1>3, <3>1
      <3> QED
        BY <1>9, <2>3, <3>1, <3>2
    <2>4. CASE a # p /\ b = p
      <3>1. rest[a] = strs[a] /\ rest[b] = tail
        BY <1>7, <2>4
      <3>2. n + j \in DOMAIN s /\ s[n + j] = strs[a][i]
        BY <1>1, <1>3, <3>1
      <3> QED
        BY <1>9, <2>4, <3>1, <3>2
    <2> QED
      BY <2>1, <2>2, <2>3, <2>4
  <1> QED
    BY <1>2, <1>7, <1>15, <1>16, <1>17, <1>18, <1>19 DEF batch, rest, tail, L

-----------------------------------------------------------------------------
(* Results. *)

\* What the operator makes of its table is what SQL says of the rows.
LEMMA FinalizeIs ==
    ASSUME NEW q \in Queries, Recognize(q), NEW T \in SUBSET ScanRows(q)
    PROVE  LET table == TableOf(q, T)
           IN {[key |-> key,
                vals |-> [i \in DOMAIN q.aggs |-> Finalize(q.aggs[i].fn, table[key][i])]] :
                  key \in DOMAIN table} = Meaning(q, T)
  <1> DEFINE table == TableOf(q, T)
             Of(key) == {r \in T : KeyOf(q, r) = key}
             keys == IF q.keys = <<>> THEN {<<>>} ELSE {KeyOf(q, r) : r \in T}
             Row(key, x) == [key |-> key, vals |-> x]
             F == [key \in keys |-> [i \in DOMAIN q.aggs |-> Finalize(q.aggs[i].fn, table[key][i])]]
             G == [key \in keys |-> [i \in DOMAIN q.aggs |-> Aggregated(q, q.aggs[i], Of(key))]]
  <1>1. DOMAIN table = keys
    <2>1. q.keys = <<>> => \A r \in T : KeyOf(q, r) = <<>>
      BY KeyFacts
    <2>2. DOMAIN table = KeysOf(q, T)
      BY DEF TableOf
    <2> QED
      BY <2>1, <2>2 DEF KeysOf
  <1>2. ASSUME NEW key \in keys, NEW i \in DOMAIN q.aggs
        PROVE  Finalize(q.aggs[i].fn, table[key][i]) = Aggregated(q, q.aggs[i], Of(key))
    <2> DEFINE agg == q.aggs[i]
               rows == Of(key)
    <2>1. table[key][i] = Accumulated(agg, rows)
      <3>1. key \in KeysOf(q, T)
        BY <1>1 DEF TableOf
      <3>2. RowsOf(q, T, key) = rows
        BY DEF RowsOf
      <3> QED
        BY <3>1, <3>2 DEF TableOf
    <2>2. /\ ~agg.distinct /\ agg.fn \in {"sum", "count", "avg", "min", "max"}
          /\ agg.fn # "count" => agg.col = Var /\ agg.arg # "expr"
      BY DEF Recognize, RecognizeAgg, Star, Var
    <2>3. \A r \in rows : Value(r) \in Int
      BY RowFacts
    <2> HIDE DEF agg, rows, table
    <2>4. CASE agg.fn = "count"
      <3>1. Accumulated(agg, rows).count = Cardinality(rows)
        BY <2>4 DEF Accumulated
      <3> QED
        BY <2>1, <2>2, <2>4, <3>1 DEF Finalize, Aggregated, agg, rows
    <2>5. CASE agg.fn # "count"
      <3>1. \A r \in rows : ColumnValue(q, agg, r) = Value(r)
        BY <2>2, <2>3, <2>5 DEF ColumnValue, Star, Var
      <3>2. {ColumnValue(q, agg, r) : r \in rows} = {Value(r) : r \in rows}
        BY <3>1
      <3>3. [r \in rows |-> ColumnValue(q, agg, r)] = [r \in rows |-> Value(r)]
        BY <3>1
      <3>4. ({Value(r) : r \in rows} = {}) <=> rows = {}
        OBVIOUS
      <3> DEFINE vals == {ColumnValue(q, agg, r) : r \in rows}
                 f == [r \in rows |-> ColumnValue(q, agg, r)]
                 acc == [count |-> Cardinality(rows), sum |-> SumOver(f),
                         min |-> IF vals = {} THEN <<>> ELSE <<Min(vals)>>,
                         max |-> IF vals = {} THEN <<>> ELSE <<Max(vals)>>]
      <3>5. Aggregated(q, agg, rows) = Finalize(agg.fn, acc)
        BY <2>2 DEF Aggregated
      <3>6. vals = {Value(r) : r \in rows} /\ f = [r \in rows |-> Value(r)] /\ (vals = {} <=> rows = {})
        BY <3>2, <3>3, <3>4
      <3> HIDE DEF vals, f
      <3>7. Accumulated(agg, rows) = acc
        BY <2>5, <3>6 DEF Accumulated
      <3> QED
        BY <2>1, <3>5, <3>7 DEF agg, rows
    <2> QED
      BY <2>4, <2>5
  <1>3. F = G
    BY <1>2
  <1>4. \A key \in keys :
           /\ [i \in DOMAIN q.aggs |-> Finalize(q.aggs[i].fn, table[key][i])] = F[key]
           /\ [i \in DOMAIN q.aggs |-> Aggregated(q, q.aggs[i], Of(key))] = G[key]
    OBVIOUS
  <1>5. Meaning(q, T) = {[key |-> key, vals |-> [i \in DOMAIN q.aggs |-> Aggregated(q, q.aggs[i], Of(key))]] :
                            key \in keys}
    BY DEF Meaning
  <1>6. Meaning(q, T) = {[key |-> key, vals |-> G[key]] : key \in keys}
    <2> HIDE DEF G, keys, Of
    <2> QED
      BY <1>4, <1>5
  <1>7. {[key |-> key, vals |-> [i \in DOMAIN q.aggs |-> Finalize(q.aggs[i].fn, table[key][i])]] :
            key \in DOMAIN table} = {[key |-> key, vals |-> F[key]] : key \in keys}
    <2> HIDE DEF F, keys, table
    <2> QED
      BY <1>1, <1>4
  <1> HIDE DEF F, G, keys, table
  <1> QED
    BY <1>3, <1>6, <1>7 DEF table

\* What the rules over statistics ask for.
Known(q) ==
    /\ StatisticsApply(q)
    /\ \/ \A i \in DOMAIN q.aggs : CountKnown(q, q.aggs[i])
       \/ \A i \in DOMAIN q.aggs : MinMaxKnown(q, q.aggs[i])

\* The row made of statistics is what SQL says of all rows.
LEMMA StatisticsAre ==
    ASSUME NEW q \in Queries, Known(q), DetermineEffectiveCoords(q) = Axes(q),
           \A i \in DOMAIN q.aggs :
              IF q.aggs[i].fn = "count" THEN ~q.aggs[i].distinct ELSE TotalRows(q) # 0
    PROVE  Inputs(q) = {ScanRows(q)} /\ {StatisticsRow(q)} = Meaning(q, ScanRows(q))
  <1> DEFINE R == ScanRows(q)
             Answer(i) == LET agg == q.aggs[i]
                          IN CASE agg.fn = "count" -> <<TotalRows(q)>>
                               [] agg.fn = "min" -> <<Min(ToSet(q.coords[agg.col]))>>
                               [] agg.fn = "max" -> <<Max(ToSet(q.coords[agg.col]))>>
             of == [i \in DOMAIN q.aggs |-> Answer(i)]
  <1>1. q.keys = <<>> /\ q.fetch = NoFetch /\ q.filter.form = "none"
    BY DEF Known, StatisticsApply
  <1>2. Inputs(q) = {R}
    <2>1. {r \in R : q.filter.form = "value" => Selected(r)} = R
      BY <1>1
    <2> HIDE DEF R
    <2>2. Inputs(q) = {{r \in R : q.filter.form = "value" => Selected(r)}}
      BY <1>1 DEF Inputs, R
    <2> QED
      BY <2>1, <2>2
  <1>3. {r \in R : KeyOf(q, r) = <<>>} = R
    BY <1>1, KeyFacts
  <1>4. /\ Cardinality(R) = TotalRows(q) /\ TotalRows(q) \in Nat
        /\ TotalRows(q) # 0 => \A a \in Axes(q) : \A k \in 1 .. Size(q, a) : \E r \in R : r[a] = k
    BY <1>1, AllRows
  <1>5. ASSUME NEW i \in DOMAIN q.aggs PROVE of[i] = Aggregated(q, q.aggs[i], R)
    <2> DEFINE agg == q.aggs[i]
    <2>1. \/ CountKnown(q, agg)
          \/ MinMaxKnown(q, agg)
      BY DEF Known
    <2>2. CASE agg.fn = "count"
      <3>1. of[i] = <<TotalRows(q)>> /\ ~agg.distinct
        BY <2>2
      <3> HIDE DEF agg, of, R
      <3> QED
        BY <1>4, <2>2, <3>1 DEF Aggregated, Finalize, agg
    <2>3. CASE agg.fn # "count"
      <3> DEFINE col == agg.col
                 Val(r) == ColumnValue(q, agg, r)
                 vals == {Val(r) : r \in R}
      <3>1. /\ agg.fn \in {"min", "max"} /\ col \in Axes(q) /\ Size(q, col) > 0 /\ TotalRows(q) # 0
        BY <2>1, <2>3 DEF CountKnown, MinMaxKnown
      <3>2. Star \notin Axes(q) /\ Var \notin Axes(q)
        BY QueryFacts
      <3>3. \A r \in R : Val(r) = q.coords[col][r[col]]
        BY <3>1, <3>2 DEF ColumnValue
      <3>4. vals = ToSet(q.coords[col])
        <4>1. DOMAIN q.coords[col] = 1 .. Size(q, col)
          BY <3>1, QueryFacts
        <4>2. \A r \in R : r[col] \in 1 .. Size(q, col)
          BY <3>1, RowFacts
        <4>3. \A k \in 1 .. Size(q, col) : \E r \in R : r[col] = k
          BY <1>4, <3>1
        <4>4. ToSet(q.coords[col]) = {q.coords[col][k] : k \in 1 .. Size(q, col)}
          BY <4>1 DEF ToSet
        <4> HIDE DEF Val, R, col
        <4> QED
          BY <3>3, <4>2, <4>3, <4>4
      <3>5. vals # {}
        <4>1. Size(q, col) \in Nat
          BY <3>1, QueryFacts
        <4>2. 1 \in 1 .. Size(q, col)
          BY <3>1, <4>1
        <4>3. \E r \in R : r[col] = 1
          BY <1>4, <3>1, <4>2
        <4> HIDE DEF R, Val
        <4> QED
          BY <4>3
      <3> DEFINE acc == [count |-> IF agg.distinct THEN Cardinality(vals) ELSE Cardinality(R),
                         sum |-> IF agg.distinct THEN SumOver([v \in vals |-> v])
                                 ELSE SumOver([r \in R |-> Val(r)]),
                         min |-> IF vals = {} THEN <<>> ELSE <<Min(vals)>>,
                         max |-> IF vals = {} THEN <<>> ELSE <<Max(vals)>>]
      <3>6. Aggregated(q, agg, R) = Finalize(agg.fn, acc)
        BY DEF Aggregated
      <3>7. acc.min = <<Min(vals)>> /\ acc.max = <<Max(vals)>>
        <4> HIDE DEF vals, R, Val
        <4> QED
          BY <3>5
      <3> HIDE DEF acc, vals
      <3>8. CASE agg.fn = "min"
        <4>1. of[i] = <<Min(ToSet(q.coords[col]))>>
          BY <3>8
        <4>2. Finalize(agg.fn, acc) = acc.min
          BY <3>8 DEF Finalize
        <4> HIDE DEF of, agg, R
        <4> QED
          BY <3>4, <3>6, <3>7, <4>1, <4>2 DEF agg
      <3>9. CASE agg.fn = "max"
        <4>1. of[i] = <<Max(ToSet(q.coords[col]))>>
          BY <3>9
        <4>2. Finalize(agg.fn, acc) = acc.max
          BY <3>9 DEF Finalize
        <4> HIDE DEF of, agg, R
        <4> QED
          BY <3>4, <3>6, <3>7, <4>1, <4>2 DEF agg
      <3> QED
        BY <3>1, <3>8, <3>9
    <2> QED
      BY <2>2, <2>3
  <1>6. StatisticsRow(q) = [key |-> <<>>, vals |-> of]
    BY DEF StatisticsRow
  <1>7. of = [i \in DOMAIN q.aggs |-> Aggregated(q, q.aggs[i], R)]
    <2> HIDE DEF Answer
    <2>1. of = [i \in DOMAIN q.aggs |-> of[i]]
      OBVIOUS
    <2> HIDE DEF of, R
    <2> QED
      BY <1>5, <2>1
  <1>8. Meaning(q, R) = {[key |-> <<>>, vals |-> [i \in DOMAIN q.aggs |-> Aggregated(q, q.aggs[i], R)]]}
    <2> HIDE DEF R
    <2>1. Meaning(q, R) = {[key |-> key, vals |-> [i \in DOMAIN q.aggs |->
                               Aggregated(q, q.aggs[i], {r \in R : KeyOf(q, r) = key})]] : key \in {<<>>}}
      BY <1>1 DEF Meaning
    <2>2. Meaning(q, R) = {[key |-> <<>>, vals |-> [i \in DOMAIN q.aggs |->
                               Aggregated(q, q.aggs[i], {r \in R : KeyOf(q, r) = <<>>})]]}
      BY ONLY <2>1
    <2> QED
      BY <1>3, <2>2
  <1> HIDE DEF of, R
  <1>9. {StatisticsRow(q)} = Meaning(q, R)
    BY <1>6, <1>7, <1>8
  <1> QED
    BY <1>2, <1>9 DEF R

-----------------------------------------------------------------------------
(* The invariant. *)

\* The rows the streams were to produce, and those already folded.
AllHeld(q) == Held(ScanStreams(q))
Folded == AllHeld(query) \ Held(streams)

\* Which variables are set, and to what, in each phase.
PhasesOK ==
    /\ query \in Queries
    /\ phase \in {"logical", "physical", "fold", "answered", "left", "done", "failed"}
    /\ phase \in {"logical", "physical", "answered", "left"} => streams = <<>> /\ partition = 0
    /\ phase \in {"logical", "physical", "answered", "left", "failed"} => groups = [key \in {} |-> <<>>]
    /\ phase \in {"logical", "physical", "left", "fold", "failed"} => result = <<>>
    /\ phase = "answered" => Known(query) /\ result = <<{StatisticsRow(query)}>>
    /\ phase = "done" => result = <<Meaning(query, AllHeld(query))>>

\* The streams of a pushed aggregate: folded up to the current partition.
StreamsOK ==
    /\ Recognize(query) /\ GroupCardinality(query) <= query.budget
    /\ streams \in Seq(Seq(ScanRows(query))) /\ Len(streams) = query.parts
    /\ RowsOnce(streams) /\ Held(streams) \subseteq AllHeld(query)
    /\ partition \in 1 .. Len(streams) + 1
    /\ \A p \in 1 .. Len(streams) : p < partition => streams[p] = <<>>

\* The table is that of the rows already folded.
FoldOK ==
    /\ phase \in {"fold", "done", "failed"} => StreamsOK
    /\ phase = "done" => partition = Len(streams) + 1
    /\ phase \in {"fold", "done"} => groups = TableOf(query, Folded)

AggInv == PhasesOK /\ FoldOK

\* Nothing is folded before a query is recognized.
LEMMA InitInv == Init => AggInv
  BY DEF Init, AggInv, PhasesOK, FoldOK

\* Streams that are all at their end hold nothing.
LEMMA HeldNone ==
    ASSUME NEW strs, \A p \in DOMAIN strs : strs[p] = <<>>
    PROVE  Held(strs) = {}
  BY DEF Held, Ran

\* What streams hold are rows of the scan.
LEMMA HeldRows ==
    ASSUME NEW q \in Queries
    PROVE  AllHeld(q) \subseteq ScanRows(q)
  <1>1. ScanStreams(q) \in Seq(Seq(ScanRows(q)))
    BY StreamFacts
  <1>2. \A p \in DOMAIN ScanStreams(q) : Ran(ScanStreams(q)[p]) \subseteq ScanRows(q)
    BY <1>1 DEF Ran
  <1> QED
    BY <1>2 DEF AllHeld, Held

\* The answer from statistics.
LEMMA RewriteStep == AggInv /\ RewriteFromStatistics => AggInv'
  <1> SUFFICES ASSUME AggInv, RewriteFromStatistics PROVE AggInv'
    OBVIOUS
  <1>1. /\ phase = "logical" /\ query' = query /\ streams' = streams
        /\ partition' = partition /\ groups' = groups
    BY DEF RewriteFromStatistics
  <1>2. \/ phase' = "answered" /\ Known(query) /\ result' = <<{StatisticsRow(query)}>>
        \/ phase' = "physical" /\ result' = result
    BY DEF RewriteFromStatistics, Known
  <1>3. PhasesOK'
    BY <1>1, <1>2 DEF AggInv, PhasesOK
  <1>4. FoldOK'
    BY <1>2 DEF FoldOK
  <1> QED
    BY <1>3, <1>4 DEF AggInv

\* The aggregate is pushed, or left alone.
LEMMA AnnotateStep == AggInv /\ Annotate => AggInv'
  <1> SUFFICES ASSUME AggInv, Annotate PROVE AggInv'
    OBVIOUS
  <1>1. phase = "physical" /\ query' = query /\ result' = result /\ query \in Queries /\ result = <<>>
    BY DEF Annotate, AggInv, PhasesOK
  <1>2. CASE phase' = "left" /\ UNCHANGED <<streams, partition, groups>>
    BY <1>1, <1>2 DEF AggInv, PhasesOK, FoldOK
  <1>3. CASE /\ phase' = "fold" /\ Recognize(query) /\ GroupCardinality(query) <= query.budget
             /\ streams' = ScanStreams(query) /\ partition' = 1 /\ groups' = InitialGroups(query)
    <2>1. PhasesOK'
      BY <1>1, <1>3 DEF PhasesOK
    <2> DEFINE s == ScanStreams(query)
    <2>2. s \in Seq(Seq(ScanRows(query))) /\ Len(s) = query.parts /\ RowsOnce(s) /\ query.parts \in Nat
      BY <1>1, StreamFacts, QueryFacts
    <2>3. streams' = s
      BY <1>3
    <2> HIDE DEF s
    <2>4. /\ streams' \in Seq(Seq(ScanRows(query))) /\ Len(streams') = query.parts /\ RowsOnce(streams')
          /\ partition' \in 1 .. Len(streams') + 1
          /\ \A p \in 1 .. Len(streams') : ~(p < partition')
      BY <1>3, <2>2, <2>3
    <2>5. Held(streams') = AllHeld(query) /\ Folded' = {}
      BY <1>1, <2>3 DEF AllHeld, Folded, s
    <2>6. StreamsOK'
      BY <1>1, <1>3, <2>4, <2>5 DEF StreamsOK
    <2>7. groups' = TableOf(query, {})
      BY <1>3, TableOfNone
    <2>8. FoldOK'
      BY <1>1, <1>3, <2>5, <2>6, <2>7 DEF FoldOK
    <2> QED
      BY <2>1, <2>8 DEF AggInv
  <1> QED
    BY <1>2, <1>3 DEF Annotate

\* A batch.
LEMMA BatchStep == AggInv /\ FoldBatch => AggInv'
  <1> SUFFICES ASSUME AggInv, FoldBatch PROVE AggInv'
    OBVIOUS
  <1> DEFINE R == ScanRows(query)
             s == streams[partition]
             T == Folded
  <1>1. /\ phase = "fold" /\ query' = query /\ phase' = phase /\ partition' = partition /\ result' = result
        /\ partition <= Len(streams) /\ query \in Queries
    BY DEF FoldBatch, AggInv, PhasesOK
  <1>2. StreamsOK /\ groups = TableOf(query, T)
    BY <1>1 DEF AggInv, FoldOK
  <1>3. PICK n \in 1 .. Min2(BatchRows, Len(s)) :
           /\ groups' = FoldRows(query, groups, SubSeq(s, 1, n))
           /\ streams' = [streams EXCEPT ![partition] = SubSeq(streams[partition], n + 1, Len(streams[partition]))]
    BY DEF FoldBatch
  <1>4. /\ streams \in Seq(Seq(R)) /\ Len(streams) = query.parts /\ RowsOnce(streams)
        /\ Held(streams) \subseteq AllHeld(query) /\ partition \in 1 .. Len(streams) + 1
        /\ \A p \in 1 .. Len(streams) : p < partition => streams[p] = <<>>
    BY <1>2 DEF StreamsOK
  <1>5. partition \in DOMAIN streams /\ DOMAIN streams = 1 .. Len(streams) /\ Len(streams) \in Nat
    BY <1>1, <1>4
  <1>6. n \in 1 .. Len(s)
    <2>1. Len(s) \in Nat
      BY <1>4, <1>5
    <2> QED
      BY <1>3, <2>1, BatchRowsAssumption DEF Min2
  <1> DEFINE batch == SubSeq(s, 1, n)
             rest == [streams EXCEPT ![partition] = SubSeq(s, n + 1, Len(s))]
  <1>7. /\ rest \in Seq(Seq(R)) /\ Len(rest) = Len(streams) /\ DOMAIN rest = DOMAIN streams
        /\ RowsOnce(rest) /\ \A o \in DOMAIN streams : o # partition => rest[o] = streams[o]
        /\ batch \in Seq(Held(streams)) /\ Len(batch) = n
        /\ \A i, j \in 1 .. n : batch[i] = batch[j] => i = j
        /\ Held(streams) = Held(rest) \cup Ran(batch)
        /\ Held(rest) \cap Ran(batch) = {}
    <2> HIDE DEF R
    <2> QED
      BY <1>4, <1>5, <1>6, BatchTaken
  <1>8. streams' = rest /\ groups' = FoldRows(query, TableOf(query, T), batch)
    BY <1>2, <1>3
  <1>9. AllHeld(query) \subseteq R
    BY <1>1, HeldRows
  <1> HIDE DEF R, batch, rest
  <1>10. T \in SUBSET R /\ batch \in Seq(R \ T)
    <2>1. T \subseteq R
      BY <1>9 DEF Folded
    <2>2. Held(streams) \subseteq R \ T
      BY <1>4, <1>9 DEF Folded
    <2>3. batch \in Seq(R \ T)
      BY <1>7, <2>2
    <2> QED
      BY <2>1, <2>3
  <1>11. T \cup Ran(batch) = Folded'
    <2>1. Folded' = AllHeld(query) \ Held(rest)
      BY <1>1, <1>8 DEF Folded
    <2> QED
      BY <1>4, <1>7, <2>1 DEF Folded
  <1>12. groups' = TableOf(query, Folded')
    <2>1. FoldRows(query, TableOf(query, T), batch) = TableOf(query, T \cup Ran(batch))
      <3>1. \A i, j \in 1 .. Len(batch) : batch[i] = batch[j] => i = j
        BY <1>7
      <3> HIDE DEF T
      <3> QED
        BY <1>1, <1>10, <3>1, FoldRowsAdds DEF R
    <2> QED
      BY <1>8, <1>11, <2>1
  <1>13. StreamsOK'
    <2>1. /\ streams' \in Seq(Seq(R)) /\ Len(streams') = query.parts /\ RowsOnce(streams')
          /\ partition' \in 1 .. Len(streams') + 1
      BY <1>1, <1>4, <1>7, <1>8
    <2>2. Held(streams') \subseteq AllHeld(query)
      BY <1>4, <1>7, <1>8
    <2>3. \A p \in 1 .. Len(streams') : p < partition' => streams'[p] = <<>>
      <3> SUFFICES ASSUME NEW p \in 1 .. Len(streams), p < partition PROVE rest[p] = <<>>
        BY <1>1, <1>7, <1>8
      <3>1. p \in DOMAIN streams /\ p # partition
        BY <1>4, <1>5
      <3> QED
        BY <1>4, <1>7, <3>1
    <2> QED
      BY <1>1, <1>2, <2>1, <2>2, <2>3 DEF StreamsOK, R
  <1>14. PhasesOK'
    BY <1>1 DEF AggInv, PhasesOK
  <1>15. FoldOK'
    BY <1>1, <1>12, <1>13 DEF FoldOK
  <1> QED
    BY <1>14, <1>15 DEF AggInv

\* The next partition.
LEMMA PartitionStep == AggInv /\ NextPartition => AggInv'
  <1> SUFFICES ASSUME AggInv, NextPartition PROVE AggInv'
    OBVIOUS
  <1>1. /\ phase = "fold" /\ UNCHANGED <<query, phase, streams, groups, result>>
        /\ partition <= Len(streams) /\ streams[partition] = <<>> /\ partition' = partition + 1
    BY DEF NextPartition
  <1>2. StreamsOK /\ groups = TableOf(query, Folded)
    BY <1>1 DEF AggInv, FoldOK
  <1>3. Len(streams) \in Nat /\ partition \in 1 .. Len(streams) + 1
    BY <1>2 DEF StreamsOK
  <1>4. /\ partition' \in 1 .. Len(streams') + 1
        /\ \A p \in 1 .. Len(streams') : p < partition' => streams'[p] = <<>>
    BY <1>1, <1>2, <1>3 DEF StreamsOK
  <1>5. StreamsOK'
    BY <1>1, <1>2, <1>4 DEF StreamsOK
  <1>6. groups' = TableOf(query', Folded')
    BY <1>1, <1>2 DEF Folded
  <1>7. FoldOK'
    BY <1>1, <1>5, <1>6 DEF FoldOK
  <1>8. PhasesOK'
    BY <1>1 DEF AggInv, PhasesOK
  <1> QED
    BY <1>7, <1>8 DEF AggInv

\* A read fails.
LEMMA FailStep == AggInv /\ StreamFails => AggInv'
  <1> SUFFICES ASSUME AggInv, StreamFails PROVE AggInv'
    OBVIOUS
  <1>1. /\ phase = "fold" /\ UNCHANGED <<query, streams, partition, result>>
        /\ phase' = "failed" /\ groups' = [key \in {} |-> <<>>]
    BY DEF StreamFails
  <1>2. StreamsOK
    BY <1>1 DEF AggInv, FoldOK
  <1>3. StreamsOK'
    BY <1>1, <1>2 DEF StreamsOK
  <1>4. FoldOK'
    BY <1>1, <1>3 DEF FoldOK
  <1>5. PhasesOK'
    BY <1>1 DEF AggInv, PhasesOK
  <1> QED
    BY <1>4, <1>5 DEF AggInv

\* Every stream is at its end, so that all rows are folded.
LEMMA FinalizeStep == AggInv /\ FinalizeGroups => AggInv'
  <1> SUFFICES ASSUME AggInv, FinalizeGroups PROVE AggInv'
    OBVIOUS
  <1>1. /\ phase = "fold" /\ UNCHANGED <<query, streams, partition, groups>>
        /\ partition > Len(streams) /\ phase' = "done" /\ query \in Queries
    BY DEF FinalizeGroups, AggInv, PhasesOK
  <1>2. StreamsOK /\ groups = TableOf(query, Folded)
    BY <1>1 DEF AggInv, FoldOK
  <1>3. /\ partition = Len(streams) + 1 /\ Recognize(query)
        /\ \A p \in DOMAIN streams : streams[p] = <<>>
    BY <1>1, <1>2 DEF StreamsOK
  <1>4. Folded = AllHeld(query)
    BY <1>3, HeldNone DEF Folded
  <1>5. AllHeld(query) \in SUBSET ScanRows(query)
    BY <1>1, HeldRows
  <1>6. result' = <<Meaning(query, AllHeld(query))>>
    <2> DEFINE table == TableOf(query, AllHeld(query))
    <2>1. {[key |-> key,
            vals |-> [i \in DOMAIN query.aggs |-> Finalize(query.aggs[i].fn, table[key][i])]] :
              key \in DOMAIN table} = Meaning(query, AllHeld(query))
      BY <1>1, <1>3, <1>5, FinalizeIs
    <2>2. groups = table
      BY <1>2, <1>4
    <2> HIDE DEF table
    <2>3. result' = <<{[key |-> key,
                        vals |-> [i \in DOMAIN query.aggs |-> Finalize(query.aggs[i].fn, groups[key][i])]] :
                          key \in DOMAIN groups}>>
      BY DEF FinalizeGroups
    <2> QED
      BY <2>1, <2>2, <2>3
  <1>7. StreamsOK'
    BY <1>1, <1>2 DEF StreamsOK
  <1>8. FoldOK'
    <2>1. groups' = TableOf(query', Folded')
      BY <1>1, <1>2 DEF Folded
    <2> QED
      BY <1>1, <1>3, <1>7, <2>1 DEF FoldOK
  <1>9. PhasesOK'
    BY <1>1, <1>6 DEF PhasesOK
  <1> QED
    BY <1>8, <1>9 DEF AggInv

\* Every step.
LEMMA NextInv == AggInv /\ [Next]_vars => AggInv'
  <1> SUFFICES ASSUME AggInv, [Next]_vars PROVE AggInv'
    OBVIOUS
  <1>1. CASE UNCHANGED vars
    BY <1>1 DEF vars, AggInv, PhasesOK, FoldOK, StreamsOK, Folded
  <1>2. CASE Next
    BY <1>2, RewriteStep, AnnotateStep, BatchStep, PartitionStep, FailStep, FinalizeStep DEF Next
  <1> QED
    BY <1>1, <1>2

-----------------------------------------------------------------------------
(* The properties. *)

\* Every reachable state is one of the invariant.
THEOREM AggregateInvariant == Spec => []AggInv
  BY InitInv, NextInv, PTL DEF Spec

\* The type invariant of the aggregate rules (TypeOK): a result is there at the
\* ends that have one, and a fold that is done has read every stream.
THEOREM AggregateTypeCorrect == Spec => []TypeOK
  <1>1. AggInv => TypeOK
    <2> SUFFICES ASSUME AggInv PROVE TypeOK
      OBVIOUS
    <2>1. partition \in 0 .. Len(streams) + 1
      <3>1. CASE phase \in {"logical", "physical", "answered", "left"}
        <4>1. streams = <<>> /\ partition = 0
          BY <3>1 DEF AggInv, PhasesOK
        <4> QED
          BY <4>1
      <3>2. CASE phase \in {"fold", "done", "failed"}
        <4>1. partition \in 1 .. Len(streams) + 1 /\ Len(streams) \in Nat
          BY <3>2 DEF AggInv, FoldOK, StreamsOK
        <4> QED
          BY <4>1
      <3> QED
        BY <3>1, <3>2 DEF AggInv, PhasesOK
    <2>2. (result # <<>>) <=> phase \in {"answered", "done"}
      <3>1. phase = "answered" => result # <<>>
        <4>1. phase = "answered" => result = <<{StatisticsRow(query)}>>
          BY DEF AggInv, PhasesOK
        <4> QED
          BY <4>1
      <3>2. phase = "done" => result # <<>>
        <4>1. phase = "done" => result = <<Meaning(query, AllHeld(query))>>
          BY DEF AggInv, PhasesOK
        <4> QED
          BY <4>1
      <3> QED
        BY <3>1, <3>2 DEF AggInv, PhasesOK
    <2>3. phase = "done" => \A p \in DOMAIN streams : streams[p] = <<>>
      BY DEF AggInv, FoldOK, StreamsOK
    <2>4. \A key \in DOMAIN groups : Len(key) = Len(query.keys)
      <3>1. CASE phase \in {"logical", "physical", "answered", "left", "failed"}
        BY <3>1 DEF AggInv, PhasesOK
      <3>2. CASE phase \in {"fold", "done"}
        <4>1. query \in Queries /\ DOMAIN groups = KeysOf(query, Folded) /\ Folded \subseteq AllHeld(query)
          BY <3>2 DEF AggInv, PhasesOK, FoldOK, TableOf, Folded
        <4>2. Folded \subseteq ScanRows(query)
          BY <4>1, HeldRows
        <4>3. \A r \in Folded : Len(KeyOf(query, r)) = Len(query.keys)
          BY <4>1, <4>2, KeyFacts
        <4>4. query.keys = <<>> => Len(<<>>) = Len(query.keys)
          OBVIOUS
        <4> QED
          BY <4>1, <4>3, <4>4 DEF KeysOf
      <3> QED
        BY <3>1, <3>2 DEF AggInv, PhasesOK
    <2> QED
      BY <2>1, <2>2, <2>3, <2>4 DEF TypeOK, AggInv, PhasesOK
  <1> QED
    BY <1>1, AggregateInvariant, PTL

\* ZarrAggregateExec never holds more groups than its budget (GroupsWithinBudget),
\* for any coordinates, keys, filters and partitions.
THEOREM GroupsBounded == Spec => []GroupsWithinBudget
  <1>1. AggInv => GroupsWithinBudget
    <2> SUFFICES ASSUME AggInv, TotalRows(query) # 0 \/ DetermineEffectiveCoords(query) = Axes(query)
                 PROVE  Cardinality(DOMAIN groups) <= query.budget
      BY DEF GroupsWithinBudget
    <2>1. query \in Queries /\ query.budget \in Nat
      BY QueryFacts DEF AggInv, PhasesOK
    <2>2. CASE phase \in {"logical", "physical", "answered", "left", "failed"}
      <3>1. DOMAIN groups = {}
        BY <2>2 DEF AggInv, PhasesOK
      <3>2. Cardinality({}) = 0
        BY FS_EmptySet
      <3> QED
        BY <2>1, <3>1, <3>2
    <2>3. CASE phase \in {"fold", "done"}
      <3>1. /\ Recognize(query) /\ GroupCardinality(query) <= query.budget
            /\ DOMAIN groups = KeysOf(query, Folded) /\ Folded \subseteq AllHeld(query)
        BY <2>3 DEF AggInv, FoldOK, StreamsOK, TableOf, Folded
      <3>2. Folded \subseteq ScanRows(query)
        BY <2>1, <3>1, HeldRows
      <3>3. CASE query.keys = <<>>
        <4>1. DOMAIN groups = {<<>>}
          BY <2>1, <3>1, <3>2, <3>3, KeyFacts DEF KeysOf
        <4>2. Cardinality({<<>>}) = 1
          BY FS_Singleton
        <4>3. GroupCardinality(query) = 1
          BY <3>3 DEF GroupCardinality
        <4> QED
          BY <3>1, <4>1, <4>2, <4>3
      <3>4. CASE query.keys # <<>>
        <4> DEFINE K == {KeyOf(query, r) : r \in ScanRows(query)}
        <4>1. DOMAIN groups \subseteq K
          BY <3>1, <3>2, <3>4 DEF KeysOf
        <4>2. /\ IsFiniteSet(K) /\ Cardinality(K) \in Nat /\ GroupCardinality(query) \in Nat
              /\ Cardinality(K) <= GroupCardinality(query)
          BY <2>1, <3>1, <3>4, GroupBound
        <4> HIDE DEF K
        <4>3. IsFiniteSet(DOMAIN groups) /\ Cardinality(DOMAIN groups) <= Cardinality(K)
          BY <4>1, <4>2, FS_Subset
        <4>4. Cardinality(DOMAIN groups) \in Nat
          BY <4>3, FS_CardinalityType
        <4> QED
          BY <2>1, <3>1, <4>2, <4>3, <4>4
      <3> QED
        BY <3>3, <3>4
    <2> QED
      BY <2>2, <2>3 DEF AggInv, PhasesOK
  <1> QED
    BY <1>1, AggregateInvariant, PTL

\* COUNT, MIN and MAX from statistics agree with the scan they save
\* (StatisticsExact), for any coordinates.
THEOREM StatisticsAgree == Spec => []StatisticsExact
  <1>1. AggInv => StatisticsExact
    <2> SUFFICES ASSUME AggInv, phase = "answered",
                        DetermineEffectiveCoords(query) = Axes(query),
                        \A i \in DOMAIN query.aggs :
                           IF query.aggs[i].fn = "count" THEN ~query.aggs[i].distinct
                           ELSE TotalRows(query) # 0
                 PROVE  Right(result[1])
      BY DEF StatisticsExact
    <2>1. query \in Queries /\ Known(query) /\ result = <<{StatisticsRow(query)}>>
      BY DEF AggInv, PhasesOK
    <2>2. Inputs(query) = {ScanRows(query)} /\ {StatisticsRow(query)} = Meaning(query, ScanRows(query))
      BY <2>1, StatisticsAre
    <2>3. result[1] = {StatisticsRow(query)}
      BY <2>1
    <2> QED
      BY <2>2, <2>3 DEF Right
  <1> QED
    BY <1>1, AggregateInvariant, PTL

\* A pushed aggregate returns what SQL says (PushedExact), for any coordinates,
\* values, keys, partitions and batches.
THEOREM PushedAggregateExact == Spec => []PushedExact
  <1>1. AggInv => PushedExact
    <2> SUFFICES ASSUME AggInv, phase = "done", query.filter.form # "value",
                        query.fetch # NoFetch => query.parts = 1
                 PROVE  Right(result[1])
      BY DEF PushedExact
    <2>1. query \in Queries /\ result[1] = Meaning(query, AllHeld(query))
      <3>1. query \in Queries /\ result = <<Meaning(query, AllHeld(query))>>
        BY DEF AggInv, PhasesOK
      <3> QED
        BY <3>1
    <2> DEFINE R == ScanRows(query)
    <2>2. {r \in R : query.filter.form = "value" => Selected(r)} = R
      OBVIOUS
    <2>3. Inputs(query) = IF query.fetch = NoFetch THEN {R}
                          ELSE kSubset(Min2(query.fetch, Cardinality(R)), R)
      <3>1. Inputs(query) = LET rows == {r \in R : query.filter.form = "value" => Selected(r)}
                            IN IF query.fetch = NoFetch THEN {rows}
                               ELSE kSubset(Min2(query.fetch, Cardinality(rows)), rows)
        BY DEF Inputs
      <3> HIDE DEF R
      <3> QED
        BY <2>2, <3>1
    <2>4. AllHeld(query) \in Inputs(query)
      <3>1. /\ query.fetch = NoFetch => AllHeld(query) = R
            /\ query.fetch # NoFetch => AllHeld(query) \in kSubset(Min2(query.fetch, Cardinality(R)), R)
        BY <2>1, StreamFacts DEF AllHeld
      <3> HIDE DEF R
      <3> QED
        BY <2>3, <3>1
    <2> QED
      BY <2>1, <2>4 DEF Right
  <1> QED
    BY <1>1, AggregateInvariant, PTL
=============================================================================
