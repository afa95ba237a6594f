--------------------------- MODULE PartitionProofs ---------------------------
(***************************************************************************)
(* What the algorithms of Partition and Tiling promise, for every length,   *)
(* chunk length, target and selection: the cuts of an axis into partitions, *)
(* the streaming plan, the windows and tiles a box is read in, and what is  *)
(* read of a tile.                                                          *)
(*                                                                         *)
(* The first two sections hold facts that all proofs share, about finite    *)
(* sets (a least natural, and that Sorted and Ranked list each member once) *)
(* and about what sequences hold.                                           *)
(*                                                                         *)
(* A cut: each piece is a stretch of whole chunks, clipped to the range;    *)
(* the argument is about chunk numbers, and InChunks carries it over to     *)
(* positions.  A box: its cells are numbered in row-major order, and the    *)
(* digits of a number are the places of its cell on the axes; a column of   *)
(* coordinates, the rows of a chunk block and what is scattered from it are *)
(* all described by such digits.  A tile grid: an odometer over the windows *)
(* of the axes, which shows each cursor once, in lexicographic order.       *)
(***************************************************************************)
EXTENDS Partition, Tiling, Selection, FiniteSetTheorems, SequenceTheorems, TLAPS

\* The members of S below n.
Below(S, n) == {y \in S : y < n}

\* A set of naturals that is not empty has a least member.
LEMMA LeastNat ==
    ASSUME NEW T, T \subseteq Nat, T # {}
    PROVE  \E n \in T : \A m \in T : n <= m
  <1> DEFINE R == OpToRel(<, Nat)
  <1>1. IsWellFoundedOn(R, Nat)
    BY NatLessThanWellFounded
  <1>2. \A x, y \in Nat : <<y, x>> \in R <=> y < x
    BY DEF OpToRel
  <1> HIDE DEF R
  <1>3. PICK x \in T : \A y \in T : ~(<<y, x>> \in R)
    BY <1>1, WFMin
  <1>4. ASSUME NEW m \in T PROVE x <= m
    <2>1. x \in Nat /\ m \in Nat
      OBVIOUS
    <2>2. ~(m < x)
      BY <1>2, <1>3, <2>1
    <2> QED
      BY <2>1, <2>2
  <1> QED
    BY <1>3, <1>4

\* A finite set of naturals has an upper bound.
LEMMA FiniteBounded ==
    ASSUME NEW S, S \subseteq Nat, IsFiniteSet(S)
    PROVE  \E n \in Nat : \A y \in S : y < n
  <1> DEFINE Unbounded == {c \in Nat : \E T \in SUBSET S :
                              /\ Cardinality(T) = c
                              /\ ~ \E n \in Nat : \A y \in T : y < n}
  <1>1. ASSUME Unbounded # {} PROVE FALSE
    <2>1. PICK c \in Unbounded : \A d \in Unbounded : c <= d
      BY <1>1, LeastNat
    <2>2. PICK T \in SUBSET S : /\ Cardinality(T) = c
                                /\ ~ \E n \in Nat : \A y \in T : y < n
      BY <2>1
    <2>3. IsFiniteSet(T)
      BY FS_Subset
    <2>4. PICK x \in T : TRUE
      BY <2>2
    <2>5. /\ IsFiniteSet(T \ {x}) /\ Cardinality(T \ {x}) = c - 1
          /\ c \in Nat /\ Cardinality(T \ {x}) \in Nat
      BY <2>2, <2>3, <2>4, FS_RemoveElement, FS_CardinalityType
    <2>6. c - 1 \notin Unbounded
      BY <2>1, <2>5
    <2>7. PICK n \in Nat : \A y \in T \ {x} : y < n
      BY <2>5, <2>6
    <2>8. PICK m \in Nat : n <= m /\ x < m
      <3>1. n <= n + x + 1 /\ x < n + x + 1 /\ n + x + 1 \in Nat
        BY <2>4
      <3> QED
        BY <3>1
    <2>9. \A y \in T : y < m
      BY <2>7, <2>8
    <2> QED
      BY <2>2, <2>9
  <1>2. Cardinality(S) \in Nat
    BY FS_CardinalityType
  <1> QED
    BY <1>1, <1>2

\* How many members lie below a bound.
LEMMA BelowFacts ==
    ASSUME NEW S, S \subseteq Nat, IsFiniteSet(S), NEW n \in Nat
    PROVE  /\ IsFiniteSet(Below(S, n)) /\ Cardinality(Below(S, n)) \in Nat
           /\ Cardinality(Below(S, n)) <= Cardinality(S)
           /\ Cardinality(Below(S, n + 1))
                = IF n \in S THEN Cardinality(Below(S, n)) + 1 ELSE Cardinality(Below(S, n))
  <1>1. Below(S, n) \in SUBSET S
    BY DEF Below
  <1>2. IsFiniteSet(Below(S, n)) /\ Cardinality(Below(S, n)) \in Nat
        /\ Cardinality(Below(S, n)) <= Cardinality(S)
    BY <1>1, FS_Subset, FS_CardinalityType
  <1>3. n \notin Below(S, n)
    BY DEF Below
  <1>4. CASE n \in S
    <2>1. Below(S, n + 1) = Below(S, n) \cup {n}
      <3>1. ASSUME NEW y \in S PROVE y < n + 1 <=> y < n \/ y = n
        <4>1. y \in Nat
          OBVIOUS
        <4> QED
          BY <4>1
      <3> QED
        BY <1>4, <3>1 DEF Below
    <2> QED
      BY <1>2, <1>3, <1>4, <2>1, FS_AddElement
  <1>5. CASE n \notin S
    <2>1. Below(S, n + 1) = Below(S, n)
      <3>1. ASSUME NEW y \in S PROVE y < n + 1 <=> y < n
        <4>1. y \in Nat /\ y # n
          BY <1>5
        <4> QED
          BY <4>1
      <3> QED
        BY <3>1 DEF Below
    <2> QED
      BY <1>2, <1>5, <2>1
  <1> QED
    BY <1>4, <1>5

\* The larger of two members has more members below it.
LEMMA BelowMonotone ==
    ASSUME NEW S, S \subseteq Nat, IsFiniteSet(S), NEW x \in S, NEW y \in Nat, x < y
    PROVE  Cardinality(Below(S, x)) < Cardinality(Below(S, y))
  <1>1. Cardinality(Below(S, x + 1)) = Cardinality(Below(S, x)) + 1
    BY BelowFacts
  <1>2. Below(S, x + 1) \in SUBSET Below(S, y)
    <2>1. ASSUME NEW z \in S, z < x + 1 PROVE z < y
      <3>1. z \in Nat /\ x \in Nat
        OBVIOUS
      <3> QED
        BY <2>1, <3>1
    <2> QED
      BY <2>1 DEF Below
  <1>3. /\ IsFiniteSet(Below(S, y)) /\ Cardinality(Below(S, y)) \in Nat
        /\ Cardinality(Below(S, x)) \in Nat
    BY BelowFacts
  <1>4. Cardinality(Below(S, x + 1)) <= Cardinality(Below(S, y))
    BY <1>2, <1>3, FS_Subset
  <1> QED
    BY <1>1, <1>3, <1>4

\* For every k there is a member with k - 1 others below it.
LEMMA KthMember ==
    ASSUME NEW S, S \subseteq Nat, IsFiniteSet(S), NEW k \in 1 .. Cardinality(S)
    PROVE  \E x \in S : Cardinality(Below(S, x)) = k - 1
  <1> DEFINE T == {n \in Nat : Cardinality(Below(S, n)) >= k}
  <1>1. Cardinality(S) \in Nat
    BY FS_CardinalityType
  <1>2. T # {}
    <2>1. PICK n \in Nat : \A y \in S : y < n
      BY FiniteBounded
    <2>2. Below(S, n) = S
      BY <2>1 DEF Below
    <2> QED
      BY <1>1, <2>2
  <1>3. PICK n \in T : \A m \in T : n <= m
    BY <1>2, LeastNat
  <1>4. n # 0
    <2>1. Below(S, 0) = {}
      <3>1. ASSUME NEW y \in S PROVE ~(y < 0)
        <4>1. y \in Nat
          OBVIOUS
        <4> QED
          BY <4>1
      <3> QED
        BY <3>1 DEF Below
    <2> QED
      BY <1>1, <1>3, <2>1, FS_EmptySet
  <1>5. PICK x \in Nat : n = x + 1
    <2>1. n - 1 \in Nat /\ n = (n - 1) + 1
      BY <1>3, <1>4
    <2> QED
      BY <2>1
  <1>6. x \notin T
    BY <1>3, <1>5
  <1>7. /\ Cardinality(Below(S, x)) \in Nat
        /\ Cardinality(Below(S, x + 1))
             = IF x \in S THEN Cardinality(Below(S, x)) + 1 ELSE Cardinality(Below(S, x))
    BY BelowFacts
  <1>8. Cardinality(Below(S, x)) < k /\ Cardinality(Below(S, x + 1)) >= k
    BY <1>1, <1>3, <1>5, <1>6, <1>7
  <1> QED
    BY <1>1, <1>7, <1>8

\* Sorted lists the members of a set, each once, in ascending order.
LEMMA SortedFacts ==
    ASSUME NEW S, S \subseteq Nat, IsFiniteSet(S)
    PROVE  /\ Cardinality(S) \in Nat
           /\ Sorted(S) \in [1 .. Cardinality(S) -> S]
           /\ \A x \in S : \E k \in 1 .. Cardinality(S) : Sorted(S)[k] = x
           /\ \A j, k \in 1 .. Cardinality(S) : j < k => Sorted(S)[j] < Sorted(S)[k]
  <1>1. Cardinality(S) \in Nat
    BY FS_CardinalityType
  <1> DEFINE n == Cardinality(S)
             f == Sorted(S)
  <1>2. f = [k \in 1 .. n |-> CHOOSE x \in S : Cardinality(Below(S, x)) = k - 1]
    BY DEF Sorted, Below
  <1> HIDE DEF n, f
  <1>3. ASSUME NEW k \in 1 .. n PROVE f[k] \in S /\ Cardinality(Below(S, f[k])) = k - 1
    <2>1. \E x \in S : Cardinality(Below(S, x)) = k - 1
      BY KthMember DEF n
    <2>2. f[k] = CHOOSE x \in S : Cardinality(Below(S, x)) = k - 1
      BY <1>2
    <2> QED
      BY <2>1, <2>2
  <1>4. f \in [1 .. n -> S]
    BY <1>2, <1>3
  <1>5. ASSUME NEW x \in S PROVE \E k \in 1 .. n : f[k] = x
    <2>1. Cardinality(Below(S, x)) \in Nat /\ Cardinality(Below(S, x)) < n
      <3>1. PICK m \in Nat : (\A y \in S : y < m)
        BY FiniteBounded
      <3>2. Below(S, m) = S
        BY <3>1 DEF Below
      <3> QED
        BY <3>1, <3>2, BelowMonotone, BelowFacts DEF n
    <2>2. PICK k \in 1 .. n : k - 1 = Cardinality(Below(S, x))
      <3>1. /\ Cardinality(Below(S, x)) + 1 \in 1 .. n
            /\ (Cardinality(Below(S, x)) + 1) - 1 = Cardinality(Below(S, x))
        BY <1>1, <2>1 DEF n
      <3> QED
        BY <3>1
    <2>3. Cardinality(Below(S, f[k])) = Cardinality(Below(S, x)) /\ f[k] \in S
      BY <1>3, <2>2
    <2>4. x \in Nat /\ f[k] \in Nat
      BY <2>3
    <2>5. f[k] = x
      <3>1. x < f[k] => Cardinality(Below(S, x)) < Cardinality(Below(S, f[k]))
        BY <2>3, <2>4, BelowMonotone
      <3>2. f[k] < x => Cardinality(Below(S, f[k])) < Cardinality(Below(S, x))
        BY <2>3, <2>4, BelowMonotone
      <3> QED
        BY <2>1, <2>3, <2>4, <3>1, <3>2
    <2> QED
      BY <2>5
  <1>6. ASSUME NEW j \in 1 .. n, NEW k \in 1 .. n, j < k PROVE f[j] < f[k]
    <2>1. Cardinality(Below(S, f[j])) < Cardinality(Below(S, f[k]))
      BY <1>1, <1>3, <1>6
    <2>2. f[j] \in S /\ f[k] \in S /\ f[j] \in Nat /\ f[k] \in Nat
      BY <1>3
    <2>3. f[j] # f[k] /\ ~(f[k] < f[j])
      <3>1. Cardinality(Below(S, f[k])) \in Nat /\ Cardinality(Below(S, f[j])) \in Nat
        BY <2>2, BelowFacts
      <3>2. f[k] < f[j] => Cardinality(Below(S, f[k])) < Cardinality(Below(S, f[j]))
        BY <2>2, BelowMonotone
      <3> QED
        BY <2>1, <3>1, <3>2
    <2> QED
      BY <2>2, <2>3
  <1> QED
    BY <1>1, <1>4, <1>5, <1>6 DEF f, n

\* A bijection keeps the size.
LEMMA SameSize ==
    ASSUME NEW S, NEW T, NEW f \in Bijection(S, T), IsFiniteSet(S)
    PROVE  Cardinality(T) = Cardinality(S)
  <1>1. f \in Surjection(S, T) /\ f \in Injection(S, T)
    BY DEF Bijection
  <1> QED
    BY <1>1, FS_Surjection

\* A set that begins at one and has no gap is counted by its last member.
LEMMA PrefixSize ==
    ASSUME NEW n \in Nat, NEW S, S \subseteq 1 .. n,
           \A k \in S : \A j \in 1 .. n : j < k => j \in S
    PROVE  /\ IsFiniteSet(S) /\ Cardinality(S) \in 0 .. n
           /\ S = 1 .. Cardinality(S)
  <1> DEFINE T == {k \in Nat : k > 0 /\ k \notin S}
  <1>1. T \subseteq Nat /\ n + 1 \in T
    BY DEF T
  <1>2. PICK m \in T : \A k \in T : m <= k
    BY <1>1, LeastNat
  <1>3. m \in 1 .. n + 1 /\ m \notin S
    BY <1>1, <1>2
  <1>4. S = 1 .. m - 1
    <2>1. ASSUME NEW k \in 1 .. m - 1 PROVE k \in S
      BY <1>2, <1>3
    <2>2. ASSUME NEW k \in S PROVE k \in 1 .. m - 1
      BY <1>3
    <2> QED
      BY <2>1, <2>2
  <1>5. m - 1 \in 0 .. n
    BY <1>3
  <1>6. IsFiniteSet(1 .. m - 1) /\ Cardinality(1 .. m - 1) = m - 1
    BY <1>5, FS_Interval
  <1> QED
    BY <1>4, <1>5, <1>6

-----------------------------------------------------------------------------
(* Sequences. *)

\* A function on 1 .. n is a sequence.
LEMMA FunIsSeq ==
    ASSUME NEW S, NEW n \in Nat, NEW f \in [1 .. n -> S]
    PROVE  f \in Seq(S) /\ Len(f) = n /\ DOMAIN f = 1 .. n
  <1>1. DOMAIN f = 1 .. n
    OBVIOUS
  <1>2. f \in Seq(S)
    BY SeqDef
  <1>3. Len(f) = n
    BY <1>1, <1>2, LenProperties
  <1> QED
    BY <1>1, <1>2, <1>3

\* The elements of a sequence.
Ran(s) == {s[k] : k \in DOMAIN s}

\* A concatenation holds the elements of both parts.
LEMMA ConcatRan ==
    ASSUME NEW S, NEW s \in Seq(S), NEW t \in Seq(S)
    PROVE  s \o t \in Seq(S) /\ Ran(s \o t) = Ran(s) \cup Ran(t)
  <1> DEFINE u == s \o t
             m == Len(s)
             n == Len(t)
  <1>1. /\ m \in Nat /\ n \in Nat /\ DOMAIN s = 1 .. m /\ DOMAIN t = 1 .. n
        /\ u \in Seq(S) /\ Len(u) = m + n
        /\ \A i \in 1 .. m + n : u[i] = IF i <= m THEN s[i] ELSE t[i - m]
    BY LenProperties, ConcatProperties
  <1>2. DOMAIN u = 1 .. m + n
    BY <1>1, LenProperties
  <1> HIDE DEF u, m, n
  <1>3. ASSUME NEW i \in DOMAIN u PROVE u[i] \in Ran(s) \cup Ran(t)
    <2>1. CASE i <= m
      BY <1>1, <1>2, <2>1 DEF Ran
    <2>2. CASE ~(i <= m)
      <3>1. i - m \in 1 .. n /\ u[i] = t[i - m]
        BY <1>1, <1>2, <2>2
      <3> QED
        BY <1>1, <3>1 DEF Ran
    <2> QED
      BY <2>1, <2>2
  <1>4. ASSUME NEW i \in DOMAIN s PROVE s[i] \in Ran(u)
    <2>1. i \in 1 .. m + n /\ i <= m
      BY <1>1
    <2>2. u[i] = s[i]
      BY <1>1, <2>1
    <2> QED
      BY <1>2, <2>1, <2>2 DEF Ran
  <1>5. ASSUME NEW i \in DOMAIN t PROVE t[i] \in Ran(u)
    <2>1. i + m \in 1 .. m + n /\ ~(i + m <= m) /\ (i + m) - m = i
      BY <1>1
    <2>2. u[i + m] = t[i]
      BY <1>1, <2>1
    <2> QED
      BY <1>2, <2>1, <2>2 DEF Ran
  <1>6. Ran(u) = Ran(s) \cup Ran(t)
    BY <1>3, <1>4, <1>5 DEF Ran
  <1> QED
    BY <1>1, <1>6 DEF u

\* A singleton sequence, and the empty one.
LEMMA ShortRan ==
    ASSUME NEW S
    PROVE  /\ <<>> \in Seq(S) /\ Ran(<<>>) = {}
           /\ \A x \in S : <<x>> \in Seq(S) /\ Ran(<<x>>) = {x}
  BY EmptySeq DEF Ran

\* An appended sequence keeps its elements and gains the last.
LEMMA AppendRan ==
    ASSUME NEW S, NEW s \in Seq(S), NEW x \in S
    PROVE  /\ Append(s, x) \in Seq(S)
           /\ \A k \in DOMAIN s : k \in DOMAIN Append(s, x) /\ Append(s, x)[k] = s[k]
           /\ \E j \in DOMAIN Append(s, x) : Append(s, x)[j] = x
           /\ \A j \in DOMAIN Append(s, x) :
                 Append(s, x)[j] = x \/ (j \in DOMAIN s /\ Append(s, x)[j] = s[j])
  <1> DEFINE t == Append(s, x)
             n == Len(s)
  <1>1. /\ n \in Nat /\ DOMAIN s = 1 .. n /\ t \in Seq(S) /\ Len(t) = n + 1
        /\ \A i \in 1 .. n : t[i] = s[i]
        /\ t[n + 1] = x
    BY LenProperties, AppendProperties
  <1>2. DOMAIN t = 1 .. n + 1
    BY <1>1, LenProperties
  <1> HIDE DEF t, n
  <1>3. n + 1 \in DOMAIN t /\ \A j \in DOMAIN t : j = n + 1 \/ j \in DOMAIN s
    BY <1>1, <1>2
  <1>4. \A j \in DOMAIN s : j \in DOMAIN t
    BY <1>1, <1>2
  <1> QED
    BY <1>1, <1>3, <1>4 DEF t

\* Ranked lists the members of a set each once.
LEMMA RankedFacts ==
    ASSUME NEW S, IsFiniteSet(S), NEW R,
           \A a \in S : <<a, a>> \notin R,
           \A a, b \in S : a # b => <<a, b>> \in R \/ <<b, a>> \in R,
           \A a, b, c \in S : <<a, b>> \in R /\ <<b, c>> \in R => <<a, c>> \in R
    PROVE  /\ Cardinality(S) \in Nat
           /\ Ranked(S, R) \in [1 .. Cardinality(S) -> S]
           /\ \A j, k \in 1 .. Cardinality(S) : Ranked(S, R)[j] = Ranked(S, R)[k] => j = k
           /\ \A a \in S : \E k \in 1 .. Cardinality(S) : Ranked(S, R)[k] = a
  <1> DEFINE n         == Cardinality(S)
             Before(a) == {b \in S : <<b, a>> \in R}
             rank      == [a \in S |-> Cardinality(Before(a)) + 1]
             f         == Ranked(S, R)
  <1>1. n \in Nat
    BY FS_CardinalityType
  <1>2. ASSUME NEW a \in S
        PROVE  /\ IsFiniteSet(Before(a)) /\ Cardinality(Before(a)) \in Nat
               /\ a \notin Before(a) /\ Cardinality(Before(a)) < n
    <2>1. Before(a) \in SUBSET S /\ a \notin Before(a)
      OBVIOUS
    <2> HIDE DEF Before
    <2>2. IsFiniteSet(Before(a)) /\ Cardinality(Before(a)) <= n /\ (n = Cardinality(Before(a)) => S = Before(a))
      BY <2>1, FS_Subset
    <2>3. Cardinality(Before(a)) \in Nat
      BY <2>2, FS_CardinalityType
    <2> QED
      BY <1>1, <2>1, <2>2, <2>3
  <1>3. ASSUME NEW a \in S, NEW b \in S, <<a, b>> \in R
        PROVE  Cardinality(Before(a)) < Cardinality(Before(b))
    <2>1. Before(a) \in SUBSET Before(b) /\ a \in Before(b) /\ a \notin Before(a)
      BY <1>2, <1>3
    <2>2. /\ IsFiniteSet(Before(b)) /\ Cardinality(Before(b)) \in Nat /\ Cardinality(Before(a)) \in Nat
      BY <1>2
    <2> HIDE DEF Before
    <2>3. /\ Cardinality(Before(a)) <= Cardinality(Before(b))
          /\ (Cardinality(Before(b)) = Cardinality(Before(a)) => Before(b) = Before(a))
      BY <2>1, <2>2, FS_Subset
    <2> QED
      BY <2>1, <2>2, <2>3
  <1> HIDE DEF Before, n
  <1>4. rank \in Injection(S, 1 .. n)
    <2>1. rank \in [S -> 1 .. n]
      BY <1>1, <1>2
    <2>2. ASSUME NEW a \in S, NEW b \in S, rank[a] = rank[b] PROVE a = b
      <3>1. Cardinality(Before(a)) = Cardinality(Before(b))
        BY <1>2, <2>2
      <3>2. <<a, b>> \notin R
        BY <1>2, <1>3, <3>1
      <3>3. <<b, a>> \notin R
        BY <1>2, <1>3, <3>1
      <3> QED
        BY <3>2, <3>3
    <2> QED
      BY <2>1, <2>2 DEF Injection, IsInjective
  <1>5. IsFiniteSet(1 .. n) /\ Cardinality(1 .. n) = n
    BY <1>1, FS_Interval
  <1>6. rank \in Surjection(S, 1 .. n)
    BY <1>4, <1>5, FS_Injection DEF n
  <1>7. ASSUME NEW k \in 1 .. n PROVE \E a \in S : Cardinality(Before(a)) = k - 1
    <2>1. PICK a \in S : rank[a] = k
      BY <1>6 DEF Surjection
    <2> QED
      BY <1>2, <2>1
  <1>8. f = [k \in 1 .. n |-> CHOOSE a \in S : Cardinality(Before(a)) = k - 1]
    BY DEF Ranked, Before, n
  <1> HIDE DEF f
  <1>9. ASSUME NEW k \in 1 .. n PROVE f[k] \in S /\ rank[f[k]] = k
    <2>1. f[k] = CHOOSE a \in S : Cardinality(Before(a)) = k - 1
      BY <1>8
    <2>2. f[k] \in S /\ Cardinality(Before(f[k])) = k - 1
      BY <1>7, <2>1
    <2> QED
      BY <2>2
  <1>10. f \in [1 .. n -> S]
    BY <1>8, <1>9
  <1>11. ASSUME NEW a \in S PROVE \E k \in 1 .. n : f[k] = a
    <2>1. rank[a] \in 1 .. n
      BY <1>1, <1>2
    <2>2. f[rank[a]] \in S /\ rank[f[rank[a]]] = rank[a]
      BY <1>9, <2>1
    <2> HIDE DEF rank
    <2>3. f[rank[a]] = a
      BY <1>4, <2>2 DEF Injection, IsInjective
    <2> QED
      BY <2>1, <2>3
  <1>12. \A j, k \in 1 .. n : f[j] = f[k] => j = k
    <2> HIDE DEF rank
    <2> QED
      BY <1>9
  <1> QED
    BY <1>1, <1>10, <1>11, <1>12 DEF f, n

-----------------------------------------------------------------------------
(* What a cut is. *)

\* The pieces are an ordered cut of the positions s .. e - 1, and no chunk has
\* positions in two of them.
CutsOnChunks(pieces, s, e, chunk_len) ==
    /\ \A i \in DOMAIN pieces : Members(pieces[i]) \subseteq s .. e - 1
    /\ \A x \in s .. e - 1 : \E i \in DOMAIN pieces : x \in Members(pieces[i])
    /\ \A i, j \in DOMAIN pieces : i < j =>
          \A x \in Members(pieces[i]), y \in Members(pieces[j]) : x < y
    /\ chunk_len # 0 =>
          \A i \in DOMAIN pieces : \A x \in Members(pieces[i]), y \in s .. e - 1 :
              x \div chunk_len = y \div chunk_len => y \in Members(pieces[i])

\* A list of positions in ascending order.
Ascends(v) == \A j, k \in DOMAIN v : j < k => v[j] < v[k]

\* The two kinds of selections.
RangeSels == [kind : {"range"}, lo : Nat, hi : Nat]
ListSels  == {IndicesSel(v) : v \in {w \in Seq(Nat) : Ascends(w)}}

-----------------------------------------------------------------------------
(* Integer division. *)

\* The quotient and its remainder.
LEMMA DivFacts ==
    ASSUME NEW a \in Nat, NEW b \in Nat \ {0}
    PROVE  /\ a \div b \in Nat
           /\ (a \div b) * b <= a
           /\ a < ((a \div b) + 1) * b
  OBVIOUS

\* The quotient is the only number with this property.
LEMMA DivUnique ==
    ASSUME NEW a \in Nat, NEW b \in Nat \ {0}, NEW q \in Nat,
           q * b <= a, a < (q + 1) * b
    PROVE  a \div b = q
  OBVIOUS

\* Multiplication keeps the order.
LEMMA MulMono ==
    ASSUME NEW a \in Nat, NEW b \in Nat, NEW c \in Nat, a <= b
    PROVE  a * c <= b * c
  OBVIOUS

\* The quotient rounded up (div_ceil).
LEMMA DivCeilFacts ==
    ASSUME NEW a \in Nat \ {0}, NEW b \in Nat \ {0}
    PROVE  /\ DivCeil(a, b) \in Nat \ {0}
           /\ DivCeil(a, b) = ((a - 1) \div b) + 1
           /\ (DivCeil(a, b) - 1) * b < a
           /\ a <= DivCeil(a, b) * b
  <1>1. (a - 1) \div b \in Nat /\ ((a - 1) \div b) * b <= a - 1 /\ a - 1 < (((a - 1) \div b) + 1) * b
    BY DivFacts
  <1> DEFINE q == (a - 1) \div b
  <1>2. (q + 1) * b <= a + b - 1 /\ a + b - 1 < (q + 2) * b
    <2>1. (q + 1) * b = q * b + b /\ (q + 2) * b = (q + 1) * b + b
      BY <1>1
    <2> HIDE DEF q
    <2> QED
      BY <1>1, <2>1 DEF q
  <1>3. DivCeil(a, b) = q + 1
    <2>1. q + 1 \in Nat /\ a + b - 1 \in Nat /\ (q + 1) + 1 = q + 2
      BY <1>1
    <2> QED
      BY <1>2, <2>1, DivUnique DEF DivCeil
  <1> QED
    BY <1>1, <1>3

\* A position lies in a stretch of chunks if its chunk does.
LEMMA InChunks ==
    ASSUME NEW x \in Nat, NEW chunk \in Nat \ {0}, NEW a \in Nat, NEW b \in Nat
    PROVE  /\ a * chunk <= x <=> a <= x \div chunk
           /\ x < b * chunk <=> x \div chunk < b
  <1> DEFINE q == x \div chunk
  <1>1. q \in Nat /\ q * chunk <= x /\ x < (q + 1) * chunk
    BY DivFacts
  <1> HIDE DEF q
  <1>2. a <= q => a * chunk <= q * chunk
    BY <1>1, MulMono
  <1>3. q + 1 <= a => (q + 1) * chunk <= a * chunk
    BY <1>1, MulMono
  <1>4. b <= q => b * chunk <= q * chunk
    BY <1>1, MulMono
  <1>5. q + 1 <= b => (q + 1) * chunk <= b * chunk
    BY <1>1, MulMono
  <1>6. /\ a * chunk \in Nat /\ b * chunk \in Nat
        /\ q * chunk \in Nat /\ (q + 1) * chunk \in Nat
    BY <1>1
  <1> QED
    BY <1>1, <1>2, <1>3, <1>4, <1>5, <1>6 DEF q

-----------------------------------------------------------------------------
(* Stretches of chunks. *)

\* Chunk q of m, in stretches of per chunks, is in the stretch q \div per + 1.
LEMMA StretchOf ==
    ASSUME NEW m \in Nat \ {0}, NEW per \in Nat \ {0}, NEW q \in 0 .. m - 1
    PROVE  /\ (q \div per) + 1 \in 1 .. DivCeil(m, per)
           /\ (q \div per) * per <= q
           /\ q < ((q \div per) + 1) * per
  <1> DEFINE k == q \div per
  <1>1. k \in Nat /\ k * per <= q /\ q < (k + 1) * per
    BY DivFacts
  <1>2. DivCeil(m, per) \in Nat \ {0} /\ m <= DivCeil(m, per) * per
    BY DivCeilFacts
  <1>3. k < DivCeil(m, per)
    <2> DEFINE n == DivCeil(m, per)
    <2>1. n \in Nat /\ k \in Nat /\ q < n * per
      BY <1>1, <1>2
    <2> QED
      BY <2>1, InChunks
  <1> QED
    BY <1>1, <1>2, <1>3

\* Every p at most m is kept to when m chunks are shared out.
LEMMA PieceCount ==
    ASSUME NEW m \in Nat \ {0}, NEW p \in Nat \ {0}
    PROVE  /\ DivCeil(m, p) \in Nat \ {0}
           /\ DivCeil(m, DivCeil(m, p)) \in Nat \ {0}
           /\ DivCeil(m, DivCeil(m, p)) <= p
  <1> DEFINE per == DivCeil(m, p)
             n   == DivCeil(m, per)
  <1>1. per \in Nat \ {0} /\ m <= per * p
    BY DivCeilFacts
  <1>2. n \in Nat \ {0} /\ (n - 1) * per < m
    BY <1>1, DivCeilFacts
  <1> HIDE DEF n, per
  <1>3. p <= n - 1 => p * per <= (n - 1) * per
    BY <1>1, <1>2, MulMono
  <1>4. per * p = p * per /\ p * per \in Nat /\ (n - 1) * per \in Int
    BY <1>1, <1>2
  <1>5. n <= p
    BY <1>1, <1>2, <1>3, <1>4
  <1> QED
    BY <1>1, <1>2, <1>5 DEF n, per

-----------------------------------------------------------------------------
(* The cuts. *)

\* The surviving range is cut into at least one piece and at most the target,
\* on chunk boundaries only, and nothing is lost or doubled.
THEOREM SplitRangeCuts ==
    ASSUME NEW s \in Nat, NEW e \in Nat, NEW chunk_len \in Nat, NEW target \in Nat
    PROVE  LET pieces == SplitRange(s, e, chunk_len, target)
           IN /\ \E n \in 1 .. Max2(1, target) : DOMAIN pieces = 1 .. n
              /\ \A i \in DOMAIN pieces : ~IsIndices(pieces[i]) /\ pieces[i].lo \in Nat
              /\ CutsOnChunks(pieces, s, e, chunk_len)
  <1> DEFINE pieces == SplitRange(s, e, chunk_len, target)
  <1>1. CASE e <= s \/ chunk_len = 0
    <2>1. pieces = <<RangeSel(s, IF e <= s THEN s ELSE e)>>
      BY <1>1 DEF SplitRange
    <2>2. DOMAIN pieces = {1} /\ pieces[1] = RangeSel(s, IF e <= s THEN s ELSE e)
      BY <2>1
    <2>3. Members(pieces[1]) = s .. e - 1 /\ ~IsIndices(pieces[1]) /\ pieces[1].lo \in Nat
      BY <2>2 DEF Members, IsIndices, RangeSel
    <2>4. 1 \in 1 .. Max2(1, target) /\ 1 .. 1 = {1}
      BY DEF Max2
    <2> HIDE DEF pieces
    <2>5. CutsOnChunks(pieces, s, e, chunk_len)
      BY <2>2, <2>3 DEF CutsOnChunks
    <2> QED
      BY <2>2, <2>3, <2>4, <2>5 DEF pieces
  <1>2. CASE s < e /\ chunk_len # 0
    <2> DEFINE first == s \div chunk_len
               m     == ((e - 1) \div chunk_len) - first + 1
               p     == Max2(1, Min2(target, m))
               per   == DivCeil(m, p)
               n     == DivCeil(m, per)
    <2>1. first \in Nat /\ (e - 1) \div chunk_len \in Nat
      BY <1>2, DivFacts
    <2>2. \A x \in s .. e - 1 : first <= x \div chunk_len /\ x \div chunk_len < first + m
      <3> TAKE x \in s .. e - 1
      <3>1. /\ first * chunk_len <= s
            /\ e - 1 < (((e - 1) \div chunk_len) + 1) * chunk_len
        BY <1>2, DivFacts
      <3>2. /\ first * chunk_len \in Nat
            /\ (((e - 1) \div chunk_len) + 1) * chunk_len \in Nat
        BY <1>2, <2>1
      <3>3. first * chunk_len <= x /\ x < (((e - 1) \div chunk_len) + 1) * chunk_len
        BY <3>1, <3>2
      <3>4. first <= x \div chunk_len /\ x \div chunk_len < ((e - 1) \div chunk_len) + 1
        BY <1>2, <2>1, <3>3, InChunks
      <3>5. x \div chunk_len \in Nat
        BY <1>2, DivFacts
      <3> QED
        BY <2>1, <3>4, <3>5
    <2>3. m \in Nat \ {0}
      <3>1. first <= s \div chunk_len /\ s \div chunk_len < first + m
        BY <1>2, <2>2
      <3> QED
        BY <2>1, <3>1
    <2>4. p \in Nat \ {0} /\ p <= Max2(1, target)
      BY <2>3 DEF Max2, Min2
    <2>5. per \in Nat \ {0} /\ n \in Nat \ {0} /\ n <= p
      BY <2>3, <2>4, PieceCount
    <2>6. pieces = [i \in 1 .. n |->
                       RangeSel(Max2((first + (i - 1) * per) * chunk_len, s),
                                Min2((first + i * per) * chunk_len, e))]
      BY <1>2 DEF SplitRange
    <2>7. /\ pieces \in [1 .. n -> {pieces[i] : i \in 1 .. n}]
          /\ DOMAIN pieces = 1 .. n
      BY <2>6
    <2>8. \A x \in s .. e - 1 : x \in Nat /\ x \div chunk_len \in Nat
      BY <1>2, DivFacts
    <2> HIDE DEF first, m, p, per, n
    \* Membership in a piece is a matter of the chunk.
    <2>9. \A i \in 1 .. n : /\ ~IsIndices(pieces[i]) /\ pieces[i].lo \in Nat
                            /\ Members(pieces[i]) =
                                 {x \in s .. e - 1 :
                                    /\ (i - 1) * per <= (x \div chunk_len) - first
                                    /\ (x \div chunk_len) - first < i * per}
      <3> TAKE i \in 1 .. n
      <3> DEFINE a == first + (i - 1) * per
                 b == first + i * per
      <3>1. pieces[i] = RangeSel(Max2(a * chunk_len, s), Min2(b * chunk_len, e))
        BY <2>6
      <3>2. a \in Nat /\ b \in Nat /\ (i - 1) * per \in Nat /\ i * per \in Nat
        <4>1. i - 1 \in Nat /\ i \in Nat /\ per \in Nat
          BY <2>5
        <4> QED
          BY <2>1, <4>1
      <3> HIDE DEF a, b
      <3>3. a * chunk_len \in Nat /\ b * chunk_len \in Nat
        BY <3>2
      <3>4. ~IsIndices(pieces[i]) /\ pieces[i].lo \in Nat
        BY <3>1, <3>3 DEF IsIndices, RangeSel, Max2
      <3>5. Members(pieces[i]) = {x \in s .. e - 1 : a * chunk_len <= x /\ x < b * chunk_len}
        BY <3>1, <3>3, <3>4 DEF Members, RangeSel, Max2, Min2
      <3>6. ASSUME NEW x \in s .. e - 1
            PROVE  /\ a * chunk_len <= x <=> (i - 1) * per <= (x \div chunk_len) - first
                   /\ x < b * chunk_len <=> (x \div chunk_len) - first < i * per
        <4>1. x \in Nat /\ x \div chunk_len \in Nat
          BY <2>8
        <4>2. /\ a * chunk_len <= x <=> a <= x \div chunk_len
              /\ x < b * chunk_len <=> x \div chunk_len < b
          BY <1>2, <3>2, <4>1, InChunks
        <4> QED
          BY <2>1, <3>2, <4>1, <4>2 DEF a, b
      <3> QED
        BY <3>4, <3>5, <3>6
    <2>10. ASSUME NEW x \in s .. e - 1
           PROVE  \E i \in 1 .. n : x \in Members(pieces[i])
      <3> DEFINE q == (x \div chunk_len) - first
                 i == (q \div per) + 1
      <3>1. q \in Nat /\ q \in 0 .. m - 1
        <4>1. /\ x \div chunk_len \in Nat
              /\ first <= x \div chunk_len
              /\ x \div chunk_len < first + m
          BY <2>2, <2>8
        <4> QED
          BY <2>1, <2>3, <4>1
      <3>2. i \in 1 .. n /\ (i - 1) * per <= q /\ q < i * per
        <4>1. q \div per \in Nat
          BY <2>5, <3>1, DivFacts
        <4>2. i - 1 = q \div per
          BY <4>1
        <4> QED
          BY <2>3, <2>5, <3>1, <4>2, StretchOf DEF n
      <3> HIDE DEF i
      <3> QED
        BY <2>9, <3>2
    <2>11. ASSUME NEW i \in 1 .. n, NEW j \in 1 .. n, i < j,
                  NEW x \in Members(pieces[i]), NEW y \in Members(pieces[j])
           PROVE  x < y
      <3>1. /\ x \in s .. e - 1 /\ (x \div chunk_len) - first < i * per
            /\ y \in s .. e - 1 /\ (j - 1) * per <= (y \div chunk_len) - first
        BY <2>9
      <3>2. i * per <= (j - 1) * per /\ i * per \in Nat /\ (j - 1) * per \in Nat
        <4>1. i \in Nat /\ j - 1 \in Nat /\ i <= j - 1 /\ per \in Nat
          BY <2>5, <2>11
        <4> QED
          BY <4>1, MulMono
      <3>3. x \div chunk_len < y \div chunk_len
        BY <2>1, <2>8, <3>1, <3>2
      <3>4. (y \div chunk_len) * chunk_len <= y /\ (y \div chunk_len) * chunk_len \in Nat
        BY <1>2, <2>8, <3>1, DivFacts
      <3>5. x < (y \div chunk_len) * chunk_len
        BY <1>2, <2>8, <3>1, <3>3, InChunks
      <3> QED
        BY <3>1, <3>4, <3>5
    <2>12. CutsOnChunks(pieces, s, e, chunk_len)
      <3>1. \A i \in 1 .. n : Members(pieces[i]) \subseteq s .. e - 1
        BY <2>9
      <3>2. \A i \in 1 .. n : \A x \in Members(pieces[i]), y \in s .. e - 1 :
                x \div chunk_len = y \div chunk_len => y \in Members(pieces[i])
        BY <2>9
      <3> HIDE DEF pieces
      <3> QED
        BY <2>7, <2>10, <2>11, <3>1, <3>2 DEF CutsOnChunks
    <2>13. n \in 1 .. Max2(1, target)
      BY <2>4, <2>5 DEF Max2
    <2> HIDE DEF pieces
    <2> QED
      BY <2>7, <2>9, <2>12, <2>13 DEF pieces
  <1> QED
    BY <1>1, <1>2

\* The pieces of a range are ranges.
LEMMA SplitRangeKind ==
    ASSUME NEW s \in Nat, NEW e \in Nat, NEW chunk_len \in Nat, NEW target \in Nat
    PROVE  \A i \in DOMAIN SplitRange(s, e, chunk_len, target) :
              SplitRange(s, e, chunk_len, target)[i] \in RangeSels
  <1> DEFINE pieces == SplitRange(s, e, chunk_len, target)
  <1>1. \A a, b \in Nat : RangeSel(a, b) \in RangeSels
    BY DEF RangeSel, RangeSels
  <1>2. CASE e <= s \/ chunk_len = 0
    <2>1. pieces = <<RangeSel(s, IF e <= s THEN s ELSE e)>>
      BY <1>2 DEF SplitRange
    <2>2. DOMAIN pieces = {1} /\ pieces[1] = RangeSel(s, IF e <= s THEN s ELSE e)
      BY <2>1
    <2> HIDE DEF pieces
    <2>3. \A i \in DOMAIN pieces : pieces[i] \in RangeSels
      BY <1>1, <2>2
    <2> QED
      BY <2>3 DEF pieces
  <1>3. CASE s < e /\ chunk_len # 0
    <2> DEFINE first == s \div chunk_len
               m     == ((e - 1) \div chunk_len) - first + 1
               p     == Max2(1, Min2(target, m))
               per   == DivCeil(m, p)
               n     == DivCeil(m, per)
               lo(i) == Max2((first + (i - 1) * per) * chunk_len, s)
               hi(i) == Min2((first + i * per) * chunk_len, e)
    <2>1. first \in Nat /\ (e - 1) \div chunk_len \in Nat
      BY <1>3, DivFacts
    <2>2. m \in Nat \ {0}
      <3>1. s <= e - 1 /\ e - 1 \in Nat
        BY <1>3
      <3>2. first * chunk_len <= s
        BY <1>3, DivFacts
      <3>3. first * chunk_len <= e - 1
        BY <1>3, <2>1, <3>1, <3>2
      <3>4. first <= (e - 1) \div chunk_len
        BY <1>3, <2>1, <3>1, <3>3, InChunks
      <3> QED
        BY <2>1, <3>4
    <2>3. p \in Nat \ {0}
      BY <2>2 DEF Max2, Min2
    <2>4. per \in Nat \ {0} /\ n \in Nat \ {0}
      BY <2>2, <2>3, PieceCount
    <2>5. pieces = [i \in 1 .. n |-> RangeSel(lo(i), hi(i))]
      BY <1>3 DEF SplitRange
    <2> HIDE DEF first, m, p, per, n
    <2>6. ASSUME NEW i \in 1 .. n PROVE lo(i) \in Nat /\ hi(i) \in Nat
      <3>1. i - 1 \in Nat /\ i \in Nat
        BY <2>4
      <3>2. (i - 1) * per \in Nat /\ i * per \in Nat
        BY <2>4, <3>1
      <3> DEFINE x == first + (i - 1) * per
                 y == first + i * per
      <3>3. x \in Nat /\ y \in Nat
        BY <2>1, <3>2
      <3> HIDE DEF x, y
      <3>4. x * chunk_len \in Nat /\ y * chunk_len \in Nat
        BY <3>3
      <3> QED
        BY <3>4 DEF x, y, Max2, Min2
    <2> HIDE DEF lo, hi, pieces
    <2>7. \A i \in DOMAIN pieces : pieces[i] \in RangeSels
      BY <1>1, <2>5, <2>6
    <2> QED
      BY <2>7 DEF pieces
  <1> QED
    BY <1>2, <1>3

\* The whole axis is cut as the range of all its positions is.
LEMMA PlanIsSplit ==
    ASSUME NEW outer_len \in Nat, NEW chunk_len \in Nat, NEW target \in Nat
    PROVE  PlanPartitions(outer_len, chunk_len, target)
             = SplitRange(0, outer_len, IF chunk_len = 0 THEN outer_len ELSE chunk_len, target)
  <1>1. CASE outer_len = 0
    BY <1>1 DEF PlanPartitions, SplitRange
  <1>2. CASE outer_len # 0
    <2> DEFINE chunk == IF chunk_len = 0 THEN outer_len ELSE chunk_len
               m     == DivCeil(outer_len, chunk)
               per   == DivCeil(m, Max2(1, Min2(target, m)))
               n     == DivCeil(m, per)
    <2>1. chunk \in Nat \ {0}
      BY <1>2
    <2>2. m \in Nat \ {0} /\ m = ((outer_len - 1) \div chunk) + 1
      BY <1>2, <2>1, DivCeilFacts
    <2>3. per \in Nat \ {0} /\ n \in Nat \ {0}
      <3>1. Max2(1, Min2(target, m)) \in Nat \ {0}
        BY <2>2 DEF Max2, Min2
      <3> QED
        BY <2>2, <3>1, PieceCount
    <2>4. 0 \div chunk = 0
      BY <2>1, DivUnique
    <2>5. ((outer_len - 1) \div chunk) - (0 \div chunk) + 1 = m
      <3>1. (outer_len - 1) \div chunk \in Nat
        BY <1>2, <2>1, DivFacts
      <3> HIDE DEF chunk, m
      <3> QED
        BY <2>2, <2>4, <3>1
    <2>6. PlanPartitions(outer_len, chunk_len, target)
            = [i \in 1 .. n |-> RangeSel((i - 1) * per * chunk, Min2(i * per * chunk, outer_len))]
      BY <1>2 DEF PlanPartitions
    <2>7. SplitRange(0, outer_len, chunk, target)
            = [i \in 1 .. n |-> RangeSel(Max2((0 + (i - 1) * per) * chunk, 0),
                                         Min2((0 + i * per) * chunk, outer_len))]
      <3> DEFINE first == 0 \div chunk
                 m2    == ((outer_len - 1) \div chunk) - first + 1
                 per2  == DivCeil(m2, Max2(1, Min2(target, m2)))
      <3>1. SplitRange(0, outer_len, chunk, target)
              = [i \in 1 .. DivCeil(m2, per2) |->
                    RangeSel(Max2((first + (i - 1) * per2) * chunk, 0),
                             Min2((first + i * per2) * chunk, outer_len))]
        BY <1>2, <2>1 DEF SplitRange
      <3>2. first = 0 /\ m2 = m /\ per2 = per
        BY <2>4, <2>5
      <3> HIDE DEF m2, per2, first, m, per, chunk
      <3> QED
        BY <3>1, <3>2
    <2> HIDE DEF n, per, m, chunk
    <2>8. ASSUME NEW i \in 1 .. n
          PROVE  /\ Max2((0 + (i - 1) * per) * chunk, 0) = (i - 1) * per * chunk
                 /\ (0 + i * per) * chunk = i * per * chunk
      <3>1. i - 1 \in Nat /\ i \in Nat
        BY <2>3
      <3>2. (i - 1) * per \in Nat /\ i * per \in Nat
        BY <2>3, <3>1
      <3>3. ((i - 1) * per) * chunk \in Nat
        BY <2>1, <3>2
      <3> QED
        BY <3>2, <3>3 DEF Max2
    <2> QED
      BY <2>6, <2>7, <2>8 DEF chunk
  <1> QED
    BY <1>1, <1>2

\* plan_partitions cuts the whole axis into at least one slice and at most the
\* target, on chunk boundaries only, and loses or doubles no position.
THEOREM PlanPartitionsCuts ==
    ASSUME NEW outer_len \in Nat, NEW chunk_len \in Nat, NEW target \in Nat
    PROVE  LET slices == PlanPartitions(outer_len, chunk_len, target)
           IN /\ \E n \in 1 .. Max2(1, target) : DOMAIN slices = 1 .. n
              /\ \A i \in DOMAIN slices : ~IsIndices(slices[i]) /\ slices[i].lo \in Nat
              /\ CutsOnChunks(slices, 0, outer_len, chunk_len)
  <1> DEFINE slices == PlanPartitions(outer_len, chunk_len, target)
             chunk  == IF chunk_len = 0 THEN outer_len ELSE chunk_len
  <1>1. chunk \in Nat /\ 0 \in Nat
    OBVIOUS
  <1>2. slices = SplitRange(0, outer_len, chunk, target)
    BY PlanIsSplit
  <1> HIDE DEF slices, chunk
  <1>3. /\ \E n \in 1 .. Max2(1, target) : DOMAIN slices = 1 .. n
        /\ \A i \in DOMAIN slices : ~IsIndices(slices[i]) /\ slices[i].lo \in Nat
        /\ CutsOnChunks(slices, 0, outer_len, chunk)
    <2>1. LET pieces == SplitRange(0, outer_len, chunk, target)
          IN /\ \E n \in 1 .. Max2(1, target) : DOMAIN pieces = 1 .. n
             /\ \A i \in DOMAIN pieces : ~IsIndices(pieces[i]) /\ pieces[i].lo \in Nat
             /\ CutsOnChunks(pieces, 0, outer_len, chunk)
      BY <1>1, SplitRangeCuts
    <2> QED
      BY <1>2, <2>1
  <1>4. CutsOnChunks(slices, 0, outer_len, chunk_len)
    BY <1>3 DEF CutsOnChunks, chunk
  <1> QED
    BY <1>3, <1>4 DEF slices

-----------------------------------------------------------------------------
(* Specs for the tasks. *)

\* Tasks with k slots each hold every spec in one slot, and nothing else.
SpecsHaveOneSlot(specs, dist, tasks, k) ==
    /\ DOMAIN dist = 1 .. tasks
    /\ \A t \in 1 .. tasks : DOMAIN dist[t] = 1 .. k
    /\ \E slot \in [DOMAIN specs -> (1 .. tasks) \X (1 .. k)] :
          /\ \A j, l \in DOMAIN specs : slot[j] = slot[l] => j = l
          /\ \A j \in DOMAIN specs : dist[slot[j][1]][slot[j][2]] = specs[j]
          /\ \A t \in 1 .. tasks, i \in 1 .. k :
                (\A j \in DOMAIN specs : slot[j] # <<t, i>>) => dist[t][i] = EmptySpec

\* The remainder is what the quotient leaves.
LEMMA ModFacts ==
    ASSUME NEW a \in Nat, NEW b \in Nat \ {0}
    PROVE  /\ a % b \in 0 .. b - 1
           /\ a = ((a \div b) * b) + (a % b)
  OBVIOUS

\* Where the specs of a task start and how many it has, when each has base and
\* the first rem have one more.
TaskFirst(base, rem, t) == (t - 1) * base + Min2(t - 1, rem)
TaskSize(base, rem, t)  == base + (IF t <= rem THEN 1 ELSE 0)

\* One of the tasks has spec j.
HasTask(base, rem, tasks, j) ==
    \E t \in 1 .. tasks : \E i \in Nat \ {0} :
        i <= TaskSize(base, rem, t) /\ TaskFirst(base, rem, t) + i = j

\* Every spec has a task.
LEMMA TaskOf ==
    ASSUME NEW base \in Nat, NEW tasks \in Nat \ {0}, NEW rem \in 0 .. tasks - 1,
           NEW x \in Nat, x < base * tasks + rem
    PROVE  HasTask(base, rem, tasks, x + 1)
  <1> USE DEF TaskFirst, TaskSize, HasTask
  <1>1. CASE x < rem * (base + 1)
    <2> DEFINE q == x \div (base + 1)
               i == x - q * (base + 1) + 1
    <2>0. base + 1 \in Nat \ {0}
      OBVIOUS
    <2>1. q \in Nat /\ q * (base + 1) <= x /\ x < (q + 1) * (base + 1)
      BY <2>0, DivFacts
    <2>2. q < rem
      BY <1>1, <2>0, InChunks
    <2> HIDE DEF q
    <2>3. q * (base + 1) = q * base + q /\ (q + 1) * (base + 1) = q * base + q + base + 1
          /\ q * base \in Nat
      BY <2>1
    <2>4. /\ q + 1 \in 1 .. tasks /\ i \in Nat \ {0} /\ q + 1 <= rem
          /\ i <= base + 1
          /\ q * base + q + i = x + 1
      BY <2>1, <2>2, <2>3
    <2>5. (q + 1) - 1 = q /\ Min2(q, rem) = q
      BY <2>1, <2>2 DEF Min2
    <2> HIDE DEF i
    <2> QED
      BY <2>4, <2>5
  <1>2. CASE rem * (base + 1) <= x
    <2> DEFINE y == x - rem * (base + 1)
    <2>1. rem * (base + 1) = rem * base + rem /\ rem * base \in Nat
      OBVIOUS
    <2>2. y \in Nat /\ y + rem * base + rem = x
      BY <1>2, <2>1
    <2> HIDE DEF y
    <2>3. base * tasks = rem * base + (tasks - rem) * base /\ (tasks - rem) * base \in Nat
      OBVIOUS
    <2>4. y < (tasks - rem) * base
      BY <2>1, <2>2, <2>3
    <2>5. base # 0
      BY <2>2, <2>4
    <2> DEFINE q == y \div base
               i == y - q * base + 1
    <2>6. q \in Nat /\ q * base <= y /\ y < (q + 1) * base /\ q < tasks - rem
      BY <2>2, <2>4, <2>5, DivFacts, InChunks
    <2> HIDE DEF q
    <2>7. /\ (q + 1) * base = q * base + base /\ q * base \in Nat
          /\ (rem + q) * base = rem * base + q * base
      BY <2>6
    <2>8. /\ rem + q + 1 \in 1 .. tasks /\ i \in Nat \ {0} /\ i <= base
          /\ ~(rem + q + 1 <= rem)
          /\ (rem + q) * base + rem + i = x + 1
      BY <2>1, <2>2, <2>6, <2>7
    <2>9. (rem + q + 1) - 1 = rem + q /\ Min2(rem + q, rem) = rem
      BY <2>6 DEF Min2
    <2> HIDE DEF i
    <2> QED
      BY <2>8, <2>9
  <1> QED
    BY <1>1, <1>2

\* The specs of a task come before those of the next.
LEMMA TasksInOrder ==
    ASSUME NEW base \in Nat, NEW rem \in Nat, NEW t \in Nat \ {0}, NEW u \in Nat, t < u
    PROVE  TaskFirst(base, rem, t) + TaskSize(base, rem, t) <= TaskFirst(base, rem, u)
  <1>1. t * base <= (u - 1) * base
    BY MulMono
  <1>2. (t - 1) * base = t * base - base /\ t * base \in Nat /\ (u - 1) * base \in Nat
    OBVIOUS
  <1> QED
    BY <1>1, <1>2 DEF Min2, TaskFirst, TaskSize

\* The head gives every spec to one task, in one slot, and pads the tasks to the
\* same number of slots with specs that read nothing.
THEOREM SpecsDistributed ==
    ASSUME NEW S, NEW specs \in Seq(S), NEW task_count \in Nat
    PROVE  \E k \in Nat :
              SpecsHaveOneSlot(specs, DistributeSpecsAcrossTasks(specs, task_count),
                               Max2(1, task_count), k)
  <1> DEFINE tasks    == Max2(1, task_count)
             base     == Len(specs) \div tasks
             rem      == Len(specs) % tasks
             k        == IF rem > 0 THEN base + 1 ELSE base
             First(t) == TaskFirst(base, rem, t)
             Size(t)  == TaskSize(base, rem, t)
             dist     == DistributeSpecsAcrossTasks(specs, task_count)
  <1>1. tasks \in Nat \ {0} /\ Len(specs) \in Nat /\ DOMAIN specs = 1 .. Len(specs)
    BY DEF Max2
  <1> HIDE DEF tasks
  <1>2. base \in Nat /\ rem \in 0 .. tasks - 1 /\ Len(specs) = base * tasks + rem
    BY <1>1, DivFacts, ModFacts
  <1>3. dist = [t \in 1 .. tasks |-> [i \in 1 .. k |->
                   IF i <= Size(t) THEN specs[First(t) + i] ELSE EmptySpec]]
    BY DEF DistributeSpecsAcrossTasks, tasks, TaskFirst, TaskSize
  <1> HIDE DEF base, rem
  <1>4. k \in Nat /\ \A t \in 1 .. tasks : Size(t) \in 0 .. k /\ First(t) \in Nat
    <2>1. k \in Nat
      BY <1>2
    <2>2. ASSUME NEW t \in 1 .. tasks PROVE Size(t) \in 0 .. k /\ First(t) \in Nat
      <3>1. t - 1 \in Nat /\ (t - 1) * base \in Nat
        BY <1>1, <1>2
      <3> QED
        BY <1>1, <1>2, <3>1 DEF Min2, TaskFirst, TaskSize
    <2> QED
      BY <2>1, <2>2
  <1>5. ASSUME NEW j \in DOMAIN specs
        PROVE  \E t \in 1 .. tasks : \E i \in 1 .. k : i <= Size(t) /\ First(t) + i = j
    <2>1. PICK x \in Nat : x + 1 = j /\ x < base * tasks + rem
      <3>1. j - 1 \in Nat /\ (j - 1) + 1 = j /\ j - 1 < base * tasks + rem
        BY <1>1, <1>2
      <3> QED
        BY <3>1
    <2>3. PICK t \in 1 .. tasks, i \in Nat \ {0} : i <= Size(t) /\ First(t) + i = x + 1
      <3>1. tasks \in Nat \ {0} /\ base \in Nat /\ rem \in 0 .. tasks - 1
        BY <1>1, <1>2
      <3>2. x < base * tasks + rem
        BY <2>1
      <3>3. HasTask(base, rem, tasks, x + 1)
        BY <3>1, <3>2, TaskOf
      <3> QED
        BY <3>3 DEF HasTask
    <2>4. i \in 1 .. k
      BY <1>4, <2>3
    <2> QED
      BY <2>1, <2>3, <2>4
  <1>6. ASSUME NEW t \in 1 .. tasks, NEW u \in 1 .. tasks, t < u
        PROVE  First(t) + Size(t) <= First(u)
    <2>1. t \in Nat \ {0} /\ u \in Nat /\ rem \in Nat
      BY <1>1, <1>2
    <2> QED
      BY <1>2, <1>6, <2>1, TasksInOrder
  <1> HIDE DEF First, Size, k, dist
  <1>7. ASSUME NEW t \in 1 .. tasks, NEW u \in 1 .. tasks,
               NEW i \in 1 .. k, NEW j \in 1 .. k,
               i <= Size(t), j <= Size(u), First(t) + i = First(u) + j
        PROVE  t = u /\ i = j
    <2>1. ~(t < u) /\ ~(u < t)
      BY <1>4, <1>6, <1>7
    <2>2. t = u
      BY <2>1, <1>1
    <2> QED
      BY <1>4, <1>7, <2>2
  <1>8. ASSUME NEW t \in 1 .. tasks, NEW i \in 1 .. k, i <= Size(t)
        PROVE  First(t) + i \in DOMAIN specs
    <2>1. First(t) + Size(t) <= Len(specs)
      <3>1. PICK u \in Nat : u - 1 = tasks /\ t < u
        <4>1. tasks + 1 \in Nat /\ (tasks + 1) - 1 = tasks /\ t < tasks + 1
          BY <1>1
        <4> QED
          BY <4>1
      <3>2. First(t) + Size(t) <= TaskFirst(base, rem, u)
        <4>1. t \in Nat \ {0} /\ rem \in Nat
          BY <1>1, <1>2
        <4> QED
          BY <1>2, <3>1, <4>1, TasksInOrder DEF First, Size
      <3>3. TaskFirst(base, rem, u) = base * tasks + rem
        <4>1. tasks * base = base * tasks /\ Min2(tasks, rem) = rem
          BY <1>1, <1>2 DEF Min2
        <4> QED
          BY <3>1, <4>1 DEF TaskFirst
      <3> QED
        BY <1>2, <3>2, <3>3
    <2> QED
      BY <1>1, <1>4, <1>8, <2>1
  <1> DEFINE Slots(j) == {ti \in (1 .. tasks) \X (1 .. k) :
                             ti[2] <= Size(ti[1]) /\ First(ti[1]) + ti[2] = j}
             slot     == [j \in DOMAIN specs |-> CHOOSE ti \in Slots(j) : TRUE]
  <1>9. ASSUME NEW j \in DOMAIN specs PROVE slot[j] \in Slots(j)
    <2>1. PICK t \in 1 .. tasks, i \in 1 .. k : i <= Size(t) /\ First(t) + i = j
      BY <1>5
    <2>2. <<t, i>> \in Slots(j)
      BY <2>1
    <2> QED
      BY <2>2
  <1> HIDE DEF slot
  <1>10. slot \in [DOMAIN specs -> (1 .. tasks) \X (1 .. k)]
    BY <1>9 DEF slot
  <1>11. \A j, l \in DOMAIN specs : slot[j] = slot[l] => j = l
    BY <1>9
  <1>12. \A j \in DOMAIN specs : dist[slot[j][1]][slot[j][2]] = specs[j]
    BY <1>3, <1>9, <1>10
  <1>13. ASSUME NEW t \in 1 .. tasks, NEW i \in 1 .. k,
                \A j \in DOMAIN specs : slot[j] # <<t, i>>
         PROVE  dist[t][i] = EmptySpec
    <2>1. ASSUME i <= Size(t) PROVE FALSE
      <3> DEFINE j == First(t) + i
      <3>1. j \in DOMAIN specs /\ slot[j] \in Slots(j)
        BY <1>8, <1>9, <2>1
      <3>2. slot[j] = <<slot[j][1], slot[j][2]>>
        BY <3>1
      <3>3. slot[j][1] = t /\ slot[j][2] = i
        BY <1>7, <2>1, <3>1
      <3> QED
        BY <1>13, <3>1, <3>2, <3>3
    <2> QED
      BY <1>3, <2>1
  <1>14. DOMAIN dist = 1 .. tasks /\ \A t \in 1 .. tasks : DOMAIN dist[t] = 1 .. k
    BY <1>3
  <1>15. SpecsHaveOneSlot(specs, dist, tasks, k)
    BY <1>10, <1>11, <1>12, <1>13, <1>14 DEF SpecsHaveOneSlot
  <1> QED
    BY <1>4, <1>15 DEF dist, tasks

-----------------------------------------------------------------------------
(* The cuts of an index list. *)

\* What packing turns: the state after each group.
IsPacking(f, n, groups, p, per) ==
    f = [gi \in 0 .. n |-> IF gi = 0 THEN [out |-> <<>>, cur |-> <<>>]
                           ELSE PackGroup(f[gi - 1], groups, gi, p, per)]

\* The turns of the packing loop are well defined.
LEMMA PackingExists ==
    ASSUME NEW groups, NEW p, NEW per, NEW n \in Nat
    PROVE  \E f : IsPacking(f, n, groups, p, per)
  <1> DEFINE Bad == {m \in Nat : ~ \E f : IsPacking(f, m, groups, p, per)}
  <1>1. \E f : IsPacking(f, 0, groups, p, per)
    <2> DEFINE f == [gi \in 0 .. 0 |-> [out |-> <<>>, cur |-> <<>>]]
    <2>1. 0 .. 0 = {0}
      OBVIOUS
    <2>2. f = [gi \in 0 .. 0 |-> IF gi = 0 THEN [out |-> <<>>, cur |-> <<>>]
                                 ELSE PackGroup(f[gi - 1], groups, gi, p, per)]
      BY <2>1
    <2> QED
      BY <2>2 DEF IsPacking
  <1>2. ASSUME NEW m \in Nat, NEW f, IsPacking(f, m, groups, p, per)
        PROVE  \E g : IsPacking(g, m + 1, groups, p, per)
    <2> DEFINE Turn(h, gi) == IF gi = 0 THEN [out |-> <<>>, cur |-> <<>>]
                              ELSE PackGroup(h[gi - 1], groups, gi, p, per)
               g == [gi \in 0 .. m + 1 |-> IF gi = m + 1 THEN PackGroup(f[m], groups, m + 1, p, per)
                                           ELSE f[gi]]
    <2>1. \A gi \in 0 .. m : f[gi] = Turn(f, gi)
      <3>1. f = [gi \in 0 .. m |-> Turn(f, gi)]
        BY <1>2 DEF IsPacking
      <3> QED
        BY <3>1
    <2>2. ASSUME NEW gi \in 0 .. m + 1 PROVE g[gi] = Turn(g, gi)
      <3>1. CASE gi = m + 1
        <4>1. g[gi] = PackGroup(f[m], groups, gi, p, per)
          BY <3>1
        <4>2. gi # 0 /\ gi - 1 = m /\ m \in 0 .. m + 1 /\ m # m + 1
          BY <3>1
        <4>3. g[gi - 1] = f[m]
          BY <4>2
        <4> HIDE DEF g
        <4> QED
          BY <4>1, <4>2, <4>3
      <3>2. CASE gi # m + 1 /\ gi # 0
        <4>1. gi \in 0 .. m /\ gi - 1 \in 0 .. m + 1 /\ gi - 1 # m + 1
          BY <3>2
        <4>2. g[gi] = f[gi] /\ g[gi - 1] = f[gi - 1]
          BY <3>2, <4>1
        <4>3. f[gi] = PackGroup(f[gi - 1], groups, gi, p, per)
          BY <2>1, <3>2, <4>1
        <4> HIDE DEF g
        <4> QED
          BY <3>2, <4>2, <4>3
      <3>3. CASE gi = 0
        <4>1. g[0] = f[0] /\ 0 \in 0 .. m
          OBVIOUS
        <4>2. f[0] = Turn(f, 0)
          BY <2>1, <4>1
        <4> HIDE DEF g
        <4> QED
          BY <3>3, <4>1, <4>2
      <3> QED
        BY <3>1, <3>2, <3>3
    <2>3. g = [gi \in 0 .. m + 1 |-> Turn(g, gi)]
      <3>1. g = [gi \in 0 .. m + 1 |-> g[gi]]
        OBVIOUS
      <3> HIDE DEF g, Turn
      <3> QED
        BY <2>2, <3>1
    <2>4. IsPacking(g, m + 1, groups, p, per)
      BY <2>3 DEF IsPacking
    <2> QED
      BY <2>4
  <1>3. Bad = {}
    <2> SUFFICES ASSUME Bad # {} PROVE FALSE
      OBVIOUS
    <2>1. PICK m \in Bad : \A l \in Bad : m <= l
      BY LeastNat
    <2>2. m # 0
      BY <1>1
    <2>3. m - 1 \in Nat /\ m - 1 \notin Bad /\ (m - 1) + 1 = m
      BY <2>1, <2>2
    <2>4. PICK f : IsPacking(f, m - 1, groups, p, per)
      BY <2>3
    <2>5. \E g : IsPacking(g, (m - 1) + 1, groups, p, per)
      BY <1>2, <2>3, <2>4
    <2> QED
      BY <2>3, <2>5
  <1> QED
    BY <1>3

\* The packing is the last turn of the loop, with the partition still open.
LEMMA PackGroupsIs ==
    ASSUME NEW groups, NEW p, NEW per, Len(groups) \in Nat
    PROVE  \E f : /\ IsPacking(f, Len(groups), groups, p, per)
                  /\ PackGroups(groups, p, per)
                       = IF f[Len(groups)].cur = <<>> THEN f[Len(groups)].out
                         ELSE Append(f[Len(groups)].out, f[Len(groups)].cur)
  <1> DEFINE f == CHOOSE f : IsPacking(f, Len(groups), groups, p, per)
  <1>1. IsPacking(f, Len(groups), groups, p, per)
    BY PackingExists
  <1>2. PackGroups(groups, p, per)
          = IF f[Len(groups)].cur = <<>> THEN f[Len(groups)].out
            ELSE Append(f[Len(groups)].out, f[Len(groups)].cur)
    BY DEF PackGroups, IsPacking
  <1> QED
    BY <1>1, <1>2

\* Pieces, at most m of them, that hold the positions in S between them and in
\* the order of their chunks, of length c, and are selections of the kinds K.
CutOf(pieces, S, c, m, K) ==
    /\ \E n \in 1 .. m : DOMAIN pieces = 1 .. n
    /\ \A i \in DOMAIN pieces : pieces[i] \in K
    /\ \A i \in DOMAIN pieces : Members(pieces[i]) \subseteq S
    /\ \A x \in S : \E i \in DOMAIN pieces : x \in Members(pieces[i])
    /\ \A i, j \in DOMAIN pieces : i < j =>
          \A x \in Members(pieces[i]), y \in Members(pieces[j]) : x \div c < y \div c

\* The packing has taken the chunks up to k: what it has taken is in the closed
\* partitions or in the one being filled, in ascending order and in the order of
\* the chunks.
PackedTo(st, at, c, k, p) ==
    /\ st \in [out : Seq(Seq(Nat)), cur : Seq(Nat)]
    /\ Ascends(st.cur) /\ \A i \in DOMAIN st.out : Ascends(st.out[i])
    /\ Len(st.out) < p
    /\ \A i \in DOMAIN st.out : \A x \in Ran(st.out[i]) : x \in at /\ x \div c <= k
    /\ \A x \in Ran(st.cur) : x \in at /\ x \div c <= k
    /\ \A x \in at : x \div c <= k =>
          x \in Ran(st.cur) \/ \E i \in DOMAIN st.out : x \in Ran(st.out[i])
    /\ \A i, j \in DOMAIN st.out : i < j =>
          \A x \in Ran(st.out[i]), y \in Ran(st.out[j]) : x \div c < y \div c
    /\ \A i \in DOMAIN st.out : \A x \in Ran(st.out[i]), y \in Ran(st.cur) : x \div c < y \div c

\* Where an appended sequence holds what.
LEMMA AppendAt ==
    ASSUME NEW S, NEW s \in Seq(S), NEW x \in S
    PROVE  /\ Append(s, x) \in Seq(S)
           /\ Len(s) \in Nat /\ DOMAIN s = 1 .. Len(s) /\ Len(Append(s, x)) = Len(s) + 1
           /\ DOMAIN Append(s, x) = 1 .. Len(s) + 1
           /\ \A i \in DOMAIN s : Append(s, x)[i] = s[i]
           /\ Append(s, x)[Len(s) + 1] = x
  <1>1. Append(s, x) \in Seq(S) /\ Len(Append(s, x)) = Len(s) + 1
    BY AppendProperties
  <1>2. DOMAIN Append(s, x) = 1 .. Len(Append(s, x)) /\ DOMAIN s = 1 .. Len(s) /\ Len(s) \in Nat
    BY <1>1, LenProperties
  <1> QED
    BY <1>1, <1>2, AppendProperties

\* The next chunk after k that holds positions is id, and the group has them.
NextGroup(g, at, c, k, id) ==
    /\ k < id /\ \A x \in at : x \div c <= k \/ x \div c >= id
    /\ g \in Seq(Nat) /\ Ascends(g) /\ Ran(g) = {x \in at : x \div c = id}

\* Ascending lists, one after the other.
LEMMA ConcatAscends ==
    ASSUME NEW s \in Seq(Nat), NEW t \in Seq(Nat), Ascends(s), Ascends(t),
           \A x \in Ran(s), y \in Ran(t) : x < y
    PROVE  Ascends(s \o t)
  <1> DEFINE u == s \o t
             m == Len(s)
             n == Len(t)
  <1>1. /\ m \in Nat /\ n \in Nat /\ DOMAIN s = 1 .. m /\ DOMAIN t = 1 .. n
        /\ u \in Seq(Nat) /\ Len(u) = m + n
        /\ \A i \in 1 .. m + n : u[i] = IF i <= m THEN s[i] ELSE t[i - m]
    BY LenProperties, ConcatProperties
  <1>2. DOMAIN u = 1 .. m + n
    BY <1>1, LenProperties
  <1> HIDE DEF u, m, n
  <1> SUFFICES ASSUME NEW j \in 1 .. m + n, NEW k \in 1 .. m + n, j < k
               PROVE  u[j] < u[k]
    BY <1>2 DEF Ascends, u
  <1>3. CASE k <= m
    <2>1. j \in 1 .. m /\ k \in 1 .. m /\ j <= m
      BY <1>1, <1>3
    <2> QED
      BY <1>1, <1>3, <2>1 DEF Ascends
  <1>4. CASE j > m
    <2>1. j - m \in 1 .. n /\ k - m \in 1 .. n /\ ~(j <= m) /\ ~(k <= m) /\ j - m < k - m
      BY <1>1, <1>4
    <2>2. u[j] = t[j - m] /\ u[k] = t[k - m]
      BY <1>1, <2>1
    <2> QED
      BY <1>1, <2>1, <2>2 DEF Ascends
  <1>5. CASE j <= m /\ k > m
    <2>1. j \in 1 .. m /\ k - m \in 1 .. n /\ ~(k <= m)
      BY <1>1, <1>5
    <2>2. u[j] = s[j] /\ u[k] = t[k - m]
      BY <1>1, <1>5, <2>1
    <2>3. s[j] \in Ran(s) /\ t[k - m] \in Ran(t)
      BY <1>1, <2>1 DEF Ran
    <2> QED
      BY <2>2, <2>3
  <1> QED
    BY <1>1, <1>3, <1>4, <1>5

\* One more group, of the next chunk that holds something.
LEMMA PackGroupStep ==
    ASSUME NEW at, NEW c \in Nat \ {0}, at \subseteq Nat,
           NEW k \in Int, NEW id \in Nat, NEW p \in Nat, NEW per, NEW groups, NEW gi,
           NextGroup(groups[gi], at, c, k, id),
           NEW st, PackedTo(st, at, c, k, p)
    PROVE  PackedTo(PackGroup(st, groups, gi, p, per), at, c, id, p)
  <1> DEFINE Ch(x) == x \div c
             out == st.out
             g   == groups[gi]
             held == st.cur
             cur == held \o g
             new == PackGroup(st, groups, gi, p, per)
  <1>1. /\ out \in Seq(Seq(Nat)) /\ held \in Seq(Nat) /\ Len(out) < p
        /\ Ascends(held) /\ \A i \in DOMAIN out : Ascends(out[i])
        /\ \A i \in DOMAIN out : \A x \in Ran(out[i]) : x \in at /\ Ch(x) <= k
        /\ \A x \in Ran(held) : x \in at /\ Ch(x) <= k
        /\ \A x \in at : Ch(x) <= k =>
              x \in Ran(held) \/ \E i \in DOMAIN out : x \in Ran(out[i])
        /\ \A i, j \in DOMAIN out : i < j =>
              \A x \in Ran(out[i]), y \in Ran(out[j]) : Ch(x) < Ch(y)
        /\ \A i \in DOMAIN out : \A x \in Ran(out[i]), y \in Ran(held) : Ch(x) < Ch(y)
    BY DEF PackedTo
  <1>0. g \in Seq(Nat) /\ Ascends(g) /\ Ran(g) = {x \in at : Ch(x) = id}
        /\ k < id /\ \A x \in at : Ch(x) <= k \/ Ch(x) >= id
    BY DEF NextGroup
  <1> HIDE DEF out, g, held
  <1>2. cur \in Seq(Nat) /\ Ran(cur) = Ran(held) \cup Ran(g)
    <2>1. g \in Seq(Nat) /\ held \in Seq(Nat)
      BY <1>0, <1>1
    <2>2. (held \o g) \in Seq(Nat) /\ Ran(held \o g) = Ran(held) \cup Ran(g)
      BY <2>1, ConcatRan
    <2> QED
      BY <2>2
  <1>3. \A x \in at : Ch(x) \in Nat
    <2>1. ASSUME NEW x \in at PROVE Ch(x) \in Nat
      <3>1. x \in Nat
        OBVIOUS
      <3> QED
        BY <3>1, DivFacts
    <2> QED
      BY <2>1
  <1>a. Ascends(cur)
    <2>1. ASSUME NEW x \in Ran(held), NEW y \in Ran(g) PROVE x < y
      <3>1. x \in at /\ y \in at /\ x \in Nat /\ y \in Nat /\ Ch(x) <= k /\ Ch(y) = id
        BY <1>0, <1>1
      <3>2. Ch(x) \in Nat /\ Ch(y) \in Nat /\ Ch(x) < Ch(y)
        <4> HIDE DEF Ch
        <4>1. Ch(x) \in Nat /\ Ch(y) \in Nat
          BY <1>3, <3>1
        <4> QED
          BY <1>0, <3>1, <4>1
      <3>3. Ch(x) + 1 <= Ch(y)
        <4> HIDE DEF Ch
        <4> QED
          BY <3>2
      <3>4. x < (Ch(x) + 1) * c /\ Ch(y) * c <= y
        BY <3>1, DivFacts
      <3>5. (Ch(x) + 1) * c <= Ch(y) * c
        <4> HIDE DEF Ch
        <4>1. Ch(x) + 1 \in Nat
          BY <3>2
        <4> QED
          BY <3>2, <3>3, <4>1, MulMono
      <3> DEFINE a == (Ch(x) + 1) * c
                 b == Ch(y) * c
      <3>6. a \in Nat /\ b \in Nat
        <4> HIDE DEF Ch
        <4> QED
          BY <3>2
      <3>7. x < a /\ a <= b /\ b <= y
        BY <3>4, <3>5
      <3> HIDE DEF a, b
      <3> QED
        BY <3>1, <3>6, <3>7
    <2> HIDE DEF Ch
    <2> QED
      BY <1>0, <1>1, <2>1, ConcatAscends
  <1>4. \/ new = [out |-> Append(out, cur), cur |-> <<>>] /\ Len(out) + 1 < p
        \/ new = [out |-> out, cur |-> cur]
    BY DEF PackGroup, out, g, held
  <1> HIDE DEF Ch, cur, new
  <1>5. \A x \in Ran(cur) : x \in at /\ Ch(x) <= id
    <2>1. ASSUME NEW x \in at, Ch(x) <= k PROVE Ch(x) <= id
      BY <1>0, <1>3, <2>1
    <2> QED
      BY <1>0, <1>1, <1>2, <1>3, <2>1
  <1>6. \A i \in DOMAIN out : \A x \in Ran(out[i]) : x \in at /\ Ch(x) <= id
    <2>1. ASSUME NEW x \in at, Ch(x) <= k PROVE Ch(x) <= id
      BY <1>0, <1>3, <2>1
    <2> QED
      BY <1>1, <2>1
  <1>7. \A x \in at : Ch(x) <= id =>
              x \in Ran(cur) \/ \E i \in DOMAIN out : x \in Ran(out[i])
    <2> SUFFICES ASSUME NEW x \in at, Ch(x) <= id
                 PROVE  x \in Ran(cur) \/ \E i \in DOMAIN out : x \in Ran(out[i])
      OBVIOUS
    <2>1. Ch(x) <= k \/ Ch(x) = id
      <3>1. Ch(x) \in Nat /\ (Ch(x) <= k \/ Ch(x) >= id)
        BY <1>0, <1>3
      <3> QED
        BY <3>1
    <2> QED
      BY <1>0, <1>1, <1>2, <2>1
  <1>8. \A i \in DOMAIN out : \A x \in Ran(out[i]), y \in Ran(cur) : Ch(x) < Ch(y)
    <2> SUFFICES ASSUME NEW i \in DOMAIN out, NEW x \in Ran(out[i]), NEW y \in Ran(cur)
                 PROVE  Ch(x) < Ch(y)
      OBVIOUS
    <2>1. CASE y \in Ran(held)
      BY <1>1, <2>1
    <2>2. CASE y \in Ran(g)
      <3>1. x \in at /\ Ch(x) <= k
        BY <1>1
      <3>2. Ch(y) = id /\ Ch(x) \in Nat
        BY <1>0, <1>3, <2>2, <3>1
      <3> QED
        BY <1>0, <3>1, <3>2
    <2> QED
      BY <1>2, <2>1, <2>2
  <1>9. CASE new = [out |-> out, cur |-> cur]
    <2>1. new.out = out /\ new.cur = cur /\ new \in [out : Seq(Seq(Nat)), cur : Seq(Nat)]
      BY <1>1, <1>2, <1>9
    <2> QED
      BY <1>1, <1>a, <1>5, <1>6, <1>7, <1>8, <2>1 DEF PackedTo, new, Ch
  <1>10. CASE new = [out |-> Append(out, cur), cur |-> <<>>] /\ Len(out) + 1 < p
    <2> DEFINE more == Append(out, cur)
               n    == Len(out)
    <2>1. /\ more \in Seq(Seq(Nat)) /\ n \in Nat /\ DOMAIN out = 1 .. n /\ Len(more) = n + 1
          /\ DOMAIN more = 1 .. n + 1
          /\ \A i \in 1 .. n : more[i] = out[i]
          /\ more[n + 1] = cur
      BY <1>1, <1>2, AppendAt
    <2>2. Ran(<<>>) = {} /\ <<>> \in Seq(Nat)
      BY ShortRan
    <2>3. /\ new.out = more /\ new.cur = <<>> /\ new \in [out : Seq(Seq(Nat)), cur : Seq(Nat)]
      BY <1>10, <2>1, <2>2
    <2>4. Len(more) < p
      BY <1>10, <2>1
    <2> HIDE DEF more, n
    <2>5. \A i \in DOMAIN more : (i \in DOMAIN out /\ more[i] = out[i]) \/ (i = n + 1 /\ more[i] = cur)
      <3> SUFFICES ASSUME NEW i \in 1 .. n + 1
                   PROVE  (i \in 1 .. n /\ more[i] = out[i]) \/ (i = n + 1 /\ more[i] = cur)
        BY <2>1
      <3>1. i \in 1 .. n \/ i = n + 1
        BY <2>1
      <3> QED
        BY <2>1, <3>1
    <2>6. \A i \in DOMAIN more : \A x \in Ran(more[i]) : x \in at /\ Ch(x) <= id
      BY <1>5, <1>6, <2>5
    <2>7. \A x \in at : Ch(x) <= id => \E i \in DOMAIN more : x \in Ran(more[i])
      <3> SUFFICES ASSUME NEW x \in at, Ch(x) <= id
                   PROVE  \E i \in DOMAIN more : x \in Ran(more[i])
        OBVIOUS
      <3>1. CASE x \in Ran(cur)
        <4>1. n + 1 \in DOMAIN more
          BY <2>1
        <4> QED
          BY <2>1, <3>1, <4>1
      <3>2. ASSUME NEW i \in DOMAIN out, x \in Ran(out[i]) PROVE \E j \in DOMAIN more : x \in Ran(more[j])
        <4>1. i \in DOMAIN more /\ more[i] = out[i]
          BY <2>1, <3>2
        <4> QED
          BY <3>2, <4>1
      <3> QED
        BY <1>7, <3>1, <3>2
    <2>8. ASSUME NEW i \in DOMAIN more, NEW j \in DOMAIN more, i < j,
                 NEW x \in Ran(more[i]), NEW y \in Ran(more[j])
          PROVE  Ch(x) < Ch(y)
      <3>1. i \in DOMAIN out /\ more[i] = out[i]
        BY <2>1, <2>8
      <3>2. CASE j \in DOMAIN out /\ more[j] = out[j]
        BY <1>1, <2>8, <3>1, <3>2
      <3>3. CASE more[j] = cur
        BY <1>8, <2>8, <3>1, <3>3
      <3> QED
        BY <2>5, <3>2, <3>3
    <2>9. \A i \in DOMAIN more : \A x \in Ran(more[i]), y \in Ran(<<>>) : Ch(x) < Ch(y)
      BY <2>2
    <2>10. \A x \in Ran(<<>>) : x \in at /\ Ch(x) <= id
      BY <2>2
    <2>11. Ascends(<<>>) /\ \A i \in DOMAIN more : Ascends(more[i])
      <3>1. Ascends(<<>>)
        BY DEF Ascends
      <3> QED
        BY <1>1, <1>a, <2>5, <3>1
    <2> QED
      BY <2>11, <2>3, <2>4, <2>6, <2>7, <2>8, <2>9, <2>10 DEF PackedTo, new, Ch
  <1> QED
    BY <1>4, <1>9, <1>10

\* The elements of a sequence are finitely many, and so are their chunks.
LEMMA RanFinite ==
    ASSUME NEW v \in Seq(Nat), NEW c \in Nat \ {0}
    PROVE  /\ Ran(v) \subseteq Nat /\ IsFiniteSet(Ran(v))
           /\ {x \div c : x \in Ran(v)} \subseteq Nat /\ IsFiniteSet({x \div c : x \in Ran(v)})
  <1>1. Len(v) \in Nat /\ DOMAIN v = 1 .. Len(v) /\ v \in [1 .. Len(v) -> Nat]
    BY LenProperties
  <1>2. Ran(v) \subseteq Nat /\ v \in Surjection(1 .. Len(v), Ran(v))
    BY <1>1 DEF Ran, Surjection
  <1>3. IsFiniteSet(Ran(v))
    BY <1>1, <1>2, FS_Interval, FS_Surjection
  <1> DEFINE at == Ran(v)
             T  == {x \div c : x \in at}
             f  == [x \in at |-> x \div c]
  <1> HIDE DEF at
  <1>4. f \in Surjection(at, T)
    BY DEF Surjection
  <1>5. IsFiniteSet(T)
    <2> HIDE DEF f, T
    <2> QED
      BY <1>3, <1>4, FS_Surjection DEF at
  <1>6. T \subseteq Nat
    <2>1. ASSUME NEW x \in at PROVE x \div c \in Nat
      <3>1. x \in Nat
        BY <1>2 DEF at
      <3> QED
        BY <3>1, DivFacts
    <2> QED
      BY <2>1
  <1> QED
    BY <1>2, <1>3, <1>5, <1>6 DEF at

\* The groups of a list of positions, and the chunks they are of.
GroupsOf(groups, ids, n, at, c) ==
    /\ groups \in Seq(Seq(Nat)) /\ Len(groups) = n
    /\ ids \in [1 .. n -> Nat]
    /\ \A g \in 1 .. n : Ascends(groups[g]) /\ Ran(groups[g]) = {x \in at : x \div c = ids[g]}
    /\ \A g, h \in 1 .. n : g < h => ids[g] < ids[h]
    /\ \A x \in at : \E g \in 1 .. n : x \div c = ids[g]
    /\ \A g \in 1 .. n : \E x \in at : x \div c = ids[g]

\* The chunk groups of a list are its positions, chunk by chunk.
LEMMA GroupsFacts ==
    ASSUME NEW v \in Seq(Nat), NEW c \in Nat \ {0}
    PROVE  \E n \in Nat : \E ids : GroupsOf(ChunkGroups(v, c), ids, n, Ran(v), c)
  <1> DEFINE at  == Ran(v)
             T   == {x \div c : x \in at}
             ids == Sorted(T)
             n   == Cardinality(T)
             groups == ChunkGroups(v, c)
             Part(g) == {x \in at : x \div c = ids[g]}
  <1>1. /\ at \subseteq Nat /\ IsFiniteSet(at) /\ T \subseteq Nat /\ IsFiniteSet(T)
    BY RanFinite
  <1>2. groups = [g \in DOMAIN ids |-> Sorted(Part(g))]
    BY DEF ChunkGroups, Ran
  <1>3. (\A x \in at : x \div c \in T) /\ \A t \in T : \E x \in at : x \div c = t
    OBVIOUS
  <1> HIDE DEF at, T
  <1>4. /\ n \in Nat /\ ids \in [1 .. n -> T]
        /\ \A x \in T : \E k \in 1 .. n : ids[k] = x
        /\ \A j, k \in 1 .. n : j < k => ids[j] < ids[k]
    BY <1>1, SortedFacts
  <1> HIDE DEF n, ids, groups
  <1>5. ASSUME NEW g \in 1 .. n
        PROVE  /\ Sorted(Part(g)) \in Seq(Nat) /\ Ran(Sorted(Part(g))) = Part(g)
               /\ Ascends(Sorted(Part(g)))
    <2> DEFINE P == Part(g)
               m == Cardinality(P)
    <2>1. P \subseteq Nat /\ IsFiniteSet(P)
      <3>1. P \in SUBSET at
        OBVIOUS
      <3> HIDE DEF P
      <3> QED
        BY <1>1, <3>1, FS_Subset
    <2> HIDE DEF P
    <2>2. /\ m \in Nat /\ Sorted(P) \in [1 .. m -> P] /\ \A x \in P : \E k \in 1 .. m : Sorted(P)[k] = x
          /\ \A j, k \in 1 .. m : j < k => Sorted(P)[j] < Sorted(P)[k]
      BY <2>1, SortedFacts
    <2>3. Sorted(P) \in [1 .. m -> Nat] /\ DOMAIN Sorted(P) = 1 .. m
      BY <2>1, <2>2
    <2>4. Sorted(P) \in Seq(Nat)
      BY <2>2, <2>3, FunIsSeq
    <2>5. Ran(Sorted(P)) = P
      BY <2>2, <2>3 DEF Ran
    <2>6. Ascends(Sorted(P))
      BY <2>2, <2>3 DEF Ascends
    <2> QED
      BY <2>4, <2>5, <2>6 DEF P
  <1>6. DOMAIN ids = 1 .. n
    BY <1>4
  <1> HIDE DEF Part
  <1>7. groups \in [1 .. n -> Seq(Nat)] /\ \A g \in 1 .. n : groups[g] = Sorted(Part(g))
    BY <1>2, <1>5, <1>6
  <1>8. groups \in Seq(Seq(Nat)) /\ Len(groups) = n
    BY <1>4, <1>7, FunIsSeq
  <1>9. ids \in [1 .. n -> Nat]
    BY <1>1, <1>4
  <1>10. \A g \in 1 .. n : Ascends(groups[g]) /\ Ran(groups[g]) = {x \in at : x \div c = ids[g]}
    BY <1>5, <1>7 DEF Part
  <1>11. \A x \in at : \E g \in 1 .. n : x \div c = ids[g]
    BY <1>3, <1>4
  <1>12. \A g \in 1 .. n : \E x \in at : x \div c = ids[g]
    BY <1>3, <1>4
  <1>13. GroupsOf(groups, ids, n, at, c)
    BY <1>4, <1>8, <1>9, <1>10, <1>11, <1>12 DEF GroupsOf
  <1> QED
    BY <1>4, <1>13 DEF groups, at

\* Packing the groups cuts the list on chunk boundaries, into at most p pieces.
LEMMA PackGroupsCut ==
    ASSUME NEW at, at \subseteq Nat, at # {}, NEW c \in Nat \ {0}, NEW n \in Nat, NEW groups, NEW ids,
           GroupsOf(groups, ids, n, at, c), NEW p \in Nat \ {0}, NEW per
    PROVE  LET pieces == PackGroups(groups, p, per)
           IN /\ pieces \in Seq(Seq(Nat)) /\ Len(pieces) \in 1 .. p
              /\ \A i \in DOMAIN pieces : Ascends(pieces[i]) /\ Ran(pieces[i]) \subseteq at
              /\ \A x \in at : \E i \in DOMAIN pieces : x \in Ran(pieces[i])
              /\ \A i, j \in DOMAIN pieces : i < j =>
                    \A x \in Ran(pieces[i]), y \in Ran(pieces[j]) : x \div c < y \div c
  <1> DEFINE LastMembers(gi) == IF gi = 0 THEN -1 ELSE ids[gi]
  <1>1. /\ groups \in Seq(Seq(Nat)) /\ Len(groups) = n /\ DOMAIN groups = 1 .. n
        /\ ids \in [1 .. n -> Nat]
        /\ \A g \in 1 .. n : /\ groups[g] \in Seq(Nat) /\ Ascends(groups[g])
                              /\ Ran(groups[g]) = {x \in at : x \div c = ids[g]}
        /\ \A g, h \in 1 .. n : g < h => ids[g] < ids[h]
        /\ \A x \in at : \E g \in 1 .. n : x \div c = ids[g]
    BY LenProperties, ElementOfSeq DEF GroupsOf
  <1>0. /\ \A g \in 1 .. n : ids[g] \in Nat
        /\ \A g, h \in 1 .. n : g < h => ids[g] < ids[h]
    BY <1>1
  <1>2. PICK f : /\ IsPacking(f, n, groups, p, per)
                 /\ PackGroups(groups, p, per)
                       = IF f[n].cur = <<>> THEN f[n].out ELSE Append(f[n].out, f[n].cur)
    <2>1. Len(groups) \in Nat
      BY <1>1
    <2> QED
      BY <1>1, <2>1, PackGroupsIs
  <1>3. \A gi \in 0 .. n : f[gi] = IF gi = 0 THEN [out |-> <<>>, cur |-> <<>>]
                                   ELSE PackGroup(f[gi - 1], groups, gi, p, per)
    <2>1. f = [gi \in 0 .. n |-> IF gi = 0 THEN [out |-> <<>>, cur |-> <<>>]
                                 ELSE PackGroup(f[gi - 1], groups, gi, p, per)]
      BY <1>2 DEF IsPacking
    <2> QED
      BY <2>1
  <1>4. PackedTo(f[0], at, c, -1, p)
    <2>1. f[0] = [out |-> <<>>, cur |-> <<>>]
      BY <1>3
    <2>2. <<>> \in Seq(Seq(Nat)) /\ <<>> \in Seq(Nat) /\ Len(<<>>) = 0 /\ DOMAIN <<>> = {} /\ Ran(<<>>) = {}
      BY ShortRan, EmptySeq
    <2>3. \A x \in at : ~(x \div c <= -1)
      <3>1. ASSUME NEW x \in at PROVE ~(x \div c <= -1)
        <4>1. x \div c \in Nat
          BY DivFacts
        <4> QED
          BY <4>1
      <3> QED
        BY <3>1
    <2>4. f[0].out = <<>> /\ f[0].cur = <<>> /\ f[0] \in [out : Seq(Seq(Nat)), cur : Seq(Nat)]
      BY <2>1, <2>2
    <2>5. Ascends(<<>>)
      BY DEF Ascends
    <2> QED
      BY <2>2, <2>3, <2>4, <2>5 DEF PackedTo
  <1>5. ASSUME NEW gi \in 0 .. n, gi # 0, PackedTo(f[gi - 1], at, c, LastMembers(gi - 1), p)
        PROVE  PackedTo(f[gi], at, c, LastMembers(gi), p)
    <2>0. gi \in 1 .. n /\ gi - 1 \in 0 .. n /\ LastMembers(gi) = ids[gi]
      BY <1>5
    <2>1. /\ gi \in 1 .. n /\ gi - 1 \in 0 .. n /\ LastMembers(gi) = ids[gi] /\ ids[gi] \in Nat
          /\ f[gi] = PackGroup(f[gi - 1], groups, gi, p, per)
      BY <1>0, <1>3, <1>5, <2>0
    <2>2. LastMembers(gi - 1) \in Int /\ LastMembers(gi - 1) < ids[gi]
      <3>1. CASE gi - 1 = 0
        BY <2>1, <3>1
      <3>2. CASE gi - 1 # 0
        <4>1. gi - 1 \in 1 .. n /\ gi - 1 < gi /\ LastMembers(gi - 1) = ids[gi - 1]
          BY <2>1, <3>2
        <4> QED
          BY <1>1, <2>1, <4>1
      <3> QED
        BY <3>1, <3>2
    <2>3. ASSUME NEW x \in at PROVE x \div c <= LastMembers(gi - 1) \/ x \div c >= ids[gi]
      <3>1. PICK g \in 1 .. n : x \div c = ids[g]
        BY <1>1
      <3>2. ids[g] <= LastMembers(gi - 1) \/ ids[g] >= ids[gi]
        <4>1. CASE g < gi
          <5>1. gi - 1 \in 1 .. n /\ LastMembers(gi - 1) = ids[gi - 1] /\ (g = gi - 1 \/ g < gi - 1)
            BY <2>1, <4>1
          <5>2. ids[gi - 1] \in Nat /\ ids[g] \in Nat
            BY <1>0, <5>1
          <5>3. ids[g] <= ids[gi - 1]
            BY <1>0, <5>1, <5>2
          <5> QED
            BY <5>1, <5>3
        <4>2. CASE gi < g
          <5>1. ids[gi] < ids[g] /\ ids[gi] \in Nat /\ ids[g] \in Nat
            BY <1>0, <2>1, <4>2
          <5> QED
            BY <5>1
        <4>3. CASE gi = g
          BY <2>1, <4>3
        <4> QED
          BY <2>1, <4>1, <4>2, <4>3
      <3> QED
        BY <3>1, <3>2
    <2>4. NextGroup(groups[gi], at, c, LastMembers(gi - 1), ids[gi])
      BY <1>1, <2>1, <2>2, <2>3 DEF NextGroup
    <2> HIDE DEF LastMembers
    <2>5. PackedTo(PackGroup(f[gi - 1], groups, gi, p, per), at, c, ids[gi], p)
      BY <1>5, <2>1, <2>2, <2>4, PackGroupStep
    <2> QED
      BY <2>1, <2>5
  <1>6. PackedTo(f[n], at, c, LastMembers(n), p)
    <2> DEFINE Bad == {gi \in 0 .. n : ~PackedTo(f[gi], at, c, LastMembers(gi), p)}
    <2>1. Bad # {} => \E gi \in Bad : \A h \in Bad : gi <= h
      <3>1. Bad \subseteq Nat
        OBVIOUS
      <3> HIDE DEF Bad
      <3> QED
        BY <3>1, LeastNat
    <2>2. ASSUME NEW gi \in Bad, \A h \in Bad : gi <= h PROVE FALSE
      <3>1. gi # 0
        BY <1>4, <2>2
      <3>2. gi - 1 \in 0 .. n /\ gi - 1 \notin Bad
        BY <2>2, <3>1
      <3> QED
        BY <1>5, <2>2, <3>1, <3>2
    <2> QED
      BY <2>1, <2>2
  <1> DEFINE out == f[n].out
             cur == f[n].cur
  <1>7. n # 0 /\ LastMembers(n) = ids[n]
    <2>1. PICK x \in at : TRUE
      OBVIOUS
    <2>2. PICK g \in 1 .. n : x \div c = ids[g]
      BY <1>1
    <2>3. n # 0
      BY <2>2
    <2> QED
      BY <2>3
  <1>8. \A x \in at : x \div c <= ids[n]
    <2>1. ASSUME NEW x \in at PROVE x \div c <= ids[n]
      <3>1. PICK g \in 1 .. n : x \div c = ids[g]
        BY <1>1
      <3>2. n \in 1 .. n /\ (g = n \/ g < n)
        BY <1>7
      <3>3. ids[n] \in Nat /\ ids[g] \in Nat
        BY <1>0, <3>2
      <3>4. ids[g] <= ids[n]
        BY <1>0, <3>2, <3>3
      <3> QED
        BY <3>1, <3>4
    <2> QED
      BY <2>1
  <1> HIDE DEF LastMembers
  <1>9. /\ out \in Seq(Seq(Nat)) /\ cur \in Seq(Nat) /\ Len(out) < p
        /\ \A i \in DOMAIN out : Ascends(out[i]) /\ Ran(out[i]) \subseteq at
        /\ Ascends(cur) /\ Ran(cur) \subseteq at
        /\ \A x \in at : x \in Ran(cur) \/ \E i \in DOMAIN out : x \in Ran(out[i])
        /\ \A i, j \in DOMAIN out : i < j =>
              \A x \in Ran(out[i]), y \in Ran(out[j]) : x \div c < y \div c
        /\ \A i \in DOMAIN out : \A x \in Ran(out[i]), y \in Ran(cur) : x \div c < y \div c
    BY <1>6, <1>7, <1>8 DEF PackedTo
  <1> HIDE DEF out, cur
  <1>10. CASE cur = <<>>
    <2>1. PackGroups(groups, p, per) = out
      BY <1>2, <1>10 DEF out, cur
    <2>2. Ran(cur) = {}
      BY <1>10, ShortRan
    <2>3. Len(out) \in Nat /\ DOMAIN out = 1 .. Len(out)
      BY <1>9, LenProperties
    <2>4. Len(out) # 0
      <3>1. PICK x \in at : TRUE
        OBVIOUS
      <3>2. PICK i \in DOMAIN out : x \in Ran(out[i])
        BY <1>9, <2>2
      <3> QED
        BY <2>3, <3>2
    <2>5. Len(out) \in 1 .. p
      BY <1>9, <2>3, <2>4
    <2> QED
      BY <1>9, <2>1, <2>2, <2>5
  <1>11. CASE cur # <<>>
    <2> DEFINE more == Append(out, cur)
               m    == Len(out)
    <2>1. PackGroups(groups, p, per) = more
      BY <1>2, <1>11 DEF out, cur
    <2>2. /\ more \in Seq(Seq(Nat)) /\ m \in Nat /\ DOMAIN out = 1 .. m /\ Len(more) = m + 1
          /\ DOMAIN more = 1 .. m + 1
          /\ \A i \in 1 .. m : more[i] = out[i]
          /\ more[m + 1] = cur
      BY <1>9, AppendAt
    <2>3. m < p
      BY <1>9
    <2> HIDE DEF more, m
    <2>4. \A i \in DOMAIN more : (i \in DOMAIN out /\ more[i] = out[i]) \/ (i = m + 1 /\ more[i] = cur)
      <3> SUFFICES ASSUME NEW i \in 1 .. m + 1
                   PROVE  (i \in 1 .. m /\ more[i] = out[i]) \/ (i = m + 1 /\ more[i] = cur)
        BY <2>2
      <3>1. i \in 1 .. m \/ i = m + 1
        BY <2>2
      <3> QED
        BY <2>2, <3>1
    <2>5. \A x \in at : \E i \in DOMAIN more : x \in Ran(more[i])
      <3> SUFFICES ASSUME NEW x \in at PROVE \E i \in DOMAIN more : x \in Ran(more[i])
        OBVIOUS
      <3>1. CASE x \in Ran(cur)
        <4>1. m + 1 \in DOMAIN more
          BY <2>2
        <4> QED
          BY <2>2, <3>1, <4>1
      <3>2. ASSUME NEW i \in DOMAIN out, x \in Ran(out[i]) PROVE \E j \in DOMAIN more : x \in Ran(more[j])
        <4>1. i \in DOMAIN more /\ more[i] = out[i]
          BY <2>2, <3>2
        <4> QED
          BY <3>2, <4>1
      <3> QED
        BY <1>9, <3>1, <3>2
    <2>6. ASSUME NEW i \in DOMAIN more, NEW j \in DOMAIN more, i < j,
                 NEW x \in Ran(more[i]), NEW y \in Ran(more[j])
          PROVE  x \div c < y \div c
      <3>1. i \in DOMAIN out /\ more[i] = out[i]
        BY <2>2, <2>6
      <3>2. CASE j \in DOMAIN out /\ more[j] = out[j]
        BY <1>9, <2>6, <3>1, <3>2
      <3>3. CASE more[j] = cur
        BY <1>9, <2>6, <3>1, <3>3
      <3> QED
        BY <2>4, <3>2, <3>3
    <2>7. Len(more) \in 1 .. p
      BY <2>2, <2>3
    <2>8. \A i \in DOMAIN more : Ascends(more[i]) /\ Ran(more[i]) \subseteq at
      BY <1>9, <2>4
    <2> QED
      BY <2>1, <2>2, <2>5, <2>6, <2>7, <2>8
  <1> QED
    BY <1>10, <1>11

\* split_indices: the surviving positions of a filter are cut, for any list of
\* them, on chunk boundaries only; each is in exactly one piece, the pieces are in
\* the order of their chunks, and there are at most the target of them.
THEOREM SplitIndicesCuts ==
    ASSUME NEW v \in Seq(Nat), NEW chunk_len \in Nat, NEW target \in Nat
    PROVE  CutOf(SplitSelection(IndicesSel(v), chunk_len, target), Ran(v),
                 Max2(1, chunk_len), Max2(1, target), ListSels)
  <1> DEFINE pieces == SplitIndices(v, chunk_len, target)
             c      == Max2(1, chunk_len)
             sels   == SplitSelection(IndicesSel(v), chunk_len, target)
  <1>1. c \in Nat \ {0} /\ c = IF chunk_len = 0 THEN 1 ELSE chunk_len
    BY DEF Max2
  <1>2. sels = [i \in DOMAIN pieces |-> IndicesSel(pieces[i])]
    BY DEF SplitSelection, IsIndices, IndicesSel
  <1> HIDE DEF c
  <1>3. /\ pieces \in Seq(Seq(Nat)) /\ Len(pieces) \in 1 .. Max2(1, target)
        /\ \A i \in DOMAIN pieces : Ascends(pieces[i]) /\ Ran(pieces[i]) \subseteq Ran(v)
        /\ \A x \in Ran(v) : \E i \in DOMAIN pieces : x \in Ran(pieces[i])
        /\ \A i, j \in DOMAIN pieces : i < j =>
              \A x \in Ran(pieces[i]), y \in Ran(pieces[j]) : x \div c < y \div c
    <2>1. CASE v = <<>>
      <3>1. pieces = << <<>> >>
        BY <2>1 DEF SplitIndices
      <3>2. <<>> \in Seq(Nat) /\ Ran(<<>>) = {}
        BY ShortRan
      <3>3. pieces \in Seq(Seq(Nat)) /\ Len(pieces) = 1 /\ DOMAIN pieces = {1} /\ pieces[1] = <<>>
        BY <3>1, <3>2
      <3>4. 1 \in 1 .. Max2(1, target) /\ Ascends(<<>>)
        BY DEF Max2, Ascends
      <3> HIDE DEF pieces
      <3> QED
        BY <2>1, <3>2, <3>3, <3>4
    <2>2. CASE v # <<>>
      <3> DEFINE groups == ChunkGroups(v, c)
                 p      == Max2(1, Min2(target, Len(groups)))
                 per    == DivCeil(Len(v), p)
      <3>1. pieces = PackGroups(groups, p, per)
        BY <1>1, <2>2 DEF SplitIndices
      <3>2. PICK n \in Nat : \E ids : GroupsOf(groups, ids, n, Ran(v), c)
        BY <1>1, GroupsFacts
      <3>g. PICK ids : GroupsOf(groups, ids, n, Ran(v), c)
        BY <3>2
      <3>3. p \in Nat \ {0} /\ p <= Max2(1, target)
        <4>1. Len(groups) \in Nat
          BY <3>g DEF GroupsOf
        <4> HIDE DEF groups
        <4> QED
          BY <4>1 DEF Max2, Min2
      <3>4. Ran(v) \subseteq Nat /\ Ran(v) # {}
        <4>1. Ran(v) \subseteq Nat
          BY <1>1, RanFinite
        <4>2. Len(v) \in Nat \ {0} /\ DOMAIN v = 1 .. Len(v)
          BY <2>2, EmptySeq, LenProperties
        <4>3. 1 \in DOMAIN v
          BY <4>2
        <4> QED
          BY <4>1, <4>3 DEF Ran
      <3> DEFINE at == Ran(v)
      <3> HIDE DEF groups, p, per, pieces, at
      <3>5. /\ pieces \in Seq(Seq(Nat)) /\ Len(pieces) \in 1 .. p
            /\ \A i \in DOMAIN pieces : Ascends(pieces[i]) /\ Ran(pieces[i]) \subseteq at
            /\ \A x \in at : \E i \in DOMAIN pieces : x \in Ran(pieces[i])
            /\ \A i, j \in DOMAIN pieces : i < j =>
                  \A x \in Ran(pieces[i]), y \in Ran(pieces[j]) : x \div c < y \div c
        <4>1. at \subseteq Nat /\ at # {} /\ GroupsOf(groups, ids, n, at, c)
          BY <3>g, <3>4 DEF at
        <4> QED
          <5>1. LET q == PackGroups(groups, p, per)
                IN /\ q \in Seq(Seq(Nat)) /\ Len(q) \in 1 .. p
                   /\ \A i \in DOMAIN q : Ascends(q[i]) /\ Ran(q[i]) \subseteq at
                   /\ \A x \in at : \E i \in DOMAIN q : x \in Ran(q[i])
                   /\ \A i, j \in DOMAIN q : i < j =>
                         \A x \in Ran(q[i]), y \in Ran(q[j]) : x \div c < y \div c
            <6>1. at \subseteq Nat
              BY <4>1
            <6>2. at # {}
              BY <4>1
            <6>3. GroupsOf(groups, ids, n, at, c)
              BY <4>1
            <6>4. c \in Nat \ {0}
              BY <1>1
            <6>5. p \in Nat \ {0}
              BY <3>3
            <6> QED
              BY <6>1, <6>2, <6>3, <6>4, <6>5, PackGroupsCut
          <5> QED
            BY <3>1, <5>1, Zenon
      <3>6. Len(pieces) \in 1 .. Max2(1, target)
        BY <3>3, <3>5 DEF Max2
      <3> QED
        BY <3>5, <3>6 DEF at
    <2> QED
      BY <2>1, <2>2
  <1>4. DOMAIN pieces = 1 .. Len(pieces)
    BY <1>3, LenProperties
  <1> HIDE DEF pieces, sels
  <1>5. DOMAIN sels = DOMAIN pieces /\ \A i \in DOMAIN pieces : Members(sels[i]) = Ran(pieces[i])
    BY <1>2 DEF Members, Ran, IsIndices, IndicesSel
  <1> DEFINE at == Ran(v)
             m  == Max2(1, target)
             n  == Len(pieces)
  <1>6. n \in 1 .. m /\ DOMAIN sels = 1 .. n
    BY <1>3, <1>4, <1>5
  <1>7. /\ \A i \in DOMAIN sels : Members(sels[i]) \subseteq at
        /\ \A x \in at : \E i \in DOMAIN sels : x \in Members(sels[i])
    BY <1>3, <1>5
  <1>8. \A i, j \in DOMAIN sels : i < j =>
           \A x \in Members(sels[i]), y \in Members(sels[j]) : x \div c < y \div c
    <2> SUFFICES ASSUME NEW i \in DOMAIN sels, NEW j \in DOMAIN sels, i < j,
                        NEW x \in Members(sels[i]), NEW y \in Members(sels[j])
                 PROVE  x \div c < y \div c
      BY Zenon
    <2>1. i \in DOMAIN pieces /\ j \in DOMAIN pieces /\ x \in Ran(pieces[i]) /\ y \in Ran(pieces[j])
      BY <1>5
    <2> QED
      BY <1>3, <2>1, Zenon
  <1>k. \A i \in DOMAIN sels : sels[i] \in ListSels
    <2> SUFFICES ASSUME NEW i \in DOMAIN pieces PROVE IndicesSel(pieces[i]) \in ListSels
      BY <1>2
    <2>1. pieces[i] \in Seq(Nat) /\ Ascends(pieces[i])
      BY <1>3, <1>4
    <2> QED
      BY <2>1 DEF ListSels
  <1> HIDE DEF at, m, n
  <1>9. CutOf(sels, at, c, m, ListSels)
    BY <1>k, <1>6, <1>7, <1>8 DEF CutOf
  <1> QED
    BY <1>9 DEF at, m, c, sels

\* A cut of a range is in the order of the chunks.
LEMMA CutsAreCuts ==
    ASSUME NEW s \in Nat, NEW e \in Nat, NEW chunk_len \in Nat, NEW m \in Nat, NEW pieces,
           \E n \in 1 .. m : DOMAIN pieces = 1 .. n,
           CutsOnChunks(pieces, s, e, chunk_len), NEW K, \A i \in DOMAIN pieces : pieces[i] \in K
    PROVE  CutOf(pieces, s .. e - 1, Max2(1, chunk_len), m, K)
  <1> DEFINE c == Max2(1, chunk_len)
  <1>1. c \in Nat \ {0} /\ (chunk_len # 0 => c = chunk_len) /\ (chunk_len = 0 => c = 1)
    BY DEF Max2
  <1>2. ASSUME NEW i \in DOMAIN pieces, NEW j \in DOMAIN pieces, i < j,
               NEW x \in Members(pieces[i]), NEW y \in Members(pieces[j])
        PROVE  x \div c < y \div c
    <2>1. x \in s .. e - 1 /\ y \in s .. e - 1 /\ x < y
      BY <1>2 DEF CutsOnChunks
    <2>2. x \in Nat /\ y \in Nat
      BY <2>1
    <2>3. x \div c \in Nat /\ y \div c \in Nat /\ y < ((y \div c) + 1) * c
      BY <1>1, <2>2, DivFacts
    <2>4. x \div c < (y \div c) + 1
      <3>1. x < ((y \div c) + 1) * c /\ (y \div c) + 1 \in Nat /\ ((y \div c) + 1) * c \in Nat
        <4> DEFINE z == ((y \div c) + 1) * c
        <4>1. z \in Nat /\ y < z
          BY <1>1, <2>3
        <4> HIDE DEF z
        <4>2. x < z
          BY <2>1, <2>2, <4>1
        <4> QED
          BY <2>3, <4>1, <4>2 DEF z
      <3> QED
        BY <1>1, <2>2, <3>1, InChunks
    <2>5. x \div c # y \div c
      <3>1. CASE chunk_len = 0
        <4>1. x \div 1 = x /\ y \div 1 = y
          BY <2>2
        <4> QED
          BY <1>1, <2>1, <2>2, <3>1, <4>1
      <3>2. CASE chunk_len # 0
        <4>1. x \div chunk_len = y \div chunk_len => y \in Members(pieces[i])
          BY <2>1, <3>2 DEF CutsOnChunks
        <4>2. y \in Members(pieces[i]) => y < y
          BY <1>2 DEF CutsOnChunks
        <4> QED
          <5>1. ~(y < y)
            BY <2>2
          <5>2. c = chunk_len
            BY <1>1, <3>2
          <5> HIDE DEF c
          <5> QED
            BY <4>1, <4>2, <5>1, <5>2
      <3> QED
        BY <3>1, <3>2
    <2> HIDE DEF c
    <2> QED
      BY <2>3, <2>4, <2>5
  <1> HIDE DEF c
  <1>3. /\ \A i \in DOMAIN pieces : Members(pieces[i]) \subseteq s .. e - 1
        /\ \A x \in s .. e - 1 : \E i \in DOMAIN pieces : x \in Members(pieces[i])
    BY DEF CutsOnChunks
  <1> QED
    BY <1>2, <1>3 DEF CutOf, c

\* The cut of a surviving range, in chunks.
LEMMA RangeCutOf ==
    ASSUME NEW s \in Nat, NEW e \in Nat, NEW chunk_len \in Nat, NEW target \in Nat
    PROVE  CutOf(SplitRange(s, e, chunk_len, target), s .. e - 1, Max2(1, chunk_len), Max2(1, target),
                 RangeSels)
  <1> DEFINE pieces == SplitRange(s, e, chunk_len, target)
  <1>1. /\ \E n \in 1 .. Max2(1, target) : DOMAIN pieces = 1 .. n
        /\ CutsOnChunks(pieces, s, e, chunk_len)
    <2>1. LET cut == SplitRange(s, e, chunk_len, target)
          IN /\ \E n \in 1 .. Max2(1, target) : DOMAIN cut = 1 .. n
             /\ \A i \in DOMAIN cut : ~IsIndices(cut[i]) /\ cut[i].lo \in Nat
             /\ CutsOnChunks(cut, s, e, chunk_len)
      BY SplitRangeCuts
    <2> QED
      BY <2>1
  <1>2. Max2(1, target) \in Nat /\ \A i \in DOMAIN pieces : pieces[i] \in RangeSels
    BY SplitRangeKind DEF Max2
  <1> HIDE DEF pieces
  <1>3. CutOf(pieces, s .. e - 1, Max2(1, chunk_len), Max2(1, target), RangeSels)
    BY <1>1, <1>2, CutsAreCuts
  <1> QED
    BY <1>3 DEF pieces

\* The cut of a whole axis, in chunks.
LEMMA PlanCutOf ==
    ASSUME NEW outer_len \in Nat, NEW chunk_len \in Nat, NEW target \in Nat
    PROVE  CutOf(PlanPartitions(outer_len, chunk_len, target), 0 .. outer_len - 1,
                 Max2(1, chunk_len), Max2(1, target), RangeSels)
  <1> DEFINE slices == PlanPartitions(outer_len, chunk_len, target)
  <1>1. /\ \E n \in 1 .. Max2(1, target) : DOMAIN slices = 1 .. n
        /\ CutsOnChunks(slices, 0, outer_len, chunk_len)
    BY PlanPartitionsCuts
  <1>2. /\ Max2(1, target) \in Nat /\ 0 \in Nat
        /\ \A i \in DOMAIN slices : slices[i] \in RangeSels
    <2> DEFINE chunk == IF chunk_len = 0 THEN outer_len ELSE chunk_len
    <2>1. slices = SplitRange(0, outer_len, chunk, target) /\ chunk \in Nat /\ 0 \in Nat
      BY PlanIsSplit
    <2> HIDE DEF slices, chunk
    <2> QED
      BY <2>1, SplitRangeKind DEF Max2
  <1> HIDE DEF slices
  <1>3. CutOf(slices, 0 .. outer_len - 1, Max2(1, chunk_len), Max2(1, target), RangeSels)
    BY <1>1, <1>2, CutsAreCuts
  <1> QED
    BY <1>3 DEF slices

-----------------------------------------------------------------------------
(* Loops. *)

\* What holds at 0 and is kept from each number to the next holds up to n.
LEMMA Upward ==
    ASSUME NEW n \in Nat, NEW T, 0 \in T, \A k \in 1 .. n : k - 1 \in T => k \in T
    PROVE  \A k \in 0 .. n : k \in T
  <1> DEFINE F == {k \in 0 .. n : k \notin T}
  <1> SUFFICES ASSUME F # {} PROVE FALSE
    OBVIOUS
  <1>1. PICK k \in F : \A j \in F : k <= j
    <2>1. F \subseteq Nat
      OBVIOUS
    <2> HIDE DEF F
    <2> QED
      BY <2>1, LeastNat
  <1>2. k \in 1 .. n /\ k \notin T
    OBVIOUS
  <1>3. k - 1 \in 0 .. n /\ ~(k <= k - 1)
    BY <1>2
  <1>4. k - 1 \in T
    BY <1>1, <1>3
  <1> QED
    BY <1>2, <1>4

\* A loop variable: its first value, and each turn made from the one before.
IsLoop(f, n, S, a, h) ==
    f \in [0 .. n -> S] /\ f[0] = a /\ \A k \in 1 .. n : f[k] = h[<<k, f[k - 1]>>]

\* It has a value at each turn.
LEMMA Iterates ==
    ASSUME NEW n \in Nat, NEW S, NEW a \in S, NEW h \in [(1 .. n) \X S -> S]
    PROVE  \E f : IsLoop(f, n, S, a, h)
  <1> DEFINE Runs(f, m) == f \in [0 .. m -> S] /\ f[0] = a /\ \A k \in 1 .. m : f[k] = h[<<k, f[k - 1]>>]
             T == {m \in 0 .. n : \E f : Runs(f, m)}
  <1>1. 0 \in T
    <2> DEFINE f == [i \in 0 .. 0 |-> a]
    <2>1. Runs(f, 0)
      OBVIOUS
    <2>2. \E g : Runs(g, 0)
      BY <2>1
    <2> QED
      BY <2>2
  <1>2. ASSUME NEW m \in 1 .. n, m - 1 \in T PROVE m \in T
    <2>1. PICK f : Runs(f, m - 1)
      BY <1>2
    <2> DEFINE x == h[<<m, f[m - 1]>>]
               g == [i \in 0 .. m |-> IF i = m THEN x ELSE f[i]]
    <2>2. m - 1 \in 0 .. m - 1 /\ f[m - 1] \in S
      BY <2>1
    <2>3. x \in S
      BY <2>2
    <2>4. g \in [0 .. m -> S]
      BY <2>1, <2>3
    <2>5. g[0] = a
      BY <2>1
    <2>6. ASSUME NEW k \in 1 .. m PROVE g[k] = h[<<k, g[k - 1]>>]
      <3>1. g[k - 1] = f[k - 1]
        OBVIOUS
      <3>2. CASE k = m
        <4>1. g[k] = x /\ f[k - 1] = f[m - 1]
          BY <3>2
        <4> HIDE DEF g
        <4> QED
          BY <3>1, <3>2, <4>1
      <3>3. CASE k # m
        <4>1. k \in 1 .. m - 1 /\ g[k] = f[k]
          BY <3>3
        <4>2. f[k] = h[<<k, f[k - 1]>>]
          BY <2>1, <4>1
        <4> QED
          BY <3>1, <4>1, <4>2
      <3> QED
        BY <3>2, <3>3
    <2> HIDE DEF g
    <2>7. Runs(g, m)
      BY <2>4, <2>5, <2>6
    <2> HIDE DEF Runs
    <2> QED
      BY <2>7
  <1> HIDE DEF Runs
  <1>3. \A k \in 0 .. n : k \in T
    <2> HIDE DEF T
    <2> QED
      BY <1>1, <1>2, Upward
  <1>4. PICK f : Runs(f, n)
    BY <1>3
  <1> QED
    BY <1>4 DEF Runs, IsLoop

\* Product of the entries of s after position i.
LEMMA ProductFacts ==
    ASSUME NEW n \in Nat, NEW s \in [1 .. n -> Nat]
    PROVE  /\ \A i \in 0 .. n : ProductAfter(s, i) \in Nat
           /\ ProductAfter(s, n) = 1
           /\ \A i \in 1 .. n : ProductAfter(s, i - 1) = s[i] * ProductAfter(s, i)
           /\ Product(s) = ProductAfter(s, 0)
  <1>1. Len(s) = n
    BY FunIsSeq
  <1> DEFINE IsProd(f) == f = [k \in 0 .. n |-> IF k = 0 THEN 1 ELSE s[n + 1 - k] * f[k - 1]]
             h == [kx \in (1 .. n) \X Nat |-> s[n + 1 - kx[1]] * kx[2]]
  <1>2. h \in [(1 .. n) \X Nat -> Nat]
    <2> SUFFICES ASSUME NEW kx \in (1 .. n) \X Nat PROVE s[n + 1 - kx[1]] * kx[2] \in Nat
      OBVIOUS
    <2>1. kx[1] \in 1 .. n /\ kx[2] \in Nat /\ n + 1 - kx[1] \in 1 .. n
      OBVIOUS
    <2> QED
      BY <2>1
  <1>3. PICK g \in [0 .. n -> Nat] : g[0] = 1 /\ \A k \in 1 .. n : g[k] = h[<<k, g[k - 1]>>]
    <2> HIDE DEF h
    <2>1. 1 \in Nat
      OBVIOUS
    <2>2. \E g : IsLoop(g, n, Nat, 1, h)
      BY <1>2, <2>1, Iterates
    <2> QED
      BY <2>2 DEF IsLoop
  <1>4. ASSUME NEW k \in 1 .. n PROVE g[k] = s[n + 1 - k] * g[k - 1]
    <2>1. <<k, g[k - 1]>> \in (1 .. n) \X Nat
      BY <1>3
    <2> QED
      BY <1>3, <2>1
  <1> HIDE DEF h
  <1>5. IsProd(g)
    <2>1. g = [k \in 0 .. n |-> g[k]]
      BY <1>3
    <2>2. \A k \in 0 .. n : g[k] = IF k = 0 THEN 1 ELSE s[n + 1 - k] * g[k - 1]
      BY <1>3, <1>4
    <2> QED
      BY <2>1, <2>2
  <1> DEFINE f == CHOOSE p : IsProd(p)
  <1>6. IsProd(f)
    BY <1>5
  <1>7. \A i : ProductAfter(s, i) = f[n - i]
    BY <1>1 DEF ProductAfter
  <1> HIDE DEF f
  <1>8. f[0] = 1 /\ \A k \in 1 .. n : f[k] = s[n + 1 - k] * f[k - 1]
    BY <1>6
  <1> HIDE DEF IsProd
  <1>9. \A k \in 0 .. n : f[k] \in Nat
    <2> DEFINE T == {k \in 0 .. n : f[k] \in Nat}
    <2>1. 0 \in T
      BY <1>8
    <2>2. ASSUME NEW k \in 1 .. n, k - 1 \in T PROVE k \in T
      <3>1. s[n + 1 - k] \in Nat /\ f[k - 1] \in Nat
        BY <2>2
      <3>2. s[n + 1 - k] * f[k - 1] \in Nat
        BY <3>1
      <3> QED
        BY <1>8, <3>2
    <2>3. \A k \in 0 .. n : k \in T
      <3> HIDE DEF T
      <3> QED
        BY <2>1, <2>2, Upward
    <2> QED
      BY <2>3
  <1>10. \A i \in 0 .. n : ProductAfter(s, i) \in Nat
    <2> SUFFICES ASSUME NEW i \in 0 .. n PROVE ProductAfter(s, i) \in Nat
      OBVIOUS
    <2>1. n - i \in 0 .. n
      OBVIOUS
    <2> QED
      BY <1>7, <1>9, <2>1
  <1>11. ProductAfter(s, n) = 1
    BY <1>7, <1>8
  <1>12. ASSUME NEW i \in 1 .. n PROVE ProductAfter(s, i - 1) = s[i] * ProductAfter(s, i)
    <2>1. n + 1 - i \in 1 .. n /\ n + 1 - (n + 1 - i) = i /\ (n + 1 - i) - 1 = n - i /\ n - (i - 1) = n + 1 - i
      OBVIOUS
    <2>2. f[n + 1 - i] = s[i] * f[n - i]
      BY <1>8, <2>1
    <2> QED
      BY <1>7, <2>1, <2>2
  <1> QED
    BY <1>10, <1>11, <1>12 DEF Product

\* Entries with a product that is not zero are not zero.
LEMMA ProductPositive ==
    ASSUME NEW n \in Nat, NEW s \in [1 .. n -> Nat], ProductAfter(s, 0) # 0
    PROVE  /\ \A i \in 0 .. n : ProductAfter(s, i) \in Nat \ {0}
           /\ \A i \in 1 .. n : s[i] \in Nat \ {0}
  <1> DEFINE P(i) == ProductAfter(s, i)
             T == {i \in 0 .. n : P(i) # 0}
  <1>1. \A i \in 0 .. n : P(i) \in Nat
    BY ProductFacts
  <1>2. \A i \in 1 .. n : P(i - 1) = s[i] * P(i)
    BY ProductFacts
  <1>3. P(0) # 0
    OBVIOUS
  <1> HIDE DEF P
  <1>4. ASSUME NEW i \in 1 .. n, P(i - 1) # 0 PROVE P(i) # 0 /\ s[i] # 0
    BY <1>1, <1>2, <1>4
  <1>5. \A i \in 0 .. n : i \in T
    <2>1. 0 \in T
      BY <1>3
    <2>2. ASSUME NEW i \in 1 .. n, i - 1 \in T PROVE i \in T
      BY <1>4, <2>2
    <2> HIDE DEF T
    <2> QED
      BY <2>1, <2>2, Upward
  <1>6. ASSUME NEW i \in 1 .. n PROVE s[i] # 0
    <2>1. i - 1 \in 0 .. n
      OBVIOUS
    <2> QED
      BY <1>4, <1>5, <2>1
  <1> QED
    BY <1>1, <1>5, <1>6 DEF P

\* A product is a multiple of a later one.
LEMMA ProductDivides ==
    ASSUME NEW n \in Nat, NEW s \in [1 .. n -> Nat], NEW i \in 0 .. n, NEW j \in i .. n
    PROVE  \E m \in Nat : ProductAfter(s, i) = m * ProductAfter(s, j)
  <1> DEFINE P(k) == ProductAfter(s, k)
             T == {k \in 0 .. n : k < i \/ \E m \in Nat : P(i) = m * P(k)}
  <1>1. \A k \in 0 .. n : P(k) \in Nat
    BY ProductFacts
  <1>2. \A k \in 1 .. n : P(k - 1) = s[k] * P(k)
    BY ProductFacts
  <1> HIDE DEF P
  <1>3. ASSUME NEW k \in 0 .. n, k = i PROVE k \in T
    <2>1. P(i) = 1 * P(k)
      BY <1>1, <1>3
    <2> QED
      BY <2>1
  <1>4. 0 \in T
    BY <1>3
  <1>5. ASSUME NEW k \in 1 .. n, k - 1 \in T PROVE k \in T
    <2>1. CASE k < i
      BY <2>1
    <2>2. CASE k = i
      BY <1>3, <2>2
    <2>3. CASE k > i
      <3>1. PICK m \in Nat : P(i) = m * P(k - 1)
        BY <1>5, <2>3
      <3>2. P(k - 1) = s[k] * P(k) /\ s[k] \in Nat /\ P(k) \in Nat
        BY <1>1, <1>2
      <3>3. m * (s[k] * P(k)) = (m * s[k]) * P(k) /\ m * s[k] \in Nat
        BY <3>1, <3>2
      <3> QED
        BY <3>1, <3>2, <3>3
    <2> QED
      BY <2>1, <2>2, <2>3
  <1>6. \A k \in 0 .. n : k \in T
    <2> HIDE DEF T
    <2> QED
      BY <1>4, <1>5, Upward
  <1>7. j \in T /\ ~(j < i)
    BY <1>6
  <1> QED
    BY <1>7 DEF P

-----------------------------------------------------------------------------
(* Row numbers and their digits. *)

\* The position on axis a of row r of an array.
Digit(s, r, a) == (r \div ProductAfter(s, a)) % s[a]

\* Dividing twice is dividing by the product.
LEMMA Nested ==
    ASSUME NEW r \in Nat, NEW p \in Nat \ {0}, NEW s \in Nat \ {0}
    PROVE  r \div p = s * (r \div (s * p)) + ((r \div p) % s)
  <1> DEFINE q == r \div p
             u == q \div s
             v == r \div (s * p)
  <1>1. q \in Nat /\ q * p <= r /\ r < (q + 1) * p
    BY DivFacts
  <1> HIDE DEF q
  <1>2. u \in Nat /\ u * s <= q /\ q < (u + 1) * s /\ q = (u * s) + (q % s) /\ q % s \in Nat
    BY <1>1, DivFacts, ModFacts
  <1> HIDE DEF u
  <1>3. (u * s) * p <= q * p
    BY <1>1, <1>2, MulMono
  <1>4. (q + 1) * p <= ((u + 1) * s) * p
    <2>1. q + 1 <= (u + 1) * s /\ q + 1 \in Nat /\ (u + 1) * s \in Nat
      BY <1>1, <1>2
    <2> QED
      BY <2>1, MulMono
  <1>5. (u * s) * p = u * (s * p) /\ ((u + 1) * s) * p = (u + 1) * (s * p) /\ s * p \in Nat \ {0}
    BY <1>2
  <1>6. v = u
    <2> DEFINE m == s * p
    <2>1. m \in Nat \ {0} /\ u * m <= r /\ r < (u + 1) * m
      BY <1>1, <1>2, <1>3, <1>4, <1>5
    <2> HIDE DEF m
    <2>2. r \div m = u
      BY <1>2, <2>1, DivUnique
    <2> QED
      BY <2>2 DEF m
  <1> HIDE DEF v
  <1>7. q = s * v + (q % s)
    BY <1>2, <1>6
  <1> QED
    BY <1>7 DEF q, v

\* The digits tell the rows apart.
LEMMA DigitsInjective ==
    ASSUME NEW n \in Nat, NEW s \in [1 .. n -> Nat],
           NEW r \in 0 .. Product(s) - 1, NEW t \in 0 .. Product(s) - 1,
           \A a \in 1 .. n : Digit(s, r, a) = Digit(s, t, a)
    PROVE  r = t
  <1> DEFINE P(i) == ProductAfter(s, i)
             T == {i \in 0 .. n : r \div P(i) = t \div P(i)}
  <1>1. P(0) = Product(s) /\ P(0) \in Nat /\ P(n) = 1 /\ \A i \in 1 .. n : P(i - 1) = s[i] * P(i)
    BY ProductFacts
  <1>2. P(0) # 0 /\ r \in Nat /\ t \in Nat
    BY <1>1
  <1>3. /\ \A i \in 0 .. n : P(i) \in Nat \ {0}
        /\ \A i \in 1 .. n : s[i] \in Nat \ {0}
    BY <1>2, ProductPositive
  <1>4. \A a \in 1 .. n : (r \div P(a)) % s[a] = (t \div P(a)) % s[a]
    BY DEF Digit
  <1>5. r < P(0) /\ t < P(0)
    BY <1>1
  <1> HIDE DEF P
  <1>6. 0 \in T
    <2>1. r \div P(0) = 0 /\ t \div P(0) = 0
      BY <1>2, <1>3, <1>5, DivUnique
    <2> QED
      BY <2>1
  <1>7. ASSUME NEW i \in 1 .. n, i - 1 \in T PROVE i \in T
    <2> DEFINE p == P(i)
               m == s[i]
    <2>1. p \in Nat \ {0} /\ m \in Nat \ {0}
      BY <1>3
    <2>2. m * p = P(i - 1) /\ r \div P(i - 1) = t \div P(i - 1)
      BY <1>1, <1>7
    <2>3. (r \div p) % m = (t \div p) % m
      BY <1>4
    <2> HIDE DEF p, m
    <2>4. r \div p = m * (r \div (m * p)) + ((r \div p) % m)
      BY <1>2, <2>1, Nested
    <2>5. t \div p = m * (t \div (m * p)) + ((t \div p) % m)
      BY <1>2, <2>1, Nested
    <2>6. r \div p = t \div p
      BY <2>2, <2>3, <2>4, <2>5
    <2> QED
      BY <2>6 DEF p
  <1>8. \A i \in 0 .. n : i \in T
    <2> HIDE DEF T
    <2> QED
      BY <1>6, <1>7, Upward
  <1>9. r \div 1 = t \div 1
    BY <1>1, <1>8
  <1> QED
    BY <1>2, <1>9

\* A number written with a last digit.
LEMMA LastDigit ==
    ASSUME NEW q \in Nat, NEW m \in Nat \ {0}, NEW d \in 0 .. m - 1
    PROVE  /\ q * m + d \in Nat
           /\ q * m <= q * m + d /\ (q * m + d) + 1 <= (q + 1) * m
           /\ (q * m + d) \div m = q
           /\ (q * m + d) % m = d
  <1> DEFINE w == q * m + d
  <1>1. w \in Nat /\ q * m \in Nat /\ (q + 1) * m = q * m + m
    OBVIOUS
  <1>2. q * m <= w /\ w < (q + 1) * m
    BY <1>1
  <1> HIDE DEF w
  <1>3. w \div m = q
    BY <1>1, <1>2, DivUnique
  <1>4. w = ((w \div m) * m) + (w % m) /\ w % m \in 0 .. m - 1
    BY <1>1, ModFacts
  <1>5. w = q * m + d
    BY DEF w
  <1> QED
    BY <1>1, <1>2, <1>3, <1>4, <1>5

\* Every choice of a position on each axis is that of a row.
LEMMA DigitsSurjective ==
    ASSUME NEW n \in Nat, NEW s \in [1 .. n -> Nat], NEW d \in [1 .. n -> Nat],
           \A a \in 1 .. n : d[a] < s[a]
    PROVE  \E r \in 0 .. Product(s) - 1 : \A a \in 1 .. n : Digit(s, r, a) = d[a]
  <1> DEFINE P(i) == ProductAfter(s, i)
             In(q, i) == /\ q \in Nat /\ (q + 1) * P(i) <= P(0)
                         /\ \A r \in Nat : q * P(i) <= r /\ r < (q + 1) * P(i) =>
                               \A a \in 1 .. i : Digit(s, r, a) = d[a]
             T == {i \in 0 .. n : \E q : In(q, i)}
  <1>1. /\ P(0) = Product(s) /\ P(n) = 1
        /\ \A i \in 0 .. n : P(i) \in Nat
        /\ \A i \in 1 .. n : P(i - 1) = s[i] * P(i)
    BY ProductFacts
  <1>2. \A r, a : Digit(s, r, a) = (r \div P(a)) % s[a]
    BY DEF Digit
  <1>3. \A i \in 1 .. n : s[i] \in Nat \ {0}
    OBVIOUS
  <1>p. P(0) # 0
    <2> DEFINE U == {i \in 0 .. n : P(n - i) # 0}
    <2>1. 0 \in U
      BY <1>1
    <2>2. ASSUME NEW i \in 1 .. n, i - 1 \in U PROVE i \in U
      <3> DEFINE j == n - (i - 1)
      <3>1. j \in 1 .. n /\ j - 1 = n - i /\ P(j) # 0
        BY <2>2
      <3> HIDE DEF j
      <3>2. P(j - 1) = s[j] * P(j) /\ P(j) \in Nat /\ s[j] \in Nat \ {0}
        BY <1>1, <1>3, <3>1
      <3> HIDE DEF P
      <3>3. P(j - 1) # 0
        BY <3>1, <3>2
      <3> QED
        BY <3>1, <3>3
    <2>3. \A i \in 0 .. n : i \in U
      <3> HIDE DEF U
      <3> QED
        BY <2>1, <2>2, Upward
    <2>4. n \in U
      BY <2>3
    <2> QED
      BY <2>4
  <1>4. \A i \in 0 .. n : P(i) \in Nat \ {0}
    BY <1>p, ProductPositive
  <1> HIDE DEF P
  <1>5. 0 \in T
    <2>1. In(0, 0)
      BY <1>1
    <2> HIDE DEF In
    <2> QED
      BY <2>1
  <1>6. ASSUME NEW i \in 1 .. n, i - 1 \in T PROVE i \in T
    <2>1. PICK q : In(q, i - 1)
      BY <1>6
    <2> DEFINE w == q * s[i] + d[i]
               p == P(i)
               m == s[i]
    <2>2. q \in Nat /\ m \in Nat \ {0} /\ p \in Nat \ {0} /\ d[i] \in 0 .. m - 1 /\ P(i - 1) = m * p
      BY <1>1, <1>3, <1>4, <2>1
    <2> HIDE DEF p, m
    <2>w. w = q * m + d[i]
      BY DEF m
    <2> HIDE DEF w
    <2>3. w \in Nat /\ q * m <= w /\ w + 1 <= (q + 1) * m /\ w % m = d[i]
      BY <2>2, <2>w, LastDigit
    <2>5. (q * m) * p <= w * p /\ (w + 1) * p <= ((q + 1) * m) * p
      BY <2>2, <2>3, MulMono
    <2>6. (q * m) * p = q * (m * p) /\ ((q + 1) * m) * p = (q + 1) * (m * p)
      BY <2>2
    <2>7. q * P(i - 1) <= w * p /\ (w + 1) * p <= (q + 1) * P(i - 1)
      BY <2>2, <2>5, <2>6
    <2>t. /\ q * P(i - 1) \in Nat /\ (q + 1) * P(i - 1) \in Nat /\ w * p \in Nat /\ (w + 1) * p \in Nat
          /\ P(0) \in Nat
      <3>1. P(i - 1) \in Nat /\ P(0) \in Nat
        <4>1. i - 1 \in 0 .. n /\ 0 \in 0 .. n
          OBVIOUS
        <4> QED
          BY <1>1, <4>1
      <3>2. q \in Nat /\ w \in Nat /\ p \in Nat
        BY <2>2, <2>3
      <3> QED
        BY <3>1, <3>2
    <2>8. (w + 1) * p <= P(0)
      BY <2>1, <2>7, <2>t
    <2>9. ASSUME NEW r \in Nat, w * p <= r, r < (w + 1) * p, NEW a \in 1 .. i
          PROVE  Digit(s, r, a) = d[a]
      <3>1. CASE a = i
        <4>1. r \div p = w
          BY <2>2, <2>3, <2>9, DivUnique
        <4> QED
          BY <1>2, <2>3, <3>1, <4>1 DEF m, p
      <3>2. CASE a # i
        <4>1. a \in 1 .. i - 1
          BY <3>2
        <4>2. q * P(i - 1) <= r /\ r < (q + 1) * P(i - 1)
          BY <2>7, <2>9, <2>t
        <4> QED
          BY <2>1, <4>1, <4>2
      <3> QED
        BY <3>1, <3>2
    <2>10. In(w, i)
      BY <2>3, <2>8, <2>9 DEF p
    <2> HIDE DEF In
    <2> QED
      BY <2>10
  <1>7. \A i \in 0 .. n : i \in T
    <2> HIDE DEF T
    <2> QED
      BY <1>5, <1>6, Upward
  <1>8. PICK q : In(q, n)
    BY <1>7
  <1>9. q \in Nat /\ q + 1 <= P(0)
    BY <1>1, <1>8
  <1>10. \A a \in 1 .. n : Digit(s, q, a) = d[a]
    BY <1>1, <1>8, <1>9
  <1>11. q \in 0 .. Product(s) - 1
    BY <1>1, <1>9
  <1> QED
    BY <1>10, <1>11

\* A product depends on the entries it is of.
LEMMA ProductAgrees ==
    ASSUME NEW n \in Nat, NEW s \in [1 .. n -> Nat], NEW t \in [1 .. n -> Nat], NEW i \in 0 .. n,
           \A a \in i + 1 .. n : s[a] = t[a]
    PROVE  \A j \in i .. n : ProductAfter(s, j) = ProductAfter(t, j)
  <1> DEFINE P(j) == ProductAfter(s, j)
             Q(j) == ProductAfter(t, j)
             T == {k \in 0 .. n : n - k < i \/ P(n - k) = Q(n - k)}
  <1>1. /\ P(n) = 1 /\ Q(n) = 1
        /\ \A j \in 1 .. n : P(j - 1) = s[j] * P(j) /\ Q(j - 1) = t[j] * Q(j)
    BY ProductFacts
  <1> HIDE DEF P, Q
  <1>2. 0 \in T
    BY <1>1
  <1>3. ASSUME NEW k \in 1 .. n, k - 1 \in T PROVE k \in T
    <2> DEFINE j == n - k + 1
    <2>1. j \in 1 .. n /\ j - 1 = n - k /\ n - (k - 1) = j
      OBVIOUS
    <2>2. CASE n - k < i
      BY <2>2
    <2>3. CASE ~(n - k < i)
      <3>1. P(j) = Q(j) /\ s[j] = t[j]
        BY <1>3, <2>1, <2>3
      <3> HIDE DEF j
      <3>2. P(j - 1) = Q(j - 1)
        BY <1>1, <2>1, <3>1
      <3>3. P(n - k) = Q(n - k)
        BY <2>1, <3>2
      <3> QED
        BY <3>3
    <2> QED
      BY <2>2, <2>3
  <1>4. \A k \in 0 .. n : k \in T
    <2> HIDE DEF T
    <2> QED
      BY <1>2, <1>3, Upward
  <1>5. ASSUME NEW j \in i .. n PROVE P(j) = Q(j)
    <2>1. n - j \in 0 .. n /\ n - (n - j) = j /\ ~(j < i)
      OBVIOUS
    <2>2. n - j \in T
      BY <1>4, <2>1
    <2>3. P(n - (n - j)) = Q(n - (n - j))
      BY <2>1, <2>2
    <2> QED
      BY <2>1, <2>3
  <1> QED
    BY <1>5 DEF P, Q

\* Whole turns of a digit change neither the digit nor those after it.
LEMMA Shifted ==
    ASSUME NEW u \in Nat, NEW p \in Nat \ {0}, NEW z \in Nat
    PROVE  /\ (u * p + z) \div p = u + (z \div p)
           /\ (u * p + z) % p = z % p
  <1> DEFINE q == z \div p
             d == z % p
  <1>1. q \in Nat /\ d \in 0 .. p - 1 /\ z = q * p + d
    BY DivFacts, ModFacts
  <1> HIDE DEF q, d
  <1>2. u * p + z = (u + q) * p + d /\ u + q \in Nat
    BY <1>1
  <1>3. ((u + q) * p + d) \div p = u + q /\ ((u + q) * p + d) % p = d
    BY <1>1, <1>2, LastDigit
  <1> QED
    BY <1>2, <1>3 DEF q, d

\* Row x of the block that position b of the first axis heads.
LEMMA BlockDigits ==
    ASSUME NEW n \in Nat \ {0}, NEW s \in [1 .. n -> Nat], NEW b \in 1 .. s[1],
           NEW x \in 1 .. ProductAfter(s, 1)
    PROVE  LET r == (b - 1) * ProductAfter(s, 1) + (x - 1)
           IN /\ r \in 0 .. Product(s) - 1
              /\ Digit(s, r, 1) = b - 1
              /\ \A a \in 2 .. n : Digit(s, r, a) = Digit(s, x - 1, a)
  <1> DEFINE P(i) == ProductAfter(s, i)
             w == P(1)
             r == (b - 1) * w + (x - 1)
             z == x - 1
  <1>1. /\ P(0) = Product(s) /\ P(0) = s[1] * w /\ w \in Nat
        /\ \A i \in 1 .. n : P(i - 1) = s[i] * P(i)
    <2>1. 1 \in 1 .. n /\ 1 - 1 = 0
      OBVIOUS
    <2> QED
      BY <2>1, ProductFacts
  <1>2. w \in Nat \ {0} /\ z \in 0 .. w - 1 /\ s[1] \in Nat \ {0}
    <2>1. s[1] \in Nat
      OBVIOUS
    <2> QED
      BY <1>1, <2>1
  <1>3. P(0) # 0
    <2> DEFINE m == s[1]
    <2> HIDE DEF m, P, w
    <2> QED
      BY <1>1, <1>2 DEF m
  <1>4. \A i \in 0 .. n : P(i) \in Nat \ {0}
    BY <1>3, ProductPositive
  <1>p. \A i \in 1 .. n : s[i] \in Nat \ {0}
    BY <1>3, ProductPositive
  <1>q. ASSUME NEW a \in 1 .. n PROVE \E m \in Nat : w = m * P(a)
    <2>1. 1 \in 0 .. n /\ a \in 1 .. n
      OBVIOUS
    <2> QED
      BY <2>1, ProductDivides
  <1>d. \A y, a : Digit(s, y, a) = (y \div P(a)) % s[a]
    BY DEF Digit
  <1> HIDE DEF P, w, z
  <1>5. r = (b - 1) * w + z /\ b - 1 \in Nat /\ b - 1 < s[1] /\ b - 1 + 1 = b
    BY <1>2 DEF z
  <1> HIDE DEF r
  <1>6. r \in Nat /\ r + 1 <= b * w /\ r \div w = b - 1
    <2>1. r + 1 <= ((b - 1) + 1) * w /\ r \div w = b - 1 /\ r \in Nat
      BY <1>2, <1>5, LastDigit
    <2> QED
      BY <1>5, <2>1
  <1>7. r \in 0 .. P(0) - 1
    <2> DEFINE m == s[1]
    <2>1. b <= m /\ m \in Nat /\ b \in Nat
      OBVIOUS
    <2> HIDE DEF m
    <2>2. b * w <= m * w /\ b * w \in Nat /\ m * w \in Nat
      BY <1>2, <2>1, MulMono
    <2>3. P(0) = m * w
      BY <1>1 DEF m
    <2> QED
      BY <1>6, <2>2, <2>3
  <1>8. Digit(s, r, 1) = b - 1
    <2>1. (b - 1) % s[1] = b - 1
      <3> DEFINE m == s[1]
      <3>1. m \in Nat \ {0} /\ b - 1 \in 0 .. m - 1
        BY <1>2
      <3> HIDE DEF m
      <3>2. b - 1 = 0 * m + (b - 1)
        BY <1>5, <3>1
      <3>3. (0 * m + (b - 1)) % m = b - 1
        BY <3>1, LastDigit
      <3> QED
        BY <3>2, <3>3 DEF m
    <2> QED
      BY <1>6, <1>d, <2>1 DEF w
  <1>9. ASSUME NEW a \in 2 .. n PROVE Digit(s, r, a) = Digit(s, z, a)
    <2> DEFINE m == s[a]
               p == P(a)
    <2>0. a \in 1 .. n /\ a \in 0 .. n
      OBVIOUS
    <2>1. m \in Nat \ {0} /\ p \in Nat \ {0} /\ P(a - 1) = m * p
      BY <1>1, <1>4, <1>p, <2>0
    <2>2. PICK k \in Nat : w = k * P(a - 1)
      <3>1. a - 1 \in 1 .. n
        OBVIOUS
      <3> QED
        BY <1>q, <3>1
    <2>d. /\ Digit(s, r, a) = (r \div p) % m
          /\ Digit(s, z, a) = (z \div p) % m
      BY <1>d
    <2> HIDE DEF m, p
    <2> DEFINE c == b - 1
               u == (c * k) * m
    <2>3. c \in Nat /\ z \in Nat /\ c * k \in Nat /\ u \in Nat
      BY <1>2, <1>5, <2>1, <2>2
    <2>4. r = u * p + z
      <3>1. c * (k * (m * p)) = ((c * k) * m) * p
        <4> HIDE DEF c
        <4> QED
          BY <2>1, <2>2, <2>3
      <3> QED
        BY <1>5, <2>1, <2>2, <3>1
    <2>5. r \div p = u + (z \div p) /\ z \div p \in Nat
      <3> HIDE DEF u
      <3> QED
        BY <2>1, <2>3, <2>4, Shifted, DivFacts
    <2>6. ((c * k) * m + (z \div p)) % m = (z \div p) % m
      <3> DEFINE v == c * k
                 y == z \div p
      <3>1. v \in Nat /\ y \in Nat
        BY <2>3, <2>5
      <3> HIDE DEF v, y
      <3>2. (v * m + y) % m = y % m
        BY <2>1, <3>1, Shifted
      <3> QED
        BY <3>2 DEF v, y
    <2> QED
      BY <2>5, <2>6, <2>d
  <1> QED
    BY <1>1, <1>7, <1>8, <1>9 DEF r, w, z, P

-----------------------------------------------------------------------------
(* The cells of a box. *)

\* The lengths of the lists of a box.
SizesOf(box) == [a \in DOMAIN box |-> Len(box[a])]

\* What an array read returns, row by row.
LEMMA RowMajorIs ==
    ASSUME NEW n \in Nat, NEW box \in [1 .. n -> Seq(Nat)]
    PROVE  /\ SizesOf(box) \in [1 .. n -> Nat]
           /\ Product(SizesOf(box)) \in Nat
           /\ RowMajor(box) = [k \in 1 .. Product(SizesOf(box)) |->
                 [a \in 1 .. n |-> box[a][Digit(SizesOf(box), k - 1, a) + 1]]]
  <1>1. DOMAIN box = 1 .. n
    OBVIOUS
  <1>2. SizesOf(box) \in [1 .. n -> Nat] /\ \A a \in 1 .. n : SizesOf(box)[a] = Len(box[a])
    <2>1. \A a \in 1 .. n : Len(box[a]) \in Nat
      OBVIOUS
    <2> QED
      BY <1>1, <2>1 DEF SizesOf
  <1>3. Product(SizesOf(box)) \in Nat
    <2>1. 0 \in 0 .. n
      OBVIOUS
    <2> QED
      BY <1>2, <2>1, ProductFacts
  <1>4. RowMajor(box) = [k \in 1 .. Product(SizesOf(box)) |->
                 [a \in 1 .. n |-> box[a][Digit(SizesOf(box), k - 1, a) + 1]]]
    BY <1>1 DEF RowMajor, SizesOf, Digit
  <1> QED
    BY <1>2, <1>3, <1>4

\* A sequence without repetition.
Distinct(v) == \A j, k \in DOMAIN v : v[j] = v[k] => j = k

\* The digits of a row are positions on the axes.
LEMMA DigitRange ==
    ASSUME NEW n \in Nat, NEW s \in [1 .. n -> Nat], NEW k \in 1 .. Product(s), NEW a \in 1 .. n
    PROVE  Digit(s, k - 1, a) \in Nat /\ Digit(s, k - 1, a) + 1 \in 1 .. s[a]
  <1>1. Product(s) = ProductAfter(s, 0) /\ ProductAfter(s, 0) \in Nat
    BY ProductFacts
  <1>2. ProductAfter(s, a) \in Nat \ {0} /\ s[a] \in Nat \ {0}
    BY <1>1, ProductPositive
  <1> DEFINE p == ProductAfter(s, a)
             m == s[a]
             q == (k - 1) \div p
  <1>3. q \in Nat
    BY <1>1, <1>2, DivFacts
  <1> HIDE DEF p, m, q
  <1>4. q % m \in 0 .. m - 1
    BY <1>2, <1>3, ModFacts DEF m
  <1> QED
    BY <1>2, <1>4 DEF Digit, p, m, q

\* The rows of a box are its cells, each once.
LEMMA RowMajorFacts ==
    ASSUME NEW n \in Nat, NEW box \in [1 .. n -> Seq(Nat)], \A a \in 1 .. n : Distinct(box[a])
    PROVE  /\ RowMajor(box) \in [1 .. Product(SizesOf(box)) -> [1 .. n -> Nat]]
           /\ Distinct(RowMajor(box))
           /\ Ran(RowMajor(box)) = {c \in [1 .. n -> Nat] : \A a \in 1 .. n : c[a] \in Ran(box[a])}
  <1> DEFINE s == SizesOf(box)
             N == Product(s)
             R == RowMajor(box)
             D(k, a) == Digit(s, k - 1, a) + 1
  <1>1. /\ s \in [1 .. n -> Nat] /\ N \in Nat
        /\ R = [k \in 1 .. N |-> [a \in 1 .. n |-> box[a][D(k, a)]]]
    BY RowMajorIs
  <1>2. \A a \in 1 .. n : /\ box[a] \in Seq(Nat) /\ DOMAIN box[a] = 1 .. s[a] /\ s[a] \in Nat
                          /\ s[a] = Len(box[a])
    BY DEF SizesOf
  <1>3. \A k \in 1 .. N, a \in 1 .. n : D(k, a) \in 1 .. s[a]
    BY <1>1, DigitRange
  <1> HIDE DEF s, N, R, D
  <1>4. \A k \in 1 .. N, a \in 1 .. n : R[k][a] = box[a][D(k, a)]
    BY <1>1
  <1>5. R \in [1 .. N -> [1 .. n -> Nat]]
    <2>1. ASSUME NEW k \in 1 .. N, NEW a \in 1 .. n PROVE box[a][D(k, a)] \in Nat
      <3>1. D(k, a) \in DOMAIN box[a] /\ box[a] \in Seq(Nat)
        BY <1>2, <1>3
      <3> QED
        BY <3>1
    <2> QED
      BY <1>1, <2>1
  <1>6. ASSUME NEW j \in 1 .. N, NEW k \in 1 .. N, R[j] = R[k] PROVE j = k
    <2>1. ASSUME NEW a \in 1 .. n PROVE Digit(s, j - 1, a) = Digit(s, k - 1, a)
      <3>0. R[j][a] = box[a][D(j, a)] /\ R[k][a] = box[a][D(k, a)]
        BY <1>4
      <3>1. box[a][D(j, a)] = box[a][D(k, a)]
        BY <1>6, <3>0
      <3>2. D(j, a) \in DOMAIN box[a] /\ D(k, a) \in DOMAIN box[a]
        BY <1>2, <1>3
      <3> DEFINE u == Digit(s, j - 1, a)
                 v == Digit(s, k - 1, a)
      <3>3. u + 1 = v + 1
        BY <3>1, <3>2 DEF Distinct, D
      <3>4. u \in Int /\ v \in Int
        <4>1. j \in 1 .. Product(s) /\ k \in 1 .. Product(s)
          BY DEF N
        <4> HIDE DEF u, v
        <4>2. Digit(s, j - 1, a) \in Nat /\ Digit(s, k - 1, a) \in Nat
          BY <1>1, <4>1, DigitRange
        <4> QED
          BY <4>2 DEF u, v
      <3> QED
        BY <3>3, <3>4
    <2>2. j - 1 \in 0 .. N - 1 /\ k - 1 \in 0 .. N - 1
      BY <1>1
    <2>3. j - 1 = k - 1
      BY <1>1, <2>1, <2>2, DigitsInjective DEF N
    <2> QED
      BY <2>3
  <1>7. DOMAIN R = 1 .. N
    BY <1>5
  <1>8. ASSUME NEW k \in 1 .. N
        PROVE  R[k] \in [1 .. n -> Nat] /\ \A a \in 1 .. n : R[k][a] \in Ran(box[a])
    <2>1. ASSUME NEW a \in 1 .. n PROVE R[k][a] \in Ran(box[a])
      <3>1. D(k, a) \in DOMAIN box[a]
        BY <1>2, <1>3
      <3> HIDE DEF D
      <3> QED
        BY <1>4, <3>1 DEF Ran
    <2> QED
      BY <1>5, <2>1
  <1>9. ASSUME NEW c \in [1 .. n -> Nat], \A a \in 1 .. n : c[a] \in Ran(box[a])
        PROVE  \E k \in 1 .. N : R[k] = c
    <2> DEFINE d == [a \in 1 .. n |-> (CHOOSE i \in DOMAIN box[a] : box[a][i] = c[a]) - 1]
    <2>1. ASSUME NEW a \in 1 .. n
          PROVE  d[a] \in Nat /\ d[a] < s[a] /\ box[a][d[a] + 1] = c[a]
      <3> DEFINE i == CHOOSE i \in DOMAIN box[a] : box[a][i] = c[a]
      <3>1. \E x \in DOMAIN box[a] : box[a][x] = c[a]
        BY <1>9 DEF Ran
      <3>2. i \in DOMAIN box[a] /\ box[a][i] = c[a]
        BY <3>1
      <3>3. d[a] = i - 1
        OBVIOUS
      <3> HIDE DEF d, i
      <3>4. i \in 1 .. s[a]
        BY <1>2, <3>2
      <3>5. s[a] \in Nat
        BY <1>2
      <3>6. (i - 1) + 1 = i
        BY <3>4
      <3> QED
        BY <3>2, <3>3, <3>4, <3>5, <3>6
    <2>2. d \in [1 .. n -> Nat]
      <3>1. d = [a \in 1 .. n |-> d[a]]
        OBVIOUS
      <3> HIDE DEF d
      <3> QED
        BY <2>1, <3>1
    <2> HIDE DEF d
    <2>3. PICK r \in 0 .. N - 1 : \A a \in 1 .. n : Digit(s, r, a) = d[a]
      BY <1>1, <2>1, <2>2, DigitsSurjective DEF N
    <2>4. r + 1 \in 1 .. N /\ (r + 1) - 1 = r
      BY <1>1
    <2>5. ASSUME NEW a \in 1 .. n PROVE R[r + 1][a] = c[a]
      <3>1. R[r + 1][a] = box[a][D(r + 1, a)]
        BY <1>4, <2>4
      <3>2. D(r + 1, a) = d[a] + 1
        BY <2>3, <2>4 DEF D
      <3> QED
        BY <2>1, <3>1, <3>2
    <2>6. R[r + 1] \in [1 .. n -> Nat]
      BY <1>5, <2>4
    <2>7. R[r + 1] = c
      BY <2>5, <2>6
    <2> QED
      BY <2>4, <2>7
  <1>10. Ran(R) = {c \in [1 .. n -> Nat] : \A a \in 1 .. n : c[a] \in Ran(box[a])}
    <2>1. Ran(R) \subseteq {c \in [1 .. n -> Nat] : \A a \in 1 .. n : c[a] \in Ran(box[a])}
      BY <1>7, <1>8 DEF Ran
    <2>2. {c \in [1 .. n -> Nat] : \A a \in 1 .. n : c[a] \in Ran(box[a])} \subseteq Ran(R)
      <3> SUFFICES ASSUME NEW c \in [1 .. n -> Nat], \A a \in 1 .. n : c[a] \in Ran(box[a])
                   PROVE  c \in Ran(R)
        OBVIOUS
      <3>1. PICK k \in 1 .. N : R[k] = c
        BY <1>9
      <3> QED
        BY <1>7, <3>1 DEF Ran
    <2> QED
      BY <2>1, <2>2
  <1>11. Distinct(R)
    BY <1>6, <1>7 DEF Distinct
  <1> QED
    BY <1>5, <1>10, <1>11 DEF R, N, s

-----------------------------------------------------------------------------
(* The streaming plan. *)

\* The pivot is the first axis whose deeper axes fit the target.
LEMMA PivotFacts ==
    ASSUME NEW n \in Nat \ {0}, NEW s \in [1 .. n -> Nat], NEW t \in Nat \ {0}
    PROVE  /\ Pivot(s, t) \in 1 .. n
           /\ ProductAfter(s, Pivot(s, t)) <= t
           /\ \A j \in 1 .. Pivot(s, t) - 1 : ProductAfter(s, j) > t
  <1> DEFINE Fits == {i \in 1 .. n : ProductAfter(s, i) <= t}
             IsPivot(i) == /\ ProductAfter(s, i) <= t
                           /\ \A j \in 1 .. i - 1 : ProductAfter(s, j) > t
  <1>1. \A i \in 1 .. n : ProductAfter(s, i) \in Nat
    BY ProductFacts
  <1>2. Fits # {} /\ Fits \subseteq Nat
    <2>1. ProductAfter(s, n) <= t
      BY ProductFacts
    <2> QED
      BY <2>1
  <1>3. PICK i \in Fits : \A j \in Fits : i <= j
    BY <1>2, LeastNat
  <1>4. ASSUME NEW j \in 1 .. i - 1 PROVE ProductAfter(s, j) > t
    <2>1. j \in 1 .. n /\ ~(i <= j)
      OBVIOUS
    <2>2. j \notin Fits
      BY <1>3, <2>1
    <2> QED
      BY <1>1, <2>1, <2>2
  <1>5. i \in DOMAIN s /\ IsPivot(i) /\ DOMAIN s = 1 .. n
    BY <1>4
  <1>6. Pivot(s, t) = CHOOSE k \in DOMAIN s : IsPivot(k)
    BY DEF Pivot
  <1> HIDE DEF IsPivot
  <1>7. Pivot(s, t) \in 1 .. n /\ IsPivot(Pivot(s, t))
    BY <1>5, <1>6
  <1> QED
    BY <1>7 DEF IsPivot

\* A product grows with its entries.
LEMMA ProductMono ==
    ASSUME NEW n \in Nat, NEW v \in [1 .. n -> Nat], NEW w \in [1 .. n -> Nat], NEW i \in 0 .. n,
           \A a \in i + 1 .. n : v[a] <= w[a]
    PROVE  ProductAfter(v, i) <= ProductAfter(w, i)
  <1> DEFINE P(j) == ProductAfter(v, j)
             Q(j) == ProductAfter(w, j)
             T == {k \in 0 .. n : n - k < i \/ P(n - k) <= Q(n - k)}
  <1>1. /\ P(n) = 1 /\ Q(n) = 1
        /\ \A j \in 0 .. n : P(j) \in Nat /\ Q(j) \in Nat
        /\ \A j \in 1 .. n : P(j - 1) = v[j] * P(j) /\ Q(j - 1) = w[j] * Q(j)
    BY ProductFacts
  <1> HIDE DEF P, Q
  <1>2. 0 \in T
    BY <1>1
  <1>3. ASSUME NEW k \in 1 .. n, k - 1 \in T PROVE k \in T
    <2> DEFINE j == n - (k - 1)
    <2>1. CASE n - k < i
      BY <2>1
    <2>2. CASE ~(n - k < i)
      <3>1. j \in i + 1 .. n /\ j \in 1 .. n /\ j \in 0 .. n /\ j - 1 = n - k /\ ~(j < i)
        BY <2>2
      <3>2. P(j) <= Q(j)
        BY <1>3, <3>1
      <3> HIDE DEF j
      <3>3. v[j] <= w[j] /\ v[j] \in Nat /\ w[j] \in Nat /\ P(j) \in Nat /\ Q(j) \in Nat
        BY <1>1, <3>1
      <3> DEFINE a == v[j]
                 b == w[j]
                 c == P(j)
                 d == Q(j)
      <3>4. a * c <= b * c /\ c * b <= d * b
        <4> HIDE DEF a, b, c, d
        <4>1. a \in Nat /\ b \in Nat /\ c \in Nat /\ d \in Nat /\ a <= b /\ c <= d
          BY <3>2, <3>3 DEF a, b, c, d
        <4> QED
          BY <4>1, MulMono
      <3>5. a * c <= b * d
        <4> HIDE DEF a, b, c, d
        <4>1. a \in Nat /\ b \in Nat /\ c \in Nat /\ d \in Nat
          BY <3>3 DEF a, b, c, d
        <4>2. a * c \in Nat /\ b * c \in Nat /\ b * d \in Nat /\ c * b = b * c /\ d * b = b * d
          BY <4>1
        <4> QED
          BY <3>4, <4>2
      <3>6. P(j - 1) = a * c /\ Q(j - 1) = b * d
        BY <1>1, <3>1
      <3>7. P(n - k) <= Q(n - k)
        BY <3>1, <3>5, <3>6
      <3> QED
        BY <3>7
    <2> QED
      BY <2>1, <2>2
  <1>4. \A k \in 0 .. n : k \in T
    <2> HIDE DEF T
    <2> QED
      BY <1>2, <1>3, Upward
  <1>5. PICK k \in 0 .. n : n - k = i
    <2>1. n - i \in 0 .. n /\ n - (n - i) = i
      OBVIOUS
    <2> QED
      BY <2>1
  <1>6. P(i) <= Q(i)
    <2>1. n - k < i \/ P(n - k) <= Q(n - k)
      BY <1>4
    <2> QED
      BY <1>5, <2>1
  <1> QED
    BY <1>6 DEF P, Q


\* Factors of at most one leave a product as it is or smaller.
LEMMA ProductOfOnes ==
    ASSUME NEW n \in Nat, NEW w \in [1 .. n -> Nat], NEW i \in 0 .. n,
           \A a \in 1 .. i : w[a] <= 1
    PROVE  ProductAfter(w, 0) <= ProductAfter(w, i)
  <1> DEFINE P(j) == ProductAfter(w, j)
             T == {k \in 0 .. n : k > i \/ P(0) <= P(k)}
  <1>1. /\ \A j \in 0 .. n : P(j) \in Nat
        /\ \A j \in 1 .. n : P(j - 1) = w[j] * P(j)
    BY ProductFacts
  <1> HIDE DEF P
  <1>2. 0 \in T
    BY <1>1
  <1>3. ASSUME NEW k \in 1 .. n, k - 1 \in T PROVE k \in T
    <2>1. CASE k > i
      BY <2>1
    <2>2. CASE ~(k > i)
      <3>1. k \in 1 .. i /\ ~(k - 1 > i) /\ k \in 0 .. n
        BY <2>2
      <3>2. P(0) <= P(k - 1) /\ P(k - 1) = w[k] * P(k)
        BY <1>1, <1>3, <3>1
      <3>3. w[k] \in {0, 1} /\ P(k) \in Nat /\ P(0) \in Nat
        <4>1. w[k] \in Nat /\ w[k] <= 1
          BY <3>1
        <4> QED
          BY <1>1, <3>1, <4>1
      <3>4. w[k] * P(k) <= P(k)
        BY <3>3
      <3>5. P(0) <= P(k)
        <4> DEFINE m == w[k] * P(k)
        <4>1. m \in Nat
          BY <3>3
        <4>2. P(0) <= m /\ m <= P(k)
          BY <3>2, <3>4
        <4> HIDE DEF m
        <4> QED
          BY <3>3, <4>1, <4>2
      <3> QED
        BY <3>1, <3>5
    <2> QED
      BY <2>1, <2>2
  <1>4. \A k \in 0 .. n : k \in T
    <2> HIDE DEF T
    <2> QED
      BY <1>2, <1>3, Upward
  <1>5. i \in T
    BY <1>4
  <1> QED
    BY <1>5 DEF P

\* The tiles of plan_streaming and of plan_streaming_chunked are extents, and a
\* tile of the latter is no larger.
LEMMA TilesTyped ==
    ASSUME NEW n \in Nat \ {0}, NEW s \in [1 .. n -> Nat], NEW rows \in Nat,
           NEW chunks \in [1 .. n -> Nat \ {0}],
           ProductAfter(s, Pivot(s, Max2(1, rows))) # 0
    PROVE  /\ PlanStreaming(s, rows) \in [1 .. n -> Nat]
           /\ PlanStreamingChunked(s, rows, chunks) \in [1 .. n -> Nat]
           /\ \A i \in 1 .. n : PlanStreamingChunked(s, rows, chunks)[i] <= PlanStreaming(s, rows)[i]
  <1> DEFINE t == Max2(1, rows)
             p == Pivot(s, t)
             u == PlanStreaming(s, rows)
             v == PlanStreamingChunked(s, rows, chunks)
  <1>1. t \in Nat \ {0} /\ DOMAIN s = 1 .. n
    BY DEF Max2
  <1>2. p \in 1 .. n /\ ProductAfter(s, p) \in Nat \ {0}
    <2>1. p \in 1 .. n
      <3> HIDE DEF t
      <3> QED
        BY <1>1, PivotFacts
    <2>2. p \in 0 .. n /\ n \in Nat
      BY <2>1
    <2>3. ProductAfter(s, p) \in Nat
      <3> HIDE DEF p
      <3> QED
        BY <2>2, ProductFacts
    <2> QED
      BY <2>1, <2>3
  <1>3. u = [i \in 1 .. n |->
               CASE i < p -> 1
                 [] i = p -> Min2(Max2(1, t \div ProductAfter(s, i)), s[i])
                 [] OTHER -> s[i]]
    BY <1>1 DEF PlanStreaming
  <1>4. ASSUME NEW i \in 1 .. n PROVE u[i] \in Nat
    <2> HIDE DEF u, p, t
    <2>1. CASE i < p
      BY <1>3, <2>1
    <2>2. CASE i = p
      <3>1. t \div ProductAfter(s, p) \in Nat
        BY <1>1, <1>2, DivFacts
      <3>2. u[i] = Min2(Max2(1, t \div ProductAfter(s, p)), s[p])
        BY <1>2, <1>3, <2>2
      <3> QED
        BY <1>2, <3>1, <3>2 DEF Min2, Max2
    <2>3. CASE i > p
      <3>1. u[i] = s[i]
        BY <1>2, <1>3, <2>3
      <3> QED
        BY <3>1
    <2> QED
      BY <1>2, <2>1, <2>2, <2>3
  <1>5. u \in [1 .. n -> Nat]
    <2> HIDE DEF u
    <2>1. u = [i \in 1 .. n |-> u[i]]
      BY <1>3
    <2> QED
      BY <1>4, <2>1
  <1> HIDE DEF u
  <1>6. v = [i \in 1 .. n |->
               IF u[i] >= s[i] \/ u[i] <= 1 \/ chunks[i] <= 1 \/ u[i] < chunks[i]
               THEN u[i]
               ELSE Min2((u[i] \div chunks[i]) * chunks[i], s[i])]
    BY <1>1 DEF PlanStreamingChunked, u
  <1>7. ASSUME NEW i \in 1 .. n PROVE v[i] \in Nat /\ v[i] <= u[i]
    <2> HIDE DEF v
    <2>1. CASE u[i] >= s[i] \/ u[i] <= 1 \/ chunks[i] <= 1 \/ u[i] < chunks[i]
      <3>1. v[i] = u[i]
        BY <1>6, <2>1
      <3> QED
        BY <1>4, <3>1
    <2>2. CASE ~(u[i] >= s[i] \/ u[i] <= 1 \/ chunks[i] <= 1 \/ u[i] < chunks[i])
      <3>1. v[i] = Min2((u[i] \div chunks[i]) * chunks[i], s[i])
        BY <1>6, <2>2
      <3>2. u[i] \in Nat /\ chunks[i] \in Nat \ {0} /\ s[i] \in Nat
        BY <1>4
      <3>3. (u[i] \div chunks[i]) \in Nat /\ (u[i] \div chunks[i]) * chunks[i] <= u[i]
        BY <3>2, DivFacts
      <3> DEFINE m == (u[i] \div chunks[i]) * chunks[i]
      <3>4. m \in Nat
        BY <3>2, <3>3
      <3> HIDE DEF m
      <3>5. v[i] = Min2(m, s[i]) /\ m <= u[i]
        BY <3>1, <3>3 DEF m
      <3> QED
        BY <3>2, <3>4, <3>5 DEF Min2
    <2> QED
      BY <2>1, <2>2
  <1>8. v \in [1 .. n -> Nat]
    <2> HIDE DEF v
    <2>1. v = [i \in 1 .. n |-> v[i]]
      BY <1>6
    <2> QED
      BY <1>7, <2>1
  <1> QED
    BY <1>5, <1>7, <1>8 DEF u

\* A window of tiles, none larger than planned, has no more rows than the target.
LEMMA WindowBound ==
    ASSUME NEW n \in Nat \ {0}, NEW s \in [1 .. n -> Nat], NEW rows \in Nat,
           ProductAfter(s, Pivot(s, Max2(1, rows))) # 0,
           NEW w \in [1 .. n -> Nat],
           \A i \in 1 .. n : w[i] <= Max2(1, PlanStreaming(s, rows)[i])
    PROVE  Product(w) <= Max2(1, rows)
  <1> DEFINE t == Max2(1, rows)
             p == Pivot(s, t)
             u == PlanStreaming(s, rows)
             P(j) == ProductAfter(s, j)
             W(j) == ProductAfter(w, j)
  <1>1. t \in Nat \ {0} /\ DOMAIN s = 1 .. n
    BY DEF Max2
  <1>2. p \in 1 .. n /\ P(p) \in Nat \ {0} /\ P(p) <= t
    <2>1. p \in 1 .. n /\ P(p) <= t
      <3> HIDE DEF t
      <3> QED
        BY <1>1, PivotFacts
    <2> QED
      BY <2>1, ProductFacts
  <1>3. u = [i \in 1 .. n |->
               CASE i < p -> 1
                 [] i = p -> Min2(Max2(1, t \div P(i)), s[i])
                 [] OTHER -> s[i]]
    BY <1>1 DEF PlanStreaming
  <1>4. /\ \A i \in 0 .. n : W(i) \in Nat /\ P(i) \in Nat
        /\ \A i \in 1 .. n : W(i - 1) = w[i] * W(i) /\ P(i - 1) = s[i] * P(i)
        /\ Product(w) = W(0) /\ P(n) = 1
    BY ProductFacts
  <1> HIDE DEF u, p, t
  <1>5. ASSUME NEW i \in 1 .. n, i > p PROVE w[i] <= s[i]
    <2>1. u[i] = s[i]
      BY <1>2, <1>3, <1>5
    <2>2. P(i) \in Nat /\ \E m \in Nat : P(p) = m * P(i - 1)
      <3> DEFINE j == i - 1
      <3>1. j \in p .. n /\ p \in 0 .. n /\ n \in Nat
        BY <1>2, <1>5
      <3> HIDE DEF j
      <3>2. \E m \in Nat : P(p) = m * P(j)
        BY <3>1, ProductDivides
      <3>3. P(i) \in Nat
        BY <1>4
      <3> QED
        BY <3>2, <3>3 DEF j
    <2>3. s[i] # 0
      <3> SUFFICES ASSUME s[i] = 0 PROVE FALSE
        OBVIOUS
      <3>1. P(i - 1) = 0 * P(i)
        BY <1>4
      <3> HIDE DEF P
      <3>2. P(i - 1) = 0
        BY <2>2, <3>1
      <3>3. P(p) = 0
        BY <2>2, <3>2
      <3> QED
        BY <1>2, <3>3
    <2>4. w[i] <= Max2(1, s[i]) /\ s[i] \in Nat /\ w[i] \in Nat
      BY <2>1 DEF u
    <2> QED
      BY <2>3, <2>4 DEF Max2
  <1>6. W(p) <= P(p)
    <2>1. \A a \in p + 1 .. n : w[a] <= s[a]
      BY <1>2, <1>5
    <2>2. p \in 0 .. n /\ n \in Nat
      BY <1>2
    <2> QED
      BY <2>1, <2>2, ProductMono
  <1>7. ASSUME NEW i \in 1 .. p - 1 PROVE w[i] <= 1
    <2>1. i \in 1 .. n /\ i < p
      BY <1>2
    <2>2. u[i] = 1
      BY <1>3, <2>1
    <2>3. w[i] <= Max2(1, u[i])
      BY <2>1 DEF u
    <2> QED
      BY <2>1, <2>2, <2>3 DEF Max2
  <1>8. W(0) <= W(p - 1)
    <2>1. p - 1 \in 0 .. n /\ n \in Nat
      BY <1>2
    <2> QED
      BY <1>7, <2>1, ProductOfOnes
  <1>9. W(p - 1) <= t
    <2> DEFINE q == t \div P(p)
    <2>1. q \in Nat /\ q * P(p) <= t
      BY <1>1, <1>2, DivFacts
    <2>2. u[p] = Min2(Max2(1, q), s[p])
      BY <1>2, <1>3
    <2> DEFINE a == w[p]
    <2>3. a <= Max2(1, u[p]) /\ a \in Nat /\ s[p] \in Nat
      BY <1>2 DEF u
    <2> HIDE DEF P, W, q
    <2>4. a <= Max2(1, q)
      BY <2>1, <2>2, <2>3 DEF Max2, Min2
    <2>5. W(p - 1) = a * W(p) /\ W(p) \in Nat
      BY <1>2, <1>4
    <2>6. a * W(p) <= Max2(1, q) * P(p)
      <3> DEFINE b == Max2(1, q)
                 c == W(p)
                 d == P(p)
      <3>1. a \in Nat /\ b \in Nat /\ c \in Nat /\ d \in Nat /\ a <= b /\ c <= d
        BY <1>2, <1>6, <2>1, <2>3, <2>4, <2>5 DEF Max2
      <3> HIDE DEF a, b, c, d
      <3>2. a * c <= b * c /\ c * b <= d * b
        BY <3>1, MulMono
      <3>3. a * c \in Nat /\ b * c \in Nat /\ b * d \in Nat /\ c * b = b * c /\ d * b = b * d
        BY <3>1
      <3>4. a * c <= b * d
        BY <3>2, <3>3
      <3> QED
        BY <3>4 DEF a, b, c, d
    <2>7. Max2(1, q) * P(p) <= t
      <3>1. CASE q >= 1
        <4>1. Max2(1, q) = q
          BY <2>1, <3>1 DEF Max2
        <4> QED
          BY <2>1, <4>1
      <3>2. CASE ~(q >= 1)
        <4>1. Max2(1, q) = 1
          BY <2>1, <3>2 DEF Max2
        <4>2. 1 * P(p) = P(p)
          BY <1>2
        <4> QED
          BY <1>2, <4>1, <4>2
      <3> QED
        BY <3>1, <3>2
    <2> DEFINE x == a * W(p)
               y == Max2(1, q) * P(p)
    <2>8. x \in Nat /\ y \in Nat
      BY <1>2, <2>1, <2>3, <2>5 DEF Max2
    <2> HIDE DEF x, y
    <2>9. W(p - 1) = x /\ x <= y /\ y <= t
      BY <2>5, <2>6, <2>7 DEF x, y
    <2> QED
      BY <1>1, <2>8, <2>9
  <1>10. W(0) \in Nat /\ W(p - 1) \in Nat
    <2>1. p - 1 \in 0 .. n /\ 0 \in 0 .. n
      BY <1>2
    <2> QED
      BY <1>4, <2>1
  <1>11. W(0) <= t
    <2> HIDE DEF W
    <2> QED
      BY <1>1, <1>8, <1>9, <1>10
  <1> QED
    BY <1>4, <1>11 DEF t

-----------------------------------------------------------------------------
(* Sums. *)

\* The partial sums of a sequence.
LEMMA TotalFacts ==
    ASSUME NEW n \in Nat, NEW v \in [1 .. n -> Nat]
    PROVE  \E f \in [0 .. n -> Nat] :
              f[0] = 0 /\ (\A k \in 1 .. n : f[k] = f[k - 1] + v[k]) /\ Total(v) = f[n]
  <1>1. Len(v) = n
    BY FunIsSeq
  <1> DEFINE IsSum(f) == f = [k \in 0 .. n |-> IF k = 0 THEN 0 ELSE f[k - 1] + v[k]]
             h == [kx \in (1 .. n) \X Nat |-> kx[2] + v[kx[1]]]
  <1>2. h \in [(1 .. n) \X Nat -> Nat]
    <2>1. ASSUME NEW kx \in (1 .. n) \X Nat PROVE kx[2] + v[kx[1]] \in Nat
      OBVIOUS
    <2> QED
      BY <2>1
  <1>3. PICK g \in [0 .. n -> Nat] : g[0] = 0 /\ \A k \in 1 .. n : g[k] = h[<<k, g[k - 1]>>]
    <2>1. 0 \in Nat
      OBVIOUS
    <2> HIDE DEF h
    <2>2. PICK g : IsLoop(g, n, Nat, 0, h)
      BY <1>2, <2>1, Iterates
    <2> QED
      BY <2>2 DEF IsLoop
  <1>4. ASSUME NEW k \in 1 .. n PROVE g[k] = g[k - 1] + v[k]
    <2>1. k - 1 \in 0 .. n
      OBVIOUS
    <2>2. g[k - 1] \in Nat /\ g[k] = h[<<k, g[k - 1]>>]
      BY <1>3, <2>1
    <2> QED
      BY <2>2
  <1> HIDE DEF h
  <1>5. IsSum(g)
    <2>1. g = [k \in 0 .. n |-> g[k]]
      BY <1>3
    <2>2. \A k \in 0 .. n : g[k] = IF k = 0 THEN 0 ELSE g[k - 1] + v[k]
      BY <1>3, <1>4
    <2> QED
      BY <2>1, <2>2
  <1> DEFINE f == CHOOSE p : IsSum(p)
  <1>6. IsSum(f)
    BY <1>5
  <1>7. Total(v) = f[n]
    BY <1>1 DEF Total
  <1> HIDE DEF f
  <1>8. f[0] = 0 /\ \A k \in 1 .. n : f[k] = f[k - 1] + v[k]
    BY <1>6
  <1> DEFINE T == {k \in 0 .. n : f[k] = g[k]}
  <1> HIDE DEF IsSum
  <1>9. \A k \in 0 .. n : k \in T
    <2>1. 0 \in T
      BY <1>3, <1>8
    <2>2. ASSUME NEW k \in 1 .. n, k - 1 \in T PROVE k \in T
      <3>1. f[k - 1] = g[k - 1] /\ k \in 0 .. n
        BY <2>2
      <3> QED
        BY <1>4, <1>8, <3>1
    <2> HIDE DEF T
    <2> QED
      BY <2>1, <2>2, Upward
  <1>10. Total(v) = g[n]
    BY <1>7, <1>9
  <1> QED
    BY <1>3, <1>4, <1>10

\* A sum of n numbers of at most b.
LEMMA TotalBound ==
    ASSUME NEW n \in Nat, NEW v \in [1 .. n -> Nat], NEW b \in Nat, \A k \in 1 .. n : v[k] <= b
    PROVE  Total(v) \in Nat /\ Total(v) <= n * b
  <1>1. PICK f \in [0 .. n -> Nat] :
            f[0] = 0 /\ (\A k \in 1 .. n : f[k] = f[k - 1] + v[k]) /\ Total(v) = f[n]
    BY TotalFacts
  <1> DEFINE T == {k \in 0 .. n : f[k] <= k * b}
  <1>2. 0 \in T
    BY <1>1
  <1>3. ASSUME NEW k \in 1 .. n, k - 1 \in T PROVE k \in T
    <2>1. f[k - 1] <= (k - 1) * b /\ k \in 0 .. n /\ k - 1 \in 0 .. n
      BY <1>3
    <2>2. f[k] = f[k - 1] + v[k] /\ v[k] <= b /\ v[k] \in Nat /\ f[k - 1] \in Nat
      BY <1>1, <2>1
    <2> DEFINE m == (k - 1) * b
    <2>3. k * b = m + b /\ m \in Nat
      OBVIOUS
    <2> HIDE DEF m
    <2>4. f[k] <= k * b
      BY <2>1, <2>2, <2>3 DEF m
    <2> QED
      BY <2>1, <2>4
  <1>4. \A k \in 0 .. n : k \in T
    <2> HIDE DEF T
    <2> QED
      BY <1>2, <1>3, Upward
  <1>5. n \in 0 .. n
    OBVIOUS
  <1> QED
    BY <1>1, <1>4, <1>5

\* A sum of differences.
LEMMA Telescopes ==
    ASSUME NEW n \in Nat, NEW g \in [0 .. n -> Nat], \A k \in 1 .. n : g[k - 1] <= g[k]
    PROVE  Total([k \in 1 .. n |-> g[k] - g[k - 1]]) = g[n] - g[0]
  <1> DEFINE v == [k \in 1 .. n |-> g[k] - g[k - 1]]
  <1>1. ASSUME NEW k \in 1 .. n PROVE g[k] - g[k - 1] \in Nat
    <2>1. k - 1 \in 0 .. n /\ k \in 0 .. n
      OBVIOUS
    <2>2. g[k] \in Nat /\ g[k - 1] \in Nat /\ g[k - 1] <= g[k]
      BY <2>1
    <2> QED
      BY <2>2
  <1>2. v \in [1 .. n -> Nat] /\ \A k \in 1 .. n : v[k] = g[k] - g[k - 1]
    BY <1>1
  <1> HIDE DEF v
  <1>3. PICK f \in [0 .. n -> Nat] :
            f[0] = 0 /\ (\A k \in 1 .. n : f[k] = f[k - 1] + v[k]) /\ Total(v) = f[n]
    BY <1>2, TotalFacts
  <1> DEFINE T == {k \in 0 .. n : f[k] = g[k] - g[0]}
  <1>4. 0 \in T
    BY <1>3
  <1>5. ASSUME NEW k \in 1 .. n, k - 1 \in T PROVE k \in T
    <2>1. f[k - 1] = g[k - 1] - g[0] /\ k \in 0 .. n /\ k - 1 \in 0 .. n /\ 0 \in 0 .. n
      BY <1>5
    <2>2. f[k] = f[k - 1] + v[k] /\ v[k] = g[k] - g[k - 1]
      BY <1>2, <1>3
    <2>3. g[k] \in Nat /\ g[k - 1] \in Nat /\ g[0] \in Nat
      BY <2>1
    <2>4. f[k] = g[k] - g[0]
      BY <2>1, <2>2, <2>3
    <2> QED
      BY <2>1, <2>4
  <1>6. \A k \in 0 .. n : k \in T
    <2> HIDE DEF T
    <2> QED
      BY <1>4, <1>5, Upward
  <1>7. n \in 0 .. n
    OBVIOUS
  <1>8. f[n] = g[n] - g[0]
    BY <1>6, <1>7
  <1> QED
    BY <1>3, <1>8 DEF v

-----------------------------------------------------------------------------
(* Selections and their windows. *)

\* A selection is read as an ascending list of its members.
LEMMA SelFacts ==
    ASSUME NEW sel \in RangeSels \cup ListSels
    PROVE  /\ Positions(sel) \in Seq(Nat) /\ SelLen(sel) \in Nat
           /\ DOMAIN Positions(sel) = 1 .. SelLen(sel)
           /\ Ascends(Positions(sel)) /\ Ran(Positions(sel)) = Members(sel)
           /\ Members(sel) \subseteq Nat
           /\ IsIndices(sel) => sel \in ListSels /\ sel = IndicesSel(sel.idx) /\ Positions(sel) = sel.idx
           /\ ~IsIndices(sel) =>
                 /\ sel \in RangeSels /\ sel = RangeSel(sel.lo, sel.hi) /\ sel.lo \in Nat /\ sel.hi \in Nat
                 /\ SelLen(sel) = IF sel.hi > sel.lo THEN sel.hi - sel.lo ELSE 0
                 /\ \A k \in 1 .. SelLen(sel) : Positions(sel)[k] = sel.lo + k - 1
  <1>1. CASE IsIndices(sel)
    <2>1. sel \in ListSels
      BY <1>1 DEF IsIndices, RangeSels
    <2>2. PICK v \in Seq(Nat) : Ascends(v) /\ sel = IndicesSel(v)
      BY <2>1 DEF ListSels
    <2>3. sel.idx = v /\ Positions(sel) = v
      BY <1>1, <2>2 DEF IndicesSel, Positions
    <2>4. DOMAIN v = 1 .. Len(v) /\ Len(v) \in Nat /\ Ran(v) \subseteq Nat
      BY <2>2 DEF Ran
    <2>5. Ran(v) = Members(sel)
      BY <1>1, <2>3 DEF Ran, Members
    <2> QED
      BY <1>1, <2>1, <2>2, <2>3, <2>4, <2>5 DEF SelLen
  <1>2. CASE ~IsIndices(sel)
    <2>1. sel \in RangeSels
      BY <1>2 DEF IsIndices, ListSels, IndicesSel
    <2>2. sel = RangeSel(sel.lo, sel.hi) /\ sel.lo \in Nat /\ sel.hi \in Nat
      BY <2>1 DEF RangeSels, RangeSel
    <2> DEFINE n == IF sel.hi > sel.lo THEN sel.hi - sel.lo ELSE 0
               p == [k \in 1 .. n |-> sel.lo + k - 1]
    <2>3. n \in Nat /\ Positions(sel) = p
      BY <1>2, <2>2 DEF Positions
    <2>4. p \in [1 .. n -> Nat] /\ \A k \in 1 .. n : p[k] = sel.lo + k - 1
      <3>1. \A k \in 1 .. n : sel.lo + k - 1 \in Nat
        BY <2>2
      <3> QED
        BY <3>1
    <2>5. p \in Seq(Nat) /\ Len(p) = n /\ DOMAIN p = 1 .. n
      <3> HIDE DEF n, p
      <3> QED
        BY <2>3, <2>4, FunIsSeq
    <2>6. Ascends(p)
      <3> HIDE DEF p, n
      <3> QED
        BY <2>2, <2>3, <2>4, <2>5 DEF Ascends
    <2>7. Ran(p) = sel.lo .. sel.hi - 1
      <3>1. ASSUME NEW x \in Ran(p) PROVE x \in sel.lo .. sel.hi - 1
        <4>1. PICK k \in 1 .. n : x = sel.lo + k - 1
          BY <2>4, <2>5 DEF Ran
        <4> QED
          BY <2>2, <4>1
      <3>2. ASSUME NEW x \in sel.lo .. sel.hi - 1 PROVE x \in Ran(p)
        <4>1. x - sel.lo + 1 \in 1 .. n /\ sel.lo + (x - sel.lo + 1) - 1 = x
          BY <2>2
        <4> HIDE DEF p, n
        <4>2. p[x - sel.lo + 1] = x
          BY <2>4, <4>1
        <4> QED
          BY <2>5, <4>1, <4>2 DEF Ran
      <3> QED
        BY <3>1, <3>2
    <2>8. Members(sel) = sel.lo .. sel.hi - 1 /\ Members(sel) \subseteq Nat
      BY <1>2, <2>2 DEF Members
    <2>9. SelLen(sel) = n
      BY <2>3, <2>5 DEF SelLen
    <2> HIDE DEF p
    <2>10. \A k \in 1 .. SelLen(sel) : Positions(sel)[k] = sel.lo + k - 1
      BY <2>3, <2>4, <2>9
    <2> QED
      BY <1>2, <2>1, <2>2, <2>3, <2>5, <2>6, <2>7, <2>8, <2>9, <2>10
  <1> QED
    BY <1>1, <1>2

\* Windows, m of them, that hold the positions of a selection in stretches of at
\* most step, in order.
Windowing(ws, m, sel, step) ==
    /\ ws \in [1 .. m -> RangeSels \cup ListSels]
    /\ \A w \in 1 .. m :
          /\ IsIndices(ws[w]) <=> IsIndices(sel)
          /\ SelLen(ws[w]) <= step /\ (w - 1) * step + SelLen(ws[w]) <= SelLen(sel)
          /\ \A k \in 1 .. SelLen(ws[w]) :
                Positions(ws[w])[k] = Positions(sel)[(w - 1) * step + k]
    /\ \A x \in 1 .. SelLen(sel) :
          \E w \in 1 .. m : \E k \in 1 .. SelLen(ws[w]) : x = (w - 1) * step + k

\* A stretch of a selection, as window_outer_selection cuts it.
Stretch(sel, from, upto) ==
    IF IsIndices(sel) THEN IndicesSel(SubSeq(sel.idx, from + 1, upto))
    ELSE RangeSel(sel.lo + from, sel.lo + upto)

\* It has the positions of the stretch.
LEMMA StretchFacts ==
    ASSUME NEW sel \in RangeSels \cup ListSels, NEW from \in Nat, NEW upto \in Nat,
           from <= upto, upto <= SelLen(sel)
    PROVE  /\ Stretch(sel, from, upto) \in RangeSels \cup ListSels
           /\ IsIndices(Stretch(sel, from, upto)) <=> IsIndices(sel)
           /\ SelLen(Stretch(sel, from, upto)) = upto - from
           /\ \A k \in 1 .. upto - from :
                 Positions(Stretch(sel, from, upto))[k] = Positions(sel)[from + k]
  <1> DEFINE n == SelLen(sel)
             w == Stretch(sel, from, upto)
  <1>1. CASE IsIndices(sel)
    <2> DEFINE v == sel.idx
               u == SubSeq(v, from + 1, upto)
    <2>1. v \in Seq(Nat) /\ Len(v) = n /\ Ascends(v) /\ Positions(sel) = v /\ DOMAIN v = 1 .. n /\ n \in Nat
      BY <1>1, SelFacts DEF SelLen
    <2>2. w = IndicesSel(u)
      BY <1>1 DEF Stretch
    <2> HIDE DEF n, v
    <2>3. /\ u \in Seq(Nat) /\ Len(u) = upto - from
          /\ \A k \in 1 .. upto - from : u[k] = v[from + k]
      <3>1. \A i \in from + 1 .. upto : v[i] \in Nat
        BY <2>1 DEF n
      <3>2. /\ u \in Seq(Nat)
            /\ Len(u) = IF from + 1 <= upto THEN upto - (from + 1) + 1 ELSE 0
            /\ \A i \in 1 .. upto - (from + 1) + 1 : u[i] = v[(from + 1) + i - 1]
        BY <3>1, SubSeqProperties
      <3>3. ASSUME NEW k \in 1 .. upto - from PROVE u[k] = v[from + k]
        <4>1. k \in 1 .. upto - (from + 1) + 1 /\ (from + 1) + k - 1 = from + k
          OBVIOUS
        <4> HIDE DEF u
        <4> QED
          BY <3>2, <4>1
      <3> QED
        BY <3>2, <3>3
    <2> HIDE DEF u
    <2>4. DOMAIN u = 1 .. upto - from
      BY <2>3
    <2>5. Ascends(u)
      <3>1. ASSUME NEW j \in 1 .. upto - from, NEW k \in 1 .. upto - from, j < k PROVE u[j] < u[k]
        <4>1. from + j \in 1 .. n /\ from + k \in 1 .. n /\ from + j < from + k
          BY <2>1, <3>1 DEF n
        <4>2. v[from + j] < v[from + k]
          BY <2>1, <4>1 DEF Ascends
        <4> QED
          BY <2>3, <4>2
      <3> QED
        BY <2>4, <3>1 DEF Ascends
    <2>6. w \in ListSels /\ IsIndices(w) /\ Positions(w) = u
      BY <2>2, <2>3, <2>5 DEF ListSels, IndicesSel, IsIndices, Positions
    <2> HIDE DEF w
    <2>7. SelLen(w) = upto - from
      BY <2>3, <2>6 DEF SelLen
    <2> QED
      BY <1>1, <2>1, <2>3, <2>6, <2>7 DEF w
  <1>2. CASE ~IsIndices(sel)
    <2>1. /\ sel.lo \in Nat /\ sel.hi \in Nat /\ n = (IF sel.hi > sel.lo THEN sel.hi - sel.lo ELSE 0)
          /\ \A k \in 1 .. n : Positions(sel)[k] = sel.lo + k - 1
      BY <1>2, SelFacts
    <2>2. w = RangeSel(sel.lo + from, sel.lo + upto)
      BY <1>2 DEF Stretch
    <2>3. w \in RangeSels /\ ~IsIndices(w) /\ w.lo = sel.lo + from /\ w.hi = sel.lo + upto
      BY <2>1, <2>2 DEF RangeSels, RangeSel, IsIndices
    <2> HIDE DEF w
    <2>4. /\ SelLen(w) = (IF w.hi > w.lo THEN w.hi - w.lo ELSE 0)
          /\ \A k \in 1 .. SelLen(w) : Positions(w)[k] = w.lo + k - 1
      BY <2>3, SelFacts
    <2>5. SelLen(w) = upto - from
      BY <2>1, <2>3, <2>4
    <2>6. ASSUME NEW k \in 1 .. upto - from PROVE Positions(w)[k] = Positions(sel)[from + k]
      <3>1. from + k \in 1 .. n
        BY <2>1
      <3>2. Positions(sel)[from + k] = sel.lo + (from + k) - 1
        BY <2>1, <3>1
      <3>3. Positions(w)[k] = (sel.lo + from) + k - 1
        BY <2>3, <2>4, <2>5
      <3> QED
        BY <2>1, <3>2, <3>3
    <2> QED
      BY <1>2, <2>3, <2>5, <2>6 DEF w
  <1> QED
    BY <1>1, <1>2

\* The windows of one axis.
LEMMA WindowFacts ==
    ASSUME NEW sel \in RangeSels \cup ListSels, NEW tile \in Nat
    PROVE  \E m \in Nat \ {0} : Windowing(WindowOuterSelection(sel, tile), m, sel, Max2(1, tile))
  <1> DEFINE n == SelLen(sel)
             step == Max2(1, tile)
             ws == WindowOuterSelection(sel, tile)
             Upto(w) == Min2(w * step, n)
  <1>1. n \in Nat /\ step \in Nat \ {0}
    BY SelFacts DEF Max2
  <1>2. CASE n = 0
    <2>1. ws = <<sel>>
      BY <1>2 DEF WindowOuterSelection
    <2>2. ws \in [1 .. 1 -> RangeSels \cup ListSels] /\ ws[1] = sel
      BY <2>1
    <2>3. 1 .. 1 = {1} /\ (1 - 1) * step = 0 /\ 1 .. 0 = {}
      BY <1>1
    <2> HIDE DEF ws, step
    <2>4. Windowing(ws, 1, sel, step)
      BY <1>1, <1>2, <2>2, <2>3 DEF Windowing
    <2> QED
      BY <2>4 DEF ws, step
  <1>3. CASE n # 0
    <2> DEFINE m == DivCeil(n, step)
    <2>1. ws = [w \in 1 .. m |-> Stretch(sel, (w - 1) * step, Upto(w))]
      BY <1>3 DEF WindowOuterSelection, Stretch
    <2>2. m \in Nat \ {0} /\ (m - 1) * step < n /\ n <= m * step
      <3> HIDE DEF n, step
      <3> QED
        BY <1>1, <1>3, DivCeilFacts
    <2> HIDE DEF m, n, step
    <2>3. ASSUME NEW w \in 1 .. m
          PROVE  /\ (w - 1) * step \in Nat /\ Upto(w) \in Nat /\ (w - 1) * step <= Upto(w) /\ Upto(w) <= n
                 /\ Upto(w) - (w - 1) * step <= step
      <3>1. w - 1 \in Nat /\ w - 1 <= m - 1 /\ m - 1 \in Nat
        BY <2>2
      <3>2. (w - 1) * step <= (m - 1) * step
        BY <1>1, <3>1, MulMono
      <3> DEFINE x == (w - 1) * step
                 y == (m - 1) * step
      <3>3. x \in Nat /\ y \in Nat /\ w * step = x + step
        BY <1>1, <3>1
      <3> HIDE DEF x, y
      <3>4. x <= y /\ y < n
        BY <2>2, <3>2 DEF x, y
      <3>5. Upto(w) = IF x + step <= n THEN x + step ELSE n
        BY <3>3 DEF Min2
      <3>6. x \in Nat /\ Upto(w) \in Nat /\ x <= Upto(w) /\ Upto(w) <= n /\ Upto(w) - x <= step
        BY <1>1, <3>3, <3>4, <3>5
      <3> QED
        BY <3>6 DEF x
    <2> HIDE DEF Upto
    <2>4. ASSUME NEW w \in 1 .. m
          PROVE  /\ ws[w] \in RangeSels \cup ListSels
                 /\ IsIndices(ws[w]) <=> IsIndices(sel)
                 /\ SelLen(ws[w]) = Upto(w) - (w - 1) * step
                 /\ \A k \in 1 .. SelLen(ws[w]) : Positions(ws[w])[k] = Positions(sel)[(w - 1) * step + k]
      <3>1. ws[w] = Stretch(sel, (w - 1) * step, Upto(w))
        BY <2>1
      <3> DEFINE x == (w - 1) * step
                 y == Upto(w)
      <3>2. x \in Nat /\ y \in Nat /\ x <= y /\ y <= SelLen(sel)
        BY <2>3 DEF n
      <3> HIDE DEF x, y, ws
      <3>3. ws[w] = Stretch(sel, x, y)
        BY <3>1 DEF x, y
      <3>4. /\ ws[w] \in RangeSels \cup ListSels
            /\ IsIndices(ws[w]) <=> IsIndices(sel)
            /\ SelLen(ws[w]) = y - x
            /\ \A k \in 1 .. y - x : Positions(ws[w])[k] = Positions(sel)[x + k]
        BY <3>2, <3>3, StretchFacts
      <3> QED
        BY <3>4 DEF x, y
    <2>5. ws \in [1 .. m -> RangeSels \cup ListSels]
      <3>1. ws = [w \in 1 .. m |-> ws[w]]
        BY <2>1
      <3> HIDE DEF ws
      <3> QED
        BY <2>4, <3>1
    <2> HIDE DEF ws
    <2>6. ASSUME NEW w \in 1 .. m
          PROVE  SelLen(ws[w]) <= step /\ (w - 1) * step + SelLen(ws[w]) <= n
      <3> DEFINE x == (w - 1) * step
                 y == Upto(w)
                 z == SelLen(ws[w])
      <3>1. x \in Nat /\ y \in Nat /\ z = y - x /\ y <= n /\ y - x <= step
        BY <2>3, <2>4
      <3> HIDE DEF x, y, z
      <3>2. z <= step /\ x + z <= n
        BY <1>1, <3>1
      <3> QED
        BY <3>2 DEF x, z
    <2>7. ASSUME NEW x \in 1 .. n
          PROVE  \E w \in 1 .. m : \E k \in 1 .. SelLen(ws[w]) : x = (w - 1) * step + k
      <3> DEFINE q == (x - 1) \div step
                 y == q * step
                 w == q + 1
                 k == x - y
      <3>1. x - 1 \in Nat
        BY <1>1
      <3>2. q \in Nat /\ q * step <= x - 1 /\ x - 1 < (q + 1) * step
        BY <1>1, <3>1, DivFacts
      <3> HIDE DEF q
      <3>3. q < m
        <4> SUFFICES ASSUME m <= q PROVE FALSE
          BY <2>2, <3>2
        <4>1. m * step <= q * step
          BY <1>1, <2>2, <3>2, MulMono
        <4> DEFINE a == m * step
                   b == q * step
        <4>2. a \in Nat /\ b \in Nat
          BY <1>1, <2>2, <3>2
        <4> HIDE DEF a, b
        <4>3. n <= a /\ a <= b /\ b <= x - 1
          BY <2>2, <3>2, <4>1 DEF a, b
        <4> QED
          BY <1>1, <4>2, <4>3
      <3>4. w \in 1 .. m /\ w - 1 = q
        BY <2>2, <3>2, <3>3
      <3>5. y \in Nat /\ (q + 1) * step = y + step
        BY <1>1, <3>2
      <3>6. SelLen(ws[w]) = Upto(w) - y
        BY <2>4, <3>4
      <3> HIDE DEF y
      <3>7. y <= x - 1 /\ x - 1 < y + step
        BY <3>2, <3>5 DEF y
      <3>8. Upto(w) = IF y + step <= n THEN y + step ELSE n
        BY <3>4, <3>5 DEF Upto, Min2
      <3>9. k \in 1 .. SelLen(ws[w]) /\ x = y + k
        BY <1>1, <3>5, <3>6, <3>7, <3>8
      <3> HIDE DEF k, w
      <3>10. x = (w - 1) * step + k
        BY <3>4, <3>9 DEF y
      <3> QED
        BY <3>4, <3>9, <3>10
    <2>8. Windowing(ws, m, sel, step)
      BY <2>4, <2>5, <2>6, <2>7 DEF Windowing, n
    <2> QED
      BY <2>2, <2>8 DEF ws, step
  <1> QED
    BY <1>2, <1>3

-----------------------------------------------------------------------------
(* The tile grid. *)

\* The selections of an axis: a range, or an ascending list.
Sels == RangeSels \cup ListSels

\* The windows of one axis with their offsets.
LEMMA WindowsOfAxis ==
    ASSUME NEW sel \in Sels, NEW tile \in Nat
    PROVE  \E m \in Nat \ {0} :
              /\ Windowing(WindowOuterSelection(sel, tile), m, sel, Max2(1, tile))
              /\ Len(AxisWindows(sel, tile)) = m /\ DOMAIN AxisWindows(sel, tile) = 1 .. m
              /\ \A w \in 1 .. m : AxisWindows(sel, tile)[w]
                    = [sel |-> WindowOuterSelection(sel, tile)[w], offset |-> (w - 1) * Max2(1, tile)]
  <1> DEFINE ws == WindowOuterSelection(sel, tile)
             F(w) == [sel |-> ws[w], offset |-> (w - 1) * Max2(1, tile)]
             S == {F(w) : w \in DOMAIN ws}
             aw == AxisWindows(sel, tile)
  <1>1. PICK m \in Nat \ {0} : Windowing(ws, m, sel, Max2(1, tile))
    BY WindowFacts DEF Sels
  <1>2. DOMAIN ws = 1 .. m
    BY <1>1 DEF Windowing
  <1>3. aw = [w \in 1 .. m |-> F(w)]
    BY <1>2 DEF AxisWindows
  <1>4. aw \in [1 .. m -> S]
    BY <1>2, <1>3
  <1>5. Len(aw) = m /\ DOMAIN aw = 1 .. m
    <2> HIDE DEF aw, S
    <2>1. m \in Nat
      OBVIOUS
    <2> QED
      BY <1>4, <2>1, FunIsSeq
  <1> QED
    BY <1>1, <1>3, <1>5

\* A grid over the selections of n axes, standing on one of its tiles.
GridOK(grid, sels, tiles, n) ==
    /\ grid = [per_axis |-> [a \in 1 .. n |-> AxisWindows(sels[a], tiles[a])],
               cursor |-> grid.cursor, done |-> grid.done]
    /\ grid.cursor \in [1 .. n -> Nat]
    /\ \A a \in 1 .. n : grid.cursor[a] \in 1 .. Len(AxisWindows(sels[a], tiles[a]))
    /\ grid.done \in BOOLEAN

\* It starts on the first.
LEMMA GridStarts ==
    ASSUME NEW n \in Nat, NEW sels \in [1 .. n -> Sels], NEW tiles \in [1 .. n -> Nat]
    PROVE  /\ GridOK(TileGrid(sels, tiles), sels, tiles, n)
           /\ TileGrid(sels, tiles).cursor = [a \in 1 .. n |-> 1] /\ ~TileGrid(sels, tiles).done
  <1>1. ASSUME NEW a \in 1 .. n PROVE 1 \in 1 .. Len(AxisWindows(sels[a], tiles[a]))
    <2>1. sels[a] \in Sels /\ tiles[a] \in Nat
      OBVIOUS
    <2> QED
      BY <2>1, WindowsOfAxis
  <1>2. DOMAIN sels = 1 .. n
    OBVIOUS
  <1> QED
    BY <1>1, <1>2 DEF GridOK, TileGrid

\* How the odometer turns: axis t is not on its last window, those inside it are.
Turns(grid, next, t, sels, tiles, n) ==
    /\ t \in 1 .. n
    /\ grid.cursor[t] < Len(AxisWindows(sels[t], tiles[t]))
    /\ \A b \in t + 1 .. n : grid.cursor[b] = Len(AxisWindows(sels[b], tiles[b]))
    /\ next.cursor = [a \in 1 .. n |-> IF a < t THEN grid.cursor[a]
                                       ELSE IF a = t THEN grid.cursor[a] + 1 ELSE 1]
    /\ next.done = grid.done

\* Or every axis is on its last.
RunsOut(grid, next, sels, tiles, n) ==
    /\ \A b \in 1 .. n : grid.cursor[b] = Len(AxisWindows(sels[b], tiles[b]))
    /\ next.done

\* The grid moves on.
LEMMA GridAdvances ==
    ASSUME NEW n \in Nat, NEW sels \in [1 .. n -> Sels], NEW tiles \in [1 .. n -> Nat],
           NEW grid, GridOK(grid, sels, tiles, n)
    PROVE  /\ GridOK(AdvanceGrid(grid), sels, tiles, n)
           /\ \/ RunsOut(grid, AdvanceGrid(grid), sels, tiles, n)
              \/ \E t : Turns(grid, AdvanceGrid(grid), t, sels, tiles, n)
  <1> DEFINE c == grid.cursor
             L(a) == Len(AxisWindows(sels[a], tiles[a]))
             next == AdvanceGrid(grid)
             per == [a \in 1 .. n |-> AxisWindows(sels[a], tiles[a])]
             open == {a \in 1 .. n : c[a] < L(a)}
             turn == CHOOSE a \in open : \A b \in open : b <= a
  <1>1. ASSUME NEW a \in 1 .. n PROVE L(a) \in Nat \ {0}
    <2>1. sels[a] \in Sels /\ tiles[a] \in Nat
      OBVIOUS
    <2> QED
      BY <2>1, WindowsOfAxis
  <1>2. c \in [1 .. n -> Nat] /\ \A a \in 1 .. n : c[a] \in 1 .. L(a)
    BY DEF GridOK
  <1>3. grid = [per_axis |-> per, cursor |-> c, done |-> grid.done] /\ grid.done \in BOOLEAN
    BY DEF GridOK
  <1>4. DOMAIN c = 1 .. n
    BY <1>2
  <1>5. open = {a \in DOMAIN grid.cursor : grid.cursor[a] < Len(grid.per_axis[a])}
    BY <1>3, <1>4
  <1> DEFINE inner == {a \in DOMAIN grid.cursor : grid.cursor[a] < Len(grid.per_axis[a])}
             which == CHOOSE a \in inner : \A b \in inner : b <= a
             first == [a \in DOMAIN grid.cursor |-> 1]
             moved == [a \in DOMAIN grid.cursor |->
                         CASE a < which -> grid.cursor[a] [] a = which -> grid.cursor[a] + 1 [] OTHER -> 1]
  <1>d. next = IF inner = {} THEN [grid EXCEPT !.done = TRUE, !.cursor = first]
               ELSE [grid EXCEPT !.cursor = moved]
    BY DEF AdvanceGrid
  <1>e. inner = open /\ which = turn
    BY <1>5
  <1>f. first = [a \in 1 .. n |-> 1]
    BY <1>4
  <1>g. moved = [a \in 1 .. n |-> CASE a < turn -> c[a] [] a = turn -> c[a] + 1 [] OTHER -> 1]
    <2> HIDE DEF inner, which, open, turn
    <2> QED
      BY <1>4, <1>e
  <1> HIDE DEF inner, which, first, moved
  <1>6. /\ open = {} => next = [grid EXCEPT !.done = TRUE, !.cursor = first]
        /\ open # {} => next = [grid EXCEPT !.cursor = moved]
    <2> HIDE DEF open, next
    <2> QED
      BY <1>d, <1>e
  <1> HIDE DEF L
  <1>7. CASE open = {}
    <2>1. next = [grid EXCEPT !.done = TRUE, !.cursor = first]
      BY <1>6, <1>7
    <2>2. next = [per_axis |-> per, cursor |-> [a \in 1 .. n |-> 1], done |-> TRUE]
      <3> DEFINE d == grid.done
                 yes == TRUE
                 full == [grid EXCEPT !.done = yes]
      <3>1. grid = [per_axis |-> per, cursor |-> c, done |-> d]
        BY <1>3
      <3>0. [grid EXCEPT !.done = TRUE, !.cursor = first] = [full EXCEPT !.cursor = first]
        OBVIOUS
      <3> HIDE DEF next, per, c, d, yes
      <3>2. full = [per_axis |-> per, cursor |-> c, done |-> yes]
        BY <3>1
      <3>3. [full EXCEPT !.cursor = first] = [per_axis |-> per, cursor |-> first, done |-> yes]
        <4> HIDE DEF full
        <4> QED
          BY <3>2
      <3> HIDE DEF full
      <3>4. next = [per_axis |-> per, cursor |-> [a \in 1 .. n |-> 1], done |-> yes]
        BY <1>f, <2>1, <3>0, <3>3
      <3> QED
        BY <3>4 DEF yes
    <2>3. next.per_axis = per /\ next.cursor = [a \in 1 .. n |-> 1] /\ next.done = TRUE
      <3> HIDE DEF next, per, c
      <3> QED
        BY <2>2
    <2>4. next.cursor \in [1 .. n -> Nat] /\ \A a \in 1 .. n : next.cursor[a] \in 1 .. L(a)
      <3> HIDE DEF next
      <3> QED
        BY <1>1, <2>3
    <2>5. GridOK(next, sels, tiles, n)
      <3> HIDE DEF next
      <3> QED
        BY <2>2, <2>3, <2>4 DEF GridOK, L
    <2>6. RunsOut(grid, next, sels, tiles, n)
      <3> HIDE DEF next
      <3>1. ASSUME NEW b \in 1 .. n PROVE c[b] = L(b)
        <4>1. b \notin open /\ c[b] \in 1 .. L(b) /\ L(b) \in Nat
          BY <1>1, <1>2, <1>7
        <4> QED
          BY <4>1
      <3> QED
        BY <2>3, <3>1 DEF RunsOut, L
    <2> QED
      BY <2>5, <2>6
  <1>8. CASE open # {}
    <2>1. turn \in open /\ \A b \in open : b <= turn
      <3>1. open \subseteq 0 .. (n + 1) - 1 /\ n + 1 \in Nat
        OBVIOUS
      <3> HIDE DEF open
      <3>2. \E a \in open : \A b \in open : b <= a
        <4>1. open \subseteq Nat /\ IsFiniteSet(0 .. n)
          BY <3>1, FS_Interval
        <4> DEFINE D == {n - b : b \in open}
        <4>0. \A b \in open : n - b \in Nat
          BY <3>1
        <4>2. D \subseteq Nat /\ D # {}
          BY <1>8, <4>0
        <4> HIDE DEF D
        <4>3. PICK d \in D : \A e \in D : d <= e
          BY <4>2, LeastNat
        <4>4. PICK a \in open : d = n - a
          BY DEF D
        <4>5. ASSUME NEW b \in open PROVE b <= a
          <5>1. n - b \in D
            BY DEF D
          <5>2. n - a <= n - b /\ a \in Nat /\ b \in Nat
            BY <4>1, <4>3, <4>4, <5>1
          <5> QED
            BY <5>2
        <4> QED
          BY <4>5
      <3> QED
        BY <3>2
    <2>t. turn \in 1 .. n /\ c[turn] < L(turn)
      BY <2>1
    <2> DEFINE step == [a \in 1 .. n |-> CASE a < turn -> c[a] [] a = turn -> c[a] + 1 [] OTHER -> 1]
    <2>2. next = [grid EXCEPT !.cursor = step]
      BY <1>6, <1>8, <1>g
    <2>3. next = [per_axis |-> per, cursor |-> step, done |-> grid.done]
      <3> HIDE DEF next, per, c, step
      <3> QED
        BY <1>3, <2>2
    <2>4. next.per_axis = per /\ next.cursor = step /\ next.done = grid.done
      <3> HIDE DEF next, per, c, step
      <3> QED
        BY <2>3
    <2> HIDE DEF turn, open
    <2>5. step = [a \in 1 .. n |-> IF a < turn THEN c[a] ELSE IF a = turn THEN c[a] + 1 ELSE 1]
      BY <2>t
    <2>6. ASSUME NEW a \in 1 .. n PROVE step[a] \in Nat /\ step[a] \in 1 .. L(a)
      <3> HIDE DEF step
      <3>1. c[a] \in 1 .. L(a) /\ L(a) \in Nat \ {0} /\ c[a] \in Nat
        BY <1>1, <1>2
      <3>2. step[a] = IF a < turn THEN c[a] ELSE IF a = turn THEN c[a] + 1 ELSE 1
        BY <2>5
      <3>3. a = turn => c[a] + 1 <= L(a)
        BY <2>t, <3>1
      <3> QED
        BY <3>1, <3>2, <3>3
    <2>7. step \in [1 .. n -> Nat]
      BY <2>6
    <2> HIDE DEF step
    <2>8. GridOK(next, sels, tiles, n)
      <3> HIDE DEF next
      <3> QED
        BY <1>3, <2>3, <2>4, <2>6, <2>7 DEF GridOK, L
    <2>9. Turns(grid, next, turn, sels, tiles, n)
      <3> HIDE DEF next
      <3>1. ASSUME NEW b \in turn + 1 .. n PROVE c[b] = L(b)
        <4>1. b \in 1 .. n /\ ~(b <= turn)
          BY <2>t
        <4>2. b \notin open
          BY <2>1, <4>1
        <4>3. c[b] \in 1 .. L(b) /\ L(b) \in Nat
          BY <1>1, <1>2, <4>1
        <4> QED
          BY <4>1, <4>2, <4>3 DEF open
      <3> QED
        BY <2>t, <2>4, <2>5, <3>1 DEF Turns, L
    <2> QED
      BY <2>8, <2>9
  <1> QED
    BY <1>7, <1>8

\* A window of a tile: the w-th of its axis.
IsWindow(window, sel, tile, w) ==
    /\ window.sel = WindowOuterSelection(sel, tile)[w]
    /\ window.offset = (w - 1) * Max2(1, tile)
    /\ window.sel \in Sels
    /\ SelLen(window.sel) \in Nat
    /\ SelLen(window.sel) <= Max2(1, tile)

\* The tile the grid stands on: a window of each axis.
LEMMA TileFacts ==
    ASSUME NEW n \in Nat, NEW sels \in [1 .. n -> Sels], NEW tiles \in [1 .. n -> Nat],
           NEW grid, GridOK(grid, sels, tiles, n)
    PROVE  /\ DOMAIN CurrentTile(grid) = 1 .. n
           /\ \A a \in 1 .. n : IsWindow(CurrentTile(grid)[a], sels[a], tiles[a], grid.cursor[a])
  <1>1. /\ grid.per_axis = [a \in 1 .. n |-> AxisWindows(sels[a], tiles[a])]
        /\ DOMAIN grid.cursor = 1 .. n
        /\ \A a \in 1 .. n : grid.cursor[a] \in 1 .. Len(AxisWindows(sels[a], tiles[a]))
    BY DEF GridOK
  <1>2. CurrentTile(grid) = [a \in 1 .. n |-> AxisWindows(sels[a], tiles[a])[grid.cursor[a]]]
    BY <1>1 DEF CurrentTile
  <1> HIDE DEF CurrentTile
  <1>3. ASSUME NEW a \in 1 .. n
        PROVE  IsWindow(CurrentTile(grid)[a], sels[a], tiles[a], grid.cursor[a])
    <2> DEFINE w == grid.cursor[a]
               ws == WindowOuterSelection(sels[a], tiles[a])
    <2>1. PICK m \in Nat \ {0} :
              /\ Windowing(ws, m, sels[a], Max2(1, tiles[a]))
              /\ Len(AxisWindows(sels[a], tiles[a])) = m
              /\ \A x \in 1 .. m : AxisWindows(sels[a], tiles[a])[x]
                    = [sel |-> ws[x], offset |-> (x - 1) * Max2(1, tiles[a])]
      BY WindowsOfAxis
    <2>2. w \in 1 .. m
      BY <1>1, <2>1
    <2>3. CurrentTile(grid)[a] = [sel |-> ws[w], offset |-> (w - 1) * Max2(1, tiles[a])]
      BY <1>2, <2>1, <2>2
    <2>4. ws[w] \in Sels /\ SelLen(ws[w]) <= Max2(1, tiles[a])
      <3> HIDE DEF ws, w
      <3> QED
        BY <2>1, <2>2 DEF Windowing, Sels
    <2>5. SelLen(ws[w]) \in Nat
      BY <2>4, SelFacts DEF Sels
    <2> HIDE DEF ws, w
    <2>6. CurrentTile(grid)[a].sel = ws[w] /\ CurrentTile(grid)[a].offset = (w - 1) * Max2(1, tiles[a])
      BY <2>3
    <2> QED
      BY <2>4, <2>5, <2>6 DEF ws, w, IsWindow
  <1> QED
    BY <1>2, <1>3

\* Products are naturals.
LEMMA MulNat ==
    ASSUME NEW a \in Nat, NEW b \in Nat
    PROVE  a * b \in Nat
  OBVIOUS

\* The rows that each position of the first axis heads.
InnerRows(box) == ProductAfter(SizesOf(box), 1)

\* An array is made of blocks, one for each position of its first axis.
LEMMA InnerRowsFacts ==
    ASSUME NEW n \in Nat \ {0}, NEW box \in [1 .. n -> Seq(Nat)]
    PROVE  /\ InnerRows(box) \in Nat
           /\ Product(SizesOf(box)) = Len(box[1]) * InnerRows(box)
           /\ RowMajor(box) \in Seq([1 .. n -> Nat])
           /\ Len(RowMajor(box)) = Len(box[1]) * InnerRows(box)
  <1> DEFINE s == SizesOf(box)
             R == RowMajor(box)
  <1>1. s \in [1 .. n -> Nat] /\ Product(s) \in Nat
    BY RowMajorIs
  <1>2. s[1] = Len(box[1]) /\ 1 \in 1 .. n /\ 1 - 1 = 0
    BY DEF SizesOf
  <1> HIDE DEF s
  <1>0. n \in Nat /\ 1 \in 0 .. n
    OBVIOUS
  <1>3. ProductAfter(s, 1) \in Nat /\ Product(s) = s[1] * ProductAfter(s, 1)
    <2>1. /\ \A i \in 0 .. n : ProductAfter(s, i) \in Nat
          /\ \A i \in 1 .. n : ProductAfter(s, i - 1) = s[i] * ProductAfter(s, i)
          /\ Product(s) = ProductAfter(s, 0)
      BY <1>0, <1>1, ProductFacts
    <2>2. ProductAfter(s, 1 - 1) = s[1] * ProductAfter(s, 1)
      BY <1>2, <2>1
    <2> QED
      BY <1>0, <1>2, <2>1, <2>2
  <1>4. R \in [1 .. Product(s) -> [1 .. n -> Nat]]
    <2>1. R = [k \in 1 .. Product(s) |-> [a \in 1 .. n |-> box[a][Digit(s, k - 1, a) + 1]]]
      BY RowMajorIs DEF s
    <2>2. ASSUME NEW k \in 1 .. Product(s), NEW a \in 1 .. n
          PROVE  box[a][Digit(s, k - 1, a) + 1] \in Nat
      <3>1. Digit(s, k - 1, a) + 1 \in 1 .. s[a]
        BY <1>1, DigitRange
      <3>2. box[a] \in Seq(Nat)
        OBVIOUS
      <3>3. DOMAIN box[a] = 1 .. s[a]
        BY <3>2 DEF s, SizesOf
      <3> DEFINE v == box[a]
                 i == Digit(s, k - 1, a) + 1
      <3>4. v \in Seq(Nat) /\ i \in DOMAIN v
        BY <3>1, <3>2, <3>3
      <3> HIDE DEF v, i
      <3>5. v[i] \in Nat
        BY <3>4
      <3> QED
        BY <3>5 DEF v, i
    <2> HIDE DEF R
    <2> QED
      BY <2>1, <2>2
  <1>5. R \in Seq([1 .. n -> Nat]) /\ Len(R) = Product(s)
    <2> DEFINE m == Product(s)
               C == [1 .. n -> Nat]
    <2>1. m \in Nat /\ R \in [1 .. m -> C]
      BY <1>1, <1>4
    <2> HIDE DEF R, m, C
    <2>2. R \in Seq(C) /\ Len(R) = m
      BY <2>1, FunIsSeq
    <2> QED
      BY <2>2 DEF m, C
  <1> QED
    BY <1>2, <1>3, <1>5 DEF InnerRows, s

\* A block depends on its position on the first axis and on the other axes.
LEMMA BlockRows ==
    ASSUME NEW n \in Nat \ {0}, NEW box \in [1 .. n -> Seq(Nat)], NEW piece \in [1 .. n -> Seq(Nat)],
           \A a \in 2 .. n : box[a] = piece[a],
           NEW b \in 1 .. Len(box[1]), NEW c \in 1 .. Len(piece[1]), box[1][b] = piece[1][c]
    PROVE  \A x \in 1 .. InnerRows(box) :
              RowMajor(box)[(b - 1) * InnerRows(box) + x] = RowMajor(piece)[(c - 1) * InnerRows(box) + x]
  <1> DEFINE s == SizesOf(box)
             t == SizesOf(piece)
             w == InnerRows(box)
  <1>1. /\ s \in [1 .. n -> Nat] /\ Product(s) \in Nat
        /\ t \in [1 .. n -> Nat] /\ Product(t) \in Nat
    BY RowMajorIs
  <1>2. RowMajor(box) = [k \in 1 .. Product(s) |-> [a \in 1 .. n |-> box[a][Digit(s, k - 1, a) + 1]]]
    BY RowMajorIs
  <1>3. RowMajor(piece) = [k \in 1 .. Product(t) |-> [a \in 1 .. n |-> piece[a][Digit(t, k - 1, a) + 1]]]
    BY RowMajorIs
  <1>4. /\ s[1] = Len(box[1]) /\ t[1] = Len(piece[1])
        /\ \A a \in 2 .. n : s[a] = t[a]
    BY DEF SizesOf
  <1>5. w = ProductAfter(s, 1) /\ w \in Nat
    BY InnerRowsFacts DEF InnerRows
  <1> HIDE DEF s, t, w
  <1>6. \A a \in 1 .. n : ProductAfter(s, a) = ProductAfter(t, a)
    <2> DEFINE i == 1
    <2>1. i \in 0 .. n /\ n \in Nat /\ \A a \in i + 1 .. n : s[a] = t[a]
      BY <1>4
    <2> HIDE DEF i
    <2>2. \A j \in i .. n : ProductAfter(s, j) = ProductAfter(t, j)
      BY <1>1, <2>1, ProductAgrees
    <2> QED
      BY <2>2 DEF i
  <1>7. w = ProductAfter(t, 1)
    BY <1>5, <1>6
  <1> SUFFICES ASSUME NEW x \in 1 .. w
               PROVE  RowMajor(box)[(b - 1) * w + x] = RowMajor(piece)[(c - 1) * w + x]
    BY DEF w
  <1> DEFINE r == (b - 1) * w + (x - 1)
             u == (c - 1) * w + (x - 1)
  <1>8. /\ r \in 0 .. Product(s) - 1 /\ Digit(s, r, 1) = b - 1
        /\ \A a \in 2 .. n : Digit(s, r, a) = Digit(s, x - 1, a)
    <2>1. b \in 1 .. s[1] /\ x \in 1 .. ProductAfter(s, 1)
      BY <1>4, <1>5
    <2>2. LET r1 == (b - 1) * ProductAfter(s, 1) + (x - 1)
          IN /\ r1 \in 0 .. Product(s) - 1
             /\ Digit(s, r1, 1) = b - 1
             /\ \A a \in 2 .. n : Digit(s, r1, a) = Digit(s, x - 1, a)
      BY <1>1, <2>1, BlockDigits
    <2> QED
      BY <1>5, <2>2
  <1>9. /\ u \in 0 .. Product(t) - 1 /\ Digit(t, u, 1) = c - 1
        /\ \A a \in 2 .. n : Digit(t, u, a) = Digit(t, x - 1, a)
    <2>1. c \in 1 .. t[1] /\ x \in 1 .. ProductAfter(t, 1)
      BY <1>4, <1>7
    <2>2. LET r1 == (c - 1) * ProductAfter(t, 1) + (x - 1)
          IN /\ r1 \in 0 .. Product(t) - 1
             /\ Digit(t, r1, 1) = c - 1
             /\ \A a \in 2 .. n : Digit(t, r1, a) = Digit(t, x - 1, a)
      BY <1>1, <2>1, BlockDigits
    <2> QED
      BY <1>7, <2>2
  <1>10. /\ (b - 1) * w + x = r + 1 /\ (c - 1) * w + x = u + 1
    <2> DEFINE bb == b - 1
               cc == c - 1
               y == bb * w
               z == cc * w
    <2>1. b - 1 \in Nat /\ c - 1 \in Nat /\ x \in Nat
      <3>1. box[1] \in Seq(Nat) /\ piece[1] \in Seq(Nat)
        OBVIOUS
      <3>2. b \in Nat \ {0} /\ c \in Nat \ {0}
        BY <3>1
      <3> QED
        BY <1>5, <3>2
    <2>2. y \in Nat /\ z \in Nat
      <3>1. bb \in Nat /\ cc \in Nat
        BY <2>1
      <3> HIDE DEF bb, cc
      <3> QED
        BY <1>5, <3>1, MulNat
    <2> HIDE DEF y, z
    <2>3. y + x = y + (x - 1) + 1 /\ z + x = z + (x - 1) + 1
      BY <2>1, <2>2
    <2> QED
      BY <2>3 DEF y, z
  <1> HIDE DEF r, u
  <1>11. /\ r + 1 \in 1 .. Product(s) /\ (r + 1) - 1 = r
         /\ u + 1 \in 1 .. Product(t) /\ (u + 1) - 1 = u
    <2> DEFINE y == Product(s)
               z == Product(t)
    <2>1. y \in Nat /\ z \in Nat /\ r \in 0 .. y - 1 /\ u \in 0 .. z - 1
      BY <1>1, <1>8, <1>9
    <2> HIDE DEF y, z
    <2>2. /\ r + 1 \in 1 .. y /\ (r + 1) - 1 = r
          /\ u + 1 \in 1 .. z /\ (u + 1) - 1 = u
      BY <2>1
    <2> QED
      BY <2>2 DEF y, z
  <1>12. /\ RowMajor(box)[r + 1] = [a \in 1 .. n |-> box[a][Digit(s, r, a) + 1]]
         /\ RowMajor(piece)[u + 1] = [a \in 1 .. n |-> piece[a][Digit(t, u, a) + 1]]
    BY <1>2, <1>3, <1>11
  <1>13. ASSUME NEW a \in 1 .. n
         PROVE  box[a][Digit(s, r, a) + 1] = piece[a][Digit(t, u, a) + 1]
    <2>1. CASE a = 1
      <3>1. Digit(s, r, a) + 1 = b /\ Digit(t, u, a) + 1 = c
        <4>1. box[1] \in Seq(Nat) /\ piece[1] \in Seq(Nat)
          OBVIOUS
        <4>2. b \in Nat /\ c \in Nat
          BY <4>1
        <4>3. Digit(s, r, a) = b - 1 /\ Digit(t, u, a) = c - 1
          BY <1>8, <1>9, <2>1
        <4> QED
          BY <4>2, <4>3
      <3> QED
        BY <2>1, <3>1
    <2>2. CASE a # 1
      <3>1. a \in 2 .. n
        BY <2>2
      <3>2. Digit(s, x - 1, a) = Digit(t, x - 1, a)
        BY <1>4, <1>6, <3>1 DEF Digit
      <3> QED
        BY <1>8, <1>9, <3>1, <3>2
    <2> QED
      BY <2>1, <2>2
  <1> QED
    BY <1>10, <1>12, <1>13

-----------------------------------------------------------------------------
(* Sequences put together. *)

\* A sequence cut into consecutive parts.
Parts(seqs, n, T, off) ==
    /\ off \in [0 .. n -> Nat] /\ off[0] = 0 /\ off[n] = Len(T)
    /\ \A i \in 1 .. n : /\ off[i] = off[i - 1] + Len(seqs[i])
                         /\ \A x \in 1 .. Len(seqs[i]) : seqs[i][x] = T[off[i - 1] + x]

\* Part i is the stretch of the sequence from off[i - 1] on.
PartAt(seqs, i, T, off, X) ==
    /\ T \in Seq(X) /\ Len(seqs[i]) \in Nat /\ off[i - 1] \in Nat
    /\ off[i] = off[i - 1] + Len(seqs[i]) /\ off[i] <= Len(T)
    /\ \A x \in 1 .. Len(seqs[i]) : off[i - 1] + x \in 1 .. Len(T) /\ T[off[i - 1] + x] = seqs[i][x]

\* Every place of a part is one of the sequence.
LEMMA PartPlace ==
    ASSUME NEW n \in Nat, NEW X, NEW seqs \in [1 .. n -> Seq(X)], NEW T \in Seq(X), NEW off,
           Parts(seqs, n, T, off), NEW i \in 1 .. n
    PROVE  PartAt(seqs, i, T, off, X)
  <1>1. /\ off \in [0 .. n -> Nat] /\ off[n] = Len(T)
        /\ \A g \in 1 .. n : /\ off[g] = off[g - 1] + Len(seqs[g])
                             /\ \A x \in 1 .. Len(seqs[g]) : seqs[g][x] = T[off[g - 1] + x]
    BY DEF Parts
  <1>2. ASSUME NEW g \in 1 .. n PROVE Len(seqs[g]) \in Nat /\ g - 1 \in 0 .. n /\ off[g - 1] \in Nat
    <2>1. seqs[g] \in Seq(X)
      OBVIOUS
    <2> QED
      BY <1>1, <2>1
  <1> DEFINE B == {k \in 0 .. n : off[n - k] <= off[n]}
  <1>3. 0 \in B
    <2>1. n - 0 = n /\ off[n] \in Nat /\ 0 \in 0 .. n
      BY <1>1
    <2> QED
      BY <2>1
  <1>4. ASSUME NEW k \in 1 .. n, k - 1 \in B PROVE k \in B
    <2> DEFINE g == n - (k - 1)
    <2>1. g \in 1 .. n /\ g - 1 = n - k /\ n - k \in 0 .. n
      OBVIOUS
    <2>2. off[g] <= off[n]
      BY <1>4
    <2> HIDE DEF g
    <2>3. off[g] = off[g - 1] + Len(seqs[g]) /\ Len(seqs[g]) \in Nat /\ off[g - 1] \in Nat /\ off[n] \in Nat
      BY <1>1, <1>2, <2>1
    <2>4. off[g - 1] <= off[n]
      BY <2>2, <2>3
    <2>5. off[n - k] <= off[n] /\ k \in 0 .. n
      BY <2>1, <2>4
    <2> QED
      BY <2>5
  <1>5. \A k \in 0 .. n : k \in B
    <2> HIDE DEF B
    <2> QED
      BY <1>3, <1>4, Upward
  <1>6. off[i] <= Len(T)
    <2>1. n - i \in 0 .. n /\ n - (n - i) = i
      OBVIOUS
    <2>2. n - i \in B
      BY <1>5, <2>1
    <2>3. off[n - (n - i)] <= off[n]
      BY <2>2
    <2> QED
      BY <1>1, <2>1, <2>3
  <1>7. /\ off[i] = off[i - 1] + Len(seqs[i])
        /\ \A x \in 1 .. Len(seqs[i]) : seqs[i][x] = T[off[i - 1] + x]
    BY <1>1
  <1>8. Len(T) \in Nat
    OBVIOUS
  <1> QED
    BY <1>2, <1>6, <1>7, <1>8 DEF PartAt

\* The parts in order are the sequence.
LEMMA FlattenParts ==
    ASSUME NEW n \in Nat, NEW X, NEW seqs \in [1 .. n -> Seq(X)], NEW T \in Seq(X), NEW off,
           Parts(seqs, n, T, off)
    PROVE  FlattenSeq(seqs) = T
  <1>1. Len(seqs) = n /\ seqs \in Seq(Seq(X))
    BY FunIsSeq
  <1>p. /\ off \in [0 .. n -> Nat] /\ off[0] = 0 /\ off[n] = Len(T)
        /\ \A i \in 1 .. n : /\ off[i] = off[i - 1] + Len(seqs[i])
                             /\ \A x \in 1 .. Len(seqs[i]) : seqs[i][x] = T[off[i - 1] + x]
    BY DEF Parts
  <1>2. CASE n = 0
    <2>1. seqs = <<>> /\ T = <<>>
      BY <1>1, <1>2, <1>p
    <2> QED
      BY <1>1, <1>2, <2>1 DEF FlattenSeq
  <1>3. CASE n # 0
    <2> DEFINE IsFlat(f) == f = [i \in 1 .. n |-> IF i = 1 THEN seqs[i] ELSE f[i - 1] \o seqs[i]]
               h == [kx \in (1 .. n) \X Seq(X) |-> kx[2] \o seqs[kx[1]]]
    <2>1. h \in [(1 .. n) \X Seq(X) -> Seq(X)]
      <3> SUFFICES ASSUME NEW kx \in (1 .. n) \X Seq(X) PROVE kx[2] \o seqs[kx[1]] \in Seq(X)
        OBVIOUS
      <3>1. kx[2] \in Seq(X) /\ seqs[kx[1]] \in Seq(X)
        OBVIOUS
      <3> QED
        BY <3>1, ConcatProperties
    <2>2. <<>> \in Seq(X)
      BY EmptySeq
    <2>3. PICK g : IsLoop(g, n, Seq(X), <<>>, h)
      <3> HIDE DEF h
      <3> QED
        BY <2>1, <2>2, Iterates
    <2>4. /\ g \in [0 .. n -> Seq(X)] /\ g[0] = <<>>
          /\ \A k \in 1 .. n : g[k] = g[k - 1] \o seqs[k]
      <3>1. g \in [0 .. n -> Seq(X)] /\ g[0] = <<>> /\ \A k \in 1 .. n : g[k] = h[<<k, g[k - 1]>>]
        BY <2>3 DEF IsLoop
      <3>2. ASSUME NEW k \in 1 .. n PROVE h[<<k, g[k - 1]>>] = g[k - 1] \o seqs[k]
        <4>0. k - 1 \in 0 .. n
          OBVIOUS
        <4>1. <<k, g[k - 1]>> \in (1 .. n) \X Seq(X)
          BY <3>1, <4>0
        <4> QED
          BY <4>1
      <3> QED
        BY <3>1, <3>2
    <2> HIDE DEF h
    <2> DEFINE e == [i \in 1 .. n |-> g[i]]
    <2>5. IsFlat(e)
      <3>1. ASSUME NEW i \in 1 .. n PROVE e[i] = IF i = 1 THEN seqs[i] ELSE e[i - 1] \o seqs[i]
        <4>1. CASE i = 1
          <5>0. 1 \in 1 .. n /\ 1 - 1 = 0
            BY <1>3
          <5>1. g[1] = <<>> \o seqs[1] /\ seqs[1] \in Seq(X)
            <6>1. g[1] = g[1 - 1] \o seqs[1]
              BY <2>4, <5>0
            <6> QED
              BY <2>4, <5>0, <6>1
          <5>2. <<>> \o seqs[1] = seqs[1]
            BY <5>1, ConcatEmptySeq
          <5> QED
            BY <4>1, <5>1, <5>2
        <4>2. CASE i # 1
          <5>1. i - 1 \in 1 .. n
            BY <4>2
          <5> QED
            BY <2>4, <4>2, <5>1
        <4> QED
          BY <4>1, <4>2
      <3>2. e = [i \in 1 .. n |-> e[i]]
        OBVIOUS
      <3> HIDE DEF e
      <3> QED
        BY <3>1, <3>2
    <2> DEFINE f == CHOOSE f : IsFlat(f)
    <2>6. IsFlat(f)
      <3> HIDE DEF e, IsFlat
      <3> QED
        BY <2>5
    <2>7. FlattenSeq(seqs) = f[n]
      BY <1>1, <1>3 DEF FlattenSeq
    <2> HIDE DEF f
    <2>8. f[1] = seqs[1] /\ \A i \in 2 .. n : f[i] = f[i - 1] \o seqs[i]
      <3>1. f = [i \in 1 .. n |-> IF i = 1 THEN seqs[i] ELSE f[i - 1] \o seqs[i]]
        BY <2>6
      <3>2. 1 \in 1 .. n
        BY <1>3
      <3>3. ASSUME NEW i \in 1 .. n PROVE f[i] = IF i = 1 THEN seqs[i] ELSE f[i - 1] \o seqs[i]
        BY <3>1
      <3>4. \A i \in 2 .. n : i \in 1 .. n /\ i # 1
        OBVIOUS
      <3> QED
        BY <3>2, <3>3, <3>4
    <2> HIDE DEF IsFlat
    <2> DEFINE Is(u, m) == u \in Seq(X) /\ Len(u) = m /\ \A x \in 1 .. m : u[x] = T[x]
               U == {i \in 0 .. n : i = 0 \/ Is(f[i], off[i])}
    <2>9. 0 \in U
      OBVIOUS
    <2>10. ASSUME NEW i \in 1 .. n, i - 1 \in U PROVE i \in U
      <3>0. /\ seqs[i] \in Seq(X) /\ Len(seqs[i]) \in Nat
            /\ off[i - 1] \in Nat /\ off[i] = off[i - 1] + Len(seqs[i])
            /\ \A x \in 1 .. Len(seqs[i]) : seqs[i][x] = T[off[i - 1] + x]
        BY <1>p
      <3>1. CASE i = 1
        <4>1. Is(f[1], off[1])
          BY <1>p, <2>8, <3>0, <3>1
        <4> HIDE DEF Is
        <4> QED
          BY <3>1, <4>1
      <3>2. CASE i # 1
        <4>1. i - 1 # 0 /\ i \in 2 .. n
          BY <3>2
        <4>2. Is(f[i - 1], off[i - 1])
          BY <2>10, <4>1
        <4> DEFINE u == f[i - 1]
                   v == seqs[i]
                   m == off[i - 1]
        <4>3. f[i] = u \o v
          BY <2>8, <4>1
        <4>4. u \in Seq(X) /\ Len(u) = m /\ \A x \in 1 .. m : u[x] = T[x]
          BY <4>2
        <4>5. /\ v \in Seq(X) /\ Len(v) \in Nat /\ m \in Nat /\ off[i] = m + Len(v)
              /\ \A x \in 1 .. Len(v) : v[x] = T[m + x]
          BY <3>0
        <4> HIDE DEF u, v, m, Is
        <4>6. /\ u \o v \in Seq(X) /\ Len(u \o v) = m + Len(v)
              /\ \A x \in 1 .. m + Len(v) : (u \o v)[x] = IF x <= m THEN u[x] ELSE v[x - m]
          BY <4>4, <4>5, ConcatProperties
        <4>7. ASSUME NEW x \in 1 .. m + Len(v) PROVE (u \o v)[x] = T[x]
          <5>1. CASE x <= m
            BY <4>4, <4>5, <4>6, <5>1
          <5>2. CASE ~(x <= m)
            <6>1. x - m \in 1 .. Len(v) /\ m + (x - m) = x
              BY <4>5, <5>2
            <6>2. v[x - m] = T[m + (x - m)]
              BY <4>5, <6>1
            <6> QED
              BY <4>6, <5>2, <6>1, <6>2
          <5> QED
            BY <5>1, <5>2
        <4>8. Is(u \o v, m + Len(v))
          BY <4>6, <4>7 DEF Is
        <4>9. Is(f[i], off[i])
          BY <4>3, <4>5, <4>8
        <4> QED
          BY <4>9
      <3> QED
        BY <3>1, <3>2
    <2>11. \A i \in 0 .. n : i \in U
      <3> HIDE DEF U
      <3> QED
        BY <2>9, <2>10, Upward
    <2>12. Is(f[n], off[n])
      BY <1>3, <2>11
    <2>13. f[n] = T
      BY <1>p, <2>12, SeqEqual
    <2> QED
      BY <2>7, <2>13
  <1> QED
    BY <1>2, <1>3

-----------------------------------------------------------------------------
(* Ascending lists and their chunk groups. *)

\* An ascending list is determined by what it holds.
LEMMA AscendsPrefix ==
    ASSUME NEW u \in Seq(Nat), NEW v \in Seq(Nat), Ascends(u), Ascends(v), Ran(u) \subseteq Ran(v),
           Ran(v) \subseteq Ran(u)
    PROVE  \A k \in 1 .. Len(u) : k \in 1 .. Len(v) /\ u[k] = v[k]
  <1> DEFINE n == Len(u)
             T == {k \in 0 .. n : \A j \in 1 .. k : j \in 1 .. Len(v) /\ u[j] = v[j]}
  <1>1. /\ n \in Nat /\ DOMAIN u = 1 .. n /\ Len(v) \in Nat /\ DOMAIN v = 1 .. Len(v)
        /\ \A k \in 1 .. n : u[k] \in Nat
        /\ \A k \in 1 .. Len(v) : v[k] \in Nat
    OBVIOUS
  <1>2. 0 \in T
    BY <1>1
  <1>3. ASSUME NEW k \in 1 .. n, k - 1 \in T PROVE k \in T
    <2>1. k \in 0 .. n /\ \A j \in 1 .. k - 1 : j \in 1 .. Len(v) /\ u[j] = v[j]
      BY <1>1, <1>3
    <2>2. PICK i \in 1 .. Len(v) : v[i] = u[k]
      <3>1. u[k] \in Ran(u)
        BY <1>1 DEF Ran
      <3> QED
        BY <1>1, <3>1 DEF Ran
    <2>3. ~(i < k)
      <3> SUFFICES ASSUME i < k PROVE FALSE
        OBVIOUS
      <3>1. i \in 1 .. k - 1 /\ i \in DOMAIN u /\ k \in DOMAIN u
        BY <1>1
      <3>2. u[i] = v[i] /\ u[i] < u[k]
        BY <2>1, <3>1 DEF Ascends
      <3> QED
        BY <1>1, <2>2, <3>2
    <2>4. k \in 1 .. Len(v)
      BY <1>1, <2>3
    <2>5. PICK j \in 1 .. n : u[j] = v[k]
      <3>1. v[k] \in Ran(v)
        BY <1>1, <2>4 DEF Ran
      <3> QED
        BY <1>1, <3>1 DEF Ran
    <2>6. ~(j < k)
      <3> SUFFICES ASSUME j < k PROVE FALSE
        OBVIOUS
      <3>1. j \in 1 .. k - 1
        BY <1>1
      <3>2. u[j] = v[j] /\ j \in DOMAIN v /\ k \in DOMAIN v
        BY <1>1, <2>1, <2>4, <3>1
      <3>3. v[j] < v[k]
        BY <3>2 DEF Ascends
      <3> QED
        BY <1>1, <2>4, <2>5, <3>2, <3>3
    <2>7. u[k] = v[k]
      <3>1. i = k \/ k < i
        BY <1>1, <2>3
      <3>2. j = k \/ k < j
        BY <1>1, <2>6
      <3>3. k < i => v[k] < v[i]
        BY <1>1, <2>4 DEF Ascends
      <3>4. k < j => u[k] < u[j]
        BY <1>1 DEF Ascends
      <3>5. u[k] \in Nat /\ v[k] \in Nat /\ v[i] \in Nat /\ u[j] \in Nat
        BY <1>1, <2>4
      <3> QED
        BY <2>2, <2>5, <3>1, <3>2, <3>3, <3>4, <3>5
    <2>8. ASSUME NEW x \in 1 .. k PROVE x \in 1 .. Len(v) /\ u[x] = v[x]
      <3>1. x = k \/ x \in 1 .. k - 1
        BY <1>1
      <3> QED
        BY <2>1, <2>4, <2>7, <3>1
    <2> QED
      BY <2>1, <2>8
  <1>4. \A k \in 0 .. n : k \in T
    <2> HIDE DEF T, n
    <2> QED
      BY <1>1, <1>2, <1>3, Upward
  <1>5. n \in T
    BY <1>1, <1>4
  <1> QED
    BY <1>5

\* Two ascending lists of the same positions are the same.
LEMMA AscendsUnique ==
    ASSUME NEW u \in Seq(Nat), NEW v \in Seq(Nat), Ascends(u), Ascends(v), Ran(u) = Ran(v)
    PROVE  u = v
  <1>1. \A k \in 1 .. Len(u) : k \in 1 .. Len(v) /\ u[k] = v[k]
    BY AscendsPrefix
  <1>2. \A k \in 1 .. Len(v) : k \in 1 .. Len(u) /\ v[k] = u[k]
    BY AscendsPrefix
  <1>3. Len(u) \in Nat /\ Len(v) \in Nat
    OBVIOUS
  <1> DEFINE a == Len(u)
             b == Len(v)
  <1>4. a = b
    <2>1. a \in Nat /\ b \in Nat /\ (\A k \in 1 .. a : k \in 1 .. b) /\ \A k \in 1 .. b : k \in 1 .. a
      BY <1>1, <1>2, <1>3
    <2> HIDE DEF a, b
    <2>2. a <= b
      <3>1. a = 0 \/ a \in 1 .. a
        BY <2>1
      <3> QED
        BY <2>1, <3>1
    <2>3. b <= a
      <3>1. b = 0 \/ b \in 1 .. b
        BY <2>1
      <3> QED
        BY <2>1, <3>1
    <2> QED
      BY <2>1, <2>2, <2>3
  <1> QED
    BY <1>1, <1>4, SeqEqual

\* A quotient grows with what is divided.
LEMMA DivMono ==
    ASSUME NEW a \in Nat, NEW b \in Nat, NEW c \in Nat \ {0}, a <= b
    PROVE  a \div c \in Nat /\ b \div c \in Nat /\ a \div c <= b \div c
  <1> DEFINE p == a \div c
             q == b \div c
  <1>1. p \in Nat /\ p * c <= a /\ q \in Nat /\ b < (q + 1) * c
    BY DivFacts
  <1> HIDE DEF p, q
  <1>2. ~(q + 1 <= p)
    <2> SUFFICES ASSUME q + 1 <= p PROVE FALSE
      OBVIOUS
    <2>1. (q + 1) * c <= p * c
      BY <1>1, MulMono
    <2>2. (q + 1) * c \in Nat /\ p * c \in Nat
      BY <1>1
    <2> QED
      BY <1>1, <2>1, <2>2
  <1>3. p <= q
    BY <1>1, <1>2
  <1> QED
    BY <1>1, <1>3 DEF p, q

\* The chunk groups of an ascending list are consecutive parts of it.
LEMMA GroupParts ==
    ASSUME NEW v \in Seq(Nat), Ascends(v), NEW c \in Nat \ {0}
    PROVE  \E m \in Nat : \E pre :
              /\ ChunkGroups(v, c) \in [1 .. m -> Seq(Nat)]
              /\ \A g \in 1 .. m : ChunkGroups(v, c)[g] # <<>>
              /\ Parts(ChunkGroups(v, c), m, v, pre)
  <1> DEFINE G == ChunkGroups(v, c)
             L == Len(v)
  <1>1. /\ L \in Nat /\ DOMAIN v = 1 .. L /\ \A k \in 1 .. L : v[k] \in Nat
    OBVIOUS
  <1>2. PICK m \in Nat : \E ids : GroupsOf(G, ids, m, Ran(v), c)
    BY GroupsFacts
  <1>3. PICK ids : GroupsOf(G, ids, m, Ran(v), c)
    BY <1>2
  <1>4. /\ G \in Seq(Seq(Nat)) /\ Len(G) = m
        /\ ids \in [1 .. m -> Nat]
        /\ \A g \in 1 .. m : Ascends(G[g]) /\ Ran(G[g]) = {x \in Ran(v) : x \div c = ids[g]}
        /\ \A g, h \in 1 .. m : g < h => ids[g] < ids[h]
        /\ \A x \in Ran(v) : \E g \in 1 .. m : x \div c = ids[g]
        /\ \A g \in 1 .. m : \E x \in Ran(v) : x \div c = ids[g]
    BY <1>3 DEF GroupsOf
  <1>5. G \in [1 .. m -> Seq(Nat)]
    BY <1>4
  <1> HIDE DEF G, L
  <1>6. \A g, h \in 1 .. m : ids[g] <= ids[h] => g <= h
    <2> SUFFICES ASSUME NEW g \in 1 .. m, NEW h \in 1 .. m, ids[g] <= ids[h], ~(g <= h) PROVE FALSE
      OBVIOUS
    <2>1. h < g /\ ids[h] < ids[g]
      BY <1>4
    <2>2. ids[g] \in Nat /\ ids[h] \in Nat
      BY <1>4
    <2> QED
      BY <2>1, <2>2
  <1> DEFINE Q(k) == v[k] \div c
             P(g) == {k \in 1 .. L : \E h \in 1 .. g : Q(k) = ids[h]}
             pre == [g \in 0 .. m |-> Cardinality(P(g))]
  <1>7. ASSUME NEW k \in 1 .. L PROVE v[k] \in Ran(v) /\ Q(k) \in Nat /\ \E h \in 1 .. m : Q(k) = ids[h]
    <2>1. v[k] \in Ran(v) /\ v[k] \in Nat
      BY <1>1 DEF Ran
    <2>2. v[k] \div c \in Nat
      BY <2>1, DivFacts
    <2> QED
      BY <1>4, <2>1, <2>2
  <1>8. ASSUME NEW j \in 1 .. L, NEW k \in 1 .. L, j < k PROVE Q(j) <= Q(k)
    <2>1. v[j] < v[k] /\ v[j] \in Nat /\ v[k] \in Nat
      BY <1>1, <1>8 DEF Ascends
    <2>2. v[j] <= v[k]
      BY <2>1
    <2> QED
      BY <2>1, <2>2, DivMono
  <1> HIDE DEF Q
  <1>9. ASSUME NEW g \in 0 .. m PROVE pre[g] \in 0 .. L /\ P(g) = 1 .. pre[g]
    <2>1. P(g) \subseteq 1 .. L
      OBVIOUS
    <2>2. ASSUME NEW k \in P(g), NEW j \in 1 .. L, j < k PROVE j \in P(g)
      <3>1. PICK h \in 1 .. g : Q(k) = ids[h]
        BY <2>2
      <3>2. PICK i \in 1 .. m : Q(j) = ids[i]
        BY <1>7
      <3>3. k \in 1 .. L /\ h \in 1 .. m
        BY <1>9, <2>2, <3>1
      <3>4. Q(j) <= Q(k)
        BY <1>8, <2>2, <3>3
      <3>5. i <= h
        BY <1>6, <3>1, <3>2, <3>3, <3>4
      <3>6. i \in 1 .. g
        BY <1>9, <3>1, <3>2, <3>5
      <3> QED
        BY <3>2, <3>6
    <2> DEFINE S == P(g)
    <2>3. S \subseteq 1 .. L /\ \A k \in S : \A j \in 1 .. L : j < k => j \in S
      BY <2>1, <2>2
    <2>4. pre[g] = Cardinality(S)
      OBVIOUS
    <2> HIDE DEF S, P, pre
    <2>5. Cardinality(S) \in 0 .. L /\ S = 1 .. Cardinality(S)
      BY <1>1, <2>3, PrefixSize
    <2> QED
      BY <2>4, <2>5 DEF S
  <1>10. pre \in [0 .. m -> Nat]
    <2>1. ASSUME NEW g \in 0 .. m PROVE pre[g] \in Nat
      <3>1. pre[g] \in 0 .. L
        BY <1>9
      <3> HIDE DEF pre
      <3> QED
        BY <1>1, <3>1
    <2>2. pre = [g \in 0 .. m |-> pre[g]]
      OBVIOUS
    <2> HIDE DEF pre
    <2> QED
      BY <2>1, <2>2
  <1>11. pre[0] = 0
    <2>1. 0 \in 0 .. m
      OBVIOUS
    <2>2. P(0) = {}
      OBVIOUS
    <2>3. 1 .. pre[0] = {} /\ pre[0] \in Nat
      BY <1>9, <1>10, <2>1, <2>2
    <2> HIDE DEF pre
    <2> QED
      BY <2>3
  <1>12. pre[m] = L
    <2>1. m \in 0 .. m
      OBVIOUS
    <2>2. P(m) = 1 .. L
      BY <1>7
    <2>3. 1 .. pre[m] = 1 .. L /\ pre[m] \in Nat
      BY <1>9, <1>10, <2>1, <2>2
    <2> DEFINE y == pre[m]
    <2>4. 1 .. y = 1 .. L /\ y \in Nat
      BY <2>3
    <2> HIDE DEF y, pre
    <2>5. y <= L /\ L <= y
      <3>1. y = 0 \/ y \in 1 .. y
        BY <2>4
      <3>2. L = 0 \/ L \in 1 .. L
        BY <1>1
      <3>3. y \in 1 .. y => y \in 1 .. L
        BY <2>4
      <3>4. L \in 1 .. L => L \in 1 .. y
        BY <2>4
      <3> QED
        BY <1>1, <2>4, <3>1, <3>2, <3>3, <3>4
    <2> QED
      BY <1>1, <2>4, <2>5 DEF y
  <1>13. ASSUME NEW g \in 1 .. m
         PROVE  /\ pre[g] = pre[g - 1] + Len(G[g]) /\ G[g] # <<>>
                /\ \A x \in 1 .. Len(G[g]) : G[g][x] = v[pre[g - 1] + x]
    <2> DEFINE a == pre[g - 1]
               b == pre[g]
               w == [x \in 1 .. b - a |-> v[a + x]]
    <2>1. g - 1 \in 0 .. m /\ g \in 0 .. m
      OBVIOUS
    <2>2. a \in 0 .. L /\ b \in 0 .. L /\ P(g - 1) = 1 .. a /\ P(g) = 1 .. b
      BY <1>9, <2>1
    <2>3. ASSUME NEW k \in 1 .. L PROVE k \in 1 .. a => k \in 1 .. b
      <3> SUFFICES ASSUME k \in P(g - 1) PROVE k \in P(g)
        BY <2>2
      <3>1. PICK h \in 1 .. g - 1 : Q(k) = ids[h]
        OBVIOUS
      <3>2. h \in 1 .. g
        BY <3>1
      <3> QED
        BY <3>1, <3>2
    <2>4. ASSUME NEW k \in 1 .. L PROVE (k \in 1 .. b /\ k \notin 1 .. a) <=> Q(k) = ids[g]
      <3>1. ASSUME k \in 1 .. b, k \notin 1 .. a PROVE Q(k) = ids[g]
        <4>1. k \in P(g) /\ k \notin P(g - 1)
          BY <2>2, <3>1
        <4>2. PICK h \in 1 .. g : Q(k) = ids[h]
          BY <4>1
        <4>3. h \notin 1 .. g - 1
          BY <4>1, <4>2
        <4>4. h = g
          BY <4>2, <4>3
        <4> QED
          BY <4>2, <4>4
      <3>2. ASSUME Q(k) = ids[g] PROVE k \in 1 .. b /\ k \notin 1 .. a
        <4>1. g \in 1 .. g
          OBVIOUS
        <4>2. k \in P(g)
          BY <3>2, <4>1
        <4>3. k \notin P(g - 1)
          <5> SUFFICES ASSUME k \in P(g - 1) PROVE FALSE
            OBVIOUS
          <5>1. PICK h \in 1 .. g - 1 : Q(k) = ids[h]
            OBVIOUS
          <5>2. h \in 1 .. m /\ h < g
            BY <5>1
          <5>3. ids[h] < ids[g] /\ ids[h] \in Nat
            BY <1>4, <5>2
          <5> QED
            BY <3>2, <5>1, <5>3
        <4> QED
          BY <2>2, <4>2, <4>3
      <3> QED
        BY <3>1, <3>2
    <2>5. a \in Nat /\ b \in Nat /\ a <= b /\ b <= L
      <3>1. a \in 0 .. L /\ b \in 0 .. L
        BY <2>2
      <3> HIDE DEF a, b
      <3>2. a = 0 \/ a \in 1 .. a
        BY <1>1, <3>1
      <3> QED
        BY <1>1, <2>3, <3>1, <3>2
    <2> HIDE DEF a, b, pre, P
    <2>6. ASSUME NEW x \in 1 .. b - a
          PROVE  a + x \in 1 .. L /\ a + x \in 1 .. b /\ a + x \notin 1 .. a
      BY <1>1, <2>5
    <2>7. w \in Seq(Nat) /\ Len(w) = b - a /\ DOMAIN w = 1 .. b - a
      <3>1. b - a \in Nat
        BY <2>5
      <3>2. w \in [1 .. b - a -> Nat]
        BY <1>1, <2>6
      <3> HIDE DEF w
      <3> QED
        BY <3>1, <3>2, FunIsSeq
    <2>8. Ascends(w)
      <3> SUFFICES ASSUME NEW j \in 1 .. b - a, NEW k \in 1 .. b - a, j < k PROVE w[j] < w[k]
        BY <2>7 DEF Ascends
      <3>1. a + j \in DOMAIN v /\ a + k \in DOMAIN v /\ a + j < a + k
        BY <1>1, <2>5, <2>6
      <3>2. v[a + j] < v[a + k]
        BY <3>1 DEF Ascends
      <3> QED
        BY <3>2
    <2>9. Ran(w) = Ran(G[g])
      <3>1. ASSUME NEW x \in 1 .. b - a PROVE w[x] \in Ran(G[g])
        <4>1. Q(a + x) = ids[g] /\ v[a + x] \in Ran(v)
          BY <1>7, <2>4, <2>6
        <4> QED
          BY <1>4, <4>1 DEF Q
      <3>2. ASSUME NEW y \in Ran(G[g]) PROVE \E x \in 1 .. b - a : w[x] = y
        <4>1. y \in Ran(v) /\ y \div c = ids[g]
          BY <1>4
        <4>2. PICK k \in 1 .. L : v[k] = y
          BY <1>1, <4>1 DEF Ran
        <4>3. Q(k) = ids[g]
          BY <4>1, <4>2 DEF Q
        <4>4. k \in 1 .. b /\ k \notin 1 .. a
          BY <2>4, <4>3
        <4>5. k - a \in 1 .. b - a /\ a + (k - a) = k
          BY <2>5, <4>4
        <4> QED
          BY <4>2, <4>5
      <3> HIDE DEF w
      <3> QED
        BY <2>7, <3>1, <3>2 DEF Ran
    <2>10. G[g] \in Seq(Nat) /\ Ascends(G[g])
      BY <1>4, <1>5
    <2>11. G[g] = w
      <3> HIDE DEF w
      <3> QED
        BY <2>7, <2>8, <2>9, <2>10, AscendsUnique
    <2>12. \A x \in 1 .. b - a : G[g][x] = v[a + x]
      BY <2>11
    <2>13. G[g] # <<>>
      <3>1. \E x \in Ran(G[g]) : TRUE
        BY <1>4
      <3> QED
        BY <3>1 DEF Ran
    <2>14. Len(G[g]) = b - a
      <3> HIDE DEF w
      <3> QED
        BY <2>7, <2>11
    <2>15. b = a + Len(G[g])
      BY <2>5, <2>14
    <2>16. \A x \in 1 .. Len(G[g]) : G[g][x] = v[a + x]
      BY <2>12, <2>14
    <2> QED
      BY <2>13, <2>15, <2>16 DEF a, b
  <1>14. Parts(G, m, v, pre)
    BY <1>10, <1>11, <1>12, <1>13 DEF Parts, L
  <1> QED
    BY <1>5, <1>13, <1>14 DEF G

-----------------------------------------------------------------------------
(* The reads of a tile. *)

\* The entries of m blocks of w, and entry x of block k.
Entries(m, w) == m * w
EntryAt(k, w, x) == (k - 1) * w + x

\* An index into m blocks of w entries.
LEMMA BlockIndex ==
    ASSUME NEW m \in Nat, NEW w \in Nat, NEW y \in 1 .. Entries(m, w)
    PROVE  /\ w # 0
           /\ \E k \in 1 .. m, x \in 1 .. w :
                 y = EntryAt(k, w, x) /\ ((y - 1) \div w) + 1 = k /\ ((y - 1) % w) + 1 = x
  <1> USE DEF Entries, EntryAt
  <1>1. m * w \in Nat /\ y \in Nat /\ y >= 1 /\ y <= m * w
    <2>1. m * w \in Nat
      BY MulNat
    <2> DEFINE z == m * w
    <2>2. z \in Nat /\ y \in 1 .. z
      BY <2>1
    <2> HIDE DEF z
    <2>3. y \in Nat /\ y >= 1 /\ y <= z
      BY <2>2
    <2> QED
      BY <2>1, <2>3 DEF z
  <1>2. w # 0
    <2> SUFFICES ASSUME w = 0 PROVE FALSE
      OBVIOUS
    <2>1. m * w = 0
      OBVIOUS
    <2> QED
      BY <1>1, <2>1
  <1> DEFINE q == (y - 1) \div w
             r == (y - 1) % w
  <1>3. y - 1 \in Nat /\ w \in Nat \ {0}
    BY <1>1, <1>2
  <1>4. q \in Nat /\ r \in 0 .. w - 1 /\ y - 1 = (q * w) + r
    BY <1>3, ModFacts, DivFacts
  <1> HIDE DEF q, r
  <1>5. q * w \in Nat
    BY <1>4, MulNat
  <1>6. q < m
    <2> SUFFICES ASSUME m <= q PROVE FALSE
      BY <1>4
    <2>1. m * w <= q * w
      BY <1>4, MulMono
    <2> QED
      BY <1>1, <1>4, <1>5, <2>1
  <1> DEFINE k == q + 1
             x == r + 1
  <1>7. k \in 1 .. m /\ x \in 1 .. w /\ k - 1 = q
    BY <1>4, <1>6
  <1>8. y = (k - 1) * w + x
    <2>1. y = q * w + (r + 1)
      <3> DEFINE z == q * w
      <3>1. z \in Nat /\ y - 1 = z + r
        BY <1>4, <1>5
      <3> HIDE DEF z
      <3>2. y = z + (r + 1)
        BY <1>1, <1>4, <3>1
      <3> QED
        BY <3>2 DEF z
    <2> QED
      BY <1>7, <2>1
  <1>9. ((y - 1) \div w) + 1 = k /\ ((y - 1) % w) + 1 = x
    BY DEF q, r
  <1> HIDE DEF k, x
  <1> QED
    BY <1>2, <1>7, <1>8, <1>9

\* Every place of a block is an index.
LEMMA BlockPlace ==
    ASSUME NEW m \in Nat, NEW w \in Nat, NEW k \in 1 .. m, NEW x \in 1 .. w
    PROVE  /\ EntryAt(k, w, x) \in 1 .. Entries(m, w) /\ Entries(m, w) \in Nat
           /\ ((EntryAt(k, w, x) - 1) \div w) + 1 = k
           /\ ((EntryAt(k, w, x) - 1) % w) + 1 = x
  <1> DEFINE q == k - 1
             d == x - 1
  <1>1. q \in Nat /\ w \in Nat \ {0} /\ d \in 0 .. w - 1
    OBVIOUS
  <1>2. q + 1 <= m /\ q + 1 = k /\ d + 1 = x
    OBVIOUS
  <1> HIDE DEF q, d
  <1>3. /\ q * w + d \in Nat /\ (q * w + d) + 1 <= (q + 1) * w
        /\ (q * w + d) \div w = q /\ (q * w + d) % w = d
    BY <1>1, LastDigit
  <1>4. (q + 1) * w <= m * w
    BY <1>1, <1>2, MulMono
  <1> DEFINE z == q * w
             u == (q + 1) * w
             t == m * w
  <1>5. z \in Nat /\ u \in Nat /\ t \in Nat
    BY <1>1, MulNat
  <1>6. (z + d) + 1 <= u /\ u <= t
    BY <1>3, <1>4
  <1>7. (z + d) \div w = q /\ (z + d) % w = d
    BY <1>3
  <1> HIDE DEF z, u, t
  <1>8. z + x \in 1 .. t /\ z + x - 1 = z + d
    BY <1>1, <1>2, <1>5, <1>6
  <1>9. ((z + x - 1) \div w) + 1 = k /\ ((z + x - 1) % w) + 1 = x
    BY <1>2, <1>7, <1>8
  <1> QED
    BY <1>5, <1>8, <1>9 DEF z, q, t, Entries, EntryAt

\* The m blocks of w entries over X, one after the other.
Laid(flat, rows, m, w, X) ==
    /\ flat \in Seq(X) /\ Len(flat) = Entries(m, w)
    /\ \A k \in 1 .. m, x \in 1 .. w : flat[EntryAt(k, w, x)] = rows[k][x]

\* FlattenRows lays blocks of one length one after the other.
LEMMA FlattenUniform ==
    ASSUME NEW X, NEW m \in Nat \ {0}, NEW w \in Nat, NEW rows \in [1 .. m -> Seq(X)],
           \A k \in 1 .. m : Len(rows[k]) = w
    PROVE  Laid(FlattenRows(rows), rows, m, w, X)
  <1> DEFINE t == Entries(m, w)
             F == [i \in 1 .. t |-> rows[((i - 1) \div w) + 1][((i - 1) % w) + 1]]
  <1>1. Len(rows) = m /\ Len(rows[1]) = w
    BY FunIsSeq
  <1>2. FlattenRows(rows) = F
    BY <1>1 DEF FlattenRows, Entries
  <1>3. m \in Nat /\ t \in Nat
    BY MulNat DEF Entries
  <1>4. ASSUME NEW i \in 1 .. t PROVE F[i] \in X
    <2>1. PICK k \in 1 .. m, x \in 1 .. w : ((i - 1) \div w) + 1 = k /\ ((i - 1) % w) + 1 = x
      BY <1>3, BlockIndex
    <2>2. F[i] = rows[k][x]
      BY <2>1
    <2>3. rows[k] \in Seq(X) /\ x \in 1 .. Len(rows[k])
      OBVIOUS
    <2>4. rows[k][x] \in X
      BY <2>3
    <2> QED
      BY <2>2, <2>4
  <1>5. F \in Seq(X) /\ Len(F) = t
    <2>1. F = [i \in 1 .. t |-> F[i]] /\ \A i \in 1 .. t : F[i] \in X
      BY <1>4
    <2> HIDE DEF F, t
    <2>2. F \in [1 .. t -> X]
      BY <2>1
    <2> QED
      BY <1>3, <2>2, FunIsSeq
  <1>6. ASSUME NEW k \in 1 .. m, NEW x \in 1 .. w PROVE F[EntryAt(k, w, x)] = rows[k][x]
    <2> DEFINE i == EntryAt(k, w, x)
    <2>1. i \in 1 .. t /\ ((i - 1) \div w) + 1 = k /\ ((i - 1) % w) + 1 = x
      <3>1. m \in Nat
        BY <1>3
      <3> HIDE DEF F
      <3>2. EntryAt(k, w, x) \in 1 .. Entries(m, w)
        BY <3>1, BlockPlace
      <3>3. ((EntryAt(k, w, x) - 1) \div w) + 1 = k
        BY <3>1, BlockPlace
      <3>4. ((EntryAt(k, w, x) - 1) % w) + 1 = x
        BY <3>1, BlockPlace
      <3> QED
        BY <3>2, <3>3, <3>4
    <2> HIDE DEF i
    <2>2. F[i] = rows[k][x]
      BY <2>1
    <2> QED
      BY <2>2 DEF i
  <1> HIDE DEF F
  <1> QED
    BY <1>2, <1>5, <1>6 DEF Laid

\* An entry some blocks further on.
LEMMA EntryShift ==
    ASSUME NEW pre \in Nat, NEW k \in Nat \ {0}, NEW w \in Nat, NEW x \in Nat
    PROVE  EntryAt(pre + k, w, x) = Entries(pre, w) + EntryAt(k, w, x) /\ Entries(pre, w) \in Nat
  <1> DEFINE q == k - 1
  <1>1. q \in Nat /\ pre + k - 1 = pre + q
    OBVIOUS
  <1>2. (pre + q) * w = pre * w + q * w
    BY <1>1
  <1>3. pre * w \in Nat /\ q * w \in Nat
    BY <1>1, MulNat
  <1> HIDE DEF q
  <1> DEFINE y == pre * w
             z == q * w
  <1>4. EntryAt(pre + k, w, x) = (pre + q) * w + x /\ EntryAt(k, w, x) = q * w + x /\ Entries(pre, w) = pre * w
    BY <1>1 DEF EntryAt, Entries, q
  <1>5. EntryAt(pre + k, w, x) = (y + z) + x /\ EntryAt(k, w, x) = z + x /\ Entries(pre, w) = y
    BY <1>2, <1>4
  <1>6. y \in Nat /\ z \in Nat
    BY <1>3
  <1> HIDE DEF y, z
  <1> QED
    BY <1>5, <1>6

\* Boxes that agree inside the first axis.
AgreeInside(box, piece, n) == \A a \in 2 .. n : box[a] = piece[a]

\* Boxes that agree inside the first axis have blocks of the same length.
LEMMA InnerAgrees ==
    ASSUME NEW n \in Nat \ {0}, NEW box \in [1 .. n -> Seq(Nat)], NEW piece \in [1 .. n -> Seq(Nat)],
           AgreeInside(box, piece, n)
    PROVE  InnerRows(box) = InnerRows(piece)
  <1> DEFINE s == SizesOf(box)
             t == SizesOf(piece)
             i == 1
  <1>1. s \in [1 .. n -> Nat] /\ t \in [1 .. n -> Nat]
    BY RowMajorIs
  <1>2. \A a \in 2 .. n : s[a] = t[a]
    BY DEF SizesOf, AgreeInside
  <1> HIDE DEF s, t
  <1>3. i \in 0 .. n /\ n \in Nat /\ i \in i .. n /\ \A a \in i + 1 .. n : s[a] = t[a]
    BY <1>2
  <1> HIDE DEF i
  <1>4. \A j \in i .. n : ProductAfter(s, j) = ProductAfter(t, j)
    BY <1>1, <1>3, ProductAgrees
  <1> QED
    BY <1>3, <1>4 DEF i, s, t, InnerRows

\* Block number off, from 0, of an array read.
Block(read, off, w) == SubSeq(read, off * w + 1, (off + 1) * w)

\* It is a block of the array.
LEMMA BlockOf ==
    ASSUME NEW X, NEW read \in Seq(X), NEW len \in Nat, NEW w \in Nat, Len(read) = Entries(len, w),
           NEW off \in 0 .. len - 1
    PROVE  /\ Block(read, off, w) \in Seq(X) /\ Len(Block(read, off, w)) = w
           /\ \A x \in 1 .. w : Block(read, off, w)[x] = read[EntryAt(off + 1, w, x)]
  <1> DEFINE y == off * w
             z == (off + 1) * w
             t == len * w
  <1>1. off \in Nat /\ off + 1 \in Nat /\ off + 1 <= len
    OBVIOUS
  <1>2. y \in Nat /\ z \in Nat /\ t \in Nat /\ z = y + w /\ z <= t
    <2>1. (off + 1) * w = off * w + w
      BY <1>1
    <2>2. (off + 1) * w <= len * w
      BY <1>1, MulMono
    <2>3. off * w \in Nat /\ (off + 1) * w \in Nat /\ len * w \in Nat
      BY <1>1, MulNat
    <2> QED
      BY <2>1, <2>2, <2>3
  <1>3. Len(read) = t
    BY DEF Entries
  <1>4. ASSUME NEW x \in 1 .. w PROVE EntryAt(off + 1, w, x) = y + x
    <2>1. off + 1 - 1 = off
      BY <1>1
    <2> QED
      BY <2>1 DEF EntryAt
  <1> HIDE DEF y, z, t
  <1>5. y + 1 \in 1 .. Len(read) + 1 /\ z \in (y + 1) - 1 .. Len(read) /\ z - (y + 1) + 1 = w
    BY <1>2, <1>3
  <1> DEFINE b == SubSeq(read, y + 1, z)
  <1>6. b \in Seq(X) /\ Len(b) = w /\ \A x \in 1 .. w : b[x] = read[(y + 1) + x - 1]
    BY <1>5, SubSeqProperties
  <1>7. ASSUME NEW x \in 1 .. w PROVE b[x] = read[EntryAt(off + 1, w, x)]
    <2>1. (y + 1) + x - 1 = y + x
      BY <1>2
    <2> QED
      BY <1>4, <1>6, <2>1
  <1>8. b \in Seq(X) /\ Len(b) = w /\ \A x \in 1 .. w : b[x] = read[EntryAt(off + 1, w, x)]
    BY <1>6, <1>7
  <1>9. Block(read, off, w) = b
    BY DEF Block, y, z
  <1> HIDE DEF b
  <1> QED
    BY <1>8, <1>9

\* Dividing the rows of an array by its outer steps gives the rows of a step.
LEMMA RowsPerStep ==
    ASSUME NEW len \in Nat \ {0}, NEW w \in Nat
    PROVE  Entries(len, w) \div len = w
  <1> DEFINE x == len * w
  <1>1. x \in Nat /\ w * len <= x /\ x < (w + 1) * len
    <2>1. len * w = w * len /\ (w + 1) * len = w * len + len
      OBVIOUS
    <2>2. w * len \in Nat
      BY MulNat
    <2> QED
      BY <2>1, <2>2
  <1> HIDE DEF x
  <1>2. x \div len = w
    BY <1>1, DivUnique
  <1> QED
    BY <1>2 DEF x, Entries

\* The rows that one read contributes: those of the positions of a stretch of the
\* first axis, from pre on.
Contributes(rows, n, box, pre, m) ==
    /\ rows \in Seq([1 .. n -> Nat]) /\ Len(rows) = Entries(m, InnerRows(box))
    /\ \A y \in 1 .. Entries(m, InnerRows(box)) :
          rows[y] = RowMajor(box)[Entries(pre, InnerRows(box)) + y]

\* Blocks that are those of a stretch of the first axis.
LEMMA ContributesBlocks ==
    ASSUME NEW n \in Nat \ {0}, NEW box \in [1 .. n -> Seq(Nat)], NEW pre \in Nat, NEW m \in Nat,
           NEW rows \in Seq([1 .. n -> Nat]), Len(rows) = Entries(m, InnerRows(box)),
           \A k \in 1 .. m, x \in 1 .. InnerRows(box) :
               rows[EntryAt(k, InnerRows(box), x)] = RowMajor(box)[EntryAt(pre + k, InnerRows(box), x)]
    PROVE  Contributes(rows, n, box, pre, m)
  <1> DEFINE w == InnerRows(box)
  <1>1. w \in Nat
    BY InnerRowsFacts
  <1> SUFFICES ASSUME NEW y \in 1 .. Entries(m, w) PROVE rows[y] = RowMajor(box)[Entries(pre, w) + y]
    BY DEF Contributes
  <1> HIDE DEF w
  <1>2. PICK k \in 1 .. m, x \in 1 .. w : y = EntryAt(k, w, x)
    BY <1>1, BlockIndex
  <1>3. k \in Nat \ {0} /\ x \in Nat
    BY <1>1, <1>2
  <1>4. EntryAt(pre + k, w, x) = Entries(pre, w) + EntryAt(k, w, x)
    BY <1>1, <1>3, EntryShift
  <1>5. rows[EntryAt(k, w, x)] = RowMajor(box)[EntryAt(pre + k, w, x)]
    BY DEF w
  <1> QED
    BY <1>2, <1>4, <1>5

\* Place b of the first axis of a box and place c of that of another are the same
\* position.
Meet(box, b, piece, c) ==
    b \in 1 .. Len(box[1]) /\ c \in 1 .. Len(piece[1]) /\ box[1][b] = piece[1][c]

\* Their blocks are the same.
SameBlock(box, b, piece, c) ==
    \A x \in 1 .. InnerRows(box) :
        RowMajor(box)[EntryAt(b, InnerRows(box), x)] = RowMajor(piece)[EntryAt(c, InnerRows(box), x)]

\* A block of a read is a block of the tile with the same outer position.
LEMMA BlockEntries ==
    ASSUME NEW n \in Nat \ {0}, NEW box \in [1 .. n -> Seq(Nat)], NEW piece \in [1 .. n -> Seq(Nat)],
           AgreeInside(box, piece, n),
           NEW b, NEW c, Meet(box, b, piece, c)
    PROVE  SameBlock(box, b, piece, c)
  <1>1. /\ \A a \in 2 .. n : box[a] = piece[a]
        /\ b \in 1 .. Len(box[1]) /\ c \in 1 .. Len(piece[1]) /\ box[1][b] = piece[1][c]
    BY DEF AgreeInside, Meet
  <1> QED
    BY <1>1, BlockRows DEF EntryAt, SameBlock


\* The blocks of a read at some offsets.
BlocksAt(read, off, w, m) ==
    [k \in 1 .. m |-> Block(read, off[k], w)]

\* The m blocks of w entries that a read over X has at the offsets.
Retained(flat, read, off, m, w, X) ==
    /\ flat \in Seq(X) /\ Len(flat) = Entries(m, w)
    /\ \A k \in 1 .. m, x \in 1 .. w : flat[EntryAt(k, w, x)] = read[EntryAt(off[k] + 1, w, x)]

\* FlattenRows makes them of the blocks.
LEMMA BlocksAtFacts ==
    ASSUME NEW X, NEW read \in Seq(X), NEW len \in Nat, NEW w \in Nat, Len(read) = Entries(len, w),
           NEW m \in Nat \ {0}, NEW off \in [1 .. m -> 0 .. len - 1]
    PROVE  Retained(FlattenRows(BlocksAt(read, off, w, m)), read, off, m, w, X)
  <1> DEFINE rows == BlocksAt(read, off, w, m)
  <1>1. ASSUME NEW k \in 1 .. m
        PROVE  /\ rows[k] \in Seq(X) /\ Len(rows[k]) = w
               /\ \A x \in 1 .. w : rows[k][x] = read[EntryAt(off[k] + 1, w, x)]
    <2> DEFINE o == off[k]
    <2>1. o \in 0 .. len - 1
      OBVIOUS
    <2>2. rows[k] = Block(read, o, w)
      BY DEF BlocksAt
    <2> HIDE DEF o, rows
    <2>3. Block(read, o, w) \in Seq(X) /\ Len(Block(read, o, w)) = w
      BY <2>1, BlockOf
    <2>4. \A x \in 1 .. w : Block(read, o, w)[x] = read[EntryAt(o + 1, w, x)]
      BY <2>1, BlockOf
    <2> QED
      BY <2>2, <2>3, <2>4 DEF o
  <1>2. rows \in [1 .. m -> Seq(X)]
    <2>1. rows = [k \in 1 .. m |-> rows[k]]
      BY DEF BlocksAt
    <2> HIDE DEF rows
    <2> QED
      BY <1>1, <2>1
  <1> HIDE DEF rows
  <1>3. \A k \in 1 .. m : Len(rows[k]) = w
    BY <1>1
  <1>4. Laid(FlattenRows(rows), rows, m, w, X)
    BY <1>2, <1>3, FlattenUniform
  <1>5. Retained(FlattenRows(rows), read, off, m, w, X)
    BY <1>1, <1>4 DEF Laid, Retained
  <1> QED
    BY <1>5 DEF rows

\* The steps of the piece at the m offsets are those of the box from pre on.
SamePlaces(box, piece, pre, off, m) ==
    /\ off \in [1 .. m -> 0 .. Len(piece[1]) - 1]
    /\ \A k \in 1 .. m : Meet(box, pre + k, piece, off[k] + 1)

\* A read of some outer steps, of which those at the offsets are kept.
LEMMA KeepBlocks ==
    ASSUME NEW n \in Nat \ {0}, NEW box \in [1 .. n -> Seq(Nat)], NEW piece \in [1 .. n -> Seq(Nat)],
           AgreeInside(box, piece, n),
           NEW m \in Nat \ {0}, NEW pre \in Nat, NEW off, SamePlaces(box, piece, pre, off, m)
    PROVE  Contributes(FlattenRows(BlocksAt(RowMajor(piece), off, InnerRows(box), m)), n, box, pre, m)
  <1> DEFINE w == InnerRows(box)
             C == [1 .. n -> Nat]
             len == Len(piece[1])
             read == RowMajor(piece)
             flat == FlattenRows(BlocksAt(read, off, w, m))
  <1>1. w \in Nat
    BY InnerRowsFacts
  <1>2. InnerRows(piece) = w
    <2>1. InnerRows(box) = InnerRows(piece)
      BY InnerAgrees
    <2> QED
      BY <2>1
  <1>3. read \in Seq(C) /\ Len(read) = len * InnerRows(piece)
    BY InnerRowsFacts
  <1>4. Len(read) = Entries(len, w)
    BY <1>2, <1>3 DEF Entries
  <1>5. len \in Nat
    <2>1. piece[1] \in Seq(Nat)
      OBVIOUS
    <2> QED
      BY <2>1
  <1>6. off \in [1 .. m -> 0 .. len - 1]
    BY DEF SamePlaces
  <1> HIDE DEF w, C, len, read
  <1>7. /\ flat \in Seq(C) /\ Len(flat) = Entries(m, w)
        /\ \A k \in 1 .. m, x \in 1 .. w : flat[EntryAt(k, w, x)] = read[EntryAt(off[k] + 1, w, x)]
    <2>1. read \in Seq(C)
      BY <1>3
    <2>2. Retained(flat, read, off, m, w, C)
      BY <1>1, <2>1, <1>4, <1>5, <1>6, BlocksAtFacts
    <2> QED
      BY <2>2 DEF Retained
  <1> HIDE DEF flat
  <1>8. ASSUME NEW k \in 1 .. m, NEW x \in 1 .. w
        PROVE  flat[EntryAt(k, w, x)] = RowMajor(box)[EntryAt(pre + k, w, x)]
    <2> DEFINE c == off[k] + 1
               b == pre + k
    <2>3. x \in 1 .. InnerRows(box)
      BY DEF w
    <2>4. flat[EntryAt(k, w, x)] = read[EntryAt(c, w, x)]
      BY <1>7
    <2>6. Meet(box, b, piece, c)
      BY DEF SamePlaces
    <2> HIDE DEF c, b
    <2>7. SameBlock(box, b, piece, c)
      BY <2>6, BlockEntries
    <2>5. RowMajor(box)[EntryAt(b, InnerRows(box), x)] = RowMajor(piece)[EntryAt(c, InnerRows(box), x)]
      BY <2>3, <2>7 DEF SameBlock
    <2> QED
      BY <2>4, <2>5 DEF b, w, read
  <1>9. /\ flat \in Seq([1 .. n -> Nat]) /\ Len(flat) = Entries(m, InnerRows(box))
        /\ \A k \in 1 .. m, x \in 1 .. InnerRows(box) :
               flat[EntryAt(k, InnerRows(box), x)] = RowMajor(box)[EntryAt(pre + k, InnerRows(box), x)]
    BY <1>7, <1>8 DEF w, C
  <1>10. m \in Nat
    OBVIOUS
  <1>11. Contributes(flat, n, box, pre, m)
    BY <1>9, <1>10, ContributesBlocks
  <1> QED
    BY <1>11 DEF flat, read, w

\* The first and the last position of a run.
LEMMA RunSpan ==
    ASSUME NEW run \in Seq(Nat), Ascends(run), run # <<>>
    PROVE  /\ Len(run) \in Nat \ {0} /\ DOMAIN run = 1 .. Len(run)
           /\ run[1] \in Nat /\ run[Len(run)] \in Nat /\ run[1] <= run[Len(run)]
           /\ \A k \in 1 .. Len(run) : run[k] \in run[1] .. run[Len(run)]
  <1> DEFINE m == Len(run)
  <1>1. m \in Nat /\ DOMAIN run = 1 .. m
    OBVIOUS
  <1>2. m # 0
    BY EmptySeq
  <1>3. \A k \in 1 .. m : run[k] \in Nat
    OBVIOUS
  <1>4. \A i, j \in 1 .. m : i < j => run[i] < run[j]
    BY <1>1 DEF Ascends
  <1> HIDE DEF m
  <1>5. 1 \in 1 .. m /\ m \in 1 .. m
    BY <1>1, <1>2
  <1>6. ASSUME NEW k \in 1 .. m PROVE run[1] <= run[k] /\ run[k] <= run[m]
    <2>1. k = 1 \/ 1 < k
      BY <1>1
    <2>2. k = m \/ k < m
      BY <1>1
    <2>3. run[1] \in Nat /\ run[k] \in Nat /\ run[m] \in Nat
      BY <1>3, <1>5
    <2>4. run[1] <= run[k]
      BY <1>4, <1>5, <2>1, <2>3
    <2>5. run[k] <= run[m]
      BY <1>4, <1>5, <2>2, <2>3
    <2> QED
      BY <2>4, <2>5
  <1>7. \A k \in 1 .. m : run[k] \in run[1] .. run[m]
    BY <1>3, <1>5, <1>6
  <1> QED
    BY <1>1, <1>2, <1>3, <1>5, <1>6, <1>7 DEF m

\* Reads, seqs of them, that contribute the len[g] positions from pre[g - 1] on.
Reads(seqs, m, n, box, pre, len) ==
    /\ pre \in [0 .. m -> Nat] /\ pre[0] = 0 /\ pre[m] = Len(box[1]) /\ len \in [1 .. m -> Nat]
    /\ \A g \in 1 .. m : /\ pre[g] = pre[g - 1] + len[g]
                         /\ Contributes(seqs[g], n, box, pre[g - 1], len[g])

\* What they return, one after the other, is the whole array.
LEMMA ReadsMakeArray ==
    ASSUME NEW n \in Nat \ {0}, NEW box \in [1 .. n -> Seq(Nat)], NEW m \in Nat, NEW seqs,
           DOMAIN seqs = 1 .. m, seqs = [g \in 1 .. m |-> seqs[g]], NEW pre, NEW len,
           Reads(seqs, m, n, box, pre, len)
    PROVE  FlattenSeq(seqs) = RowMajor(box)
  <1> DEFINE w == InnerRows(box)
             C == [1 .. n -> Nat]
             T == RowMajor(box)
             off == [g \in 0 .. m |-> Entries(pre[g], w)]
  <1>1. w \in Nat /\ T \in Seq(C) /\ Len(T) = Entries(Len(box[1]), w)
    BY InnerRowsFacts DEF Entries
  <1>2. pre \in [0 .. m -> Nat] /\ pre[0] = 0 /\ pre[m] = Len(box[1]) /\ len \in [1 .. m -> Nat]
    BY DEF Reads
  <1>3. ASSUME NEW g \in 1 .. m
        PROVE  /\ pre[g] = pre[g - 1] + len[g] /\ pre[g - 1] \in Nat /\ len[g] \in Nat
               /\ seqs[g] \in Seq(C) /\ Len(seqs[g]) = Entries(len[g], w)
               /\ \A y \in 1 .. Entries(len[g], w) : seqs[g][y] = T[Entries(pre[g - 1], w) + y]
    <2>1. pre[g] = pre[g - 1] + len[g] /\ Contributes(seqs[g], n, box, pre[g - 1], len[g])
      BY DEF Reads
    <2>2. g - 1 \in 0 .. m
      OBVIOUS
    <2>3. pre[g - 1] \in Nat /\ len[g] \in Nat
      BY <1>2, <2>2
    <2> QED
      BY <2>1, <2>3 DEF Contributes
  <1> HIDE DEF w, C, T
  <1>4. seqs \in [1 .. m -> Seq(C)]
    BY <1>3
  <1>5. off \in [0 .. m -> Nat] /\ off[0] = 0 /\ off[m] = Len(T)
    <2>1. \A g \in 0 .. m : Entries(pre[g], w) \in Nat
      BY <1>1, <1>2, MulNat DEF Entries
    <2>2. 0 \in 0 .. m /\ m \in 0 .. m
      OBVIOUS
    <2>3. Entries(0, w) = 0
      BY <1>1 DEF Entries
    <2>4. off[0] = Entries(pre[0], w) /\ off[m] = Entries(pre[m], w)
      BY <2>2
    <2> QED
      BY <1>1, <1>2, <2>1, <2>3, <2>4
  <1>6. ASSUME NEW g \in 1 .. m
        PROVE  /\ off[g] = off[g - 1] + Len(seqs[g])
               /\ \A x \in 1 .. Len(seqs[g]) : seqs[g][x] = T[off[g - 1] + x]
    <2>1. g \in 0 .. m /\ g - 1 \in 0 .. m
      OBVIOUS
    <2>2. off[g] = Entries(pre[g], w) /\ off[g - 1] = Entries(pre[g - 1], w)
      BY <2>1
    <2> DEFINE a == pre[g - 1]
               b == len[g]
    <2>3. a \in Nat /\ b \in Nat /\ pre[g] = a + b
      BY <1>3
    <2> HIDE DEF a, b
    <2>4. Entries(a + b, w) = Entries(a, w) + Entries(b, w)
      BY <1>1, <2>3 DEF Entries
    <2> QED
      BY <1>3, <2>2, <2>3, <2>4 DEF a, b
  <1>7. Parts(seqs, m, T, off)
    BY <1>5, <1>6 DEF Parts
  <1> HIDE DEF off
  <1>8. FlattenSeq(seqs) = T
    BY <1>1, <1>4, <1>7, FlattenParts
  <1> QED
    BY <1>8 DEF T

\* The positions that a subset of an array selects on each axis.
PositionsOf(subset) == [a \in DOMAIN subset |-> Positions(subset[a])]

\* The subset for the outer positions s .. e - 1 of a tile: the other axes are
\* those of the tile.
SubsetOfBox(subset, box, n, s, e) ==
    /\ subset \in [1 .. n -> Sels] /\ subset[1] = RangeSel(s, e)
    /\ \A a \in 2 .. n : Positions(subset[a]) = box[a]

\* A box with the positions s .. e - 1 on the first axis, and those of another box
\* on the others.
RangePiece(piece, box, n, s, e) ==
    /\ piece \in [1 .. n -> Seq(Nat)] /\ AgreeInside(box, piece, n)
    /\ Len(piece[1]) = e - s /\ \A k \in 1 .. e - s : piece[1][k] = s + k - 1

\* The positions of the subset.
LEMMA SubsetFacts ==
    ASSUME NEW n \in Nat \ {0}, NEW box \in [1 .. n -> Seq(Nat)], NEW s \in Nat, NEW e \in Nat, s < e,
           NEW subset, SubsetOfBox(subset, box, n, s, e)
    PROVE  RangePiece(PositionsOf(subset), box, n, s, e)
  <1>1. subset \in [1 .. n -> Sels] /\ subset[1] = RangeSel(s, e) /\ 1 \in 1 .. n
    BY DEF SubsetOfBox
  <1>2. ASSUME NEW a \in 1 .. n PROVE Positions(subset[a]) \in Seq(Nat)
    <2>1. subset[a] \in RangeSels \cup ListSels
      BY <1>1 DEF Sels
    <2> QED
      BY <2>1, SelFacts
  <1>3. PositionsOf(subset) \in [1 .. n -> Seq(Nat)]
    BY <1>1, <1>2 DEF PositionsOf
  <1>4. AgreeInside(box, PositionsOf(subset), n)
    BY <1>1 DEF PositionsOf, AgreeInside, SubsetOfBox
  <1>5. PositionsOf(subset)[1] = Positions(RangeSel(s, e))
    BY <1>1 DEF PositionsOf
  <1> DEFINE f == [k \in 1 .. e - s |-> s + k - 1]
  <1>6. Positions(RangeSel(s, e)) = f
    BY DEF Positions, RangeSel, IsIndices
  <1>7. e - s \in Nat /\ f \in [1 .. e - s -> Nat]
    OBVIOUS
  <1>8. Len(f) = e - s /\ \A k \in 1 .. e - s : f[k] = s + k - 1
    <2>1. Len(f) = e - s
      <3> HIDE DEF f
      <3> QED
        BY <1>7, FunIsSeq
    <2> QED
      BY <2>1
  <1> HIDE DEF f
  <1> QED
    BY <1>3, <1>4, <1>5, <1>6, <1>8 DEF RangePiece

\* A run of m positions from s .. e - 1, which the box has on its first axis from
\* pre on.
RunAt(run, m, s, e, box, pre) ==
    /\ run \in [1 .. m -> s .. e - 1]
    /\ \A k \in 1 .. m : pre + k \in 1 .. Len(box[1]) /\ box[1][pre + k] = run[k]

\* A plan that reads s .. e - 1 and keeps the run.
KeepsRun(plan, subset, run, m, s, e) ==
    /\ plan.box = subset /\ plan.window_len = e - s
    /\ plan.offsets = [k \in 1 .. m |-> run[k] - s]

\* It returns the rows of the run.
LEMMA BucketRead ==
    ASSUME NEW n \in Nat \ {0}, NEW box \in [1 .. n -> Seq(Nat)], NEW m \in Nat \ {0},
           NEW s \in Nat, NEW e \in Nat, s < e, NEW pre \in Nat,
           NEW run, RunAt(run, m, s, e, box, pre), NEW subset, SubsetOfBox(subset, box, n, s, e),
           NEW plan, KeepsRun(plan, subset, run, m, s, e)
    PROVE  Contributes(ApplyKeep(plan), n, box, pre, m)
  <1> DEFINE piece == PositionsOf(subset)
             off == plan.offsets
             w == InnerRows(box)
             len == e - s
  <1>1. m \in Nat /\ \A k \in 1 .. m : run[k] \in s .. e - 1
    BY DEF RunAt
  <1>2. len \in Nat \ {0}
    OBVIOUS
  <1>3. /\ piece \in [1 .. n -> Seq(Nat)] /\ AgreeInside(box, piece, n)
        /\ Len(piece[1]) = len /\ \A k \in 1 .. len : piece[1][k] = s + k - 1
    <2>3. RangePiece(piece, box, n, s, e)
      BY SubsetFacts
    <2> HIDE DEF piece
    <2> QED
      BY <2>3 DEF RangePiece
  <1>4. off = [k \in 1 .. m |-> run[k] - s] /\ off # <<>>
    <2>1. off = [k \in 1 .. m |-> run[k] - s]
      BY DEF KeepsRun
    <2>2. 1 \in DOMAIN off
      BY <1>1, <2>1
    <2>3. off # <<>>
      <3> HIDE DEF off
      <3> QED
        BY <2>2
    <2> QED
      BY <2>1, <2>3
  <1>5. SamePlaces(box, piece, pre, off, m)
    <2>1. ASSUME NEW k \in 1 .. m
          PROVE  off[k] \in 0 .. Len(piece[1]) - 1 /\ Meet(box, pre + k, piece, off[k] + 1)
      <3>1. off[k] = run[k] - s /\ run[k] \in s .. e - 1 /\ run[k] \in Nat
        BY <1>1, <1>4
      <3> DEFINE o == off[k]
      <3>2. o \in 0 .. len - 1 /\ o + 1 \in 1 .. len /\ s + (o + 1) - 1 = run[k]
        <4> DEFINE r == run[k]
        <4>1. o = r - s /\ r \in s .. e - 1 /\ r \in Nat
          BY <3>1
        <4> HIDE DEF r, o
        <4>2. s + (o + 1) - 1 = r
          BY <4>1
        <4>3. o \in 0 .. len - 1 /\ o + 1 \in 1 .. len
          BY <4>1
        <4> QED
          BY <4>2, <4>3 DEF r
      <3>3. pre + k \in 1 .. Len(box[1]) /\ box[1][pre + k] = run[k]
        BY DEF RunAt
      <3> HIDE DEF o, len, piece, off
      <3>4. o \in 0 .. Len(piece[1]) - 1 /\ o + 1 \in 1 .. Len(piece[1])
        BY <1>3, <3>2
      <3>5. piece[1][o + 1] = run[k]
        BY <1>3, <3>2
      <3> QED
        BY <3>3, <3>4, <3>5 DEF o, Meet
    <2>2. off \in [1 .. m -> 0 .. Len(piece[1]) - 1]
      <3> HIDE DEF off, piece
      <3>1. off = [k \in 1 .. m |-> off[k]]
        BY <1>4 DEF off
      <3> QED
        BY <2>1, <3>1
    <2> QED
      BY <2>1, <2>2 DEF SamePlaces
  <1> DEFINE read == RowMajor(piece)
             inner == Len(read) \div plan.window_len
  <1>6. inner = w
    <2>1. InnerRows(box) = InnerRows(piece)
      <3> HIDE DEF piece
      <3> QED
        BY <1>3, InnerAgrees
    <2>2. Len(read) = Len(piece[1]) * InnerRows(piece) /\ InnerRows(piece) \in Nat
      <3> HIDE DEF piece
      <3> QED
        BY <1>3, InnerRowsFacts
    <2>5. plan.window_len = len
      BY DEF KeepsRun
    <2>3. w \in Nat /\ Len(read) = Entries(len, w) /\ plan.window_len = len
      <3> HIDE DEF len, piece, read
      <3> QED
        BY <1>3, <2>1, <2>2, <2>5 DEF Entries
    <2> HIDE DEF len, w, read
    <2>4. Entries(len, w) \div len = w
      BY <1>2, <2>3, RowsPerStep
    <2> QED
      BY <2>3, <2>4
  <1>7. ApplyKeep(plan) = FlattenRows([k \in DOMAIN off |-> Block(read, off[k], inner)])
    BY <1>4 DEF ApplyKeep, Block, PositionsOf, KeepsRun
  <1>8. DOMAIN off = 1 .. m
    BY <1>4
  <1>9. ApplyKeep(plan) = FlattenRows(BlocksAt(read, off, w, m))
    <2> HIDE DEF inner, read, off, w
    <2> QED
      BY <1>6, <1>7, <1>8 DEF BlocksAt
  <1> HIDE DEF piece, off
  <1>10. Contributes(FlattenRows(BlocksAt(RowMajor(piece), off, InnerRows(box), m)), n, box, pre, m)
    BY <1>1, <1>3, <1>5, KeepBlocks
  <1> QED
    BY <1>9, <1>10

\* A single position as a plan reads it.
LEMMA StepRead ==
    ASSUME NEW n \in Nat \ {0}, NEW box \in [1 .. n -> Seq(Nat)], NEW x \in Nat, NEW pre \in Nat,
           pre + 1 \in 1 .. Len(box[1]), box[1][pre + 1] = x,
           NEW subset, SubsetOfBox(subset, box, n, x, x + 1),
           NEW plan, plan.box = subset, plan.offsets = <<>>
    PROVE  Contributes(ApplyKeep(plan), n, box, pre, 1)
  <1> DEFINE piece == PositionsOf(subset)
             w == InnerRows(box)
             e == x + 1
             read == RowMajor(piece)
             b == pre + 1
             c == 1
             m == 1
  <1>1. e \in Nat /\ x < e /\ e - x = 1 /\ 1 \in 1 .. e - x
    OBVIOUS
  <1>2. SubsetOfBox(subset, box, n, x, e)
    OBVIOUS
  <1> HIDE DEF e
  <1>3. /\ piece \in [1 .. n -> Seq(Nat)] /\ AgreeInside(box, piece, n)
        /\ Len(piece[1]) = e - x /\ \A k \in 1 .. e - x : piece[1][k] = x + k - 1
    <2>1. RangePiece(piece, box, n, x, e)
      BY <1>1, <1>2, SubsetFacts
    <2> HIDE DEF piece
    <2> QED
      BY <2>1 DEF RangePiece
  <1>4. Len(piece[1]) = 1 /\ piece[1][1] = x
    <2>1. piece[1][1] = x + 1 - 1
      <3> HIDE DEF piece
      <3> QED
        BY <1>1, <1>3
    <2> HIDE DEF piece
    <2> QED
      BY <1>1, <1>3, <2>1
  <1>5. Meet(box, b, piece, c)
    <2> HIDE DEF piece
    <2> QED
      BY <1>4 DEF Meet
  <1>6. ApplyKeep(plan) = read
    BY DEF ApplyKeep, PositionsOf
  <1> HIDE DEF piece
  <1>7. InnerRows(box) = InnerRows(piece)
    BY <1>3, InnerAgrees
  <1>8. read \in Seq([1 .. n -> Nat]) /\ Len(read) = Len(piece[1]) * InnerRows(piece) /\ InnerRows(piece) \in Nat
    BY <1>3, InnerRowsFacts
  <1>9. w \in Nat /\ Len(read) = Entries(m, w) /\ m \in Nat
    BY <1>4, <1>7, <1>8 DEF Entries
  <1> HIDE DEF b, c
  <1>10. SameBlock(box, b, piece, c)
    BY <1>3, <1>5, BlockEntries
  <1>11. ASSUME NEW k \in 1 .. m, NEW y \in 1 .. InnerRows(box)
         PROVE  read[EntryAt(k, InnerRows(box), y)] = RowMajor(box)[EntryAt(pre + k, InnerRows(box), y)]
    <2>1. k = c /\ pre + k = b
      BY DEF b, c
    <2> QED
      BY <1>10, <2>1 DEF SameBlock
  <1> HIDE DEF read, m
  <1>12. Contributes(read, n, box, pre, m)
    <2>1. read \in Seq([1 .. n -> Nat]) /\ Len(read) = Entries(m, InnerRows(box))
      BY <1>8, <1>9 DEF w
    <2> QED
      BY <1>9, <1>11, <2>1, ContributesBlocks
  <1> QED
    BY <1>6, <1>12 DEF m

\* What a tile is read with: array axis k of the variable carries coordinate
\* axis[k] of N, and only the first may have a list.
ReadContext(n, N, axis, sels, coord_sizes, shape, chunks) ==
    /\ axis \in [1 .. n -> 1 .. N] /\ \A j, k \in 1 .. n : axis[j] = axis[k] => j = k
    /\ sels \in [1 .. N -> Sels]
    /\ DOMAIN shape = 1 .. n /\ shape[1] = coord_sizes[axis[1]] /\ chunks[1] \in Nat
    /\ \A k \in 1 .. n : CoordOfAxis(coord_sizes, shape, k) = axis[k]
    /\ \A a \in 1 .. N : IsIndices(sels[a]) => a = axis[1]

\* The positions of a tile on the axes of the variable.
TileBox(n, axis, sels) == [k \in 1 .. n |-> Positions(sels[axis[k]])]

\* They are lists of positions.
LEMMA TileBoxTyped ==
    ASSUME NEW n \in Nat \ {0}, NEW N \in Nat, NEW axis, NEW sels, NEW coord_sizes, NEW shape, NEW chunks,
           ReadContext(n, N, axis, sels, coord_sizes, shape, chunks)
    PROVE  TileBox(n, axis, sels) \in [1 .. n -> Seq(Nat)]
  <1>1. ASSUME NEW k \in 1 .. n PROVE Positions(sels[axis[k]]) \in Seq(Nat)
    <2>1. sels[axis[k]] \in RangeSels \cup ListSels
      BY DEF ReadContext, Sels
    <2> QED
      BY <2>1, SelFacts
  <1> QED
    BY <1>1 DEF TileBox

\* The list, if there is one, is on the first axis of the variable, and the reader
\* does not panic.
LEMMA IndicesPosFacts ==
    ASSUME NEW n \in Nat \ {0}, NEW N \in Nat, NEW axis, NEW sels, NEW coord_sizes, NEW shape, NEW chunks,
           ReadContext(n, N, axis, sels, coord_sizes, shape, chunks)
    PROVE  /\ ~IsIndices(sels[axis[1]]) => IndicesPos(sels) = 0
           /\ IsIndices(sels[axis[1]]) => IndicesPos(sels) = axis[1] /\ axis[1] # 0
           /\ ~ReadPanics(sels)
  <1> DEFINE o == axis[1]
             ps == {a \in DOMAIN sels : IsIndices(sels[a])}
  <1>1. /\ o \in 1 .. N /\ DOMAIN sels = 1 .. N
        /\ \A a \in 1 .. N : IsIndices(sels[a]) => a = o
    BY DEF ReadContext
  <1> HIDE DEF o
  <1>2. ASSUME ~IsIndices(sels[o]) PROVE IndicesPos(sels) = 0 /\ ~ReadPanics(sels)
    <2>1. ps = {}
      BY <1>1, <1>2
    <2> QED
      BY <2>1 DEF IndicesPos, ReadPanics
  <1>3. ASSUME IsIndices(sels[o]) PROVE IndicesPos(sels) = o /\ o # 0 /\ ~ReadPanics(sels)
    <2>1. ps = {o} /\ o \in Nat /\ o # 0
      BY <1>1, <1>3
    <2>2. IndicesPos(sels) = CHOOSE a \in ps : \A b \in ps : a <= b
      BY <2>1 DEF IndicesPos
    <2>3. \E a \in ps : \A b \in ps : a <= b
      BY <2>1
    <2>4. IndicesPos(sels) \in ps
      <3> HIDE DEF ps
      <3> QED
        BY <2>2, <2>3
    <2>5. IndicesPos(sels) = o
      BY <2>1, <2>4
    <2> QED
      BY <1>1, <2>1, <2>5 DEF ReadPanics
  <1> QED
    BY <1>2, <1>3 DEF o

\* The subset for outer positions s .. e - 1 of a tile with a list.
LEMMA SubsetForFacts ==
    ASSUME NEW n \in Nat \ {0}, NEW N \in Nat, NEW axis, NEW sels, NEW coord_sizes, NEW shape, NEW chunks,
           ReadContext(n, N, axis, sels, coord_sizes, shape, chunks), NEW s \in Nat, NEW e \in Nat
    PROVE  SubsetOfBox(MatchRangesToDataVar(coord_sizes, [sels EXCEPT ![axis[1]] = RangeSel(s, e)], shape),
                       TileBox(n, axis, sels), n, s, e)
  <1> DEFINE o == axis[1]
             r == RangeSel(s, e)
             S == [sels EXCEPT ![o] = r]
             f == MatchRangesToDataVar(coord_sizes, S, shape)
  <1>1. /\ axis \in [1 .. n -> 1 .. N] /\ \A j, k \in 1 .. n : axis[j] = axis[k] => j = k
        /\ sels \in [1 .. N -> Sels]
        /\ DOMAIN shape = 1 .. n
        /\ \A k \in 1 .. n : CoordOfAxis(coord_sizes, shape, k) = axis[k]
    BY DEF ReadContext
  <1>2. r \in Sels
    BY DEF Sels, RangeSels, RangeSel
  <1>3. f = [k \in 1 .. n |-> S[axis[k]]]
    <2> HIDE DEF S
    <2> QED
      BY <1>1 DEF MatchRangesToDataVar
  <1>4. 1 \in 1 .. n /\ o \in 1 .. N
    BY <1>1
  <1>5. S \in [1 .. N -> Sels] /\ S[o] = r
    <2> HIDE DEF o, r
    <2> QED
      BY <1>1, <1>2, <1>4
  <1>6. ASSUME NEW a \in 2 .. n PROVE S[axis[a]] = sels[axis[a]] /\ a \in 1 .. n
    <2>1. a \in 1 .. n /\ a # 1
      OBVIOUS
    <2>2. axis[a] # o /\ axis[a] \in 1 .. N
      BY <1>1, <1>4, <2>1
    <2> HIDE DEF o, r
    <2> QED
      BY <1>1, <2>1, <2>2
  <1> HIDE DEF S
  <1>7. f \in [1 .. n -> Sels] /\ f[1] = r
    BY <1>1, <1>3, <1>4, <1>5
  <1>8. \A a \in 2 .. n : Positions(f[a]) = TileBox(n, axis, sels)[a]
    BY <1>3, <1>6 DEF TileBox
  <1> HIDE DEF f
  <1>9. SubsetOfBox(f, TileBox(n, axis, sels), n, s, e)
    BY <1>7, <1>8 DEF SubsetOfBox
  <1> QED
    BY <1>9 DEF f, S

\* A tile of ranges is read at once.
LEMMA ReadWholeTile ==
    ASSUME NEW n \in Nat \ {0}, NEW N \in Nat, NEW axis, NEW sels, NEW coord_sizes, NEW shape, NEW chunks,
           ReadContext(n, N, axis, sels, coord_sizes, shape, chunks), ~IsIndices(sels[axis[1]])
    PROVE  ReadValues(sels, coord_sizes, shape, chunks) = RowMajor(TileBox(n, axis, sels))
  <1> DEFINE box == TileBox(n, axis, sels)
             plan == [box        |-> MatchRangesToDataVar(coord_sizes, sels, shape),
                      window_len |-> 0,
                      offsets    |-> <<>>]
             T == RowMajor(box)
             C == [1 .. n -> Nat]
             seqs == <<T>>
             m == 1
             off == [g \in 0 .. 1 |-> IF g = 0 THEN 0 ELSE Len(T)]
  <1>1. BuildReadPlans(sels, coord_sizes, shape, chunks) = <<plan>>
    <2>1. IndicesPos(sels) = 0
      BY IndicesPosFacts
    <2> QED
      BY <2>1 DEF BuildReadPlans
  <1>2. MatchRangesToDataVar(coord_sizes, sels, shape) = [k \in 1 .. n |-> sels[axis[k]]]
    BY DEF MatchRangesToDataVar, ReadContext
  <1>3. ApplyKeep(plan) = T
    <2>1. plan.offsets = <<>> /\ plan.box = [k \in 1 .. n |-> sels[axis[k]]]
      BY <1>2
    <2>2. [a \in DOMAIN plan.box |-> Positions(plan.box[a])] = box
      BY <2>1 DEF TileBox
    <2> HIDE DEF plan, box
    <2> QED
      BY <2>1, <2>2 DEF ApplyKeep
  <1>4. ReadValues(sels, coord_sizes, shape, chunks) = FlattenSeq(seqs)
    <2> HIDE DEF plan, T
    <2>1. [p \in DOMAIN <<plan>> |-> ApplyKeep(<<plan>>[p])] = seqs
      BY <1>3
    <2> QED
      BY <1>1, <2>1 DEF ReadValues
  <1>5. box \in [1 .. n -> Seq(Nat)]
    BY TileBoxTyped
  <1> HIDE DEF box
  <1>6. T \in Seq(C)
    BY <1>5, InnerRowsFacts
  <1> HIDE DEF T, C
  <1>7. seqs \in [1 .. 1 -> Seq(C)] /\ seqs[1] = T /\ Len(T) \in Nat
    BY <1>6
  <1>8. Parts(seqs, m, T, off)
    <2>1. off \in [0 .. 1 -> Nat] /\ off[0] = 0 /\ off[1] = Len(T)
      BY <1>7
    <2>2. ASSUME NEW i \in 1 .. 1
          PROVE  /\ off[i] = off[i - 1] + Len(seqs[i])
                 /\ \A x \in 1 .. Len(seqs[i]) : seqs[i][x] = T[off[i - 1] + x]
      <3>1. i = 1 /\ i - 1 = 0
        OBVIOUS
      <3> HIDE DEF off, seqs
      <3>2. off[i - 1] = 0 /\ seqs[i] = T
        BY <1>7, <2>1, <3>1
      <3>3. off[i] = Len(T)
        BY <2>1, <3>1
      <3> QED
        BY <1>7, <3>2, <3>3
    <2> HIDE DEF off, seqs
    <2> QED
      BY <2>1, <2>2 DEF Parts
  <1>9. m \in Nat /\ seqs \in [1 .. m -> Seq(C)]
    BY <1>7
  <1> HIDE DEF seqs, off, m
  <1>10. FlattenSeq(seqs) = T
    BY <1>6, <1>8, <1>9, FlattenParts
  <1> QED
    BY <1>4, <1>10 DEF T, box

\* A list that lies in one chunk after the other is read chunk by chunk.
LEMMA ReadBuckets ==
    ASSUME NEW n \in Nat \ {0}, NEW N \in Nat, NEW axis, NEW sels, NEW coord_sizes, NEW shape, NEW chunks,
           ReadContext(n, N, axis, sels, coord_sizes, shape, chunks), IsIndices(sels[axis[1]]),
           Bucketed(sels, coord_sizes, shape, chunks)
    PROVE  ReadValues(sels, coord_sizes, shape, chunks) = RowMajor(TileBox(n, axis, sels))
  <1> DEFINE box == TileBox(n, axis, sels)
             o == axis[1]
             v == sels[o].idx
             c == chunks[1]
             runs == ChunkGroups(v, c)
             buckets == BucketOuterIndices(v, c)
             SubsetFor(s, e) == MatchRangesToDataVar(coord_sizes, [sels EXCEPT ![o] = RangeSel(s, e)], shape)
             plans == [b \in DOMAIN buckets |->
                          [box        |-> SubsetFor(buckets[b].start, buckets[b].end),
                           window_len |-> buckets[b].end - buckets[b].start,
                           offsets    |-> buckets[b].offsets]]
             seqs == [p \in DOMAIN plans |-> ApplyKeep(plans[p])]
  <1>1. IndicesPos(sels) = o /\ o # 0
    BY IndicesPosFacts
  <1>2. c \in Nat \ {0} /\ o \in 1 .. N /\ sels[o] \in Sels
    BY <1>1 DEF ReadContext, Bucketed
  <1>3. v \in Seq(Nat) /\ Ascends(v) /\ Positions(sels[o]) = v
    <2>1. sels[o] \in RangeSels \cup ListSels /\ IsIndices(sels[o])
      BY <1>2 DEF Sels
    <2> QED
      BY <2>1, SelFacts
  <1>4. BuildReadPlans(sels, coord_sizes, shape, chunks) = plans
    <2>1. IndicesPos(sels) # 0
      BY <1>1
    <2> QED
      BY <1>1, <2>1, Zenon DEF BuildReadPlans
  <1>5. ReadValues(sels, coord_sizes, shape, chunks) = FlattenSeq(seqs)
    <2> HIDE DEF plans
    <2> QED
      BY <1>4 DEF ReadValues
  <1>6. box \in [1 .. n -> Seq(Nat)] /\ box[1] = v
    <2>1. box \in [1 .. n -> Seq(Nat)]
      BY TileBoxTyped
    <2> QED
      BY <1>3, <2>1 DEF TileBox
  <1>g. PICK m \in Nat : \E pre : /\ runs \in [1 .. m -> Seq(Nat)]
                                  /\ \A g \in 1 .. m : runs[g] # <<>>
                                  /\ Parts(runs, m, v, pre)
    <2> HIDE DEF c, v
    <2> QED
      BY <1>2, <1>3, GroupParts
  <1>7. PICK pre : /\ runs \in [1 .. m -> Seq(Nat)]
                   /\ \A g \in 1 .. m : runs[g] # <<>>
                   /\ Parts(runs, m, v, pre)
    BY <1>g
  <1> DEFINE len == [g \in 1 .. m |-> Len(runs[g])]
  <1>8. DOMAIN runs = 1 .. m /\ DOMAIN buckets = 1 .. m
    BY <1>7 DEF BucketOuterIndices
  <1>9. ASSUME NEW g \in 1 .. m
        PROVE  /\ Len(runs[g]) \in Nat /\ pre[g - 1] \in Nat /\ pre[g] = pre[g - 1] + Len(runs[g])
               /\ Contributes(ApplyKeep(plans[g]), n, box, pre[g - 1], Len(runs[g]))
    <2> DEFINE run == runs[g]
               L == Len(run)
               s == run[1]
               e == run[L] + 1
               from == pre[g - 1]
               plan == plans[g]
    <2>1. run \in Seq(Nat) /\ run # <<>>
      BY <1>7
    <2>2. /\ L \in Nat /\ from \in Nat /\ pre[g] = from + L
          /\ \A x \in 1 .. L : from + x \in 1 .. Len(v) /\ v[from + x] = run[x]
      <3> HIDE DEF runs, v
      <3>1. Parts(runs, m, v, pre) /\ v \in Seq(Nat) /\ runs \in [1 .. m -> Seq(Nat)]
        BY <1>3, <1>7
      <3>2. PartAt(runs, g, v, pre, Nat)
        BY <3>1, PartPlace
      <3> QED
        BY <3>2 DEF PartAt
    <2>3. plan = [box        |-> SubsetFor(buckets[g].start, buckets[g].end),
                  window_len |-> buckets[g].end - buckets[g].start,
                  offsets    |-> buckets[g].offsets]
      <3> HIDE DEF buckets, SubsetFor
      <3> QED
        BY <1>8
    <2>4. buckets[g] = [start |-> s, end |-> e, offsets |-> [k \in DOMAIN run |-> run[k] - s]]
      <3> HIDE DEF runs
      <3>1. g \in DOMAIN runs
        BY <1>8
      <3> QED
        BY <3>1 DEF BucketOuterIndices, runs
    <2> HIDE DEF run, plan, buckets, runs, v, plans
    <2>5. Ascends(run) /\ DOMAIN run = 1 .. L
      <3>1. DOMAIN run = 1 .. L
        BY <2>1
      <3>2. ASSUME NEW j \in 1 .. L, NEW k \in 1 .. L, j < k PROVE run[j] < run[k]
        <4>1. from + j \in 1 .. Len(v) /\ from + k \in 1 .. Len(v) /\ from + j < from + k
          BY <2>2, <3>2
        <4>2. DOMAIN v = 1 .. Len(v)
          BY <1>3
        <4>3. v[from + j] < v[from + k]
          BY <1>3, <4>1, <4>2 DEF Ascends
        <4> QED
          BY <2>2, <4>3
      <3> QED
        BY <3>1, <3>2 DEF Ascends
    <2>6. /\ L \in Nat \ {0} /\ s \in Nat /\ run[L] \in Nat /\ s <= run[L]
          /\ \A k \in 1 .. L : run[k] \in s .. run[L]
      BY <2>1, <2>5, RunSpan
    <2>7. e \in Nat /\ e - 1 = run[L] /\ s < e
      <3> DEFINE r == run[L]
      <3>1. r \in Nat /\ s \in Nat /\ s <= r
        BY <2>6
      <3>2. e = r + 1
        OBVIOUS
      <3> HIDE DEF r, s, e
      <3>3. e \in Nat /\ e - 1 = r /\ s < e
        BY <3>1, <3>2
      <3> QED
        BY <3>3 DEF r
    <2>8. run \in [1 .. L -> s .. e - 1]
      <3> HIDE DEF s, e, L
      <3>1. run = [k \in 1 .. L |-> run[k]]
        BY <2>1, <2>5
      <3> QED
        BY <2>6, <2>7, <3>1
    <2>9. RunAt(run, L, s, e, box, from)
      <3> HIDE DEF s, e, L, from, box
      <3> QED
        BY <1>6, <2>2, <2>8 DEF RunAt
    <2> DEFINE subset == SubsetFor(s, e)
    <2>10. KeepsRun(plan, subset, run, L, s, e)
      <3> HIDE DEF s, e, L, SubsetFor
      <3> QED
        BY <2>3, <2>4, <2>5 DEF KeepsRun
    <2>11. SubsetOfBox(subset, box, n, s, e)
      <3> HIDE DEF s, e, L
      <3> QED
        BY <2>6, <2>7, SubsetForFacts
    <2> HIDE DEF s, e, L, from, box, subset
    <2>12. Contributes(ApplyKeep(plan), n, box, from, L)
      BY <1>6, <2>2, <2>6, <2>7, <2>9, <2>10, <2>11, BucketRead
    <2> QED
      BY <2>2, <2>12 DEF plan, L, from, run
  <1>10. DOMAIN seqs = 1 .. m /\ seqs = [g \in 1 .. m |-> ApplyKeep(plans[g])]
    <2> HIDE DEF buckets, SubsetFor
    <2>1. DOMAIN plans = 1 .. m
      BY <1>8
    <2> HIDE DEF plans
    <2> QED
      BY <2>1
  <1>11. pre \in [0 .. m -> Nat] /\ pre[0] = 0 /\ pre[m] = Len(v)
    BY <1>7 DEF Parts
  <1> HIDE DEF box, v, runs, plans, seqs
  <1>12. len \in [1 .. m -> Nat] /\ \A g \in 1 .. m : len[g] = Len(runs[g])
    BY <1>9
  <1> HIDE DEF len
  <1>13. \A g \in 1 .. m : seqs[g] = ApplyKeep(plans[g])
    BY <1>10
  <1>14. Reads(seqs, m, n, box, pre, len)
    BY <1>6, <1>9, <1>11, <1>12, <1>13 DEF Reads
  <1>15. seqs = [g \in 1 .. m |-> seqs[g]]
    BY <1>10
  <1>16. FlattenSeq(seqs) = RowMajor(box)
    BY <1>6, <1>10, <1>14, <1>15, ReadsMakeArray
  <1> QED
    BY <1>5, <1>16 DEF box

\* A list on an axis without chunks is read position by position.
LEMMA ReadSteps ==
    ASSUME NEW n \in Nat \ {0}, NEW N \in Nat, NEW axis, NEW sels, NEW coord_sizes, NEW shape, NEW chunks,
           ReadContext(n, N, axis, sels, coord_sizes, shape, chunks), IsIndices(sels[axis[1]]),
           ~Bucketed(sels, coord_sizes, shape, chunks)
    PROVE  ReadValues(sels, coord_sizes, shape, chunks) = RowMajor(TileBox(n, axis, sels))
  <1> DEFINE box == TileBox(n, axis, sels)
             o == axis[1]
             v == sels[o].idx
             SubsetFor(s, e) == MatchRangesToDataVar(coord_sizes, [sels EXCEPT ![o] = RangeSel(s, e)], shape)
             plans == [k \in DOMAIN v |-> [box        |-> SubsetFor(v[k], v[k] + 1),
                                           window_len |-> 0,
                                           offsets    |-> <<>>]]
             seqs == [p \in DOMAIN plans |-> ApplyKeep(plans[p])]
             m == Len(v)
             pre == [g \in 0 .. m |-> g]
             len == [g \in 1 .. m |-> 1]
  <1>1. IndicesPos(sels) = o /\ o # 0
    BY IndicesPosFacts
  <1>2. o \in 1 .. N /\ sels[o] \in Sels
    BY <1>1 DEF ReadContext
  <1>3. v \in Seq(Nat) /\ Positions(sels[o]) = v
    <2>1. sels[o] \in RangeSels \cup ListSels /\ IsIndices(sels[o])
      BY <1>2 DEF Sels
    <2> QED
      BY <2>1, SelFacts
  <1>4. BuildReadPlans(sels, coord_sizes, shape, chunks) = plans
    <2>1. IndicesPos(sels) # 0
      BY <1>1
    <2> QED
      BY <1>1, <2>1, Zenon DEF BuildReadPlans
  <1>5. ReadValues(sels, coord_sizes, shape, chunks) = FlattenSeq(seqs)
    <2> HIDE DEF plans
    <2> QED
      BY <1>4 DEF ReadValues
  <1>6. box \in [1 .. n -> Seq(Nat)] /\ box[1] = v
    <2>1. box \in [1 .. n -> Seq(Nat)]
      BY TileBoxTyped
    <2> QED
      BY <1>3, <2>1 DEF TileBox
  <1>7. m \in Nat /\ DOMAIN v = 1 .. m /\ \A k \in 1 .. m : v[k] \in Nat
    BY <1>3
  <1>8. ASSUME NEW g \in 1 .. m PROVE Contributes(ApplyKeep(plans[g]), n, box, g - 1, 1)
    <2> DEFINE x == v[g]
               e == x + 1
               plan == plans[g]
               subset == SubsetFor(x, e)
               from == g - 1
    <2>1. x \in Nat /\ e \in Nat /\ from \in Nat /\ from + 1 = g
      BY <1>7
    <2>2. plan = [box |-> subset, window_len |-> 0, offsets |-> <<>>]
      <3> HIDE DEF v, SubsetFor
      <3> QED
        BY <1>7
    <2>3. plan.box = subset /\ plan.offsets = <<>>
      BY <2>2
    <2>4. SubsetOfBox(subset, box, n, x, e)
      <3> HIDE DEF x, e
      <3> QED
        BY <2>1, SubsetForFacts
    <2>5. from + 1 \in 1 .. Len(box[1]) /\ box[1][from + 1] = x
      <3> HIDE DEF v, from, box
      <3> QED
        BY <1>6, <2>1
    <2>6. SubsetOfBox(subset, box, n, x, x + 1)
      BY <2>4
    <2> HIDE DEF x, plan, subset, from, box
    <2>7. Contributes(ApplyKeep(plan), n, box, from, 1)
      BY <1>6, <2>1, <2>3, <2>5, <2>6, StepRead
    <2> QED
      BY <2>7 DEF plan, from
  <1>10. DOMAIN seqs = 1 .. m /\ seqs = [g \in 1 .. m |-> ApplyKeep(plans[g])]
    <2> HIDE DEF SubsetFor, v
    <2>1. DOMAIN plans = 1 .. m
      BY <1>7
    <2> HIDE DEF plans
    <2> QED
      BY <2>1
  <1> HIDE DEF box, v, plans, seqs, m
  <1>11. pre \in [0 .. m -> Nat] /\ pre[0] = 0 /\ pre[m] = Len(box[1]) /\ len \in [1 .. m -> Nat]
    <2>1. 0 \in 0 .. m /\ m \in 0 .. m
      BY <1>7
    <2> QED
      BY <1>6, <1>7, <2>1 DEF m
  <1>12. ASSUME NEW g \in 1 .. m PROVE pre[g] = g /\ pre[g - 1] = g - 1 /\ len[g] = 1 /\ g = (g - 1) + 1
    <2>1. g \in 0 .. m /\ g - 1 \in 0 .. m
      BY <1>7
    <2> QED
      BY <2>1
  <1> HIDE DEF len, pre
  <1>13. \A g \in 1 .. m : seqs[g] = ApplyKeep(plans[g])
    BY <1>10
  <1>14. Reads(seqs, m, n, box, pre, len)
    BY <1>8, <1>11, <1>12, <1>13 DEF Reads
  <1>15. seqs = [g \in 1 .. m |-> seqs[g]]
    BY <1>10
  <1>16. FlattenSeq(seqs) = RowMajor(box)
    BY <1>6, <1>7, <1>10, <1>14, <1>15, ReadsMakeArray
  <1> QED
    BY <1>5, <1>16 DEF box

\* However a tile is read, its values come back cell by cell, the last axis fastest,
\* and the reader does not panic.
LEMMA ReadIsRowMajor ==
    ASSUME NEW n \in Nat \ {0}, NEW N \in Nat, NEW axis, NEW sels, NEW coord_sizes, NEW shape, NEW chunks,
           ReadContext(n, N, axis, sels, coord_sizes, shape, chunks)
    PROVE  /\ ~ReadPanics(sels)
           /\ ReadValues(sels, coord_sizes, shape, chunks) = RowMajor(TileBox(n, axis, sels))
  <1>1. ~ReadPanics(sels)
    BY IndicesPosFacts
  <1>2. CASE ~IsIndices(sels[axis[1]])
    BY <1>1, <1>2, ReadWholeTile
  <1>3. CASE IsIndices(sels[axis[1]]) /\ Bucketed(sels, coord_sizes, shape, chunks)
    BY <1>1, <1>3, ReadBuckets
  <1>4. CASE IsIndices(sels[axis[1]]) /\ ~Bucketed(sels, coord_sizes, shape, chunks)
    BY <1>1, <1>4, ReadSteps
  <1> QED
    BY <1>2, <1>3, <1>4

-----------------------------------------------------------------------------
(* Coordinate columns. *)

\* The positions from ws on, len of them, as a window of a coordinate array.
WindowFrom(ws, len) == [k \in 1 .. len |-> ws + k - 1]

\* Where the window has position x.
InWindow(x, ws, len) ==
    x \in Nat /\ x - ws + 1 \in 1 .. len /\ WindowFrom(ws, len)[x - ws + 1] = x

\* A window holds its positions.
LEMMA WindowAt ==
    ASSUME NEW ws \in Nat, NEW len \in Nat, NEW x \in ws .. ws + len - 1
    PROVE  InWindow(x, ws, len)
  <1>1. x - ws + 1 \in 1 .. len /\ ws + (x - ws + 1) - 1 = x
    OBVIOUS
  <1>2. \A k \in 1 .. len : WindowFrom(ws, len)[k] = ws + k - 1
    BY DEF WindowFrom
  <1>3. x \in Nat
    OBVIOUS
  <1> QED
    BY <1>1, <1>2, <1>3 DEF InWindow

\* A selection relative to a window that starts at ws.
Relative(rel, sel, ws) ==
    /\ IsIndices(rel) <=> IsIndices(sel)
    /\ IsIndices(sel) => rel.idx = [k \in DOMAIN sel.idx |-> sel.idx[k] - ws]
    /\ ~IsIndices(sel) => rel.lo = sel.lo - ws /\ rel.hi = sel.hi - ws

\* What is extracted from a window with a selection relative to it are the
\* positions of the selection.
LEMMA WindowExtract ==
    ASSUME NEW ws \in Nat, NEW len \in Nat, NEW sel \in Sels, Members(sel) \subseteq ws .. ws + len - 1,
           NEW rel, Relative(rel, sel, ws)
    PROVE  ExtractFiltered(WindowFrom(ws, len), rel) = Positions(sel)
  <1> DEFINE W == WindowFrom(ws, len)
             P == Positions(sel)
  <1>1. sel \in RangeSels \cup ListSels
    BY DEF Sels
  <1>2. P \in Seq(Nat) /\ SelLen(sel) \in Nat /\ DOMAIN P = 1 .. SelLen(sel) /\ Ran(P) = Members(sel)
    BY <1>1, SelFacts
  <1>3. ASSUME NEW x \in Members(sel) PROVE x - ws + 1 \in 1 .. len /\ W[x - ws + 1] = x /\ x \in Nat
    <2>1. x \in ws .. ws + len - 1
      OBVIOUS
    <2>2. InWindow(x, ws, len)
      BY <2>1, WindowAt
    <2> QED
      BY <2>2 DEF InWindow
  <1> HIDE DEF W
  <1>4. CASE IsIndices(sel)
    <2>1. P = sel.idx /\ rel.idx = [k \in DOMAIN P |-> P[k] - ws]
      BY <1>1, <1>4, SelFacts DEF Relative
    <2>2. ExtractFiltered(W, rel) = [k \in DOMAIN P |-> W[P[k] - ws + 1]]
      <3>1. ExtractFiltered(W, rel) = Gather(W, rel.idx)
        BY <1>4 DEF ExtractFiltered, Relative
      <3> HIDE DEF P
      <3>2. Gather(W, rel.idx) = [k \in DOMAIN P |-> W[P[k] - ws + 1]]
        BY <2>1 DEF Gather
      <3> QED
        BY <3>1, <3>2
    <2>3. ASSUME NEW k \in DOMAIN P PROVE W[P[k] - ws + 1] = P[k]
      <3>1. P[k] \in Members(sel)
        BY <1>2 DEF Ran
      <3> QED
        BY <1>3, <3>1
    <2>4. P = [k \in DOMAIN P |-> P[k]]
      BY <1>2
    <2> HIDE DEF P
    <2>5. ExtractFiltered(W, rel) = P
      BY <2>2, <2>3, <2>4
    <2> QED
      BY <2>5 DEF P, W
  <1>5. CASE ~IsIndices(sel)
    <2> DEFINE lo == sel.lo
               hi == sel.hi
               a == lo - ws + 1
               b == hi - ws
               Q == SubSeq(W, a, b)
    <2>1. /\ lo \in Nat /\ hi \in Nat /\ SelLen(sel) = IF hi > lo THEN hi - lo ELSE 0
          /\ \A k \in 1 .. SelLen(sel) : P[k] = lo + k - 1
      BY <1>1, <1>5, SelFacts
    <2>2. ExtractFiltered(W, rel) = Q
      BY <1>5 DEF ExtractFiltered, Slice, Relative
    <2>3. Members(sel) = lo .. hi - 1
      BY <1>5 DEF Members
    <2> HIDE DEF lo, hi, P
    <2>4. a \in Int /\ b \in Int
      BY <2>1
    <2>5. ASSUME NEW i \in a .. b PROVE W[i] = i + ws - 1 /\ W[i] \in Nat
      <3> DEFINE x == i + ws - 1
      <3>1. x \in lo .. hi - 1 /\ x - ws + 1 = i
        BY <2>1
      <3>2. x \in Members(sel)
        BY <2>3, <3>1
      <3> HIDE DEF x
      <3>3. W[x - ws + 1] = x /\ x \in Nat
        BY <1>3, <3>2
      <3> QED
        BY <3>1, <3>3 DEF x
    <2> HIDE DEF a, b
    <2>6. /\ Q \in Seq(Nat) /\ Len(Q) = IF a <= b THEN b - a + 1 ELSE 0
          /\ \A i \in 1 .. b - a + 1 : Q[i] = W[a + i - 1]
      BY <2>4, <2>5, SubSeqProperties
    <2>7. b - a + 1 = hi - lo /\ Len(Q) = Len(P)
      <3>1. b - a + 1 = hi - lo /\ (a <= b <=> hi > lo)
        BY <2>1 DEF a, b
      <3>2. Len(P) = SelLen(sel)
        BY DEF SelLen, P
      <3> QED
        BY <2>1, <2>6, <3>1, <3>2
    <2>8. ASSUME NEW i \in 1 .. Len(P) PROVE Q[i] = P[i]
      <3>1. Len(P) = SelLen(sel) /\ i \in Nat
        BY DEF SelLen, P
      <3>2. i \in 1 .. hi - lo /\ P[i] = lo + i - 1
        BY <2>1, <3>1
      <3>3. Q[i] = W[a + i - 1]
        BY <2>6, <2>7, <3>2
      <3>4. a + i - 1 \in a .. b /\ (a + i - 1) + ws - 1 = lo + i - 1
        BY <2>1, <2>4, <3>2 DEF a, b
      <3>5. W[a + i - 1] = (a + i - 1) + ws - 1
        <4> DEFINE y == a + i - 1
        <4>1. y \in a .. b
          BY <3>4
        <4> HIDE DEF y
        <4>2. W[y] = y + ws - 1
          BY <2>5, <4>1
        <4> QED
          BY <4>2 DEF y
      <3> QED
        BY <3>2, <3>3, <3>4, <3>5
    <2>9. P \in Seq(Nat)
      BY <1>2
    <2> HIDE DEF Q
    <2>10. Q = P
      BY <2>6, <2>7, <2>8, <2>9, SeqEqual
    <2> QED
      BY <2>2, <2>10 DEF P, W
  <1> QED
    BY <1>4, <1>5 DEF W

\* What is extracted from the whole coordinate.
LEMMA ExtractWhole ==
    ASSUME NEW len \in Nat, NEW sel \in Sels, Members(sel) \subseteq 0 .. len - 1
    PROVE  ExtractFiltered([k \in 1 .. len |-> k - 1], sel) = Positions(sel)
  <1> DEFINE z == 0
             W == [k \in 1 .. len |-> k - 1]
  <1>1. W = WindowFrom(z, len)
    <2>1. \A k \in 1 .. len : z + k - 1 = k - 1
      OBVIOUS
    <2> QED
      BY <2>1 DEF WindowFrom
  <1>2. sel \in RangeSels \cup ListSels
    BY DEF Sels
  <1>3. ASSUME IsIndices(sel) PROVE sel.idx = [k \in DOMAIN sel.idx |-> sel.idx[k] - z]
    <2> DEFINE v == sel.idx
    <2>1. v \in Seq(Nat)
      BY <1>2, <1>3, SelFacts
    <2> HIDE DEF v
    <2>2. v = [k \in DOMAIN v |-> v[k]] /\ \A k \in DOMAIN v : v[k] - z = v[k]
      BY <2>1
    <2>3. v = [k \in DOMAIN v |-> v[k] - z]
      BY <2>2
    <2> QED
      BY <2>3 DEF v
  <1>4. ASSUME ~IsIndices(sel) PROVE sel.lo = sel.lo - z /\ sel.hi = sel.hi - z
    <2>1. sel.lo \in Nat /\ sel.hi \in Nat
      BY <1>2, <1>4, SelFacts
    <2> QED
      BY <2>1
  <1>5. z \in Nat /\ Members(sel) \subseteq z .. z + len - 1
    OBVIOUS
  <1> HIDE DEF z, W
  <1>6. ExtractFiltered(WindowFrom(z, len), sel) = Positions(sel)
    <2>1. Relative(sel, sel, z)
      BY <1>3, <1>4 DEF Relative
    <2> QED
      BY <1>5, <2>1, WindowExtract
  <1> QED
    BY <1>1, <1>6 DEF W

\* A window in whole chunks holds the one it was made of.
LEMMA WidenFacts ==
    ASSUME NEW start \in Nat, NEW end \in Nat, NEW chunk \in Nat, NEW len \in Nat, start < end, end <= len
    PROVE  /\ WidenToChunks(start, end, chunk, len).start \in 0 .. start
           /\ WidenToChunks(start, end, chunk, len).end \in Nat
           /\ WidenToChunks(start, end, chunk, len).end >= end
  <1> DEFINE w == WidenToChunks(start, end, chunk, len)
  <1>1. CASE chunk = 0
    <2>1. w = [start |-> start, end |-> end]
      BY <1>1 DEF WidenToChunks
    <2> QED
      BY <2>1
  <1>2. CASE chunk # 0
    <2> DEFINE a == (start \div chunk) * chunk
               d == DivCeil(end, chunk)
               b == d * chunk
    <2>1. w = [start |-> a, end |-> Min2(b, len)]
      BY <1>2 DEF WidenToChunks
    <2>2. chunk \in Nat \ {0} /\ end \in Nat \ {0}
      BY <1>2
    <2>3. start \div chunk \in Nat /\ a <= start
      BY <2>2, DivFacts
    <2>4. a \in Nat
      BY <2>3, MulNat
    <2>5. d \in Nat /\ end <= b
      BY <2>2, DivCeilFacts
    <2>6. b \in Nat
      <3> HIDE DEF d
      <3> QED
        BY <2>5, MulNat
    <2> HIDE DEF a, b
    <2>7. Min2(b, len) \in Nat /\ Min2(b, len) >= end
      BY <2>5, <2>6 DEF Min2
    <2> QED
      BY <2>1, <2>3, <2>4, <2>7
  <1> QED
    BY <1>1, <1>2

\* The outer coordinate that a partition reads: the window around its slice, in
\* whole chunks, and of it the slice.
LEMMA ReadOuterFacts ==
    ASSUME NEW sel \in Sels, NEW chunk \in Nat, NEW len \in Nat, Members(sel) \subseteq 0 .. len - 1
    PROVE  ReadOuterCoord(sel, chunk, len) = Positions(sel)
  <1> DEFINE plan == PlanOuterCoordRead(sel)
             wide == WidenToChunks(plan.start, plan.end, chunk, len)
             by == plan.start - wide.start
             rel == ShiftSelection(plan.extract, by)
             wl == wide.end - wide.start
  <1>1. sel \in RangeSels \cup ListSels
    BY DEF Sels
  <1>2. ReadOuterCoord(sel, chunk, len) = ExtractFiltered(WindowFrom(wide.start, wl), rel)
    BY DEF ReadOuterCoord, WindowFrom
  <1>3. CASE IsIndices(sel) /\ sel.idx # <<>>
    <2> DEFINE v == sel.idx
               s == v[1]
               L == Len(v)
               e == v[L] + 1
    <2>1. v \in Seq(Nat) /\ Ascends(v) /\ v # <<>> /\ Members(sel) = Ran(v)
      BY <1>1, <1>3, SelFacts
    <2>2. plan = [start |-> s, end |-> e, extract |-> IndicesSel([k \in DOMAIN v |-> v[k] - s])]
      BY <1>3 DEF PlanOuterCoordRead
    <2> HIDE DEF v
    <2>3. L \in Nat \ {0} /\ DOMAIN v = 1 .. L /\ s \in Nat /\ v[L] \in Nat /\ s <= v[L]
      BY <2>1, RunSpan
    <2>4. \A k \in 1 .. L : v[k] \in s .. v[L]
      BY <2>1, RunSpan
    <2>5. e \in Nat /\ s < e /\ e <= len
      <3> DEFINE r == v[L]
      <3>1. r \in Nat /\ s \in Nat /\ s <= r
        BY <2>3
      <3>2. r \in Members(sel)
        BY <2>1, <2>3 DEF Ran
      <3>3. r \in 0 .. len - 1
        BY <3>2
      <3>4. e = r + 1
        OBVIOUS
      <3> HIDE DEF r, s, e
      <3> QED
        BY <3>1, <3>3, <3>4
    <2> HIDE DEF s, e, L
    <2> DEFINE ws == wide.start
               we == wide.end
    <2>6. wide = WidenToChunks(s, e, chunk, len)
      BY <2>2
    <2>7. ws \in 0 .. s /\ we \in Nat /\ we >= e
      <3> HIDE DEF wide
      <3> QED
        BY <2>3, <2>5, <2>6, WidenFacts
    <2>8. by = s - ws
      BY <2>2
    <2>9. rel = IndicesSel([k \in DOMAIN v |-> v[k] - ws])
      <3>1. plan.extract = IndicesSel([k \in DOMAIN v |-> v[k] - s])
        BY <2>2
      <3> HIDE DEF by, plan, ws
      <3>2. ASSUME NEW k \in DOMAIN v PROVE v[k] - s + by = v[k] - ws
        BY <2>3, <2>4, <2>7, <2>8
      <3>3. ShiftSelection(plan.extract, by) = IndicesSel([k \in DOMAIN v |-> v[k] - s + by])
        BY <3>1 DEF ShiftSelection, IndicesSel, IsIndices
      <3> QED
        BY <3>2, <3>3
    <2>10. IsIndices(rel) /\ rel.idx = [k \in DOMAIN v |-> v[k] - ws]
      <3> HIDE DEF rel, ws
      <3> QED
        BY <2>9 DEF IsIndices, IndicesSel
    <2> HIDE DEF wide, rel
    <2>11. Members(sel) \subseteq ws .. ws + wl - 1 /\ wl \in Nat /\ ws \in Nat
      <3>1. wl = we - ws /\ wl \in Nat /\ ws \in Nat
        BY <2>3, <2>5, <2>7
      <3>2. ASSUME NEW x \in Members(sel) PROVE x \in ws .. we - 1
        <4>1. PICK k \in 1 .. L : x = v[k]
          BY <2>1, <2>3 DEF Ran
        <4>2. x \in s .. v[L]
          BY <2>4, <4>1
        <4>3. e = v[L] + 1
          BY DEF e
        <4> HIDE DEF ws, we
        <4> QED
          BY <2>3, <2>5, <2>7, <4>2, <4>3
      <3>3. ws + wl - 1 = we - 1
        <4> HIDE DEF ws, we, wl
        <4> QED
          BY <2>7, <3>1
      <3> HIDE DEF ws, we, wl
      <3> QED
        BY <3>1, <3>2, <3>3
    <2> HIDE DEF ws, wl
    <2>12. ExtractFiltered(WindowFrom(ws, wl), rel) = Positions(sel)
      <3>1. IsIndices(sel) /\ rel.idx = [k \in DOMAIN sel.idx |-> sel.idx[k] - ws]
        BY <1>3, <2>10 DEF v
      <3>2. Relative(rel, sel, ws)
        BY <2>10, <3>1 DEF Relative
      <3> QED
        BY <2>11, <3>2, WindowExtract
    <2> QED
      BY <1>2, <2>12 DEF ws, wide, wl, rel
  <1>4. CASE IsIndices(sel) /\ sel.idx = <<>>
    <2>1. plan = [start |-> 0, end |-> 0, extract |-> sel] /\ Positions(sel) = <<>>
      BY <1>4 DEF PlanOuterCoordRead, Positions
    <2>2. rel = IndicesSel([k \in DOMAIN sel.idx |-> sel.idx[k] + by])
      BY <1>4, <2>1 DEF ShiftSelection
    <2> HIDE DEF by, wide, plan
    <2>3. rel = IndicesSel(<<>>)
      BY <1>4, <2>2
    <2> HIDE DEF rel, wl
    <2>4. ExtractFiltered(WindowFrom(wide.start, wl), rel) = <<>>
      <3>1. IsIndices(rel) /\ rel.idx = <<>>
        BY <2>3 DEF IsIndices, IndicesSel
      <3> QED
        BY <3>1 DEF ExtractFiltered, Gather
    <2> QED
      BY <1>2, <2>1, <2>4 DEF wide, wl, rel, by, plan
  <1>5. CASE ~IsIndices(sel) /\ sel.lo < sel.hi
    <2> DEFINE s == sel.lo
               e == sel.hi
    <2>1. s \in Nat /\ e \in Nat /\ s < e
      BY <1>1, <1>5, SelFacts
    <2>2. Members(sel) = s .. e - 1
      BY <1>5 DEF Members
    <2>3. plan = [start |-> s, end |-> e, extract |-> RangeSel(0, e - s)]
      BY <1>5 DEF PlanOuterCoordRead
    <2> HIDE DEF s, e
    <2>4. e <= len
      <3>1. e - 1 \in Members(sel)
        BY <2>1, <2>2
      <3>2. e - 1 \in 0 .. len - 1
        BY <3>1
      <3> QED
        BY <2>1, <3>2
    <2> DEFINE ws == wide.start
               we == wide.end
    <2>5. wide = WidenToChunks(s, e, chunk, len)
      BY <2>3
    <2>6. ws \in 0 .. s /\ we \in Nat /\ we >= e
      <3> HIDE DEF wide
      <3> QED
        BY <2>1, <2>4, <2>5, WidenFacts
    <2>7. by = s - ws /\ plan.extract = RangeSel(0, e - s)
      BY <2>3
    <2>8. rel = RangeSel(s - ws, e - ws)
      <3> HIDE DEF by, plan, ws
      <3>1. ShiftSelection(plan.extract, by) = RangeSel(0 + by, (e - s) + by)
        BY <2>7 DEF ShiftSelection, RangeSel, IsIndices
      <3>2. 0 + by = s - ws /\ (e - s) + by = e - ws
        BY <2>1, <2>6, <2>7
      <3> QED
        BY <3>1, <3>2
    <2> HIDE DEF wide, rel
    <2>9. ~IsIndices(rel) /\ rel.lo = s - ws /\ rel.hi = e - ws
      <3> HIDE DEF ws
      <3> QED
        BY <2>8 DEF IsIndices, RangeSel
    <2>10. Members(sel) \subseteq ws .. ws + wl - 1 /\ wl \in Nat /\ ws \in Nat
      <3> DEFINE x == wl
      <3>1. x = we - ws
        OBVIOUS
      <3> HIDE DEF ws, we, wl, x
      <3>2. ws \in Nat /\ x \in Nat /\ ws + x - 1 = we - 1
        BY <2>1, <2>6, <3>1
      <3>3. s .. e - 1 \subseteq ws .. we - 1
        BY <2>1, <2>6
      <3> QED
        BY <2>2, <3>2, <3>3 DEF x
    <2> HIDE DEF ws, wl
    <2>11. ExtractFiltered(WindowFrom(ws, wl), rel) = Positions(sel)
      <3>1. ~IsIndices(sel) /\ rel.lo = sel.lo - ws /\ rel.hi = sel.hi - ws
        BY <1>5, <2>9 DEF s, e
      <3>2. Relative(rel, sel, ws)
        BY <2>9, <3>1 DEF Relative
      <3> QED
        BY <2>10, <3>2, WindowExtract
    <2> QED
      BY <1>2, <2>11 DEF ws, wide, wl, rel
  <1>6. CASE ~IsIndices(sel) /\ ~(sel.lo < sel.hi)
    <2> DEFINE s == sel.lo
               e == sel.hi
    <2>1. s \in Nat /\ e \in Nat /\ ~(s < e)
      BY <1>1, <1>6, SelFacts
    <2>2. plan = [start |-> s, end |-> e, extract |-> RangeSel(0, e - s)]
      BY <1>6 DEF PlanOuterCoordRead
    <2>3. Positions(sel) = <<>>
      <3>1. Positions(sel) \in Seq(Nat) /\ SelLen(sel) = 0
        BY <1>1, <1>6, <2>1, SelFacts
      <3>2. Len(Positions(sel)) = 0
        BY <3>1 DEF SelLen
      <3> QED
        BY <3>1, <3>2, EmptySeq
    <2> HIDE DEF s, e
    <2>4. wide = [start |-> s, end |-> e]
      BY <2>1, <2>2 DEF WidenToChunks
    <2>5. by = 0 /\ plan.extract = RangeSel(0, e - s)
      BY <2>1, <2>2, <2>4
    <2>6. rel = RangeSel(0, e - s)
      <3> HIDE DEF by, plan
      <3>1. ShiftSelection(plan.extract, by) = RangeSel(0 + by, (e - s) + by)
        BY <2>5 DEF ShiftSelection, RangeSel, IsIndices
      <3>2. 0 + by = 0 /\ (e - s) + by = e - s
        BY <2>1, <2>5
      <3> QED
        BY <3>1, <3>2
    <2> HIDE DEF rel, wide, wl
    <2>7. ~IsIndices(rel) /\ rel.lo = 0 /\ rel.hi = e - s
      BY <2>6 DEF IsIndices, RangeSel
    <2>8. ExtractFiltered(WindowFrom(wide.start, wl), rel) = <<>>
      <3> DEFINE W == WindowFrom(wide.start, wl)
                 b == e - s
      <3>1. ExtractFiltered(W, rel) = SubSeq(W, 0 + 1, b)
        BY <2>7 DEF ExtractFiltered, Slice
      <3>2. b \in Int /\ b < 1 /\ 0 + 1 = 1
        BY <2>1
      <3> HIDE DEF W, b
      <3>3. SubSeq(W, 1, b) = <<>>
        BY <3>2, SubSeqEmpty
      <3> QED
        BY <3>1, <3>2, <3>3 DEF W
    <2> QED
      BY <1>2, <2>3, <2>8 DEF wide, wl, rel
  <1> QED
    BY <1>3, <1>4, <1>5, <1>6

\* The coordinates of an axis, and a window of its selection at an offset among them.
AxisColumn(values, window) ==
    /\ window.sel \in Sels /\ window.offset \in Nat /\ values \in Seq(Nat)
    /\ window.offset + SelLen(window.sel) <= Len(values)
    /\ \A k \in 1 .. SelLen(window.sel) : Positions(window.sel)[k] = values[window.offset + k]

\* The part of the coordinates at the offset are those of the window.
LEMMA SlicedColumn ==
    ASSUME NEW values, NEW window, AxisColumn(values, window)
    PROVE  /\ SelLen(window.sel) \in Nat
           /\ \A k \in 1 .. SelLen(window.sel) :
                 Slice(values, window.offset, window.offset + SelLen(window.sel))[k] = Positions(window.sel)[k]
  <1> DEFINE o == window.offset
             s == SelLen(window.sel)
             P == Positions(window.sel)
  <1>1. /\ window.sel \in RangeSels \cup ListSels /\ o \in Nat /\ values \in Seq(Nat)
        /\ o + s <= Len(values)
        /\ \A k \in 1 .. s : P[k] = values[o + k]
    BY DEF AxisColumn, Sels
  <1>2. s \in Nat
    BY <1>1, SelFacts
  <1> HIDE DEF o, s, P
  <1> DEFINE a == o + 1
             b == o + s
             Q == SubSeq(values, a, b)
  <1>3. Slice(values, o, b) = Q
    BY DEF Slice
  <1>4. a \in Int /\ b \in Int /\ b - a + 1 = s
    BY <1>1, <1>2
  <1>5. \A i \in a .. b : values[i] \in Nat
    <2>1. \A i \in a .. b : i \in 1 .. Len(values)
      BY <1>1, <1>2
    <2> QED
      BY <1>1, <2>1
  <1>6. ASSUME NEW k \in 1 .. s PROVE a + k - 1 = o + k
    BY <1>1, <1>2
  <1> HIDE DEF a, b
  <1>7. \A i \in 1 .. b - a + 1 : Q[i] = values[a + i - 1]
    BY <1>4, <1>5, SubSeqProperties
  <1>8. \A k \in 1 .. s : Q[k] = P[k]
    BY <1>1, <1>4, <1>6, <1>7
  <1> QED
    BY <1>2, <1>3, <1>8 DEF o, s, P, b

\* The coordinate columns of a tile are its cells, the last axis fastest.
LEMMA CoordRowsFacts ==
    ASSUME NEW n \in Nat \ {0}, NEW windows, DOMAIN windows = 1 .. n, NEW coords,
           \A a \in 1 .. n : AxisColumn(coords[a], windows[a])
    PROVE  /\ [a \in 1 .. n |-> Positions(windows[a].sel)] \in [1 .. n -> Seq(Nat)]
           /\ CoordRows(coords, windows) = RowMajor([a \in 1 .. n |-> Positions(windows[a].sel)])
  <1> DEFINE box == [a \in 1 .. n |-> Positions(windows[a].sel)]
             s == SizesOf(box)
             t == [a \in DOMAIN windows |-> SelLen(windows[a].sel)]
             rows == Product(s)
             Values(a) == Slice(coords[a], windows[a].offset, windows[a].offset + t[a])
             Column(a) == CoordDictionary(Values(a), a, t, Product(t))
  <1>1. box \in [1 .. n -> Seq(Nat)]
    <2>1. ASSUME NEW a \in 1 .. n PROVE Positions(windows[a].sel) \in Seq(Nat)
      <3>1. windows[a].sel \in RangeSels \cup ListSels
        BY DEF AxisColumn, Sels
      <3> QED
        BY <3>1, SelFacts
    <2> QED
      BY <2>1
  <1>2. t = s /\ \A a \in 1 .. n : s[a] = SelLen(windows[a].sel)
    BY DEF SizesOf, SelLen
  <1>3. CoordRows(coords, windows)
          = [k \in 1 .. Product(t) |-> [a \in 1 .. n |-> Column(a).values[Column(a).keys[k] + 1]]]
    BY DEF CoordRows
  <1>0. n \in Nat
    OBVIOUS
  <1>4. /\ s \in [1 .. n -> Nat] /\ Product(s) \in Nat
        /\ RowMajor(box) = [k \in 1 .. Product(s) |-> [a \in 1 .. n |-> box[a][Digit(s, k - 1, a) + 1]]]
    <2> HIDE DEF box
    <2> QED
      BY <1>0, <1>1, RowMajorIs
  <1>5. ASSUME NEW k \in 1 .. Product(s), NEW a \in 1 .. n
        PROVE  Column(a).values[Column(a).keys[k] + 1] = box[a][Digit(s, k - 1, a) + 1]
    <2> DEFINE d == Digit(s, k - 1, a)
    <2>1. ProductAfter(s, a) \in Nat \ {0}
      <3>1. Product(s) # 0
        BY <1>4
      <3>2. ProductAfter(s, 0) # 0
        BY <3>1 DEF Product
      <3> HIDE DEF s
      <3>3. \A i \in 0 .. n : ProductAfter(s, i) \in Nat \ {0}
        BY <1>0, <1>4, <3>2, ProductPositive
      <3> QED
        BY <3>3
    <2>2. Column(a).values = Values(a) /\ Column(a).keys = BuildCoordKeys(a, t, Product(t))
      BY DEF CoordDictionary
    <2>3. Column(a).keys[k] = d
      <3> HIDE DEF s, t
      <3>1. BuildCoordKeys(a, s, Product(s))[k] = d
        BY <2>1 DEF BuildCoordKeys, Digit
      <3> QED
        BY <1>2, <2>2, <3>1
    <2>4. d + 1 \in 1 .. s[a]
      <3> HIDE DEF s
      <3> QED
        BY <1>0, <1>4, DigitRange
    <2> DEFINE w == windows[a]
               z == SelLen(w.sel)
               i == d + 1
    <2>5. AxisColumn(coords[a], w)
      OBVIOUS
    <2>6. Values(a) = Slice(coords[a], w.offset, w.offset + z)
      OBVIOUS
    <2>7. i \in 1 .. z
      BY <1>2, <2>4
    <2>8. box[a][i] = Positions(w.sel)[i]
      <3> HIDE DEF i
      <3> QED
        OBVIOUS
    <2> HIDE DEF i, w, d, Values, box
    <2>9. Slice(coords[a], w.offset, w.offset + z)[i] = Positions(w.sel)[i]
      BY <2>5, <2>7, SlicedColumn
    <2>10. Values(a)[i] = box[a][i]
      BY <2>6, <2>8, <2>9
    <2> QED
      BY <2>2, <2>3, <2>10 DEF i, d
  <1>6. CoordRows(coords, windows) = RowMajor(box)
    <2> HIDE DEF box, s, t, Column
    <2> QED
      BY <1>2, <1>3, <1>4, <1>5
  <1> QED
    BY <1>1, <1>6

-----------------------------------------------------------------------------
(* The order in which a grid visits its tiles. *)

\* The windows of an axis, by the positions they hold.
WindowMembers(sel, tile, w) == Members(WindowOuterSelection(sel, tile)[w])

\* The k-th place of window w comes before every place of a later one.
LEMMA PlacesInOrder ==
    ASSUME NEW step \in Nat, NEW v \in Nat \ {0}, NEW w \in Nat \ {0}, v < w,
           NEW k \in 1 .. step, NEW l \in Nat \ {0}
    PROVE  (v - 1) * step + k # (w - 1) * step + l
  <1> DEFINE d == w - v
             x == (v - 1) * step
  <1>1. d \in Nat \ {0} /\ w - 1 = (v - 1) + d
    OBVIOUS
  <1>2. (w - 1) * step = x + d * step
    <2>1. ((v - 1) + d) * step = (v - 1) * step + d * step
      BY <1>1
    <2> QED
      BY <1>1, <2>1
  <1>3. d * step >= step /\ d * step \in Nat
    <2> HIDE DEF d
    <2>1. PICK e \in Nat : d = e + 1
      BY <1>1
    <2>2. d * step = e * step + step /\ e * step \in Nat
      BY <2>1
    <2> QED
      BY <2>2
  <1>4. x \in Nat
    <2>1. v - 1 \in Nat
      OBVIOUS
    <2> QED
      BY <2>1
  <1> DEFINE y == d * step
             z == (w - 1) * step
  <1>5. z = x + y /\ y >= step /\ y \in Nat
    BY <1>2, <1>3
  <1> HIDE DEF d, x, y, z
  <1>6. x + k # z + l
    BY <1>4, <1>5
  <1> QED
    BY <1>6 DEF x, z

\* The windows of an axis hold its positions, each in one of them.
Windowed(sel, tile) ==
    /\ Len(AxisWindows(sel, tile)) \in Nat \ {0}
    /\ \A w \in 1 .. Len(AxisWindows(sel, tile)) : WindowMembers(sel, tile, w) \subseteq Members(sel)
    /\ \A x \in Members(sel) : \E w \in 1 .. Len(AxisWindows(sel, tile)) : x \in WindowMembers(sel, tile, w)
    /\ \A v, w \in 1 .. Len(AxisWindows(sel, tile)) : v # w =>
          \A x \in WindowMembers(sel, tile, v) : x \notin WindowMembers(sel, tile, w)

\* They do.
LEMMA WindowsCut ==
    ASSUME NEW sel \in Sels, NEW tile \in Nat
    PROVE  Windowed(sel, tile)
  <1> DEFINE step == Max2(1, tile)
             ws == WindowOuterSelection(sel, tile)
             pos == Positions(sel)
             L == SelLen(sel)
  <1>1. PICK m \in Nat \ {0} : Windowing(ws, m, sel, step) /\ Len(AxisWindows(sel, tile)) = m
    BY WindowsOfAxis
  <1>2. sel \in RangeSels \cup ListSels
    BY DEF Sels
  <1>3. /\ pos \in Seq(Nat) /\ L \in Nat /\ DOMAIN pos = 1 .. L /\ Ascends(pos)
        /\ Ran(pos) = Members(sel)
    BY <1>2, SelFacts
  <1>4. step \in Nat
    BY DEF Max2
  <1> HIDE DEF step, ws, pos, L
  <1>5. ASSUME NEW w \in 1 .. m
        PROVE  /\ WindowMembers(sel, tile, w) = Ran(Positions(ws[w]))
               /\ DOMAIN Positions(ws[w]) = 1 .. SelLen(ws[w]) /\ SelLen(ws[w]) \in Nat
               /\ SelLen(ws[w]) <= step
               /\ \A k \in 1 .. SelLen(ws[w]) :
                     (w - 1) * step + k \in 1 .. L /\ Positions(ws[w])[k] = pos[(w - 1) * step + k]
    <2>1. ws[w] \in RangeSels \cup ListSels
      BY <1>1 DEF Windowing
    <2>2. /\ DOMAIN Positions(ws[w]) = 1 .. SelLen(ws[w]) /\ SelLen(ws[w]) \in Nat
          /\ Members(ws[w]) = Ran(Positions(ws[w]))
      BY <2>1, SelFacts
    <2>3. /\ SelLen(ws[w]) <= step /\ (w - 1) * step + SelLen(ws[w]) <= L
          /\ \A k \in 1 .. SelLen(ws[w]) : Positions(ws[w])[k] = pos[(w - 1) * step + k]
      BY <1>1 DEF Windowing, pos, L
    <2> DEFINE x == (w - 1) * step
               k0 == SelLen(ws[w])
    <2>4. x \in Nat
      <3>1. w - 1 \in Nat
        OBVIOUS
      <3> QED
        BY <1>4, <3>1
    <2>5. k0 \in Nat /\ x + k0 <= L
      BY <2>2, <2>3
    <2> HIDE DEF x, k0
    <2>6. \A k \in 1 .. k0 : x + k \in 1 .. L
      BY <1>3, <2>4, <2>5
    <2> QED
      BY <2>2, <2>3, <2>6 DEF x, k0, WindowMembers, ws
  <1>6. ASSUME NEW w \in 1 .. m PROVE WindowMembers(sel, tile, w) \subseteq Members(sel)
    <2>1. ASSUME NEW x \in WindowMembers(sel, tile, w) PROVE x \in Ran(pos)
      <3>1. PICK k \in 1 .. SelLen(ws[w]) : x = Positions(ws[w])[k]
        BY <1>5 DEF Ran
      <3> DEFINE i == (w - 1) * step + k
      <3>2. i \in 1 .. L /\ x = pos[i]
        BY <1>5, <3>1
      <3> HIDE DEF i
      <3> QED
        BY <1>3, <3>2 DEF Ran
    <2> QED
      BY <1>3, <2>1
  <1>7. ASSUME NEW x \in Members(sel) PROVE \E w \in 1 .. m : x \in WindowMembers(sel, tile, w)
    <2>1. PICK i \in 1 .. L : pos[i] = x
      BY <1>3 DEF Ran
    <2>2. PICK w \in 1 .. m : \E k \in 1 .. SelLen(ws[w]) : i = (w - 1) * step + k
      BY <1>1, <2>1 DEF Windowing, L
    <2>3. PICK k \in 1 .. SelLen(ws[w]) : i = (w - 1) * step + k
      BY <2>2
    <2>4. Positions(ws[w])[k] = x
      BY <1>5, <2>1, <2>3
    <2>5. x \in Ran(Positions(ws[w]))
      BY <1>5, <2>4 DEF Ran
    <2> QED
      BY <1>5, <2>5
  <1>8. ASSUME NEW v \in 1 .. m, NEW w \in 1 .. m, v < w, NEW x \in WindowMembers(sel, tile, v),
               x \in WindowMembers(sel, tile, w)
        PROVE  FALSE
    <2>1. PICK k \in 1 .. SelLen(ws[v]) : x = Positions(ws[v])[k]
      BY <1>5 DEF Ran
    <2>2. PICK l \in 1 .. SelLen(ws[w]) : x = Positions(ws[w])[l]
      BY <1>5, <1>8 DEF Ran
    <2> DEFINE i == (v - 1) * step + k
               j == (w - 1) * step + l
    <2>3. i \in 1 .. L /\ j \in 1 .. L /\ pos[i] = pos[j]
      BY <1>5, <2>1, <2>2
    <2>4. i # j
      <3>1. SelLen(ws[v]) <= step /\ SelLen(ws[v]) \in Nat /\ SelLen(ws[w]) \in Nat
        BY <1>5
      <3>2. k \in 1 .. step /\ l \in Nat \ {0} /\ v \in Nat \ {0} /\ w \in Nat \ {0}
        BY <1>4, <3>1
      <3> QED
        BY <1>4, <1>8, <3>2, PlacesInOrder
    <2>5. \A e, f \in DOMAIN pos : e < f => pos[e] < pos[f]
      BY <1>3 DEF Ascends
    <2>6. pos[i] \in Nat /\ pos[j] \in Nat
      BY <1>3, <2>3
    <2> HIDE DEF i, j
    <2>7. i < j \/ j < i
      BY <1>3, <2>3, <2>4
    <2>8. i \in DOMAIN pos /\ j \in DOMAIN pos
      BY <1>3, <2>3
    <2>9. i < j => pos[i] < pos[j]
      BY <2>5, <2>8
    <2>10. j < i => pos[j] < pos[i]
      BY <2>5, <2>8
    <2> QED
      BY <2>3, <2>6, <2>7, <2>9, <2>10
  <1>9. ASSUME NEW v \in 1 .. m, NEW w \in 1 .. m, v # w, NEW x \in WindowMembers(sel, tile, v)
        PROVE  x \notin WindowMembers(sel, tile, w)
    <2>1. v < w \/ w < v
      BY <1>9
    <2> QED
      BY <1>8, <1>9, <2>1
  <1> QED
    BY <1>1, <1>6, <1>7, <1>9 DEF Windowed

\* The cursors a grid may have.
Cursors(sels, tiles, n) ==
    {u \in [1 .. n -> Nat] : \A a \in 1 .. n : u[a] \in 1 .. Len(AxisWindows(sels[a], tiles[a]))}

\* The odometer shows u before it shows v: the first digit that differs is smaller.
ShownBefore(u, v, n) == \E a \in 1 .. n : u[a] < v[a] /\ \A b \in 1 .. a - 1 : u[b] = v[b]

\* The first digit that differs.
LEMMA FirstDifference ==
    ASSUME NEW n \in Nat, NEW u \in [1 .. n -> Nat], NEW v \in [1 .. n -> Nat], u # v
    PROVE  \E a \in 1 .. n : u[a] # v[a] /\ \A b \in 1 .. a - 1 : u[b] = v[b]
  <1> DEFINE T == {a \in 1 .. n : u[a] # v[a]}
  <1>1. T # {}
    OBVIOUS
  <1>2. T \subseteq Nat
    OBVIOUS
  <1>3. PICK a \in T : \A b \in T : a <= b
    BY <1>1, <1>2, LeastNat
  <1>4. a \in 1 .. n /\ u[a] # v[a]
    OBVIOUS
  <1>5. ASSUME NEW b \in 1 .. a - 1 PROVE u[b] = v[b]
    <2>1. b \in 1 .. n /\ ~(a <= b)
      BY <1>4
    <2> QED
      BY <1>3, <2>1
  <1> QED
    BY <1>4, <1>5

\* No cursor is before itself.
LEMMA NotBeforeItself ==
    ASSUME NEW n \in Nat, NEW u \in [1 .. n -> Nat]
    PROVE  ~ShownBefore(u, u, n)
  BY DEF ShownBefore

\* The cursors up to where the odometer stands, once it has turned.
LEMMA TurnOrder ==
    ASSUME NEW n \in Nat, NEW sels, NEW tiles, NEW grid, NEW next, NEW t, Turns(grid, next, t, sels, tiles, n),
           grid.cursor \in [1 .. n -> Nat], NEW u \in Cursors(sels, tiles, n)
    PROVE  ShownBefore(u, next.cursor, n) <=> ShownBefore(u, grid.cursor, n) \/ u = grid.cursor
  <1> DEFINE c == grid.cursor
             d == next.cursor
             W(a) == Len(AxisWindows(sels[a], tiles[a]))
  <1>1. /\ t \in 1 .. n /\ \A b \in t + 1 .. n : c[b] = W(b)
        /\ d = [a \in 1 .. n |-> IF a < t THEN c[a] ELSE IF a = t THEN c[a] + 1 ELSE 1]
    BY DEF Turns
  <1>2. u \in [1 .. n -> Nat] /\ \A a \in 1 .. n : u[a] \in 1 .. W(a)
    BY DEF Cursors
  <1>3. c \in [1 .. n -> Nat]
    OBVIOUS
  <1>a. \A a \in 1 .. n : /\ a < t => d[a] = c[a]
                          /\ a = t => d[a] = c[a] + 1
                          /\ a > t => d[a] = 1
    BY <1>1
  <1> HIDE DEF c, d
  <1>4. ASSUME u = c PROVE ShownBefore(u, d, n)
    <2>1. u[t] < d[t]
      BY <1>1, <1>2, <1>4, <1>a
    <2>2. \A b \in 1 .. t - 1 : u[b] = d[b]
      BY <1>1, <1>4, <1>a
    <2> QED
      BY <1>1, <2>1, <2>2 DEF ShownBefore
  <1>5. ASSUME ShownBefore(u, c, n) PROVE ShownBefore(u, d, n)
    <2>1. PICK a \in 1 .. n : u[a] < c[a] /\ \A b \in 1 .. a - 1 : u[b] = c[b]
      BY <1>5 DEF ShownBefore
    <2>2. CASE a < t
      <3>1. u[a] < d[a]
        BY <1>a, <2>1, <2>2
      <3>2. \A b \in 1 .. a - 1 : u[b] = d[b]
        BY <1>1, <1>a, <2>1, <2>2
      <3> QED
        BY <3>1, <3>2 DEF ShownBefore
    <2>3. CASE a >= t
      <3>1. u[t] <= c[t]
        <4>1. a = t \/ t \in 1 .. a - 1
          BY <1>1, <2>3
        <4>2. u[t] \in Nat /\ c[t] \in Nat
          BY <1>1, <1>2, <1>3
        <4> QED
          BY <2>1, <4>1, <4>2
      <3>2. u[t] < d[t]
        <4>1. u[t] \in Nat /\ c[t] \in Nat /\ d[t] = c[t] + 1
          BY <1>1, <1>2, <1>3, <1>a
        <4> QED
          BY <3>1, <4>1
      <3>3. \A b \in 1 .. t - 1 : u[b] = d[b]
        BY <1>1, <1>a, <2>1, <2>3
      <3> QED
        BY <1>1, <3>2, <3>3 DEF ShownBefore
    <2> QED
      BY <1>1, <2>2, <2>3
  <1>6. ASSUME ShownBefore(u, d, n), u # c PROVE ShownBefore(u, c, n)
    <2>1. PICK a \in 1 .. n : u[a] < d[a] /\ \A b \in 1 .. a - 1 : u[b] = d[b]
      BY <1>6 DEF ShownBefore
    <2>2. CASE a < t
      <3>1. u[a] < c[a]
        BY <1>a, <2>1, <2>2
      <3>2. ASSUME NEW b \in 1 .. a - 1 PROVE u[b] = c[b]
        <4>1. b \in 1 .. n /\ b < t
          BY <1>1, <2>2
        <4> QED
          BY <1>a, <2>1, <4>1
      <3> QED
        BY <3>1, <3>2 DEF ShownBefore
    <2>3. CASE a > t
      <3>1. d[a] = 1
        BY <1>a, <2>3
      <3>2. u[a] \in 1 .. W(a)
        BY <1>2
      <3> HIDE DEF W
      <3> QED
        BY <2>1, <3>1, <3>2
    <2>4. CASE a = t
      <3>1. PICK b \in 1 .. n : u[b] # c[b] /\ \A e \in 1 .. b - 1 : u[e] = c[e]
        BY <1>2, <1>3, <1>6, FirstDifference
      <3>2. ~(b < t)
        <4>1. ASSUME b < t PROVE FALSE
          <5>1. b \in 1 .. a - 1
            BY <2>4, <4>1
          <5>2. u[b] = d[b] /\ d[b] = c[b]
            BY <1>a, <2>1, <4>1, <5>1
          <5> QED
            BY <3>1, <5>2
        <4> QED
          BY <4>1
      <3>3. u[b] < c[b]
        <4>1. u[b] \in Nat /\ c[b] \in Nat
          BY <1>2, <1>3
        <4>2. CASE b = t
          <5>1. u[t] < c[t] + 1
            BY <1>a, <2>1, <2>4
          <5> QED
            BY <3>1, <4>1, <4>2, <5>1
        <4>3. CASE b > t
          <5>1. b \in t + 1 .. n
            BY <1>1, <4>3
          <5>2. c[b] = W(b) /\ u[b] \in 1 .. W(b)
            BY <1>1, <1>2, <5>1
          <5> HIDE DEF W
          <5> QED
            BY <3>1, <4>1, <5>2
        <4> QED
          BY <1>1, <3>2, <4>2, <4>3
      <3> QED
        BY <3>1, <3>3 DEF ShownBefore
    <2> QED
      BY <1>1, <2>2, <2>3, <2>4
  <1> QED
    BY <1>4, <1>5, <1>6 DEF c, d

\* When it runs out, it stands on the last cursor.
LEMMA LastOrder ==
    ASSUME NEW n \in Nat, NEW sels, NEW tiles, NEW grid, NEW next, RunsOut(grid, next, sels, tiles, n),
           grid.cursor \in [1 .. n -> Nat], NEW u \in Cursors(sels, tiles, n)
    PROVE  ShownBefore(u, grid.cursor, n) \/ u = grid.cursor
  <1> DEFINE c == grid.cursor
             W(a) == Len(AxisWindows(sels[a], tiles[a]))
  <1>1. \A b \in 1 .. n : c[b] = W(b)
    BY DEF RunsOut
  <1>2. u \in [1 .. n -> Nat] /\ \A a \in 1 .. n : u[a] \in 1 .. W(a)
    BY DEF Cursors
  <1>3. c \in [1 .. n -> Nat]
    OBVIOUS
  <1> HIDE DEF c, W
  <1>4. ASSUME u # c PROVE ShownBefore(u, c, n)
    <2>1. PICK b \in 1 .. n : u[b] # c[b] /\ \A e \in 1 .. b - 1 : u[e] = c[e]
      BY <1>2, <1>3, <1>4, FirstDifference
    <2>2. u[b] \in Nat /\ c[b] \in Nat /\ u[b] \in 1 .. c[b]
      BY <1>1, <1>2, <1>3
    <2>3. u[b] < c[b]
      BY <2>1, <2>2
    <2> QED
      BY <2>1, <2>3 DEF ShownBefore
  <1> QED
    BY <1>4 DEF c

-----------------------------------------------------------------------------
(* The cells that a grid has visited. *)

\* The cells of the tile at a cursor.
TileCells(u, sels, tiles, n) ==
    {c \in [1 .. n -> Nat] : \A a \in 1 .. n : c[a] \in WindowMembers(sels[a], tiles[a], u[a])}

\* The cells of the tiles before the one the grid stands on.
Seen(grid, sels, tiles, n) ==
    {c \in [1 .. n -> Nat] : \E u \in Cursors(sels, tiles, n) :
        (grid.done \/ ShownBefore(u, grid.cursor, n)) /\ c \in TileCells(u, sels, tiles, n)}

\* The cells of a selection on each axis.
BoxCells(sels, n) == {c \in [1 .. n -> Nat] : \A a \in 1 .. n : c[a] \in Members(sels[a])}

\* A grid that starts has visited none.
LEMMA SeenNone ==
    ASSUME NEW n \in Nat, NEW sels \in [1 .. n -> Sels], NEW tiles \in [1 .. n -> Nat]
    PROVE  Seen(TileGrid(sels, tiles), sels, tiles, n) = {}
  <1> DEFINE g == TileGrid(sels, tiles)
  <1>1. g.cursor = [a \in 1 .. n |-> 1] /\ ~g.done
    BY GridStarts
  <1> HIDE DEF g
  <1>2. ASSUME NEW u \in Cursors(sels, tiles, n), ShownBefore(u, g.cursor, n) PROVE FALSE
    <2>1. PICK a \in 1 .. n : u[a] < g.cursor[a]
      BY <1>2 DEF ShownBefore
    <2> DEFINE W == Len(AxisWindows(sels[a], tiles[a]))
    <2>2. u[a] \in 1 .. W
      BY DEF Cursors
    <2> HIDE DEF W
    <2> QED
      BY <1>1, <2>1, <2>2
  <1> QED
    BY <1>1, <1>2 DEF Seen, g

\* Where a grid stands is one of its cursors.
LEMMA StandsOnTile ==
    ASSUME NEW n \in Nat, NEW sels, NEW tiles, NEW grid, GridOK(grid, sels, tiles, n)
    PROVE  grid.cursor \in Cursors(sels, tiles, n) /\ grid.cursor \in [1 .. n -> Nat]
  BY DEF GridOK, Cursors

\* Different tiles have no cell in common.
LEMMA TilesDisjoint ==
    ASSUME NEW n \in Nat, NEW sels \in [1 .. n -> Sels], NEW tiles \in [1 .. n -> Nat],
           NEW u \in Cursors(sels, tiles, n), NEW v \in Cursors(sels, tiles, n),
           NEW c, c \in TileCells(u, sels, tiles, n), c \in TileCells(v, sels, tiles, n)
    PROVE  u = v
  <1>1. ASSUME NEW a \in 1 .. n PROVE u[a] = v[a]
    <2>1. Windowed(sels[a], tiles[a])
      BY WindowsCut
    <2>2. /\ c[a] \in WindowMembers(sels[a], tiles[a], u[a])
          /\ c[a] \in WindowMembers(sels[a], tiles[a], v[a])
      BY DEF TileCells
    <2>3. /\ u[a] \in 1 .. Len(AxisWindows(sels[a], tiles[a]))
          /\ v[a] \in 1 .. Len(AxisWindows(sels[a], tiles[a]))
      BY DEF Cursors
    <2> QED
      BY <2>1, <2>2, <2>3 DEF Windowed
  <1>2. u \in [1 .. n -> Nat] /\ v \in [1 .. n -> Nat]
    BY DEF Cursors
  <1> QED
    BY <1>1, <1>2

\* A step of the grid adds the cells of the tile it stood on, and these are new.
Visits(grid, next, sels, tiles, n) ==
    /\ Seen(next, sels, tiles, n) = Seen(grid, sels, tiles, n) \cup TileCells(grid.cursor, sels, tiles, n)
    /\ \A c \in TileCells(grid.cursor, sels, tiles, n) : c \notin Seen(grid, sels, tiles, n)

\* AdvanceGrid takes such a step.
LEMMA SeenNext ==
    ASSUME NEW n \in Nat, NEW sels \in [1 .. n -> Sels], NEW tiles \in [1 .. n -> Nat],
           NEW grid, GridOK(grid, sels, tiles, n), ~grid.done
    PROVE  Visits(grid, AdvanceGrid(grid), sels, tiles, n)
  <1> DEFINE next == AdvanceGrid(grid)
             C == Cursors(sels, tiles, n)
             TC(u) == TileCells(u, sels, tiles, n)
  <1>1. grid.cursor \in C /\ grid.cursor \in [1 .. n -> Nat]
    BY StandsOnTile
  <1>2. \A u \in C : TC(u) \subseteq [1 .. n -> Nat]
    BY DEF TileCells
  <1>3. RunsOut(grid, next, sels, tiles, n) \/ \E t : Turns(grid, next, t, sels, tiles, n)
    BY GridAdvances
  <1> HIDE DEF next
  <1>4. ASSUME NEW u \in C
        PROVE  (next.done \/ ShownBefore(u, next.cursor, n)) <=> (ShownBefore(u, grid.cursor, n) \/ u = grid.cursor)
    <2>1. CASE RunsOut(grid, next, sels, tiles, n)
      <3>1. next.done
        BY <2>1 DEF RunsOut
      <3>2. ShownBefore(u, grid.cursor, n) \/ u = grid.cursor
        BY <1>1, <2>1, LastOrder
      <3> QED
        BY <3>1, <3>2
    <2>2. CASE \E t : Turns(grid, next, t, sels, tiles, n)
      <3>1. PICK t : Turns(grid, next, t, sels, tiles, n)
        BY <2>2
      <3>2. ~next.done
        BY <3>1 DEF Turns
      <3>3. ShownBefore(u, next.cursor, n) <=> ShownBefore(u, grid.cursor, n) \/ u = grid.cursor
        BY <1>1, <3>1, TurnOrder
      <3> QED
        BY <3>2, <3>3
    <2> QED
      BY <1>3, <2>1, <2>2
  <1>5. Seen(grid, sels, tiles, n) = {c \in [1 .. n -> Nat] : \E u \in C : ShownBefore(u, grid.cursor, n) /\ c \in TC(u)}
    BY DEF Seen
  <1>6. Seen(next, sels, tiles, n)
          = {c \in [1 .. n -> Nat] : \E u \in C : (next.done \/ ShownBefore(u, next.cursor, n)) /\ c \in TC(u)}
    BY DEF Seen
  <1>7. ASSUME NEW c \in TC(grid.cursor) PROVE c \notin Seen(grid, sels, tiles, n)
    <2>1. ASSUME NEW u \in C, ShownBefore(u, grid.cursor, n), c \in TC(u) PROVE FALSE
      <3>1. u = grid.cursor
        BY <1>1, <1>7, <2>1, TilesDisjoint
      <3> QED
        BY <1>1, <2>1, <3>1, NotBeforeItself
    <2> QED
      BY <1>5, <2>1
  <1> HIDE DEF C, TC
  <1>8. Seen(next, sels, tiles, n) = Seen(grid, sels, tiles, n) \cup TC(grid.cursor)
    BY <1>1, <1>2, <1>4, <1>5, <1>6
  <1> QED
    BY <1>7, <1>8 DEF Visits, next, TC

\* All that is visited is in the box.
LEMMA SeenInside ==
    ASSUME NEW n \in Nat, NEW sels \in [1 .. n -> Sels], NEW tiles \in [1 .. n -> Nat]
    PROVE  /\ \A u \in Cursors(sels, tiles, n) : TileCells(u, sels, tiles, n) \subseteq BoxCells(sels, n)
           /\ \A grid : Seen(grid, sels, tiles, n) \subseteq BoxCells(sels, n)
  <1>1. ASSUME NEW u \in Cursors(sels, tiles, n), NEW c \in TileCells(u, sels, tiles, n)
        PROVE  c \in BoxCells(sels, n)
    <2>1. ASSUME NEW a \in 1 .. n PROVE c[a] \in Members(sels[a])
      <3>1. Windowed(sels[a], tiles[a])
        BY WindowsCut
      <3>2. c[a] \in WindowMembers(sels[a], tiles[a], u[a])
        BY DEF TileCells
      <3>3. u[a] \in 1 .. Len(AxisWindows(sels[a], tiles[a]))
        BY DEF Cursors
      <3> QED
        BY <3>1, <3>2, <3>3 DEF Windowed
    <2>2. c \in [1 .. n -> Nat]
      BY DEF TileCells
    <2> QED
      BY <2>1, <2>2 DEF BoxCells
  <1> QED
    BY <1>1 DEF Seen

\* A grid that has run out has visited the whole box.
LEMMA SeenAll ==
    ASSUME NEW n \in Nat, NEW sels \in [1 .. n -> Sels], NEW tiles \in [1 .. n -> Nat],
           NEW grid, grid.done
    PROVE  Seen(grid, sels, tiles, n) = BoxCells(sels, n)
  <1>1. ASSUME NEW c \in BoxCells(sels, n) PROVE c \in Seen(grid, sels, tiles, n)
    <2> DEFINE W(a) == Len(AxisWindows(sels[a], tiles[a]))
               Holds(a, w) == c[a] \in WindowMembers(sels[a], tiles[a], w)
               u == [a \in 1 .. n |-> CHOOSE w \in 1 .. W(a) : Holds(a, w)]
    <2>1. c \in [1 .. n -> Nat] /\ \A a \in 1 .. n : c[a] \in Members(sels[a])
      BY DEF BoxCells
    <2>2. ASSUME NEW a \in 1 .. n PROVE \E w \in 1 .. W(a) : Holds(a, w)
      <3>1. Windowed(sels[a], tiles[a])
        BY WindowsCut
      <3> QED
        BY <2>1, <3>1 DEF Windowed
    <2>3. ASSUME NEW a \in 1 .. n PROVE u[a] \in 1 .. W(a) /\ Holds(a, u[a])
      <3> HIDE DEF W, Holds
      <3> QED
        BY <2>2
    <2>4. u \in [1 .. n -> Nat]
      <3>1. \A a \in 1 .. n : u[a] \in Nat
        <4> HIDE DEF u
        <4> QED
          BY <2>3
      <3>2. u = [a \in 1 .. n |-> u[a]]
        OBVIOUS
      <3> HIDE DEF u
      <3> QED
        BY <3>1, <3>2
    <2> HIDE DEF u
    <2>5. u \in Cursors(sels, tiles, n)
      BY <2>3, <2>4 DEF Cursors
    <2>6. c \in TileCells(u, sels, tiles, n)
      BY <2>1, <2>3 DEF TileCells
    <2> QED
      BY <2>1, <2>5, <2>6 DEF Seen
  <1> QED
    BY <1>1, SeenInside
=============================================================================
