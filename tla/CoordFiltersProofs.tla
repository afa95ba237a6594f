------------------------- MODULE CoordFiltersProofs -------------------------
(***************************************************************************)
(* Proofs about CoordFilters for any monotone axis and any WHERE clause:    *)
(* which positions a filter resolves to, what an intersection keeps, and    *)
(* how the positions chosen relate to the conjuncts.                        *)
(***************************************************************************)
EXTENDS CoordFilters, PartitionProofs

-----------------------------------------------------------------------------
(* What filters and bounds mean. *)

\* The selections that the reader makes: a range, or ascending indices.
SelOK(s) ==
    \/ \E lo, hi \in Nat : s = RangeSel(lo, hi)
    \/ \E at \in Seq(Nat) : s = IndicesSel(at) /\ Ascends(at)

\* The date part that find_date_part_indices compares.
PartIs(c, field, v, x) ==
    /\ c.time /\ field \in {"MONTH", "HOUR", "DOW"}
    /\ x = IF field = "DOW" THEN v % 7 ELSE SqlDatePart(field, v)

\* A value respects a lower bound, an upper bound; an absent bound is <<>>.
AtLeast(low, v) == low # <<>> => v >= low[1] /\ (v = low[1] => low[2])
AtMost(high, v) == high # <<>> => v <= high[1] /\ (v = high[1] => high[2])

\* A value passes a filter.
Passes(c, f, v) ==
    /\ f.kind = "eq" => v = f.a
    /\ f.kind = "range" => AtLeast(f.low, v) /\ AtMost(f.high, v)
    /\ f.kind = "in" => \E k \in DOMAIN f.a : v = f.a[k]
    /\ f.kind = "part" => PartIs(c, f.field, v, f.a)
    /\ f.kind = "partin" => \E k \in DOMAIN f.a : PartIs(c, f.field, v, f.a[k])

\* A value lies within the bounds.
Within(c, b, v) ==
    /\ b.eq # <<>> => v = b.eq[1]
    /\ AtLeast(b.low, v) /\ AtMost(b.high, v)
    /\ \A k \in DOMAIN b.date_parts : PartIs(c, b.date_parts[k][1], v, b.date_parts[k][2])
    /\ b.in_list # <<>> => \E k \in DOMAIN b.in_list : v = b.in_list[k]
    /\ \A k \in DOMAIN b.date_part_sets : \E j \in DOMAIN b.date_part_sets[k][2] :
          PartIs(c, b.date_part_sets[k][1], v, b.date_part_sets[k][2][j])

\* The bounds hold what a conjunct says.
Stored(b, c) ==
    /\ c.op = "=" => b.eq = <<c.a>>
    /\ c.op \in {">=", "between"} => b.low = <<c.a, TRUE>>
    /\ c.op = ">" => b.low = <<c.a, FALSE>>
    /\ c.op = "<=" => b.high = <<c.a, TRUE>>
    /\ c.op = "<" => b.high = <<c.a, FALSE>>
    /\ c.op = "between" => b.high = <<c.b, TRUE>>
    /\ c.op = "in" /\ c.list # <<>> => b.in_list = c.list
    /\ c.op = "part" => \E j \in DOMAIN b.date_parts : b.date_parts[j] = <<c.field, c.a>>
    /\ c.op = "partin" /\ c.list # <<>> =>
          \E j \in DOMAIN b.date_part_sets : b.date_part_sets[j] = <<c.field, c.list>>

\* Types of bounds and of filters.
Bound == {<<>>} \cup (Int \X BOOLEAN)

AllBounds ==
    [eq : {<<>>} \cup {<<x>> : x \in Int}, low : Bound, high : Bound,
     date_parts : Seq(STRING \X Int), in_list : Seq(Int),
     date_part_sets : Seq(STRING \X Seq(Int))]

EqFilters   == [kind : {"eq"}, a : Int]
RangeFilters == [kind : {"range"}, low : Bound, high : Bound]
PartFilters == [kind : {"part"}, field : STRING, a : Int]
InFilters   == [kind : {"in"}, a : Seq(Int)]
PartInFilters == [kind : {"partin"}, field : STRING, a : Seq(Int)]
AllFilters  == EqFilters \cup RangeFilters \cup PartFilters \cup InFilters \cup PartInFilters

-----------------------------------------------------------------------------
(* The inductive invariant. *)

\* The positions of the coordinate.
Axis == 0 .. Len(case.vals) - 1

\* The number of conjuncts extracted, and of filters resolved.
Consumed == Len(case.where) - Len(rest)
Done == Len(IntoFilters(bounds)) - Len(kinds)

\* Types, and what is left of the WHERE clause is its end.
Typed ==
    /\ case \in Cases /\ bounds \in AllBounds /\ rest \in Seq(Conjunctions)
    /\ stage \in {"parse", "resolve", "selected", "nothing"}
    /\ Len(rest) <= Len(case.where)
    /\ \A k \in DOMAIN rest : rest[k] = case.where[Consumed + k]

\* A value that satisfies what was extracted lies within the bounds.
Implied ==
    (\A c \in Conjuncts : KnownField(c) /\ ~c.cast) =>
        \A v \in Int : (\A k \in 1 .. Consumed : Satisfies(case.where[k], v)) => Within(case, bounds, v)

\* A conjunct is kept until another one fills its slot.
Kept ==
    \A k \in 1 .. Consumed :
        (\A j \in k + 1 .. Consumed : Slot(case.where[j]) \cap Slot(case.where[k]) = {})
            => Stored(bounds, case.where[k])

\* The filters resolved so far select the positions that pass them.
Selected ==
    IF stage = "parse" THEN sel = <<>> /\ kinds = <<>>
    ELSE /\ rest = <<>>
         /\ kinds \in Seq(AllFilters) /\ Len(kinds) <= Len(IntoFilters(bounds))
         /\ \A k \in DOMAIN kinds : kinds[k] = IntoFilters(bounds)[Done + k]
         /\ stage = "resolve" => kinds # <<>> /\ (sel = <<>> => Done = 0)
         /\ stage \in {"selected", "nothing"} => sel # <<>>
         /\ stage = "selected" => kinds = <<>>
         /\ sel # <<>> =>
               /\ SelOK(sel[1])
               /\ Members(sel[1]) = {i \in Axis : \A k \in 1 .. Done :
                                        Passes(case, IntoFilters(bounds)[k], case.vals[i + 1])}
               /\ Members(sel[1]) = {} <=> stage = "nothing"

\* The inductive invariant.
IInv == Typed /\ Implied /\ Kept /\ Selected

-----------------------------------------------------------------------------
(* Selections. *)

\* A range selects what lies in it.
LEMMA RangeFacts ==
    ASSUME NEW lo \in Nat, NEW hi \in Nat
    PROVE  /\ SelOK(RangeSel(lo, hi)) /\ ~IsIndices(RangeSel(lo, hi))
           /\ RangeSel(lo, hi).lo = lo /\ RangeSel(lo, hi).hi = hi
           /\ Members(RangeSel(lo, hi)) = lo .. hi - 1
           /\ Ascends(Positions(RangeSel(lo, hi)))
  <1>1. SelOK(RangeSel(lo, hi))
    BY DEF SelOK
  <1>2. /\ ~IsIndices(RangeSel(lo, hi)) /\ RangeSel(lo, hi).lo = lo /\ RangeSel(lo, hi).hi = hi
    BY DEF IsIndices, RangeSel
  <1>3. Members(RangeSel(lo, hi)) = lo .. hi - 1
    BY <1>2 DEF Members
  <1>4. Positions(RangeSel(lo, hi)) = [k \in 1 .. (IF hi > lo THEN hi - lo ELSE 0) |-> lo + k - 1]
    BY <1>2 DEF Positions
  <1>5. Ascends(Positions(RangeSel(lo, hi)))
    BY <1>4 DEF Ascends
  <1> QED
    BY <1>1, <1>2, <1>3, <1>5

\* Indices select their elements.
LEMMA IndicesFacts ==
    ASSUME NEW at
    PROVE  /\ IsIndices(IndicesSel(at)) /\ IndicesSel(at).idx = at
           /\ Members(IndicesSel(at)) = {at[k] : k \in DOMAIN at}
           /\ Positions(IndicesSel(at)) = at
  <1>1. IsIndices(IndicesSel(at)) /\ IndicesSel(at).idx = at
    BY DEF IsIndices, IndicesSel
  <1> QED
    BY <1>1 DEF Members, Positions

\* A set of positions, sorted, selects that set.
LEMMA SortedSelects ==
    ASSUME NEW n \in Nat, NEW S, S \subseteq 0 .. n - 1
    PROVE  SelOK(IndicesSel(Sorted(S))) /\ Members(IndicesSel(Sorted(S))) = S
  <1>1. S \subseteq Nat /\ IsFiniteSet(S)
    <2>1. IsFiniteSet(0 .. n - 1)
      BY FS_Interval
    <2>2. IsFiniteSet(S)
      BY <2>1, FS_Subset
    <2> QED
      BY <2>2
  <1> DEFINE c == Cardinality(S)
             at == Sorted(S)
  <1>2. /\ c \in Nat /\ at \in [1 .. c -> S]
        /\ \A x \in S : \E k \in 1 .. c : at[k] = x
        /\ \A j, k \in 1 .. c : j < k => at[j] < at[k]
    BY <1>1, SortedFacts
  <1> HIDE DEF c, at
  <1>3. at \in [1 .. c -> Nat]
    BY <1>1, <1>2
  <1>4. at \in Seq(Nat) /\ DOMAIN at = 1 .. c
    BY <1>2, <1>3, FunIsSeq
  <1>5. SelOK(IndicesSel(at))
    BY <1>2, <1>4 DEF SelOK, Ascends
  <1>6. Members(IndicesSel(at)) = S
    <2>1. {at[k] : k \in DOMAIN at} = S
      BY <1>2, <1>4
    <2> QED
      BY <2>1, IndicesFacts
  <1> QED
    BY <1>5, <1>6 DEF at

\* Filtering ascending indices keeps those that lie in a set, ascending.
LEMMA FilteredFacts ==
    ASSUME NEW idx \in Seq(Nat), Ascends(idx), NEW S
    PROVE  /\ Filtered(idx, S) \in Seq(Nat) /\ Ascends(Filtered(idx, S))
           /\ Members(IndicesSel(Filtered(idx, S))) = {idx[k] : k \in DOMAIN idx} \cap S
  <1> DEFINE K == {k \in DOMAIN idx : idx[k] \in S}
             c == Cardinality(K)
             kept == Sorted(K)
             at == [i \in DOMAIN kept |-> idx[kept[i]]]
  <1>1. DOMAIN idx = 1 .. Len(idx) /\ Len(idx) \in Nat
    BY LenProperties
  <1>2. K \subseteq Nat /\ IsFiniteSet(K)
    <2>1. IsFiniteSet(1 .. Len(idx))
      BY <1>1, FS_Interval
    <2> QED
      BY <1>1, <2>1, FS_Subset
  <1>3. /\ c \in Nat /\ kept \in [1 .. c -> K]
        /\ \A x \in K : \E k \in 1 .. c : kept[k] = x
        /\ \A j, k \in 1 .. c : j < k => kept[j] < kept[k]
    BY <1>2, SortedFacts
  <1>4. Filtered(idx, S) = at
    BY DEF Filtered
  <1> HIDE DEF kept, c
  <1>5. DOMAIN kept = 1 .. c /\ \A i \in 1 .. c : kept[i] \in DOMAIN idx /\ idx[kept[i]] \in S
    BY <1>3
  <1>6. at \in [1 .. c -> Nat] /\ \A i \in 1 .. c : at[i] = idx[kept[i]]
    BY <1>1, <1>5
  <1> HIDE DEF at
  <1>7. at \in Seq(Nat) /\ DOMAIN at = 1 .. c
    BY <1>3, <1>6, FunIsSeq
  <1>8. Ascends(at)
    BY <1>3, <1>5, <1>6, <1>7 DEF Ascends
  <1>9. {at[i] : i \in DOMAIN at} = {idx[k] : k \in DOMAIN idx} \cap S
    <2>1. ASSUME NEW i \in DOMAIN at PROVE at[i] \in {idx[k] : k \in DOMAIN idx} \cap S
      BY <1>5, <1>6, <1>7
    <2>2. ASSUME NEW k \in DOMAIN idx, idx[k] \in S PROVE idx[k] \in {at[i] : i \in DOMAIN at}
      <3>1. PICK i \in 1 .. c : kept[i] = k
        BY <1>3, <2>2
      <3> QED
        BY <1>6, <1>7, <3>1
    <2> QED
      BY <2>1, <2>2
  <1>10. Members(IndicesSel(at)) = {idx[k] : k \in DOMAIN idx} \cap S
    BY <1>9, IndicesFacts
  <1> QED
    BY <1>4, <1>7, <1>8, <1>10

\* CoordSelection::intersect is the intersection of sets of positions, and keeps
\* them in order.
LEMMA IntersectFacts ==
    ASSUME NEW s, NEW t, SelOK(s), SelOK(t)
    PROVE  /\ SelOK(Intersect(s, t))
           /\ Members(Intersect(s, t)) = Members(s) \cap Members(t)
  <1>1. ASSUME NEW lo \in Nat, NEW hi \in Nat, s = RangeSel(lo, hi),
               NEW a \in Nat, NEW b \in Nat, t = RangeSel(a, b)
        PROVE  /\ SelOK(Intersect(s, t))
               /\ Members(Intersect(s, t)) = Members(s) \cap Members(t)
    <2> DEFINE start == Max2(lo, a)
               end == Max2(Min2(hi, b), start)
    <2>1. Intersect(s, t) = RangeSel(start, end)
      BY <1>1, RangeFacts DEF Intersect
    <2>2. start \in Nat /\ end \in Nat
      BY DEF Max2, Min2
    <2>3. \A i \in Nat : start <= i /\ i < end <=> lo <= i /\ i < hi /\ a <= i /\ i < b
      BY DEF Max2, Min2
    <2>4. start .. end - 1 = (lo .. hi - 1) \cap (a .. b - 1)
      <3> HIDE DEF start, end
      <3> QED
        BY <2>2, <2>3
    <2> HIDE DEF start, end
    <2>5. /\ SelOK(RangeSel(start, end)) /\ Members(RangeSel(start, end)) = start .. end - 1
          /\ Members(RangeSel(lo, hi)) = lo .. hi - 1 /\ Members(RangeSel(a, b)) = a .. b - 1
      BY <2>2, RangeFacts
    <2> QED
      BY <1>1, <2>1, <2>4, <2>5
  <1>2. ASSUME NEW at \in Seq(Nat), Ascends(at), s = IndicesSel(at),
               NEW a \in Nat, NEW b \in Nat, t = RangeSel(a, b)
        PROVE  /\ SelOK(Intersect(s, t))
               /\ Members(Intersect(s, t)) = Members(s) \cap Members(t)
    <2>1. Intersect(s, t) = IndicesSel(Filtered(at, a .. b - 1))
      BY <1>2, RangeFacts, IndicesFacts DEF Intersect
    <2>2. SelOK(Intersect(s, t))
      BY <1>2, <2>1, FilteredFacts DEF SelOK
    <2> QED
      BY <1>2, <2>1, <2>2, FilteredFacts, RangeFacts, IndicesFacts
  <1>3. ASSUME NEW at \in Seq(Nat), Ascends(at), t = IndicesSel(at)
        PROVE  /\ SelOK(Intersect(s, t))
               /\ Members(Intersect(s, t)) = Members(s) \cap Members(t)
    <2>1. Intersect(s, t) = IndicesSel(Filtered(at, Members(s)))
      BY <1>3, IndicesFacts DEF Intersect
    <2>2. SelOK(Intersect(s, t))
      BY <1>3, <2>1, FilteredFacts DEF SelOK
    <2>3. Members(Intersect(s, t)) = {at[k] : k \in DOMAIN at} \cap Members(s)
      BY <1>3, <2>1, FilteredFacts
    <2> QED
      BY <1>3, <2>2, <2>3, IndicesFacts
  <1> QED
    BY <1>1, <1>2, <1>3 DEF SelOK

-----------------------------------------------------------------------------
(* Resolving one filter. *)

\* An axis as a sequence of integers.
LEMMA AxisFacts ==
    ASSUME NEW c, CaseOK(c)
    PROVE  /\ Len(c.vals) \in Nat \ {0} /\ DOMAIN c.vals = 1 .. Len(c.vals)
           /\ \A k \in 1 .. Len(c.vals) : c.vals[k] \in Int
           /\ IsDescending(c.vals) => \A j, k \in DOMAIN c.vals : j < k => c.vals[j] > c.vals[k]
           /\ ~IsDescending(c.vals) => \A j, k \in DOMAIN c.vals : j < k => c.vals[j] < c.vals[k]
  <1> DEFINE n == Len(c.vals)
  <1>1. c.vals \in Seq(Int) /\ c.vals # <<>>
    BY DEF CaseOK
  <1>2. n \in Nat \ {0} /\ DOMAIN c.vals = 1 .. n
    BY <1>1, LenProperties, EmptySeq
  <1>3. \A k \in 1 .. n : c.vals[k] \in Int
    BY <1>1, <1>2
  <1> HIDE DEF n
  <1>4. IsDescending(c.vals) <=> n >= 2 /\ c.vals[1] > c.vals[n]
    BY DEF IsDescending, n
  <1>5. CASE \A j, k \in DOMAIN c.vals : j < k => c.vals[j] < c.vals[k]
    <2>1. ~IsDescending(c.vals)
      BY <1>2, <1>3, <1>4, <1>5
    <2> QED
      BY <1>2, <1>3, <1>5, <2>1 DEF n
  <1>6. CASE \A j, k \in DOMAIN c.vals : j < k => c.vals[j] > c.vals[k]
    <2>1. CASE n >= 2
      <3>1. IsDescending(c.vals)
        BY <1>2, <1>3, <1>4, <1>6, <2>1
      <3> QED
        BY <1>2, <1>3, <1>6, <3>1 DEF n
    <2>2. CASE n = 1
      <3>1. \A j, k \in DOMAIN c.vals : ~(j < k)
        BY <1>2, <2>2
      <3> QED
        BY <1>2, <1>3, <3>1 DEF n
    <2> QED
      BY <1>2, <2>1, <2>2
  <1> QED
    BY <1>5, <1>6 DEF CaseOK

\* A binary search cuts the axis in two.
CutsAt(c, m, S) ==
    m \in 0 .. Len(c.vals) /\ \A k \in 1 .. Len(c.vals) : k \in S <=> k <= m

\* A set of positions without gaps from the first on is cut by its size.
LEMMA SearchCuts ==
    ASSUME NEW c, CaseOK(c), NEW S, S \subseteq DOMAIN c.vals,
           \A k \in S : \A j \in DOMAIN c.vals : j < k => j \in S
    PROVE  CutsAt(c, Cardinality(S), S)
  <1> DEFINE n == Len(c.vals)
             m == Cardinality(S)
  <1>1. n \in Nat /\ DOMAIN c.vals = 1 .. n
    BY AxisFacts
  <1> HIDE DEF n
  <1>2. m \in 0 .. n /\ S = 1 .. m
    BY <1>1, PrefixSize
  <1> HIDE DEF m
  <1>3. \A k \in 1 .. n : k \in S <=> k <= m
    BY <1>1, <1>2
  <1> QED
    BY <1>2, <1>3 DEF CutsAt, n, m

\* A bound is absent, inclusive or exclusive.
LEMMA BoundCases ==
    ASSUME NEW b \in Bound
    PROVE  b = <<>> \/ \E v \in Int : b = <<v, TRUE>> \/ b = <<v, FALSE>>
  <1>1. ASSUME NEW p \in Int \X BOOLEAN
        PROVE  \E v \in Int : p = <<v, TRUE>> \/ p = <<v, FALSE>>
    <2>1. p = <<p[1], p[2]>> /\ p[1] \in Int /\ p[2] \in BOOLEAN
      OBVIOUS
    <2>2. p[2] = TRUE \/ p[2] = FALSE
      BY <2>1
    <2> QED
      BY <2>1, <2>2
  <1> QED
    BY <1>1 DEF Bound

\* What the three forms of a bound say of a value.
LEMMA BoundFacts ==
    ASSUME NEW v \in Int, NEW x \in Int
    PROVE  /\ AtLeast(<<>>, x) /\ AtMost(<<>>, x)
           /\ AtLeast(<<v, TRUE>>, x) <=> x >= v
           /\ AtLeast(<<v, FALSE>>, x) <=> x > v
           /\ AtMost(<<v, TRUE>>, x) <=> x <= v
           /\ AtMost(<<v, FALSE>>, x) <=> x < v
  <1>1. AtLeast(<<>>, x) /\ AtMost(<<>>, x)
    BY DEF AtLeast, AtMost
  <1>2. \A i : <<v, i>> # <<>> /\ <<v, i>>[1] = v /\ <<v, i>>[2] = i
    OBVIOUS
  <1>3. AtLeast(<<v, TRUE>>, x) <=> x >= v /\ (x = v => TRUE)
    BY <1>2, Zenon DEF AtLeast
  <1>4. AtLeast(<<v, FALSE>>, x) <=> x >= v /\ (x = v => FALSE)
    BY <1>2, Zenon DEF AtLeast
  <1>5. AtMost(<<v, TRUE>>, x) <=> x <= v /\ (x = v => TRUE)
    BY <1>2, Zenon DEF AtMost
  <1>6. AtMost(<<v, FALSE>>, x) <=> x <= v /\ (x = v => FALSE)
    BY <1>2, Zenon DEF AtMost
  <1>7. x >= v /\ x # v <=> x > v
    OBVIOUS
  <1>8. x <= v /\ x # v <=> x < v
    OBVIOUS
  <1> QED
    BY <1>1, <1>3, <1>4, <1>5, <1>6, <1>7, <1>8

\* The positions of a range filter on an ascending axis are those of the values
\* between its bounds.
LEMMA RangeAscendingFacts ==
    ASSUME NEW c, CaseOK(c), ~IsDescending(c.vals), NEW low \in Bound, NEW high \in Bound
    PROVE  LET r == RangeAscending(c.vals, low, high)
           IN /\ r.lo \in 0 .. Len(c.vals) /\ r.hi \in 0 .. Len(c.vals)
              /\ \A k \in 1 .. Len(c.vals) : k > r.lo <=> AtLeast(low, c.vals[k])
              /\ \A k \in 1 .. Len(c.vals) : k <= r.hi <=> AtMost(high, c.vals[k])
  <1> DEFINE n == Len(c.vals)
             r == RangeAscending(c.vals, low, high)
             Lower(v) == {k \in DOMAIN c.vals : c.vals[k] < v}
             Upper(v) == {k \in DOMAIN c.vals : c.vals[k] <= v}
  <1>1. /\ n \in Nat /\ DOMAIN c.vals = 1 .. n /\ \A k \in 1 .. n : c.vals[k] \in Int
        /\ \A j, k \in 1 .. n : j < k => c.vals[j] < c.vals[k]
    BY AxisFacts
  <1>2. ASSUME NEW v \in Int
        PROVE  /\ CutsAt(c, BinarySearchLowerBound(c.vals, v), Lower(v))
               /\ CutsAt(c, BinarySearchUpperBound(c.vals, v), Upper(v))
    <2>1. \A k \in Lower(v) : \A j \in DOMAIN c.vals : j < k => j \in Lower(v)
      BY <1>1
    <2>2. \A k \in Upper(v) : \A j \in DOMAIN c.vals : j < k => j \in Upper(v)
      BY <1>1
    <2> QED
      BY <2>1, <2>2, SearchCuts DEF BinarySearchLowerBound, BinarySearchUpperBound
  <1> HIDE DEF n
  <1>3. ASSUME NEW v \in Int
        PROVE  /\ BinarySearchLowerBound(c.vals, v) \in 0 .. n
               /\ BinarySearchUpperBound(c.vals, v) \in 0 .. n
               /\ \A k \in 1 .. n : k <= BinarySearchLowerBound(c.vals, v) <=> c.vals[k] < v
               /\ \A k \in 1 .. n : k <= BinarySearchUpperBound(c.vals, v) <=> c.vals[k] <= v
    BY <1>1, <1>2 DEF CutsAt, n
  <1>4. ASSUME NEW v \in Int
        PROVE  Max2(BinarySearchLowerBound(c.vals, v), BinarySearchUpperBound(c.vals, v))
                 = BinarySearchUpperBound(c.vals, v)
    <2> DEFINE l == BinarySearchLowerBound(c.vals, v)
               u == BinarySearchUpperBound(c.vals, v)
    <2>1. /\ l \in 0 .. n /\ u \in 0 .. n
          /\ \A k \in 1 .. n : k <= l <=> c.vals[k] < v
          /\ \A k \in 1 .. n : k <= u <=> c.vals[k] <= v
      BY <1>3
    <2> HIDE DEF l, u
    <2>2. l <= u
      <3>1. CASE l = 0
        BY <2>1, <3>1
      <3>2. CASE l # 0
        <4>1. l \in 1 .. n /\ c.vals[l] < v
          BY <1>1, <2>1, <3>2
        <4> QED
          BY <1>1, <2>1, <4>1
      <3> QED
        BY <3>1, <3>2
    <2>3. Max2(l, u) = u
      BY <2>1, <2>2 DEF Max2
    <2> QED
      BY <2>3 DEF l, u
  <1>5. /\ r.lo \in 0 .. n
        /\ \A k \in 1 .. n : k > r.lo <=> AtLeast(low, c.vals[k])
    <2>1. CASE low = <<>>
      <3>1. r.lo = 0
        BY <2>1 DEF RangeAscending
      <3> QED
        BY <1>1, <2>1, <3>1 DEF AtLeast
    <2>2. ASSUME NEW v \in Int, low = <<v, TRUE>> PROVE <1>5!1 /\ <1>5!2
      <3>1. r.lo = BinarySearchLowerBound(c.vals, v)
        BY <2>2 DEF RangeAscending
      <3>2. \A k \in 1 .. n : AtLeast(low, c.vals[k]) <=> c.vals[k] >= v
        BY <1>1, <2>2, BoundFacts
      <3>3. /\ r.lo \in 0 .. n /\ \A k \in 1 .. n : c.vals[k] \in Int
            /\ \A k \in 1 .. n : k <= r.lo <=> c.vals[k] < v
        BY <1>1, <1>3, <3>1
      <3> HIDE DEF r
      <3> QED
        BY <1>1, <3>2, <3>3
    <2>3. ASSUME NEW v \in Int, low = <<v, FALSE>> PROVE <1>5!1 /\ <1>5!2
      <3>1. r.lo = BinarySearchUpperBound(c.vals, v)
        BY <1>4, <2>3 DEF RangeAscending
      <3>2. \A k \in 1 .. n : AtLeast(low, c.vals[k]) <=> c.vals[k] > v
        BY <1>1, <2>3, BoundFacts
      <3>3. /\ r.lo \in 0 .. n /\ \A k \in 1 .. n : c.vals[k] \in Int
            /\ \A k \in 1 .. n : k <= r.lo <=> c.vals[k] <= v
        BY <1>1, <1>3, <3>1
      <3> HIDE DEF r
      <3> QED
        BY <1>1, <3>2, <3>3
    <2> QED
      BY <2>1, <2>2, <2>3, BoundCases
  <1>6. /\ r.hi \in 0 .. n
        /\ \A k \in 1 .. n : k <= r.hi <=> AtMost(high, c.vals[k])
    <2>1. CASE high = <<>>
      <3>1. r.hi = n
        BY <2>1 DEF RangeAscending, n
      <3> QED
        BY <1>1, <2>1, <3>1 DEF AtMost
    <2>2. ASSUME NEW v \in Int, high = <<v, TRUE>> PROVE <1>6!1 /\ <1>6!2
      <3>1. r.hi = BinarySearchUpperBound(c.vals, v)
        BY <2>2 DEF RangeAscending
      <3>2. \A k \in 1 .. n : AtMost(high, c.vals[k]) <=> c.vals[k] <= v
        BY <1>1, <2>2, BoundFacts
      <3> HIDE DEF r
      <3> QED
        BY <1>1, <1>3, <3>1, <3>2
    <2>3. ASSUME NEW v \in Int, high = <<v, FALSE>> PROVE <1>6!1 /\ <1>6!2
      <3>1. r.hi = BinarySearchLowerBound(c.vals, v)
        BY <2>3 DEF RangeAscending
      <3>2. \A k \in 1 .. n : AtMost(high, c.vals[k]) <=> c.vals[k] < v
        BY <1>1, <2>3, BoundFacts
      <3> HIDE DEF r
      <3> QED
        BY <1>1, <1>3, <3>1, <3>2
    <2> QED
      BY <2>1, <2>2, <2>3, BoundCases
  <1> QED
    BY <1>5, <1>6 DEF n

\* The same on a descending axis.
LEMMA RangeDescendingFacts ==
    ASSUME NEW c, CaseOK(c), IsDescending(c.vals), NEW low \in Bound, NEW high \in Bound
    PROVE  LET r == RangeDescending(c.vals, low, high)
           IN /\ r.lo \in 0 .. Len(c.vals) /\ r.hi \in 0 .. Len(c.vals)
              /\ \A k \in 1 .. Len(c.vals) : k > r.lo <=> AtMost(high, c.vals[k])
              /\ \A k \in 1 .. Len(c.vals) : k <= r.hi <=> AtLeast(low, c.vals[k])
  <1> DEFINE n == Len(c.vals)
             r == RangeDescending(c.vals, low, high)
             Above(v) == {k \in DOMAIN c.vals : c.vals[k] > v}
             NotBelow(v) == {k \in DOMAIN c.vals : c.vals[k] >= v}
  <1>1. /\ n \in Nat /\ DOMAIN c.vals = 1 .. n /\ \A k \in 1 .. n : c.vals[k] \in Int
        /\ \A j, k \in 1 .. n : j < k => c.vals[j] > c.vals[k]
    BY AxisFacts
  <1>2. ASSUME NEW v \in Int
        PROVE  /\ CutsAt(c, FindFirstLeqDescending(c.vals, v, TRUE), Above(v))
               /\ CutsAt(c, FindFirstLeqDescending(c.vals, v, FALSE), NotBelow(v))
    <2>1. \A k \in Above(v) : \A j \in DOMAIN c.vals : j < k => j \in Above(v)
      BY <1>1
    <2>2. \A k \in NotBelow(v) : \A j \in DOMAIN c.vals : j < k => j \in NotBelow(v)
      BY <1>1
    <2>3. FindFirstLeqDescending(c.vals, v, TRUE) = Cardinality(Above(v))
      BY DEF FindFirstLeqDescending
    <2>4. {k \in DOMAIN c.vals : c.vals[k] > v \/ (~FALSE /\ c.vals[k] = v)} = NotBelow(v)
      BY <1>1
    <2>5. FindFirstLeqDescending(c.vals, v, FALSE) = Cardinality(NotBelow(v))
      BY <2>4 DEF FindFirstLeqDescending
    <2> QED
      BY <2>1, <2>2, <2>3, <2>5, SearchCuts
  <1> HIDE DEF n
  <1>3. ASSUME NEW v \in Int
        PROVE  /\ FindFirstLeqDescending(c.vals, v, TRUE) \in 0 .. n
               /\ FindFirstLeqDescending(c.vals, v, FALSE) \in 0 .. n
               /\ \A k \in 1 .. n : k <= FindFirstLeqDescending(c.vals, v, TRUE) <=> c.vals[k] > v
               /\ \A k \in 1 .. n : k <= FindFirstLeqDescending(c.vals, v, FALSE) <=> c.vals[k] >= v
    BY <1>1, <1>2 DEF CutsAt, n
  <1>4. /\ r.lo \in 0 .. n
        /\ \A k \in 1 .. n : k > r.lo <=> AtMost(high, c.vals[k])
    <2>1. CASE high = <<>>
      <3>1. r.lo = 0
        BY <2>1 DEF RangeDescending
      <3> QED
        BY <1>1, <2>1, <3>1 DEF AtMost
    <2>2. ASSUME NEW v \in Int, high = <<v, TRUE>> PROVE <1>4!1 /\ <1>4!2
      <3>1. r.lo = FindFirstLeqDescending(c.vals, v, TRUE)
        BY <2>2 DEF RangeDescending
      <3>2. \A k \in 1 .. n : AtMost(high, c.vals[k]) <=> c.vals[k] <= v
        BY <1>1, <2>2, BoundFacts
      <3> HIDE DEF r
      <3>3. r.lo \in 0 .. n /\ \A k \in 1 .. n : k <= r.lo <=> c.vals[k] > v
        BY <1>3, <3>1
      <3> QED
        BY <1>1, <3>2, <3>3
    <2>3. ASSUME NEW v \in Int, high = <<v, FALSE>> PROVE <1>4!1 /\ <1>4!2
      <3>1. r.lo = FindFirstLeqDescending(c.vals, v, FALSE)
        BY <2>3 DEF RangeDescending
      <3>2. \A k \in 1 .. n : AtMost(high, c.vals[k]) <=> c.vals[k] < v
        BY <1>1, <2>3, BoundFacts
      <3> HIDE DEF r
      <3>3. r.lo \in 0 .. n /\ \A k \in 1 .. n : k <= r.lo <=> c.vals[k] >= v
        BY <1>3, <3>1
      <3> QED
        BY <1>1, <3>2, <3>3
    <2> QED
      BY <2>1, <2>2, <2>3, BoundCases
  <1>5. /\ r.hi \in 0 .. n
        /\ \A k \in 1 .. n : k <= r.hi <=> AtLeast(low, c.vals[k])
    <2>1. CASE low = <<>>
      <3>1. r.hi = n
        BY <2>1 DEF RangeDescending, n
      <3> QED
        BY <1>1, <2>1, <3>1 DEF AtLeast
    <2>2. ASSUME NEW v \in Int, low = <<v, TRUE>> PROVE <1>5!1 /\ <1>5!2
      <3>1. r.hi = FindFirstLeqDescending(c.vals, v, FALSE)
        BY <2>2 DEF RangeDescending, FindFirstLtDescending
      <3>2. \A k \in 1 .. n : AtLeast(low, c.vals[k]) <=> c.vals[k] >= v
        BY <1>1, <2>2, BoundFacts
      <3> HIDE DEF r
      <3> QED
        BY <1>1, <1>3, <3>1, <3>2
    <2>3. ASSUME NEW v \in Int, low = <<v, FALSE>> PROVE <1>5!1 /\ <1>5!2
      <3>1. r.hi = FindFirstLeqDescending(c.vals, v, TRUE)
        BY <2>3 DEF RangeDescending, FindFirstLtDescending
      <3>2. \A k \in 1 .. n : AtLeast(low, c.vals[k]) <=> c.vals[k] > v
        BY <1>1, <2>3, BoundFacts
      <3> HIDE DEF r
      <3> QED
        BY <1>1, <1>3, <3>1, <3>2
    <2> QED
      BY <2>1, <2>2, <2>3, BoundCases
  <1> QED
    BY <1>4, <1>5 DEF n

\* The axis has no value twice, so the first position of a value is its only one.
LEMMA FindValueIndexFacts ==
    ASSUME NEW c, CaseOK(c), NEW v
    PROVE  /\ \/ FindValueIndex(c.vals, v) = <<>>
              \/ \E i \in 0 .. Len(c.vals) - 1 : FindValueIndex(c.vals, v) = <<i>>
           /\ \A i \in 0 .. Len(c.vals) - 1 :
                 FindValueIndex(c.vals, v) = <<i>> <=> c.vals[i + 1] = v
  <1> DEFINE n == Len(c.vals)
             at == {k \in DOMAIN c.vals : c.vals[k] = v}
  <1>1. /\ n \in Nat /\ DOMAIN c.vals = 1 .. n /\ \A k \in 1 .. n : c.vals[k] \in Int
        /\ \A j, k \in 1 .. n : j < k => c.vals[j] # c.vals[k]
    BY AxisFacts
  <1>2. \A i : <<i>> # <<>>
    OBVIOUS
  <1> HIDE DEF n
  <1>3. CASE at = {}
    <2>1. FindValueIndex(c.vals, v) = <<>>
      BY <1>3 DEF FindValueIndex
    <2>2. \A i \in 0 .. n - 1 : i + 1 \in DOMAIN c.vals
      BY <1>1
    <2>3. \A i \in 0 .. n - 1 : c.vals[i + 1] # v
      BY <1>3, <2>2
    <2> QED
      BY <1>2, <2>1, <2>3 DEF n
  <1>4. ASSUME NEW k \in at
        PROVE  /\ FindValueIndex(c.vals, v) = <<k - 1>> /\ k \in 1 .. n
               /\ \A j \in 1 .. n : c.vals[j] = v <=> j = k
    <2>1. k \in 1 .. n /\ \A j \in 1 .. n : c.vals[j] = v <=> j = k
      <3>1. k \in 1 .. n /\ c.vals[k] = v
        BY <1>1
      <3>2. ASSUME NEW j \in 1 .. n, c.vals[j] = v PROVE j = k
        BY <1>1, <3>1, <3>2
      <3> QED
        BY <3>1, <3>2
    <2>2. at = {k}
      BY <1>1, <2>1
    <2>3. (CHOOSE j \in at : \A i \in at : j <= i) = k
      BY <2>1, <2>2
    <2>4. FindValueIndex(c.vals, v)
            = IF at = {} THEN <<>> ELSE <<(CHOOSE j \in at : \A i \in at : j <= i) - 1>>
      BY DEF FindValueIndex
    <2> QED
      BY <2>1, <2>2, <2>3, <2>4
  <1>5. CASE at # {}
    <2>1. PICK k \in at : TRUE
      BY <1>5
    <2>2. /\ FindValueIndex(c.vals, v) = <<k - 1>> /\ k \in 1 .. n
          /\ \A j \in 1 .. n : c.vals[j] = v <=> j = k
      BY <1>4
    <2> HIDE DEF at
    <2>3. k - 1 \in 0 .. n - 1
      BY <1>1, <2>2
    <2>4. \A i \in 0 .. n - 1 : <<k - 1>> = <<i>> <=> c.vals[i + 1] = v
      <3> TAKE i \in 0 .. n - 1
      <3>1. i + 1 \in 1 .. n /\ (i + 1 = k <=> i = k - 1)
        BY <1>1, <2>2
      <3> QED
        BY <2>2, <3>1
    <2> QED
      BY <2>2, <2>3, <2>4 DEF n
  <1> QED
    BY <1>3, <1>5

\* find_filter_range selects the positions whose values pass the filter.
LEMMA FindFilterRangeFacts ==
    ASSUME NEW c, CaseOK(c), NEW f \in EqFilters \cup RangeFilters
    PROVE  /\ SelOK(FindFilterRange(c.vals, f))
           /\ Members(FindFilterRange(c.vals, f))
                = {i \in 0 .. Len(c.vals) - 1 : Passes(c, f, c.vals[i + 1])}
  <1> DEFINE n == Len(c.vals)
  <1>1. n \in Nat /\ DOMAIN c.vals = 1 .. n /\ \A k \in 1 .. n : c.vals[k] \in Int
    BY AxisFacts
  <1>2. RangeSel(0, 0) = RangeSel(0, 0) /\ Members(RangeSel(0, 0)) = {} /\ SelOK(RangeSel(0, 0))
    BY RangeFacts
  <1>3. CASE f \in EqFilters
    <2>1. f.kind = "eq"
      BY <1>3 DEF EqFilters
    <2>2. \A i \in 0 .. n - 1 : Passes(c, f, c.vals[i + 1]) <=> c.vals[i + 1] = f.a
      BY <2>1 DEF Passes
    <2>3. CASE FindValueIndex(c.vals, f.a) = <<>>
      <3>1. FindFilterRange(c.vals, f) = RangeSel(0, 0)
        BY <2>1, <2>3 DEF FindFilterRange
      <3>2. \A i \in 0 .. n - 1 : c.vals[i + 1] # f.a
        <4>1. \A i : <<i>> # <<>>
          OBVIOUS
        <4>2. \A i \in 0 .. n - 1 : FindValueIndex(c.vals, f.a) = <<i>> <=> c.vals[i + 1] = f.a
          BY FindValueIndexFacts
        <4>3. \A i \in 0 .. n - 1 : FindValueIndex(c.vals, f.a) # <<i>>
          BY <2>3, <4>1
        <4> QED
          BY <4>2, <4>3
      <3> QED
        BY <1>2, <2>2, <3>1, <3>2
    <2>4. ASSUME NEW i \in 0 .. n - 1, FindValueIndex(c.vals, f.a) = <<i>>
          PROVE  /\ SelOK(FindFilterRange(c.vals, f))
                 /\ Members(FindFilterRange(c.vals, f))
                      = {j \in 0 .. n - 1 : Passes(c, f, c.vals[j + 1])}
      <3>1. <<i>> # <<>> /\ <<i>>[1] = i
        OBVIOUS
      <3>2. FindFilterRange(c.vals, f) = RangeSel(i, i + 1)
        BY <2>1, <2>4, <3>1 DEF FindFilterRange
      <3>3. \A j \in 0 .. n - 1 : <<i>> = <<j>> <=> c.vals[j + 1] = f.a
        <4>1. \A j \in 0 .. n - 1 : FindValueIndex(c.vals, f.a) = <<j>> <=> c.vals[j + 1] = f.a
          BY FindValueIndexFacts
        <4> QED
          BY <2>4, <4>1
      <3>4. \A j \in 0 .. n - 1 : Passes(c, f, c.vals[j + 1]) <=> j = i
        BY <2>2, <3>3
      <3>5. i .. (i + 1) - 1 = {i} /\ i \in Nat /\ i + 1 \in Nat
        BY <1>1
      <3>6. SelOK(RangeSel(i, i + 1)) /\ Members(RangeSel(i, i + 1)) = {i}
        BY <3>5, RangeFacts
      <3> QED
        BY <3>2, <3>4, <3>6
    <2>5. \/ FindValueIndex(c.vals, f.a) = <<>>
          \/ \E i \in 0 .. n - 1 : FindValueIndex(c.vals, f.a) = <<i>>
      BY FindValueIndexFacts
    <2> QED
      BY <2>3, <2>4, <2>5
  <1>4. CASE f \in RangeFilters
    <2>1. f.kind = "range" /\ f.low \in Bound /\ f.high \in Bound
      BY <1>4 DEF RangeFilters
    <2> DEFINE r == IF IsDescending(c.vals) THEN RangeDescending(c.vals, f.low, f.high)
                    ELSE RangeAscending(c.vals, f.low, f.high)
    <2>2. /\ r.lo \in 0 .. n /\ r.hi \in 0 .. n
          /\ \A k \in 1 .. n : k > r.lo /\ k <= r.hi <=> Passes(c, f, c.vals[k])
      <3>1. \A k \in 1 .. n : Passes(c, f, c.vals[k])
                                 <=> AtLeast(f.low, c.vals[k]) /\ AtMost(f.high, c.vals[k])
        BY <2>1 DEF Passes
      <3>2. CASE IsDescending(c.vals)
        BY <2>1, <3>1, <3>2, RangeDescendingFacts
      <3>3. CASE ~IsDescending(c.vals)
        BY <2>1, <3>1, <3>3, RangeAscendingFacts
      <3> QED
        BY <3>2, <3>3
    <2>3. FindFilterRange(c.vals, f) = IF r.lo < r.hi THEN RangeSel(r.lo, r.hi) ELSE RangeSel(0, 0)
      BY <2>1 DEF FindFilterRange
    <2> HIDE DEF r, n
    <2>4. r.lo .. r.hi - 1 = {i \in 0 .. n - 1 : Passes(c, f, c.vals[i + 1])}
      <3>1. ASSUME NEW i \in 0 .. n - 1
            PROVE  i \in r.lo .. r.hi - 1 <=> Passes(c, f, c.vals[i + 1])
        <4>1. i + 1 \in 1 .. n
          BY <1>1
        <4>2. i + 1 > r.lo /\ i + 1 <= r.hi <=> Passes(c, f, c.vals[i + 1])
          BY <2>2, <4>1
        <4> QED
          BY <1>1, <2>2, <4>2
      <3>2. r.lo .. r.hi - 1 \subseteq 0 .. n - 1
        BY <1>1, <2>2
      <3> QED
        BY <3>1, <3>2
    <2>5. CASE r.lo < r.hi
      <3>1. r.lo \in Nat /\ r.hi \in Nat
        BY <1>1, <2>2
      <3>2. SelOK(RangeSel(r.lo, r.hi)) /\ Members(RangeSel(r.lo, r.hi)) = r.lo .. r.hi - 1
        BY <3>1, RangeFacts
      <3> QED
        BY <2>3, <2>4, <2>5, <3>2 DEF n
    <2>6. CASE ~(r.lo < r.hi)
      <3>1. r.lo .. r.hi - 1 = {}
        BY <1>1, <2>2, <2>6
      <3> QED
        BY <1>2, <2>3, <2>4, <2>6, <3>1 DEF n
    <2> QED
      BY <2>5, <2>6
  <1> QED
    BY <1>3, <1>4

\* find_date_part_indices selects the positions whose date part is the one asked.
LEMMA FindDatePartIndicesFacts ==
    ASSUME NEW c, NEW field, NEW x
    PROVE  FindDatePartIndices(c, field, x)
             = {i \in 0 .. Len(c.vals) - 1 : PartIs(c, field, c.vals[i + 1], x)}
  BY DEF FindDatePartIndices, PartIs

\* resolve_single_filter selects the positions whose values pass the filter.
LEMMA ResolveFacts ==
    ASSUME NEW c, CaseOK(c), NEW f \in AllFilters
    PROVE  /\ SelOK(ResolveSingleFilter(c, f))
           /\ Members(ResolveSingleFilter(c, f))
                = {i \in 0 .. Len(c.vals) - 1 : Passes(c, f, c.vals[i + 1])}
  <1> DEFINE n == Len(c.vals)
             pass == {i \in 0 .. n - 1 : Passes(c, f, c.vals[i + 1])}
  <1>1. n \in Nat
    BY AxisFacts
  <1>2. pass \subseteq 0 .. n - 1
    OBVIOUS
  <1>3. SelOK(IndicesSel(Sorted(pass))) /\ Members(IndicesSel(Sorted(pass))) = pass
    BY <1>1, <1>2, SortedSelects
  <1>4. CASE f \in EqFilters \cup RangeFilters
    <2>1. f.kind \in {"eq", "range"}
      BY <1>4 DEF EqFilters, RangeFilters
    <2>2. ResolveSingleFilter(c, f) = FindFilterRange(c.vals, f)
      BY <2>1 DEF ResolveSingleFilter
    <2> QED
      BY <1>4, <2>2, FindFilterRangeFacts
  <1>5. CASE f \in InFilters
    <2>1. f.kind = "in" /\ f.a \in Seq(Int)
      BY <1>5 DEF InFilters
    <2>2. \A k \in DOMAIN f.a : \A i \in 0 .. n - 1 :
             FindValueIndex(c.vals, f.a[k]) = <<i>> <=> c.vals[i + 1] = f.a[k]
      BY FindValueIndexFacts
    <2>3. \A i \in 0 .. n - 1 :
             Passes(c, f, c.vals[i + 1]) <=> \E k \in DOMAIN f.a : c.vals[i + 1] = f.a[k]
      BY <2>1 DEF Passes
    <2>4. {i \in 0 .. n - 1 : \E k \in DOMAIN f.a : FindValueIndex(c.vals, f.a[k]) = <<i>>} = pass
      BY <2>2, <2>3
    <2>5. ResolveSingleFilter(c, f) = IndicesSel(ListPositions(c.vals, f.a))
      BY <2>1 DEF ResolveSingleFilter
    <2>6. ListPositions(c.vals, f.a) = Sorted(pass)
      BY <2>4 DEF ListPositions
    <2> QED
      BY <1>3, <2>5, <2>6
  <1>6. CASE f \in PartFilters
    <2>1. f.kind = "part"
      BY <1>6 DEF PartFilters
    <2>2. \A i \in 0 .. n - 1 : Passes(c, f, c.vals[i + 1]) <=> PartIs(c, f.field, c.vals[i + 1], f.a)
      BY <2>1 DEF Passes
    <2>3. FindDatePartIndices(c, f.field, f.a) = pass
      BY <2>2, FindDatePartIndicesFacts
    <2>4. ResolveSingleFilter(c, f) = IndicesSel(Sorted(pass))
      BY <2>1, <2>3 DEF ResolveSingleFilter
    <2> QED
      BY <1>3, <2>4
  <1>7. CASE f \in PartInFilters
    <2>1. f.kind = "partin"
      BY <1>7 DEF PartInFilters
    <2>2. \A i \in 0 .. n - 1 :
             Passes(c, f, c.vals[i + 1]) <=> \E k \in DOMAIN f.a : PartIs(c, f.field, c.vals[i + 1], f.a[k])
      BY <2>1 DEF Passes
    <2>3. \A k \in DOMAIN f.a : FindDatePartIndices(c, f.field, f.a[k])
             = {i \in 0 .. n - 1 : PartIs(c, f.field, c.vals[i + 1], f.a[k])}
      BY FindDatePartIndicesFacts
    <2>4. UNION {FindDatePartIndices(c, f.field, f.a[k]) : k \in DOMAIN f.a} = pass
      <3>1. ASSUME NEW i \in pass
            PROVE  i \in UNION {FindDatePartIndices(c, f.field, f.a[k]) : k \in DOMAIN f.a}
        <4>1. PICK k \in DOMAIN f.a : PartIs(c, f.field, c.vals[i + 1], f.a[k])
          BY <2>2
        <4> QED
          BY <2>3, <4>1
      <3>2. ASSUME NEW k \in DOMAIN f.a, NEW i \in FindDatePartIndices(c, f.field, f.a[k])
            PROVE  i \in pass
        BY <2>2, <2>3
      <3> QED
        BY <3>1, <3>2
    <2>5. ResolveSingleFilter(c, f) = IndicesSel(Sorted(pass))
      BY <2>1, <2>4 DEF ResolveSingleFilter
    <2> QED
      BY <1>3, <2>5
  <1> QED
    BY <1>4, <1>5, <1>6, <1>7 DEF AllFilters

-----------------------------------------------------------------------------
(* From bounds to filters. *)

\* into_filters yields filters that pass exactly the values within the bounds.
LEMMA IntoFiltersFacts ==
    ASSUME NEW b \in AllBounds
    PROVE  /\ IntoFilters(b) \in Seq(AllFilters)
           /\ \A c, v : (\A k \in DOMAIN IntoFilters(b) : Passes(c, IntoFilters(b)[k], v))
                           <=> Within(c, b, v)
  <1> DEFINE eq == IF b.eq = <<>> THEN <<>> ELSE <<[kind |-> "eq", a |-> b.eq[1]]>>
             range == IF b.low = <<>> /\ b.high = <<>> THEN <<>>
                      ELSE <<[kind |-> "range", low |-> b.low, high |-> b.high]>>
             parts == [k \in DOMAIN b.date_parts |->
                          [kind |-> "part", field |-> b.date_parts[k][1], a |-> b.date_parts[k][2]]]
             in == IF b.in_list = <<>> THEN <<>> ELSE <<[kind |-> "in", a |-> b.in_list]>>
             sets == [k \in DOMAIN b.date_part_sets |->
                         [kind |-> "partin", field |-> b.date_part_sets[k][1],
                          a |-> b.date_part_sets[k][2]]]
             F == AllFilters
             Meets(s, c, v) == \A f \in Ran(s) : Passes(c, f, v)
  <1>1. /\ b.eq \in {<<>>} \cup {<<x>> : x \in Int} /\ b.low \in Bound /\ b.high \in Bound
        /\ b.date_parts \in Seq(STRING \X Int) /\ b.in_list \in Seq(Int)
        /\ b.date_part_sets \in Seq(STRING \X Seq(Int))
    BY DEF AllBounds
  <1>2. IntoFilters(b) = (((eq \o range) \o parts) \o in) \o sets
    BY DEF IntoFilters, BoundFilters
  <1>3. eq \in Seq(F) /\ \A c, v : Meets(eq, c, v) <=> (b.eq # <<>> => v = b.eq[1])
    <2>1. CASE b.eq = <<>>
      <3>1. eq = <<>>
        BY <2>1
      <3> HIDE DEF eq
      <3> QED
        BY <2>1, <3>1, ShortRan
    <2>2. CASE b.eq # <<>>
      <3>1. PICK x \in Int : b.eq = <<x>>
        BY <1>1, <2>2
      <3>2. b.eq[1] = x
        BY <3>1
      <3> DEFINE f == [kind |-> "eq", a |-> x]
      <3>3. eq = <<f>>
        BY <2>2, <3>2
      <3>4. f \in F /\ \A c, v : Passes(c, f, v) <=> v = x
        BY DEF AllFilters, EqFilters, Passes
      <3> HIDE DEF eq, f, F
      <3>5. eq \in Seq(F) /\ Ran(eq) = {f}
        BY <3>3, <3>4, ShortRan
      <3> QED
        BY <2>2, <3>2, <3>4, <3>5
    <2> QED
      BY <2>1, <2>2
  <1>4. range \in Seq(F) /\ \A c, v : Meets(range, c, v) <=> AtLeast(b.low, v) /\ AtMost(b.high, v)
    <2>1. CASE b.low = <<>> /\ b.high = <<>>
      <3>1. range = <<>>
        BY <2>1
      <3>2. \A v : AtLeast(b.low, v) /\ AtMost(b.high, v)
        BY <2>1 DEF AtLeast, AtMost
      <3> HIDE DEF range
      <3> QED
        BY <3>1, <3>2, ShortRan
    <2>2. CASE ~(b.low = <<>> /\ b.high = <<>>)
      <3> DEFINE f == [kind |-> "range", low |-> b.low, high |-> b.high]
      <3>3. range = <<f>>
        BY <2>2
      <3>4. f \in F /\ \A c, v : Passes(c, f, v) <=> AtLeast(b.low, v) /\ AtMost(b.high, v)
        BY <1>1 DEF AllFilters, RangeFilters, Passes
      <3> HIDE DEF range, f, F
      <3>5. range \in Seq(F) /\ Ran(range) = {f}
        BY <3>3, <3>4, ShortRan
      <3> QED
        BY <3>4, <3>5
    <2> QED
      BY <2>1, <2>2
  <1>5. in \in Seq(F) /\ \A c, v : Meets(in, c, v)
             <=> (b.in_list # <<>> => \E k \in DOMAIN b.in_list : v = b.in_list[k])
    <2>1. CASE b.in_list = <<>>
      <3>1. in = <<>>
        BY <2>1
      <3> HIDE DEF in
      <3> QED
        BY <2>1, <3>1, ShortRan
    <2>2. CASE b.in_list # <<>>
      <3> DEFINE f == [kind |-> "in", a |-> b.in_list]
      <3>3. in = <<f>>
        BY <2>2
      <3>4. f \in F /\ \A c, v : Passes(c, f, v) <=> \E k \in DOMAIN b.in_list : v = b.in_list[k]
        BY <1>1 DEF AllFilters, InFilters, Passes
      <3> HIDE DEF in, f, F
      <3>5. in \in Seq(F) /\ Ran(in) = {f}
        BY <3>3, <3>4, ShortRan
      <3> QED
        BY <2>2, <3>4, <3>5
    <2> QED
      BY <2>1, <2>2
  <1>6. parts \in Seq(F) /\ \A c, v : Meets(parts, c, v)
             <=> \A k \in DOMAIN b.date_parts : PartIs(c, b.date_parts[k][1], v, b.date_parts[k][2])
    <2> DEFINE n == Len(b.date_parts)
               f(k) == [kind |-> "part", field |-> b.date_parts[k][1], a |-> b.date_parts[k][2]]
    <2>1. n \in Nat /\ DOMAIN b.date_parts = 1 .. n
      BY <1>1, LenProperties
    <2> HIDE DEF n
    <2>2. \A k \in 1 .. n : b.date_parts[k] \in STRING \X Int
      BY <1>1, <2>1
    <2>3. ASSUME NEW k \in 1 .. n
          PROVE  /\ f(k) \in F
                 /\ \A c, v : Passes(c, f(k), v) <=> PartIs(c, b.date_parts[k][1], v, b.date_parts[k][2])
      <3>1. b.date_parts[k][1] \in STRING /\ b.date_parts[k][2] \in Int
        BY <2>2
      <3> QED
        BY <3>1 DEF AllFilters, PartFilters, Passes
    <2>4. parts = [k \in 1 .. n |-> f(k)]
      BY <2>1
    <2> HIDE DEF parts, f, F
    <2>5. parts \in [1 .. n -> F] /\ \A k \in 1 .. n : parts[k] = f(k)
      BY <2>3, <2>4
    <2>6. parts \in Seq(F) /\ DOMAIN parts = 1 .. n
      BY <2>1, <2>5, FunIsSeq
    <2> QED
      BY <2>1, <2>3, <2>5, <2>6 DEF Ran
  <1>7. sets \in Seq(F) /\ \A c, v : Meets(sets, c, v)
             <=> \A k \in DOMAIN b.date_part_sets : \E j \in DOMAIN b.date_part_sets[k][2] :
                    PartIs(c, b.date_part_sets[k][1], v, b.date_part_sets[k][2][j])
    <2> DEFINE n == Len(b.date_part_sets)
               f(k) == [kind |-> "partin", field |-> b.date_part_sets[k][1], a |-> b.date_part_sets[k][2]]
    <2>1. n \in Nat /\ DOMAIN b.date_part_sets = 1 .. n
      BY <1>1, LenProperties
    <2> HIDE DEF n
    <2>2. \A k \in 1 .. n : b.date_part_sets[k] \in STRING \X Seq(Int)
      BY <1>1, <2>1
    <2>3. ASSUME NEW k \in 1 .. n
          PROVE  /\ f(k) \in F
                 /\ \A c, v : Passes(c, f(k), v) <=> \E j \in DOMAIN b.date_part_sets[k][2] :
                                 PartIs(c, b.date_part_sets[k][1], v, b.date_part_sets[k][2][j])
      <3>1. b.date_part_sets[k][1] \in STRING /\ b.date_part_sets[k][2] \in Seq(Int)
        BY <2>2
      <3> QED
        BY <3>1 DEF AllFilters, PartInFilters, Passes
    <2>4. sets = [k \in 1 .. n |-> f(k)]
      BY <2>1
    <2> HIDE DEF sets, f, F
    <2>5. sets \in [1 .. n -> F] /\ \A k \in 1 .. n : sets[k] = f(k)
      BY <2>3, <2>4
    <2>6. sets \in Seq(F) /\ DOMAIN sets = 1 .. n
      BY <2>1, <2>5, FunIsSeq
    <2>7. \A c, v : Meets(sets, c, v) <=> \A k \in 1 .. n : Passes(c, f(k), v)
      BY <2>5, <2>6 DEF Ran
    <2> HIDE DEF Meets
    <2> QED
      BY <2>1, <2>3, <2>6, <2>7
  <1> HIDE DEF eq, range, parts, in, sets, F
  <1> DEFINE u == eq \o range
             w == u \o parts
             x == w \o in
             y == x \o sets
  <1>8. y \in Seq(F) /\ Ran(y) = Ran(eq) \cup Ran(range) \cup Ran(parts) \cup Ran(in) \cup Ran(sets)
    <2>1. u \in Seq(F) /\ Ran(u) = Ran(eq) \cup Ran(range)
      BY <1>3, <1>4, ConcatRan
    <2> HIDE DEF u
    <2>2. w \in Seq(F) /\ Ran(w) = Ran(u) \cup Ran(parts)
      BY <1>6, <2>1, ConcatRan
    <2> HIDE DEF w
    <2>3. x \in Seq(F) /\ Ran(x) = Ran(w) \cup Ran(in)
      BY <1>5, <2>2, ConcatRan
    <2> HIDE DEF x
    <2>4. y \in Seq(F) /\ Ran(y) = Ran(x) \cup Ran(sets)
      BY <1>7, <2>3, ConcatRan
    <2> HIDE DEF y
    <2> QED
      BY <2>1, <2>2, <2>3, <2>4
  <1>9. ASSUME NEW c, NEW v
        PROVE  (\A k \in DOMAIN IntoFilters(b) : Passes(c, IntoFilters(b)[k], v)) <=> Within(c, b, v)
    <2>1. (\A k \in DOMAIN IntoFilters(b) : Passes(c, IntoFilters(b)[k], v))
             <=> \A f \in Ran(IntoFilters(b)) : Passes(c, f, v)
      BY DEF Ran
    <2>2. (\A f \in Ran(IntoFilters(b)) : Passes(c, f, v))
             <=> /\ Meets(eq, c, v) /\ Meets(range, c, v) /\ Meets(parts, c, v)
                 /\ Meets(in, c, v) /\ Meets(sets, c, v)
      BY <1>2, <1>8
    <2> HIDE DEF Meets
    <2>3. Within(c, b, v)
             <=> /\ Meets(eq, c, v) /\ Meets(range, c, v) /\ Meets(parts, c, v)
                 /\ Meets(in, c, v) /\ Meets(sets, c, v)
      BY <1>3, <1>4, <1>5, <1>6, <1>7 DEF Within
    <2> QED
      BY <2>1, <2>2, <2>3
  <1> QED
    BY <1>2, <1>8, <1>9 DEF F

-----------------------------------------------------------------------------
(* From conjuncts to bounds. *)

\* extract_filters, field by field of PartialBounds.
LowOf(b, c) == CASE c.op \in {">=", "between"} -> <<c.a, TRUE>>
                 [] c.op = ">" -> <<c.a, FALSE>>
                 [] OTHER -> b.low

HighOf(b, c) == CASE c.op = "<=" -> <<c.a, TRUE>>
                  [] c.op = "<" -> <<c.a, FALSE>>
                  [] c.op = "between" -> <<c.b, TRUE>>
                  [] OTHER -> b.high

PartsOf(b, c) == IF c.op = "part" THEN Append(b.date_parts, <<c.field, c.a>>) ELSE b.date_parts

ListOf(b, c) == IF c.op = "in" /\ c.list # <<>> THEN c.list ELSE b.in_list

SetsOf(b, c) == IF c.op = "partin" /\ c.list # <<>>
                THEN Append(b.date_part_sets, <<c.field, c.list>>) ELSE b.date_part_sets

\* Extracted, written as the record it makes.
LEMMA ExtractedFields ==
    ASSUME NEW b \in AllBounds, NEW c \in Conjunctions
    PROVE  Extracted(b, c) = [eq |-> IF c.op = "=" THEN <<c.a>> ELSE b.eq,
                              low |-> LowOf(b, c), high |-> HighOf(b, c),
                              date_parts |-> PartsOf(b, c), in_list |-> ListOf(b, c),
                              date_part_sets |-> SetsOf(b, c)]
  <1>1. b = [eq |-> b.eq, low |-> b.low, high |-> b.high, date_parts |-> b.date_parts,
             in_list |-> b.in_list, date_part_sets |-> b.date_part_sets]
    BY DEF AllBounds
  <1>2. c.op \in {"=", ">=", ">", "<=", "<", "between", "in", "part", "partin", "or"}
    BY DEF Conjunctions
  <1>3. CASE c.op = "="
    BY <1>1, <1>3 DEF Extracted, LowOf, HighOf, PartsOf, ListOf, SetsOf
  <1>4. CASE c.op = ">="
    BY <1>1, <1>4 DEF Extracted, LowOf, HighOf, PartsOf, ListOf, SetsOf
  <1>5. CASE c.op = ">"
    BY <1>1, <1>5 DEF Extracted, LowOf, HighOf, PartsOf, ListOf, SetsOf
  <1>6. CASE c.op = "<="
    BY <1>1, <1>6 DEF Extracted, LowOf, HighOf, PartsOf, ListOf, SetsOf
  <1>7. CASE c.op = "<"
    BY <1>1, <1>7 DEF Extracted, LowOf, HighOf, PartsOf, ListOf, SetsOf
  <1>8. CASE c.op = "between"
    BY <1>1, <1>8 DEF Extracted, LowOf, HighOf, PartsOf, ListOf, SetsOf
  <1>9. CASE c.op = "in"
    BY <1>1, <1>9 DEF Extracted, LowOf, HighOf, PartsOf, ListOf, SetsOf
  <1>10. CASE c.op = "part"
    BY <1>1, <1>10 DEF Extracted, LowOf, HighOf, PartsOf, ListOf, SetsOf
  <1>11. CASE c.op = "partin"
    BY <1>1, <1>11 DEF Extracted, LowOf, HighOf, PartsOf, ListOf, SetsOf
  <1>12. CASE c.op = "or"
    BY <1>1, <1>12 DEF Extracted, LowOf, HighOf, PartsOf, ListOf, SetsOf
  <1> QED
    BY <1>2, <1>3, <1>4, <1>5, <1>6, <1>7, <1>8, <1>9, <1>10, <1>11, <1>12

\* What extract_filters does to the date parts and the sets of date parts.
Extends(t, s, x) ==
    /\ \A k \in DOMAIN s : k \in DOMAIN t /\ t[k] = s[k]
    /\ \E j \in DOMAIN t : t[j] = x
    /\ \A j \in DOMAIN t : t[j] = x \/ (j \in DOMAIN s /\ t[j] = s[j])

\* A date part, or a set of them, is added and none is lost.
LEMMA PartsExtended ==
    ASSUME NEW b \in AllBounds, NEW c \in Conjunctions
    PROVE  /\ Extends(Append(b.date_parts, <<c.field, c.a>>), b.date_parts, <<c.field, c.a>>)
           /\ Extends(Append(b.date_part_sets, <<c.field, c.list>>), b.date_part_sets, <<c.field, c.list>>)
  <1> DEFINE P == STRING \X Int
             Q == STRING \X Seq(Int)
             s == b.date_parts
             t == b.date_part_sets
             x == <<c.field, c.a>>
             y == <<c.field, c.list>>
  <1>1. s \in Seq(P) /\ t \in Seq(Q) /\ x \in P /\ y \in Q
    BY DEF AllBounds, Conjunctions
  <1> HIDE DEF P, Q, s, t, x, y
  <1>2. Extends(Append(s, x), s, x)
    BY <1>1, AppendRan DEF Extends
  <1>3. Extends(Append(t, y), t, y)
    BY <1>1, AppendRan DEF Extends
  <1> QED
    BY <1>2, <1>3 DEF s, t, x, y

\* The bounds keep their type.
LEMMA ExtractedType ==
    ASSUME NEW b \in AllBounds, NEW c \in Conjunctions
    PROVE  Extracted(b, c) \in AllBounds
  <1> DEFINE e == IF c.op = "=" THEN <<c.a>> ELSE b.eq
  <1>1. /\ b.eq \in {<<>>} \cup {<<x>> : x \in Int} /\ b.low \in Bound /\ b.high \in Bound
        /\ b.date_parts \in Seq(STRING \X Int) /\ b.in_list \in Seq(Int)
        /\ b.date_part_sets \in Seq(STRING \X Seq(Int))
    BY DEF AllBounds
  <1>2. c.a \in Int /\ c.b \in Int /\ c.list \in Seq(Int) /\ c.field \in STRING
    BY DEF Conjunctions
  <1>3. \A x \in Int : <<x, TRUE>> \in Bound /\ <<x, FALSE>> \in Bound
    BY DEF Bound
  <1>4. e \in {<<>>} \cup {<<x>> : x \in Int}
    BY <1>1, <1>2
  <1>5. LowOf(b, c) \in Bound /\ HighOf(b, c) \in Bound
    BY <1>1, <1>2, <1>3 DEF LowOf, HighOf
  <1>6. PartsOf(b, c) \in Seq(STRING \X Int)
    BY <1>1, <1>2 DEF PartsOf
  <1>7. ListOf(b, c) \in Seq(Int)
    BY <1>1, <1>2 DEF ListOf
  <1>8. SetsOf(b, c) \in Seq(STRING \X Seq(Int))
    BY <1>1, <1>2 DEF SetsOf
  <1> HIDE DEF e
  <1>9. [eq |-> e, low |-> LowOf(b, c), high |-> HighOf(b, c), date_parts |-> PartsOf(b, c),
         in_list |-> ListOf(b, c), date_part_sets |-> SetsOf(b, c)] \in AllBounds
    BY <1>4, <1>5, <1>6, <1>7, <1>8 DEF AllBounds
  <1> QED
    BY <1>9, ExtractedFields DEF e

\* A conjunct is stored when it is extracted.
LEMMA ExtractedStores ==
    ASSUME NEW b \in AllBounds, NEW c \in Conjunctions
    PROVE  Stored(Extracted(b, c), c)
  <1> DEFINE r == Extracted(b, c)
  <1>1. /\ r.eq = IF c.op = "=" THEN <<c.a>> ELSE b.eq
        /\ r.low = LowOf(b, c) /\ r.high = HighOf(b, c) /\ r.date_parts = PartsOf(b, c)
        /\ r.in_list = ListOf(b, c) /\ r.date_part_sets = SetsOf(b, c)
    BY ExtractedFields
  <1> HIDE DEF r
  <1>3. ASSUME c.op = "part"
        PROVE  \E j \in DOMAIN r.date_parts : r.date_parts[j] = <<c.field, c.a>>
    <2>1. r.date_parts = Append(b.date_parts, <<c.field, c.a>>)
      BY <1>1, <1>3 DEF PartsOf
    <2>2. \E j \in DOMAIN Append(b.date_parts, <<c.field, c.a>>) :
             Append(b.date_parts, <<c.field, c.a>>)[j] = <<c.field, c.a>>
      BY PartsExtended, Zenon DEF Extends
    <2> QED
      BY <2>1, <2>2, Zenon
  <1>4. ASSUME c.op = "partin", c.list # <<>>
        PROVE  \E j \in DOMAIN r.date_part_sets : r.date_part_sets[j] = <<c.field, c.list>>
    <2>1. r.date_part_sets = Append(b.date_part_sets, <<c.field, c.list>>)
      BY <1>1, <1>4 DEF SetsOf
    <2>2. \E j \in DOMAIN Append(b.date_part_sets, <<c.field, c.list>>) :
             Append(b.date_part_sets, <<c.field, c.list>>)[j] = <<c.field, c.list>>
      BY PartsExtended, Zenon DEF Extends
    <2> QED
      BY <2>1, <2>2, Zenon
  <1>5. /\ c.op = "=" => r.eq = <<c.a>>
        /\ c.op \in {">=", "between"} => r.low = <<c.a, TRUE>>
        /\ c.op = ">" => r.low = <<c.a, FALSE>>
        /\ c.op = "<=" => r.high = <<c.a, TRUE>>
        /\ c.op = "<" => r.high = <<c.a, FALSE>>
        /\ c.op = "between" => r.high = <<c.b, TRUE>>
        /\ c.op = "in" /\ c.list # <<>> => r.in_list = c.list
    BY <1>1 DEF LowOf, HighOf, ListOf
  <1> QED
    BY <1>3, <1>4, <1>5 DEF Stored, r

\* A stored conjunct stays stored when one with other slots is extracted.
LEMMA ExtractedKeeps ==
    ASSUME NEW b \in AllBounds, NEW c \in Conjunctions, NEW d \in Conjunctions,
           Stored(b, d), Slot(c) \cap Slot(d) = {}
    PROVE  Stored(Extracted(b, c), d)
  <1> DEFINE r == Extracted(b, c)
  <1>1. /\ r.eq = IF c.op = "=" THEN <<c.a>> ELSE b.eq
        /\ r.low = LowOf(b, c) /\ r.high = HighOf(b, c) /\ r.date_parts = PartsOf(b, c)
        /\ r.in_list = ListOf(b, c) /\ r.date_part_sets = SetsOf(b, c)
    BY ExtractedFields
  <1> HIDE DEF r
  <1>3. d.op = "part" => \E j \in DOMAIN r.date_parts : r.date_parts[j] = <<d.field, d.a>>
    <2> SUFFICES ASSUME d.op = "part"
                 PROVE  \E j \in DOMAIN r.date_parts : r.date_parts[j] = <<d.field, d.a>>
      OBVIOUS
    <2>1. PICK j \in DOMAIN b.date_parts : b.date_parts[j] = <<d.field, d.a>>
      BY DEF Stored
    <2>2. \/ r.date_parts = b.date_parts
          \/ r.date_parts = Append(b.date_parts, <<c.field, c.a>>)
      BY <1>1 DEF PartsOf
    <2>3. /\ j \in DOMAIN Append(b.date_parts, <<c.field, c.a>>)
          /\ Append(b.date_parts, <<c.field, c.a>>)[j] = b.date_parts[j]
      <3>1. Extends(Append(b.date_parts, <<c.field, c.a>>), b.date_parts, <<c.field, c.a>>)
        BY PartsExtended
      <3> QED
        BY <3>1, Zenon DEF Extends
    <2> QED
      BY <2>1, <2>2, <2>3, Zenon
  <1>4. d.op = "partin" /\ d.list # <<>> =>
           \E j \in DOMAIN r.date_part_sets : r.date_part_sets[j] = <<d.field, d.list>>
    <2> SUFFICES ASSUME d.op = "partin", d.list # <<>>
                 PROVE  \E j \in DOMAIN r.date_part_sets : r.date_part_sets[j] = <<d.field, d.list>>
      OBVIOUS
    <2>1. PICK j \in DOMAIN b.date_part_sets : b.date_part_sets[j] = <<d.field, d.list>>
      BY DEF Stored
    <2>2. \/ r.date_part_sets = b.date_part_sets
          \/ r.date_part_sets = Append(b.date_part_sets, <<c.field, c.list>>)
      BY <1>1 DEF SetsOf
    <2>3. /\ j \in DOMAIN Append(b.date_part_sets, <<c.field, c.list>>)
          /\ Append(b.date_part_sets, <<c.field, c.list>>)[j] = b.date_part_sets[j]
      <3>1. Extends(Append(b.date_part_sets, <<c.field, c.list>>), b.date_part_sets, <<c.field, c.list>>)
        BY PartsExtended
      <3> QED
        BY <3>1, Zenon DEF Extends
    <2> QED
      BY <2>1, <2>2, <2>3, Zenon
  <1>5. /\ d.op = "=" => c.op # "="
        /\ d.op \in {">=", ">", "between"} => c.op \notin {">=", ">", "between"}
        /\ d.op \in {"<=", "<", "between"} => c.op \notin {"<=", "<", "between"}
        /\ d.op = "in" => c.op # "in"
    <2>1. \A s : s \in Slot(c) => s \notin Slot(d)
      OBVIOUS
    <2>2. ASSUME NEW x
          PROVE  /\ x.op = "=" => "=" \in Slot(x)
                 /\ x.op \in {">=", ">", "between"} => "low" \in Slot(x)
                 /\ x.op \in {"<=", "<", "between"} => "high" \in Slot(x)
                 /\ x.op = "in" => "in" \in Slot(x)
      BY DEF Slot
    <2>3. /\ c.op = "=" => "=" \notin Slot(d)
          /\ c.op \in {">=", ">", "between"} => "low" \notin Slot(d)
          /\ c.op \in {"<=", "<", "between"} => "high" \notin Slot(d)
          /\ c.op = "in" => "in" \notin Slot(d)
      BY <2>1, <2>2, Zenon
    <2> QED
      BY <2>2, <2>3, Zenon
  <1>6. /\ d.op = "=" => r.eq = b.eq
        /\ d.op \in {">=", ">", "between"} => r.low = b.low
        /\ d.op \in {"<=", "<", "between"} => r.high = b.high
        /\ d.op = "in" => r.in_list = b.in_list
    BY <1>1, <1>5 DEF LowOf, HighOf, ListOf
  <1> QED
    BY <1>3, <1>4, <1>6 DEF Stored, r

\* The reader computes the months and hours of a timestamp as SQL does.
LEMMA KnownPart ==
    ASSUME NEW cs, cs.time, NEW field \in {"MONTH", "HOUR"}, NEW v, NEW x
    PROVE  PartIs(cs, field, v, x) <=> SqlDatePart(field, v) = x
  BY DEF PartIs

\* What a conjunct without a cast asks of a value.
LEMMA SatisfiesFacts ==
    ASSUME NEW c \in Conjunctions, NEW v \in Int, c.op \in {"part", "partin"} \/ ~c.cast
    PROVE  /\ c.op = "=" => (Satisfies(c, v) <=> v = c.a)
           /\ c.op = ">=" => (Satisfies(c, v) <=> v >= c.a)
           /\ c.op = ">" => (Satisfies(c, v) <=> v > c.a)
           /\ c.op = "<=" => (Satisfies(c, v) <=> v <= c.a)
           /\ c.op = "<" => (Satisfies(c, v) <=> v < c.a)
           /\ c.op = "between" => (Satisfies(c, v) <=> v >= c.a /\ v <= c.b)
           /\ c.op = "in" => (Satisfies(c, v) <=> \E k \in DOMAIN c.list : v = c.list[k])
           /\ c.op = "part" => (Satisfies(c, v) <=> SqlDatePart(c.field, v) = c.a)
           /\ c.op = "partin" =>
                 (Satisfies(c, v) <=> \E k \in DOMAIN c.list : SqlDatePart(c.field, v) = c.list[k])
  <1>1. c.a \in Int /\ c.b \in Int
    BY DEF Conjunctions
  <1>2. CASE c.op = "="
    BY <1>2 DEF Satisfies
  <1>3. CASE c.op = ">="
    BY <1>3 DEF Satisfies
  <1>4. CASE c.op = ">"
    BY <1>4 DEF Satisfies
  <1>5. CASE c.op = "<="
    BY <1>5 DEF Satisfies
  <1>6. CASE c.op = "<"
    BY <1>6 DEF Satisfies
  <1>7. CASE c.op = "between"
    BY <1>1, <1>7 DEF Satisfies
  <1>8. CASE c.op = "in"
    BY <1>8 DEF Satisfies
  <1>9. CASE c.op = "part"
    BY <1>9 DEF Satisfies
  <1>10. CASE c.op = "partin"
    BY <1>10 DEF Satisfies
  <1> QED
    BY <1>2, <1>3, <1>4, <1>5, <1>6, <1>7, <1>8, <1>9, <1>10

\* What the reader's own table of date parts gets right, and no cast.
Plain(cs, c) ==
    /\ c.op \in {"part", "partin"} => c.field \in {"MONTH", "HOUR"} /\ cs.time
    /\ c.op \in {"part", "partin"} \/ ~c.cast

\* A value within the bounds that satisfies the next conjunct lies within the
\* bounds that result: a conjunct replaced by another only widens them.
LEMMA ExtractedImplied ==
    ASSUME NEW cs, NEW b \in AllBounds, NEW c \in Conjunctions, NEW v \in Int,
           Plain(cs, c), Within(cs, b, v), Satisfies(c, v)
    PROVE  Within(cs, Extracted(b, c), v)
  <1> DEFINE r == Extracted(b, c)
  <1>1. /\ r.eq = IF c.op = "=" THEN <<c.a>> ELSE b.eq
        /\ r.low = LowOf(b, c) /\ r.high = HighOf(b, c) /\ r.date_parts = PartsOf(b, c)
        /\ r.in_list = ListOf(b, c) /\ r.date_part_sets = SetsOf(b, c)
    BY ExtractedFields
  <1> HIDE DEF r
  <1>2. c.a \in Int /\ c.b \in Int
    BY DEF Conjunctions
  <1>3. /\ AtLeast(<<c.a, TRUE>>, v) <=> v >= c.a
        /\ AtLeast(<<c.a, FALSE>>, v) <=> v > c.a
        /\ AtMost(<<c.a, TRUE>>, v) <=> v <= c.a
        /\ AtMost(<<c.b, TRUE>>, v) <=> v <= c.b
        /\ AtMost(<<c.a, FALSE>>, v) <=> v < c.a
    BY <1>2, BoundFacts
  <1>4. r.eq # <<>> => v = r.eq[1]
    <2>1. CASE c.op = "="
      <3>1. v = c.a /\ r.eq = <<c.a>> /\ <<c.a>>[1] = c.a
        BY <1>1, <2>1, SatisfiesFacts DEF Plain
      <3> QED
        BY <3>1
    <2>2. CASE c.op # "="
      BY <1>1, <2>2 DEF Within
    <2> QED
      BY <2>1, <2>2
  <1>5. AtLeast(r.low, v)
    <2>1. CASE c.op \in {">=", "between"}
      <3>1. r.low = <<c.a, TRUE>> /\ v >= c.a
        BY <1>1, <2>1, SatisfiesFacts DEF Plain, LowOf
      <3> QED
        BY <1>3, <3>1
    <2>2. CASE c.op = ">"
      <3>1. r.low = <<c.a, FALSE>> /\ v > c.a
        BY <1>1, <2>2, SatisfiesFacts DEF Plain, LowOf
      <3> QED
        BY <1>3, <3>1
    <2>3. CASE c.op \notin {">=", ">", "between"}
      BY <1>1, <2>3 DEF Within, LowOf
    <2> QED
      BY <2>1, <2>2, <2>3
  <1>6. AtMost(r.high, v)
    <2>1. CASE c.op = "<="
      <3>1. r.high = <<c.a, TRUE>> /\ v <= c.a
        BY <1>1, <2>1, SatisfiesFacts DEF Plain, HighOf
      <3> QED
        BY <1>3, <3>1
    <2>2. CASE c.op = "<"
      <3>1. r.high = <<c.a, FALSE>> /\ v < c.a
        BY <1>1, <2>2, SatisfiesFacts DEF Plain, HighOf
      <3> QED
        BY <1>3, <3>1
    <2>3. CASE c.op = "between"
      <3>1. r.high = <<c.b, TRUE>> /\ v <= c.b
        BY <1>1, <2>3, SatisfiesFacts DEF Plain, HighOf
      <3> QED
        BY <1>3, <3>1
    <2>4. CASE c.op \notin {"<=", "<", "between"}
      BY <1>1, <2>4 DEF Within, HighOf
    <2> QED
      BY <2>1, <2>2, <2>3, <2>4
  <1>7. \A k \in DOMAIN r.date_parts : PartIs(cs, r.date_parts[k][1], v, r.date_parts[k][2])
    <2>1. CASE c.op = "part"
      <3> DEFINE x == <<c.field, c.a>>
      <3>1. PartIs(cs, x[1], v, x[2])
        BY <2>1, SatisfiesFacts, KnownPart DEF Plain
      <3>2. Extends(r.date_parts, b.date_parts, x)
        BY <1>1, <2>1, PartsExtended DEF PartsOf
      <3> HIDE DEF x
      <3> QED
        BY <3>1, <3>2, Zenon DEF Within, Extends
    <2>2. CASE c.op # "part"
      BY <1>1, <2>2 DEF Within, PartsOf
    <2> QED
      BY <2>1, <2>2
  <1>8. r.in_list # <<>> => \E k \in DOMAIN r.in_list : v = r.in_list[k]
    <2>1. CASE c.op = "in" /\ c.list # <<>>
      BY <1>1, <2>1, SatisfiesFacts DEF Plain, ListOf
    <2>2. CASE ~(c.op = "in" /\ c.list # <<>>)
      BY <1>1, <2>2 DEF Within, ListOf
    <2> QED
      BY <2>1, <2>2
  <1>9. \A k \in DOMAIN r.date_part_sets : \E j \in DOMAIN r.date_part_sets[k][2] :
           PartIs(cs, r.date_part_sets[k][1], v, r.date_part_sets[k][2][j])
    <2>1. CASE c.op = "partin" /\ c.list # <<>>
      <3> DEFINE x == <<c.field, c.list>>
      <3>1. \E j \in DOMAIN x[2] : PartIs(cs, x[1], v, x[2][j])
        <4>1. PICK j \in DOMAIN c.list : SqlDatePart(c.field, v) = c.list[j]
          BY <2>1, SatisfiesFacts DEF Plain
        <4>2. PartIs(cs, c.field, v, c.list[j])
          BY <2>1, <4>1, KnownPart DEF Plain
        <4> QED
          BY <4>2
      <3>2. Extends(r.date_part_sets, b.date_part_sets, x)
        BY <1>1, <2>1, PartsExtended DEF SetsOf
      <3> HIDE DEF x
      <3> QED
        BY <3>1, <3>2, Zenon DEF Within, Extends
    <2>2. CASE ~(c.op = "partin" /\ c.list # <<>>)
      BY <1>1, <2>2 DEF Within, SetsOf
    <2> QED
      BY <2>1, <2>2
  <1> QED
    BY <1>4, <1>5, <1>6, <1>7, <1>8, <1>9 DEF Within, r

\* A value within bounds that hold a conjunct satisfies it.
LEMMA StoredMeans ==
    ASSUME NEW cs, NEW b \in AllBounds, NEW c \in Conjunctions, NEW v \in Int,
           Plain(cs, c), c.op # "or", c.op \in {"in", "partin"} => c.list # <<>>,
           Stored(b, c), Within(cs, b, v)
    PROVE  Satisfies(c, v)
  <1>1. c.a \in Int /\ c.b \in Int
    BY DEF Conjunctions
  <1>2. /\ AtLeast(<<c.a, TRUE>>, v) <=> v >= c.a
        /\ AtLeast(<<c.a, FALSE>>, v) <=> v > c.a
        /\ AtMost(<<c.a, TRUE>>, v) <=> v <= c.a
        /\ AtMost(<<c.b, TRUE>>, v) <=> v <= c.b
        /\ AtMost(<<c.a, FALSE>>, v) <=> v < c.a
    BY <1>1, BoundFacts
  <1>3. CASE c.op = "="
    <2>1. b.eq = <<c.a>> /\ <<c.a>>[1] = c.a /\ <<c.a>> # <<>>
      BY <1>3 DEF Stored
    <2>2. v = c.a
      BY <2>1 DEF Within
    <2> QED
      BY <1>3, <2>2, SatisfiesFacts DEF Plain
  <1>4. CASE c.op \in {">=", "between"}
    <2>1. b.low = <<c.a, TRUE>>
      BY <1>4 DEF Stored
    <2>2. v >= c.a
      BY <1>2, <2>1 DEF Within
    <2>3. CASE c.op = ">="
      BY <2>2, <2>3, SatisfiesFacts DEF Plain
    <2>4. CASE c.op = "between"
      <3>1. b.high = <<c.b, TRUE>>
        BY <2>4 DEF Stored
      <3>2. v <= c.b
        BY <1>2, <3>1 DEF Within
      <3> QED
        BY <2>2, <2>4, <3>2, SatisfiesFacts DEF Plain
    <2> QED
      BY <1>4, <2>3, <2>4
  <1>5. CASE c.op = ">"
    <2>1. b.low = <<c.a, FALSE>>
      BY <1>5 DEF Stored
    <2>2. v > c.a
      BY <1>2, <2>1 DEF Within
    <2> QED
      BY <1>5, <2>2, SatisfiesFacts DEF Plain
  <1>6. CASE c.op = "<="
    <2>1. b.high = <<c.a, TRUE>>
      BY <1>6 DEF Stored
    <2>2. v <= c.a
      BY <1>2, <2>1 DEF Within
    <2> QED
      BY <1>6, <2>2, SatisfiesFacts DEF Plain
  <1>7. CASE c.op = "<"
    <2>1. b.high = <<c.a, FALSE>>
      BY <1>7 DEF Stored
    <2>2. v < c.a
      BY <1>2, <2>1 DEF Within
    <2> QED
      BY <1>7, <2>2, SatisfiesFacts DEF Plain
  <1>8. CASE c.op = "in"
    <2>1. b.in_list = c.list /\ c.list # <<>>
      BY <1>8 DEF Stored
    <2>2. \E k \in DOMAIN c.list : v = c.list[k]
      BY <2>1 DEF Within
    <2> QED
      BY <1>8, <2>2, SatisfiesFacts DEF Plain
  <1>9. CASE c.op = "part"
    <2> DEFINE x == <<c.field, c.a>>
    <2>1. PICK j \in DOMAIN b.date_parts : b.date_parts[j] = x
      BY <1>9 DEF Stored
    <2>2. x[1] = c.field /\ x[2] = c.a
      OBVIOUS
    <2> HIDE DEF x
    <2>3. PartIs(cs, c.field, v, c.a)
      BY <2>1, <2>2, Zenon DEF Within
    <2> QED
      BY <1>9, <2>3, SatisfiesFacts, KnownPart DEF Plain
  <1>10. CASE c.op = "partin"
    <2> DEFINE x == <<c.field, c.list>>
    <2>1. PICK j \in DOMAIN b.date_part_sets : b.date_part_sets[j] = x
      BY <1>10 DEF Stored
    <2>2. x[1] = c.field /\ x[2] = c.list
      OBVIOUS
    <2> HIDE DEF x
    <2>3. PICK i \in DOMAIN c.list : PartIs(cs, c.field, v, c.list[i])
      BY <2>1, <2>2, Zenon DEF Within
    <2>4. SqlDatePart(c.field, v) = c.list[i]
      BY <1>10, <2>3, KnownPart DEF Plain
    <2> QED
      BY <1>10, <2>4, SatisfiesFacts DEF Plain
  <1>11. c.op \in {"=", ">=", ">", "<=", "<", "between", "in", "part", "partin", "or"}
    BY DEF Conjunctions
  <1> QED
    BY <1>3, <1>4, <1>5, <1>6, <1>7, <1>8, <1>9, <1>10, <1>11

-----------------------------------------------------------------------------
(* The steps. *)

\* Facts about the case and the conjuncts that the steps share.
LEMMA TypedFacts ==
    ASSUME Typed
    PROVE  /\ CaseOK(case) /\ Len(case.where) \in Nat /\ DOMAIN case.where = 1 .. Len(case.where)
           /\ \A k \in 1 .. Len(case.where) : case.where[k] \in Conjunctions
           /\ Len(rest) \in Nat /\ DOMAIN rest = 1 .. Len(rest)
           /\ Consumed \in 0 .. Len(case.where)
  <1>1. CaseOK(case) /\ case.where \in Seq(Conjunctions) /\ rest \in Seq(Conjunctions)
    BY CasesAssumption DEF Typed, CaseOK
  <1>2. /\ Len(case.where) \in Nat /\ DOMAIN case.where = 1 .. Len(case.where)
        /\ Len(rest) \in Nat /\ DOMAIN rest = 1 .. Len(rest)
    BY <1>1, LenProperties
  <1>3. \A k \in 1 .. Len(case.where) : case.where[k] \in Conjunctions
    BY <1>1, <1>2
  <1>4. Consumed \in 0 .. Len(case.where)
    BY <1>2 DEF Typed, Consumed
  <1> QED
    BY <1>1, <1>2, <1>3, <1>4

\* No bounds hold every value.
LEMMA NoBoundsFacts == NoBounds \in AllBounds /\ \A c, v : Within(c, NoBounds, v)
  <1>1. NoBounds \in AllBounds
    BY EmptySeq DEF NoBounds, AllBounds, Bound
  <1>2. ASSUME NEW c, NEW v PROVE Within(c, NoBounds, v)
    <2>1. DOMAIN <<>> = {}
      OBVIOUS
    <2> QED
      BY <2>1 DEF NoBounds, Within, AtLeast, AtMost
  <1> QED
    BY <1>1, <1>2

\* The invariant holds at the start.
LEMMA InitIInv == Init => IInv
  <1> SUFFICES ASSUME Init PROVE IInv
    OBVIOUS
  <1>1. case \in Cases /\ rest = case.where /\ bounds = NoBounds
        /\ kinds = <<>> /\ sel = <<>> /\ stage = "parse"
    BY DEF Init
  <1>2. case.where \in Seq(Conjunctions)
    BY <1>1, CasesAssumption DEF CaseOK
  <1>3. Len(case.where) \in Nat
    BY <1>2, LenProperties
  <1>4. Consumed = 0
    BY <1>1, <1>3 DEF Consumed
  <1>5. Typed
    <2>1. \A k \in DOMAIN rest : rest[k] = case.where[Consumed + k]
      <3>1. DOMAIN rest = 1 .. Len(case.where)
        BY <1>1, <1>2, LenProperties
      <3>2. \A k \in 1 .. Len(case.where) : 0 + k = k
        BY <1>3
      <3> QED
        BY <1>1, <1>4, <3>1, <3>2
    <2> QED
      BY <1>1, <1>2, <1>3, <2>1, NoBoundsFacts DEF Typed
  <1>6. Implied
    BY <1>1, NoBoundsFacts DEF Implied
  <1>7. Kept
    BY <1>4 DEF Kept
  <1>8. Selected
    BY <1>1 DEF Selected
  <1> QED
    BY <1>5, <1>6, <1>7, <1>8 DEF IInv

\* Extracting a conjunct.
LEMMA ExtractStep ==
    ASSUME IInv, ExtractFilters
    PROVE  IInv'
  <1> DEFINE n == Consumed
             c == Head(rest)
  <1>1. /\ stage = "parse" /\ rest # <<>> /\ bounds' = Extracted(bounds, c) /\ rest' = Tail(rest)
        /\ case' = case /\ kinds' = kinds /\ sel' = sel /\ stage' = stage
    BY DEF ExtractFilters
  <1>2. Typed /\ Implied /\ Kept /\ Selected
    BY DEF IInv
  <1>3. /\ CaseOK(case) /\ Len(case.where) \in Nat /\ DOMAIN case.where = 1 .. Len(case.where)
        /\ \A k \in 1 .. Len(case.where) : case.where[k] \in Conjunctions
        /\ Len(rest) \in Nat /\ DOMAIN rest = 1 .. Len(rest)
        /\ n \in 0 .. Len(case.where) /\ n = Len(case.where) - Len(rest)
    BY <1>2, TypedFacts DEF Consumed
  <1>4. rest \in Seq(Conjunctions) /\ bounds \in AllBounds
        /\ \A k \in DOMAIN rest : rest[k] = case.where[n + k]
    BY <1>2 DEF Typed
  <1>5. /\ c = rest[1] /\ rest' \in Seq(Conjunctions) /\ Len(rest) # 0
        /\ Len(rest') = Len(rest) - 1 /\ \A k \in 1 .. Len(rest) - 1 : rest'[k] = rest[k + 1]
    BY <1>1, <1>4, HeadTailProperties, EmptySeq
  <1>6. DOMAIN rest' = 1 .. Len(rest) - 1
    BY <1>5, LenProperties
  <1>7. n + 1 \in 1 .. Len(case.where) /\ c = case.where[n + 1] /\ c \in Conjunctions
    <2>1. 1 \in DOMAIN rest
      BY <1>3, <1>5
    <2>2. n + 1 \in 1 .. Len(case.where)
      BY <1>3, <1>5
    <2> QED
      BY <1>3, <1>4, <1>5, <2>1, <2>2
  <1>8. Consumed' = n + 1
    BY <1>1, <1>3, <1>5 DEF Consumed
  <1> HIDE DEF n, c
  <1>9. bounds' \in AllBounds
    BY <1>1, <1>4, <1>7, ExtractedType
  <1>10. Typed'
    <2>1. ASSUME NEW k \in DOMAIN rest' PROVE rest'[k] = case.where[(n + 1) + k]
      <3> DEFINE m == Len(rest)
      <3>1. k \in 1 .. m - 1 /\ n \in Int /\ m \in Nat
        BY <1>3, <1>6
      <3> HIDE DEF m
      <3>2. k + 1 \in 1 .. m /\ n + (k + 1) = (n + 1) + k
        BY <3>1
      <3> QED
        BY <1>3, <1>4, <1>5, <3>1, <3>2 DEF m
    <2>2. Len(rest') <= Len(case.where)
      BY <1>3, <1>5
    <2>3. case \in Cases
      BY <1>2 DEF Typed
    <2> QED
      BY <1>1, <1>5, <1>8, <1>9, <2>1, <2>2, <2>3 DEF Typed
  <1>11. Implied'
    <2> SUFFICES ASSUME \A d \in Conjuncts : KnownField(d) /\ ~d.cast,
                        NEW v \in Int, \A k \in 1 .. n + 1 : Satisfies(case.where[k], v)
                 PROVE  Within(case, Extracted(bounds, c), v)
      BY <1>1, <1>8 DEF Implied, Conjuncts, KnownField
    <2>1. Satisfies(c, v)
      <3>1. n + 1 \in 1 .. n + 1
        BY <1>3
      <3> QED
        BY <1>7, <3>1
    <2>2. \A k \in 1 .. n : Satisfies(case.where[k], v)
      BY <1>3
    <2>3. Within(case, bounds, v)
      BY <1>2, <2>2 DEF Implied, n
    <2>4. c \in Conjuncts
      BY <1>3, <1>7 DEF Conjuncts
    <2>5. Plain(case, c)
      BY <2>4 DEF Plain, KnownField
    <2> QED
      BY <1>4, <1>7, <2>1, <2>3, <2>5, ExtractedImplied
  <1>12. Kept'
    <2> SUFFICES ASSUME NEW k \in 1 .. n + 1,
                        \A j \in k + 1 .. n + 1 : Slot(case.where[j]) \cap Slot(case.where[k]) = {}
                 PROVE  Stored(Extracted(bounds, c), case.where[k])
      BY <1>1, <1>8 DEF Kept
    <2>1. CASE k = n + 1
      BY <1>4, <1>7, <2>1, ExtractedStores
    <2>2. CASE k # n + 1
      <3> DEFINE m == Len(case.where)
      <3>1. n \in Int /\ m \in Int /\ n + 1 <= m
        BY <1>3, <1>7
      <3> HIDE DEF m
      <3>2. /\ k \in 1 .. n /\ k \in 1 .. m /\ n + 1 \in k + 1 .. n + 1
            /\ \A j \in k + 1 .. n : j \in k + 1 .. n + 1
        BY <2>2, <3>1
      <3>3. Stored(bounds, case.where[k])
        BY <1>2, <3>2 DEF Kept, n
      <3>4. Slot(c) \cap Slot(case.where[k]) = {}
        BY <1>7, <3>2
      <3>5. case.where[k] \in Conjunctions
        BY <1>3, <3>2 DEF m
      <3> QED
        BY <1>4, <1>7, <3>3, <3>4, <3>5, ExtractedKeeps
    <2> QED
      BY <2>1, <2>2
  <1>13. Selected'
    BY <1>1, <1>2 DEF Selected
  <1> QED
    BY <1>10, <1>11, <1>12, <1>13 DEF IInv

\* Steps that leave the conjuncts and the bounds alone.
LEMMA ParsedStays ==
    ASSUME Typed, Implied, Kept, UNCHANGED <<case, rest, bounds>>,
           stage' \in {"parse", "resolve", "selected", "nothing"}
    PROVE  Typed' /\ Implied' /\ Kept'
  <1>1. Consumed' = Consumed
    BY DEF Consumed
  <1>2. Typed'
    BY <1>1 DEF Typed
  <1>3. Implied'
    BY <1>1 DEF Implied, Conjuncts, KnownField
  <1>4. Kept'
    BY <1>1 DEF Kept
  <1> QED
    BY <1>2, <1>3, <1>4

\* The end of parsing: the filters are those of the bounds, none resolved yet.
LEMMA FinishParseStep ==
    ASSUME IInv, FinishParse
    PROVE  IInv'
  <1> DEFINE F == IntoFilters(bounds)
             n == Len(case.vals)
  <1>1. /\ stage = "parse" /\ rest = <<>> /\ kinds' = F
        /\ case' = case /\ rest' = rest /\ bounds' = bounds
        /\ F = <<>> => stage' = "selected" /\ sel' = <<RangeSel(0, n)>>
        /\ F # <<>> => stage' = "resolve" /\ sel' = sel
    BY DEF FinishParse
  <1>2. Typed /\ Implied /\ Kept /\ sel = <<>>
    BY <1>1 DEF IInv, Selected
  <1>3. F \in Seq(AllFilters)
    BY <1>2, IntoFiltersFacts DEF Typed
  <1>4. Len(F) \in Nat /\ DOMAIN F = 1 .. Len(F)
    BY <1>3, LenProperties
  <1>5. n \in Nat \ {0}
    BY <1>2, TypedFacts, AxisFacts
  <1>6. IntoFilters(bounds)' = F /\ Done' = 0 /\ Axis' = 0 .. n - 1
    <2>1. IntoFilters(bounds)' = F /\ Done' = Len(F) - Len(F)
      BY <1>1 DEF Done
    <2> HIDE DEF F
    <2> QED
      BY <1>1, <1>4, <2>1 DEF Axis
  <1> HIDE DEF F, n
  <1>7. \A k \in DOMAIN F : F[k] = F[0 + k]
    BY <1>4
  <1>8. stage' \in {"resolve", "selected"}
    BY <1>1
  <1>9. Selected'
    <2>1. CASE F # <<>>
      BY <1>1, <1>2, <1>3, <1>4, <1>6, <1>7, <2>1 DEF Selected
    <2>2. CASE F = <<>>
      <3>1. stage' = "selected" /\ sel' = <<RangeSel(0, n)>> /\ sel' # <<>> /\ sel'[1] = RangeSel(0, n)
        BY <1>1, <2>2
      <3>2. SelOK(RangeSel(0, n)) /\ Members(RangeSel(0, n)) = 0 .. n - 1
        BY <1>5, RangeFacts
      <3>3. 0 .. n - 1 # {}
        <4>1. 0 \in 0 .. n - 1
          BY <1>5
        <4> QED
          BY <4>1
      <3>4. {i \in 0 .. n - 1 : \A k \in 1 .. 0 : Passes(case, F[k], case.vals[i + 1])} = 0 .. n - 1
        OBVIOUS
      <3>5. /\ SelOK(sel'[1])
            /\ Members(sel'[1]) = {i \in Axis' : \A k \in 1 .. Done' :
                                      Passes(case', IntoFilters(bounds)'[k], case'.vals[i + 1])}
            /\ Members(sel'[1]) # {}
        BY <1>1, <1>6, <3>1, <3>2, <3>3, <3>4
      <3> QED
        BY <1>1, <1>3, <1>4, <1>6, <1>7, <2>2, <3>1, <3>5 DEF Selected
    <2> QED
      BY <2>1, <2>2
  <1>10. Typed' /\ Implied' /\ Kept'
    BY <1>1, <1>2, <1>8, ParsedStays
  <1> QED
    BY <1>9, <1>10 DEF IInv

\* Resolving a filter: what is selected afterwards.
LEMMA ResolveStep ==
    ASSUME IInv, ResolveNext
    PROVE  IInv'
  <1> DEFINE F == IntoFilters(bounds)
             f == Head(kinds)
             d == Done
             one == ResolveSingleFilter(case, f)
             both == IF sel = <<>> THEN one ELSE Intersect(sel[1], one)
             Pass(k) == {i \in Axis : Passes(case, F[k], case.vals[i + 1])}
             All(m) == {i \in Axis : \A k \in 1 .. m : Passes(case, F[k], case.vals[i + 1])}
  <1>1. /\ stage = "resolve" /\ sel' = <<both>> /\ kinds' = Tail(kinds)
        /\ case' = case /\ rest' = rest /\ bounds' = bounds
        /\ stage' = IF SelEmpty(both) THEN "nothing"
                    ELSE IF Len(kinds) = 1 THEN "selected" ELSE "resolve"
    BY DEF ResolveNext
  <1>2. Typed /\ Implied /\ Kept
    BY DEF IInv
  <1>3. /\ rest = <<>> /\ kinds \in Seq(AllFilters) /\ Len(kinds) <= Len(F) /\ kinds # <<>>
        /\ \A k \in DOMAIN kinds : kinds[k] = F[d + k]
        /\ sel = <<>> => d = 0
        /\ sel # <<>> => SelOK(sel[1]) /\ Members(sel[1]) = All(d)
    BY <1>1 DEF IInv, Selected
  <1>4. F \in Seq(AllFilters)
    BY <1>2, IntoFiltersFacts DEF Typed
  <1> DEFINE l == Len(kinds)
             g == Len(F)
  <1>5. /\ g \in Nat /\ DOMAIN F = 1 .. g /\ l \in Nat \ {0} /\ DOMAIN kinds = 1 .. l
        /\ d = g - l /\ l <= g
    BY <1>3, <1>4, LenProperties, EmptySeq DEF Done
  <1>6. /\ f = kinds[1] /\ kinds' \in Seq(AllFilters) /\ Len(kinds') = l - 1
        /\ \A k \in 1 .. l - 1 : kinds'[k] = kinds[k + 1]
    BY <1>1, <1>3, HeadTailProperties
  <1>7. DOMAIN kinds' = 1 .. l - 1
    BY <1>6, LenProperties
  <1>8. IntoFilters(bounds)' = F /\ Axis' = Axis /\ Done' = g - (l - 1)
    BY <1>1, <1>6 DEF Done, Axis
  <1> HIDE DEF l, g, d, F
  <1>9. Done' = d + 1 /\ d \in Nat /\ l - 1 <= g /\ d + 1 \in 1 .. g
    BY <1>5, <1>8
  <1>10. f = F[d + 1] /\ f \in AllFilters
    <2>1. 1 \in DOMAIN kinds
      BY <1>5
    <2>2. f = F[d + 1]
      BY <1>3, <1>6, <2>1
    <2> QED
      BY <1>3, <1>6, <2>1, <2>2
  <1>11. SelOK(one) /\ Members(one) = Pass(d + 1)
    <2>1. CaseOK(case)
      BY <1>2, TypedFacts
    <2>2. SelOK(one) /\ Members(one) = {i \in 0 .. Len(case.vals) - 1 : Passes(case, f, case.vals[i + 1])}
      BY <1>10, <2>1, ResolveFacts
    <2> QED
      BY <1>10, <2>2 DEF Axis
  <1>12. All(d) \cap Pass(d + 1) = All(d + 1)
    <2>1. \A k \in 1 .. d + 1 : k \in 1 .. d \/ k = d + 1
      BY <1>9
    <2>2. (\A k \in 1 .. d : k \in 1 .. d + 1) /\ d + 1 \in 1 .. d + 1
      BY <1>9
    <2> QED
      BY <2>1, <2>2
  <1>13. SelOK(both) /\ Members(both) = All(d + 1)
    <2>1. CASE sel = <<>>
      <3>1. both = one /\ d = 0
        BY <1>3, <2>1
      <3>2. All(d) = Axis
        <4>1. \A k \in 1 .. d : FALSE
          BY <3>1
        <4> QED
          BY <4>1
      <3>3. Pass(d + 1) = All(d + 1)
        <4>1. Pass(d + 1) \subseteq Axis
          OBVIOUS
        <4> HIDE DEF Pass, All
        <4> QED
          BY <1>12, <3>2, <4>1
      <3> HIDE DEF both, one, Pass, All
      <3> QED
        BY <1>11, <3>1, <3>3
    <2>2. CASE sel # <<>>
      <3>1. both = Intersect(sel[1], one)
        BY <2>2
      <3>2. SelOK(sel[1]) /\ Members(sel[1]) = All(d)
        BY <1>3, <2>2
      <3> HIDE DEF both, one, Pass, All
      <3>3. SelOK(both) /\ Members(both) = Members(sel[1]) \cap Members(one)
        BY <1>11, <3>1, <3>2, IntersectFacts
      <3> QED
        BY <1>11, <1>12, <3>2, <3>3
    <2> QED
      BY <2>1, <2>2
  <1> HIDE DEF both, one, f
  <1>14. /\ stage' \in {"nothing", "selected", "resolve"}
         /\ stage' = "nothing" <=> Members(both) = {}
         /\ stage' = "selected" => l = 1
         /\ stage' = "resolve" => l # 1
    <2>1. SelEmpty(both) <=> Members(both) = {}
      BY DEF SelEmpty
    <2>2. CASE SelEmpty(both)
      <3>1. stage' = "nothing"
        BY <1>1, <2>2
      <3> QED
        BY <2>1, <2>2, <3>1
    <2>3. CASE ~SelEmpty(both) /\ l = 1
      <3>1. stage' = "selected"
        BY <1>1, <2>3 DEF l
      <3> QED
        BY <2>1, <2>3, <3>1
    <2>4. CASE ~SelEmpty(both) /\ l # 1
      <3>1. stage' = "resolve"
        BY <1>1, <2>4 DEF l
      <3> QED
        BY <2>1, <2>4, <3>1
    <2> QED
      BY <2>2, <2>3, <2>4
  <1>15. sel' # <<>> /\ sel'[1] = both
    BY <1>1
  <1>16. \A k \in DOMAIN kinds' : kinds'[k] = F[(d + 1) + k]
    <2> TAKE k \in DOMAIN kinds'
    <2>1. k \in 1 .. l - 1 /\ k + 1 \in 1 .. l /\ d + (k + 1) = (d + 1) + k
      BY <1>5, <1>7, <1>9
    <2> QED
      BY <1>3, <1>5, <1>6, <2>1
  <1>17. kinds' = <<>> <=> l = 1
    BY <1>5, <1>6, EmptySeq
  <1>18. Members(sel'[1]) = {i \in Axis' : \A k \in 1 .. Done' :
                                Passes(case', IntoFilters(bounds)'[k], case'.vals[i + 1])}
    BY <1>1, <1>8, <1>9, <1>13, <1>15
  <1>19. Selected'
    <2>1. stage' # "parse"
      BY <1>14
    <2>2. rest' = <<>> /\ kinds' \in Seq(AllFilters) /\ Len(kinds') <= Len(IntoFilters(bounds)')
      BY <1>1, <1>3, <1>6, <1>8, <1>9 DEF g
    <2>3. \A k \in DOMAIN kinds' : kinds'[k] = IntoFilters(bounds)'[Done' + k]
      BY <1>8, <1>9, <1>16
    <2>4. /\ stage' = "resolve" => kinds' # <<>> /\ (sel' = <<>> => Done' = 0)
          /\ stage' \in {"selected", "nothing"} => sel' # <<>>
          /\ stage' = "selected" => kinds' = <<>>
      BY <1>14, <1>15, <1>17
    <2>5. SelOK(sel'[1]) /\ (Members(sel'[1]) = {} <=> stage' = "nothing")
      BY <1>13, <1>14, <1>15
    <2> QED
      BY <1>18, <2>1, <2>2, <2>3, <2>4, <2>5 DEF Selected
  <1>20. Typed' /\ Implied' /\ Kept'
    BY <1>1, <1>2, <1>14, ParsedStays
  <1> QED
    BY <1>19, <1>20 DEF IInv

\* The invariant is inductive.
LEMMA NextIInv == IInv /\ [Next]_vars => IInv'
  <1> SUFFICES ASSUME IInv, [Next]_vars PROVE IInv'
    OBVIOUS
  <1>1. CASE ExtractFilters
    BY <1>1, ExtractStep
  <1>2. CASE FinishParse
    BY <1>2, FinishParseStep
  <1>3. CASE ResolveNext
    BY <1>3, ResolveStep
  <1>4. CASE UNCHANGED vars
    <2>1. UNCHANGED <<case, rest, bounds>> /\ kinds' = kinds /\ sel' = sel /\ stage' = stage
      BY <1>4 DEF vars
    <2>2. Typed' /\ Implied' /\ Kept'
      <3>1. Typed /\ Implied /\ Kept /\ stage' \in {"parse", "resolve", "selected", "nothing"}
        BY <2>1 DEF IInv, Typed
      <3> QED
        BY <2>1, <3>1, ParsedStays
    <2>3. Selected'
      BY <2>1 DEF IInv, Selected, Done, Axis
    <2> QED
      BY <2>2, <2>3 DEF IInv
  <1> QED
    BY <1>1, <1>2, <1>3, <1>4 DEF Next

-----------------------------------------------------------------------------
(* Theorems. *)

\* The invariant holds in every state.
THEOREM IInvHolds == Spec => []IInv
  <1>1. Init => IInv
    BY InitIInv
  <1>2. IInv /\ [Next]_vars => IInv'
    BY NextIInv
  <1> QED
    BY <1>1, <1>2, PTL DEF Spec

\* When resolving is over, the positions chosen are those of the values within
\* the bounds; when nothing is left early, none is.
LEMMA ChosenWithin ==
    ASSUME IInv, Resolved
    PROVE  /\ \A i \in Axis : Within(case, bounds, case.vals[i + 1]) => i \in Chosen
           /\ Chosen \subseteq {i \in Axis : Within(case, bounds, case.vals[i + 1])}
  <1> DEFINE F == IntoFilters(bounds)
             g == Len(F)
             l == Len(kinds)
  <1>1. /\ Typed /\ stage \in {"selected", "nothing"}
        /\ kinds \in Seq(AllFilters) /\ l <= g /\ sel # <<>>
        /\ stage = "selected" => kinds = <<>>
        /\ Members(sel[1]) = {i \in Axis : \A k \in 1 .. Done : Passes(case, F[k], case.vals[i + 1])}
        /\ Members(sel[1]) = {} <=> stage = "nothing"
    BY DEF IInv, Selected, Resolved
  <1>2. /\ F \in Seq(AllFilters)
        /\ \A v : (\A k \in DOMAIN F : Passes(case, F[k], v)) <=> Within(case, bounds, v)
    BY <1>1, IntoFiltersFacts DEF Typed
  <1>3. g \in Nat /\ DOMAIN F = 1 .. g /\ l \in Nat /\ Done = g - l
    BY <1>1, <1>2, LenProperties DEF Done
  <1>4. Chosen = Members(sel[1])
    BY <1>1 DEF Chosen
  <1>5. kinds = <<>> => l = 0
    OBVIOUS
  <1> HIDE DEF F, g, l
  <1>6. 1 .. Done \subseteq DOMAIN F
    BY <1>1, <1>3
  <1>7. ASSUME NEW i \in Axis, Within(case, bounds, case.vals[i + 1]) PROVE i \in Chosen
    BY <1>1, <1>2, <1>4, <1>6, <1>7
  <1>8. Chosen \subseteq {i \in Axis : Within(case, bounds, case.vals[i + 1])}
    <2>1. CASE stage = "nothing"
      BY <1>1, <1>4, <2>1
    <2>2. CASE stage = "selected"
      <3>1. 1 .. Done = DOMAIN F
        BY <1>1, <1>3, <1>5, <2>2
      <3> QED
        BY <1>1, <1>2, <1>4, <3>1
    <2> QED
      BY <1>1, <2>1, <2>2
  <1> QED
    BY <1>7, <1>8

\* Everything has been extracted when resolving begins.
LEMMA AllConsumed ==
    ASSUME IInv, Resolved
    PROVE  /\ Consumed = Len(case.where) /\ DOMAIN case.where = 1 .. Len(case.where)
           /\ \A c \in Conjuncts : c \in Conjunctions
           /\ \A i \in Axis : case.vals[i + 1] \in Int
  <1>1. Typed /\ rest = <<>>
    BY DEF IInv, Selected, Resolved
  <1>2. /\ CaseOK(case) /\ Len(case.where) \in Nat /\ DOMAIN case.where = 1 .. Len(case.where)
        /\ \A k \in 1 .. Len(case.where) : case.where[k] \in Conjunctions
    BY <1>1, TypedFacts
  <1>3. Len(rest) = 0
    BY <1>1
  <1>4. Consumed = Len(case.where)
    BY <1>2, <1>3 DEF Consumed
  <1>5. \A i \in Axis : case.vals[i + 1] \in Int
    <2>1. Len(case.vals) \in Nat /\ \A k \in 1 .. Len(case.vals) : case.vals[k] \in Int
      BY <1>2, AxisFacts
    <2>2. \A i \in Axis : i + 1 \in 1 .. Len(case.vals)
      BY <2>1 DEF Axis
    <2> QED
      BY <2>1, <2>2
  <1> QED
    BY <1>2, <1>4, <1>5 DEF Conjuncts

\* PositionsAscend for any axis: what resolve_coord_selection hands on lies on
\* the axis, ascending and distinct, and is not empty.
THEOREM PositionsAscendHolds == Spec => []PositionsAscend
  <1>1. ASSUME IInv PROVE PositionsAscend
    <2>1. ASSUME sel # <<>>
          PROVE  /\ Members(sel[1]) \subseteq 0 .. Len(case.vals) - 1
                 /\ Ascends(Positions(sel[1]))
      <3>1. /\ SelOK(sel[1])
            /\ Members(sel[1]) = {i \in Axis : \A k \in 1 .. Done :
                                     Passes(case, IntoFilters(bounds)[k], case.vals[i + 1])}
        BY <1>1, <2>1 DEF IInv, Selected
      <3>2. Members(sel[1]) \subseteq 0 .. Len(case.vals) - 1
        BY <3>1 DEF Axis
      <3>3. Ascends(Positions(sel[1]))
        <4>1. ASSUME NEW lo \in Nat, NEW hi \in Nat, sel[1] = RangeSel(lo, hi)
              PROVE  Ascends(Positions(sel[1]))
          BY <4>1, RangeFacts
        <4>2. ASSUME NEW at \in Seq(Nat), sel[1] = IndicesSel(at), Ascends(at)
              PROVE  Ascends(Positions(sel[1]))
          BY <4>2, IndicesFacts
        <4> QED
          BY <3>1, <4>1, <4>2 DEF SelOK
      <3> QED
        BY <3>2, <3>3
    <2>2. ASSUME stage = "selected" PROVE ~SelEmpty(sel[1])
      BY <1>1, <2>2 DEF IInv, Selected, SelEmpty
    <2> QED
      BY <2>1, <2>2 DEF PositionsAscend, Ascends
  <1> QED
    BY <1>1, IInvHolds, PTL

\* NothingLost for any axis and any WHERE clause: a conjunct replaced by
\* another in PartialBounds widens the selection and never narrows it.
THEOREM NothingLostHolds == Spec => []NothingLost
  <1>1. ASSUME IInv PROVE NothingLost
    <2> SUFFICES ASSUME Resolved, \A c \in Conjuncts : KnownField(c) /\ ~c.cast
                 PROVE  Matching(Conjuncts) \subseteq Chosen
      BY DEF NothingLost
    <2> SUFFICES ASSUME NEW i \in Matching(Conjuncts) PROVE i \in Chosen
      OBVIOUS
    <2>1. i \in Axis /\ \A c \in Conjuncts : Satisfies(c, case.vals[i + 1])
      BY DEF Matching, Axis
    <2>2. /\ Consumed = Len(case.where) /\ DOMAIN case.where = 1 .. Len(case.where)
          /\ case.vals[i + 1] \in Int
      BY <1>1, <2>1, AllConsumed
    <2>3. \A k \in 1 .. Consumed : Satisfies(case.where[k], case.vals[i + 1])
      BY <2>1, <2>2 DEF Conjuncts
    <2>4. Within(case, bounds, case.vals[i + 1])
      BY <1>1, <2>2, <2>3 DEF IInv, Implied
    <2> QED
      BY <1>1, <2>1, <2>4, ChosenWithin
  <1> QED
    BY <1>1, IInvHolds, PTL

\* SelectionExact for any axis: where every conjunct is pushed down and no two
\* fill the same slot of PartialBounds, exactly the matching positions are
\* chosen.
THEOREM SelectionExactHolds == Spec => []SelectionExact
  <1>1. ASSUME IInv, NothingLost PROVE SelectionExact
    <2> SUFFICES ASSUME Resolved,
                        \A c \in Conjuncts : KnownField(c) /\ ~c.cast /\ c.op # "or"
                                 /\ (c.op \in {"in", "partin"} => c.list # <<>>),
                        \A j, k \in DOMAIN case.where :
                           j # k => Slot(case.where[j]) \cap Slot(case.where[k]) = {}
                 PROVE  Chosen = Matching(Conjuncts)
      BY DEF SelectionExact
    <2>1. Matching(Conjuncts) \subseteq Chosen
      BY <1>1 DEF NothingLost
    <2>2. ASSUME NEW i \in Chosen, NEW c \in Conjuncts
          PROVE  i \in Axis /\ Satisfies(c, case.vals[i + 1])
      <3>1. /\ Consumed = Len(case.where) /\ DOMAIN case.where = 1 .. Len(case.where)
            /\ \A d \in Conjuncts : d \in Conjunctions
            /\ \A j \in Axis : case.vals[j + 1] \in Int
        BY <1>1, AllConsumed
      <3>2. i \in Axis /\ Within(case, bounds, case.vals[i + 1])
        BY <1>1, ChosenWithin
      <3>3. PICK k \in DOMAIN case.where : c = case.where[k]
        BY DEF Conjuncts
      <3>4. k \in 1 .. Consumed /\ \A j \in k + 1 .. Consumed : j \in DOMAIN case.where /\ j # k
        <4> DEFINE m == Len(case.where)
        <4>1. m \in Nat
          BY <1>1, TypedFacts DEF IInv
        <4> HIDE DEF m
        <4> QED
          BY <3>1, <4>1 DEF m
      <3>5. Stored(bounds, c)
        BY <1>1, <3>3, <3>4 DEF IInv, Kept
      <3>6. Plain(case, c)
        BY DEF Plain, KnownField
      <3>7. bounds \in AllBounds
        BY <1>1 DEF IInv, Typed
      <3> QED
        BY <3>1, <3>2, <3>5, <3>6, <3>7, StoredMeans
    <2>3. Chosen \subseteq Axis
      BY <1>1, ChosenWithin
    <2>4. Chosen \subseteq Matching(Conjuncts)
      BY <2>2, <2>3 DEF Matching, Axis
    <2> QED
      BY <2>1, <2>4
  <1> QED
    BY <1>1, IInvHolds, NothingLostHolds, PTL

\* DatePartsStick for any WHERE clause: no conjunct displaces a date part.
THEOREM DatePartsStickHolds == Spec => []DatePartsStick
  <1>1. ASSUME IInv PROVE DatePartsStick
    <2> DEFINE parts == {c \in Conjuncts : c.op = "part" /\ KnownField(c)}
    <2> SUFFICES ASSUME Resolved PROVE Chosen \subseteq Matching(parts)
      BY DEF DatePartsStick
    <2>1. ASSUME NEW i \in Chosen, NEW c \in parts
          PROVE  Satisfies(c, case.vals[i + 1])
      <3>1. /\ Consumed = Len(case.where) /\ DOMAIN case.where = 1 .. Len(case.where)
            /\ \A d \in Conjuncts : d \in Conjunctions
            /\ \A j \in Axis : case.vals[j + 1] \in Int
        BY <1>1, AllConsumed
      <3>2. i \in Axis /\ Within(case, bounds, case.vals[i + 1])
        BY <1>1, ChosenWithin
      <3>3. PICK k \in DOMAIN case.where : c = case.where[k]
        BY DEF Conjuncts
      <3>4. c.op = "part" /\ Slot(c) = {} /\ c \in Conjunctions
        BY <3>1 DEF Slot
      <3>5. Stored(bounds, c)
        BY <1>1, <3>1, <3>3, <3>4 DEF IInv, Kept
      <3>6. Plain(case, c)
        BY DEF Plain, KnownField
      <3>7. bounds \in AllBounds
        BY <1>1 DEF IInv, Typed
      <3> QED
        BY <3>1, <3>2, <3>4, <3>5, <3>6, <3>7, StoredMeans
    <2>2. Chosen \subseteq Axis
      BY <1>1, ChosenWithin
    <2> QED
      BY <2>1, <2>2 DEF Matching, Axis
  <1> QED
    BY <1>1, IInvHolds, PTL
=============================================================================
