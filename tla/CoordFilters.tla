---------------------------- MODULE CoordFilters ----------------------------
(***************************************************************************)
(* From a WHERE clause to positions on one coordinate: parse_coord_filters  *)
(* collects the conjuncts into bounds, and resolve_coord_selection turns    *)
(* the bounds into a selection (reader/filter.rs).                          *)
(*                                                                          *)
(* A case is a coordinate and the conjuncts on it:                          *)
(*   vals    the coordinate array, strictly ascending or descending         *)
(*   time    whether it holds timestamps                                    *)
(*   where   the conjuncts, in the order the expression tree is walked      *)
(* A conjunct compares the column, or a cast of it to a coarser type, with  *)
(* literals (DataFusion's simplifier has put the column on the left), asks  *)
(* for a date part, or is of a form that is not pushed down.                *)
(***************************************************************************)
EXTENDS Selection

CONSTANTS Cases

Conjunctions ==
    [op : {"=", ">=", ">", "<=", "<", "between", "in", "part", "partin", "or"},
     cast : BOOLEAN, a : Int, b : Int, list : Seq(Int), field : STRING]

\* The array ascends or descends, which find_filter_range takes for granted.
CaseOK(c) ==
    /\ c.vals \in Seq(Int) /\ c.vals # <<>>
    /\ \/ \A j, k \in DOMAIN c.vals : j < k => c.vals[j] < c.vals[k]
       \/ \A j, k \in DOMAIN c.vals : j < k => c.vals[j] > c.vals[k]
    /\ c.time \in BOOLEAN
    /\ c.where \in Seq(Conjunctions)

ASSUME CasesAssumption == \A c \in Cases : CaseOK(c)

VARIABLES
    case,    \* the coordinate and the conjuncts
    rest,    \* conjuncts still to be extracted
    bounds,  \* PartialBounds of the coordinate
    kinds,   \* its filters, AND-composed, still to be resolved
    sel,     \* the selection so far; None, written <<>>, before the first filter
    stage    \* "parse", "resolve", "selected", "nothing"

vars == <<case, rest, bounds, kinds, sel, stage>>

-----------------------------------------------------------------------------
(* What a conjunct means. *)

\* The date parts of a timestamp, as far as they matter: a part that grows with
\* time, a cyclic one, the day of the week and one the code does not know.
\* DATE_PART counts days of the week from Sunday.
SqlDatePart(field, v) ==
    CASE field = "MONTH"  -> v \div 3
      [] field = "HOUR"   -> v % 2
      [] field = "DOW"    -> (v + 1) % 7
      [] field = "SECOND" -> 0

\* CAST to a coarser type.
Coarse(v) == v \div 2

Satisfies(c, v) ==
    LET x == IF c.cast THEN Coarse(v) ELSE v
    IN CASE c.op = "="       -> x = c.a
         [] c.op = ">="      -> x >= c.a
         [] c.op = ">"       -> x > c.a
         [] c.op = "<="      -> x <= c.a
         [] c.op = "<"       -> x < c.a
         [] c.op = "between" -> c.a <= x /\ x <= c.b
         [] c.op = "in"      -> \E k \in DOMAIN c.list : x = c.list[k]
         [] c.op = "part"    -> SqlDatePart(c.field, v) = c.a
         [] c.op = "partin"  -> \E k \in DOMAIN c.list : SqlDatePart(c.field, v) = c.list[k]
         [] c.op = "or"      -> x = c.a \/ x = c.b

\* Positions, counted from 0, whose value satisfies all conjuncts of a set.
Matching(S) ==
    {i \in 0 .. Len(case.vals) - 1 : \A c \in S : Satisfies(c, case.vals[i + 1])}

Conjuncts == {case.where[k] : k \in DOMAIN case.where}

-----------------------------------------------------------------------------
(* Parsing. *)

\* PartialBounds::default.  An Option is <<>> or holds its value.
NoBounds == [eq |-> <<>>, low |-> <<>>, high |-> <<>>,
             date_parts |-> <<>>, in_list |-> <<>>, date_part_sets |-> <<>>]

\* extract_filters for one conjunct.  A cast around the column is looked
\* through; a second conjunct of the same form replaces the first, except for
\* date parts.
Extracted(b, c) ==
    CASE c.op = "="       -> [b EXCEPT !.eq = <<c.a>>]
      [] c.op = ">="      -> [b EXCEPT !.low = <<c.a, TRUE>>]
      [] c.op = ">"       -> [b EXCEPT !.low = <<c.a, FALSE>>]
      [] c.op = "<="      -> [b EXCEPT !.high = <<c.a, TRUE>>]
      [] c.op = "<"       -> [b EXCEPT !.high = <<c.a, FALSE>>]
      [] c.op = "between" -> [b EXCEPT !.low = <<c.a, TRUE>>, !.high = <<c.b, TRUE>>]
      [] c.op = "in"      -> IF c.list = <<>> THEN b ELSE [b EXCEPT !.in_list = c.list]
      [] c.op = "part"    -> [b EXCEPT !.date_parts = Append(@, <<c.field, c.a>>)]
      [] c.op = "partin"  -> IF c.list = <<>> THEN b
                             ELSE [b EXCEPT !.date_part_sets = Append(@, <<c.field, c.list>>)]
      [] OTHER            -> b

ExtractFilters ==
    /\ stage = "parse" /\ rest # <<>>
    /\ bounds' = Extracted(bounds, Head(rest))
    /\ rest' = Tail(rest)
    /\ UNCHANGED <<case, kinds, sel, stage>>

\* Mutant: a range and an equality exclude each other.
BoundFiltersEither(b) ==
    IF b.eq # <<>> THEN <<[kind |-> "eq", a |-> b.eq[1]]>>
    ELSE IF b.low # <<>> \/ b.high # <<>>
    THEN <<[kind |-> "range", low |-> b.low, high |-> b.high]>> ELSE <<>>

\* The equality and range filters among the bounds.
BoundFilters(b) ==
    (IF b.eq = <<>> THEN <<>> ELSE <<[kind |-> "eq", a |-> b.eq[1]]>>)
    \o (IF b.low = <<>> /\ b.high = <<>> THEN <<>>
        ELSE <<[kind |-> "range", low |-> b.low, high |-> b.high]>>)

IntoFilters(b) ==
    BoundFilters(b)
    \o [k \in DOMAIN b.date_parts |->
            [kind |-> "part", field |-> b.date_parts[k][1], a |-> b.date_parts[k][2]]]
    \o (IF b.in_list = <<>> THEN <<>> ELSE <<[kind |-> "in", a |-> b.in_list]>>)
    \o [k \in DOMAIN b.date_part_sets |->
            [kind |-> "partin", field |-> b.date_part_sets[k][1], a |-> b.date_part_sets[k][2]]]

\* The end of parse_coord_filters.  A coordinate without filters is read whole.
FinishParse ==
    /\ stage = "parse" /\ rest = <<>>
    /\ kinds' = IntoFilters(bounds)
    /\ IF kinds' = <<>>
       THEN /\ stage' = "selected"
            /\ sel' = <<RangeSel(0, Len(case.vals))>>
       ELSE stage' = "resolve" /\ UNCHANGED sel
    /\ UNCHANGED <<case, rest, bounds>>

-----------------------------------------------------------------------------
(* Resolving. *)

\* Positions before the first value >= v, and before the first value > v, of an
\* ascending array.
BinarySearchLowerBound(vals, v) == Cardinality({k \in DOMAIN vals : vals[k] < v})
BinarySearchUpperBound(vals, v) == Cardinality({k \in DOMAIN vals : vals[k] <= v})

\* Positions before the first value <= v (< v when not inclusive), and before
\* the first value < v (<= v when not inclusive), of a descending array.
FindFirstLeqDescending(vals, v, inclusive) ==
    Cardinality({k \in DOMAIN vals : vals[k] > v \/ (~inclusive /\ vals[k] = v)})
FindFirstLtDescending(vals, v, inclusive) == FindFirstLeqDescending(vals, v, ~inclusive)

\* The first position that holds a value, if any.
FindValueIndex(vals, v) ==
    LET at == {k \in DOMAIN vals : vals[k] = v}
    IN IF at = {} THEN <<>> ELSE <<(CHOOSE k \in at : \A j \in at : k <= j) - 1>>

IsDescending(vals) == Len(vals) >= 2 /\ vals[1] > vals[Len(vals)]

\* [lo, hi) of the values between two bounds, on an ascending array.
RangeAscending(vals, low, high) ==
    [lo |-> CASE low = <<>> -> 0
              [] low # <<>> /\ low[2]  -> BinarySearchLowerBound(vals, low[1])
              [] OTHER -> Max2(BinarySearchLowerBound(vals, low[1]),
                               BinarySearchUpperBound(vals, low[1])),
     hi |-> CASE high = <<>> -> Len(vals)
              [] high # <<>> /\ high[2] -> BinarySearchUpperBound(vals, high[1])
              [] OTHER -> BinarySearchLowerBound(vals, high[1])]

\* Mutant: the inclusive flags of the two bounds are swapped.
RangeDescendingSwapped(vals, low, high) ==
    [lo |-> IF high = <<>> THEN 0 ELSE FindFirstLeqDescending(vals, high[1], ~high[2]),
     hi |-> IF low = <<>> THEN Len(vals) ELSE FindFirstLtDescending(vals, low[1], ~low[2])]

\* The same on a descending array: the upper bound comes first.
RangeDescending(vals, low, high) ==
    [lo |-> IF high = <<>> THEN 0 ELSE FindFirstLeqDescending(vals, high[1], high[2]),
     hi |-> IF low = <<>> THEN Len(vals) ELSE FindFirstLtDescending(vals, low[1], low[2])]

\* find_filter_range: an empty selection when nothing matches.
FindFilterRange(vals, f) ==
    LET r == IF IsDescending(vals) THEN RangeDescending(vals, f.low, f.high)
             ELSE RangeAscending(vals, f.low, f.high)
        at == FindValueIndex(vals, f.a)
    IN IF f.kind = "eq"
       THEN IF at = <<>> THEN RangeSel(0, 0) ELSE RangeSel(at[1], at[1] + 1)
       ELSE IF r.lo < r.hi THEN RangeSel(r.lo, r.hi) ELSE RangeSel(0, 0)

\* The parts find_date_part_indices computes: days of the week from Monday, and
\* no position for a field it does not know or values that are not timestamps.
FindDatePartIndices(c, field, v) ==
    LET Part(x) == IF field = "DOW" THEN x % 7 ELSE SqlDatePart(field, x)
    IN IF ~c.time \/ field \notin {"MONTH", "HOUR", "DOW"} THEN {}
       ELSE {i \in 0 .. Len(c.vals) - 1 : Part(c.vals[i + 1]) = v}

\* Mutant: the positions of an IN list stay in the order of the list.
ListPositionsUnsorted(vals, list) ==
    LET found == SelectSeq(list, LAMBDA v : FindValueIndex(vals, v) # <<>>)
    IN [k \in DOMAIN found |-> FindValueIndex(vals, found[k])[1]]

\* The positions of an IN list, sorted and without duplicates.
ListPositions(vals, list) ==
    Sorted({i \in 0 .. Len(vals) - 1 : \E k \in DOMAIN list : FindValueIndex(vals, list[k]) = <<i>>})

ResolveSingleFilter(c, f) ==
    CASE f.kind \in {"eq", "range"} -> FindFilterRange(c.vals, f)
      [] f.kind = "in"     -> IndicesSel(ListPositions(c.vals, f.a))
      [] f.kind = "part"   -> IndicesSel(Sorted(FindDatePartIndices(c, f.field, f.a)))
      [] f.kind = "partin" -> IndicesSel(Sorted(
                                 UNION {FindDatePartIndices(c, f.field, f.a[k]) : k \in DOMAIN f.a}))

\* Mutant: a list replaces the range it is intersected with.
IntersectListWins(s, t) ==
    CASE ~IsIndices(s) /\ ~IsIndices(t) -> RangeSel(Max2(s.lo, t.lo), Max2(Min2(s.hi, t.hi), Max2(s.lo, t.lo)))
      [] IsIndices(s) /\ ~IsIndices(t)  -> s
      [] OTHER -> t

\* The elements of a sequence that lie in S, in their order.
Filtered(seq, S) ==
    LET kept == Sorted({k \in DOMAIN seq : seq[k] \in S}) IN [i \in DOMAIN kept |-> seq[kept[i]]]

\* CoordSelection::intersect.
Intersect(s, t) ==
    LET start == Max2(s.lo, t.lo)
    IN CASE ~IsIndices(s) /\ ~IsIndices(t) -> RangeSel(start, Max2(Min2(s.hi, t.hi), start))
         [] IsIndices(s) /\ ~IsIndices(t)  ->
               IndicesSel(Filtered(s.idx, t.lo .. t.hi - 1))
         [] OTHER -> IndicesSel(Filtered(t.idx, Members(s)))

\* One turn of the loop of resolve_coord_selection: intersect with the next
\* filter's positions, and give up as soon as nothing is left.
ResolveNext ==
    /\ stage = "resolve"
    /\ LET one  == ResolveSingleFilter(case, Head(kinds))
           both == IF sel = <<>> THEN one ELSE Intersect(sel[1], one)
       IN /\ sel' = <<both>>
          /\ stage' = IF SelEmpty(both) THEN "nothing"
                      ELSE IF Len(kinds) = 1 THEN "selected" ELSE "resolve"
    /\ kinds' = Tail(kinds)
    /\ UNCHANGED <<case, rest, bounds>>

-----------------------------------------------------------------------------
Init ==
    /\ case \in Cases
    /\ rest = case.where
    /\ bounds = NoBounds
    /\ kinds = <<>>
    /\ sel = <<>>
    /\ stage = "parse"

Next == ExtractFilters \/ FinishParse \/ ResolveNext

Spec == Init /\ [][Next]_vars

-----------------------------------------------------------------------------
(* Properties. *)

Resolved == stage \in {"selected", "nothing"}

Chosen == IF stage = "nothing" THEN {} ELSE Members(sel[1])

\* Positions lie within the axis, ascending and distinct, as intersect,
\* split_indices and bucket_outer_indices take for granted; and a scan that is
\* not given up reads something.
PositionsAscend ==
    /\ sel # <<>> =>
          LET at == Positions(sel[1])
          IN /\ Members(sel[1]) \subseteq 0 .. Len(case.vals) - 1
             /\ \A j, k \in DOMAIN at : j < k => at[j] < at[k]
    /\ stage = "selected" => ~SelEmpty(sel[1])

\* The date parts that the reader's own table of fields gets right.
KnownField(c) == c.op \in {"part", "partin"} => c.field \in {"MONTH", "HOUR"} /\ case.time

\* No row is lost: a position whose value satisfies the WHERE clause is read,
\* however many conjuncts there are, in whatever order, on an ascending or a
\* descending axis.  Holds where no comparison is on a cast of the column.
NothingLost ==
    Resolved /\ (\A c \in Conjuncts : KnownField(c) /\ ~c.cast)
        => Matching(Conjuncts) \subseteq Chosen

\* Predicates that replace one another in PartialBounds.
Slot(c) == CASE c.op \in {">=", ">"} -> {"low"}
             [] c.op \in {"<=", "<"} -> {"high"}
             [] c.op = "between"     -> {"low", "high"}
             [] c.op \in {"=", "in"} -> {c.op}
             [] OTHER                -> {}

\* Exactly the satisfying positions are selected, where every conjunct is one
\* that is pushed down and no two fill the same slot of PartialBounds.  The
\* aggregates that count positions instead of rows rest on this.
SelectionExact ==
    /\ Resolved
    /\ \A c \in Conjuncts : KnownField(c) /\ ~c.cast /\ c.op # "or"
                            /\ (c.op \in {"in", "partin"} => c.list # <<>>)
    /\ \A j, k \in DOMAIN case.where :
          j # k => Slot(case.where[j]) \cap Slot(case.where[k]) = {}
    => Chosen = Matching(Conjuncts)

\* Date parts stay applied: a date-part equality is declared Exact, so that no
\* FilterExec repeats it, and every position read satisfies it, whatever else
\* the WHERE clause says.
DatePartsStick ==
    Resolved => LET parts == {c \in Conjuncts : c.op = "part" /\ KnownField(c)}
                IN Chosen \subseteq Matching(parts)
=============================================================================
