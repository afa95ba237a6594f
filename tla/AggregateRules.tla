--------------------------- MODULE AggregateRules ---------------------------
(***************************************************************************)
(* Aggregates over a table: the logical rules that answer COUNT, MIN and    *)
(* MAX from statistics (optimizer/count_optimization.rs and                 *)
(* minmax_optimization.rs), the physical rule that replaces an aggregate    *)
(* over a scan (optimizer/cardinality/), and the operator it puts there,    *)
(* which folds the batches of all partitions into one table of groups       *)
(* (physical_plan/zarr_aggregate.rs).                                       *)
(*                                                                          *)
(* A query is one aggregate over one scan:                                  *)
(*   coords   the values of each coordinate; its position is its axis       *)
(*   dims     the axes of the data variable, ascending                      *)
(*   meta     "full"; "nominmax": a remote store; "none": no metadata       *)
(*   aggs     the aggregates: function, column, whether the argument is the *)
(*            column, a cast of it or an expression on it, DISTINCT         *)
(*   keys     GROUP BY: a coordinate, a date part of one, or the variable   *)
(*   filter   WHERE: "none", "coord" (keep: positions left on axis 1) or    *)
(*            "value", a predicate on the data variable                     *)
(*   fetch    NoFetch, or a LIMIT in a subquery without a filter            *)
(*   union    whether the scan is one branch of a union                     *)
(*   parts    partitions of the scan                                        *)
(*   budget   ZARR_MAX_GROUPS                                               *)
(* A column is Star, Var or an axis.  The reader produces no NULLs.  A cast  *)
(* is one that DataFusion inserts (out of a dictionary, or to a wider type)  *)
(* and keeps the value.                                                     *)
(***************************************************************************)
EXTENDS Tiling

CONSTANTS
    Queries,
    BatchRows,   \* rows of a batch, at most
    Value(_)     \* the data variable: its value in a row

Star    == -1
Var     == 0
NoFetch == -1

VARIABLES
    query,
    phase,      \* "logical", "physical", "fold", and the ends "answered"
                \* (by statistics), "left" (to DataFusion), "done", "failed"
    streams,    \* rows each partition has still to produce
    partition,  \* the partition being folded
    groups,     \* the accumulators of each group, by key
    result      \* <<>>, or the rows returned

vars == <<query, phase, streams, partition, groups, result>>

-----------------------------------------------------------------------------
(* Rows. *)

Axes(q) == DOMAIN q.coords

Size(q, a) == Len(q.coords[a])

\* The columns the scan is projected to.
Columns(q) ==
    ({q.aggs[i].col : i \in DOMAIN q.aggs} \ {Star})
    \cup {q.keys[j].col : j \in DOMAIN q.keys}
    \cup (IF q.filter.form = "value" THEN {Var} ELSE {})

\* The axes a projection ranges over: those of the data variable; under a LIMIT,
\* only the coordinates named; else all.
DetermineEffectiveCoords(q) ==
    CASE Var \in Columns(q) -> ToSet(q.dims)
      [] Var \notin Columns(q) /\ Columns(q) # {} /\ q.fetch # NoFetch -> Columns(q)
      [] OTHER -> Axes(q)

\* The rows of the scan, each a position (from 1) per effective axis.  A filter
\* on a coordinate is applied by the scan.
ScanRows(q) ==
    LET E == DetermineEffectiveCoords(q)
        Kept(a) == {k \in 1 .. Size(q, a) :
                       q.filter.form = "coord" /\ a = 1 => k \in q.filter.keep}
    IN {r \in [E -> UNION {1 .. Size(q, a) : a \in E}] : \A a \in E : r[a] \in Kept(a)}

\* A predicate on the data variable.
Selected(row) == Value(row) % 2 = 0

\* DATE_PART of a timestamp, with as many values as its period.
Period == 2
DatePart(v) == v % Period

KeyOf(q, row) ==
    [j \in DOMAIN q.keys |->
        LET k == q.keys[j]
        IN CASE k.kind = "column" /\ k.col = Var -> Value(row)
             [] k.kind = "column" /\ k.col # Var -> q.coords[k.col][row[k.col]]
             [] OTHER -> DatePart(q.coords[k.col][row[k.col]])]

\* What one aggregate makes of the values of a group.  An average is the pair
\* that is divided.
Finalize(fn, acc) ==
    CASE fn = "count" -> <<acc.count>>
      [] fn = "sum"   -> IF acc.count = 0 THEN <<>> ELSE <<acc.sum>>
      [] fn = "avg"   -> IF acc.count = 0 THEN <<>> ELSE <<acc.sum, acc.count>>
      [] fn = "min"   -> acc.min
      [] fn = "max"   -> acc.max

\* A query: every column it names is one the scan ranges over.
QueryOK(q) ==
    /\ q.coords \in Seq(Seq(Int)) /\ q.coords # <<>>
    /\ q.dims \in Seq(Axes(q)) /\ q.dims # <<>>
    /\ q.meta \in {"full", "nominmax", "none"}
    /\ q.aggs \in Seq([fn : {"count", "sum", "avg", "min", "max"},
                        col : {Star, Var} \cup Axes(q),
                        arg : {"column", "cast", "expr"}, distinct : BOOLEAN])
    /\ q.keys \in Seq([kind : {"column"}, col : {Var} \cup Axes(q)]
                      \cup [kind : {"month", "year"}, col : Axes(q)])
    /\ q.filter.form \in {"none", "coord", "value"}
    /\ q.fetch \in Nat \cup {NoFetch} /\ q.union \in BOOLEAN
    /\ q.parts \in Nat \ {0} /\ q.budget \in Nat
    /\ Columns(q) \ {Var} \subseteq DetermineEffectiveCoords(q)

ASSUME QueriesOK == \A q \in Queries : QueryOK(q)

ASSUME ValuesAreNumbers == \A q \in Queries : \A r \in ScanRows(q) : Value(r) \in Int

ASSUME BatchRowsAssumption == BatchRows \in Nat

-----------------------------------------------------------------------------
(* What SQL says the query returns, over the rows the scan produces. *)

\* The sets of rows that may reach the aggregate; a LIMIT takes any rows.
Inputs(q) ==
    LET rows == {r \in ScanRows(q) : q.filter.form = "value" => Selected(r)}
    IN IF q.fetch = NoFetch THEN {rows} ELSE kSubset(Min2(q.fetch, Cardinality(rows)), rows)

ColumnValue(q, agg, r) ==
    CASE agg.col = Star -> 1
      [] agg.col = Var  -> Value(r) + (IF agg.arg = "expr" THEN 1 ELSE 0)
      [] OTHER -> q.coords[agg.col][r[agg.col]]

\* The sum of a function over its domain.
SumOver(f) ==
    LET sum[S \in SUBSET DOMAIN f] ==
            IF S = {} THEN 0 ELSE LET x == CHOOSE x \in S : TRUE IN f[x] + sum[S \ {x}]
    IN sum[DOMAIN f]

\* One aggregate over a set of rows.
Aggregated(q, agg, rows) ==
    LET Val(r) == ColumnValue(q, agg, r)
        vals == {Val(r) : r \in rows}
    IN Finalize(agg.fn,
         [count |-> IF agg.distinct THEN Cardinality(vals) ELSE Cardinality(rows),
          sum   |-> IF agg.distinct THEN SumOver([v \in vals |-> v])
                    ELSE SumOver([r \in rows |-> Val(r)]),
          min   |-> IF vals = {} THEN <<>> ELSE <<Min(vals)>>,
          max   |-> IF vals = {} THEN <<>> ELSE <<Max(vals)>>])

Meaning(q, rows) ==
    LET Of(key) == {r \in rows : KeyOf(q, r) = key}
        keys == IF q.keys = <<>> THEN {<<>>} ELSE {KeyOf(q, r) : r \in rows}
    IN {[key |-> key, vals |-> [i \in DOMAIN q.aggs |-> Aggregated(q, q.aggs[i], Of(key))]] :
            key \in keys}

\* A result the query may return.
Right(res) == \E rows \in Inputs(query) : res = Meaning(query, rows)

-----------------------------------------------------------------------------
(* Statistics. *)

\* ZarrStoreMeta.total_rows: the product of all coordinate sizes.
TotalRows(q) == Product([a \in Axes(q) |-> Size(q, a)])

\* Mutant: the filters of the TableScan are not looked at.
StatisticsApplyFiltered(q) ==
    q.meta # "none" /\ q.keys = <<>> /\ q.aggs # <<>> /\ ~q.union /\ q.fetch = NoFetch

\* The shape both rules ask for: no GROUP BY, and nothing but projections and
\* aliases above a TableScan without filters.
StatisticsApply(q) ==
    /\ q.meta # "none"
    /\ q.keys = <<>> /\ q.aggs # <<>>
    /\ ~q.union /\ q.fetch = NoFetch
    /\ q.filter.form = "none"

\* COUNT of a literal or of a column, which has no NULLs.  DISTINCT is not
\* looked at.
CountKnown(q, agg) == agg.fn = "count" /\ (agg.col = Star \/ agg.arg = "column")

\* MIN and MAX of a coordinate, or of a cast of one, whose bounds were read.
MinMaxKnown(q, agg) ==
    /\ agg.fn \in {"min", "max"} /\ agg.arg \in {"column", "cast"}
    /\ agg.col \in Axes(q) /\ q.meta = "full" /\ Size(q, agg.col) > 0

StatisticsRow(q) ==
    [key |-> <<>>,
     vals |-> [i \in DOMAIN q.aggs |->
                  LET agg == q.aggs[i]
                  IN CASE agg.fn = "count" -> <<TotalRows(q)>>
                       [] agg.fn = "min" -> <<Min(ToSet(q.coords[agg.col]))>>
                       [] agg.fn = "max" -> <<Max(ToSet(q.coords[agg.col]))>>]]

\* CountStatisticsRule and MinMaxStatisticsRule: each wants all aggregates to
\* be of its kind.
RewriteFromStatistics ==
    /\ phase = "logical"
    /\ LET known == /\ StatisticsApply(query)
                    /\ \/ \A i \in DOMAIN query.aggs : CountKnown(query, query.aggs[i])
                       \/ \A i \in DOMAIN query.aggs : MinMaxKnown(query, query.aggs[i])
       IN IF known
          THEN phase' = "answered" /\ result' = <<{StatisticsRow(query)}>>
          ELSE phase' = "physical" /\ UNCHANGED result
    /\ UNCHANGED <<query, streams, partition, groups>>

-----------------------------------------------------------------------------
(* The physical rule. *)

\* recognize, for the aggregates: bare columns, modulo casts, of the data
\* variable, or anything COUNT may count.
RecognizeAgg(q, agg) ==
    /\ ~agg.distinct
    /\ agg.fn \in {"sum", "count", "avg", "min", "max"}
    /\ agg.col = Star \/ agg.arg \in {"column", "cast"}
    /\ agg.fn = "count" \/ agg.col = Var

\* recognize, for the grouping: a coordinate or a date part with a period.
RecognizeKey(q, k) == k.col \in Axes(q) /\ k.kind \in {"column", "month"}

Recognize(q) ==
    /\ q.meta # "none" /\ q.aggs # <<>>
    /\ \A i \in DOMAIN q.aggs : RecognizeAgg(q, q.aggs[i])
    /\ \A j \in DOMAIN q.keys : RecognizeKey(q, q.keys[j])

\* Mutant: only the first key is counted.
GroupCardinalityFirstKey(q) ==
    IF q.keys = <<>> THEN 1 ELSE Size(q, q.keys[1].col)

\* group_cardinality of the whole cube: exact for coordinates, for date parts
\* bounded by the period.
GroupCardinality(q) ==
    LET Bound(k) == IF k.kind = "month" THEN Min2(Size(q, k.col), Period) ELSE Size(q, k.col)
        Keys == {q.keys[j].col : j \in DOMAIN q.keys}
    IN CASE q.keys = <<>> -> 1
         [] q.keys # <<>> /\ TotalRows(q) = 0 -> 0
         [] q.keys # <<>> /\ TotalRows(q) # 0 /\ (\A j \in DOMAIN q.keys : q.keys[j].kind = "column") ->
               Product([a \in Axes(q) |-> IF a \in Keys THEN Size(q, a) ELSE 1])
         [] OTHER -> Product([j \in DOMAIN q.keys |-> Bound(q.keys[j])])

\* The physical plan above the scan, from the top: an aggregate in one step, or
\* a final one over partial ones; a FilterExec for every filter, as filters are
\* pushed down inexactly; a LIMIT.
PhysicalPlan(q) ==
    (IF q.parts = 1 THEN <<"single">> ELSE <<"final", "coalesce", "partial">>)
    \o (IF q.filter.form = "none" THEN <<>> ELSE <<"filter">>)
    \o (IF q.fetch = NoFetch THEN <<>> ELSE <<"limit">>)
    \o (IF q.union THEN <<"union">> ELSE <<>>)

\* descend_to_zarr reaches the scan through any nodes that have one child.
DescendToZarr(plan) == \A i \in DOMAIN plan : plan[i] # "union"

\* Row r comes before row s.
RowMajorOrder(q) ==
    LET E == DetermineEffectiveCoords(q)
    IN {rs \in ScanRows(q) \X ScanRows(q) :
           \E a \in E : /\ rs[1][a] < rs[2][a]
                       /\ \A b \in E : b < a => rs[1][b] = rs[2][b]}

\* The rows of the scan by partition: blocks of the outer axis, in order.  A LIMIT
\* below the aggregate is in the scan.
ScanStreams(q) ==
    LET E == DetermineEffectiveCoords(q)
        outer == Min(E)
        Block(p) == {r \in ScanRows(q) :
                        (r[outer] * q.parts - 1) \div Size(q, outer) + 1 = p}
        Limited(s) == IF q.fetch = NoFetch THEN s ELSE SubSeq(s, 1, Min2(q.fetch, Len(s)))
    IN [p \in 1 .. q.parts |-> Limited(Ranked(Block(p), RowMajorOrder(q)))]

NewGroup(q) ==
    [i \in DOMAIN q.aggs |-> [count |-> 0, sum |-> 0, min |-> <<>>, max |-> <<>>]]

\* Mutant: a global aggregate over no rows has no group.
InitialGroupsNone(q) == [key \in {} |-> <<>>]

\* A global aggregate has its one group before any row is read.
InitialGroups(q) == [key \in (IF q.keys = <<>> THEN {<<>>} ELSE {}) |-> NewGroup(q)]

\* CardinalityRule: an aggregate of pushable shape whose groups fit becomes a
\* ZarrAggregateExec over the bare scan, in place of the whole subtree.  (The
\* memory budget that the rule stamps on other scans is in ZarrScan's Ceiling.)
Annotate ==
    /\ phase = "physical"
    /\ IF /\ DescendToZarr(PhysicalPlan(query)) /\ Recognize(query)
          /\ GroupCardinality(query) <= query.budget
       THEN /\ phase' = "fold"
            /\ streams' = ScanStreams(query)
            /\ partition' = 1
            /\ groups' = InitialGroups(query)
       ELSE phase' = "left" /\ UNCHANGED <<streams, partition, groups>>
    /\ UNCHANGED <<query, result>>

-----------------------------------------------------------------------------
(* ZarrAggregateExec. *)

Push(acc, v) ==
    [count |-> acc.count + 1,
     sum   |-> acc.sum + v,
     min   |-> IF acc.min = <<>> THEN <<v>> ELSE <<Min2(acc.min[1], v)>>,
     max   |-> IF acc.max = <<>> THEN <<v>> ELSE <<Max2(acc.max[1], v)>>]

\* One row into its group.  The column is named by the AggSpec, without a cast.
FoldCell(acc, agg, row) ==
    IF agg.fn = "count" THEN [acc EXCEPT !.count = @ + 1] ELSE Push(acc, Value(row))

FoldRow(q, table, row) ==
    LET key == KeyOf(q, row)
        group == IF key \in DOMAIN table THEN table[key] ELSE NewGroup(q)
        folded == [i \in DOMAIN group |-> FoldCell(group[i], q.aggs[i], row)]
    IN [k \in DOMAIN table \cup {key} |-> IF k = key THEN folded ELSE table[k]]

\* Rows one after the other.
FoldRows(q, table, rows) ==
    LET at[n \in 0 .. Len(rows)] == IF n = 0 THEN table ELSE FoldRow(q, at[n - 1], rows[n])
    IN at[Len(rows)]

\* The next batch of the current partition, of any size.
FoldBatch ==
    /\ phase = "fold" /\ partition <= Len(streams) /\ streams[partition] # <<>>
    /\ \E n \in 1 .. Min2(BatchRows, Len(streams[partition])) :
          /\ groups' = FoldRows(query, groups, SubSeq(streams[partition], 1, n))
          /\ streams' = [streams EXCEPT ![partition] = SubSeq(@, n + 1, Len(@))]
    /\ UNCHANGED <<query, phase, partition, result>>

\* Mutant: the partitions are stepped through in twos.
NextPartitionSkips ==
    /\ phase = "fold" /\ partition <= Len(streams) /\ streams[partition] = <<>>
    /\ partition' = partition + 2
    /\ UNCHANGED <<query, phase, streams, groups, result>>

\* The stream is at its end; the partitions are folded one after the other.
NextPartition ==
    /\ phase = "fold" /\ partition <= Len(streams) /\ streams[partition] = <<>>
    /\ partition' = partition + 1
    /\ UNCHANGED <<query, phase, streams, groups, result>>

\* A read fails: the error is returned and the groups are dropped.
StreamFails ==
    /\ phase = "fold" /\ partition <= Len(streams)
    /\ phase' = "failed"
    /\ groups' = [key \in {} |-> <<>>]
    /\ UNCHANGED <<query, streams, partition, result>>

\* One row per group.
FinalizeGroups ==
    /\ phase = "fold" /\ partition > Len(streams)
    /\ phase' = "done"
    /\ result' = <<{[key |-> key,
                     vals |-> [i \in DOMAIN query.aggs |->
                                  Finalize(query.aggs[i].fn, groups[key][i])]] :
                       key \in DOMAIN groups}>>
    /\ UNCHANGED <<query, streams, partition, groups>>

-----------------------------------------------------------------------------
Init ==
    /\ query \in Queries
    /\ phase = "logical"
    /\ streams = <<>>
    /\ partition = 0
    /\ groups = [key \in {} |-> <<>>]
    /\ result = <<>>

Next ==
    \/ RewriteFromStatistics \/ Annotate
    \/ FoldBatch \/ NextPartition \/ StreamFails \/ FinalizeGroups

Spec == Init /\ [][Next]_vars

-----------------------------------------------------------------------------
(* Properties. *)

\* The type invariant: a result is there exactly at an end that has one, and
\* then no row is left unread.
TypeOK ==
    /\ phase \in {"logical", "physical", "fold", "answered", "left", "done", "failed"}
    /\ partition \in 0 .. Len(streams) + 1
    /\ (result # <<>>) <=> phase \in {"answered", "done"}
    /\ phase = "done" => \A p \in DOMAIN streams : streams[p] = <<>>
    /\ \A key \in DOMAIN groups : Len(key) = Len(query.keys)

\* A pushed aggregate returns what the plan it replaces returns, for every
\* split into partitions and batches, groups in any order, and no rows at all:
\* where no dropped node filters, or counts rows over several partitions.
PushedExact ==
    /\ phase = "done" /\ query.filter.form # "value"
    /\ query.fetch # NoFetch => query.parts = 1
    => Right(result[1])

\* Aggregates answered from statistics agree with the scan they save: where
\* the scan would range over all coordinates, COUNT is not DISTINCT, and there
\* are rows for MIN and MAX.
StatisticsExact ==
    /\ phase = "answered"
    /\ DetermineEffectiveCoords(query) = Axes(query)
    /\ \A i \in DOMAIN query.aggs :
          IF query.aggs[i].fn = "count" THEN ~query.aggs[i].distinct ELSE TotalRows(query) # 0
    => Right(result[1])

\* The group table never outgrows the number of groups it was admitted with,
\* though filters, date parts and partitions decide which groups turn up: unless
\* the rows are those of a variable that lacks an axis without positions.
GroupsWithinBudget ==
    TotalRows(query) # 0 \/ DetermineEffectiveCoords(query) = Axes(query)
    => Cardinality(DOMAIN groups) <= query.budget

\* "DataFusion should still apply filters post-scan for correctness (in case we
\* miss any)": ZarrTable::supports_filters_pushdown.
FiltersStillApplied ==
    phase = "done" /\ query.fetch = NoFetch => Right(result[1])
=============================================================================
