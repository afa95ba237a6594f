----------------------------- MODULE ScanPlanning -----------------------------
(***************************************************************************)
(* A table scan as the head plans it: ZarrTable::scan resolves the filter  *)
(* on the outer axis and cuts the scan into partitions, the physical       *)
(* optimizer may push a LIMIT into the plan, and the distributed planner   *)
(* may spread the partitions over worker tasks.                            *)
(*                                                                         *)
(* A query carries the geometry of the store it runs on:                   *)
(*   sizes, chunks  length and chunk extent of each coordinate axis        *)
(*   coord_chunk    chunk extent of the outer coordinate's own array       *)
(*   vars           the data variables, each the sequence of the           *)
(*                  coordinates that its dimension names give              *)
(*   var            which of them is projected                             *)
(*   filter         per axis: NoFilter, or the form of the predicate and   *)
(*                  the positions whose coordinate values satisfy it       *)
(*   limit          NoLimit or LIMIT n                                     *)
(*   limit_at       "scan": TableProvider::scan gets the limit;            *)
(*                  "rule": only ZarrLimitPushdownRule sees it             *)
(*   target         DataFusion's target_partitions                         *)
(*   tasks          worker tasks; 1 is a single process                    *)
(*   store          "zarr"; "uncached": a remote store for which no async *)
(*                  store was cached on the head; "virtual": a local       *)
(*                  VirtualiZarr store, or a store without the metadata to *)
(*                  slice it; "adapter": a remote VirtualiZarr store       *)
(***************************************************************************)
EXTENDS Partition

CONSTANTS Queries

NoFilter == [form |-> "none", keep |-> {}]
NoLimit  == -1

VARIABLES
    query,       \* the query being planned
    phase,       \* how far planning and execution have come
    resolution,  \* how the outer filter was resolved
    specs,       \* ZarrExec.partitions; <<>> is one unpartitioned read
    scan_limit   \* ZarrExec.limit

planVars == <<query, phase, resolution, specs, scan_limit>>

-----------------------------------------------------------------------------
Axes(q) == DOMAIN q.sizes

Filtered(q) == {a \in Axes(q) : q.filter[a].form # "none"}

\* A query the planner may be given: the first data variable and the projected
\* one have an axis and name each of their axes once, and a filter keeps positions
\* that exist, a comparison a stretch of them.
QueryOK(q) ==
    /\ q.sizes \in Seq(Nat) /\ q.chunks \in [Axes(q) -> Nat] /\ q.coord_chunk \in Nat
    /\ \A v \in {1, q.var} :
          /\ q.vars[v] \in Seq(Axes(q)) /\ q.vars[v] # <<>>
          /\ \A j, k \in DOMAIN q.vars[v] : q.vars[v][j] = q.vars[v][k] => j = k
    /\ \A a \in Axes(q) :
          /\ q.filter[a].form \in {"none", "span", "list", "date"}
          /\ q.filter[a].keep \subseteq 0 .. q.sizes[a] - 1
          /\ q.filter[a].form = "span" =>
                \A x, y \in q.filter[a].keep : x .. y \subseteq q.filter[a].keep
    /\ q.limit \in Nat \cup {NoLimit} /\ q.target \in Nat /\ q.tasks \in Nat

ASSUME QueriesAssumption == \A q \in Queries : QueryOK(q)

\* The coordinate that stands for the outer axis: the first one as long as
\* axis 0 of the first data variable.
IdentifyOuterCoord(q) ==
    CHOOSE a \in Axes(q) :
        /\ q.sizes[a] = q.sizes[q.vars[1][1]]
        /\ \A b \in Axes(q) : b < a => q.sizes[b] # q.sizes[q.vars[1][1]]

\* It is the coordinate that axis 0 is named after.
OuterIsNamed(q) == IdentifyOuterCoord(q) = q.vars[1][1]

\* The selection a filter resolves to: a range for comparisons, a sorted index
\* list for IN lists and date parts.  Only used when something survives.
ResolveCoordSelection(f, n) ==
    CASE f.form = "none" -> RangeSel(0, n)
      [] f.form = "span" -> RangeSel(CHOOSE x \in f.keep : \A y \in f.keep : x <= y,
                                     1 + CHOOSE x \in f.keep : \A y \in f.keep : x >= y)
      [] OTHER           -> IndicesSel(Sorted(f.keep))

\* The early returns of plan_scan_partitions: one unpartitioned read.
LimitAtScan(q) == q.limit_at = "scan" /\ q.limit # NoLimit

ReadWhole(q) == LimitAtScan(q) \/ q.store = "virtual"

\* What resolving the outer filter on the head may come to.  Reading the
\* coordinate can fail; without a cached async store it is not even tried (an
\* adapter is cached elsewhere).
ResolveOuterSelection(q) ==
    LET f == q.filter[IdentifyOuterCoord(q)]
    IN IF f.form = "none" \/ q.store \in {"uncached", "adapter"} THEN {"unfiltered"}
       ELSE {"error", IF f.keep = {} THEN "empty" ELSE "resolved"}

\* Outer-only partitions for each outcome of the resolution.
OuterSpecs(q, outcome) ==
    LET outer  == IdentifyOuterCoord(q)
        len    == q.sizes[outer]
        chunk  == q.chunks[q.vars[1][1]]
        pieces == CASE outcome = "resolved" ->
                           SplitSelection(ResolveCoordSelection(q.filter[outer], len),
                                          chunk, q.target)
                    [] outcome = "empty" -> <<RangeSel(0, 0)>>
                    [] OTHER -> PlanPartitions(len, chunk, q.target)
    IN [i \in DOMAIN pieces |-> FromOuter(pieces[i])]

\* ZarrTable::plan_scan_partitions and the ZarrExec that scan() builds.  A
\* LIMIT that scan() sees keeps the scan in one piece.
PlanScanPartitions ==
    /\ phase = "plan"
    /\ phase' = "planned"
    /\ scan_limit' = IF LimitAtScan(query) THEN query.limit ELSE NoLimit
    /\ \/ /\ ReadWhole(query)
          /\ resolution' = "skipped"
          /\ specs' = <<>>
       \/ /\ ~ReadWhole(query)
          /\ \E outcome \in ResolveOuterSelection(query) :
                /\ resolution' = outcome
                /\ specs' = FanOutInner(OuterSpecs(query, outcome), query.vars[1],
                                        query.sizes, query.chunks, Filtered(query),
                                        query.target)
    /\ UNCHANGED query

\* ZarrLimitPushdownRule: the smallest limit found in the plan replaces a
\* larger one, or none, in every ZarrExec; the partitions stay as they are.
PushLimitToZarr ==
    /\ phase = "planned"
    /\ phase' = "optimized"
    /\ scan_limit' = IF query.limit # NoLimit /\ (scan_limit = NoLimit \/ query.limit < scan_limit)
                     THEN query.limit ELSE scan_limit
    /\ UNCHANGED <<query, resolution, specs>>

\* ZarrTaskEstimator::scale_up_leaf_node.  specs becomes what the variants of
\* all tasks hold together, task after task.
ScaleUpLeafNode ==
    /\ phase = "optimized"
    /\ phase' = "scan"
    /\ specs' = IF Len(specs) < 2 \/ query.tasks <= 1 THEN specs
                ELSE FlattenRows(DistributeSpecsAcrossTasks(specs, query.tasks))
    /\ UNCHANGED <<query, resolution, scan_limit>>

PlanInit ==
    /\ query \in Queries
    /\ phase = "plan"
    /\ resolution = "skipped"
    /\ specs = <<>>
    /\ scan_limit = NoLimit

PlanNext == PlanScanPartitions \/ PushLimitToZarr \/ ScaleUpLeafNode

PlanSpec == PlanInit /\ [][PlanNext]_planVars /\ WF_planVars(PlanNext)

-----------------------------------------------------------------------------
(* Properties of the plan. *)

Planned == phase \notin {"plan"}

\* The type invariant: specs hold selections of positions that exist.
PlanTypeOK ==
    /\ query \in Queries
    /\ resolution \in {"skipped", "unfiltered", "resolved", "empty", "error"}
    /\ scan_limit \in Nat \cup {NoLimit}
    /\ \A i \in DOMAIN specs :
          /\ Members(specs[i].outer) \subseteq 0 .. query.sizes[IdentifyOuterCoord(query)] - 1
          /\ \A a \in DOMAIN specs[i].extra :
                Members(specs[i].extra[a]) \subseteq 0 .. query.sizes[a] - 1

\* The outer positions the partitions have to cover between them.
ToCover(q, res) ==
    IF res \in {"resolved", "empty"} THEN q.filter[IdentifyOuterCoord(q)].keep
    ELSE 0 .. q.sizes[IdentifyOuterCoord(q)] - 1

\* Positions of axis a that spec i reads, an inner axis it does not restrict
\* being read whole.
SpecOn(spec, q, a) ==
    IF a \in DOMAIN spec.extra THEN Members(spec.extra[a])
    ELSE IF a = IdentifyOuterCoord(q) THEN Members(spec.outer)
    ELSE 0 .. q.sizes[a] - 1

\* The pieces are disjoint and their union is the surviving set (the contract
\* of split_selection, kept by fan_out_inner's boxes and by the padding of
\* distribute_specs_across_tasks): each surviving cell is in exactly one
\* partition and a filtered-out outer position is in none.
EachCellInOneSpec ==
    Planned /\ specs # <<>> =>
        \A cell \in [Axes(query) -> UNION {0 .. query.sizes[a] - 1 : a \in Axes(query)}] :
            (\A a \in Axes(query) : cell[a] < query.sizes[a]) =>
                Cardinality({i \in DOMAIN specs :
                                \A a \in Axes(query) : cell[a] \in SpecOn(specs[i], query, a)})
                = IF cell[IdentifyOuterCoord(query)] \in ToCover(query, resolution) THEN 1 ELSE 0

\* Chunk numbers that spec i touches on axis a.
ChunksOn(spec, q, a) ==
    {x \div Max2(1, q.chunks[a]) : x \in SpecOn(spec, q, a)}

\* No chunk is read by two partitions ("never splitting a chunk across
\* partitions"): two non-empty specs are disjoint, chunk-wise, on some axis.
\* An axis of unknown chunking (chunk 0) is one chunk per position.
NoChunkReadTwice ==
    \A i, j \in DOMAIN specs :
        i < j /\ ~SpecEmpty(specs[i]) /\ ~SpecEmpty(specs[j]) =>
            \E a \in Axes(query) :
                ChunksOn(specs[i], query, a) \cap ChunksOn(specs[j], query, a) = {}

\* Fan-out never exceeds the parallelism DataFusion asked for, and a scan that
\* has work is not reduced to empty partitions.
WithinTarget ==
    Planned /\ specs # <<>> =>
        LET work == {i \in DOMAIN specs : ~SpecEmpty(specs[i])}
        IN /\ Cardinality(work) <= Max2(1, query.target)
           /\ work = {} => ToCover(query, resolution) = {}
=============================================================================
