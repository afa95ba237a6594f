# Verification of zarr-datafusion

zarr-datafusion lets DataFusion run SQL on Zarr stores: a store with
coordinates `time`, `lat`, `lon` and variables over them becomes a table with
one row per grid cell. The core of the program is the way from a `SELECT` to
array reads: filters become positions on the axes, the scan is cut into
partitions for threads and for worker processes, each partition walks its box of
the grid in memory-bounded tiles, and optimizer rules push limits and
aggregates into it. None of it may lose, double or mispair a cell.

Paths below are relative to the repository's `src/`.

## The system

| Component | State | Operations | Works with |
|---|---|---|---|
| partition planning, `physical_plan/partition.rs` | none (pure) | `plan_partitions`, `split_selection`, `distribute_specs_across_tasks` | table provider, distributed planning |
| table provider, `datasource/zarr.rs` | store metadata, cached async store | `scan`, `plan_scan_partitions`, `fan_out_inner`, `supports_filters_pushdown` | filters, partition planning, builds `ZarrExec` |
| coordinate filters, `reader/filter.rs` | none | expressions to filters, filters to positions, ranges to array axes | provider (outer axis), reader (other axes) |
| LIMIT rule, `optimizer/limit_pushdown.rs` | none | finds limits in a plan, rewrites its `ZarrExec`s | runs after `scan`, before execution |
| distributed planning, `distributed.rs` | none | `scale_up_leaf_node` regroups a scan's partitions per task | workers receive the plan through the codec |
| scan execution, `physical_plan/zarr_exec.rs` | partitions, limit, memory ceiling, scan cache | `execute(p)` opens the stream of a partition | reader |
| reader, `reader/zarr_reader.rs` | per stream: selections, tile grid, pending slices, rows emitted | `read_zarr[_async]`, `next_window`, `next_batch` | budget, scan cache, stores |
| streaming budget, `optimizer/cardinality/budget.rs` | none | tile sizes from a row target and the chunk grid | reader |
| scan cache, `reader/scan_cache.rs` | one cell per array and per coordinate window | `array`, `coord` | the streams of one scan, concurrently |
| statistics rules, `optimizer/{count,minmax}_optimization.rs` | none | answer COUNT, MIN, MAX from metadata | provider statistics |
| cardinality and aggregate pushdown, `optimizer/cardinality/`, `physical_plan/zarr_aggregate.rs` | groups of the running fold | bounds the groups of an aggregate, replaces it by a fold over the scan | scan execution |
| codec, `physical_plan/codec.rs` | none | `ZarrExec` to and from bytes | head and workers |
| writer, `writer/` | skeleton, chunk buffers | `COPY ... TO` a store | DataFusion sinks |
| schema inference, `reader/{schema_inference,dtype}.rs` | none | metadata of a store to coordinates, variables and a schema | registration, reader |
| coordinate encoding, CF time, `reader/{coord,cf_time}.rs` | none | values to Arrow | reader |
| virtual stores, `reader/{virtual_store,parquet_refs}.rs` | references, the object store they point into | `new_async`, `get` of a chunk key | registration, reader |
| storage back ends, `reader/{storage,icechunk_store,tracked_store,stats}.rs` | clients, byte counters | open, read, count | registration, scan execution |
| registration, `datasource/factory.rs`, `bin/head.rs` | the registered tables with the stores they keep | `CREATE EXTERNAL TABLE`, start-up of the head | stores, schema inference, provider |
| SQL functions, table functions, registries, programs | | | |

What is hard here, and what makes each part correct:

* **Partitioning.** Chunk arithmetic on three kinds of input (a whole axis, a
  range, scattered positions), a second cut along inner axes, and padding for
  tasks. Each surviving cell must be in exactly one partition, no chunk in two,
  and the count within the target.
* **Who applies a filter.** The head resolves the filter on the outer axis and
  the partitions drop it; the reader resolves the others; DataFusion re-checks
  those that were pushed down inexactly. Every predicate must be applied by
  someone in every combination, also when the head's read fails.
* **Tiling.** The rows of a window come from two computations, the coordinate
  columns and the array reads, that must enumerate the same cells in the same
  order; the LIMIT is counted across windows; all streams together share one
  memory ceiling.
* **Concurrency.** Streams are polled in any order and can be dropped at any
  await; they share coordinate reads through `OnceCell`s whose reader may fail
  or vanish.
* **Registration and reopening.** What lies at a location is found out by a
  dozen requests, and in most of them a lost answer looks like a file that is
  not there. The process that registered a table keeps the store and its
  metadata; a worker, and a local scan, find everything anew, and must see the
  same axes in the same order. A virtual store must find the one reference of a
  chunk among files that were listed, sorted or lost.
* **Plan rewriting.** A rule that sees only the shape of a plan must keep its
  result.

PROJECT.json lists these as hazards, at the lines where they bite.

## Modules

| Module | Models |
|---|---|
| `Selection` | `CoordSelection`: a range or a sorted list of positions |
| `Partition` | the pure planning functions; loops that step a cursor by a constant are in closed form |
| `ScanPlanning` | planning as steps: `PlanScanPartitions`, `PushLimitToZarr`, `ScaleUpLeafNode` |
| `Tiling` | tile plans, the tile grid, the read plans of a tile, the coordinate columns, and the rows they give |
| `ZarrScan` | extends the two above: the streams of a planned scan, the filters and the LIMIT above it |
| `TableScan` | abstract: what any scan of a table promises |
| `ScanCache` | partitions loading coordinates concurrently through the scan cache |
| `LimitPushdown` | the LIMIT rule on plan trees, with the meaning of the operators |
| `CoordFilters` | a WHERE clause to bounds, bounds to positions on one coordinate |
| `AggregateRules` | aggregates from statistics, the aggregate rule, and the fold of `ZarrAggregateExec` |
| `ZarrWriter` | `COPY ... TO`: admission, the target grid, the skeleton, the writer threads |
| `SchemaInference` | metadata documents to arrays, coordinates in order, schema |
| `VirtualRefs` | the reference files of a VirtualiZarr store, and from a chunk key to bytes |
| `Registration` | extends the two above: registration and the scans that reopen a store, with lost requests |
| `PartitionProofs` | the pure parts: sets of positions in order, cuts of an axis, tasks; then tiles, windows, reads and columns of `Tiling` |
| `...Proofs` | the theorems of `ScanPlanning`, `ZarrScan`, `LimitPushdown`, `CoordFilters`, `ScanCache`, `AggregateRules`, `ZarrWriter`, `Registration` |
| `MC...` | the instances TLC checks |

**ScanPlanning and ZarrScan.** A query is a record with the store's geometry
(axis lengths, chunk extents, variables as sequences of axes), one filter per
axis, a LIMIT, the target number of partitions and the number of tasks. A filter
is its *form*, on which the control depends (comparison, IN list, date part),
and the set of positions that satisfy it; how values are compared is not part of
these modules (`CoordFilters` has it). `phase` goes through planning, the rule and the distribution to
execution; `specs` and `scan_limit` are the fields of `ZarrExec`. Resolution of
the outer filter may end in `resolved`, `empty`, `unfiltered` or `error`,
as in the code. In execution, `streams[p]` is a `WindowedScan`: its tile grid,
rows emitted and pending rows. The code slices a window when it is built and pops
the slices; here the rows stay in one sequence and a slice of `BatchSize` rows is cut
off when it is handed on, which gives the same slices. One action opens a stream (or
panics, or ends it when a filter matches nothing), one builds a window
(`next_window`), one hands a batch on, one ends the stream, one
fails. A row is a pair: the cell its coordinate columns show and the cell its
value was read from, so a mispairing shows. DataFusion's merge, its `FilterExec`
and its limit are external and belong to `DeliverBatch` and `Finish`; `fetched`
counts the rows that the limit has let through.

**ScanCache.** A job is one coordinate of one partition. It asks for the array
metadata, then for the values (`stage`); each is a call of `get_or_try_init` on
the cell of its key. A call waits, reads, or takes the value. The reader may
fail, which fails its partition, and a partition may be dropped at any point
(LIMIT reached, query cancelled); both release the permit. The window of the
outer coordinate is part of the key.

**LimitPushdown.** A plan is a sequence of nodes with parent links: limits with
skip and fetch, filters, aggregates, unions, scans. `Optimize` rewrites it;
`Results` gives the results a plan may return.

**CoordFilters.** A case is a coordinate array, ascending or descending, and
the conjuncts on it. `ExtractFilters` takes one conjunct into `PartialBounds`,
`FinishParse` makes the list of filters, `ResolveNext` resolves the next filter
and intersects. The reference is `Matching`, the positions whose values
satisfy the conjuncts. Values are small integers, a cast is a coarser value, and
three date parts stand for a monotone, a cyclic and a wrongly counted one.

**AggregateRules.** A query is one aggregate over one scan: aggregates, keys, a
filter on the outer coordinate or on the data variable, a LIMIT below, a union,
partitions, the group budget. `RewriteFromStatistics` is the two logical rules,
`Annotate` the physical one; `PhysicalPlan` gives the nodes between aggregate
and scan. A pushed aggregate folds batch after batch, partition after partition,
into `groups`, and may fail at any read. The reference is `Meaning`, the
aggregate over the rows that reach it. An average is the pair that is divided.

**ZarrWriter.** A copy is a query (projection or GROUP BY, the positions its
filters leave, rows missing or NULL) and the chunking and partitions asked for.
`CreateWriterPhysicalPlan` admits it and fixes the target grid; `CreateSkeleton`
creates the nodes one by one; `writers[p]` is the thread of a slab of the outer
axis: it scatters its rows into a buffer and stores the variables in turn, chunk
by chunk. zarrs writes a chunk that the slab covers to its nominal extent at once
and otherwise reads, merges and writes (two steps). Input, skeleton and writers
may fail, the process may stop, and there may be an older store of the same
geometry at the target. `Join` waits for all threads and fails if one did. Slabs
come from `Partition`'s `PlanPartitions`, as in the code.

**SchemaInference and VirtualRefs** have no variables. An array is a record of
what discovery looks at (its document, shape, chunks, type, attributes, dimension
names); arrays are named by numbers, so that alphabetical order is their order.
`DiscoverArrays` is the local discovery, with every order a directory may be listed
in; `FromZmetadata`, `V2Meta` and `V3Meta` are shared with the asynchronous one.
`MatchShape` is the closed form of the greedy matching of coordinates to the axes
of a variable. In `VirtualRefs` an array has a sequence of reference files, each a
sequence of references; `Load` and `LoadAsync` differ as in the code, one sorts
the names it lists and one counts up until a file is missing.

**Registration.** `phase` is the request that is out. Each action is one probe,
open or discovery with everything the code does with the answer, and
has an alternative in which the request is lost; `lost` counts these. `table` is
what `ZarrTable` keeps: metadata, how a worker is to open the store, and whether
the store, its metadata or an adapter are kept. `StartScan` takes the branches of
`ZarrExec::execute`, in the process that registered the table or, after the trip
through the codec (`ShippedExec`), on a worker. `ReadChunk` asks for any chunk of
the table. The store itself does not change. Object stores, web servers and the
icechunk library are external: they list or do not list, and answer or do not.

## Runs

| Run | Result | What it asks |
|---|---|---|
| planning | pass | all geometries up to 5 positions, chunks up to 3, targets up to 4, tasks up to 3, and all filters on the outer axis |
| scan | pass | exact results, bounded memory and no chunk read twice, for queries over a 4 x 3 plane, a 2 x 3 x 4 cube and small mixed stores, in every order of polling |
| scan_promise | pass | the scan implements `TableScan` and ends, for small queries |
| scan_cache | pass | two partitions with different outer windows and two coordinates: safety, and nobody is left waiting |
| limit_pushdown | pass | every plan of the instance in which the limits found reach the scans |
| coord_filters | pass | up to three conjuncts of every form on ascending and descending axes |
| aggregates | pass | ten lists of aggregates by seven of keys, with filters, limits, unions, partitions and three group budgets, over a 3 x 2 grid, one with an empty axis, and variables that lack the first axis, which has positions or none |
| writer | pass | copies of a 5 x 2 and a 3 x 2 grid with ragged chunks on either axis, up to three writers, over no store or an older one; queries that are refused, and some that fail late |
| registration | pass | 41 stores (V2, V3, consolidated or not, broken, virtual, icechunk; local, on object stores that list and on web servers that do not; registered by the factory or the head), up to three lost requests, up to three scans |
| ..._finding | violation | see below |

*Bounds.* Five positions with chunks of up to three give axes with no full
chunk, a short last chunk, ranges that start and end inside chunks, and more
partitions asked for than chunks. Three tasks leave uneven groups. The plane has
two chunks on its outer axis and three on its inner one, so fan-out and a tile
grid with carries happen; `Ceiling` and `BatchSize` are small enough that one
partition needs several windows and one window several batches. In the cache the
inner coordinate is shared, so two partitions give a reader and a waiter on its
cells, and the outer windows keep two cells of the same coordinate apart; the
proofs cover any number of partitions. The axes of `coord_filters` have up to
five values, so bounds fall on, between and outside them. `Ceiling` is the
session's and `DefaultCeiling`, another one, that of workers, so that a scan
planned for one and run under the other shows.
In `registration`, `MaxFaults` = 3 allows every metadata request of the smallest
stores to be lost, and two of one scan after one of the registration;
`ProbeLimit` = 2 (5 in the code) and `MaxRefsFiles` = 3 (10000) are below the
arrays and the files that the stores have, so both limits are exceeded; one
array has twelve files of references, the least number whose order by name is
another than by number being eleven. `MaxScans` = 3 and `MaxReads` = 2 let a scan
follow a failed one and a second chunk follow a first.

*Fairness.* `ScanSpec` assumes only that the runtime keeps polling while some
stream can move (`WF_vars(Run)`), in no particular order; a failed read is never
forced. `ScanCache`'s `Spec` assumes that reads come to an end, one way or the
other, and that tokio polls a call that can go on; partitions are never forced
to fail or to be dropped. `ZarrWriter`'s assumes that the threads run
(`WF_vars(Step)`); a stop of the process is not forced. `Registration`'s assumes
that a request is answered or given up by its client; it is weak fairness of
`Request`, written out (`Waiting` infinitely often false, or `Request` infinitely
often taken), as a `Request` is possible exactly while one is out. No scan and no
read is forced.

*Deadlock.* Scans, the cache and registration stutter explicitly at their end, so TLC reports
any other state without a step. Planning, the rules, the fold, the resolution of filters and a copy
stop when they are done (`CHECK_DEADLOCK FALSE`).

*What `ResultExact` covers.* It is stated, like the other properties of the result,
for queries that meet seven conditions (`Answered`), each a named predicate:

* `OuterFilterHonoured`: the outer filter reached the reader or a `FilterExec`;
  a date part, which is declared exact, reaches neither when the head cannot read
  the outer coordinate (`datasource/zarr.rs:249`);
* `OuterIsNamed`: the outer axis is found by its name (see Proofs, *Planning*);
* `PartitionsCutProjectedAxes`: the projected variable has the partitioned axes;
  one without them is returned once per partition;
* `PartitionsReachReader`: the partitions reach the reader, which those of a remote
  virtual store do not (`virtual_partition_finding`);
* `FiltersOnProjectedAxes`: the filters are on axes of the projected variable. One on
  another axis ends the scan when nothing matches, though no row depends on it, and
  a list there makes a read per position, so that the columns differ in length or,
  below a LIMIT, are mispaired;
* `ListsOnFirstAxisOnly`: scattered positions are on the first axis of the
  projected variable (`inner_list_finding`; lists on two axes panic in
  `build_read_plans`);
* `AxesMatchCoords`: ranges are matched to array axes by their length, so axes of
  equal length must come in coordinate order.

A fifth case is an end of its own: an empty spec on an axis that is not the
variable's first (padding of uneven tasks) makes `plan_streaming` divide by
zero, and the query ends in `divided_by_zero`.

Conditions of other properties: `PushedExact` excludes a filter on values (see
`aggregate_filter_finding`) and a LIMIT below an aggregate over several
partitions, which each partition applies by itself. `StatisticsExact` excludes
variables that lack an axis (the row count is that of all coordinates),
`COUNT(DISTINCT ..)`, which the rule takes for `COUNT`, and MIN and MAX of a table
without rows, which are answered with the bounds of the coordinate and not with
NULL. `GroupsWithinBudget` excludes a variable that lacks an axis without
positions: `group_cardinality` is 0 there, and the variable has rows. FILTER clauses, nested
aggregates, renaming projections and casts that change a value are not in the
model. `ChunksReadOnce` is stated for partitions that
start on a chunk boundary, which `chunk_amplification` takes for granted and
range filters do not give, for axes with a chunk extent, and under `AxesMatchCoords`:
the tiles of a transposed variable are planned for the axes of its coordinates. `EquivalentWhenLimitsReach` excludes an OFFSET (the
rule does not add it to the limit) and limits of one branch (the rule pushes them
into the others), and a LIMIT above an aggregate or a sort, which the rule finds
wherever it stands in the plan. `NothingLost` excludes comparisons on a cast of the column,
which the extraction looks through; a literal on the left of a comparison is not
in the model, as DataFusion's simplifier puts the column first.
`DatePartsStick` is stated for the fields `find_date_part_indices` knows and
counts as `date_part` does: it counts DOW from Monday and matches no position for
fields such as SECOND or WEEK, while the provider declares all of them exact.

`ChunksOldOrNew` takes the storing of one whole chunk as one step. A process that is
killed inside the file system's write may leave a torn chunk, neither old nor new;
nothing in `writer/` writes to a temporary name first.

`CopyExact` and `CellsHaveOneRow` take axes without repeated values, as a cell is
found by value. Filters on a CF-time axis are not in the model (the writer
resolves them against raw values). Three kinds of copies are admitted and fail
only when the skeleton is there: a GROUP BY key that is not selected, a CF-time
axis (the batches hold timestamps, the axis raw numbers), and an axis that does
not ascend, which is searched by bisection and may or may not be found.

Conditions of the properties of `Registration`, each where the code does
something else that is worth knowing:

* `TableIsTheStore` is exact when nothing is lost. The asynchronous discovery
  drops an array whose document does not arrive, and an array whose attributes
  do not arrive loses the names of its dimensions and its time units; nothing is
  reported. Consolidated metadata that lists some of the arrays hides the others;
  if it lists anything, an array is a column though its own document is no JSON.
  A local store keeps scalars, all others drop them (`KeepsScalars`). A table
  without columns is refused by the factory and made by the head. That the axes
  are in order (`AxesInOrder`) is stated whatever was lost. The order is that of
  the first variable that fits, which statements of the repository
  contradict (see below).
* `ScansSeeTheTable` holds for coordinates of distinct lengths or consolidated
  metadata that lists something: with two coordinates of one length the order is
  that of the listing, which a worker does not share, and not the alphabetical
  one that the comments promise there "for stability" (see below). It holds without losses: a
  worker that misses a request may find other arrays.
* A V3 store of the instance has no file of V2, nor a V2 store one of V3
  (`StoreOK`): with both, the probes at the root decide, and the directories of the
  other version are not seen.
* `ChunkIsTheOneAsked` is stated for references that are `Addressable`. Locally
  the files are sorted by name, so that `refs.10.parq` comes before
  `refs.2.parq`; `parse_chunk_key` splits at dots only; one object store is built
  for all buckets (`OneSource`), and it is looked for in the first reference of
  each array only, though the comment there speaks of the first one that is not
  inline: references whose arrays all begin with an inline chunk get no store, and
  their objects are errors. An error is allowed if something was
  lost or the array is not `Referenced`: all files are good and, on a remote store,
  at most `MaxRefsFiles`, with a row per chunk, and the objects are there. A store of references that is read as plain Zarr gives fill
  values, not an error: when the probe for references is lost or stops before the
  first array that has some, when the head registers it, and on workers, which
  get the path and not the adapter.
* Bare `NaN` in consolidated metadata is repaired locally and by the adapter and
  refused by the plain remote discovery; the registration fails.
* A null path in a dictionary-encoded reference column reads the first value of
  the dictionary; a plain remote store with an array called `refs` or `snapshots`
  would be taken for an icechunk repository. Neither is among the stores checked.
* `QueryReportsItsBytes` is about chunk bytes. The comments in `stats.rs` and
  `icechunk_store.rs` say icechunk reads are not measured; `execute_remote` wraps
  them like any others, and the model follows it.

### Disagreements with the repository's own statements

| Run | The code |
|---|---|
| inner_list_finding | pairs coordinates with the values of other cells for an IN list on an inner axis |
| aggregate_filter_finding | drops the filter between a pushed aggregate and its scan |
| virtual_partition_finding | returns the rows of a virtual store once per partition |

Statements about the order of coordinates disagree with the code as well. They
have no run of their own: `TableIsTheStore` states, in `AxesInOrder`, what the
code does, and the registration run passes with it.

* *Alphabetical.* `README.md:95`: "Coordinates are sorted alphabetically, and
  data variable dimensions are assumed to follow this same order." So say
  `docs/design-decisions.md:30`, `cookbook/ndvi/README.md:73-74`,
  `scripts/gen_ndvi_scene.py:11-14` and the comment at
  `schema_inference.rs:170`. The code orders them by the shape of the first
  variable that fits and sorts them only if there is none. For the `Cube` of the
  run, whose axis of length 3 has the first name, alphabetical order would put the
  lengths 3, 2 under a variable of shape 2 x 3; the code puts 2, 3, as
  `schema_inference.rs:17-18` says.
* *Ambiguous sizes.* `schema_inference.rs:18-19`, `616-620`, `683-685` and
  `1295-1297`, and after them `scripts/data_gen.py:160` and
  `docs/zarr-write-roundtrip-plan.md:193-194`: an "ambiguous" mapping, "e.g.,
  multiple coordinates share the same size", falls "back to alphabetical ordering
  for stability". The code does not look for ambiguity: each dimension takes the
  first coordinate of its size that is left, in listing order, and the alphabet
  decides only if no variable fits at all. Under the shape [7, 10, 10] the two
  axes of length 10 come as listed, which `schema_inference.rs:1472-1476` expects
  ("their relative order is decided by the object store's (now lexicographic)
  listing order"). In the run this is `Square`. `fs::read_dir` promises no order,
  so that two looks at a local directory may differ: hence the condition of
  `ScansSeeTheTable`.
* *Names.* `tests/integration_writer.rs:57-60` and
  `docs/zarr-write-roundtrip-plan.md:79-80` say that the reader honours the
  `dimension_names` of V3 here. `infer_coord_order_from_data_vars` looks at
  lengths only.

## Proofs

Each theorem is for every value of the constants: any axes, chunks, stores,
queries, partitions and interleavings. PROJECT.json lists them, with the property
of a run that each one states.

| Module | Proved | From |
|---|---|---|
| `ScanCacheProofs` | type, one reader and one fill per cell, agreement of the streams, right window, complete loads | `CacheAssumption`: the outer coordinate is a coordinate, `None` no value |
| `PartitionProofs` | `plan_partitions`, `split_range`, `split_indices` cut: each position in one piece, no chunk in two, at most the target; `distribute_specs_across_tasks` gives each spec to one task; lemmas on tiles, reads and columns | lengths are natural numbers |
| `ZarrScanProofs` | planning: `fan_out_inner` cuts too, type, `EachCellInOneSpec`, `NoChunkReadTwice`, `WithinTarget`, if `OuterIsNamed`; the scan: type, `WindowsWithinCeiling`, `ChunksReadOnce`; `ResultExact`, `NothingButTheResult`, the refinement `ImplementsTableScan` and that no window panics, for `Answered` queries | `QueriesAssumption`, `BoundsAssumption` |
| `LimitPushdownProofs` | `EquivalentWhenLimitsReach`, `NothingInvented` | `NRowsAssumption`, `PlansAssumption`: a tree in preorder whose leaves are scans |
| `CoordFiltersProofs` | `PositionsAscend`, `NothingLost`, `SelectionExact`, `DatePartsStick` | `CasesAssumption`: the array ascends or descends strictly |
| `AggregateRulesProofs` | type, `GroupsWithinBudget`, `StatisticsExact`, `PushedExact` | `QueriesOK`: columns named are axes of the scan, `ValuesAreNumbers`, `BatchRowsAssumption` |
| `ZarrWriterProofs` | type, `InvalidLeavesTarget`, `ChunksOldOrNew`, `CopyExact`, `CellsHaveOneRow` | `CopiesAssumption`, `AbsentAssumption`; for the last one `AxesDistinct` |
| `RegistrationProofs` | type, `QueryReportsItsBytes`, a table never changes, `ChunkIsTheOneAsked`, `TableIsTheStore`, `ScansSeeTheTable` | `StoresAssumption`, `BoundsAssumption` |

**Scan cache.** The properties are not inductive alone: that a cell is filled once
needs that no call is reading it once it is filled, and that what a job received
is the cell's value needs that cells only move from `None` to a value. The
invariant adds these, and that a filled cell has exactly one fill. Each action
has a step, and under it one step per part that it can disturb.

**Partitioning.** A cut of a set of positions is a sequence of pieces such that
every position is in one of them and two positions of one chunk are never in two
(`CutOf`). For a range the pieces are intervals of chunk numbers. `split_indices`
is greedy; its invariant over the groups taken (`PackedTo`) is that the closed
pieces and the open one together are the groups so far, and that enough groups
are left for the pieces still owed. That this loop has a value at every turn, and
that the invariant holds at every turn, is shown by a least counterexample
(`LeastNat`), since the induction rules of the library cannot be instantiated.

**Planning.** Boxes are built axis by axis: a box has one piece of each split
axis, and their number stays within what the budget leaves (`FanOutInnerCuts`).
`SpecsCut` says that a list of specs is the product of a cut of the outer axis and
cuts of some inner ones. It survives the distribution in a weaker form, since
tasks are padded with empty specs and the order is per task: every spec keeps a
slot of its own and the other slots are empty (`Rehoused`). `PlanInv` says one or
the other by phase, and how the outer filter was resolved; the three properties
follow from it.

`OuterIsNamed` says that the coordinate `identify_outer_coord` finds is the one that
axis 0 of the first variable is named after. It is needed. The function compares
lengths (`reader/zarr_reader.rs:811`) and `fan_out_inner` compares names; for a
square variable `[y, x]` of a store that lists its coordinates `x, y`, the outer
pieces are applied to `x`, the axis that is split as inner, and one selection
replaces the other (`reader/zarr_reader.rs:803`): cells are in two partitions. TLC
shows it for two axes of length 2 with chunks of 1 and a target of 4. All queries of
`planning` satisfy the hypothesis.

**Execution.** The argument has three layers.

*One tile* (`PartitionProofs`, on `Tiling`). A row number of a tile is written in digits, one per axis,
the last axis fastest. The coordinate columns take their keys from these digits, and
an array read returns its cells in their order. So both columns list the cells
of the tile's box in row-major order, each once, and a row pairs a cell with its
own value (`TileIsRead`). For a list on the first axis the reads are one per chunk: the
groups, put together, are the list, and `apply_keep` takes from each read the blocks of
its members. For a range on the outer axis the coordinate is read in whole chunks, and the
slice is shifted by as much as the window was widened.

*One stream*. Windows cut an axis, and the cursor of the grid is a number whose
digits are the windows. What the grid has visited (`Seen`) are the cells whose windows come
before the cursor in that order; `AdvanceGrid` adds the current tile, and when the
grid is exhausted `Seen` is the whole box. A tile has at most as many rows as its
stream's share of the ceiling (`WindowsWithinCeiling`), and its extent is a whole number
of chunks (`ChunksReadOnce`).

*All streams*. The boxes of two partitions are disjoint (`BoxesDisjoint`) and
together hold every wanted cell (`BoxesCover`); both come from `PlanInv`.
`RowsInv` keeps account of every cell of an answered query. A row that was returned is
wanted, was returned once, and is from a tile that its stream has read. A wanted cell
that was read is pending or returned. A stream ends when it has read its box or met
the LIMIT, and it has not emitted more rows than it holds and the query has returned,
unless the LIMIT is met. None of this is inductive without the part on what is
pending, and the last part is what shows that a stream stopped by the LIMIT pushed
into it has not withheld a row that the query still needs. At the end nothing is
pending, so what was returned is what was wanted, or as much of it as the LIMIT
asks for (`ResultExact`). From the same invariant a step of the scan is a step of
`TableScan`: a slice handed on is an arrival, `Finish` the end, a panic or a failed read an
error, all else a stutter (`ScanIsTableScan`, under `[]Answered`).

These proofs changed the statements. `OuterIsNamed`, `FiltersOnProjectedAxes` and
`PartitionsReachReader` were not conditions of `ResultExact`, and the queries of the runs
did not show that they are needed; neither did `ChunksReadOnce` ask for
`AxesMatchCoords` and a chunk extent.

**LIMIT rule.** `Covers(A, B, n)` says that every result in A is in B, or is part of
a result in B and has at least n rows. Let n be the least limit of the plan. A scan cut
to n rows covers the scan as it was; coordinate filters, unions and larger limits
keep that up; the limit of n rows itself turns a covered result into one of the given
plan, and above it every operator, whatever it is, is monotone. This is why the rule
needs that limit above every scan: beside it, nothing cuts the other branches
down. With n = 0 the same relation gives `NothingInvented`, through filters on values
too. The results and the ancestors of nodes are recursive functions on a tree; that
they exist, and each step up the tree, is by the last node for which it fails.

**Filters.** The invariant has four parts: types (`Typed`); a value that satisfies
the conjuncts taken so far lies within the bounds (`Implied`), because a
conjunct that takes the slot of another one only widens; a conjunct is in the
bounds until another takes its slot (`Kept`); and the selection is what passes
the filters resolved so far (`Selected`). The binary searches of
`find_filter_range` are prefixes of a monotone array. That an intersection of
ranges and lists is ascending rests on facts in `PartitionProofs`: the k-th member of a
finite set is the one with k - 1 members below it.

**Writer.** Slabs are cut on chunk boundaries (`PlanPartitionsCuts`), so a chunk that
a writer touches lies wholly in its slab. Hence its cells all come from the
writer's own buffer, what it merges with has no part in the result, and it is
the only one to store it: a stored chunk is what was found or the image of all
rows. The invariant carries this through every stage of every writer, with a
failure or a stop in between. `CellsHaveOneRow` needs `AxesDistinct`: a coordinate
that repeats a value sends two rows to one cell, which `derive_write_shape`
does not exclude.

**Registration.** The invariant says in which phase there is a table and a scan,
through what they read, and that `counted` is `sent` as long as the scan is
measured. Two more layers stand on it.

*Chunks.* The number that `indices_to_flat_index` computes is the row-major rank of
a chunk: it is a number in mixed digits (`FlatIndexIs`), order of cells is order of
numbers (`FlatOrder`), every number below the product is that of a cell
(`FlatOnto`), so as many cells come before a chunk as its number says (`ChunkRank`).
What is loaded of the references of an array is how all of them begin
(`FlattenBegins`, `LoadAsyncHas`; `LoadHas` for at most ten files, whose order by
name is that by number). The source store is the bucket of every object
(`SourceServes`). Four invariants carry this through the steps: an adapter has
loaded what arrived (`AdapterOK`), it is used for the arrays it lists (`HandleOK`),
only a repository is opened as one (`RepositoryOK`), and without losses the probe
finds what it looks for (`ProbedOK`). The proof needs that an array that has objects
begins with one, which is in `Addressable`.

*Tables.* `MatchShape` gives each dimension the coordinate of its length that comes as
late among those as the dimension among those of its length (`MatchIs`), so a
matching without gaps takes each coordinate once (`MatchTakes`), and there is one if
lengths occur equally often (`MatchFinds`). Hence the coordinates are in the order
of the first variable that has their lengths (`CoordOrderIs`), whatever order the
arrays came in and whatever is known of them; `AxesInOrder` follows even after
losses. A table that nothing was lost of is one of `Tables(s)`: the cube of all
legible arrays in some order (`TablesAre`). If no two coordinates have one length
the order makes no difference (`OneCube`): variables are sorted by name, of which
there is one way (`OneOrderByName`), and lengths then fix the coordinates; with
consolidated metadata there is but one order. The invariant (`TablesOK`) says that
table and scan have one of `Tables(store)`, from which both properties follow.
These proofs, too, corrected statements: consolidated metadata matters only if it
lists an array, and it then makes columns of arrays with bad documents.

**Aggregates.** The invariant says what the table of groups is at every step: the
one of the rows already folded (`TableOf`), each accumulator the count, the sum and
the least and greatest value of the rows of its key (`Accumulated`). Those rows are
the ones the streams were to produce and no longer hold, so that nothing need be
said of batches. The sum over a set does not depend on the order its members are
taken in (`SumInsert`), hence one row more is one term more (`FoldCellAdds`,
`FoldRowAdds`), a batch its rows one by one (`FoldRowsAdds`). Row-major order is a
strict total order (`RowsOrdered`), so that the streams hold each row of the scan
once, in the block of its outer position, or, of one stream under a LIMIT, as many
as it takes (`StreamFacts`). At the end the streams hold nothing, and the table is
what `Meaning` says of the scan (`FinalizeIs`). The bound on the groups: a key over
coordinates is a choice of a value on each axis named, one with date parts a choice
per expression of at most a period of values, and such tuples are at most as many as
the product (`TuplesBound`, `GroupBound`). Statistics: over all axes there are as
many rows as the product of the sizes, and if there is one then every position of
every axis is in one (`AllRows`), so that the bounds of a coordinate are those of
the rows. The proofs found two conditions that the small grids had not shown: MIN and
MAX from statistics need a row, as the coordinate has bounds also if another axis
has no positions; and the group bound is 0 as soon as any axis has no positions,
also for a variable that lacks this axis.

The proofs asked for some changes of the model. Guards of `CASE` that could both
hold made a definition ambiguous (`ResolveNext` in `CoordFilters`, `KeyOf` and
`GroupCardinality` in `AggregateRules`); they are disjoint now. Loops are recursive
functions with a named step (`PackGroup`, `SplitAxis`, `ExtendCombos`), and
what a component takes for granted about its input is an assumption that TLC
evaluates (`QueryOK`, `CaseOK`, `CopyOK`, `StoreOK`).

What is sorted or selected (`Sorted`, `SelectAt`) is defined by rank instead of by
`SortSeq` and `SelectSeq`, which the provers cannot expand.

**Only model-checked.** Liveness and fairness (`ScanEnds`, `EveryPartitionEnds`,
`CopyEnds`, `Settles`) are outside the reach of the prover.

## Not modelled

Values: decoding, CF time, the width of dictionary keys and the value types, the guess of a time unit, the element types, codecs and
attributes of a store that is written, and the parsing of COPY's options. Literal types and the compact
coordinate encodings in the filters (the reader never produces the latter), and
`filter_satisfiable_by_bounds`, which nothing calls. Byte counts: the memory ceiling
is in rows of the projection. The set algebra behind `group_cardinality` (a pushed
aggregate only asks it for the whole cube) and the cost model, which decides
nothing yet. Metrics, display, logging. SQL functions are
floating-point formulas. The programs and registries construct objects, except
for the registration in `bin/head.rs`. Of stores, the look-up of a bucket's region
and the credentials; of the codec, how expressions and schemas are encoded (that
a worker gets the path, the kind of store and the partitions, and neither the
caches nor the session's ceiling, is in `Registration` and `ZarrScan`). A store
that changes between two queries.

## Plan

1. Done: partitioning, scan planning, tiling and streams, scan cache, LIMIT rule.
2. Done: coordinate filters.
3. Done: statistics rules, aggregate pushdown, `ZarrAggregateExec`.
4. Done: writer (skeleton, chunk buffers, partitioned sinks, a stop in between).
5. Done: virtual stores, schema inference, registration, what a worker reopens.
6. The set algebra (`ProductSet`, arithmetic progressions) against enumerated
   cells; only tests and diagnostics use it so far.
7. CF time as operators.

Proofs done: scan cache, partitioning, scan planning, execution with its refinement,
LIMIT rule, filters, writer, registration, aggregates. Left: the scan cache as an implementation of a write-once map.
