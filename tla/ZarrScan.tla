------------------------------ MODULE ZarrScan ------------------------------
(***************************************************************************)
(* A planned scan being executed: each output partition is a stream that   *)
(* resolves its selection, walks its tiles and hands batches to the rest   *)
(* of the plan, which merges the streams, keeps the FilterExec for filters *)
(* that were only pushed down inexactly, and stops at the LIMIT.  Streams  *)
(* are polled in any order.                                                *)
(*                                                                         *)
(* A delivered row is <<coords, cell>>: the grid position its coordinate   *)
(* columns show and the grid position its value was read from, both on the *)
(* axes of the projected variable.                                         *)
(***************************************************************************)
EXTENDS ScanPlanning, Tiling, Bags

CONSTANTS
    BatchSize,       \* DataFusion's batch_size, in rows
    Ceiling,         \* the scan-wide memory ceiling, in rows of the projection
    DefaultCeiling   \* the one of a scan that was given none

ASSUME BoundsAssumption == BatchSize \in Nat /\ Ceiling \in Nat /\ DefaultCeiling \in Nat

VARIABLES
    streams,    \* per partition: the state of its WindowedScan
    fetched,    \* how many rows the LIMIT above the scan has let through
    delivered   \* bag of the rows the query has returned

execVars == <<streams, fetched, delivered>>
vars == <<planVars, execVars>>

-----------------------------------------------------------------------------
(* What one partition reads. *)

Dims(q) == q.vars[q.var]

NPartitions == Max2(1, Len(specs))

Distributed == Len(specs) >= 2 /\ query.tasks > 1

\* The partitions of the ZarrExec that partition p belongs to: a task's share
\* once the scan is spread over worker tasks.
ExecPartitions == IF Distributed THEN Len(specs) \div query.tasks ELSE NPartitions

\* The ceiling given to the scan does not travel to the workers.
ScanCeiling == IF Distributed THEN DefaultCeiling ELSE Ceiling

\* The specs that reach the reader: an adapter is read without them.
ReaderSpecs == IF query.store = "adapter" THEN <<>> ELSE specs

\* Axes whose filter the reader resolves itself: all but the outer one when
\* the partition supplies the outer selection (filters_without_outer).
ReaderFilters == Filtered(query) \
                 (IF ReaderSpecs = <<>> THEN {} ELSE {IdentifyOuterCoord(query)})

\* A filter that matches nothing ends the read before any tile.
MatchesNothing == \E a \in ReaderFilters : query.filter[a].keep = {}

\* The selection on each axis after apply_partition_selection: the partition
\* replaces the outer selection and the axes of its box.
ReaderSelection(p, a) ==
    IF ReaderSpecs # <<>> /\ a \in DOMAIN specs[p].extra THEN specs[p].extra[a]
    ELSE IF ReaderSpecs # <<>> /\ a = IdentifyOuterCoord(query) THEN specs[p].outer
    ELSE IF a \in ReaderFilters THEN ResolveCoordSelection(query.filter[a], query.sizes[a])
    ELSE RangeSel(0, query.sizes[a])

CoordRanges(p) == [a \in Axes(query) |-> ReaderSelection(p, a)]

\* On the coordinates of the projected variable, in its own axis order.
EffectiveSels(p) == [j \in DOMAIN Dims(query) |-> CoordRanges(p)[Dims(query)[j]]]

\* Their lengths; in coordinate order when the variable has them all.
QuerySizes(p) ==
    LET Coord(j) == IF Len(Dims(query)) < Len(query.sizes) THEN Dims(query)[j] ELSE j
    IN [j \in DOMAIN Dims(query) |-> SelLen(CoordRanges(p)[Coord(j)])]

Shape(q) == [j \in DOMAIN Dims(q) |-> q.sizes[Dims(q)[j]]]

VarChunks(q) == [j \in DOMAIN Dims(q) |-> q.chunks[Dims(q)[j]]]

\* chunk_alignment of the one projected variable, capped at the axis.
Alignment(p) == [j \in DOMAIN Dims(query) |->
                    Min2(Max2(1, VarChunks(query)[j]), Max2(1, QuerySizes(p)[j]))]

\* Mutant: the ceiling is not shared between the partitions.
WindowTargetUnshared == Max2(ScanCeiling, BatchSize)

\* Rows a window may hold: this partition's share of the ceiling, at least a
\* batch.
WindowTarget == Max2(ScanCeiling \div ExecPartitions, BatchSize)

WindowTiles(p) == PlanStreamingChunked(QuerySizes(p), WindowTarget, Alignment(p))

\* plan_streaming divides by the row count of the axes inside the pivot.
PlanDividesByZero(p) ==
    ProductAfter(QuerySizes(p), Pivot(QuerySizes(p), Max2(1, WindowTarget))) = 0

-----------------------------------------------------------------------------
(* Execution. *)

Closed == [state |-> "closed", grid |-> <<>>, emitted |-> 0, pending |-> <<>>]

ScanInit ==
    /\ PlanInit
    /\ streams = <<>>
    /\ fetched = 0
    /\ delivered = EmptyBag

Planning ==
    /\ PlanScanPartitions \/ PushLimitToZarr
    /\ UNCHANGED execVars

\* ZarrExec::execute is called once per output partition.
Execute ==
    /\ ScaleUpLeafNode
    /\ streams' = [p \in 1 .. Max2(1, Len(specs')) |-> Closed]
    /\ UNCHANGED <<fetched, delivered>>

\* read_zarr / read_zarr_async up to the tile grid.  A filter without matches
\* ends the stream before any tile.
OpenEmpty(p) ==
    /\ phase = "scan" /\ streams[p].state = "closed"
    /\ MatchesNothing
    /\ streams' = [streams EXCEPT ![p].state = "done"]
    /\ UNCHANGED <<planVars, fetched, delivered>>

\* The tile grid is laid out.  It is kept even when there is a single tile:
\* the rows are the same.
OpenTiles(p) ==
    /\ phase = "scan" /\ streams[p].state = "closed"
    /\ ~MatchesNothing /\ ~PlanDividesByZero(p)
    /\ streams' = [streams EXCEPT ![p].state = "open",
                                  ![p].grid = TileGrid(EffectiveSels(p), WindowTiles(p))]
    /\ UNCHANGED <<planVars, fetched, delivered>>

OpenPanics(p) ==
    /\ phase = "scan" /\ streams[p].state = "closed"
    /\ ~MatchesNothing /\ PlanDividesByZero(p)
    /\ phase' = "divided_by_zero"
    /\ UNCHANGED <<query, resolution, specs, scan_limit, execVars>>

\* The selections of all coordinates with those of the current tile put in.
TileSels(p) ==
    LET tile == CurrentTile(streams[p].grid)
    IN [a \in Axes(query) |->
            IF \E j \in DOMAIN tile : Dims(query)[j] = a
            THEN tile[CHOOSE j \in DOMAIN tile : Dims(query)[j] = a].sel ELSE CoordRanges(p)[a]]

\* The coordinate values extracted on each axis, by their positions.  Of the
\* outer coordinate a partition has read only the chunks that hold its slice.
FilteredCoords(p) ==
    [j \in DOMAIN Dims(query) |->
        IF ReaderSpecs # <<>> /\ Dims(query)[j] = IdentifyOuterCoord(query)
        THEN ReadOuterCoord(specs[p].outer, query.coord_chunk, query.sizes[Dims(query)[j]])
        ELSE LET n == query.sizes[Dims(query)[j]]
             IN ExtractFiltered([k \in 1 .. n |-> k - 1], EffectiveSels(p)[j])]

\* The columns of the tile the grid stands on.
TileCoords(p) == CoordRows(FilteredCoords(p), CurrentTile(streams[p].grid))

TileValues(p) == ReadValues(TileSels(p), query.sizes, Shape(query), VarChunks(query))

\* Rows of the tile, cut to the rows the LIMIT still owes.
TileRows(p) ==
    LET coords == TileCoords(p)
        cells  == TileValues(p)
        owed   == IF scan_limit = NoLimit THEN Len(coords)
                  ELSE Min2(scan_limit - streams[p].emitted, Len(coords))
    IN [k \in 1 .. owed |-> <<coords[k], cells[k]>>]

\* RecordBatch::try_new rejects columns of different lengths; with a LIMIT both
\* are cut to the same one.
ColumnsFit(p) == scan_limit # NoLimit \/ Len(TileCoords(p)) = Len(TileValues(p))

LimitReached(s) == scan_limit # NoLimit /\ s.emitted >= scan_limit

\* next_batch has nothing pending.
NeedsWindow(p) == phase = "scan" /\ streams[p].state = "open" /\ streams[p].pending = <<>>

\* Mutant: an exhausted grid does not end the stream.
EndStreamAtLimit(p) ==
    /\ NeedsWindow(p)
    /\ LimitReached(streams[p])
    /\ streams' = [streams EXCEPT ![p].state = "done"]
    /\ UNCHANGED <<planVars, fetched, delivered>>

\* The LIMIT is met or the grid exhausted: the stream ends.
EndStream(p) ==
    /\ NeedsWindow(p)
    /\ LimitReached(streams[p]) \/ streams[p].grid.done
    /\ streams' = [streams EXCEPT ![p].state = "done"]
    /\ UNCHANGED <<planVars, fetched, delivered>>

\* There is a window to build.
HasWindow(p) == NeedsWindow(p) /\ ~LimitReached(streams[p]) /\ ~streams[p].grid.done

\* Build the next window and queue its rows.
NextWindow(p) ==
    LET rows == TileRows(p)
    IN /\ HasWindow(p)
       /\ ~ReadPanics(TileSels(p)) /\ ColumnsFit(p)
       /\ streams' = [streams EXCEPT
                         ![p].grid = AdvanceGrid(@),
                         ![p].emitted = @ + Len(rows),
                         ![p].pending = rows]
       /\ UNCHANGED <<planVars, fetched, delivered>>

\* Building it panics when two coordinates are scattered, and fails when the
\* columns differ in length.
WindowPanics(p) ==
    /\ HasWindow(p)
    /\ ReadPanics(TileSels(p))
    /\ phase' = "unexpanded"
    /\ UNCHANGED <<query, resolution, specs, scan_limit, execVars>>

WindowFails(p) ==
    /\ HasWindow(p)
    /\ ~ReadPanics(TileSels(p)) /\ ~ColumnsFit(p)
    /\ phase' = "failed"
    /\ UNCHANGED <<query, resolution, specs, scan_limit, execVars>>

\* supports_filters_pushdown: only date-part equality is pushed down exactly,
\* so DataFusion keeps a FilterExec for every other filter.
PassesFilterExec(row) ==
    \A j \in DOMAIN Dims(query) :
        LET f == query.filter[Dims(query)[j]]
        IN f.form \in {"span", "list"} => row[1][j] \in f.keep

\* The rows of a batch that pass, in order.
FilterBatch(rows) ==
    LET kept == Sorted({k \in DOMAIN rows : PassesFilterExec(rows[k])})
    IN [i \in DOMAIN kept |-> rows[kept[i]]]

\* The LIMIT above the scan has all its rows.
FetchDone == query.limit # NoLimit /\ fetched >= query.limit

\* The rows of a batch that the LIMIT still lets through.
Fetch(rows) ==
    IF query.limit = NoLimit THEN rows
    ELSE SubSeq(rows, 1, Min2(query.limit - fetched, Len(rows)))

\* The rows of a sequence as a bag.
BagOf(rows) ==
    [r \in {rows[k] : k \in DOMAIN rows} |-> Cardinality({k \in DOMAIN rows : rows[k] = r})]

\* next_batch with rows pending: the next slice is popped and flows through the
\* FilterExec and the merge to the LIMIT.
DeliverBatch(p) ==
    LET rows == streams[p].pending
        n    == SliceToBatchSize(rows, BatchSize)
        out  == Fetch(FilterBatch(SubSeq(rows, 1, n)))
    IN /\ phase = "scan" /\ streams[p].state = "open" /\ rows # <<>>
       /\ ~FetchDone
       /\ streams' = [streams EXCEPT ![p].pending = SubSeq(rows, n + 1, Len(rows))]
       /\ fetched' = fetched + Len(out)
       /\ delivered' = delivered (+) BagOf(out)
       /\ UNCHANGED planVars

\* A store read fails and the query with it.
StreamFails(p) ==
    /\ phase = "scan" /\ streams[p].state # "done"
    /\ phase' = "failed"
    /\ UNCHANGED <<query, resolution, specs, scan_limit, execVars>>

\* The merge has drained every stream, or has all the rows it was asked for.
Finish ==
    /\ phase = "scan"
    /\ (\A p \in DOMAIN streams : streams[p].state = "done") \/ FetchDone
    /\ phase' = "done"
    /\ UNCHANGED <<query, resolution, specs, scan_limit, execVars>>

PollStream(p) ==
    \/ EndStream(p) \/ DeliverBatch(p)
    \/ OpenEmpty(p) \/ OpenTiles(p) \/ OpenPanics(p)
    \/ NextWindow(p) \/ WindowPanics(p) \/ WindowFails(p)

Ended == phase \in {"done", "failed", "divided_by_zero", "unexpanded"}

Terminated == Ended /\ UNCHANGED vars

\* What the runtime does as long as no store read fails.
Run ==
    \/ Planning \/ Execute \/ Finish
    \/ \E p \in DOMAIN streams : PollStream(p)

ScanNext ==
    \/ Run \/ Terminated
    \/ \E p \in DOMAIN streams : StreamFails(p)

ScanSafety == ScanInit /\ [][ScanNext]_vars

\* Fairness: the runtime keeps polling while there is something to run.  No
\* order among the streams is assumed.
ScanSpec == ScanSafety /\ WF_vars(Run)

-----------------------------------------------------------------------------
(* Properties. *)

\* The type invariant.
ScanTypeOK ==
    /\ PlanTypeOK
    /\ Ended \/ phase \in {"plan", "planned", "optimized", "scan"}
    /\ \A p \in DOMAIN streams :
          /\ streams[p].state \in {"closed", "open", "done"}
          /\ streams[p].emitted \in Nat
    /\ fetched \in Nat /\ IsABag(delivered)

\* The rows the query asks for: the cells of the projected variable's grid
\* that satisfy every filter, each with the value stored there.
Wanted(q) ==
    LET dims == Dims(q)
        pos  == UNION {0 .. q.sizes[a] - 1 : a \in Axes(q)}
        Sat(cell, j) == /\ cell[j] < q.sizes[dims[j]]
                        /\ dims[j] \in Filtered(q) => cell[j] \in q.filter[dims[j]].keep
    IN {<<cell, cell>> : cell \in {c \in [DOMAIN dims -> pos] : \A j \in DOMAIN dims : Sat(c, j)}}

\* The outer filter takes effect: the head resolved it, or the FilterExec that
\* DataFusion keeps for an inexact filter sees all the rows.
OuterFilterHonoured ==
    LET f == query.filter[IdentifyOuterCoord(query)]
    IN f.form # "none" /\ resolution \in {"error", "unfiltered"}
           => f.form # "date" /\ query.limit = NoLimit

\* The filters are on axes that the projected variable has.
FiltersOnProjectedAxes ==
    Filtered(query) \subseteq {Dims(query)[j] : j \in DOMAIN Dims(query)}

\* The partitions cut axes that the projected variable has.
PartitionsCutProjectedAxes ==
    \A i \in DOMAIN specs :
        ({IdentifyOuterCoord(query)} \cup DOMAIN specs[i].extra)
            \subseteq {Dims(query)[j] : j \in DOMAIN Dims(query)}

\* Only the first axis of the projected variable is filtered by a list.
ListsOnFirstAxisOnly ==
    \A j \in DOMAIN Dims(query) :
        j > 1 => query.filter[Dims(query)[j]].form \in {"none", "span"}

\* The reader's ranges go to the axes that carry the coordinates.
AxesMatchCoords ==
    \A k \in DOMAIN Dims(query) : CoordOfAxis(query.sizes, Shape(query), k) = Dims(query)[k]

\* The streams read what the partitions hold.
PartitionsReachReader == Len(specs) <= 1 \/ ReaderSpecs = specs

\* The queries the reader answers.
Answered == /\ OuterFilterHonoured /\ OuterIsNamed(query)
            /\ PartitionsCutProjectedAxes /\ PartitionsReachReader
            /\ FiltersOnProjectedAxes /\ ListsOnFirstAxisOnly /\ AxesMatchCoords

\* However the scan is cut into partitions, boxes, tasks, tiles and batches
\* and in whatever order the streams are polled, a finished query returned the
\* rows it asked for, each once; with a LIMIT, that many of them.
ResultExact ==
    phase = "done" /\ Answered =>
        LET want == SetToBag(Wanted(query))
        IN IF query.limit = NoLimit THEN delivered = want
           ELSE /\ delivered \sqsubseteq want
                /\ Cardinality(BagToSet(delivered)) = Min2(query.limit, Cardinality(Wanted(query)))

\* At no time has a row been returned that is not in the result, been returned
\* twice, or been paired with a value of another cell.
NothingButTheResult ==
    Answered /\ phase # "plan" => delivered \sqsubseteq SetToBag(Wanted(query))

\* The read windows held at one time, over the partitions of one process, stay
\* within its memory ceiling - the scan's, or on a worker the default - or within
\* a batch per partition where the ceiling is smaller (resolve_scan_ceiling,
\* plan_streaming_chunked, scale_up_leaf_node).
WindowsWithinCeiling ==
    LET Held(t) == [i \in 1 .. ExecPartitions |-> Len(streams[t * ExecPartitions + i].pending)]
    IN streams # <<>> =>
         \A t \in 0 .. (IF Distributed THEN query.tasks ELSE 1) - 1 :
            Total(Held(t)) <= Max2(ScanCeiling, ExecPartitions * Max2(1, BatchSize))

\* A partition reads no chunk twice: where its slice starts on a chunk boundary
\* and a tile holds at least a chunk, each chunk of the axis falls into one tile
\* (the reason why plan_streaming_chunked rounds tiles down to whole chunks).
\* The chunking has to be known, and the tiles planned for the axes they cut:
\* the sizes are those of the coordinates in their own order.
ChunksReadOnce ==
    AxesMatchCoords => \A p \in DOMAIN streams : streams[p].state = "open" =>
        \A j \in DOMAIN Dims(query) :
            LET sel   == EffectiveSels(p)[j]
                chunk == VarChunks(query)[j]
                tile  == WindowTiles(p)[j]
            IN /\ ~IsIndices(sel) /\ SelLen(sel) > 0
               /\ chunk > 0 /\ sel.lo % chunk = 0
               /\ tile >= Min2(chunk, SelLen(sel))
               => TileChunkPairs(SelLen(sel), tile, chunk) = DivCeil(SelLen(sel), chunk)

\* Every query ends.
ScanEnds == <>Ended

\* The scan keeps the promise of TableScan.
Promise == INSTANCE TableScan WITH
    want   <- Wanted(query),
    fetch  <- query.limit,
    sent   <- delivered,
    status <- CASE phase = "done" -> "done"
                [] phase \in {"failed", "divided_by_zero", "unexpanded"} -> "error"
                [] OTHER -> "running"

\* Partitioned, tiled and merged, a scan is still a scan of the table.
ImplementsTableScan == Promise!TSSpec

-----------------------------------------------------------------------------
(* What comments and documents of the repository say, and the code does not do. *)

\* "VirtualiZarr stays single-partition for now (scan() doesn't partition it)":
\* zarr_exec.rs.  A row of a VirtualiZarr store is returned once.
VirtualRowsOnce ==
    query.store \in {"virtual", "adapter"} =>
        \A row \in BagToSet(delivered) : delivered[row] = 1

\* A row pairs the coordinates of a cell with the value of that cell ("one row
\* per grid cell", design-decisions.md), whatever axis an IN list filters.
RowIsOneGridCell ==
    AxesMatchCoords => \A row \in BagToSet(delivered) : row[1] = row[2]
=============================================================================
