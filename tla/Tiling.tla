------------------------------- MODULE Tiling -------------------------------
(***************************************************************************)
(* How one partition reads its selection: the budget picks a tile per axis *)
(* (optimizer/cardinality/budget.rs), TileGrid walks the tiles with an     *)
(* odometer, and build_read_plans turns the selection of a tile into reads *)
(* of the data variable (reader/zarr_reader.rs).                           *)
(***************************************************************************)
EXTENDS Partition, SequencesExt

\* Product of the entries after position i, from the last one on.
ProductAfter(s, i) ==
    LET prod[k \in 0 .. Len(s)] == IF k = 0 THEN 1 ELSE s[Len(s) + 1 - k] * prod[k - 1]
    IN prod[Len(s) - i]

Product(s) == ProductAfter(s, 0)

\* The sum of a sequence.
Total(s) ==
    LET sum[k \in 0 .. Len(s)] == IF k = 0 THEN 0 ELSE sum[k - 1] + s[k]
    IN sum[Len(s)]

-----------------------------------------------------------------------------
(* The streaming plan. *)

\* The first axis whose deeper axes fit the target whole.
Pivot(sizes, target) ==
    CHOOSE i \in DOMAIN sizes :
        /\ ProductAfter(sizes, i) <= target
        /\ \A j \in 1 .. i - 1 : ProductAfter(sizes, j) > target

PlanStreaming(sizes, target_rows) ==
    LET target == Max2(1, target_rows)
        pivot  == Pivot(sizes, target)
    IN [i \in DOMAIN sizes |->
            CASE i < pivot -> 1
              [] i = pivot -> Min2(Max2(1, target \div ProductAfter(sizes, i)), sizes[i])
              [] OTHER     -> sizes[i]]

\* Mutant: the tiles are not aligned with the chunks.
PlanStreamingUnaligned(sizes, target_rows, chunks) == PlanStreaming(sizes, target_rows)

\* Round the one partly tiled axis down to whole chunk rows, when it holds one.
PlanStreamingChunked(sizes, target_rows, chunks) ==
    LET tiles == PlanStreaming(sizes, target_rows)
    IN [i \in DOMAIN sizes |->
            IF tiles[i] >= sizes[i] \/ tiles[i] <= 1 \/ chunks[i] <= 1 \/ tiles[i] < chunks[i]
            THEN tiles[i]
            ELSE Min2((tiles[i] \div chunks[i]) * chunks[i], sizes[i])]

\* The number of (tile, chunk) pairs that overlap on an axis: the chunk reads
\* the axis costs.
TileChunkPairs(size, tile, chunk) ==
    LET Pairs(t) == LET start == (t - 1) * tile
                        end   == Min2(start + tile, size)
                    IN DivCeil(end, chunk) - start \div chunk
    IN Total([t \in 1 .. DivCeil(size, tile) |-> Pairs(t)])

-----------------------------------------------------------------------------
(* The tile grid. *)

\* Mutant: the last window of an axis is dropped.
WindowOuterSelectionShort(sel, tile) ==
    LET n    == SelLen(sel)
        step == Max2(1, tile)
        Upto(w) == Min2(w * step, n)
    IN IF n <= step THEN <<sel>>
       ELSE [w \in 1 .. (n - 1) \div step |->
                IF IsIndices(sel) THEN IndicesSel(SubSeq(sel.idx, (w - 1) * step + 1, Upto(w)))
                ELSE RangeSel(sel.lo + (w - 1) * step, sel.lo + Upto(w))]

\* The windows of one axis: at most tile surviving positions each, in order.
\* An empty selection has one empty window.
WindowOuterSelection(sel, tile) ==
    LET n    == SelLen(sel)
        step == Max2(1, tile)
        Upto(w) == Min2(w * step, n)
    IN IF n = 0 THEN <<sel>>
       ELSE [w \in 1 .. DivCeil(n, step) |->
                IF IsIndices(sel) THEN IndicesSel(SubSeq(sel.idx, (w - 1) * step + 1, Upto(w)))
                ELSE RangeSel(sel.lo + (w - 1) * step, sel.lo + Upto(w))]

\* The windows with their offsets among the surviving positions: every window
\* before the last one is full.
AxisWindows(sel, tile) ==
    LET windows == WindowOuterSelection(sel, tile)
    IN [w \in DOMAIN windows |-> [sel |-> windows[w], offset |-> (w - 1) * Max2(1, tile)]]

TileGrid(sels, tiles) ==
    [per_axis |-> [a \in DOMAIN sels |-> AxisWindows(sels[a], tiles[a])],
     cursor   |-> [a \in DOMAIN sels |-> 1],
     done     |-> FALSE]

\* The current tile: one window per axis.
CurrentTile(grid) == [a \in DOMAIN grid.cursor |-> grid.per_axis[a][grid.cursor[a]]]

\* Mutant: the innermost axis does not carry into the others.
AdvanceGridNoCarry(grid) ==
    LET last == Len(grid.cursor)
    IN IF grid.cursor[last] < Len(grid.per_axis[last])
       THEN [grid EXCEPT !.cursor[last] = @ + 1]
       ELSE [grid EXCEPT !.done = TRUE]

\* The odometer: the innermost axis that is not on its last window advances,
\* the axes inside it start over; when there is none the grid is exhausted.
AdvanceGrid(grid) ==
    LET open == {a \in DOMAIN grid.cursor : grid.cursor[a] < Len(grid.per_axis[a])}
        turn == CHOOSE a \in open : \A b \in open : b <= a
    IN IF open = {}
       THEN [grid EXCEPT !.done = TRUE, !.cursor = [a \in DOMAIN @ |-> 1]]
       ELSE [grid EXCEPT !.cursor = [a \in DOMAIN @ |->
                CASE a < turn -> @[a] [] a = turn -> @[a] + 1 [] OTHER -> 1]]

-----------------------------------------------------------------------------
(* Reads of a data variable. *)

\* The cells of a box in the order an array read returns them, the last axis
\* fastest.  box gives the positions on each axis.
RowMajor(box) ==
    LET sizes == [a \in DOMAIN box |-> Len(box[a])]
    IN [k \in 1 .. Product(sizes) |->
            [a \in DOMAIN box |->
                box[a][(((k - 1) \div ProductAfter(sizes, a)) % sizes[a]) + 1]]]

\* Group sorted outer indices by chunk: one tight window per occupied chunk,
\* and the offsets of the survivors in it.
BucketOuterIndices(indices, chunk) ==
    LET runs == ChunkGroups(indices, chunk)
    IN [b \in DOMAIN runs |->
            [start   |-> runs[b][1],
             end     |-> runs[b][Len(runs[b])] + 1,
             offsets |-> [k \in DOMAIN runs[b] |-> runs[b][k] - runs[b][1]]]]

\* The first coordinate with scattered positions; 0 when there is none.
IndicesPos(sels) ==
    LET ps == {a \in DOMAIN sels : IsIndices(sels[a])}
    IN IF ps = {} THEN 0 ELSE CHOOSE a \in ps : \A b \in ps : a <= b

\* match_ranges_to_data_var refuses a selection that is still a list: it
\* panics when a second coordinate is scattered too.
ReadPanics(sels) ==
    \E a \in DOMAIN sels : a # IndicesPos(sels) /\ IsIndices(sels[a])

\* The coordinate whose range is read on array axis k of a variable: the k-th
\* when the variable has as many axes as there are coordinates, otherwise the
\* first one of the axis's length.
CoordOfAxis(coord_sizes, shape, k) ==
    IF Len(shape) = Len(coord_sizes) THEN k
    ELSE CHOOSE c \in DOMAIN coord_sizes :
            /\ coord_sizes[c] = shape[k]
            /\ \A d \in 1 .. c - 1 : coord_sizes[d] # shape[k]

MatchRangesToDataVar(coord_sizes, sels, shape) ==
    [k \in DOMAIN shape |-> sels[CoordOfAxis(coord_sizes, shape, k)]]

\* The scattered coordinate is as long as the variable's first axis, and that
\* axis has real chunks: its positions are read chunk by chunk.
Bucketed(sels, coord_sizes, shape, chunks) ==
    LET pos == IndicesPos(sels)
    IN coord_sizes[pos] = shape[1] /\ chunks[1] > 1 /\ sels[pos].idx # <<>>

\* The reads for one tile, from the selections of all coordinates.  A plan is
\* the ranges to read, and how many outer steps they span with the offsets
\* kept of them (all of them when <<>>).
BuildReadPlans(sels, coord_sizes, shape, chunks) ==
    LET pos == IndicesPos(sels)
        SubsetFor(s, e) ==
            MatchRangesToDataVar(coord_sizes, [sels EXCEPT ![pos] = RangeSel(s, e)], shape)
        buckets == BucketOuterIndices(sels[pos].idx, chunks[1])
    IN CASE pos = 0 -> <<[box        |-> MatchRangesToDataVar(coord_sizes, sels, shape),
                          window_len |-> 0,
                          offsets    |-> <<>>]>>
         [] pos # 0 /\ Bucketed(sels, coord_sizes, shape, chunks) ->
               [b \in DOMAIN buckets |->
                   [box        |-> SubsetFor(buckets[b].start, buckets[b].end),
                    window_len |-> buckets[b].end - buckets[b].start,
                    offsets    |-> buckets[b].offsets]]
         [] OTHER ->
               [k \in DOMAIN sels[pos].idx |->
                   [box        |-> SubsetFor(sels[pos].idx[k], sels[pos].idx[k] + 1),
                    window_len |-> 0,
                    offsets    |-> <<>>]]

\* apply_keep: of a read of window_len outer steps, the blocks of the kept ones.
ApplyKeep(plan) ==
    LET read  == RowMajor([a \in DOMAIN plan.box |-> Positions(plan.box[a])])
        inner == Len(read) \div plan.window_len
    IN IF plan.offsets = <<>> THEN read
       ELSE FlattenRows([k \in DOMAIN plan.offsets |->
               SubSeq(read, plan.offsets[k] * inner + 1, (plan.offsets[k] + 1) * inner)])

\* The values column of a tile: the cells the reads return, concatenated.
ReadValues(sels, coord_sizes, shape, chunks) ==
    LET plans == BuildReadPlans(sels, coord_sizes, shape, chunks)
    IN FlattenSeq([p \in DOMAIN plans |-> ApplyKeep(plans[p])])

-----------------------------------------------------------------------------
(* Coordinate columns (reader/coord.rs): explicit values, which is what the *)
(* reader makes.  The position of a value stands for it.                    *)

\* CoordValues::slice, start inclusive and end exclusive.
Slice(values, start, end) == SubSeq(values, start + 1, end)

\* CoordValues::gather.
Gather(values, indices) == [k \in DOMAIN indices |-> values[indices[k] + 1]]

\* extract_filtered_coords, for one coordinate.
ExtractFiltered(values, sel) ==
    IF IsIndices(sel) THEN Gather(values, sel.idx) ELSE Slice(values, sel.lo, sel.hi)

\* build_coord_keys_range: the dictionary keys of the rows of a grid, the last
\* axis fastest.
BuildCoordKeys(a, sizes, rows) ==
    LET inner == IF ProductAfter(sizes, a) = 0 THEN 1 ELSE ProductAfter(sizes, a)
    IN [row \in 1 .. rows |-> ((row - 1) \div inner) % sizes[a]]

\* create_coord_dictionary_typed: a key per row into the values of the axis.
CoordDictionary(values, a, sizes, rows) ==
    [keys |-> BuildCoordKeys(a, sizes, rows), values |-> values]

\* The coordinate columns of a tile, a dictionary for each axis over the part of
\* its coordinates at the tile's offset, row by row.
CoordRows(coords, windows) ==
    LET sizes == [a \in DOMAIN windows |-> SelLen(windows[a].sel)]
        rows  == Product(sizes)
        Column(a) == CoordDictionary(
                        Slice(coords[a], windows[a].offset, windows[a].offset + sizes[a]), a, sizes, rows)
    IN [k \in 1 .. rows |-> [a \in DOMAIN windows |-> Column(a).values[Column(a).keys[k] + 1]]]

-----------------------------------------------------------------------------
(* A partition's read of the outer coordinate. *)

\* The window that holds the partition's slice, and the slice relative to it.
PlanOuterCoordRead(sel) ==
    IF IsIndices(sel) /\ sel.idx # <<>>
    THEN LET lo == sel.idx[1]
         IN [start |-> lo, end |-> sel.idx[Len(sel.idx)] + 1,
             extract |-> IndicesSel([k \in DOMAIN sel.idx |-> sel.idx[k] - lo])]
    ELSE IF IsIndices(sel) THEN [start |-> 0, end |-> 0, extract |-> sel]
    ELSE [start |-> sel.lo, end |-> sel.hi, extract |-> RangeSel(0, sel.hi - sel.lo)]

\* The window in whole chunks of the coordinate array.
WidenToChunks(start, end, chunk, len) ==
    IF chunk > 0 /\ start < end
    THEN [start |-> (start \div chunk) * chunk, end |-> Min2(DivCeil(end, chunk) * chunk, len)]
    ELSE [start |-> start, end |-> end]

\* Mutant: the slice is not moved when the window is widened.
ShiftSelectionNot(sel, by) == sel

ShiftSelection(sel, by) ==
    IF IsIndices(sel) THEN IndicesSel([k \in DOMAIN sel.idx |-> sel.idx[k] + by])
    ELSE RangeSel(sel.lo + by, sel.hi + by)

\* The coordinate values, by their positions, that a partition ends up with:
\* the window is read and the slice gathered from it.
ReadOuterCoord(sel, chunk, len) ==
    LET plan   == PlanOuterCoordRead(sel)
        wide   == WidenToChunks(plan.start, plan.end, chunk, len)
        window == [k \in 1 .. wide.end - wide.start |-> wide.start + k - 1]
    IN ExtractFiltered(window, ShiftSelection(plan.extract, plan.start - wide.start))

\* A window is cut into slices of batch_size rows, the last one shorter, that are
\* handed on in order: the length of the next slice of the rows left.
SliceToBatchSize(rows, batch_size) == Min2(Max2(1, batch_size), Len(rows))
=============================================================================
