----------------------------- MODULE ZarrWriter -----------------------------
(***************************************************************************)
(* COPY (query) TO a store: admission of the query and the target grid      *)
(* (writer/plan.rs, materialize.rs, copy_format.rs), the skeleton           *)
(* (skeleton.rs), and the writer threads, each scattering the rows of its   *)
(* slab of the outer axis into a buffer and storing it chunk by chunk       *)
(* (sink.rs, data_sink.rs).                                                 *)
(*                                                                          *)
(* A copy is a record:                                                      *)
(*   axes     the source coordinates, each the sequence of its raw values   *)
(*   cf       axes that batches show decoded, as timestamps                 *)
(*   kind     "project", "reduce" (GROUP BY), "scalar", "unpushable", "join",*)
(*            "nometa"                                                      *)
(*   keys     the axes of GROUP BY                                          *)
(*   out      the axes among the output columns                             *)
(*   nvars    the number of other output columns; writable: their types fit *)
(*   keep     by axis, the CoordSelection its filters leave                 *)
(*   holes    rows, by position, that a filter on values removes            *)
(*   nulls    rows in which the first variable is NULL                      *)
(*   chunks, source_chunks   target chunk shape; <<>>: not given, not known *)
(*   parts    OPTIONS 'partitions'                                          *)
(*   target   whether a store is there already                              *)
(* A cell is a sequence of positions on the target grid.  The value of      *)
(* variable v in a row is the pair of v and the row.                        *)
(***************************************************************************)
EXTENDS Partition

CONSTANTS
    Copies,
    Fill,     \* the fill value of every variable
    Old,      \* the values of a store that is overwritten
    Absent    \* a chunk that is not stored

\* A copy's filters keep positions of its axes, GROUP BY is on axes, counts and
\* chunk lengths are unsigned, and there are finitely many rows.
CopyOK(q) ==
    /\ q.axes \in Seq(Seq(Int))
    /\ q.keys \subseteq DOMAIN q.axes
    /\ q.nvars \in Nat /\ q.parts \in Nat
    /\ q.chunks \in Seq(Nat) /\ q.source_chunks \in Seq(Nat)
    /\ \A a \in DOMAIN q.axes :
          /\ Positions(q.keep[a]) \in Seq(Nat)
          /\ Members(q.keep[a]) \subseteq 0 .. Len(q.axes[a]) - 1

VARIABLES
    copy,
    spec,     \* <<>>, or the SkeletonSpec: grid axes, their values, chunk shape
    phase,    \* "plan", "drain", "skeleton", "write", and the ends "rejected",
              \* "failed", "done", "crashed"
    made,     \* nodes of the skeleton that have their metadata
    store,    \* by variable and chunk, the chunk stored
    writers,  \* the writer threads
    count     \* rows reported

vars == <<copy, spec, phase, made, store, writers, count>>

-----------------------------------------------------------------------------
(* Admission and the target grid. *)

SourceAxes(q) == DOMAIN q.axes

\* The axes that tell the rows of the query apart.
RowAxes(q) == IF q.kind = "reduce" THEN q.keys ELSE SourceAxes(q)

Admissible(q) ==
    /\ q.kind \in {"project", "reduce"}
    /\ q.writable /\ q.nvars > 0

\* Axes in the order of the source's dimensions.
InOrder(q, A) == Sorted(A \cap SourceAxes(q))

\* Mutant: the grid has the axes that are selected, whichever these are.
DeriveWriteShapeSelected(q) ==
    IF Admissible(q) THEN InOrder(q, RowAxes(q) \cap q.out) ELSE <<>>

\* derive_write_shape: the axes of the target grid; <<>> if rejected.  A
\* projection must select every axis.
DeriveWriteShape(q) ==
    IF Admissible(q) /\ (q.kind = "project" => SourceAxes(q) \subseteq q.out)
    THEN InOrder(q, RowAxes(q)) ELSE <<>>

TargetChunks(q) == IF q.chunks # <<>> THEN q.chunks ELSE q.source_chunks

\* materialize_spec: the grid's coordinates, gathered by the filters.
MaterializeSpec(q) ==
    LET grid == DeriveWriteShape(q)
        Gather(a) == [i \in 1 .. SelLen(q.keep[a]) |-> q.axes[a][Positions(q.keep[a])[i] + 1]]
    IN [grid |-> grid, coords |-> [k \in DOMAIN grid |-> Gather(grid[k])],
        chunks |-> TargetChunks(q)]

\* create_writer_physical_plan.  A filter that matches nothing rejects the copy,
\* and so does a coordinate that cannot be read.
CreateWriterPhysicalPlan ==
    /\ phase = "plan"
    /\ \/ /\ TargetChunks(copy) # <<>>
          /\ DeriveWriteShape(copy) # <<>>
          /\ \A a \in SourceAxes(copy) : ~SelEmpty(copy.keep[a])
          /\ phase' = "drain" /\ spec' = MaterializeSpec(copy)
       \/ phase' = "rejected" /\ UNCHANGED spec
    /\ UNCHANGED <<copy, made, store, writers, count>>

-----------------------------------------------------------------------------
(* The grid in cells and chunks. *)

Shape(sp) == [k \in DOMAIN sp.coords |-> Len(sp.coords[k])]

Tuples(bounds) ==
    {t \in [DOMAIN bounds -> UNION {0 .. bounds[k] - 1 : k \in DOMAIN bounds}] :
        \A k \in DOMAIN bounds : t[k] < bounds[k]}

Cells(sp) == Tuples(Shape(sp))

Chunks(sp) == Tuples([k \in DOMAIN sp.coords |-> DivCeil(Len(sp.coords[k]), sp.chunks[k])])

CellsOf(sp, c) == {cell \in Cells(sp) : \A k \in DOMAIN c : cell[k] \div sp.chunks[k] = c[k]}

Validate(sp) ==
    /\ Len(sp.chunks) = Len(sp.coords)
    /\ \A k \in DOMAIN sp.chunks : sp.chunks[k] # 0

\* The chunks the copy finds: none, or those of an earlier copy.
FoundChunk(q, sp, c) == IF q.target THEN [cell \in CellsOf(sp, c) |-> Old] ELSE Absent

Found(q) ==
    LET sp == MaterializeSpec(q)
        keys == IF sp.grid # <<>> /\ Validate(sp) THEN (1 .. q.nvars) \X Chunks(sp) ELSE {}
    IN [key \in keys |-> FoundChunk(q, sp, key[2])]

-----------------------------------------------------------------------------
(* Rows. *)

\* The rows of the query, each by its position on every axis in RowAxes.  They
\* arrive in any order.
Rows(q) ==
    {r \in [RowAxes(q) -> UNION {Members(q.keep[a]) : a \in RowAxes(q)}] :
        r \notin q.holes /\ \A a \in RowAxes(q) : r[a] \in Members(q.keep[a])}

ASSUME CopiesAssumption == \A q \in Copies : CopyOK(q) /\ IsFiniteSet(Rows(q))

\* Absent is no chunk: a stored chunk holds the values of rows, fill or old ones.
ASSUME AbsentAssumption ==
    \A q \in Copies :
        LET sp == MaterializeSpec(q)
            values == {Fill, Old} \cup ((1 .. q.nvars) \X Rows(q))
        IN sp.grid # <<>> /\ Validate(sp) =>
              \A c \in Chunks(sp) : Absent \notin [CellsOf(sp, c) -> values]

\* A timestamp is not the raw number it is decoded from.
Decoded(v) == v + 1000

BatchValue(q, a, row) ==
    LET raw == q.axes[a][row[a] + 1] IN IF a \in q.cf THEN Decoded(raw) ELSE raw

Ascending(axis) == \A i \in 1 .. Len(axis) - 1 : axis[i] < axis[i + 1]

OnAxis(k, row) == \E i \in DOMAIN spec.coords[k] : spec.coords[k][i] = BatchValue(copy, spec.grid[k], row)

\* index_at, of a value that is on the axis.
IndexAt(k, row) ==
    (CHOOSE i \in DOMAIN spec.coords[k] : spec.coords[k][i] = BatchValue(copy, spec.grid[k], row)) - 1

CellOf(row) == [k \in DOMAIN spec.grid |-> IndexAt(k, row)]

RowValue(v, row) == IF v = 1 /\ row \in copy.nulls THEN Fill ELSE <<v, row>>

\* The buffers of the given cells after some rows: in each cell the value of its
\* row, of one of them if there are several.
Scattered(rows, cells) ==
    LET at == [row \in rows |-> CellOf(row)]
        Value(v, cell) == LET here == {r \in rows : at[r] = cell /\ RowValue(v, r) # Fill}
                          IN IF here = {} THEN Fill ELSE RowValue(v, CHOOSE r \in here : TRUE)
    IN [v \in 1 .. copy.nvars |-> [cell \in cells |-> Value(v, cell)]]

-----------------------------------------------------------------------------
(* Draining the input and creating the skeleton. *)

\* write_all collects the whole input; an error in it ends the copy.
Drain ==
    /\ phase = "drain"
    /\ phase' \in {"skeleton", "failed"}
    /\ UNCHANGED <<copy, spec, made, store, writers, count>>

\* The root group, the coordinates and the variables.
SkeletonSize == 1 + Len(spec.grid) + copy.nvars

\* Mutant: the spec is looked at when its arrays are there.
CreateSkeletonLate ==
    /\ phase = "skeleton" /\ made < SkeletonSize
    /\ made' = made + 1
    /\ phase' = IF made' = SkeletonSize /\ ~Validate(spec) THEN "failed" ELSE phase
    /\ UNCHANGED <<copy, spec, store, writers, count>>

\* create_skeleton: validation first, then the group and one array after the
\* other, coordinates with their values and variables without; any may fail.
CreateSkeleton ==
    /\ phase = "skeleton" /\ made < SkeletonSize
    /\ \/ Validate(spec) /\ made' = made + 1 /\ UNCHANGED phase
       \/ phase' = "failed" /\ UNCHANGED made
    /\ UNCHANGED <<copy, spec, store, writers, count>>

\* The slabs: chunk-aligned ranges of the outer axis.
Slabs ==
    IF copy.parts > 1 THEN PlanPartitions(Len(spec.coords[1]), spec.chunks[1], copy.parts)
    ELSE <<RangeSel(0, Len(spec.coords[1]))>>

\* Mutant: the writers do not wait for the metadata of the variables.
StartWritersEarly ==
    /\ phase = "skeleton" /\ made > Len(spec.grid)
    /\ phase' = "write"
    /\ writers' = [p \in DOMAIN Slabs |->
                      [state |-> "scatter", buf |-> <<>>, var |-> 1, todo |-> {}, held |-> <<>>]]
    /\ UNCHANGED <<copy, spec, made, store, count>>

\* write_batches, or write_batches_partitioned: one thread per slab.
StartWriters ==
    /\ phase = "skeleton" /\ made = SkeletonSize
    /\ phase' = "write"
    /\ writers' = [p \in DOMAIN Slabs |->
                      [state |-> "scatter", buf |-> <<>>, var |-> 1, todo |-> {}, held |-> <<>>]]
    /\ UNCHANGED <<copy, spec, made, store, count>>

-----------------------------------------------------------------------------
(* write_range. *)

InSlab(p, i) == i \in Members(Slabs[p])

\* The chunks that slab p touches.
SlabChunks(p) == {c \in Chunks(spec) : \E cell \in CellsOf(spec, c) : InSlab(p, cell[1])}

\* The rows cannot all be placed: a coordinate is no output column, or a value
\* is not on its axis.  Inner axes are looked at for the rows of the slab only.
OffGrid(p) ==
    \E row \in Rows(copy) :
        \/ \E k \in DOMAIN spec.grid : spec.grid[k] \notin copy.out
        \/ ~OnAxis(1, row)
        \/ InSlab(p, IndexAt(1, row)) /\ \E k \in 2 .. Len(spec.grid) : ~OnAxis(k, row)

\* A binary search in an axis that does not ascend need not find its values.
MayMiss == \E k \in DOMAIN spec.coords : ~Ascending(spec.coords[k])

Outcomes(p) ==
    IF OffGrid(p) THEN {"failed"} ELSE {"store"} \cup (IF MayMiss THEN {"failed"} ELSE {})

SlabRows(p) == {row \in Rows(copy) : InSlab(p, IndexAt(1, row))}

ScatterRows(p) ==
    /\ phase = "write" /\ writers[p].state = "scatter"
    /\ \E s \in Outcomes(p) :
          writers' = [writers EXCEPT ![p] =
              IF s = "failed" THEN [@ EXCEPT !.state = s]
              ELSE [@ EXCEPT !.state = s, !.todo = SlabChunks(p),
                             !.buf = Scattered(SlabRows(p),
                                               {cell \in Cells(spec) : InSlab(p, cell[1])})]]
    /\ UNCHANGED <<copy, spec, phase, made, store, count>>

\* zarrs stores a chunk that the subset covers to its nominal extent as a whole,
\* and merges the others (at a ragged end) into what is stored.  A chunk
\* of nothing but fill is erased.
Covers(p, c) ==
    LET ch == spec.chunks
    IN /\ \A i \in c[1] * ch[1] .. (c[1] + 1) * ch[1] - 1 : InSlab(p, i)
       /\ \A k \in 2 .. Len(ch) : (c[k] + 1) * ch[k] <= Len(spec.coords[k])

Merged(p, v, c, old) ==
    LET new == [cell \in CellsOf(spec, c) |->
                   CASE InSlab(p, cell[1]) -> writers[p].buf[v][cell]
                     [] ~InSlab(p, cell[1]) /\ old = Absent -> Fill
                     [] OTHER -> old[cell]]
    IN IF \A cell \in DOMAIN new : new[cell] = Fill THEN Absent ELSE new

\* Writer p has stored chunk c; the variables are stored one after the other.
Advance(p, c) ==
    LET w == writers[p]
        left == w.todo \ {c}
    IN CASE left # {} -> [w EXCEPT !.todo = left, !.held = <<>>]
         [] left = {} /\ w.var < copy.nvars ->
                [w EXCEPT !.var = @ + 1, !.todo = SlabChunks(p), !.held = <<>>]
         [] OTHER -> [w EXCEPT !.state = "done", !.todo = {}, !.held = <<>>]

StoreChunk(p) ==
    /\ phase = "write" /\ writers[p].state = "store" /\ writers[p].held = <<>>
    /\ \E c \in writers[p].todo :
          /\ Covers(p, c)
          /\ store' = [store EXCEPT ![<<writers[p].var, c>>] = Merged(p, writers[p].var, c, Absent)]
          /\ writers' = [writers EXCEPT ![p] = Advance(p, c)]
    /\ UNCHANGED <<copy, spec, phase, made, count>>

ReadEdgeChunk(p) ==
    /\ phase = "write" /\ writers[p].state = "store" /\ writers[p].held = <<>>
    /\ \E c \in writers[p].todo :
          /\ ~Covers(p, c)
          /\ writers' = [writers EXCEPT ![p].held = <<c, store[<<writers[p].var, c>>]>>]
    /\ UNCHANGED <<copy, spec, phase, made, store, count>>

StoreEdgeChunk(p) ==
    /\ phase = "write" /\ writers[p].state = "store" /\ writers[p].held # <<>>
    /\ LET c == writers[p].held[1]
           v == writers[p].var
       IN /\ store' = [store EXCEPT ![<<v, c>>] = Merged(p, v, c, writers[p].held[2])]
          /\ writers' = [writers EXCEPT ![p] = Advance(p, c)]
    /\ UNCHANGED <<copy, spec, phase, made, count>>

\* An array cannot be opened, a store operation fails, or the thread panics.
WriterFails(p) ==
    /\ phase = "write" /\ writers[p].state \in {"scatter", "store"}
    /\ writers' = [writers EXCEPT ![p].state = "failed", ![p].held = <<>>]
    /\ UNCHANGED <<copy, spec, phase, made, store, count>>

AllEnded == \A p \in DOMAIN writers : writers[p].state \in {"done", "failed"}

\* Mutant: the rows of the writers that ended well are reported.
JoinLenient ==
    /\ phase = "write" /\ AllEnded
    /\ phase' = "done" /\ count' = Cardinality(Rows(copy))
    /\ UNCHANGED <<copy, spec, made, store, writers>>

\* Mutant: an error ends the wait of none.
JoinStuck ==
    /\ phase = "write" /\ \A p \in DOMAIN writers : writers[p].state = "done"
    /\ phase' = "done" /\ count' = Cardinality(Rows(copy))
    /\ UNCHANGED <<copy, spec, made, store, writers>>

\* All threads are joined; one that failed fails the copy, and the rows that each
\* has written are counted together.
Join ==
    /\ phase = "write" /\ AllEnded
    /\ IF \A p \in DOMAIN writers : writers[p].state = "done"
       THEN /\ phase' = "done"
            /\ count' = Cardinality(UNION {{p} \X SlabRows(p) : p \in DOMAIN writers})
       ELSE phase' = "failed" /\ UNCHANGED count
    /\ UNCHANGED <<copy, spec, made, store, writers>>

\* The process stops.
Crash ==
    /\ phase \in {"skeleton", "write"}
    /\ phase' = "crashed"
    /\ UNCHANGED <<copy, spec, made, store, writers, count>>

-----------------------------------------------------------------------------
Init ==
    /\ copy \in Copies
    /\ spec = <<>>
    /\ phase = "plan"
    /\ made = 0
    /\ store = Found(copy)
    /\ writers = <<>>
    /\ count = 0

Step ==
    \/ CreateWriterPhysicalPlan \/ Drain \/ CreateSkeleton \/ StartWriters \/ Join
    \/ \E p \in DOMAIN writers :
          \/ ScatterRows(p) \/ StoreChunk(p) \/ ReadEdgeChunk(p)
          \/ StoreEdgeChunk(p) \/ WriterFails(p)

Next == Step \/ Crash

\* The threads run; the process is never made to stop.
Spec == Init /\ [][Next]_vars /\ WF_vars(Step)

-----------------------------------------------------------------------------
(* Properties. *)

\* The type invariant: writers are there once the skeleton is complete.
TypeOK ==
    /\ phase \in {"plan", "drain", "skeleton", "write", "rejected", "failed", "done", "crashed"}
    /\ spec = <<>> <=> phase \in {"plan", "rejected"}
    /\ writers # <<>> => made = SkeletonSize
    /\ \A p \in DOMAIN writers : writers[p].todo \subseteq Chunks(spec)
    /\ \A key \in DOMAIN store :
          store[key] # Absent /\ spec # <<>> => DOMAIN store[key] = CellsOf(spec, key[2])

\* What is read back of a chunk.
Read(chunk, cell) == IF chunk = Absent THEN Fill ELSE chunk[cell]

\* A copy that reports success has written every row into its cell and fill
\* into the cells without one, whatever was there, however the threads
\* interleaved and merged ragged chunks; and it reports the number of rows.
CopyExact ==
    phase = "done" =>
        LET image == Scattered(Rows(copy), Cells(spec))
        IN /\ count = Cardinality(Rows(copy))
           /\ \A key \in DOMAIN store : \A cell \in CellsOf(spec, key[2]) :
                 Read(store[key], cell) = image[key[1]][cell]

\* No two rows of an admitted query that was written share a cell, where the
\* last one would win (the rule of derive_write_shape).
CellsHaveOneRow ==
    phase = "done" => \A r, s \in Rows(copy) : r # s => CellOf(r) # CellOf(s)

\* At every moment, so also where a writer fails or the process stops, each
\* chunk is as it was or as it will be: slabs are cut on chunk boundaries, so
\* that a chunk has one writer.
ChunksOldOrNew ==
    phase \in {"write", "done", "failed", "crashed"} =>
        LET image == Scattered(Rows(copy), Cells(spec))
        IN \A key \in DOMAIN store :
              \/ store[key] = FoundChunk(copy, spec, key[2])
              \/ \A cell \in CellsOf(spec, key[2]) : Read(store[key], cell) = image[key[1]][cell]

\* A copy that is rejected, or whose spec is not valid, leaves the target alone.
InvalidLeavesTarget ==
    (phase = "rejected" \/ (phase = "failed" /\ ~Validate(spec))) => made = 0

\* A copy ends, also when some of its writers fail.
CopyEnds == <>(phase \in {"rejected", "failed", "done", "crashed"})
=============================================================================
