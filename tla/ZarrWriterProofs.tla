-------------------------- MODULE ZarrWriterProofs --------------------------
(***************************************************************************)
(* Proofs about ZarrWriter for any set of copies.                           *)
(*                                                                          *)
(* The argument: slabs are cut on chunk boundaries (PlanPartitionsCuts), so *)
(* every chunk that a writer touches lies wholly in its slab, all its cells *)
(* come from the writer's own buffer, and what is stored is the image of    *)
(* the rows, whichever thread stores it and whatever was read before.       *)
(***************************************************************************)
EXTENDS ZarrWriter, PartitionProofs

\* The value of variable v in a cell once all rows are in.
RowsAt(rows, v, cell) == {r \in rows : CellOf(r) = cell /\ RowValue(v, r) # Fill}
ValueOf(v, here) == IF here = {} THEN Fill ELSE RowValue(v, CHOOSE r \in here : TRUE)
ImageAt(v, cell) == ValueOf(v, RowsAt(Rows(copy), v, cell))

\* A stored chunk reads as the image of the rows.
IsImage(key) ==
    \A cell \in CellsOf(spec, key[2]) : Read(store[key], cell) = ImageAt(key[1], cell)

\* The copy has a grid.
HasGrid == copy \in Copies /\ spec = MaterializeSpec(copy) /\ spec.grid # <<>>

\* The phases of a copy.
Phases == {"plan", "drain", "skeleton", "write", "rejected", "failed", "done", "crashed"}

-----------------------------------------------------------------------------
(* The inductive invariant. *)

\* The spec is the copy's, once it is planned.
Planned ==
    /\ copy \in Copies /\ phase \in Phases
    /\ phase \in {"plan", "rejected"} => spec = <<>>
    /\ phase \notin {"plan", "rejected"} => HasGrid

\* Nothing is made before the spec has been validated.
MadeOK ==
    /\ made \in Nat
    /\ made > 0 => phase \notin {"plan", "rejected", "drain"} /\ Validate(spec)

\* The writers start on the target as it was found.
StoreOK ==
    /\ DOMAIN store = DOMAIN Found(copy)
    /\ writers = <<>> => phase \notin {"write", "done"} /\ store = Found(copy)

\* A chunk is as it was found or the image of the rows.
ChunksOK ==
    phase \notin {"plan", "rejected"} => \A key \in DOMAIN store :
        /\ store[key] = FoundChunk(copy, spec, key[2]) \/ IsImage(key)
        /\ store[key] # Absent => DOMAIN store[key] = CellsOf(spec, key[2])

\* Chunk c of variable v is behind writer p.
Behind(p, v, c) ==
    \/ writers[p].state = "done"
    \/ writers[p].state = "store" /\ v < writers[p].var
    \/ writers[p].state = "store" /\ v = writers[p].var /\ c \notin writers[p].todo

\* What writer p has scattered, stored and still has to store.
WriterOK(p) ==
    LET w == writers[p]
    IN /\ DOMAIN w = {"state", "buf", "var", "todo", "held"}
       /\ w.state \in {"scatter", "store", "done", "failed"}
       /\ w.var \in 1 .. copy.nvars /\ w.todo \subseteq SlabChunks(p)
       /\ w.state \in {"store", "done"} => ~OffGrid(p)
       /\ w.state = "store" =>
             \A v \in 1 .. copy.nvars : \A cell \in Cells(spec) :
                InSlab(p, cell[1]) => w.buf[v][cell] = ImageAt(v, cell)
       /\ w.state = "scatter" => w.var = 1
       /\ w.held # <<>> => w.state = "store" /\ w.held[1] \in w.todo
       /\ \A v \in 1 .. copy.nvars : \A c \in SlabChunks(p) : Behind(p, v, c) => IsImage(<<v, c>>)

\* The same for all writers.
WritersOK ==
    writers # <<>> =>
        /\ made = SkeletonSize /\ phase \in {"write", "done", "failed", "crashed"}
        /\ DOMAIN writers = DOMAIN Slabs
        /\ \A p \in DOMAIN Slabs : WriterOK(p)

\* All writers have ended well when the copy has.
DoneOK ==
    phase = "done" =>
        /\ \A p \in DOMAIN writers : writers[p].state = "done"
        /\ count = Cardinality(UNION {{p} \X SlabRows(p) : p \in DOMAIN writers})

\* The inductive invariant.
IInv == Planned /\ MadeOK /\ StoreOK /\ ChunksOK /\ WritersOK /\ DoneOK

-----------------------------------------------------------------------------
(* The grid. *)

\* The grid has the axes that tell the rows apart, each once.
LEMMA GridFacts ==
    ASSUME HasGrid
    PROVE  /\ CopyOK(copy) /\ copy.nvars \in Nat \ {0}
           /\ RowAxes(copy) \subseteq SourceAxes(copy)
           /\ Len(spec.grid) \in Nat \ {0} /\ DOMAIN spec.grid = 1 .. Len(spec.grid)
           /\ \A k \in DOMAIN spec.grid : spec.grid[k] \in RowAxes(copy)
           /\ \A a \in RowAxes(copy) : \E k \in DOMAIN spec.grid : spec.grid[k] = a
  <1> DEFINE A == RowAxes(copy) \cap SourceAxes(copy)
  <1>1. CopyOK(copy)
    BY CopiesAssumption DEF HasGrid
  <1>2. spec.grid = DeriveWriteShape(copy)
    BY DEF HasGrid, MaterializeSpec
  <1>3. Admissible(copy) /\ spec.grid = Sorted(A)
    BY <1>2 DEF HasGrid, DeriveWriteShape, InOrder
  <1>4. copy.nvars \in Nat \ {0}
    BY <1>1, <1>3 DEF CopyOK, Admissible
  <1>5. SourceAxes(copy) = 1 .. Len(copy.axes) /\ Len(copy.axes) \in Nat
    BY <1>1, LenProperties DEF CopyOK, SourceAxes
  <1>6. RowAxes(copy) \subseteq SourceAxes(copy)
    BY <1>1 DEF CopyOK, RowAxes, SourceAxes
  <1>7. A = RowAxes(copy) /\ A \subseteq Nat /\ IsFiniteSet(A)
    <2>1. IsFiniteSet(1 .. Len(copy.axes))
      BY <1>5, FS_Interval
    <2> QED
      BY <1>5, <1>6, <2>1, FS_Subset
  <1> HIDE DEF A
  <1>8. /\ Cardinality(A) \in Nat
        /\ Sorted(A) \in [1 .. Cardinality(A) -> A]
        /\ \A x \in A : \E k \in 1 .. Cardinality(A) : Sorted(A)[k] = x
    BY <1>7, SortedFacts
  <1>9. Len(spec.grid) = Cardinality(A)
    BY <1>3, <1>8, FunIsSeq
  <1>10. Cardinality(A) # 0
    <2>1. spec.grid \in Seq(A)
      BY <1>3, <1>8, FunIsSeq
    <2> QED
      BY <1>9, <2>1, EmptySeq DEF HasGrid
  <1> QED
    BY <1>1, <1>3, <1>4, <1>6, <1>7, <1>8, <1>9, <1>10

\* Each grid axis has its kept coordinates.
LEMMA CoordFacts ==
    ASSUME HasGrid
    PROVE  /\ DOMAIN spec.coords = DOMAIN spec.grid /\ Len(spec.coords) = Len(spec.grid)
           /\ \A k \in DOMAIN spec.grid :
                 /\ Len(spec.coords[k]) \in Nat
                 /\ DOMAIN spec.coords[k] = 1 .. Len(spec.coords[k])
           /\ spec.chunks \in Seq(Nat)
  <1> DEFINE KeptAxis(a) == [i \in 1 .. SelLen(copy.keep[a]) |->
                              copy.axes[a][Positions(copy.keep[a])[i] + 1]]
  <1>1. /\ spec.coords = [k \in DOMAIN spec.grid |-> KeptAxis(spec.grid[k])]
        /\ spec.chunks = TargetChunks(copy)
    BY DEF HasGrid, MaterializeSpec
  <1>2. ASSUME NEW k \in DOMAIN spec.grid
        PROVE  /\ Len(spec.coords[k]) \in Nat
               /\ DOMAIN spec.coords[k] = 1 .. Len(spec.coords[k])
    <2>1. spec.grid[k] \in DOMAIN copy.axes
      BY GridFacts DEF SourceAxes
    <2> DEFINE n == SelLen(copy.keep[spec.grid[k]])
    <2>2. n \in Nat
      BY <2>1, GridFacts, LenProperties DEF CopyOK, SelLen
    <2>3. spec.coords[k] = KeptAxis(spec.grid[k])
      BY <1>1
    <2>4. spec.coords[k] \in [1 .. n -> {KeptAxis(spec.grid[k])[i] : i \in 1 .. n}]
      BY <2>3
    <2> HIDE DEF n
    <2>5. Len(spec.coords[k]) = n /\ DOMAIN spec.coords[k] = 1 .. n
      BY <2>2, <2>4, FunIsSeq
    <2> QED
      BY <2>2, <2>5
  <1>3. Len(spec.coords) = Len(spec.grid)
    <2> DEFINE m == Len(spec.grid)
    <2>1. m \in Nat /\ DOMAIN spec.grid = 1 .. m
      BY GridFacts
    <2>2. spec.coords \in [1 .. m -> {KeptAxis(spec.grid[k]) : k \in 1 .. m}]
      BY <1>1, <2>1
    <2> HIDE DEF m
    <2> QED
      BY <2>1, <2>2, FunIsSeq DEF m
  <1>4. spec.chunks \in Seq(Nat)
    BY <1>1, GridFacts DEF CopyOK, TargetChunks
  <1> QED
    BY <1>1, <1>2, <1>3, <1>4

-----------------------------------------------------------------------------
(* Slabs and chunks. *)

\* The length of the outer axis.
OuterLen == Len(spec.coords[1])

\* A valid spec has a positive chunk length for every axis.
LEMMA ValidFacts ==
    ASSUME HasGrid, Validate(spec)
    PROVE  /\ 1 \in DOMAIN spec.grid /\ 1 \in DOMAIN spec.coords
           /\ DOMAIN spec.chunks = DOMAIN spec.coords
           /\ \A k \in DOMAIN spec.coords : spec.chunks[k] \in Nat \ {0}
           /\ OuterLen \in Nat
  <1>1. 1 \in DOMAIN spec.grid /\ 1 \in DOMAIN spec.coords /\ OuterLen \in Nat
    BY GridFacts, CoordFacts DEF OuterLen
  <1>2. DOMAIN spec.chunks = 1 .. Len(spec.chunks) /\ \A k \in DOMAIN spec.chunks : spec.chunks[k] \in Nat
    BY CoordFacts, LenProperties, ElementOfSeq
  <1>3. DOMAIN spec.chunks = DOMAIN spec.coords
    BY <1>2, GridFacts, CoordFacts DEF Validate
  <1> QED
    BY <1>1, <1>2, <1>3 DEF Validate

\* The slabs cut the outer axis on chunk boundaries.
LEMMA SlabsCut ==
    ASSUME HasGrid, Validate(spec)
    PROVE  /\ DOMAIN Slabs # {} /\ DOMAIN Slabs \subseteq Nat
           /\ CutsOnChunks(Slabs, 0, OuterLen, spec.chunks[1])
  <1>1. OuterLen \in Nat /\ spec.chunks[1] \in Nat \ {0} /\ copy.parts \in Nat
    BY ValidFacts, GridFacts DEF CopyOK
  <1>2. CASE copy.parts > 1
    <2>1. Slabs = PlanPartitions(OuterLen, spec.chunks[1], copy.parts)
      BY <1>2 DEF Slabs, OuterLen
    <2>2. LET slices == PlanPartitions(OuterLen, spec.chunks[1], copy.parts)
          IN /\ \E n \in 1 .. Max2(1, copy.parts) : DOMAIN slices = 1 .. n
             /\ CutsOnChunks(slices, 0, OuterLen, spec.chunks[1])
      <3> DEFINE len == OuterLen
                 chunk == spec.chunks[1]
                 parts == copy.parts
      <3>1. len \in Nat /\ chunk \in Nat /\ parts \in Nat
        BY <1>1
      <3> HIDE DEF len, chunk, parts
      <3>2. LET slices == PlanPartitions(len, chunk, parts)
            IN /\ \E n \in 1 .. Max2(1, parts) : DOMAIN slices = 1 .. n
               /\ \A i \in DOMAIN slices : ~IsIndices(slices[i]) /\ slices[i].lo \in Nat
               /\ CutsOnChunks(slices, 0, len, chunk)
        BY <3>1, PlanPartitionsCuts, Zenon
      <3> QED
        BY <3>2 DEF len, chunk, parts
    <2>3. PICK n \in 1 .. Max2(1, copy.parts) : DOMAIN Slabs = 1 .. n
      BY <2>1, <2>2
    <2>4. 1 \in DOMAIN Slabs /\ DOMAIN Slabs \subseteq Nat
      BY <1>1, <2>3 DEF Max2
    <2> QED
      BY <2>1, <2>2, <2>4
  <1>3. CASE ~(copy.parts > 1)
    <2>1. Slabs = <<RangeSel(0, OuterLen)>>
      BY <1>3 DEF Slabs, OuterLen
    <2>2. DOMAIN Slabs = {1} /\ Members(Slabs[1]) = 0 .. OuterLen - 1
      BY <1>1, <2>1 DEF RangeSel, Members, IsIndices
    <2>3. \A i, j \in DOMAIN Slabs : ~(i < j)
      BY <2>2
    <2>4. CutsOnChunks(Slabs, 0, OuterLen, spec.chunks[1])
      BY <2>2, <2>3, Zenon DEF CutsOnChunks
    <2> QED
      BY <2>2, <2>4
  <1> QED
    BY <1>2, <1>3

\* A cell has a position on every axis, and lies in one slab.
LEMMA CellFacts ==
    ASSUME HasGrid, Validate(spec), NEW cell \in Cells(spec)
    PROVE  /\ DOMAIN cell = DOMAIN spec.grid
           /\ \A k \in DOMAIN spec.grid : cell[k] \in 0 .. Len(spec.coords[k]) - 1
           /\ \E p \in DOMAIN Slabs : InSlab(p, cell[1])
  <1> DEFINE D == DOMAIN spec.coords
             bounds == Shape(spec)
  <1>1. DOMAIN bounds = D /\ D = DOMAIN spec.grid /\ \A k \in D : bounds[k] = Len(spec.coords[k])
    BY CoordFacts DEF Shape
  <1>2. /\ cell \in [D -> UNION {0 .. bounds[k] - 1 : k \in D}]
        /\ \A k \in D : cell[k] < bounds[k]
    BY <1>1 DEF Cells, Tuples
  <1>3. ASSUME NEW k \in D PROVE cell[k] \in 0 .. Len(spec.coords[k]) - 1
    <2>1. PICK j \in D : cell[k] \in 0 .. bounds[j] - 1
      BY <1>2
    <2>2. cell[k] < Len(spec.coords[k]) /\ Len(spec.coords[k]) \in Nat /\ Len(spec.coords[j]) \in Nat
      BY <1>1, <1>2, CoordFacts
    <2> QED
      BY <1>1, <2>1, <2>2
  <1>4. cell[1] \in 0 .. OuterLen - 1
    BY <1>1, <1>3, ValidFacts DEF OuterLen
  <1>5. \E p \in DOMAIN Slabs : InSlab(p, cell[1])
    BY <1>4, SlabsCut DEF CutsOnChunks, InSlab
  <1> QED
    BY <1>1, <1>2, <1>3, <1>5

\* A chunk that a slab touches lies wholly in it.
LEMMA ChunkInSlab ==
    ASSUME HasGrid, Validate(spec), NEW p \in DOMAIN Slabs, NEW c \in SlabChunks(p),
           NEW cell \in CellsOf(spec, c)
    PROVE  cell \in Cells(spec) /\ InSlab(p, cell[1])
  <1>1. PICK other \in CellsOf(spec, c) : InSlab(p, other[1])
    BY DEF SlabChunks
  <1>2. 1 \in DOMAIN c
    <2>1. c \in Chunks(spec)
      BY DEF SlabChunks
    <2>2. DOMAIN c = DOMAIN spec.coords
      BY <2>1 DEF Chunks, Tuples
    <2> QED
      BY <2>2, ValidFacts
  <1>3. /\ cell \in Cells(spec) /\ other \in Cells(spec)
        /\ cell[1] \div spec.chunks[1] = other[1] \div spec.chunks[1]
    BY <1>1, <1>2 DEF CellsOf
  <1>4. cell[1] \in 0 .. OuterLen - 1
    BY <1>3, CellFacts, ValidFacts DEF OuterLen
  <1>5. other[1] \in Members(Slabs[p]) /\ spec.chunks[1] # 0
    BY <1>1, ValidFacts DEF InSlab
  <1>6. cell[1] \in Members(Slabs[p])
    BY <1>3, <1>4, <1>5, SlabsCut DEF CutsOnChunks
  <1> QED
    BY <1>3, <1>6 DEF InSlab

\* Every chunk belongs to a slab: its first cell does.
LEMMA ChunkHasSlab ==
    ASSUME HasGrid, Validate(spec), NEW c \in Chunks(spec)
    PROVE  \E p \in DOMAIN Slabs : c \in SlabChunks(p)
  <1> DEFINE D == DOMAIN spec.coords
             corner == [k \in D |-> c[k] * spec.chunks[k]]
             bounds == [k \in D |-> DivCeil(Len(spec.coords[k]), spec.chunks[k])]
  <1>1. D = DOMAIN spec.grid
    BY CoordFacts
  <1>2. /\ c \in [D -> UNION {0 .. bounds[k] - 1 : k \in D}]
        /\ \A k \in D : c[k] < bounds[k]
    BY DEF Chunks, Tuples
  <1>3. ASSUME NEW k \in D
        PROVE  /\ c[k] \in Nat /\ corner[k] \in 0 .. Len(spec.coords[k]) - 1
               /\ corner[k] \div spec.chunks[k] = c[k]
    <2> DEFINE len == Len(spec.coords[k])
               ch  == spec.chunks[k]
    <2>1. len \in Nat /\ ch \in Nat \ {0}
      BY <1>1, CoordFacts, ValidFacts
    <2>2. c[k] \in Nat
      <3>1. PICK j \in D : c[k] \in 0 .. bounds[j] - 1
        BY <1>2
      <3> QED
        BY <3>1
    <2>3. c[k] < DivCeil(len, ch)
      BY <1>2
    <2> HIDE DEF len, ch
    <2>4. len # 0
      <3>1. ASSUME len = 0 PROVE DivCeil(len, ch) = 0
        <4>1. len + ch - 1 = ch - 1 /\ ch - 1 \in Nat /\ 0 * ch <= ch - 1 /\ ch - 1 < (0 + 1) * ch
          BY <2>1, <3>1
        <4> QED
          BY <2>1, <4>1, DivUnique DEF DivCeil
      <3> QED
        BY <2>2, <2>3, <3>1
    <2>5. DivCeil(len, ch) \in Nat \ {0} /\ (DivCeil(len, ch) - 1) * ch < len
      BY <2>1, <2>4, DivCeilFacts
    <2>6. c[k] * ch <= (DivCeil(len, ch) - 1) * ch
      <3>1. DivCeil(len, ch) - 1 \in Nat /\ c[k] <= DivCeil(len, ch) - 1
        BY <2>2, <2>3, <2>5
      <3> QED
        BY <2>1, <2>2, <3>1, MulMono
    <2>7. c[k] * ch \in Nat /\ (DivCeil(len, ch) - 1) * ch \in Int
      BY <2>1, <2>2, <2>5
    <2>8. c[k] * ch \in 0 .. len - 1
      BY <2>1, <2>5, <2>6, <2>7
    <2>9. (c[k] * ch) \div ch = c[k]
      <3>1. c[k] * ch < (c[k] + 1) * ch
        BY <2>1, <2>2
      <3> QED
        BY <2>1, <2>2, <2>7, <3>1, DivUnique
    <2> QED
      BY <2>2, <2>8, <2>9 DEF len, ch
  <1>4. corner \in Cells(spec)
    <2>1. /\ DOMAIN Shape(spec) = D
          /\ \A k \in D : Shape(spec)[k] = Len(spec.coords[k]) /\ Shape(spec)[k] \in Nat
      BY <1>1, CoordFacts DEF Shape
    <2> DEFINE R == UNION {0 .. Shape(spec)[k] - 1 : k \in D}
    <2>2. ASSUME NEW k \in D PROVE corner[k] \in R /\ corner[k] < Shape(spec)[k]
      <3>1. corner[k] \in 0 .. Shape(spec)[k] - 1
        BY <1>3, <2>1
      <3> QED
        BY <2>1, <3>1
    <2> HIDE DEF R
    <2>3. corner \in [D -> R]
      BY <2>2
    <2> HIDE DEF corner
    <2> QED
      BY <2>1, <2>2, <2>3 DEF Cells, Tuples, R
  <1>5. corner \in CellsOf(spec, c)
    BY <1>2, <1>3, <1>4 DEF CellsOf
  <1>6. PICK p \in DOMAIN Slabs : InSlab(p, corner[1])
    BY <1>4, CellFacts
  <1> QED
    BY <1>5, <1>6 DEF SlabChunks

-----------------------------------------------------------------------------
(* The image of the rows. *)

\* What depends on the copy and its spec only stays with them.
LEMMA Frame ==
    ASSUME copy' = copy, spec' = spec
    PROVE  /\ Slabs' = Slabs /\ SkeletonSize' = SkeletonSize
           /\ \A p, i : InSlab(p, i)' <=> InSlab(p, i)
           /\ \A p : SlabChunks(p)' = SlabChunks(p) /\ SlabRows(p)' = SlabRows(p)
           /\ \A p : OffGrid(p)' <=> OffGrid(p)
           /\ \A v, cell : ImageAt(v, cell)' = ImageAt(v, cell)
  <1>1. Slabs' = Slabs /\ SkeletonSize' = SkeletonSize
    BY DEF Slabs, SkeletonSize
  <1>2. ASSUME NEW p, NEW i PROVE InSlab(p, i)' <=> InSlab(p, i)
    BY <1>1 DEF InSlab
  <1>3. ASSUME NEW k, NEW row PROVE IndexAt(k, row)' = IndexAt(k, row) /\ (OnAxis(k, row)' <=> OnAxis(k, row))
    BY DEF IndexAt, OnAxis
  <1>4. ASSUME NEW p PROVE SlabChunks(p)' = SlabChunks(p)
    BY <1>2 DEF SlabChunks
  <1>5. ASSUME NEW p PROVE SlabRows(p)' = SlabRows(p)
    BY <1>2, <1>3 DEF SlabRows
  <1>6. ASSUME NEW p PROVE OffGrid(p)' <=> OffGrid(p)
    BY <1>2, <1>3 DEF OffGrid
  <1>7. ASSUME NEW v, NEW row PROVE RowValue(v, row)' = RowValue(v, row) /\ CellOf(row)' = CellOf(row)
    BY <1>3 DEF RowValue, CellOf
  <1>8. ASSUME NEW v, NEW cell PROVE ImageAt(v, cell)' = ImageAt(v, cell)
    <2> DEFINE here == RowsAt(Rows(copy), v, cell)
    <2>1. here' = here
      BY <1>7 DEF RowsAt
    <2>2. ValueOf(v, here)' = ValueOf(v, here)
      BY <1>7, <2>1 DEF ValueOf
    <2> QED
      BY <2>2 DEF ImageAt
  <1> QED
    BY <1>1, <1>2, <1>4, <1>5, <1>6, <1>8

\* A buffer holds in every cell the value of its row.
LEMMA ScatteredAt ==
    ASSUME NEW rows, NEW cells, NEW v \in 1 .. copy.nvars, NEW cell \in cells
    PROVE  Scattered(rows, cells)[v][cell] = ValueOf(v, RowsAt(rows, v, cell))
  <1> DEFINE at == [row \in rows |-> CellOf(row)]
             here == {r \in rows : at[r] = cell /\ RowValue(v, r) # Fill}
  <1>1. Scattered(rows, cells)[v][cell]
          = IF here = {} THEN Fill ELSE RowValue(v, CHOOSE r \in here : TRUE)
    BY DEF Scattered
  <1>2. here = RowsAt(rows, v, cell)
    BY DEF RowsAt
  <1> HIDE DEF here
  <1> QED
    BY <1>1, <1>2 DEF ValueOf

\* The buffer of a slab agrees with the image of all rows.
LEMMA SlabImage ==
    ASSUME HasGrid, Validate(spec), NEW p \in DOMAIN Slabs, NEW v \in 1 .. copy.nvars,
           NEW cell \in Cells(spec), InSlab(p, cell[1])
    PROVE  Scattered(SlabRows(p), {x \in Cells(spec) : InSlab(p, x[1])})[v][cell] = ImageAt(v, cell)
  <1>1. ASSUME NEW r \in Rows(copy), CellOf(r) = cell PROVE r \in SlabRows(p)
    <2>1. CellOf(r)[1] = IndexAt(1, r)
      BY ValidFacts DEF CellOf
    <2> QED
      BY <1>1, <2>1 DEF SlabRows
  <1>2. SlabRows(p) \subseteq Rows(copy)
    BY DEF SlabRows
  <1>3. RowsAt(SlabRows(p), v, cell) = RowsAt(Rows(copy), v, cell)
    BY <1>1, <1>2 DEF RowsAt
  <1>4. cell \in {x \in Cells(spec) : InSlab(p, x[1])}
    OBVIOUS
  <1> QED
    BY <1>3, <1>4, ScatteredAt DEF ImageAt

\* Values are fill or those of rows.
LEMMA ImageValues ==
    ASSUME NEW v \in 1 .. copy.nvars, NEW cell
    PROVE  ImageAt(v, cell) \in {Fill, Old} \cup ((1 .. copy.nvars) \X Rows(copy))
  <1> DEFINE here == RowsAt(Rows(copy), v, cell)
  <1>1. CASE here = {}
    BY <1>1 DEF ImageAt, ValueOf
  <1>2. CASE here # {}
    <2>1. (CHOOSE r \in here : TRUE) \in here
      BY <1>2
    <2>2. PICK r \in Rows(copy) : ImageAt(v, cell) = RowValue(v, r)
      BY <1>2, <2>1 DEF ImageAt, ValueOf, RowsAt
    <2> QED
      BY <2>2 DEF RowValue
  <1> QED
    BY <1>1, <1>2

\* What a writer stores in a chunk of its slab is the image of the rows, whatever
\* it read there before.
LEMMA MergedIsImage ==
    ASSUME HasGrid, Validate(spec), NEW p \in DOMAIN Slabs, WriterOK(p),
           writers[p].state = "store", NEW v \in 1 .. copy.nvars, NEW c \in SlabChunks(p), NEW old
    PROVE  LET new == Merged(p, v, c, old)
           IN /\ \A cell \in CellsOf(spec, c) : Read(new, cell) = ImageAt(v, cell)
              /\ new # Absent => DOMAIN new = CellsOf(spec, c)
  <1> DEFINE D     == CellsOf(spec, c)
             image == [cell \in D |-> ImageAt(v, cell)]
  <1>1. ASSUME NEW cell \in D
        PROVE  InSlab(p, cell[1]) /\ writers[p].buf[v][cell] = ImageAt(v, cell)
    BY ChunkInSlab DEF WriterOK
  <1>2. Merged(p, v, c, old) = IF \A cell \in D : image[cell] = Fill THEN Absent ELSE image
    <2> DEFINE new == [cell \in D |->
                   CASE InSlab(p, cell[1]) -> writers[p].buf[v][cell]
                     [] ~InSlab(p, cell[1]) /\ old = Absent -> Fill
                     [] OTHER -> old[cell]]
    <2>1. new = image
      BY <1>1
    <2>2. Merged(p, v, c, old) = IF \A cell \in DOMAIN new : new[cell] = Fill THEN Absent ELSE new
      BY DEF Merged
    <2> HIDE DEF new
    <2> QED
      BY <2>1, <2>2
  <1>3. image # Absent
    <2> DEFINE values == {Fill, Old} \cup ((1 .. copy.nvars) \X Rows(copy))
    <2>1. image \in [D -> values]
      BY ImageValues
    <2>2. c \in Chunks(spec)
      BY DEF SlabChunks
    <2>3. Absent \notin [D -> values]
      BY <2>2, AbsentAssumption DEF HasGrid
    <2> QED
      BY <2>1, <2>3
  <1>4. DOMAIN image = D /\ \A cell \in D : image[cell] = ImageAt(v, cell)
    OBVIOUS
  <1> HIDE DEF image
  <1> QED
    BY <1>2, <1>3, <1>4 DEF Read

-----------------------------------------------------------------------------
(* The invariant holds initially and is kept. *)

\* What the copy finds.
LEMMA FoundFacts ==
    ASSUME NEW q, NEW sp, sp = MaterializeSpec(q), sp.grid # <<>>
    PROVE  /\ DOMAIN Found(q) = IF Validate(sp) THEN (1 .. q.nvars) \X Chunks(sp) ELSE {}
           /\ \A key \in DOMAIN Found(q) :
                 /\ Found(q)[key] = FoundChunk(q, sp, key[2])
                 /\ Found(q)[key] # Absent => DOMAIN Found(q)[key] = CellsOf(sp, key[2])
  <1> DEFINE keys == IF Validate(sp) THEN (1 .. q.nvars) \X Chunks(sp) ELSE {}
  <1>1. Found(q) = [key \in keys |-> FoundChunk(q, sp, key[2])]
    BY DEF Found
  <1> HIDE DEF keys
  <1>2. DOMAIN Found(q) = keys /\ \A key \in keys : Found(q)[key] = FoundChunk(q, sp, key[2])
    BY <1>1
  <1>3. \A key \in keys : FoundChunk(q, sp, key[2]) # Absent
            => DOMAIN FoundChunk(q, sp, key[2]) = CellsOf(sp, key[2])
    BY DEF FoundChunk
  <1> QED
    BY <1>2, <1>3 DEF keys

\* A copy begins with nothing done.
LEMMA InitIInv == Init => IInv
  <1> SUFFICES ASSUME Init PROVE IInv
    OBVIOUS
  <1>1. Planned /\ MadeOK /\ StoreOK
    BY DEF Init, Planned, MadeOK, StoreOK, Phases
  <1>2. ChunksOK /\ WritersOK /\ DoneOK
    BY DEF Init, ChunksOK, WritersOK, DoneOK
  <1> QED
    BY <1>1, <1>2 DEF IInv

\* Chunks that stay as they are keep their reading.
LEMMA SameImages ==
    ASSUME copy' = copy, spec' = spec, NEW key, store'[key] = store[key]
    PROVE  IsImage(key)' <=> IsImage(key)
  BY Frame DEF IsImage, Read

\* A writer keeps its invariant while it and its chunks stay as they are.
LEMMA SameWriter ==
    ASSUME copy' = copy, spec' = spec, NEW p, writers'[p] = writers[p], WriterOK(p),
           \A v \in 1 .. copy.nvars : \A c \in SlabChunks(p) :
               IsImage(<<v, c>>) => IsImage(<<v, c>>)'
    PROVE  WriterOK(p)'
  <1>1. \A v, c : Behind(p, v, c)' <=> Behind(p, v, c)
    BY DEF Behind
  <1> QED
    BY <1>1, Frame DEF WriterOK

\* A step of the whole copy leaves the store and the writers alone.
LEMMA QuietStep ==
    ASSUME IInv, UNCHANGED <<copy, spec, store, writers>>,
           phase \notin {"plan", "rejected"}, phase' \in Phases \ {"plan", "rejected"},
           writers = <<>> => phase' \notin {"write", "done"},
           writers # <<>> => made' = made /\ phase' \in {"write", "done", "failed", "crashed"}
    PROVE  Planned' /\ StoreOK' /\ ChunksOK' /\ WritersOK'
  <1> USE DEF IInv
  <1>1. Planned'
    BY DEF Planned, HasGrid
  <1>2. StoreOK'
    BY DEF StoreOK
  <1>3. ChunksOK'
    BY SameImages DEF ChunksOK
  <1>4. WritersOK'
    <2>1. ASSUME NEW p, WriterOK(p) PROVE WriterOK(p)'
      BY <2>1, SameWriter, SameImages
    <2> QED
      BY <2>1, Frame DEF WritersOK
  <1> QED
    BY <1>1, <1>2, <1>3, <1>4

\* A step of writer p, which loses no image.
LEMMA WriterStep ==
    ASSUME IInv, NEW p \in DOMAIN writers, phase = "write",
           UNCHANGED <<copy, spec, phase, made, count>>,
           DOMAIN writers' = DOMAIN writers,
           \A o \in DOMAIN writers : o # p => writers'[o] = writers[o],
           DOMAIN store' = DOMAIN store,
           \A key \in DOMAIN store : IsImage(key) => IsImage(key)',
           ChunksOK', WriterOK(p)'
    PROVE  IInv'
  <1> USE DEF IInv
  <1>1. writers # <<>> /\ writers' # <<>>
    OBVIOUS
  <1>2. HasGrid /\ Validate(spec)
    BY <1>1, GridFacts DEF Planned, MadeOK, WritersOK, SkeletonSize
  <1>3. Planned' /\ MadeOK' /\ DoneOK'
    BY DEF Planned, HasGrid, MadeOK, DoneOK
  <1>4. StoreOK'
    BY <1>1 DEF StoreOK
  <1>5. WritersOK'
    <2>1. ASSUME NEW o \in DOMAIN Slabs, o # p PROVE WriterOK(o)'
      <3>1. WriterOK(o) /\ writers'[o] = writers[o]
        BY <1>1, <2>1 DEF WritersOK
      <3>2. ASSUME NEW v \in 1 .. copy.nvars, NEW c \in SlabChunks(o)
            PROVE  <<v, c>> \in DOMAIN store
        BY <1>2, FoundFacts DEF StoreOK, HasGrid, SlabChunks
      <3> QED
        BY <3>1, <3>2, SameWriter
    <2> QED
      BY <1>1, <2>1, Frame DEF WritersOK
  <1> QED
    BY <1>3, <1>4, <1>5

\* The steps before the writers, their end and a crash.
LEMMA PlanStep == IInv /\ CreateWriterPhysicalPlan => IInv'
  <1> SUFFICES ASSUME IInv, CreateWriterPhysicalPlan PROVE IInv'
    OBVIOUS
  <1> USE DEF IInv
  <1>1. /\ phase = "plan" /\ writers = <<>> /\ made = 0 /\ store = Found(copy)
        /\ UNCHANGED <<copy, made, store, writers, count>>
    BY DEF CreateWriterPhysicalPlan, MadeOK, StoreOK, WritersOK
  <1>2. Planned' /\ MadeOK' /\ StoreOK' /\ WritersOK' /\ DoneOK' /\ phase' \in {"drain", "rejected"}
        /\ (phase' = "drain" => HasGrid')
    <2>1. CASE phase' = "drain" /\ spec' = MaterializeSpec(copy) /\ DeriveWriteShape(copy) # <<>>
      <3>1. MaterializeSpec(copy).grid = DeriveWriteShape(copy)
        BY DEF MaterializeSpec
      <3>2. HasGrid'
        BY <1>1, <2>1, <3>1 DEF HasGrid, Planned
      <3> QED
        BY <1>1, <2>1, <3>2 DEF Planned, MadeOK, StoreOK, WritersOK, DoneOK, Phases
    <2>2. CASE phase' = "rejected" /\ UNCHANGED spec
      BY <1>1, <2>2 DEF Planned, MadeOK, StoreOK, WritersOK, DoneOK, Phases
    <2> QED
      BY <2>1, <2>2 DEF CreateWriterPhysicalPlan
  <1>3. ChunksOK'
    <2>1. CASE phase' = "drain"
      <3>1. spec' = MaterializeSpec(copy) /\ spec'.grid # <<>>
        BY <1>1, <1>2, <2>1 DEF HasGrid
      <3>2. \A key \in DOMAIN Found(copy) :
               /\ Found(copy)[key] = FoundChunk(copy, MaterializeSpec(copy), key[2])
               /\ Found(copy)[key] # Absent => DOMAIN Found(copy)[key] = CellsOf(MaterializeSpec(copy), key[2])
        BY <3>1, FoundFacts
      <3>3. copy' = copy /\ store' = Found(copy) /\ spec' = MaterializeSpec(copy)
        BY <1>1, <3>1
      <3> QED
        BY <3>2, <3>3, Zenon DEF ChunksOK
    <2>2. CASE phase' = "rejected"
      BY <2>2 DEF ChunksOK
    <2> QED
      BY <1>2, <2>1, <2>2
  <1> QED
    BY <1>2, <1>3

\* The query is drained.
LEMMA DrainStep == IInv /\ Drain => IInv'
  <1> SUFFICES ASSUME IInv, Drain PROVE IInv'
    OBVIOUS
  <1> USE DEF IInv, Drain
  <1>1. writers = <<>>
    BY DEF WritersOK
  <1>2. Planned' /\ StoreOK' /\ ChunksOK' /\ WritersOK'
    BY <1>1, QuietStep DEF Phases
  <1>3. MadeOK' /\ DoneOK'
    BY DEF MadeOK, DoneOK
  <1> QED
    BY <1>2, <1>3

\* The skeleton of the target is created.
LEMMA SkeletonStep == IInv /\ CreateSkeleton => IInv'
  <1> SUFFICES ASSUME IInv, CreateSkeleton PROVE IInv'
    OBVIOUS
  <1> USE DEF IInv
  <1>1. /\ writers = <<>> /\ phase = "skeleton" /\ phase' \in {"skeleton", "failed"}
        /\ UNCHANGED <<copy, spec, store, writers, count>>
    BY DEF CreateSkeleton, WritersOK
  <1>2. Planned' /\ StoreOK' /\ ChunksOK' /\ WritersOK'
    BY <1>1, QuietStep DEF Phases
  <1>3. MadeOK'
    BY <1>1 DEF CreateSkeleton, MadeOK
  <1>4. DoneOK'
    BY <1>1 DEF DoneOK
  <1> QED
    BY <1>2, <1>3, <1>4

\* The writers start, each with the chunks of its slab.
LEMMA StartStep == IInv /\ StartWriters => IInv'
  <1> SUFFICES ASSUME IInv, StartWriters PROVE IInv'
    OBVIOUS
  <1> USE DEF IInv
  <1> DEFINE first == [state |-> "scatter", buf |-> <<>>, var |-> 1, todo |-> {}, held |-> <<>>]
  <1>1. /\ phase = "skeleton" /\ phase' = "write" /\ made = SkeletonSize
        /\ UNCHANGED <<copy, spec, made, store, count>>
        /\ writers' = [p \in DOMAIN Slabs |-> first]
    BY DEF StartWriters
  <1>2. HasGrid /\ Validate(spec)
    BY <1>1, GridFacts DEF Planned, MadeOK, SkeletonSize
  <1>3. DOMAIN writers' = DOMAIN Slabs /\ writers' # <<>>
    BY <1>1, <1>2, SlabsCut
  <1>4. Planned' /\ MadeOK' /\ DoneOK'
    BY <1>1, <1>2 DEF Planned, HasGrid, MadeOK, DoneOK, Phases
  <1>5. StoreOK'
    BY <1>1, <1>3 DEF StoreOK
  <1>6. ChunksOK'
    BY <1>1, SameImages DEF ChunksOK
  <1>7. ASSUME NEW p \in DOMAIN Slabs PROVE WriterOK(p)'
    <2>1. writers'[p] = first
      BY <1>1
    <2>2. /\ DOMAIN writers'[p] = {"state", "buf", "var", "todo", "held"}
          /\ writers'[p].state = "scatter" /\ writers'[p].var = 1 /\ writers'[p].todo = {}
          /\ writers'[p].held = <<>>
      BY <2>1
    <2>3. 1 \in 1 .. copy.nvars
      BY <1>2, GridFacts
    <2> HIDE DEF first
    <2> QED
      BY <1>1, <2>2, <2>3 DEF WriterOK, Behind
  <1>8. WritersOK'
    BY <1>1, <1>3, <1>7, Frame DEF WritersOK
  <1> QED
    BY <1>4, <1>5, <1>6, <1>8

\* The writers are joined.
LEMMA JoinStep == IInv /\ Join => IInv'
  <1> SUFFICES ASSUME IInv, Join PROVE IInv'
    OBVIOUS
  <1> USE DEF IInv
  <1>1. /\ phase = "write" /\ phase' \in {"done", "failed"}
        /\ UNCHANGED <<copy, spec, made, store, writers>>
    BY DEF Join
  <1>2. writers # <<>>
    BY <1>1 DEF StoreOK
  <1>3. Planned' /\ StoreOK' /\ ChunksOK' /\ WritersOK'
    BY <1>1, <1>2, QuietStep DEF Phases
  <1>4. MadeOK'
    BY <1>1 DEF MadeOK
  <1>5. DoneOK'
    <2>1. \A p : SlabRows(p)' = SlabRows(p)
      BY <1>1, Frame
    <2> QED
      BY <1>1, <2>1 DEF Join, DoneOK
  <1> QED
    BY <1>3, <1>4, <1>5

\* The process dies; what is stored stays.
LEMMA CrashStep == IInv /\ Crash => IInv'
  <1> SUFFICES ASSUME IInv, Crash PROVE IInv'
    OBVIOUS
  <1> USE DEF IInv, Crash
  <1>1. Planned' /\ StoreOK' /\ ChunksOK' /\ WritersOK'
    BY QuietStep DEF Phases
  <1>2. MadeOK' /\ DoneOK'
    BY DEF MadeOK, DoneOK
  <1> QED
    BY <1>1, <1>2

\* A copy with writers has a valid spec, and the store has a place for every chunk.
LEMMA WriterFacts ==
    ASSUME IInv, writers # <<>>
    PROVE  /\ HasGrid /\ Validate(spec) /\ DOMAIN writers = DOMAIN Slabs
           /\ \A p \in DOMAIN writers : WriterOK(p)
           /\ DOMAIN store = (1 .. copy.nvars) \X Chunks(spec)
  <1> USE DEF IInv
  <1>1. HasGrid /\ Validate(spec)
    BY GridFacts DEF Planned, MadeOK, WritersOK, SkeletonSize
  <1>2. DOMAIN writers = DOMAIN Slabs /\ \A p \in DOMAIN writers : WriterOK(p)
    BY DEF WritersOK
  <1>3. DOMAIN store = (1 .. copy.nvars) \X Chunks(spec)
    BY <1>1, FoundFacts DEF StoreOK, HasGrid
  <1> QED
    BY <1>1, <1>2, <1>3

\* Steps of a writer that do not store.
LEMMA UnstoredStep ==
    ASSUME IInv, NEW p \in DOMAIN writers, phase = "write",
           UNCHANGED <<copy, spec, phase, made, store, count>>,
           NEW w, writers' = [writers EXCEPT ![p] = w], WriterOK(p)'
    PROVE  IInv'
  <1>1. \A key \in DOMAIN store : IsImage(key) => IsImage(key)'
    BY SameImages
  <1>2. ChunksOK'
    BY SameImages DEF IInv, ChunksOK
  <1> QED
    BY <1>1, <1>2, WriterStep

\* A writer scatters its rows into its buffer.
LEMMA ScatterStep ==
    ASSUME IInv, NEW p \in DOMAIN writers, ScatterRows(p)
    PROVE  IInv'
  <1> DEFINE w == writers[p]
             slab == {cell \in Cells(spec) : InSlab(p, cell[1])}
  <1>1. /\ phase = "write" /\ w.state = "scatter" /\ writers # <<>>
        /\ UNCHANGED <<copy, spec, phase, made, store, count>>
    BY DEF ScatterRows
  <1>2. /\ HasGrid /\ Validate(spec) /\ p \in DOMAIN Slabs /\ WriterOK(p)
    BY <1>1, WriterFacts
  <1>3. PICK s \in Outcomes(p) :
            writers' = [writers EXCEPT ![p] =
                IF s = "failed" THEN [@ EXCEPT !.state = s]
                ELSE [@ EXCEPT !.state = s, !.todo = SlabChunks(p),
                               !.buf = Scattered(SlabRows(p), slab)]]
    BY DEF ScatterRows
  <1>4. s \in {"store", "failed"} /\ (s = "store" => ~OffGrid(p))
    BY DEF Outcomes
  <1>5. /\ DOMAIN w = {"state", "buf", "var", "todo", "held"}
        /\ w.var \in 1 .. copy.nvars /\ w.var = 1
        /\ w.todo \subseteq SlabChunks(p) /\ w.held = <<>>
    BY <1>1, <1>2 DEF WriterOK
  <1>6. CASE s = "failed"
    <2>1. writers' = [writers EXCEPT ![p] = [w EXCEPT !.state = "failed"]]
      BY <1>3, <1>6
    <2>2. writers'[p] = [w EXCEPT !.state = "failed"]
      BY <2>1
    <2>3. /\ DOMAIN writers'[p] = DOMAIN w /\ writers'[p].state = "failed"
          /\ writers'[p].var = w.var /\ writers'[p].todo = w.todo
          /\ writers'[p].held = <<>>
      BY <1>5, <2>2
    <2>4. WriterOK(p)'
      BY <1>1, <1>5, <2>3, Frame DEF WriterOK, Behind
    <2> QED
      BY <1>1, <2>1, <2>4, UnstoredStep
  <1>7. CASE s = "store"
    <2> DEFINE buf == Scattered(SlabRows(p), slab)
               x   == [w EXCEPT !.state = "store", !.todo = SlabChunks(p), !.buf = buf]
    <2>1. writers' = [writers EXCEPT ![p] = x]
      BY <1>3, <1>7
    <2>2. writers'[p] = x
      BY <2>1
    <2> HIDE DEF buf
    <2>3. /\ DOMAIN writers'[p] = DOMAIN w /\ writers'[p].state = "store"
          /\ writers'[p].var = w.var /\ writers'[p].todo = SlabChunks(p)
          /\ writers'[p].buf = buf /\ writers'[p].held = w.held
      BY <1>5, <2>2
    <2>4. ASSUME NEW v \in 1 .. copy.nvars, NEW cell \in Cells(spec), InSlab(p, cell[1])
          PROVE  buf[v][cell] = ImageAt(v, cell)
      BY <1>2, <2>4, SlabImage DEF buf
    <2>5. ASSUME NEW v \in 1 .. copy.nvars, NEW c \in SlabChunks(p)
          PROVE  ~Behind(p, v, c)'
      BY <1>5, <2>3 DEF Behind
    <2>6. ~OffGrid(p)' /\ SlabChunks(p)' = SlabChunks(p)
      BY <1>1, <1>4, <1>7, Frame
    <2>7. \A v \in 1 .. copy.nvars : \A cell \in Cells(spec) :
              InSlab(p, cell[1])' => buf[v][cell] = ImageAt(v, cell)'
      BY <1>1, <2>4, Frame
    <2>8. WriterOK(p)'
      BY <1>1, <1>5, <2>3, <2>5, <2>6, <2>7 DEF WriterOK
    <2> HIDE DEF x
    <2> QED
      BY <1>1, <2>1, <2>8, UnstoredStep
  <1> QED
    BY <1>4, <1>6, <1>7

\* A writer reads a chunk that its slab covers in part.
LEMMA ReadStep ==
    ASSUME IInv, NEW p \in DOMAIN writers, ReadEdgeChunk(p)
    PROVE  IInv'
  <1> DEFINE w == writers[p]
  <1>1. /\ phase = "write" /\ w.state = "store" /\ writers # <<>>
        /\ UNCHANGED <<copy, spec, phase, made, store, count>>
    BY DEF ReadEdgeChunk
  <1>2. WriterOK(p)
    BY <1>1, WriterFacts
  <1>3. PICK c \in w.todo :
            writers' = [writers EXCEPT ![p].held = <<c, store[<<w.var, c>>]>>]
    BY DEF ReadEdgeChunk
  <1> DEFINE x == [w EXCEPT !.held = <<c, store[<<w.var, c>>]>>]
  <1>4. writers' = [writers EXCEPT ![p] = x]
    BY <1>3
  <1>5. DOMAIN w = {"state", "buf", "var", "todo", "held"}
    BY <1>2 DEF WriterOK
  <1>6. /\ writers'[p] = x /\ DOMAIN x = DOMAIN w /\ x.state = "store" /\ x.var = w.var
        /\ x.todo = w.todo /\ x.buf = w.buf /\ x.held[1] = c
    BY <1>1, <1>4, <1>5
  <1> HIDE DEF x
  <1>7. \A v, d : /\ Behind(p, v, d)' <=> Behind(p, v, d)
                  /\ IsImage(<<v, d>>)' <=> IsImage(<<v, d>>)
    BY <1>1, <1>6, SameImages DEF Behind
  <1>8. WriterOK(p)'
    BY <1>1, <1>2, <1>6, <1>7, Frame DEF WriterOK
  <1> QED
    BY <1>1, <1>4, <1>8, UnstoredStep

\* A write fails.
LEMMA FailStep ==
    ASSUME IInv, NEW p \in DOMAIN writers, WriterFails(p)
    PROVE  IInv'
  <1> DEFINE w == writers[p]
             x == [w EXCEPT !.state = "failed", !.held = <<>>]
  <1>1. /\ phase = "write" /\ writers # <<>>
        /\ UNCHANGED <<copy, spec, phase, made, store, count>>
        /\ writers' = [writers EXCEPT ![p].state = "failed", ![p].held = <<>>]
    BY DEF WriterFails
  <1>2. WriterOK(p)
    BY <1>1, WriterFacts
  <1>3. writers' = [writers EXCEPT ![p] = x]
    BY <1>1
  <1>4. DOMAIN w = {"state", "buf", "var", "todo", "held"}
    BY <1>2 DEF WriterOK
  <1>5. /\ writers'[p] = x /\ DOMAIN x = DOMAIN w /\ x.state = "failed" /\ x.var = w.var
        /\ x.todo = w.todo /\ x.held = <<>>
    BY <1>3, <1>4
  <1> HIDE DEF x
  <1>6. WriterOK(p)'
    BY <1>1, <1>2, <1>5, Frame DEF WriterOK, Behind
  <1> QED
    BY <1>1, <1>3, <1>6, UnstoredStep

\* A writer stores chunk c of its current variable, whatever it read there.
LEMMA StoringStep ==
    ASSUME IInv, NEW p \in DOMAIN writers, NEW c \in writers[p].todo, NEW old,
           phase = "write", writers[p].state = "store",
           UNCHANGED <<copy, spec, phase, made, count>>,
           store' = [store EXCEPT ![<<writers[p].var, c>>] = Merged(p, writers[p].var, c, old)],
           writers' = [writers EXCEPT ![p] = Advance(p, c)]
    PROVE  IInv'
  <1> DEFINE w == writers[p]
             x == Advance(p, c)
  <1>1. /\ HasGrid /\ Validate(spec) /\ p \in DOMAIN Slabs /\ WriterOK(p)
        /\ DOMAIN store = (1 .. copy.nvars) \X Chunks(spec)
    BY WriterFacts
  <1>2. /\ DOMAIN w = {"state", "buf", "var", "todo", "held"}
        /\ w.var \in 1 .. copy.nvars /\ w.todo \subseteq SlabChunks(p)
        /\ copy.nvars \in Nat
    BY <1>1, GridFacts DEF WriterOK
  \* The variable and the chunk as constants: a prime does not reach them.
  <1>3. PICK v, new : v = w.var /\ new = Merged(p, w.var, c, old)
    OBVIOUS
  <1>4. /\ v \in 1 .. copy.nvars /\ c \in SlabChunks(p) /\ <<v, c>> \in DOMAIN store
        /\ \A cell \in CellsOf(spec, c) : Read(new, cell) = ImageAt(v, cell)
        /\ new # Absent => DOMAIN new = CellsOf(spec, c)
    <2>1. v \in 1 .. copy.nvars /\ c \in SlabChunks(p) /\ c \in Chunks(spec)
      BY <1>2, <1>3 DEF SlabChunks
    <2> QED
      BY <1>1, <1>3, <2>1, MergedIsImage
  <1>5. /\ DOMAIN store' = DOMAIN store /\ store'[<<v, c>>] = new
        /\ \A key \in DOMAIN store : key # <<v, c>> => store'[key] = store[key]
    BY <1>3, <1>4
  <1>6. IsImage(<<v, c>>)'
    BY <1>4, <1>5, Frame DEF IsImage, Read
  <1>7. \A key \in DOMAIN store : IsImage(key) => IsImage(key)'
    BY <1>5, <1>6, SameImages
  <1>8. ChunksOK'
    <2>1. ASSUME NEW key \in DOMAIN store, key # <<v, c>>
          PROVE  /\ store'[key] = FoundChunk(copy, spec, key[2]) \/ IsImage(key)'
                 /\ store'[key] # Absent => DOMAIN store'[key] = CellsOf(spec, key[2])
      BY <1>5, <1>7, <2>1 DEF IInv, ChunksOK
    <2>2. new # Absent => DOMAIN new = CellsOf(spec, <<v, c>>[2])
      BY <1>4
    <2> QED
      BY <1>5, <1>6, <2>1, <2>2 DEF ChunksOK
  \* The writer goes on to the next chunk, the next variable, or its end.
  <1>9. /\ DOMAIN x = {"state", "buf", "var", "todo", "held"} /\ x.held = <<>> /\ x.buf = w.buf
        /\ \/ x.state = "store" /\ x.var = w.var /\ x.todo = w.todo \ {c}
           \/ /\ x.state = "store" /\ w.var < copy.nvars /\ x.var = w.var + 1
              /\ w.todo \ {c} = {} /\ x.todo = SlabChunks(p)
           \/ /\ x.state = "done" /\ ~(w.var < copy.nvars) /\ x.var = w.var
              /\ w.todo \ {c} = {} /\ x.todo = {}
    <2> DEFINE left == w.todo \ {c}
    <2>1. CASE left # {}
      <3>1. x = [w EXCEPT !.todo = left, !.held = <<>>]
        BY <2>1 DEF Advance
      <3> HIDE DEF x, left
      <3>2. DOMAIN x = DOMAIN w /\ x.held = <<>> /\ x.buf = w.buf /\ x.state = "store"
            /\ x.var = w.var /\ x.todo = left
        BY <1>2, <3>1
      <3> QED
        BY <1>2, <3>2 DEF left
    <2>2. CASE left = {} /\ w.var < copy.nvars
      <3>1. x = [w EXCEPT !.var = @ + 1, !.todo = SlabChunks(p), !.held = <<>>]
        BY <2>2 DEF Advance
      <3> HIDE DEF x
      <3>2. DOMAIN x = DOMAIN w /\ x.held = <<>> /\ x.buf = w.buf /\ x.state = "store"
            /\ x.var = w.var + 1 /\ x.todo = SlabChunks(p)
        BY <1>2, <3>1
      <3> QED
        BY <1>2, <2>2, <3>2
    <2>3. CASE left = {} /\ ~(w.var < copy.nvars)
      <3>1. x = [w EXCEPT !.state = "done", !.todo = {}, !.held = <<>>]
        BY <2>3 DEF Advance
      <3> HIDE DEF x
      <3>2. DOMAIN x = DOMAIN w /\ x.held = <<>> /\ x.buf = w.buf /\ x.state = "done"
            /\ x.var = w.var /\ x.todo = {}
        BY <1>2, <3>1
      <3> QED
        BY <1>2, <2>3, <3>2
    <2> QED
      BY <2>1, <2>2, <2>3
  <1> HIDE DEF x
  <1>10. writers'[p] = x /\ DOMAIN writers' = DOMAIN writers
         /\ \A o \in DOMAIN writers : o # p => writers'[o] = writers[o]
    BY DEF x
  <1>11. ASSUME NEW u \in 1 .. copy.nvars, NEW d \in SlabChunks(p), Behind(p, u, d)'
         PROVE  IsImage(<<u, d>>)'
    <2>1. <<u, d>> \in DOMAIN store
      BY <1>1 DEF SlabChunks
    <2>2. Behind(p, u, d) \/ <<u, d>> = <<v, c>>
      BY <1>2, <1>3, <1>9, <1>10, <1>11 DEF Behind
    <2> QED
      BY <1>1, <1>6, <1>7, <2>1, <2>2 DEF WriterOK
  <1>12. WriterOK(p)'
    <2>1. x.state \in {"store", "done"} /\ x.var \in 1 .. copy.nvars /\ x.todo \subseteq SlabChunks(p)
      BY <1>2, <1>9
    <2> QED
      BY <1>1, <1>9, <1>10, <1>11, <2>1, Frame DEF WriterOK
  <1> QED
    BY <1>5, <1>7, <1>8, <1>10, <1>12, WriterStep

\* A whole chunk is stored.
LEMMA StoreStep ==
    ASSUME IInv, NEW p \in DOMAIN writers, StoreChunk(p)
    PROVE  IInv'
  BY StoringStep DEF StoreChunk

\* A chunk is stored that was read and merged.
LEMMA StoreEdgeStep ==
    ASSUME IInv, NEW p \in DOMAIN writers, StoreEdgeChunk(p)
    PROVE  IInv'
  <1>1. writers # <<>>
    OBVIOUS
  <1>2. WriterOK(p)
    BY <1>1, WriterFacts
  <1>3. writers[p].held[1] \in writers[p].todo
    BY <1>2 DEF WriterOK, StoreEdgeChunk
  <1> QED
    BY <1>3, StoringStep DEF StoreEdgeChunk

\* Every step keeps the invariant.
LEMMA NextIInv == IInv /\ [Next]_vars => IInv'
  <1> SUFFICES ASSUME IInv, [Next]_vars PROVE IInv'
    OBVIOUS
  <1>1. CASE CreateWriterPhysicalPlan \/ Drain \/ CreateSkeleton \/ StartWriters \/ Join \/ Crash
    BY <1>1, PlanStep, DrainStep, SkeletonStep, StartStep, JoinStep, CrashStep
  <1>2. CASE \E p \in DOMAIN writers :
                \/ ScatterRows(p) \/ StoreChunk(p) \/ ReadEdgeChunk(p)
                \/ StoreEdgeChunk(p) \/ WriterFails(p)
    BY <1>2, ScatterStep, StoreStep, ReadStep, StoreEdgeStep, FailStep
  <1>3. CASE UNCHANGED vars
    <2> USE <1>3 DEF vars, IInv
    <2>1. Planned' /\ MadeOK' /\ StoreOK'
      BY DEF Planned, HasGrid, MadeOK, StoreOK
    <2>2. ChunksOK'
      BY SameImages DEF ChunksOK
    <2>3. WritersOK'
      <3>1. ASSUME NEW p, WriterOK(p) PROVE WriterOK(p)'
        BY <3>1, SameWriter, SameImages
      <3> QED
        BY <3>1, Frame DEF WritersOK
    <2>4. DoneOK'
      BY Frame DEF DoneOK
    <2> QED
      BY <2>1, <2>2, <2>3, <2>4
  <1> QED
    BY <1>1, <1>2, <1>3 DEF Next, Step

\* The inductive invariant holds in every state of every copy.
THEOREM IInvHolds == Spec => []IInv
  <1> QED
    BY InitIInv, NextIInv, PTL DEF Spec

-----------------------------------------------------------------------------
(* The properties. *)

\* The type invariant of the writer holds for any set of copies.
THEOREM TypeCorrect == Spec => []TypeOK
  <1>1. IInv => TypeOK
    <2> SUFFICES ASSUME IInv PROVE TypeOK
      OBVIOUS
    <2> USE DEF IInv
    <2>1. phase \in {"plan", "drain", "skeleton", "write", "rejected", "failed", "done", "crashed"}
      BY DEF Planned, Phases
    <2>2. spec = <<>> <=> phase \in {"plan", "rejected"}
      <3>1. HasGrid => spec # <<>>
        BY DEF HasGrid, MaterializeSpec
      <3> QED
        BY <3>1 DEF Planned
    <2>3. writers # <<>> => made = SkeletonSize
      BY DEF WritersOK
    <2>4. \A p \in DOMAIN writers : writers[p].todo \subseteq Chunks(spec)
      BY WriterFacts DEF WriterOK, SlabChunks
    <2>5. \A key \in DOMAIN store :
             store[key] # Absent /\ spec # <<>> => DOMAIN store[key] = CellsOf(spec, key[2])
      BY <2>2 DEF ChunksOK
    <2> QED
      BY <2>1, <2>2, <2>3, <2>4, <2>5 DEF TypeOK
  <1> QED
    BY <1>1, IInvHolds, PTL

\* A copy that is rejected, or whose spec is not valid, has made nothing in the
\* target, whatever fails and whenever.
THEOREM InvalidLeavesTargetHolds == Spec => []InvalidLeavesTarget
  <1>1. IInv => InvalidLeavesTarget
    BY DEF IInv, MadeOK, InvalidLeavesTarget
  <1> QED
    BY <1>1, IInvHolds, PTL

\* The image of the properties is the one of the invariant.
LEMMA ImageFacts ==
    ASSUME IInv, phase \notin {"plan", "rejected"}, NEW key \in DOMAIN store,
           NEW cell \in CellsOf(spec, key[2])
    PROVE  Scattered(Rows(copy), Cells(spec))[key[1]][cell] = ImageAt(key[1], cell)
  <1>1. HasGrid /\ DOMAIN store = DOMAIN Found(copy)
    BY DEF IInv, Planned, StoreOK
  <1>2. key[1] \in 1 .. copy.nvars
    <2>1. DOMAIN Found(copy) = IF Validate(spec) THEN (1 .. copy.nvars) \X Chunks(spec) ELSE {}
      BY <1>1, FoundFacts DEF HasGrid
    <2>2. key \in (1 .. copy.nvars) \X Chunks(spec)
      BY <1>1, <2>1
    <2> QED
      BY <2>2
  <1>3. cell \in Cells(spec)
    BY DEF CellsOf
  <1> QED
    BY <1>2, <1>3, ScatteredAt DEF ImageAt

\* At every moment every chunk is as it was found or holds all its rows, so also
\* after a failed writer or a crash.
THEOREM ChunksOldOrNewHolds == Spec => []ChunksOldOrNew
  <1>1. IInv => ChunksOldOrNew
    <2> SUFFICES ASSUME IInv, phase \in {"write", "done", "failed", "crashed"},
                        NEW key \in DOMAIN store
                 PROVE  \/ store[key] = FoundChunk(copy, spec, key[2])
                        \/ \A cell \in CellsOf(spec, key[2]) :
                              Read(store[key], cell)
                                = Scattered(Rows(copy), Cells(spec))[key[1]][cell]
      BY DEF ChunksOldOrNew
    <2> QED
      BY ImageFacts DEF IInv, ChunksOK, IsImage
  <1> QED
    BY <1>1, IInvHolds, PTL

\* When no writer misses a row, every row is in one slab.
LEMMA RowsInSlabs ==
    ASSUME HasGrid, Validate(spec), \A p \in DOMAIN Slabs : ~OffGrid(p)
    PROVE  /\ \A row \in Rows(copy) : \E p \in DOMAIN Slabs : row \in SlabRows(p)
           /\ \A p, o \in DOMAIN Slabs : \A row \in SlabRows(p) \cap SlabRows(o) : p = o
           /\ \A row \in Rows(copy) : \A k \in DOMAIN spec.grid : OnAxis(k, row)
  <1>1. ASSUME NEW row \in Rows(copy)
        PROVE  (\E p \in DOMAIN Slabs : row \in SlabRows(p)) /\ OnAxis(1, row)
    <2>1. PICK o \in DOMAIN Slabs : TRUE
      BY SlabsCut
    <2>2. OnAxis(1, row)
      BY <2>1 DEF OffGrid
    <2>3. IndexAt(1, row) \in 0 .. OuterLen - 1
      <3> DEFINE i == CHOOSE i \in DOMAIN spec.coords[1] :
                         spec.coords[1][i] = BatchValue(copy, spec.grid[1], row)
      <3>1. i \in DOMAIN spec.coords[1]
        BY <2>2 DEF OnAxis
      <3>2. DOMAIN spec.coords[1] = 1 .. OuterLen /\ OuterLen \in Nat
        BY CoordFacts, ValidFacts DEF OuterLen
      <3>3. IndexAt(1, row) = i - 1
        BY DEF IndexAt
      <3> HIDE DEF i
      <3> QED
        BY <3>1, <3>2, <3>3
    <2>4. PICK p \in DOMAIN Slabs : IndexAt(1, row) \in Members(Slabs[p])
      BY <2>3, SlabsCut DEF CutsOnChunks
    <2> QED
      BY <2>2, <2>4 DEF SlabRows, InSlab
  <1>2. ASSUME NEW p \in DOMAIN Slabs, NEW o \in DOMAIN Slabs, NEW row \in SlabRows(p) \cap SlabRows(o)
        PROVE  p = o
    <2> DEFINE i == IndexAt(1, row)
    <2>1. i \in Members(Slabs[p]) /\ i \in Members(Slabs[o])
      BY DEF SlabRows, InSlab
    <2>2. p \in Nat /\ o \in Nat /\ i \in Int
      <3>1. i \in 0 .. OuterLen - 1 /\ OuterLen \in Nat
        BY <2>1, SlabsCut, ValidFacts DEF CutsOnChunks
      <3> HIDE DEF i
      <3> QED
        BY <3>1, SlabsCut
    <2> HIDE DEF i
    <2>3. ~(p < o) /\ ~(o < p)
      <3>1. ~(i < i)
        BY <2>2
      <3> QED
        BY <2>1, <3>1, SlabsCut DEF CutsOnChunks
    <2> QED
      BY <2>2, <2>3
  <1>3. ASSUME NEW row \in Rows(copy), NEW k \in DOMAIN spec.grid PROVE OnAxis(k, row)
    <2>1. PICK p \in DOMAIN Slabs : row \in SlabRows(p)
      BY <1>1
    <2>2. InSlab(p, IndexAt(1, row))
      BY <2>1 DEF SlabRows
    <2>3. k = 1 \/ k \in 2 .. Len(spec.grid)
      BY GridFacts
    <2> QED
      BY <1>1, <2>2, <2>3 DEF OffGrid
  <1> QED
    BY <1>1, <1>2, <1>3

\* The rows of the writers are the rows of the query.
LEMMA RowsCounted ==
    ASSUME HasGrid, Validate(spec), \A p \in DOMAIN Slabs : ~OffGrid(p)
    PROVE  Cardinality(UNION {{p} \X SlabRows(p) : p \in DOMAIN Slabs}) = Cardinality(Rows(copy))
  <1> DEFINE T == UNION {{p} \X SlabRows(p) : p \in DOMAIN Slabs}
             f == [row \in Rows(copy) |-> <<CHOOSE p \in DOMAIN Slabs : row \in SlabRows(p), row>>]
  <1>1. ASSUME NEW row \in Rows(copy)
        PROVE  f[row] \in T /\ f[row][2] = row
    BY RowsInSlabs
  <1>2. ASSUME NEW t \in T PROVE \E row \in Rows(copy) : f[row] = t
    <2>0. PICK p \in DOMAIN Slabs : t \in {p} \X SlabRows(p)
      OBVIOUS
    <2>1. PICK row \in SlabRows(p) : t = <<p, row>>
      BY <2>0
    <2>2. row \in Rows(copy)
      BY DEF SlabRows
    <2> DEFINE o == CHOOSE o \in DOMAIN Slabs : row \in SlabRows(o)
    <2>3. o \in DOMAIN Slabs /\ row \in SlabRows(o)
      BY <2>1
    <2>4. o = p
      BY <2>1, <2>3, RowsInSlabs
    <2> QED
      BY <2>1, <2>2, <2>4
  <1> HIDE DEF T, f
  <1>3. f \in [Rows(copy) -> T]
    BY <1>1 DEF f
  <1>4. f \in Bijection(Rows(copy), T)
    BY <1>1, <1>2, <1>3 DEF Bijection, Injection, Surjection, IsInjective
  <1>5. IsFiniteSet(Rows(copy))
    BY CopiesAssumption DEF HasGrid
  <1>6. Cardinality(T) = Cardinality(Rows(copy))
    BY <1>4, <1>5, SameSize
  <1> QED
    BY <1>6 DEF T

\* When the copy has ended well, no writer has missed a row.
LEMMA DoneFacts ==
    ASSUME IInv, phase = "done"
    PROVE  /\ writers # <<>> /\ HasGrid /\ Validate(spec) /\ DOMAIN writers = DOMAIN Slabs
           /\ \A p \in DOMAIN Slabs : WriterOK(p) /\ writers[p].state = "done" /\ ~OffGrid(p)
  <1>1. writers # <<>>
    BY DEF IInv, StoreOK
  <1> QED
    BY <1>1, WriterFacts DEF IInv, DoneOK, WriterOK

\* A copy that reports success has written every row into its cell and fill into
\* the cells without one, and reports the number of rows, for any grid, chunk
\* shape, number of slabs and order of the threads.
THEOREM CopyExactHolds == Spec => []CopyExact
  <1>1. IInv => CopyExact
    <2> SUFFICES ASSUME IInv, phase = "done"
                 PROVE  /\ count = Cardinality(Rows(copy))
                        /\ \A key \in DOMAIN store : \A cell \in CellsOf(spec, key[2]) :
                              Read(store[key], cell)
                                = Scattered(Rows(copy), Cells(spec))[key[1]][cell]
      BY DEF CopyExact
    <2>1. count = Cardinality(Rows(copy))
      BY DoneFacts, RowsCounted DEF IInv, DoneOK
    <2>2. ASSUME NEW key \in DOMAIN store PROVE IsImage(key)
      <3>1. key \in (1 .. copy.nvars) \X Chunks(spec)
        BY DoneFacts, WriterFacts
      <3>2. PICK v \in 1 .. copy.nvars, c \in Chunks(spec) : key = <<v, c>>
        BY <3>1
      <3>3. PICK p \in DOMAIN Slabs : c \in SlabChunks(p)
        BY DoneFacts, ChunkHasSlab
      <3> QED
        BY <3>2, <3>3, DoneFacts DEF WriterOK, Behind
    <2> QED
      BY <2>1, <2>2, ImageFacts DEF IsImage
  <1> QED
    BY <1>1, IInvHolds, PTL

\* No coordinate value occurs twice on its axis.
AxesDistinct ==
    \A q \in Copies : \A a \in DOMAIN q.axes : \A i, j \in DOMAIN q.axes[a] :
        q.axes[a][i] = q.axes[a][j] => i = j

\* Where no axis repeats a value, the rule of derive_write_shape is enough: the
\* rows of a copy that reports success have a cell each.
THEOREM CellsHaveOneRowHolds ==
    ASSUME AxesDistinct
    PROVE  Spec => []CellsHaveOneRow
  <1>1. IInv => CellsHaveOneRow
    <2> SUFFICES ASSUME IInv, phase = "done",
                        NEW r \in Rows(copy), NEW s \in Rows(copy), r # s
                 PROVE  CellOf(r) # CellOf(s)
      BY DEF CellsHaveOneRow
    <2>1. HasGrid /\ \A row \in Rows(copy) : \A k \in DOMAIN spec.grid : OnAxis(k, row)
      BY DoneFacts, RowsInSlabs
    <2>2. PICK a \in RowAxes(copy) : r[a] # s[a]
      BY DEF Rows
    <2>3. PICK k \in DOMAIN spec.grid : spec.grid[k] = a
      BY <2>1, <2>2, GridFacts
    <2>4. ASSUME NEW row \in Rows(copy)
          PROVE  /\ CellOf(row)[k] + 1 \in DOMAIN spec.coords[k]
                 /\ spec.coords[k][CellOf(row)[k] + 1] = BatchValue(copy, a, row)
                 /\ row[a] + 1 \in DOMAIN copy.axes[a] /\ row[a] \in Int
      <3> DEFINE i == CHOOSE i \in DOMAIN spec.coords[k] :
                         spec.coords[k][i] = BatchValue(copy, spec.grid[k], row)
      <3>1. i \in DOMAIN spec.coords[k] /\ spec.coords[k][i] = BatchValue(copy, a, row)
        BY <2>1, <2>3 DEF OnAxis
      <3>2. i \in Int
        BY <3>1, <2>1, CoordFacts
      <3>3. CellOf(row)[k] = i - 1
        BY DEF CellOf, IndexAt
      <3>4. CellOf(row)[k] + 1 = i
        <4> HIDE DEF i
        <4> QED
          BY <3>2, <3>3
      <3>5. row[a] \in Members(copy.keep[a])
        BY <2>2 DEF Rows
      <3>6. a \in DOMAIN copy.axes /\ CopyOK(copy)
        BY <2>1, <2>2, CopiesAssumption DEF HasGrid, RowAxes, SourceAxes, CopyOK
      <3>7. row[a] \in 0 .. Len(copy.axes[a]) - 1
        BY <3>5, <3>6, Zenon DEF CopyOK
      <3>8. Len(copy.axes[a]) \in Nat /\ DOMAIN copy.axes[a] = 1 .. Len(copy.axes[a])
        BY <3>6 DEF CopyOK
      <3>9. row[a] + 1 \in DOMAIN copy.axes[a] /\ row[a] \in Int
        BY <3>7, <3>8
      <3> HIDE DEF i
      <3> QED
        BY <3>1, <3>4, <3>9
    <2>5. ASSUME CellOf(r) = CellOf(s) PROVE FALSE
      <3>1. BatchValue(copy, a, r) = BatchValue(copy, a, s)
        BY <2>4, <2>5
      <3>2. a \in DOMAIN copy.axes /\ copy.axes[a] \in Seq(Int)
        BY <2>1, <2>2, CopiesAssumption DEF HasGrid, RowAxes, SourceAxes, CopyOK
      <3>3. copy.axes[a][r[a] + 1] \in Int /\ copy.axes[a][s[a] + 1] \in Int
        BY <2>4, <3>2
      <3>4. copy.axes[a][r[a] + 1] = copy.axes[a][s[a] + 1]
        BY <3>1, <3>3 DEF BatchValue, Decoded
      <3>5. r[a] + 1 = s[a] + 1
        BY <2>1, <2>4, <3>2, <3>4 DEF AxesDistinct, HasGrid
      <3> QED
        BY <2>2, <2>4, <3>5
    <2> QED
      BY <2>5
  <1> QED
    BY <1>1, IInvHolds, PTL
=============================================================================
