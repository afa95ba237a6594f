----------------------------- MODULE VirtualRefs -----------------------------
(***************************************************************************)
(* VirtualiZarr stores: reader/parquet_refs.rs and the chunk side of        *)
(* reader/virtual_store.rs.  An array has its references in files           *)
(* refs.0.parq, refs.1.parq, ...; the k-th file here is refs.(k-1).parq:    *)
(*   ok     it is a Parquet file with the expected columns                  *)
(*   refs   its rows: inline (the bytes are in the row), or the path of an  *)
(*          object in a bucket.  A path stands for path, offset and length. *)
(***************************************************************************)
EXTENDS Integers, Sequences, FiniteSets, SequencesExt

\* No object store was built.
NoSource == 0

\* Rows of a file, and files.
RefRows == {r \in [inline : BOOLEAN, bucket : Nat, path : Nat] : r.inline <=> r.bucket = NoSource}

RefFiles == [ok : BOOLEAN, refs : Seq(RefRows)]

-----------------------------------------------------------------------------
(* The references of an array. *)

\* The digits of a file number below 100.
Digits(k) == IF k < 10 THEN <<k>> ELSE <<k \div 10, k % 10>>

\* The file names in the order of strings: refs.10.parq before refs.2.parq
\* (the dot before "parq" is before every digit).
SortedNames(files) ==
    LET Before(k, l) ==
            LET a == Digits(k - 1)
                b == Digits(l - 1)
            IN \/ a[1] < b[1]
               \/ a[1] = b[1] /\ Len(a) < Len(b)
               \/ a[1] = b[1] /\ Len(a) = Len(b) /\ a[Len(a)] < b[Len(b)]
    IN [i \in DOMAIN files |->
           CHOOSE k \in DOMAIN files : Cardinality({l \in DOMAIN files : Before(l, k)}) = i - 1]

\* extract_refs_from_batch appends the rows of one file after another.
ExtractRefs(files, order) == FlattenSeq([i \in DOMAIN order |-> files[order[i]].refs])

\* ParquetRefs::load: all files that there are, or <<>>, no references at all,
\* if there is none or one cannot be read.
Load(files) ==
    IF files = <<>> \/ \E k \in DOMAIN files : ~files[k].ok THEN <<>>
    ELSE <<ExtractRefs(files, SortedNames(files))>>

\* ParquetRefs::load_async: files by number up to the first that is not found;
\* what is lost is not found.  got files arrived, more than limit are too many.
LoadAsync(files, got, limit) ==
    IF got = 0 \/ got > limit \/ \E k \in 1 .. got : ~files[k].ok THEN <<>>
    ELSE <<ExtractRefs(files, [k \in 1 .. got |-> k])>>

-----------------------------------------------------------------------------
(* Chunks. *)

\* chunks_per_dim of parse_array_metadata.
ChunksPerDim(shape, chunks) == [d \in DOMAIN shape |-> (shape[d] + chunks[d] - 1) \div chunks[d]]

\* parse_chunk_key: the indices are what follows the name, split at dots.
ParseChunkKey(idx, sep) == IF sep = "." THEN idx ELSE <<idx[1]>>

\* Mutant: column-major order.
IndicesToFlatIndexFortran(idx, per_dim) ==
    FoldLeft(LAMBDA at, d : [flat |-> at.flat + idx[d] * at.stride, stride |-> at.stride * per_dim[d]],
             [flat |-> 0, stride |-> 1], [d \in DOMAIN idx |-> d]).flat

\* indices_to_flat_index: from the last index to the first, with the stride.
IndicesToFlatIndex(idx, per_dim) ==
    LET n == Len(idx)
        at[k \in 0 .. n] ==
            IF k = 0 THEN [flat |-> 0, stride |-> 1]
            ELSE [flat   |-> at[k - 1].flat + idx[n + 1 - k] * at[k - 1].stride,
                  stride |-> at[k - 1].stride * per_dim[n + 1 - k]]
    IN at[n].flat

\* create_source_store_if_needed: the bucket of the first reference of any
\* array, in the order of a hash map, unless all of these are inline.
SourceStores(refs) ==
    LET first == {refs[n][1][1] : n \in {m \in DOMAIN refs : refs[m] # <<>> /\ refs[m][1] # <<>>}}
        buckets == {r.bucket : r \in {f \in first : ~f.inline}}
    IN IF buckets = {} THEN {NoSource} ELSE buckets

\* fetch_chunk: the bytes of a reference.  object_path_for keeps the path alone,
\* which is looked up in the one source store, among its objects.
FetchChunk(ref, source, objects) ==
    CASE ref.inline -> <<"row", NoSource, ref.path>>
      [] ~ref.inline /\ <<source, ref.path>> \in objects -> <<"object", source, ref.path>>
      [] OTHER -> <<"error">>

\* VirtualStoreAdapter::get for a chunk of an array with these references.
GetChunk(refs, a, idx, sep, source, objects) ==
    LET flat == IndicesToFlatIndex(ParseChunkKey(idx, sep), ChunksPerDim(a.shape, a.chunks))
    IN IF refs = <<>> \/ flat >= Len(refs[1]) THEN <<"error">>
       ELSE FetchChunk(refs[1][flat + 1], source, objects)

\* transform_zarray_metadata: times are opened as the integers they are stored as.
TransformZarray(raw) == IF raw[1] \in {"M", "m"} THEN <<"i", 8>> ELSE raw

-----------------------------------------------------------------------------
(* What the references mean: the rows of the files in the order of their    *)
(* numbers are the chunks of the array, row by row.                         *)

ChunkGrid(shape, chunks) ==
    LET n == ChunksPerDim(shape, chunks)
    IN {i \in [DOMAIN shape -> UNION {0 .. n[d] - 1 : d \in DOMAIN n}] : \A d \in DOMAIN shape : i[d] < n[d]}

RowMajorRank(idx, grid) ==
    Cardinality({j \in grid : \E d \in DOMAIN idx : j[d] < idx[d] /\ \A e \in 1 .. d - 1 : j[e] = idx[e]})

\* All references of an array.
AllRefs(files) == ExtractRefs(files, [k \in DOMAIN files |-> k])
=============================================================================
