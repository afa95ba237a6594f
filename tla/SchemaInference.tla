--------------------------- MODULE SchemaInference ---------------------------
(***************************************************************************)
(* What reader/schema_inference.rs and reader/dtype.rs make of the          *)
(* metadata of a Zarr store: the arrays it holds, which of them are         *)
(* coordinates, in which order, and the Arrow schema of the table.          *)
(*                                                                          *)
(* Arrays are named by numbers, alphabetical order is their order.  An      *)
(* array as it is stored:                                                   *)
(*   node     "array", or "group" (V3)                                      *)
(*   doc      its metadata document: "ok" or "bad" (no JSON)                *)
(*   shape, chunks                                                          *)
(*   raw      data type: a kind and a size in bytes, "M" is datetime64[ns]  *)
(*   attrs    its attributes: "none", "bad", "plain", or "since": with the  *)
(*            units of a CF time                                            *)
(*   dims     _ARRAY_DIMENSIONS, native: the dimension_names of V3; NoDims, *)
(*            or names, of which Null is none                               *)
(*   vals     what a coordinate holds                                       *)
(* A store, as far as discovery goes:                                       *)
(*   root     metadata files at the root                                    *)
(*   format   "v2", "v3", or "refs": directories that hold references only  *)
(*   arrays   the arrays by name                                            *)
(*   zmeta    <<>>, or the consolidated metadata: keys, the arrays it lists *)
(*            in the order of the file, and json: "plain", "bad", or "nan", *)
(*            which only a lenient parser takes                             *)
(*   refs     for each array the files of a VirtualiZarr reference store    *)
(***************************************************************************)
EXTENDS Integers, Sequences, FiniteSets, SequencesExt, Selection

NoDims == <<-1>>
Null   == 0

-----------------------------------------------------------------------------
(* Data types. *)

ParseV2Dtype(raw) ==
    LET Sized(word, sizes) == <<word, IF raw[2] \in sizes THEN raw[2] ELSE 8>>
    IN CASE raw[1] \in {"M", "m"} -> <<"int", 8>>
         [] raw[1] = "i" -> Sized("int", {1, 2, 4, 8})
         [] raw[1] = "u" -> Sized("uint", {1, 2, 4, 8})
         [] raw[1] = "f" -> Sized("float", {2, 4, 8})
         [] raw[1] = "b" -> <<"bool", 1>>
         [] OTHER -> <<"float", 8>>

\* V3 spells its types out.
V3DataType(raw) ==
    LET word == [i |-> "int", u |-> "uint", f |-> "float", b |-> "bool", M |-> "datetime64",
                 m |-> "timedelta64", S |-> "string"]
    IN <<word[raw[1]], raw[2]>>

ZarrDtypeToArrow(type) ==
    IF type[1] \in {"int", "uint", "float", "bool"} THEN type ELSE <<"utf8", 0>>

\* Bits of the keys of a dictionary with n values.
DictionaryKeyWidth(n) ==
    CASE n <= 32767 + 1 -> 16
      [] n > 32767 + 1 /\ n - 1 <= 2147483647 -> 32
      [] OTHER -> 64

-----------------------------------------------------------------------------
(* One array: what is kept of its metadata, and of the attributes that were read. *)

\* parse_cf_time_from_attrs, else the heuristic on the raw type.
CfTimeAttrs(attrs, raw) ==
    CASE attrs = "since" -> "cf"
      [] attrs # "since" /\ raw[1] = "M" -> "ns"
      [] OTHER -> "none"

ParseArrayDimensions(attrs, a) == IF attrs \in {"plain", "since"} THEN a.dims ELSE NoDims

\* Mutant: names that are there are taken though others are null.
ParseV3DimensionNamesPartial(a) ==
    IF a.native = NoDims THEN NoDims ELSE SelectSeq(a.native, LAMBDA d : d # Null)

\* All names, or none of them.
ParseV3DimensionNames(a) ==
    IF a.native = <<>> \/ Null \in ToSet(a.native) THEN NoDims ELSE a.native

ArrayMeta(n, a, type, time, dims) ==
    [name |-> n, type |-> type, shape |-> a.shape, chunks |-> a.chunks, bounds |-> <<>>,
     time |-> time, dims |-> dims]

V2Meta(n, a, attrs) ==
    ArrayMeta(n, a, ParseV2Dtype(a.raw), CfTimeAttrs(attrs, a.raw), ParseArrayDimensions(attrs, a))

V3Meta(n, a) ==
    LET dims == ParseArrayDimensions(a.attrs, a)
    IN ArrayMeta(n, a, V3DataType(a.raw), CfTimeAttrs(a.attrs, a.raw),
                 IF dims # NoDims THEN dims ELSE ParseV3DimensionNames(a))

IsCoordinate(m) == Len(m.shape) = 1

IsScalar(m) == m.shape = <<>>

-----------------------------------------------------------------------------
(* The cube. *)

\* Each array has a name of its own.
Alphabetical(metas) ==
    LET names == Sorted({metas[i].name : i \in DOMAIN metas})
    IN [k \in DOMAIN names |-> metas[CHOOSE i \in DOMAIN metas : metas[i].name = names[k]]]

\* For each dimension of a shape the first coordinate of its size that no
\* dimension before it has taken, 0 if there is none: the k-th dimension of a
\* size gets the k-th coordinate of it.
MatchShape(coords, shape) ==
    [i \in DOMAIN shape |->
        LET k    == Cardinality({d \in 1 .. i : shape[d] = shape[i]})
            fits == {j \in DOMAIN coords : coords[j].shape[1] = shape[i]}
            kth  == {j \in fits : Cardinality({l \in fits : l <= j}) = k}
        IN IF kth = {} THEN 0 ELSE Min(kth)]

\* Mutant: what cannot be matched stays as it was discovered.
InferCoordOrderUnsorted(coords, vars) ==
    LET Fits(v) == Len(v.shape) = Len(coords) /\ 0 \notin ToSet(MatchShape(coords, v.shape))
        first == SelectInSeq(vars, Fits)
    IN IF coords = <<>> \/ first = 0 THEN coords
       ELSE LET taken == MatchShape(coords, vars[first].shape)
            IN [i \in DOMAIN taken |-> coords[taken[i]]]

\* infer_coord_order_from_data_vars: by the first variable all of whose
\* dimensions find a coordinate, else alphabetically.
InferCoordOrder(coords, vars) ==
    LET Fits(v) == Len(v.shape) = Len(coords) /\ 0 \notin ToSet(MatchShape(coords, v.shape))
        first == SelectInSeq(vars, Fits)
    IN IF coords = <<>> \/ first = 0 THEN Alphabetical(coords)
       ELSE LET taken == MatchShape(coords, vars[first].shape)
            IN [i \in DOMAIN taken |-> coords[taken[i]]]

Rows(coords) == FoldLeft(LAMBDA n, c : n * c.shape[1], 1, coords)

\* What a sequence has at some of its places, in their order.
SelectAt(seq, places) == LET at == Sorted(places) IN [k \in DOMAIN at |-> seq[at[k]]]

\* Coordinates and variables; total_rows is the product of the coordinates.
Separate(metas) ==
    LET axes   == {i \in DOMAIN metas : IsCoordinate(metas[i])}
        vars   == Alphabetical(SelectAt(metas, DOMAIN metas \ axes))
        coords == InferCoordOrder(SelectAt(metas, axes), vars)
    IN [coords |-> coords, data_vars |-> vars, total_rows |-> Rows(coords)]

\* compute_coord_min_max: read from the store, for the types it knows.
CoordMinMax(m, a) ==
    IF m.type \in {<<"float", 8>>, <<"float", 4>>, <<"int", 8>>, <<"int", 4>>, <<"int", 2>>,
                   <<"uint", 8>>, <<"uint", 4>>} /\ a.vals # <<>>
    THEN <<Min(ToSet(a.vals)), Max(ToSet(a.vals))>>
    ELSE <<>>

\* separate_and_sort_arrays, for local stores: bounds are read, scalars stay.
SeparateAndSort(s, metas) ==
    LET meta == Separate(metas)
    IN [meta EXCEPT !.coords =
           [i \in DOMAIN @ |->
               [@[i] EXCEPT !.bounds = CoordMinMax(meta.coords[i], s.arrays[meta.coords[i].name])]]]

\* Mutant: scalars stay.
SeparateAndSortNoStatsAll(metas) == Separate(metas)

\* separate_and_sort_arrays_no_stats and _async: no bounds, no scalars.
SeparateAndSortNoStats(metas) ==
    Separate(SelectAt(metas, {i \in DOMAIN metas : ~IsScalar(metas[i])}))

\* build_schema_from_store_meta: coordinates are dictionaries, times are timestamps.
BuildSchema(meta) ==
    [i \in DOMAIN meta.coords |->
        LET c == meta.coords[i]
        IN [name |-> c.name,
            type |-> <<"dictionary", DictionaryKeyWidth(c.shape[1]),
                       IF c.time # "none" THEN <<"timestamp", 8>> ELSE ZarrDtypeToArrow(c.type)>>]]
    \o [i \in DOMAIN meta.data_vars |->
          [name |-> meta.data_vars[i].name, type |-> ZarrDtypeToArrow(meta.data_vars[i].type)]]

-----------------------------------------------------------------------------
(* Discovery. *)

\* The arrays listed in consolidated metadata, which is always V2.
FromZmetadata(s) ==
    [i \in DOMAIN s.zmeta[1].keys |->
        LET n == s.zmeta[1].keys[i] IN V2Meta(n, s.arrays[n], s.arrays[n].attrs)]

\* A glob for references, next to consolidated metadata.
IsVirtualizarrStore(s) == s.zmeta # <<>> /\ \E n \in DOMAIN s.refs : s.refs[n] # <<>>

\* By the root, else by any directory: root and dirs are what is seen of them.
DetectVersion(s, root, dirs) ==
    CASE "zarr.json" \in root -> "v3"
      [] "zarr.json" \notin root /\ root # {} -> "v2"
      [] root = {} /\ dirs # {} /\ s.format # "refs" -> s.format
      [] OTHER -> "none"

\* A directory listing, in whatever order the file system or the store has it.
Listings(s) == {l \in [1 .. Cardinality(DOMAIN s.arrays) -> DOMAIN s.arrays] : IsInjective(l)}

\* discover_arrays_v2 and _v3: the directories, in the order of the listing.
\* One document that is no JSON fails both.  <<>> is an error.
ScanDirectories(s, version, listing) ==
    LET there == IF version = s.format THEN listing ELSE <<>>
        IsArray(n) == version = "v2" \/ s.arrays[n].node = "array"
        arrays == SelectAt(there, {i \in DOMAIN there : IsArray(there[i])})
        Meta(n) == IF version = "v2" THEN V2Meta(n, s.arrays[n], s.arrays[n].attrs)
                   ELSE V3Meta(n, s.arrays[n])
    IN IF \E n \in ToSet(there) : s.arrays[n].doc = "bad" THEN <<>>
       ELSE <<SeparateAndSort(s, [i \in DOMAIN arrays |-> Meta(arrays[i])])>>

\* discover_arrays: consolidated metadata if it lists anything, else the directories.
DiscoverArrays(s, listing) ==
    LET consolidated == s.zmeta # <<>> /\ s.zmeta[1].keys # <<>>
        version == DetectVersion(s, s.root, DOMAIN s.arrays)
    IN CASE s.zmeta # <<>> /\ s.zmeta[1].json = "bad" -> <<>>
         [] consolidated /\ s.zmeta[1].json # "bad" ->
               <<IF IsVirtualizarrStore(s) THEN SeparateAndSortNoStats(FromZmetadata(s))
                 ELSE SeparateAndSort(s, FromZmetadata(s))>>
         [] ~consolidated /\ (s.zmeta = <<>> \/ s.zmeta[1].json # "bad") /\ version = "none" -> <<>>
         [] OTHER -> ScanDirectories(s, version, listing)
=============================================================================
