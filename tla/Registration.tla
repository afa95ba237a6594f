---------------------------- MODULE Registration ----------------------------
(***************************************************************************)
(* A store becomes a table, and scans of the table reopen it.               *)
(*                                                                          *)
(* CREATE EXTERNAL TABLE (datasource/factory.rs) finds out what lies at a   *)
(* location - an icechunk repository, a VirtualiZarr store, a Zarr store -  *)
(* by requests any of which may get lost, infers the schema, and keeps what *)
(* a scan needs.  bin/head.rs registers without looking for the first two.  *)
(* A scan (physical_plan/zarr_exec.rs) uses what was kept; a scan sent to a *)
(* worker (physical_plan/codec.rs) has only the path, and starts over.      *)
(*                                                                          *)
(* A store is a record as in SchemaInference, with                          *)
(*   client    who registers it: "factory" or "head"                        *)
(*   scheme    "fs", "gs", "s3" or "http"                                   *)
(*   icechunk  its arrays are in an icechunk repository                     *)
(*   sep       the separator in its chunk keys                              *)
(*   objects   what is in the buckets its references point to               *)
(***************************************************************************)
EXTENDS SchemaInference, VirtualRefs

CONSTANTS
    Stores,
    MaxFaults,     \* bound: requests that get lost
    ProbeLimit,    \* arrays probed for references, 5 in the code
    MaxRefsFiles,  \* files of references per array, 10000 in the code
    MaxScans,      \* bound: scans
    MaxReads       \* bound: chunks a scan reads

\* A store has finitely many arrays, consolidated metadata lists arrays, and a
\* repository has none of it: its metadata is in its snapshots.  References come
\* with consolidated metadata, in directories that hold nothing else.  A V3 store
\* has no file of V2, nor a V2 store one of V3, and V2 directories are arrays.
StoreOK(s) ==
    /\ {"root", "arrays", "zmeta", "refs"} \subseteq DOMAIN s
    /\ s.format \in {"v2", "v3", "refs"}
    /\ IsFiniteSet(DOMAIN s.arrays) /\ DOMAIN s.arrays \subseteq Nat
    /\ \A n \in DOMAIN s.arrays : /\ s.arrays[n].shape \in Seq(Nat)
                                  /\ s.arrays[n].chunks \in Seq(Nat \ {0})
                                  /\ Len(s.arrays[n].chunks) = Len(s.arrays[n].shape)
    /\ s.zmeta # <<>> => s.zmeta[1].keys \in Seq(DOMAIN s.arrays) /\ IsInjective(s.zmeta[1].keys)
    /\ s.icechunk => s.zmeta = <<>>
    /\ DOMAIN s.refs = DOMAIN s.arrays /\ \A n \in DOMAIN s.refs : s.refs[n] \in Seq(RefFiles)
    /\ s.objects \subseteq (Nat \ {NoSource}) \X Nat
    /\ s.format = "refs" => /\ s.zmeta # <<>> /\ s.zmeta[1].keys # <<>>
                            /\ \E n \in DOMAIN s.refs : s.refs[n] # <<>>
    /\ s.format # "refs" => \A n \in DOMAIN s.refs : s.refs[n] = <<>>
    /\ s.format = "v3" => s.zmeta = <<>> /\ s.root \subseteq {"zarr.json"}
    /\ s.format # "v3" => /\ "zarr.json" \notin s.root
                          /\ \A n \in DOMAIN s.arrays : s.arrays[n].node = "array"

ASSUME StoresAssumption == \A s \in Stores : StoreOK(s)

ASSUME BoundsAssumption ==
    MaxFaults \in Nat /\ MaxScans \in Nat /\ ProbeLimit \in Nat /\ MaxRefsFiles \in Nat

VARIABLES
    store,
    phase,    \* what is done next
    lost,     \* number of requests that got lost
    handle,   \* what the store is read through: "plain", "icechunk", "adapter"
    version,  \* ZarrVersion
    adapter,  \* <<>>, or the VirtualStoreAdapter: refs and source store
    table,    \* <<>>, or the ZarrTable
    scan,     \* <<>>, or the scan: where it runs, its metadata, its reads
    io,       \* its ZarrIoStats, and the chunk bytes it was really sent
    served,   \* <<>>, or the chunk read last
    scans     \* number of scans

vars == <<store, phase, lost, handle, version, adapter, table, scan, io, served, scans>>

\* is_remote_url
IsRemote == store.scheme # "fs"

\* Object stores list directories, plain web servers do not.
Lists == store.scheme # "http" \/ handle = "icechunk"

\* The store as it is seen: a repository read as plain files has no arrays.
View == IF store.icechunk /\ handle # "icechunk"
        THEN [store EXCEPT !.root = {}, !.arrays = <<>>, !.zmeta = <<>>, !.refs = <<>>]
        ELSE store

Lose(n) == lost + n <= MaxFaults /\ lost' = lost + n

Delivered == lost' = lost

-----------------------------------------------------------------------------
(* Ends of registration and of the discovery a scan starts with. *)

Unmeasured == [tracked |-> FALSE, counted |-> 0, sent |-> 0]

\* The constructors of ZarrTable; store_kind is how a worker reopens the store.
NewTable(meta, kind, cached, virtual) ==
    <<[meta |-> meta, store_kind |-> kind, cached |-> cached, adapter |-> virtual]>>

\* Mutant: a failed query fails the table.
FailForGood ==
    /\ phase' = "failed"
    /\ scan' = <<>>
    /\ UNCHANGED table

\* A registration fails for good, a query may be repeated.
Fail ==
    /\ phase' = IF table = <<>> THEN "failed" ELSE "ready"
    /\ scan' = <<>>
    /\ UNCHANGED table

\* The factory makes no table without columns; the head does.
Register(meta, kind, cached, virtual) ==
    LET useless == BuildSchema(meta) = <<>> /\ store.client = "factory"
    IN \/ useless /\ Fail
       \/ /\ ~useless
          /\ table' = NewTable(meta, kind, cached, virtual)
          /\ phase' = "ready"
          /\ UNCHANGED scan

\* discover_arrays_async has its result.
Discovered(meta) ==
    \/ /\ table = <<>>
       /\ Register(meta, IF handle = "icechunk" THEN "icechunk" ELSE "zarr", TRUE, FALSE)
    \/ /\ table # <<>>
       /\ scan' = <<[scan[1] EXCEPT !.meta = <<meta>>]>>
       /\ phase' = "reading"
       /\ UNCHANGED table

-----------------------------------------------------------------------------
(* Registration. *)

Init ==
    /\ store \in Stores
    /\ phase = "new"
    /\ lost = 0
    /\ handle = "plain"
    /\ version = "none"
    /\ adapter = <<>> /\ table = <<>> /\ scan = <<>> /\ served = <<>>
    /\ io = Unmeasured
    /\ scans = 0

\* ZarrTableFactory::create, or the head: infer_schema_with_meta for a path.
CreateLocal ==
    /\ phase = "new" /\ ~IsRemote
    /\ ~(store.icechunk /\ store.client = "factory")
    /\ \E meta \in {DiscoverArrays(View, listing) : listing \in Listings(View)} :
          \/ meta = <<>> /\ Fail
          \/ meta # <<>> /\ Register(meta[1], "zarr", FALSE, FALSE)
    /\ Delivered
    /\ UNCHANGED <<store, handle, version, adapter, io, served, scans>>

\* create_async_store.  A local repository is opened at once.
CreateStore ==
    /\ phase = "new"
    /\ IsRemote \/ (store.icechunk /\ store.client = "factory")
    /\ phase' = CASE ~IsRemote -> "open"
                  [] IsRemote /\ store.client = "factory" -> "icechunk"
                  [] OTHER -> "zmetadata"
    /\ Delivered
    /\ UNCHANGED <<store, handle, version, adapter, table, scan, io, served, scans>>

\* is_icechunk_store_async: what cannot be listed is no repository.
IsIcechunkStore ==
    /\ phase = "icechunk"
    /\ \/ /\ Delivered
          /\ phase' = IF Lists /\ store.icechunk THEN "open" ELSE "virtualizarr"
       \/ /\ Lose(1)
          /\ phase' = "virtualizarr"
    /\ UNCHANGED <<store, handle, version, adapter, table, scan, io, served, scans>>

\* open_icechunk_async, open_icechunk_remote: from here on the repository is
\* read like a store.
OpenIcechunk ==
    /\ phase = "open"
    /\ \/ /\ Delivered
          /\ handle' = "icechunk"
          /\ phase' = "zmetadata"
          /\ UNCHANGED <<table, scan>>
       \/ /\ Lose(1)
          /\ Fail
          /\ UNCHANGED handle
    /\ UNCHANGED <<store, version, adapter, io, served, scans>>

\* is_virtualizarr_store_async: consolidated metadata, and a file of references
\* for one of the first arrays it lists.  A probe that is lost finds nothing.
IsVirtualizarrStoreAsync ==
    LET readable == View.zmeta # <<>> /\ View.zmeta[1].json # "bad"
        probed   == IF readable
                    THEN ToSet(SubSeq(View.zmeta[1].keys, 1, Min({ProbeLimit, Len(View.zmeta[1].keys)})))
                    ELSE {}
    IN /\ phase = "virtualizarr"
       /\ \/ /\ Lose(1)
             /\ phase' = "zmetadata"
          \/ \E missed \in SUBSET probed :
                /\ Lose(Cardinality(missed))
                /\ phase' = IF \E n \in probed \ missed : store.refs[n] # <<>>
                            THEN "adapter" ELSE "zmetadata"
       /\ UNCHANGED <<store, handle, version, adapter, table, scan, io, served, scans>>

\* load_all_refs_async: got is how many files of each array arrive.
LoadAllRefsAsync(got) == [n \in DOMAIN got |-> LoadAsync(store.refs[n], got[n], MaxRefsFiles)]

\* VirtualStoreAdapter::new_async: the metadata is read again, then the files of
\* references of all arrays at once.
NewAdapter ==
    LET names == ToSet(store.zmeta[1].keys)
        Files(n) == Len(store.refs[n])
    IN /\ phase = "adapter"
       /\ \/ /\ Lose(1)
             /\ Fail
             /\ UNCHANGED <<handle, adapter>>
          \/ \E got \in [names -> 0 .. Max({Files(n) : n \in names})] :
                LET refs == LoadAllRefsAsync(got)
                IN /\ \A n \in names : got[n] <= Files(n)
                   /\ Lose(Cardinality({n \in names : got[n] < Files(n)}))
                   /\ \E source \in SourceStores(refs) :
                         adapter' = <<[refs |-> refs, source |-> source]>>
                   /\ handle' = "adapter"
                   /\ Register(SeparateAndSortNoStats(FromZmetadata(store)), "zarr", FALSE, TRUE)
       /\ UNCHANGED <<store, version, io, served, scans>>

-----------------------------------------------------------------------------
(* discover_arrays_async: for registration, and for a scan that has nothing. *)

\* discover_arrays_from_zmetadata_async.  An adapter answers from memory, with
\* JSON it has repaired; a lost request looks like a store without the file.
ReadZmetadata ==
    LET there == View.zmeta # <<>>
        json  == IF handle = "adapter" THEN "plain" ELSE View.zmeta[1].json
    IN /\ phase = "zmetadata"
       /\ \/ /\ Delivered
             /\ there => json = "plain" /\ View.zmeta[1].keys = <<>>
             /\ phase' = "version"
             /\ UNCHANGED <<table, scan>>
          \/ /\ handle # "adapter" /\ Lose(1)
             /\ phase' = "version"
             /\ UNCHANGED <<table, scan>>
          \/ /\ Delivered
             /\ there /\ json # "plain"
             /\ Fail
          \/ /\ Delivered
             /\ there /\ json = "plain" /\ View.zmeta[1].keys # <<>>
             /\ Discovered(SeparateAndSortNoStats(FromZmetadata(store)))
       /\ UNCHANGED <<store, handle, version, adapter, io, served, scans>>

\* Mutant: discovery starts again.
NoVersionRetried == phase' = "zmetadata" /\ UNCHANGED <<table, scan>>

\* Neither V2 nor V3.
NoVersion == Fail

\* detect_zarr_version_async: probes at the root, then a listing and probes in
\* its directories.  What is lost is not there.
DetectVersionAsync ==
    LET marks == View.root \cap {"zarr.json", ".zgroup"}
        dirs  == DOMAIN View.arrays
    IN /\ phase = "version"
       /\ \E root \in SUBSET marks, seen \in SUBSET dirs :
             LET v == DetectVersion(View, root, seen)
             IN /\ Lose(Cardinality(marks \ root) + Cardinality(dirs \ seen))
                /\ version' = v
                /\ \/ /\ v = "none" \/ (root = {} /\ ~Lists)
                      /\ NoVersion
                   \/ /\ v # "none" /\ (root # {} \/ Lists)
                      /\ phase' = "arrays"
                      /\ UNCHANGED <<table, scan>>
       /\ UNCHANGED <<store, handle, adapter, io, served, scans>>

\* list_dir fails: the discovery does.
CannotList ==
    /\ \/ ~Lists /\ Delivered
       \/ Lose(1)
    /\ Fail

\* discover_arrays_v2_async: one array after the other; a lost document drops
\* the array, lost attributes its dimensions, a document that is no JSON all.
DiscoverV2Async ==
    /\ phase = "arrays" /\ version = "v2"
    /\ \/ CannotList
       \/ /\ Lists
          /\ \E listing \in Listings(View), got \in [DOMAIN View.arrays -> {"all", "noattrs", "lost"}] :
                LET read  == SelectAt(listing, {i \in DOMAIN listing :
                                                  store.format = "v2" /\ got[listing[i]] # "lost"})
                    metas == [i \in DOMAIN read |->
                                 V2Meta(read[i], store.arrays[read[i]],
                                        IF got[read[i]] = "all" THEN store.arrays[read[i]].attrs ELSE "none")]
                IN /\ Lose(Cardinality({n \in DOMAIN got : got[n] # "all"}))
                   /\ \/ (\E n \in ToSet(read) : store.arrays[n].doc = "bad") /\ Fail
                      \/ /\ \A n \in ToSet(read) : store.arrays[n].doc # "bad"
                         /\ Discovered(SeparateAndSortNoStats(metas))
    /\ UNCHANGED <<store, handle, version, adapter, io, served, scans>>

\* discover_arrays_v3_async: all at once; a document that is lost or is no JSON
\* drops the array.
DiscoverV3Async ==
    /\ phase = "arrays" /\ version = "v3"
    /\ \/ CannotList
       \/ /\ Lists
          /\ \E listing \in Listings(View), missed \in SUBSET DOMAIN View.arrays :
                LET Kept(n) == /\ store.format = "v3" /\ n \notin missed
                               /\ store.arrays[n].doc # "bad" /\ store.arrays[n].node = "array"
                    read    == SelectAt(listing, {i \in DOMAIN listing : Kept(listing[i])})
                IN /\ Lose(Cardinality(missed))
                   /\ Discovered(SeparateAndSortNoStats(
                          [i \in DOMAIN read |-> V3Meta(read[i], store.arrays[read[i]])]))
    /\ UNCHANGED <<store, handle, version, adapter, io, served, scans>>

-----------------------------------------------------------------------------
(* Scans. *)

\* Guards of plan_scan_partitions: only a partitioned scan is spread over tasks
\* (ZarrTaskEstimator), if there are two chunks to spread.
Partitioned(t) ==
    /\ IsRemote \/ ~IsVirtualizarrStore(store)
    /\ t.meta.data_vars # <<>>
    /\ LET v == t.meta.data_vars[1]
       IN /\ v.shape # <<>>
          /\ \E i \in DOMAIN t.meta.coords : t.meta.coords[i].shape[1] = v.shape[1]
          /\ ChunksPerDim(v.shape, v.chunks)[1] >= 2

\* ZarrExecDto: the path and the kind of store travel, the caches do not.
ShippedExec(t) == [t EXCEPT !.cached = FALSE, !.adapter = FALSE]

\* The branches of ZarrExec::execute.
ExecutePath(exec) ==
    CASE exec.adapter -> "adapter"
      [] ~exec.adapter /\ ~IsRemote /\ IsVirtualizarrStore(store) -> "virtualizarr"
      [] ~exec.adapter /\ (IsRemote \/ exec.cached \/ exec.store_kind # "zarr") -> "remote"
      [] OTHER -> "local"

\* Mutant: the counters live with the store that is kept for all scans.
NewIoStatsKept(tracked) == [tracked |-> tracked, counted |-> io.counted, sent |-> 0]

\* ZarrExec::new; a tracking store marks the scan as measured.
NewIoStats(tracked) == [tracked |-> tracked, counted |-> 0, sent |-> 0]

\* read_zarr: the directory is looked at anew.  The store does not change, so what
\* was registered can be read.
ExecuteLocal(at) ==
    /\ \E meta \in {DiscoverArrays(View, listing) : listing \in Listings(View)} :
          scan' = <<[at |-> at, meta |-> meta, reads |-> 0]>>
    /\ phase' = "reading"
    /\ io' = NewIoStats(TRUE)
    /\ UNCHANGED <<handle, adapter, table>>

\* load_all_refs.
LoadAllRefs == [n \in ToSet(store.zmeta[1].keys) |-> Load(store.refs[n])]

\* execute_virtualizarr: the references are read anew, too.
ExecuteVirtualizarr(at) ==
    LET refs == LoadAllRefs
    IN /\ \E source \in SourceStores(refs) : adapter' = <<[refs |-> refs, source |-> source]>>
       /\ handle' = "adapter"
       /\ scan' = <<[at |-> at, meta |-> DiscoverArrays(store, <<>>), reads |-> 0]>>
       /\ phase' = "reading"
       /\ io' = NewIoStats(FALSE)
       /\ UNCHANGED table

\* execute_virtualizarr_with_adapter: the adapter was kept, the metadata not.
ExecuteWithAdapter(at) ==
    /\ handle' = "adapter"
    /\ scan' = <<[at |-> at, meta |-> <<>>, reads |-> 0]>>
    /\ phase' = "zmetadata"
    /\ io' = NewIoStats(FALSE)
    /\ UNCHANGED <<adapter, table>>

\* execute_remote: with the store and the metadata that were kept, or from the
\* path and the kind of store alone.
ExecuteRemote(exec, at) ==
    /\ handle' = IF exec.cached /\ exec.store_kind = "icechunk" THEN "icechunk" ELSE "plain"
    /\ scan' = <<[at |-> at, meta |-> IF exec.cached THEN <<exec.meta>> ELSE <<>>, reads |-> 0]>>
    /\ phase' = CASE exec.cached -> "reading"
                  [] ~exec.cached /\ exec.store_kind = "icechunk" -> "open"
                  [] OTHER -> "zmetadata"
    /\ io' = NewIoStats(TRUE)
    /\ UNCHANGED <<adapter, table>>

\* A query is run by the process that registered the table, or by a worker.
StartScan(at) ==
    /\ phase = "ready" /\ scans < MaxScans
    /\ at = "worker" => Partitioned(table[1])
    /\ LET exec == IF at = "worker" THEN ShippedExec(table[1]) ELSE table[1]
           path == ExecutePath(exec)
       IN \/ path = "local" /\ ExecuteLocal(at)
          \/ path = "virtualizarr" /\ ExecuteVirtualizarr(at)
          \/ path = "adapter" /\ ExecuteWithAdapter(at)
          \/ path = "remote" /\ ExecuteRemote(exec, at)
    /\ scans' = scans + 1
    /\ served' = <<>>
    /\ UNCHANGED <<store, lost, version>>

\* zarrs opens no times; a chunk that is not there is all fill value.
ChunkBytes(n, idx) ==
    LET a == store.arrays[n]
    IN CASE handle = "adapter" /\ TransformZarray(a.raw)[1] \notin {"M", "m"} ->
               GetChunk(adapter[1].refs[n], a, idx, store.sep, adapter[1].source, store.objects)
         [] handle = "adapter" /\ TransformZarray(a.raw)[1] \in {"M", "m"} -> <<"error">>
         [] handle # "adapter" /\ store.format = "refs" -> <<"fill">>
         [] OTHER -> <<"own", n, idx>>

\* Two bytes for a chunk, one for a part of it.
Length(what, part) ==
    CASE what \in {<<"fill">>, <<"error">>} -> 0
      [] what \notin {<<"fill">>, <<"error">>} /\ part -> 1
      [] OTHER -> 2

\* get and get_partial_many of the tracking stores, and of the adapter, which
\* cuts the part out of the whole chunk.
CountBytes(what, part) ==
    [io EXCEPT !.sent = @ + Length(what, part /\ handle # "adapter"),
               !.counted = @ + IF io.tracked THEN Length(what, part) ELSE 0]

\* The reader asks for a chunk, or a part of it.  An error ends the query.
ReadChunk(n, idx, part) ==
    /\ phase = "reading" /\ scan[1].reads < MaxReads
    /\ \E what \in {ChunkBytes(n, idx), <<"error">>} :
          /\ IF what = ChunkBytes(n, idx) THEN Delivered ELSE IsRemote /\ Lose(1)
          /\ served' = <<[array |-> n, idx |-> idx, what |-> what, via |-> handle, at |-> scan[1].at]>>
          /\ io' = CountBytes(what, part)
          /\ \/ what = <<"error">> /\ Fail
             \/ /\ what # <<"error">>
                /\ scan' = <<[scan[1] EXCEPT !.reads = @ + 1]>>
                /\ UNCHANGED <<phase, table>>
    /\ UNCHANGED <<store, handle, version, adapter, scans>>

\* The scan is done; what is shown of its bytes is what was counted.
FinishScan ==
    /\ phase = "reading"
    /\ phase' = "ready"
    /\ scan' = <<>> /\ served' = <<>>
    /\ UNCHANGED <<store, lost, handle, version, adapter, table, io, scans>>

-----------------------------------------------------------------------------
Names(metas) == {metas[i].name : i \in DOMAIN metas}

Request ==
    \/ CreateLocal \/ CreateStore \/ IsIcechunkStore \/ OpenIcechunk
    \/ IsVirtualizarrStoreAsync \/ NewAdapter
    \/ ReadZmetadata \/ DetectVersionAsync \/ DiscoverV2Async \/ DiscoverV3Async

ReadSome ==
    /\ phase = "reading"
    /\ \E n \in Names(scan[1].meta[1].coords) \cup Names(scan[1].meta[1].data_vars), part \in BOOLEAN :
          \E idx \in ChunkGrid(store.arrays[n].shape, store.arrays[n].chunks) : ReadChunk(n, idx, part)

Terminated ==
    /\ phase = "failed" \/ (phase = "ready" /\ scans = MaxScans)
    /\ UNCHANGED vars

Next ==
    \/ Request
    \/ \E at \in {"head", "worker"} : StartScan(at)
    \/ ReadSome
    \/ FinishScan
    \/ Terminated

\* A request is out.
Waiting == phase \notin {"ready", "reading", "failed"}

\* Fairness: a request is answered or given up by the client that made it, and
\* the task that waits for it is polled.  This is weak fairness of Request: a
\* step of it is possible if and only if one is out, and it never stutters (no
\* state deadlocks, which TLC checks).
Fairness == []<>~Waiting \/ []<><<Request>>_vars

Spec == Init /\ [][Next]_vars /\ Fairness

-----------------------------------------------------------------------------
(* Properties. *)

\* The type invariant.
TypeOK ==
    /\ store \in Stores
    /\ phase \in {"new", "icechunk", "open", "virtualizarr", "adapter", "zmetadata", "version",
                  "arrays", "ready", "reading", "failed"}
    /\ lost \in 0 .. MaxFaults
    /\ handle \in {"plain", "icechunk", "adapter"}
    /\ version \in {"none", "v2", "v3"}
    /\ phase \in {"ready", "reading"} <=> table # <<>> /\ (scan = <<>> \/ scan[1].meta # <<>>)
    /\ phase = "reading" => scan # <<>>
    /\ phase = "failed" => table = <<>>
    /\ scans \in 0 .. MaxScans

\* Consolidated metadata, if there is any, lists all arrays.
Complete(s) == s.zmeta = <<>> \/ ToSet(s.zmeta[1].keys) \in {{}, DOMAIN s.arrays}

\* Local stores that are not virtual keep arrays without dimensions.
KeepsScalars(s) == s.scheme = "fs" /\ ~IsVirtualizarrStore(s) /\ ~s.icechunk

\* Consolidated metadata that lists something.
Consolidates(s) == s.zmeta # <<>> /\ s.zmeta[1].keys # <<>>

\* The arrays a table should have: those that can be read, and have dimensions.
Tabular(s) == {n \in DOMAIN s.arrays :
                  /\ s.arrays[n].node = "array"
                  /\ Consolidates(s) \/ s.arrays[n].doc # "bad"
                  /\ KeepsScalars(s) \/ s.arrays[n].shape # <<>>}

\* The dimension names an array was given.
GivenDims(s, a) ==
    IF a.dims # NoDims /\ a.attrs \in {"plain", "since"} THEN a.dims
    ELSE IF s.format = "v3" /\ a.native # <<>> /\ Null \notin ToSet(a.native) THEN a.native
    ELSE NoDims

\* The coordinates, each once, come in the order of the axes of the first
\* variable whose axes have their lengths (infer_coord_order_from_data_vars,
\* which matches them greedily; README.md:95 says alphabetical order, and the
\* comments of the function say it of axes of one length).
AxesInOrder(meta) ==
    LET sizes == [i \in DOMAIN meta.coords |-> meta.coords[i].shape[1]]
        Count(seq, k) == Cardinality({i \in DOMAIN seq : seq[i] = k})
        Spans(v) == /\ Len(v.shape) = Len(sizes)
                    /\ \A k \in ToSet(v.shape) \cup ToSet(sizes) : Count(v.shape, k) = Count(sizes, k)
        first == SelectInSeq(meta.data_vars, Spans)
    IN /\ Cardinality(Names(meta.coords)) = Len(meta.coords)
       /\ first # 0 => sizes = meta.data_vars[first].shape

\* The axes of a table are in order whatever was lost.  If no request is lost,
\* the table is that of the store, whatever way its metadata was found: each
\* array that can be one is a column, once, its dimensions have the names it was
\* given, and those of one dimension are axes.
TableIsTheStore ==
    table # <<>> =>
        /\ AxesInOrder(table[1].meta)
        /\ lost = 0 /\ Complete(store) =>
              LET all == table[1].meta.coords \o table[1].meta.data_vars
              IN /\ Names(all) = Tabular(store) /\ Len(all) = Cardinality(Tabular(store))
                 /\ \A i \in DOMAIN all : all[i].dims = GivenDims(store, store.arrays[all[i].name])
                 /\ Names(table[1].meta.coords) = {n \in Tabular(store) : Len(store.arrays[n].shape) = 1}

\* No two coordinates have one length.
DistinctSizes(s) ==
    \A m, n \in Tabular(s) :
        m # n /\ Len(s.arrays[m].shape) = 1 /\ Len(s.arrays[n].shape) = 1
            => s.arrays[m].shape # s.arrays[n].shape

\* A scan cuts and reads the cube that its plan was made for: what a worker, or
\* a later look at a directory, finds is the table, axis by axis.
ScansSeeTheTable ==
    phase = "reading" /\ lost = 0 /\ (DistinctSizes(store) \/ Consolidates(store)) =>
        scan[1].meta[1] = table[1].meta

\* The chunk a key stands for.
MeantChunk(s, n, idx) ==
    LET rows == AllRefs(s.refs[n])
        rank == RowMajorRank(idx, ChunkGrid(s.arrays[n].shape, s.arrays[n].chunks))
        ref  == rows[rank + 1]
    IN CASE s.format # "refs" -> <<"own", n, idx>>
         [] s.format = "refs" /\ rank >= Len(rows) -> <<"none">>
         [] OTHER -> <<IF ref.inline THEN "row" ELSE "object", ref.bucket, ref.path>>

\* The references that are not in the row itself.
Externals(s, n) == {i \in DOMAIN AllRefs(s.refs[n]) : ~AllRefs(s.refs[n])[i].inline}

\* References that one source store can serve: all objects in one bucket, dots in
\* the keys, and ten files at most where they are sorted by name.
OneSource(s) ==
    /\ s.scheme = "fs" => \A n \in DOMAIN s.refs : Len(s.refs[n]) <= 10
    /\ s.sep = "."
    /\ \A m, n \in DOMAIN s.refs : \A i \in Externals(s, m), j \in Externals(s, n) :
          AllRefs(s.refs[m])[i].bucket = AllRefs(s.refs[n])[j].bucket

\* References of which the adapter finds the right one: an array that has objects
\* begins with one.
Addressable(s) ==
    /\ OneSource(s)
    /\ \A n \in DOMAIN s.refs : Externals(s, n) # {} => 1 \in Externals(s, n)

\* An array whose references are all there, one for each chunk, and lead to what
\* is there.
Referenced(s, n) ==
    LET rows == AllRefs(s.refs[n])
    IN /\ s.refs[n] # <<>>
       /\ \A k \in DOMAIN s.refs[n] : s.refs[n][k].ok
       /\ s.scheme # "fs" => Len(s.refs[n]) <= MaxRefsFiles
       /\ Len(rows) >= Cardinality(ChunkGrid(s.arrays[n].shape, s.arrays[n].chunks))
       /\ \A i \in DOMAIN rows : rows[i].inline \/ <<rows[i].bucket, rows[i].path>> \in s.objects

\* The adapter, or a plain look, as the factory decides without losses.
TakenForVirtual(s) ==
    /\ s.client = "factory"
    /\ \E i \in DOMAIN s.zmeta[1].keys : i <= ProbeLimit /\ s.refs[s.zmeta[1].keys[i]] # <<>>

\* What the reader gets for a chunk is that chunk or an error, whichever files
\* of references were lost; an error only if there is something to complain of.
\* A store of references that is read as plain Zarr is all fill values: that
\* happens if a probe was lost or never made, and on workers.
ChunkIsTheOneAsked ==
    served # <<>> /\ Addressable(store) =>
        LET r == served[1]
        IN \/ r.what = MeantChunk(store, r.array, r.idx)
           \/ r.what = <<"error">> /\ (lost > 0 \/ ~Referenced(store, r.array))
           \/ /\ r.what = <<"fill">> /\ r.via = "plain" /\ IsRemote
              /\ lost > 0 \/ r.at = "worker" \/ ~TakenForVirtual(store)

\* A measured scan reports the chunk bytes it was sent and no others, though the
\* store is kept from one query to the next; an unmeasured one reports none.
QueryReportsItsBytes == io.counted = IF io.tracked THEN io.sent ELSE 0

\* Registration, and the discovery of a scan, come to an end.
Settles == []<>(phase \in {"ready", "reading", "failed"})
=============================================================================
