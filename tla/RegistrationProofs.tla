-------------------------- MODULE RegistrationProofs -------------------------
(***************************************************************************)
(* Proofs about Registration for any stores, any number of lost requests,   *)
(* scans and reads: what is registered, scanned and measured when, that the *)
(* chunks of a virtual store are the ones its references stand for, and     *)
(* that a table, and the cube every scan goes by, is that of its store.     *)
(***************************************************************************)
EXTENDS Registration, PartitionProofs, FiniteSetTheorems, TLAPS

\* A look at the store, in some order of its directories, finds metadata.
Readable(s) == \E listing \in Listings(s) : DiscoverArrays(s, listing) # <<>>

Phases == {"new", "icechunk", "open", "virtualizarr", "adapter", "zmetadata", "version",
           "arrays", "ready", "reading", "failed"}

\* The schema is being inferred.
Discovering == phase \in {"zmetadata", "version", "arrays"}

\* Types.
Typed ==
    /\ store \in Stores /\ phase \in Phases
    /\ lost \in 0 .. MaxFaults /\ scans \in 0 .. MaxScans
    /\ handle \in {"plain", "icechunk", "adapter"} /\ version \in {"none", "v2", "v3"}
    /\ io \in [tracked : BOOLEAN, counted : Nat, sent : Nat]

\* When there is a table, and when a scan, which has metadata once it reads.
TableAndScan ==
    /\ phase \in {"new", "icechunk", "virtualizarr", "adapter", "failed"} => table = <<>>
    /\ phase \in {"ready", "reading"} => table # <<>>
    /\ scan = <<>> <=> table = <<>> \/ phase = "ready"
    /\ scan # <<>> => /\ "meta" \in DOMAIN scan[1]
                      /\ scan[1].meta # <<>> <=> phase = "reading"
    /\ table # <<>> => DOMAIN table[1] = {"meta", "store_kind", "cached", "adapter"}

\* References are looked for, and adapters made, for remote stores; a local
\* store has one while a scan reads its references.
RemoteOK ==
    /\ phase \in {"icechunk", "virtualizarr", "adapter"} => IsRemote
    /\ phase = "adapter" => store.zmeta # <<>>
    /\ phase = "new" => handle = "plain"
    /\ handle = "adapter" => IsRemote \/ IsVirtualizarrStore(store)
    /\ phase = "open" /\ table # <<>> => table[1].store_kind = "icechunk"

\* A local store is registered from a repository, which is kept open, or from a
\* directory that can be read.
LocalTable(t) ==
    /\ ~t.adapter
    /\ \/ t.cached /\ t.store_kind = "icechunk" /\ store.icechunk
       \/ ~t.cached /\ t.store_kind = "zarr" /\ handle # "icechunk" /\ Readable(View)

\* What is known of a table on a local store.
LocalOK ==
    ~IsRemote =>
        /\ table # <<>> => LocalTable(table[1])
        /\ phase = "open" \/ Discovering => store.icechunk
        /\ table = <<>> /\ Discovering => handle = "icechunk"

\* What is read through an adapter is not measured.
MeasuredOK == scan # <<>> /\ io.tracked => handle # "adapter"

\* The inductive invariant.
IInv == Typed /\ TableAndScan /\ RemoteOK /\ LocalOK /\ MeasuredOK /\ QueryReportsItsBytes

-----------------------------------------------------------------------------
(* Stores and listings. *)

\* A part of a finite set has a size.
LEMMA SizeOfPart ==
    ASSUME NEW S, IsFiniteSet(S), NEW T \in SUBSET S
    PROVE  IsFiniteSet(T) /\ Cardinality(T) \in Nat
  BY FS_Subset, FS_CardinalityType

\* A listing has all directories.
LEMMA ListingIsOnto ==
    ASSUME NEW s, IsFiniteSet(DOMAIN s.arrays), NEW l \in Listings(s)
    PROVE  \A n \in DOMAIN s.arrays : n \in ToSet(l)
  <1> DEFINE D == DOMAIN s.arrays
             I == 1 .. Cardinality(D)
  <1>1. Cardinality(D) \in Nat
    BY FS_CardinalityType
  <1>2. IsFiniteSet(I) /\ Cardinality(I) = Cardinality(D)
    BY <1>1, FS_Interval
  <1>3. l \in [I -> D] /\ l \in Injection(I, D)
    BY DEF Listings, Injection
  <1> HIDE DEF D, I
  <1>4. l \in Surjection(I, D)
    BY <1>2, <1>3, FS_Injection DEF D
  <1>5. \A n \in D : \E i \in I : l[i] = n
    BY <1>4 DEF Surjection
  <1> QED
    BY <1>3, <1>5 DEF ToSet, D

\* Whether a local store can be read does not depend on the order of a listing.
LEMMA ReadableInAnyOrder ==
    ASSUME NEW s, IsFiniteSet(DOMAIN s.arrays), Readable(s),
           NEW l, l \in Listings(s) \/ l = <<>>
    PROVE  DiscoverArrays(s, l) # <<>>
  <1>1. PICK k \in Listings(s) : DiscoverArrays(s, k) # <<>>
    BY DEF Readable
  <1>2. ToSet(l) \subseteq ToSet(k)
    <2>1. ToSet(l) \subseteq DOMAIN s.arrays
      <3>1. CASE l \in Listings(s)
        <4>1. l \in [1 .. Cardinality(DOMAIN s.arrays) -> DOMAIN s.arrays]
          BY <3>1 DEF Listings
        <4> QED
          BY <4>1 DEF ToSet
      <3>2. CASE l = <<>>
        BY <3>2 DEF ToSet
      <3> QED
        BY <3>1, <3>2
    <2> QED
      BY <2>1, ListingIsOnto
  <1>3. ASSUME NEW v, ScanDirectories(s, v, k) # <<>>
        PROVE  ScanDirectories(s, v, l) # <<>>
    BY <1>2, <1>3 DEF ScanDirectories
  <1> QED
    BY <1>1, <1>3 DEF DiscoverArrays

\* What is seen of a store.
LEMMA ViewFacts ==
    ASSUME store \in Stores
    PROVE  /\ StoreOK(store) /\ IsFiniteSet(DOMAIN View.arrays)
           /\ View.zmeta = store.zmeta \/ View.zmeta = <<>>
           /\ ~store.icechunk => View = store
  <1>1. StoreOK(store)
    BY StoresAssumption
  <1>2. CASE View = store
    BY <1>1, <1>2 DEF StoreOK
  <1>3. CASE View = [store EXCEPT !.root = {}, !.arrays = <<>>, !.zmeta = <<>>, !.refs = <<>>]
    <2>1. View.arrays = <<>> /\ View.zmeta = <<>>
      BY <1>1, <1>3 DEF StoreOK
    <2>2. DOMAIN View.arrays = {}
      BY <2>1
    <2>3. ~store.icechunk => View = store
      BY DEF View
    <2> QED
      BY <1>1, <2>1, <2>2, <2>3, FS_EmptySet, Zenon
  <1> QED
    BY <1>1, <1>2, <1>3 DEF View

\* The number of requests that got lost stays within its bound.
LEMMA LostBounded ==
    ASSUME Typed, NEW n \in Nat, Lose(n)
    PROVE  lost' \in 0 .. MaxFaults
  BY BoundsAssumption DEF Typed, Lose

-----------------------------------------------------------------------------
(* Steps that actions share. *)

\* What a step may do to the counters.
IoKept ==
    /\ io' \in [tracked : BOOLEAN, counted : Nat, sent : Nat]
    /\ QueryReportsItsBytes'

\* Steps that leave the counters alone keep what is known of them.
LEMMA IoUnchanged == IInv /\ UNCHANGED io => IoKept
  BY DEF IInv, Typed, IoKept, QueryReportsItsBytes

\* The invariant holds before a table is registered.
LEMMA InitIInv == Init => IInv
  <1> SUFFICES ASSUME Init PROVE IInv
    OBVIOUS
  <1>1. Typed
    BY BoundsAssumption DEF Init, Typed, Phases, Unmeasured
  <1> QED
    BY <1>1 DEF Init, IInv, TableAndScan, RemoteOK, LocalOK, MeasuredOK, QueryReportsItsBytes,
                Discovering, Unmeasured

\* A registration or a query fails.
LEMMA FailStep ==
    ASSUME IInv, Fail, IoKept, UNCHANGED <<store, handle, scans>>,
           lost' \in 0 .. MaxFaults, version' \in {"none", "v2", "v3"}
    PROVE  IInv'
  <1>1. Typed'
    BY DEF IInv, Typed, Fail, IoKept, Phases
  <1>2. TableAndScan'
    BY DEF IInv, TableAndScan, Fail
  <1>3. RemoteOK'
    BY DEF IInv, RemoteOK, Fail, IsRemote
  <1>4. LocalOK'
    BY DEF IInv, LocalOK, LocalTable, Fail, IsRemote, View, Discovering
  <1>5. MeasuredOK'
    BY DEF MeasuredOK, Fail
  <1> QED
    BY <1>1, <1>2, <1>3, <1>4, <1>5 DEF IInv, IoKept

\* A registration comes to its end.
LEMMA RegisterStep ==
    ASSUME IInv, table = <<>>, NEW meta, NEW kind, NEW cached, NEW virtual,
           Register(meta, kind, cached, virtual),
           UNCHANGED <<store, version, io, scans>>, lost' \in 0 .. MaxFaults,
           handle' \in {"plain", "icechunk", "adapter"}, handle' = "adapter" => IsRemote,
           ~IsRemote => LocalTable(NewTable(meta, kind, cached, virtual)[1])'
    PROVE  IInv'
  <1>1. IoKept
    BY IoUnchanged
  <1>2. scan = <<>> /\ scan' = <<>>
    BY DEF IInv, TableAndScan, Register, Fail
  <1>3. \/ table' = <<>> /\ phase' = "failed"
        \/ table' = NewTable(meta, kind, cached, virtual) /\ phase' = "ready"
    BY DEF Register, Fail
  <1>4. Typed'
    BY <1>1, <1>3 DEF IInv, Typed, IoKept, Phases
  <1>5. TableAndScan'
    BY <1>2, <1>3 DEF TableAndScan, NewTable
  <1>6. RemoteOK'
    BY <1>3 DEF RemoteOK, IsRemote
  <1>7. LocalOK'
    BY <1>3 DEF LocalOK, IsRemote, Discovering
  <1>8. MeasuredOK'
    BY <1>2 DEF MeasuredOK
  <1> QED
    BY <1>1, <1>4, <1>5, <1>6, <1>7, <1>8 DEF IInv, IoKept

\* The discovery of arrays has its result.
LEMMA DiscoveredStep ==
    ASSUME IInv, Discovering, NEW meta, Discovered(meta),
           UNCHANGED <<store, handle, version, io, scans>>, lost' \in 0 .. MaxFaults
    PROVE  IInv'
  <1> DEFINE kind == IF handle = "icechunk" THEN "icechunk" ELSE "zarr"
  <1>1. CASE table = <<>>
    <2>1. Register(meta, kind, TRUE, FALSE)
      BY <1>1 DEF Discovered
    <2>2. handle' = "adapter" => IsRemote
      BY <1>1 DEF IInv, LocalOK, Discovering
    <2>3. ~IsRemote => LocalTable(NewTable(meta, kind, TRUE, FALSE)[1])'
      BY <1>1 DEF IInv, LocalOK, LocalTable, NewTable
    <2>4. handle' \in {"plain", "icechunk", "adapter"}
      BY DEF IInv, Typed
    <2> QED
      BY <1>1, <2>1, <2>2, <2>3, <2>4, RegisterStep
  <1>2. CASE table # <<>>
    <2>1. /\ scan' = <<[scan[1] EXCEPT !.meta = <<meta>>]>> /\ phase' = "reading"
          /\ table' = table
      BY <1>2 DEF Discovered
    <2>2. scan # <<>> /\ "meta" \in DOMAIN scan[1]
      BY <1>2 DEF IInv, TableAndScan, Discovering
    <2>3. scan' # <<>> /\ "meta" \in DOMAIN scan'[1] /\ scan'[1].meta = <<meta>>
      BY <2>1, <2>2
    <2>4. IoKept
      BY IoUnchanged
    <2>5. Typed'
      BY <2>1, <2>4 DEF IInv, Typed, IoKept, Phases
    <2>6. TableAndScan'
      BY <1>2, <2>1, <2>3 DEF IInv, TableAndScan
    <2>7. RemoteOK'
      BY <2>1 DEF IInv, RemoteOK, IsRemote
    <2>8. LocalOK'
      BY <1>2, <2>1 DEF IInv, LocalOK, LocalTable, IsRemote, View, Discovering
    <2>9. MeasuredOK'
      BY <2>2 DEF IInv, MeasuredOK
    <2> QED
      BY <2>4, <2>5, <2>6, <2>7, <2>8, <2>9 DEF IInv, IoKept
  <1> QED
    BY <1>1, <1>2

\* A phase ends in the next one; nothing else changes.
LEMMA MoveStep ==
    ASSUME IInv, UNCHANGED <<store, handle, table, scan, io, scans>>,
           lost' \in 0 .. MaxFaults, version' \in {"none", "v2", "v3"},
           phase \notin {"ready", "reading", "failed"},
           phase' \in {"icechunk", "virtualizarr", "adapter", "open"} =>
               table = <<>> /\ (IsRemote \/ (phase' = "open" /\ store.icechunk)),
           phase' = "adapter" => store.zmeta # <<>>,
           phase' \in {"zmetadata", "version", "arrays"} /\ ~Discovering => table = <<>> /\ IsRemote,
           phase' \in {"icechunk", "virtualizarr", "adapter", "open", "zmetadata", "version", "arrays"}
    PROVE  IInv'
  <1>1. IoKept
    BY IoUnchanged
  <1>2. Typed'
    BY <1>1 DEF IInv, Typed, IoKept, Phases
  <1>3. TableAndScan'
    BY DEF IInv, TableAndScan, Discovering
  <1>4. RemoteOK'
    BY DEF IInv, RemoteOK, IsRemote
  <1>5. LocalOK'
    BY DEF IInv, LocalOK, LocalTable, IsRemote, View, Discovering
  <1>6. MeasuredOK'
    BY DEF IInv, MeasuredOK
  <1> QED
    BY <1>1, <1>2, <1>3, <1>4, <1>5, <1>6 DEF IInv, IoKept

-----------------------------------------------------------------------------
(* The actions. *)

\* A local table is registered, or fails, in one step.
LEMMA CreateLocalStep == IInv /\ CreateLocal => IInv'
  <1> SUFFICES ASSUME IInv, CreateLocal PROVE IInv'
    OBVIOUS
  <1>1. /\ table = <<>> /\ ~IsRemote /\ lost' \in 0 .. MaxFaults
        /\ UNCHANGED <<store, handle, version, io, scans>> /\ version \in {"none", "v2", "v3"}
        /\ handle \in {"plain", "icechunk", "adapter"}
    BY DEF IInv, Typed, TableAndScan, CreateLocal, Delivered
  <1>2. CASE Fail
    BY <1>1, <1>2, FailStep, IoUnchanged
  <1>3. ASSUME NEW l \in Listings(View), NEW meta, DiscoverArrays(View, l) # <<>>,
               Register(meta, "zarr", FALSE, FALSE)
        PROVE  IInv'
    <2>1. Readable(View) /\ handle = "plain"
      BY <1>3 DEF Readable, IInv, RemoteOK, CreateLocal
    <2>2. View' = View
      BY <1>1 DEF View
    <2>3. LocalTable(NewTable(meta, "zarr", FALSE, FALSE)[1])'
      BY <1>1, <2>1, <2>2 DEF LocalTable, NewTable
    <2> QED
      BY <1>1, <1>3, <2>1, <2>3, RegisterStep
  <1> QED
    BY <1>2, <1>3 DEF CreateLocal

\* The async store is created: a repository is opened, a remote store probed.
LEMMA CreateStoreStep == IInv /\ CreateStore => IInv'
  <1> SUFFICES ASSUME IInv, CreateStore PROVE IInv'
    OBVIOUS
  <1>1. /\ table = <<>> /\ phase = "new" /\ lost' \in 0 .. MaxFaults /\ version \in {"none", "v2", "v3"}
        /\ UNCHANGED <<store, handle, version, table, scan, io, scans>>
    BY DEF IInv, Typed, TableAndScan, CreateStore, Delivered
  <1>2. CASE IsRemote
    <2>1. phase' \in {"icechunk", "zmetadata"}
      BY <1>2 DEF CreateStore
    <2> QED
      BY <1>1, <1>2, <2>1, MoveStep
  <1>3. CASE ~IsRemote
    <2>1. phase' = "open" /\ store.icechunk
      BY <1>3 DEF CreateStore
    <2> QED
      BY <1>1, <1>3, <2>1, MoveStep
  <1> QED
    BY <1>2, <1>3

\* The probe for an Icechunk repository.
LEMMA IsIcechunkStoreStep == IInv /\ IsIcechunkStore => IInv'
  <1> SUFFICES ASSUME IInv, IsIcechunkStore PROVE IInv'
    OBVIOUS
  <1>1. /\ table = <<>> /\ IsRemote /\ version \in {"none", "v2", "v3"} /\ phase = "icechunk"
        /\ UNCHANGED <<store, handle, version, table, scan, io, scans>>
        /\ phase' \in {"open", "virtualizarr"}
    BY DEF IInv, Typed, TableAndScan, RemoteOK, IsIcechunkStore
  <1>2. lost' \in 0 .. MaxFaults
    BY LostBounded DEF IInv, Typed, IsIcechunkStore, Delivered
  <1> QED
    BY <1>1, <1>2, MoveStep

\* An Icechunk session is opened.
LEMMA OpenIcechunkStep == IInv /\ OpenIcechunk => IInv'
  <1> SUFFICES ASSUME IInv, OpenIcechunk PROVE IInv'
    OBVIOUS
  <1>1. /\ version \in {"none", "v2", "v3"} /\ phase = "open"
        /\ UNCHANGED <<store, version, io, scans>>
    BY DEF IInv, Typed, OpenIcechunk
  <1>2. lost' \in 0 .. MaxFaults
    BY LostBounded DEF IInv, Typed, OpenIcechunk, Delivered
  <1>3. CASE Fail /\ UNCHANGED handle
    BY <1>1, <1>2, <1>3, FailStep, IoUnchanged
  <1>4. CASE handle' = "icechunk" /\ phase' = "zmetadata" /\ UNCHANGED <<table, scan>>
    <2>1. IoKept
      BY <1>1, IoUnchanged
    <2>2. Typed'
      BY <1>1, <1>2, <1>4, <2>1 DEF IInv, Typed, IoKept, Phases
    <2>3. TableAndScan'
      BY <1>1, <1>4 DEF IInv, TableAndScan
    <2>4. RemoteOK'
      BY <1>1, <1>4 DEF IInv, RemoteOK, IsRemote
    <2>5. LocalOK'
      BY <1>1, <1>4 DEF IInv, LocalOK, LocalTable, RemoteOK, IsRemote, Discovering
    <2>6. MeasuredOK'
      BY <1>4 DEF MeasuredOK
    <2> QED
      BY <2>1, <2>2, <2>3, <2>4, <2>5, <2>6 DEF IInv, IoKept
  <1> QED
    BY <1>3, <1>4 DEF OpenIcechunk

\* The arrays that are probed are arrays of the store.
LEMMA KeysFinite ==
    ASSUME NEW S, IsFiniteSet(S), NEW keys \in Seq(S)
    PROVE  /\ IsFiniteSet(ToSet(keys))
           /\ IsFiniteSet(ToSet(SubSeq(keys, 1, Min({ProbeLimit, Len(keys)}))))
  <1> DEFINE m == Min({ProbeLimit, Len(keys)})
  <1>1. m \in Nat /\ m <= Len(keys)
    BY BoundsAssumption DEF Min
  <1> HIDE DEF m
  <1>2. ToSet(keys) \subseteq S /\ ToSet(SubSeq(keys, 1, m)) \subseteq S
    BY <1>1 DEF ToSet
  <1> QED
    BY <1>2, FS_Subset DEF m

\* The probe for a VirtualiZarr store.
LEMMA IsVirtualizarrStep == IInv /\ IsVirtualizarrStoreAsync => IInv'
  <1> SUFFICES ASSUME IInv, IsVirtualizarrStoreAsync PROVE IInv'
    OBVIOUS
  <1> DEFINE readable == View.zmeta # <<>> /\ View.zmeta[1].json # "bad"
             probed == IF readable
                       THEN ToSet(SubSeq(View.zmeta[1].keys, 1, Min({ProbeLimit, Len(View.zmeta[1].keys)})))
                       ELSE {}
  <1>1. /\ table = <<>> /\ IsRemote /\ version \in {"none", "v2", "v3"} /\ phase = "virtualizarr"
        /\ UNCHANGED <<store, handle, version, table, scan, io, scans>> /\ store \in Stores
    BY DEF IInv, Typed, TableAndScan, RemoteOK, IsVirtualizarrStoreAsync
  <1>2. IsFiniteSet(probed) /\ (probed # {} => store.zmeta # <<>>)
    <2>1. CASE readable
      <3>1. View.zmeta = store.zmeta
        BY <1>1, <2>1, ViewFacts
      <3>2. store.zmeta[1].keys \in Seq(DOMAIN store.arrays) /\ IsFiniteSet(DOMAIN store.arrays)
        BY <1>1, <2>1, <3>1, ViewFacts DEF StoreOK
      <3> QED
        BY <2>1, <3>1, <3>2, KeysFinite
    <2>2. CASE ~readable
      BY <2>2, FS_EmptySet
    <2> QED
      BY <2>1, <2>2
  <1>3. \/ Lose(1) /\ phase' = "zmetadata"
        \/ \E missed \in SUBSET probed :
              /\ Lose(Cardinality(missed))
              /\ phase' = IF \E n \in probed \ missed : store.refs[n] # <<>>
                          THEN "adapter" ELSE "zmetadata"
    BY DEF IsVirtualizarrStoreAsync
  <1> HIDE DEF probed
  <1>4. lost' \in 0 .. MaxFaults
    BY <1>2, <1>3, SizeOfPart, LostBounded DEF IInv
  <1>5. phase' \in {"adapter", "zmetadata"} /\ (phase' = "adapter" => store.zmeta # <<>>)
    BY <1>2, <1>3
  <1> QED
    BY <1>1, <1>4, <1>5, MoveStep

\* The adapter loads its references.
LEMMA NewAdapterStep == IInv /\ NewAdapter => IInv'
  <1> SUFFICES ASSUME IInv, NewAdapter PROVE IInv'
    OBVIOUS
  <1> DEFINE names == ToSet(store.zmeta[1].keys)
             Files(n) == Len(store.refs[n])
             meta == SeparateAndSortNoStats(FromZmetadata(store))
  <1>1. /\ table = <<>> /\ IsRemote /\ version \in {"none", "v2", "v3"} /\ phase = "adapter"
        /\ UNCHANGED <<store, version, io, scans>> /\ store \in Stores
    BY DEF IInv, Typed, TableAndScan, RemoteOK, NewAdapter
  <1>2. IsFiniteSet(names)
    <2>1. store.zmeta[1].keys \in Seq(DOMAIN store.arrays) /\ IsFiniteSet(DOMAIN store.arrays)
      BY <1>1, ViewFacts DEF StoreOK, IInv, RemoteOK
    <2> QED
      BY <2>1, KeysFinite
  <1>3. \/ Lose(1) /\ Fail /\ UNCHANGED handle
        \/ \E got \in [names -> 0 .. Max({Files(n) : n \in names})] :
              /\ Lose(Cardinality({n \in names : got[n] < Files(n)}))
              /\ handle' = "adapter"
              /\ Register(meta, "zarr", FALSE, TRUE)
    BY DEF NewAdapter
  <1> HIDE DEF names, Files, meta
  <1>4. lost' \in 0 .. MaxFaults
    <2>1. \A got : Cardinality({n \in names : got[n] < Files(n)}) \in Nat
      BY <1>2, SizeOfPart
    <2> QED
      BY <1>3, <2>1, LostBounded DEF IInv
  <1>5. CASE Fail /\ UNCHANGED handle
    BY <1>1, <1>4, <1>5, FailStep, IoUnchanged
  <1>6. CASE handle' = "adapter" /\ Register(meta, "zarr", FALSE, TRUE)
    BY <1>1, <1>4, <1>6, RegisterStep
  <1> QED
    BY <1>3, <1>5, <1>6

\* Consolidated metadata is read, if there is any.
LEMMA ReadZmetadataStep == IInv /\ ReadZmetadata => IInv'
  <1> SUFFICES ASSUME IInv, ReadZmetadata PROVE IInv'
    OBVIOUS
  <1>1. /\ phase = "zmetadata" /\ Discovering /\ version \in {"none", "v2", "v3"}
        /\ UNCHANGED <<store, handle, version, io, scans>>
    BY DEF IInv, Typed, ReadZmetadata, Discovering
  <1>2. lost' \in 0 .. MaxFaults
    BY LostBounded DEF IInv, Typed, ReadZmetadata, Delivered
  <1>3. CASE phase' = "version" /\ UNCHANGED <<table, scan>>
    BY <1>1, <1>2, <1>3, MoveStep
  <1>4. CASE Fail
    BY <1>1, <1>2, <1>4, FailStep, IoUnchanged
  <1>5. CASE Discovered(SeparateAndSortNoStats(FromZmetadata(store)))
    BY <1>1, <1>2, <1>5, DiscoveredStep
  <1> QED
    BY <1>3, <1>4, <1>5 DEF ReadZmetadata

\* The steps of a discovery lose some requests or none.
LEMMA DiscoveryLoses ==
    ASSUME IInv, DetectVersionAsync \/ DiscoverV2Async \/ DiscoverV3Async
    PROVE  lost' \in lost .. MaxFaults
  <1> DEFINE marks == View.root \cap {"zarr.json", ".zgroup"}
             dirs == DOMAIN View.arrays
  <1>1. IsFiniteSet(marks) /\ IsFiniteSet(dirs)
    <2>1. {"zarr.json", ".zgroup"} = {"zarr.json"} \cup {".zgroup"}
      OBVIOUS
    <2>2. IsFiniteSet({"zarr.json"})
      BY FS_Singleton
    <2>3. IsFiniteSet({"zarr.json"} \cup {".zgroup"})
      BY <2>2, FS_AddElement
    <2>4. IsFiniteSet(marks)
      BY <2>1, <2>3, FS_Subset
    <2> QED
      BY <2>4, ViewFacts DEF IInv, Typed
  <1>2. lost \in 0 .. MaxFaults
    BY DEF IInv, Typed
  <1>3. CASE DetectVersionAsync
    <2>1. PICK root \in SUBSET marks, seen \in SUBSET dirs :
             Lose(Cardinality(marks \ root) + Cardinality(dirs \ seen))
      BY <1>3 DEF DetectVersionAsync
    <2>2. Cardinality(marks \ root) \in Nat /\ Cardinality(dirs \ seen) \in Nat
      BY <1>1, SizeOfPart
    <2> DEFINE n == Cardinality(marks \ root) + Cardinality(dirs \ seen)
    <2>3. n \in Nat
      BY <2>2
    <2> HIDE DEF n
    <2>4. Lose(n)
      BY <2>1 DEF n
    <2> QED
      BY <1>2, <2>3, <2>4, BoundsAssumption DEF Lose
  <1>4. CASE DiscoverV2Async
    <2>1. \/ Delivered \/ Lose(1)
          \/ \E got \in [dirs -> {"all", "noattrs", "lost"}] :
                Lose(Cardinality({n \in DOMAIN got : got[n] # "all"}))
      BY <1>4 DEF DiscoverV2Async, CannotList
    <2>2. \A got \in [dirs -> {"all", "noattrs", "lost"}] :
             Cardinality({n \in DOMAIN got : got[n] # "all"}) \in Nat
      BY <1>1, SizeOfPart
    <2>3. ASSUME NEW n \in Nat, Lose(n) PROVE lost' \in lost .. MaxFaults
      BY <1>2, <2>3, BoundsAssumption DEF Lose
    <2>4. CASE Delivered
      BY <1>2, <2>4 DEF Delivered
    <2> HIDE DEF dirs
    <2> QED
      BY <2>1, <2>2, <2>3, <2>4
  <1>5. CASE DiscoverV3Async
    <2>1. Delivered \/ Lose(1) \/ \E missed \in SUBSET dirs : Lose(Cardinality(missed))
      BY <1>5 DEF DiscoverV3Async, CannotList
    <2>2. \A missed \in SUBSET dirs : Cardinality(missed) \in Nat
      BY <1>1, SizeOfPart
    <2> HIDE DEF dirs
    <2> QED
      BY <1>2, <2>1, <2>2, BoundsAssumption DEF Lose, Delivered
  <1> QED
    BY <1>3, <1>4, <1>5

\* Without it, the format version is detected.
LEMMA DetectVersionStep == IInv /\ DetectVersionAsync => IInv'
  <1> SUFFICES ASSUME IInv, DetectVersionAsync PROVE IInv'
    OBVIOUS
  <1>1. /\ phase = "version" /\ Discovering /\ store \in Stores
        /\ UNCHANGED <<store, handle, io, scans>>
    BY DEF IInv, Typed, DetectVersionAsync, Discovering
  <1>2. lost' \in 0 .. MaxFaults
    BY DiscoveryLoses DEF IInv, Typed
  <1>3. PICK root, seen : /\ version' = DetectVersion(View, root, seen)
                          /\ Fail \/ (phase' = "arrays" /\ UNCHANGED <<table, scan>>)
    BY DEF DetectVersionAsync, NoVersion
  <1>4. version' \in {"none", "v2", "v3"}
    <2>1. View.format = store.format
      BY <1>1, ViewFacts DEF View, StoreOK
    <2>2. store.format \in {"v2", "v3", "refs"}
      BY <1>1, ViewFacts DEF StoreOK
    <2> QED
      BY <1>3, <2>1, <2>2 DEF DetectVersion
  <1>5. CASE Fail
    BY <1>1, <1>2, <1>4, <1>5, FailStep, IoUnchanged
  <1>6. CASE phase' = "arrays" /\ UNCHANGED <<table, scan>>
    BY <1>1, <1>2, <1>4, <1>6, MoveStep
  <1> QED
    BY <1>3, <1>5, <1>6

\* The arrays are discovered one by one.
LEMMA DiscoverStep == IInv /\ (DiscoverV2Async \/ DiscoverV3Async) => IInv'
  <1> SUFFICES ASSUME IInv, DiscoverV2Async \/ DiscoverV3Async PROVE IInv'
    OBVIOUS
  <1>1. /\ Discovering /\ version \in {"none", "v2", "v3"}
        /\ UNCHANGED <<store, handle, version, io, scans>>
    BY DEF IInv, Typed, DiscoverV2Async, DiscoverV3Async, Discovering
  <1>2. lost' \in 0 .. MaxFaults
    BY DiscoveryLoses DEF IInv, Typed
  <1>3. Fail \/ \E meta : Discovered(meta)
    BY DEF DiscoverV2Async, DiscoverV3Async, CannotList
  <1>4. CASE Fail
    BY <1>1, <1>2, <1>4, FailStep, IoUnchanged
  <1>5. ASSUME NEW meta, Discovered(meta) PROVE IInv'
    BY <1>1, <1>2, <1>5, DiscoveredStep
  <1> QED
    BY <1>3, <1>4, <1>5

\* A measured scan counts what it is sent: it reads through no adapter.
LEMMA ReadChunkStep ==
    ASSUME IInv, NEW n, NEW idx, NEW part \in BOOLEAN, ReadChunk(n, idx, part)
    PROVE  IInv'
  <1>1. /\ phase = "reading" /\ UNCHANGED <<store, handle, version, scans>> /\ scan # <<>>
        /\ version \in {"none", "v2", "v3"}
    BY DEF IInv, Typed, TableAndScan, ReadChunk
  <1>2. PICK what : /\ Delivered \/ Lose(1)
                    /\ io' = CountBytes(what, part)
                    /\ \/ Fail
                       \/ scan' = <<[scan[1] EXCEPT !.reads = @ + 1]>> /\ UNCHANGED <<phase, table>>
    BY DEF ReadChunk
  <1>3. lost' \in 0 .. MaxFaults
    BY <1>2, LostBounded DEF IInv, Typed, Delivered
  <1>4. IoKept /\ io'.tracked = io.tracked
    <2> DEFINE sent == Length(what, part /\ handle # "adapter")
               counted == IF io.tracked THEN Length(what, part) ELSE 0
    <2>1. sent \in Nat /\ counted \in Nat
      BY DEF Length
    <2>2. counted = IF io.tracked THEN sent ELSE 0
      BY <1>1 DEF IInv, MeasuredOK
    <2>3. io' = [io EXCEPT !.sent = @ + sent, !.counted = @ + counted]
      BY <1>2 DEF CountBytes
    <2>4. io \in [tracked : BOOLEAN, counted : Nat, sent : Nat] /\ QueryReportsItsBytes
      BY DEF IInv, Typed
    <2> HIDE DEF sent, counted
    <2>5. /\ io' \in [tracked : BOOLEAN, counted : Nat, sent : Nat] /\ io'.tracked = io.tracked
          /\ io'.sent = io.sent + sent /\ io'.counted = io.counted + counted
      <3>1. io.sent + sent \in Nat /\ io.counted + counted \in Nat
        BY <2>1, <2>4
      <3> DEFINE s == io.sent + sent
                 c == io.counted + counted
      <3>2. io' = [io EXCEPT !.sent = s, !.counted = c]
        BY <2>3
      <3> HIDE DEF s, c
      <3>3. s \in Nat /\ c \in Nat
        BY <3>1 DEF s, c
      <3>4. /\ io' \in [tracked : BOOLEAN, counted : Nat, sent : Nat] /\ io'.tracked = io.tracked
            /\ io'.sent = s /\ io'.counted = c
        BY <2>4, <3>2, <3>3, Zenon
      <3> QED
        BY <3>4 DEF s, c
    <2> QED
      BY <2>1, <2>2, <2>4, <2>5 DEF QueryReportsItsBytes, IoKept
  <1>5. CASE Fail
    BY <1>1, <1>3, <1>4, <1>5, FailStep
  <1>6. CASE scan' = <<[scan[1] EXCEPT !.reads = @ + 1]>> /\ UNCHANGED <<phase, table>>
    <2>1. scan' # <<>> /\ "meta" \in DOMAIN scan'[1] /\ scan'[1].meta = scan[1].meta
      BY <1>1, <1>6 DEF IInv, TableAndScan
    <2>2. Typed'
      BY <1>1, <1>3, <1>4, <1>6 DEF IInv, Typed, IoKept
    <2>3. TableAndScan'
      BY <1>1, <1>6, <2>1 DEF IInv, TableAndScan
    <2>4. RemoteOK'
      BY <1>1, <1>6 DEF IInv, RemoteOK, IsRemote
    <2>5. LocalOK'
      BY <1>1, <1>6 DEF IInv, LocalOK, LocalTable, IsRemote, View, Discovering
    <2>6. MeasuredOK'
      BY <1>1, <1>4 DEF IInv, MeasuredOK
    <2> QED
      BY <1>4, <2>2, <2>3, <2>4, <2>5, <2>6 DEF IInv, IoKept
  <1> QED
    BY <1>2, <1>5, <1>6

\* A scan begins: it is measured unless it reads through an adapter.
LEMMA ScanBegins ==
    ASSUME IInv, phase = "ready", NEW meta, NEW at, NEW tracked \in BOOLEAN,
           scan' = <<[at |-> at, meta |-> meta, reads |-> 0]>>,
           meta # <<>> <=> phase' = "reading", io' = NewIoStats(tracked),
           phase' \in {"open", "zmetadata", "reading"},
           phase' = "open" => table[1].store_kind = "icechunk",
           UNCHANGED <<store, lost, version, table>>, scans' \in 0 .. MaxScans,
           handle' \in {"plain", "icechunk", "adapter"},
           handle' = "adapter" => ~tracked /\ (IsRemote \/ IsVirtualizarrStore(store)),
           ~IsRemote => LocalTable(table[1])' /\ (phase' = "reading" \/ store.icechunk)
    PROVE  IInv'
  <1>1. Typed' /\ QueryReportsItsBytes'
    BY DEF IInv, Typed, Phases, NewIoStats, QueryReportsItsBytes
  <1>2. TableAndScan'
    BY DEF IInv, TableAndScan
  <1>3. RemoteOK'
    BY DEF RemoteOK, IsRemote
  <1>4. LocalOK'
    BY DEF IInv, TableAndScan, LocalOK, IsRemote, Discovering
  <1>5. MeasuredOK'
    BY DEF MeasuredOK, NewIoStats
  <1> QED
    BY <1>1, <1>2, <1>3, <1>4, <1>5 DEF IInv

\* A scan starts, on the head or on a worker.
LEMMA StartScanStep ==
    ASSUME IInv, NEW at, StartScan(at)
    PROVE  IInv'
  <1> DEFINE t == table[1]
             exec == IF at = "worker" THEN ShippedExec(t) ELSE t
  <1>1. /\ phase = "ready" /\ table # <<>> /\ scans' \in 0 .. MaxScans /\ store \in Stores
        /\ UNCHANGED <<store, lost, version>> /\ handle \in {"plain", "icechunk", "adapter"}
    BY BoundsAssumption DEF IInv, Typed, TableAndScan, StartScan
  <1>2. /\ exec.store_kind = t.store_kind /\ exec.meta = t.meta
        /\ exec.cached => t.cached
        /\ exec.adapter => t.adapter
    <2>1. DOMAIN t = {"meta", "store_kind", "cached", "adapter"}
      BY <1>1 DEF IInv, TableAndScan
    <2> QED
      BY <2>1 DEF ShippedExec
  <1>3. ~IsRemote => LocalTable(t)
    BY <1>1 DEF IInv, LocalOK
  <1>4. \/ ExecutePath(exec) = "local" /\ ExecuteLocal(at)
        \/ ExecutePath(exec) = "virtualizarr" /\ ExecuteVirtualizarr(at)
        \/ ExecutePath(exec) = "adapter" /\ ExecuteWithAdapter(at)
        \/ ExecutePath(exec) = "remote" /\ ExecuteRemote(exec, at)
    BY DEF StartScan
  <1>5. (handle' = "icechunk" <=> handle = "icechunk") => View' = View
    BY <1>1 DEF View
  <1> HIDE DEF exec
  <1>6. CASE ExecutePath(exec) = "local" /\ ExecuteLocal(at)
    <2>1. ~IsRemote /\ ~IsVirtualizarrStore(store) /\ ~exec.cached /\ exec.store_kind = "zarr"
      BY <1>6 DEF ExecutePath
    <2>2. Readable(View) /\ handle # "icechunk" /\ handle # "adapter"
      BY <1>2, <1>3, <2>1 DEF LocalTable, IInv, RemoteOK
    <2>3. PICK l \in Listings(View) : scan' = <<[at |-> at, meta |-> DiscoverArrays(View, l), reads |-> 0]>>
      BY <1>6 DEF ExecuteLocal
    <2>4. DiscoverArrays(View, l) # <<>>
      BY <1>1, <2>2, ViewFacts, ReadableInAnyOrder
    <2>5. /\ phase' = "reading" /\ io' = NewIoStats(TRUE) /\ UNCHANGED <<handle, table>>
      BY <1>6 DEF ExecuteLocal
    <2>6. LocalTable(t)'
      BY <1>1, <1>3, <1>5, <2>1, <2>5 DEF LocalTable
    <2> QED
      BY <1>1, <2>1, <2>2, <2>3, <2>4, <2>5, <2>6, ScanBegins
  <1>7. CASE ExecutePath(exec) = "virtualizarr" /\ ExecuteVirtualizarr(at)
    <2>1. ~IsRemote /\ IsVirtualizarrStore(store)
      BY <1>7 DEF ExecutePath
    <2>2. ~store.icechunk
      BY <1>1, <2>1, ViewFacts DEF StoreOK, IsVirtualizarrStore
    <2>3. View = store /\ Readable(store) /\ handle # "icechunk"
      BY <1>1, <1>3, <2>1, <2>2, ViewFacts DEF LocalTable
    <2>4. DiscoverArrays(store, <<>>) # <<>>
      BY <1>1, <2>3, ViewFacts, ReadableInAnyOrder
    <2>5. /\ phase' = "reading" /\ io' = NewIoStats(FALSE) /\ handle' = "adapter"
          /\ UNCHANGED table
          /\ scan' = <<[at |-> at, meta |-> DiscoverArrays(store, <<>>), reads |-> 0]>>
      BY <1>7 DEF ExecuteVirtualizarr
    <2>6. LocalTable(t)'
      BY <1>1, <1>3, <1>5, <2>1, <2>3, <2>5 DEF LocalTable
    <2> QED
      BY <1>1, <2>1, <2>4, <2>5, <2>6, ScanBegins
  <1>8. CASE ExecutePath(exec) = "adapter" /\ ExecuteWithAdapter(at)
    <2>1. exec.adapter
      BY <1>8 DEF ExecutePath
    <2>2. IsRemote
      BY <1>2, <1>3, <2>1 DEF LocalTable
    <2>3. /\ phase' = "zmetadata" /\ io' = NewIoStats(FALSE) /\ handle' = "adapter"
          /\ UNCHANGED table
          /\ scan' = <<[at |-> at, meta |-> <<>>, reads |-> 0]>>
      BY <1>8 DEF ExecuteWithAdapter
    <2> QED
      BY <1>1, <2>2, <2>3, ScanBegins
  <1>9. CASE ExecutePath(exec) = "remote" /\ ExecuteRemote(exec, at)
    <2> DEFINE meta == IF exec.cached THEN <<exec.meta>> ELSE <<>>
    <2>1. /\ handle' = IF exec.cached /\ exec.store_kind = "icechunk" THEN "icechunk" ELSE "plain"
          /\ scan' = <<[at |-> at, meta |-> meta, reads |-> 0]>>
          /\ io' = NewIoStats(TRUE) /\ UNCHANGED table
      BY <1>9 DEF ExecuteRemote
    <2>2. /\ phase' \in {"open", "zmetadata", "reading"} /\ (meta # <<>> <=> phase' = "reading")
          /\ phase' = "open" => table[1].store_kind = "icechunk"
      BY <1>2, <1>9 DEF ExecuteRemote
    <2>3. ~IsRemote => LocalTable(t)' /\ store.icechunk
      <3> SUFFICES ASSUME ~IsRemote PROVE LocalTable(t)' /\ store.icechunk
        OBVIOUS
      <3>1. exec.cached \/ exec.store_kind # "zarr"
        BY <1>9 DEF ExecutePath
      <3>2. t.cached /\ t.store_kind = "icechunk" /\ store.icechunk /\ ~t.adapter
        BY <1>2, <1>3, <3>1 DEF LocalTable
      <3> QED
        BY <1>1, <2>1, <3>2 DEF LocalTable
    <2> HIDE DEF meta
    <2> QED
      BY <1>1, <2>1, <2>2, <2>3, ScanBegins
  <1> QED
    BY <1>4, <1>6, <1>7, <1>8, <1>9

\* A scan ends.
LEMMA FinishScanStep == IInv /\ FinishScan => IInv'
  <1> SUFFICES ASSUME IInv, FinishScan PROVE IInv'
    OBVIOUS
  <1>1. Typed' /\ QueryReportsItsBytes'
    BY DEF IInv, Typed, Phases, FinishScan, QueryReportsItsBytes
  <1>2. TableAndScan'
    BY DEF IInv, TableAndScan, FinishScan
  <1>3. RemoteOK'
    BY DEF IInv, RemoteOK, IsRemote, FinishScan
  <1>4. LocalOK'
    BY DEF IInv, TableAndScan, LocalOK, LocalTable, View, IsRemote, FinishScan,
           Discovering
  <1>5. MeasuredOK'
    BY DEF MeasuredOK, FinishScan
  <1> QED
    BY <1>1, <1>2, <1>3, <1>4, <1>5 DEF IInv

\* Stuttering.
LEMMA StutterStep == IInv /\ UNCHANGED vars => IInv'
  <1> SUFFICES ASSUME IInv, UNCHANGED vars PROVE IInv'
    OBVIOUS
  <1>1. UNCHANGED <<store, phase, lost, handle, version, table, scan, io, scans>>
    BY DEF vars
  <1> QED
    BY <1>1 DEF IInv, Typed, TableAndScan, RemoteOK, LocalOK, LocalTable, View, IsRemote, MeasuredOK,
                QueryReportsItsBytes, Discovering

\* The invariant is inductive.
LEMMA NextIInv == IInv /\ [Next]_vars => IInv'
  <1> SUFFICES ASSUME IInv, [Next]_vars PROVE IInv'
    OBVIOUS
  <1>1. CASE Request
    BY <1>1, CreateLocalStep, CreateStoreStep, IsIcechunkStoreStep, OpenIcechunkStep,
       IsVirtualizarrStep, NewAdapterStep, ReadZmetadataStep, DetectVersionStep,
       DiscoverStep DEF Request
  <1>2. CASE \E at \in {"head", "worker"} : StartScan(at)
    BY <1>2, StartScanStep
  <1>3. CASE ReadSome
    BY <1>3, ReadChunkStep DEF ReadSome
  <1>4. CASE FinishScan
    BY <1>4, FinishScanStep
  <1>5. CASE Terminated \/ UNCHANGED vars
    BY <1>5, StutterStep DEF Terminated
  <1> QED
    BY <1>1, <1>2, <1>3, <1>4, <1>5 DEF Next

\* The inductive invariant holds.
THEOREM IInvHolds == Spec => []IInv
  BY InitIInv, NextIInv, PTL DEF Spec

\* Type correctness: a registration that failed has left no table, a table
\* outlives every query that fails, and a scan that reads has the metadata it
\* reads by, though a directory is listed anew in another order.
THEOREM TypeCorrect == Spec => []TypeOK
  <1>1. IInv => TypeOK
    <2> SUFFICES ASSUME IInv PROVE TypeOK
      OBVIOUS
    <2>1. phase \in {"ready", "reading"} <=> table # <<>> /\ (scan = <<>> \/ scan[1].meta # <<>>)
      BY DEF IInv, TableAndScan
    <2>2. (phase = "reading" => scan # <<>>) /\ (phase = "failed" => table = <<>>)
      BY DEF IInv, TableAndScan
    <2> QED
      BY <2>1, <2>2 DEF IInv, Typed, Phases, TypeOK
  <1> QED
    BY <1>1, IInvHolds, PTL

\* Whatever is registered, lost and scanned in whatever order, a measured scan
\* reports exactly the chunk bytes it was sent, and an unmeasured one none.
THEOREM QueryReportsItsBytesHolds == Spec => []QueryReportsItsBytes
  <1>1. IInv => QueryReportsItsBytes
    BY DEF IInv
  <1> QED
    BY <1>1, IInvHolds, PTL

\* A table outlives the queries: no step changes or drops it, also not one that
\* fails.
TableStays == [][table # <<>> => table' = table]_vars

\* Once registered, a table stays what it is.
THEOREM TableStaysHolds == Spec => TableStays
  <1>1. IInv /\ [Next]_vars => [table # <<>> => table' = table]_vars
    <2> SUFFICES ASSUME IInv, Next, table # <<>> PROVE table' = table
      OBVIOUS
    <2>1. phase \notin {"new", "icechunk", "virtualizarr", "adapter"}
      BY DEF IInv, TableAndScan
    <2>2. CASE Request
      BY <2>1, <2>2 DEF Request, CreateLocal, CreateStore, IsIcechunkStore, OpenIcechunk,
         IsVirtualizarrStoreAsync, NewAdapter, ReadZmetadata, DetectVersionAsync, NoVersion,
         DiscoverV2Async, DiscoverV3Async, CannotList, Discovered, Fail
    <2>3. CASE \E at \in {"head", "worker"} : StartScan(at)
      BY <2>3 DEF StartScan, ExecuteLocal, ExecuteVirtualizarr, ExecuteWithAdapter, ExecuteRemote
    <2>4. CASE ReadSome
      BY <2>4 DEF ReadSome, ReadChunk, Fail
    <2>5. CASE FinishScan \/ Terminated
      BY <2>5 DEF FinishScan, Terminated, vars
    <2> QED
      BY <2>2, <2>3, <2>4, <2>5 DEF Next
  <1> QED
    BY <1>1, IInvHolds, PTL DEF Spec, TableStays

-----------------------------------------------------------------------------
(* What steps keep. *)

\* Losses do not become fewer.
LEMMA LossesStay ==
    ASSUME Typed, NEW n \in Nat, Lose(n), lost' = 0
    PROVE  lost = 0 /\ n = 0
  BY DEF Typed, Lose

\* No step changes the store.
LEMMA StoreStays == ASSUME [Next]_vars PROVE UNCHANGED store
  <1>1. CASE Request
    BY <1>1, Zenon DEF Request, CreateLocal, CreateStore, IsIcechunkStore, OpenIcechunk,
       IsVirtualizarrStoreAsync, NewAdapter, ReadZmetadata, DetectVersionAsync, DiscoverV2Async,
       DiscoverV3Async
  <1>2. CASE \E at \in {"head", "worker"} : StartScan(at)
    BY <1>2 DEF StartScan
  <1>3. CASE ReadSome
    BY <1>3 DEF ReadSome, ReadChunk
  <1> QED
    BY <1>1, <1>2, <1>3 DEF Next, FinishScan, Terminated, vars

-----------------------------------------------------------------------------
(* The number of a chunk. *)

\* The cells of a grid with per[d] places on axis d.
GridCells(per, n) == {u \in [1 .. n -> Nat] : \A d \in 1 .. n : u[d] < per[d]}

\* The value of the last k digits of a cell.
IsFlat(f, u, per, n) ==
    /\ f \in [0 .. n -> Nat] /\ f[0] = 0
    /\ \A k \in 1 .. n : f[k] = f[k - 1] + u[n + 1 - k] * ProductAfter(per, n + 1 - k)

\* A smaller digit weighs less, whatever comes after it.
LEMMA PlaceBelow ==
    ASSUME NEW x \in Nat, NEW m \in Nat, x < m, NEW p \in Nat, NEW l \in Nat, l < p
    PROVE  x * p \in Nat /\ m * p \in Nat /\ l + x * p < m * p
  <1>1. x + 1 \in Nat /\ x + 1 <= m
    OBVIOUS
  <1>2. (x + 1) * p <= m * p
    BY <1>1, MulMono
  <1>3. x * p \in Nat /\ m * p \in Nat /\ (x + 1) * p = x * p + p
    OBVIOUS
  <1> QED
    BY <1>2, <1>3

\* The weights of the digits.
LEMMA Weights ==
    ASSUME NEW n \in Nat, NEW per \in [1 .. n -> Nat], NEW k \in 1 .. n
    PROVE  /\ n + 1 - k \in 1 .. n
           /\ ProductAfter(per, n + 1 - k) \in Nat
           /\ ProductAfter(per, n - k) = per[n + 1 - k] * ProductAfter(per, n + 1 - k)
           /\ ProductAfter(per, n - (k - 1)) = ProductAfter(per, n + 1 - k)
  <1> DEFINE P(i) == ProductAfter(per, i)
             b == n + 1 - k
  <1>1. \A i \in 0 .. n : P(i) \in Nat
    BY ProductFacts
  <1>2. \A i \in 1 .. n : P(i - 1) = per[i] * P(i)
    BY ProductFacts
  <1>3. b \in 1 .. n /\ b \in 0 .. n /\ b - 1 = n - k /\ n - (k - 1) = b
    OBVIOUS
  <1> HIDE DEF P
  <1>4. P(b) \in Nat /\ P(b - 1) = per[b] * P(b)
    <2> HIDE DEF b
    <2> QED
      BY <1>1, <1>2, <1>3
  <1>5. P(n - k) = per[b] * P(b) /\ P(n - (k - 1)) = P(b)
    BY <1>3, <1>4
  <1> QED
    BY <1>3, <1>4, <1>5 DEF P

\* indices_to_flat_index computes them one after the other.
LEMMA FlatIndexIs ==
    ASSUME NEW n \in Nat, NEW per \in [1 .. n -> Nat], NEW u \in [1 .. n -> Nat]
    PROVE  \E f : IsFlat(f, u, per, n) /\ IndicesToFlatIndex(u, per) = f[n]
  <1> DEFINE S == [flat : Nat, stride : Nat]
             Turn(k, x) == [flat   |-> x.flat + u[n + 1 - k] * x.stride,
                            stride |-> x.stride * per[n + 1 - k]]
             First == [flat |-> 0, stride |-> 1]
             IsAt(at) == at = [k \in 0 .. n |-> IF k = 0 THEN First ELSE Turn(k, at[k - 1])]
             h == [kx \in (1 .. n) \X S |-> Turn(kx[1], kx[2])]
  <1>0. u \in Seq(Nat) /\ Len(u) = n
    BY FunIsSeq
  <1>1. ASSUME NEW k \in 1 .. n, NEW x \in S PROVE Turn(k, x) \in S
    <2>1. n + 1 - k \in 1 .. n
      OBVIOUS
    <2>2. x.flat \in Nat /\ x.stride \in Nat /\ u[n + 1 - k] \in Nat /\ per[n + 1 - k] \in Nat
      BY <2>1
    <2>3. u[n + 1 - k] * x.stride \in Nat /\ x.stride * per[n + 1 - k] \in Nat
      BY <2>2
    <2> QED
      BY <2>2, <2>3
  <1>2. First \in S
    OBVIOUS
  <1>3. h \in [(1 .. n) \X S -> S]
    <2> SUFFICES ASSUME NEW kx \in (1 .. n) \X S PROVE Turn(kx[1], kx[2]) \in S
      OBVIOUS
    <2>1. kx[1] \in 1 .. n /\ kx[2] \in S
      OBVIOUS
    <2> HIDE DEF Turn, S
    <2> QED
      BY <1>1, <2>1
  <1>4. \E at : IsLoop(at, n, S, First, h)
    <2> HIDE DEF h, S, First
    <2> QED
      BY <1>2, <1>3, Iterates
  <1>5. PICK g : /\ g \in [0 .. n -> S] /\ g[0] = First
                 /\ \A k \in 1 .. n : g[k] = h[<<k, g[k - 1]>>]
    BY <1>4 DEF IsLoop
  <1>6. ASSUME NEW k \in 1 .. n PROVE g[k] = Turn(k, g[k - 1])
    <2>1. k - 1 \in 0 .. n
      OBVIOUS
    <2>2. <<k, g[k - 1]>> \in (1 .. n) \X S
      BY <1>5, <2>1
    <2>3. h[<<k, g[k - 1]>>] = Turn(k, g[k - 1])
      <3> HIDE DEF Turn, S
      <3> QED
        BY <2>2
    <2> QED
      BY <1>5, <2>3
  <1>7. IsAt(g)
    <2> HIDE DEF S, Turn, First, h
    <2>1. g = [k \in 0 .. n |-> g[k]]
      BY <1>5
    <2>2. \A k \in 0 .. n : g[k] = IF k = 0 THEN First ELSE Turn(k, g[k - 1])
      BY <1>5, <1>6
    <2> QED
      BY <2>1, <2>2
  <1> DEFINE at == CHOOSE at : IsAt(at)
  <1>8. IsAt(at)
    <2> HIDE DEF IsAt
    <2> QED
      BY <1>7
  <1>9. IndicesToFlatIndex(u, per) = at[n].flat
    BY <1>0 DEF IndicesToFlatIndex
  <1> HIDE DEF at, h
  <1>10. at[0] = First /\ \A k \in 1 .. n : at[k] = Turn(k, at[k - 1])
    <2> HIDE DEF Turn, First
    <2> QED
      BY <1>8
  <1> DEFINE P(i) == ProductAfter(per, i)
             T == {k \in 0 .. n : at[k] \in S /\ at[k].stride = P(n - k)}
  <1>p. P(n) = 1
    BY ProductFacts
  <1>11. 0 \in T
    <2>1. n - 0 = n /\ 0 \in 0 .. n
      OBVIOUS
    <2> HIDE DEF P
    <2> QED
      BY <1>10, <1>p, <2>1
  <1>12. ASSUME NEW k \in 1 .. n, k - 1 \in T PROVE k \in T
    <2>1. at[k - 1] \in S /\ at[k - 1].stride = P(n - (k - 1))
      BY <1>12
    <2>2. at[k] \in S
      <3> HIDE DEF S, Turn
      <3> QED
        BY <1>1, <1>10, <2>1
    <2>3. at[k].stride = at[k - 1].stride * per[n + 1 - k]
      <3>1. at[k] = Turn(k, at[k - 1])
        BY <1>10
      <3> HIDE DEF at
      <3> QED
        BY <3>1
    <2>4. /\ n + 1 - k \in 1 .. n /\ P(n + 1 - k) \in Nat
          /\ P(n - k) = per[n + 1 - k] * P(n + 1 - k)
          /\ P(n - (k - 1)) = P(n + 1 - k)
      BY Weights
    <2> HIDE DEF P, S, Turn
    <2>5. at[k].stride = P(n + 1 - k) * per[n + 1 - k] /\ per[n + 1 - k] \in Nat
      BY <2>1, <2>3, <2>4
    <2>6. at[k].stride = P(n - k)
      BY <2>4, <2>5
    <2>7. k \in 0 .. n
      OBVIOUS
    <2> QED
      BY <2>2, <2>6, <2>7
  <1>13. \A k \in 0 .. n : k \in T
    <2> HIDE DEF T
    <2> QED
      BY <1>11, <1>12, Upward
  <1> DEFINE f == [k \in 0 .. n |-> at[k].flat]
  <1>14. f \in [0 .. n -> Nat] /\ f[0] = 0 /\ f[n] = at[n].flat
    BY <1>10, <1>13
  <1>15. ASSUME NEW k \in 1 .. n PROVE f[k] = f[k - 1] + u[n + 1 - k] * ProductAfter(per, n + 1 - k)
    <2>0. k \in 0 .. n /\ k - 1 \in 0 .. n
      OBVIOUS
    <2>1. at[k - 1].stride = P(n - (k - 1))
      BY <1>13, <2>0
    <2>2. at[k].flat = at[k - 1].flat + u[n + 1 - k] * at[k - 1].stride
      <3>1. at[k] = Turn(k, at[k - 1])
        BY <1>10
      <3> QED
        BY <3>1
    <2>3. P(n - (k - 1)) = P(n + 1 - k)
      BY Weights
    <2>4. f[k] = at[k].flat /\ f[k - 1] = at[k - 1].flat
      BY <2>0
    <2> QED
      BY <2>1, <2>2, <2>3, <2>4
  <1> HIDE DEF f
  <1> QED
    BY <1>9, <1>14, <1>15 DEF IsFlat

\* The last k digits count less than a place of the digit before them.
LEMMA FlatBounded ==
    ASSUME NEW n \in Nat, NEW per \in [1 .. n -> Nat], NEW u \in GridCells(per, n), NEW f, IsFlat(f, u, per, n)
    PROVE  \A k \in 0 .. n : f[k] \in Nat /\ f[k] < ProductAfter(per, n - k)
  <1> DEFINE P(i) == ProductAfter(per, i)
             T == {k \in 0 .. n : f[k] \in Nat /\ f[k] < P(n - k)}
  <1>p. P(n) = 1
    BY ProductFacts
  <1>0. /\ f \in [0 .. n -> Nat] /\ f[0] = 0
        /\ \A k \in 1 .. n : f[k] = f[k - 1] + u[n + 1 - k] * P(n + 1 - k)
        /\ u \in [1 .. n -> Nat] /\ \A d \in 1 .. n : u[d] < per[d]
    BY DEF IsFlat, GridCells
  <1>1. 0 \in T
    <2>1. n - 0 = n /\ 0 \in 0 .. n
      OBVIOUS
    <2> HIDE DEF P
    <2> QED
      BY <1>0, <1>p, <2>1
  <1>2. ASSUME NEW k \in 1 .. n, k - 1 \in T PROVE k \in T
    <2>1. k \in 0 .. n /\ f[k - 1] \in Nat /\ f[k - 1] < P(n - (k - 1))
      BY <1>2
    <2>2. /\ n + 1 - k \in 1 .. n /\ P(n + 1 - k) \in Nat
          /\ P(n - k) = per[n + 1 - k] * P(n + 1 - k)
          /\ P(n - (k - 1)) = P(n + 1 - k)
      BY Weights
    <2> HIDE DEF P
    <2>3. u[n + 1 - k] \in Nat /\ per[n + 1 - k] \in Nat /\ u[n + 1 - k] < per[n + 1 - k]
      BY <1>0, <2>2
    <2>4. f[k - 1] < P(n + 1 - k)
      BY <2>1, <2>2
    <2>5. f[k - 1] + u[n + 1 - k] * P(n + 1 - k) < per[n + 1 - k] * P(n + 1 - k)
      BY <2>1, <2>2, <2>3, <2>4, PlaceBelow
    <2>6. f[k] < P(n - k)
      BY <1>0, <2>2, <2>5
    <2> QED
      BY <1>0, <2>1, <2>6
  <1>3. \A k \in 0 .. n : k \in T
    <2> HIDE DEF T
    <2> QED
      BY <1>1, <1>2, Upward
  <1> QED
    BY <1>3

\* Cells are numbered in row-major order.
LEMMA FlatOrder ==
    ASSUME NEW n \in Nat, NEW per \in [1 .. n -> Nat], NEW u \in GridCells(per, n), NEW v \in GridCells(per, n),
           NEW f, IsFlat(f, u, per, n), NEW g, IsFlat(g, v, per, n), ShownBefore(u, v, n)
    PROVE  f[n] < g[n]
  <1>1. PICK a \in 1 .. n : u[a] < v[a] /\ \A b \in 1 .. a - 1 : u[b] = v[b]
    BY DEF ShownBefore
  <1> DEFINE P(i) == ProductAfter(per, i)
             c == n + 1 - a
             T == {k \in 0 .. n : k >= c => f[k] < g[k]}
  <1>0. /\ f \in [0 .. n -> Nat] /\ g \in [0 .. n -> Nat]
        /\ u \in [1 .. n -> Nat] /\ v \in [1 .. n -> Nat]
        /\ \A k \in 1 .. n : f[k] = f[k - 1] + u[n + 1 - k] * P(n + 1 - k)
        /\ \A k \in 1 .. n : g[k] = g[k - 1] + v[n + 1 - k] * P(n + 1 - k)
    BY DEF IsFlat, GridCells
  <1>2. 0 \in T
    OBVIOUS
  <1>3. ASSUME NEW k \in 1 .. n, k - 1 \in T PROVE k \in T
    <2>0. k \in 0 .. n /\ k - 1 \in 0 .. n
      OBVIOUS
    <2>1. n + 1 - k \in 1 .. n /\ P(n + 1 - k) \in Nat /\ P(n - (k - 1)) = P(n + 1 - k)
      BY Weights
    <2>2. f[k - 1] < P(n - (k - 1))
      BY <2>0, FlatBounded
    <2> HIDE DEF P
    <2>3. PICK b \in 1 .. n : b = n + 1 - k
      BY <2>1
    <2>4. PICK p \in Nat : p = P(n + 1 - k)
      BY <2>1
    <2>5. /\ u[b] \in Nat /\ v[b] \in Nat /\ f[k - 1] \in Nat /\ g[k - 1] \in Nat
          /\ f[k] = f[k - 1] + u[b] * p /\ g[k] = g[k - 1] + v[b] * p
          /\ f[k - 1] < p
      BY <1>0, <2>0, <2>1, <2>2, <2>3, <2>4
    <2>6. u[b] * p \in Nat /\ v[b] * p \in Nat
      <3>1. PICK x \in Nat, y \in Nat : x = u[b] /\ y = v[b]
        BY <2>5
      <3>2. x * p \in Nat /\ y * p \in Nat
        OBVIOUS
      <3> QED
        BY <3>1, <3>2
    <2>7. CASE k < c
      BY <2>0, <2>7
    <2>8. CASE k = c
      <3>1. u[b] < v[b]
        BY <1>1, <2>3, <2>8
      <3>2. f[k - 1] + u[b] * p < v[b] * p
        BY <2>5, <3>1, PlaceBelow
      <3>3. PICK x \in Nat, y \in Nat : x = u[b] * p /\ y = v[b] * p
        BY <2>6
      <3>4. f[k] = f[k - 1] + x /\ g[k] = g[k - 1] + y /\ f[k - 1] + x < y
        <4>1. f[k] = f[k - 1] + x
          BY <2>5, <3>3
        <4>2. g[k] = g[k - 1] + y
          BY <2>5, <3>3
        <4>3. f[k - 1] + x < y
          BY <3>2, <3>3
        <4> QED
          BY <4>1, <4>2, <4>3
      <3>5. PICK q \in Nat, r \in Nat : q = f[k - 1] /\ r = g[k - 1]
        BY <2>5
      <3>6. f[k] < g[k]
        BY <3>4, <3>5
      <3> QED
        BY <2>0, <3>6
    <2>9. CASE k > c
      <3>1. b \in 1 .. a - 1 /\ k - 1 >= c
        BY <2>3, <2>9
      <3>2. u[b] = v[b] /\ f[k - 1] < g[k - 1]
        BY <1>1, <1>3, <3>1
      <3>3. PICK x \in Nat : x = u[b] * p /\ x = v[b] * p
        BY <2>6, <3>2
      <3>4. f[k] < g[k]
        BY <2>5, <3>2, <3>3
      <3> QED
        BY <2>0, <3>4
    <2> QED
      BY <2>7, <2>8, <2>9
  <1>4. \A k \in 0 .. n : k \in T
    <2> HIDE DEF T
    <2> QED
      BY <1>2, <1>3, Upward
  <1>5. n >= c /\ n \in 0 .. n
    OBVIOUS
  <1> QED
    BY <1>4, <1>5

\* The remainder by a product, digit by digit.
LEMMA ModByProduct ==
    ASSUME NEW r \in Nat, NEW p \in Nat \ {0}, NEW s \in Nat \ {0}
    PROVE  r % (s * p) = (r % p) + ((r \div p) % s) * p
  <1> DEFINE q == r \div p
             m == s * p
             Q == r \div m
             d == q % s
  <1>0. m \in Nat \ {0}
    OBVIOUS
  <1>1. q \in Nat /\ r = q * p + (r % p) /\ r % p \in Nat
    BY ModFacts, DivFacts
  <1>2. Q \in Nat /\ r = Q * m + (r % m) /\ r % m \in Nat
    <2> HIDE DEF m
    <2> QED
      BY <1>0, ModFacts, DivFacts
  <1>3. q = s * Q + d
    BY Nested
  <1>4. d \in Nat
    <2> HIDE DEF q
    <2> QED
      BY <1>1, ModFacts
  <1> HIDE DEF q, d, Q, m
  <1>5. (s * Q + d) * p = Q * (s * p) + d * p
    <2>1. (s * Q + d) * p = (s * Q) * p + d * p
      BY <1>2, <1>4
    <2>2. (s * Q) * p = Q * (s * p)
      BY <1>2
    <2> QED
      BY <2>1, <2>2
  <1>6. q * p = Q * m + d * p
    BY <1>3, <1>5 DEF m
  <1>7. PICK x \in Nat, y \in Nat : x = Q * m /\ y = d * p
    <2>1. Q * m \in Nat
      BY <1>0, <1>2
    <2>2. d * p \in Nat
      BY <1>4
    <2> QED
      BY <2>1, <2>2
  <1>8. r % m = (r % p) + d * p
    <2>1. q * p = x + y
      BY <1>6, <1>7
    <2>2. r = x + y + (r % p)
      BY <1>1, <2>1
    <2>3. r = x + (r % m)
      BY <1>2, <1>7
    <2>4. r % m = (r % p) + y
      BY <1>1, <1>2, <2>2, <2>3
    <2> QED
      BY <1>7, <2>4
  <1> QED
    BY <1>8 DEF m, d, q

\* Every number below the product is that of the cell of its digits.
LEMMA FlatOnto ==
    ASSUME NEW n \in Nat, NEW per \in [1 .. n -> Nat], NEW r \in 0 .. Product(per) - 1
    PROVE  \E u \in GridCells(per, n) : IndicesToFlatIndex(u, per) = r
  <1> DEFINE P(i) == ProductAfter(per, i)
             u == [a \in 1 .. n |-> Digit(per, r, a)]
  <1>0. Product(per) = P(0) /\ P(n) = 1 /\ P(0) \in Nat
    <2>1. Product(per) = P(0) /\ P(n) = 1 /\ \A i \in 0 .. n : P(i) \in Nat
      BY ProductFacts
    <2>2. 0 \in 0 .. n
      OBVIOUS
    <2> HIDE DEF P
    <2> QED
      BY <2>1, <2>2
  <1>1. P(0) # 0 /\ r \in Nat /\ r < P(0)
    <2> HIDE DEF P
    <2> QED
      BY <1>0
  <1>2. (\A i \in 0 .. n : P(i) \in Nat \ {0}) /\ \A i \in 1 .. n : per[i] \in Nat \ {0}
    BY <1>1, ProductPositive
  <1>3. ASSUME NEW a \in 1 .. n PROVE u[a] = (r \div P(a)) % per[a] /\ u[a] \in Nat /\ u[a] < per[a]
    <2>1. u[a] = (r \div P(a)) % per[a]
      BY DEF Digit
    <2>2. P(a) \in Nat \ {0} /\ per[a] \in Nat \ {0}
      <3>1. a \in 0 .. n
        OBVIOUS
      <3> HIDE DEF P
      <3> QED
        BY <1>2, <3>1
    <2> HIDE DEF P, u
    <2>3. r \div P(a) \in Nat
      BY <1>1, <2>2, DivFacts
    <2>4. (r \div P(a)) % per[a] \in 0 .. per[a] - 1
      BY <2>2, <2>3, ModFacts
    <2> QED
      BY <2>1, <2>2, <2>4
  <1>4. u \in GridCells(per, n)
    <2>1. u = [a \in 1 .. n |-> u[a]]
      OBVIOUS
    <2> HIDE DEF u, P
    <2> QED
      BY <1>3, <2>1 DEF GridCells
  <1>5. u \in [1 .. n -> Nat]
    BY <1>4 DEF GridCells
  <1> HIDE DEF u
  <1>6. PICK f : IsFlat(f, u, per, n) /\ IndicesToFlatIndex(u, per) = f[n]
    BY <1>5, FlatIndexIs
  <1>7. /\ f \in [0 .. n -> Nat] /\ f[0] = 0
        /\ \A k \in 1 .. n : f[k] = f[k - 1] + u[n + 1 - k] * P(n + 1 - k)
    BY <1>6 DEF IsFlat
  <1> DEFINE T == {k \in 0 .. n : f[k] = r % P(n - k)}
  <1>8. 0 \in T
    <2>1. r % 1 = 0
      <3>1. r % 1 \in 0 .. 1 - 1
        BY <1>1, ModFacts
      <3> QED
        BY <3>1
    <2>2. n - 0 = n /\ 0 \in 0 .. n
      OBVIOUS
    <2> HIDE DEF P
    <2> QED
      BY <1>0, <1>7, <2>1, <2>2
  <1>9. ASSUME NEW k \in 1 .. n, k - 1 \in T PROVE k \in T
    <2>1. /\ n + 1 - k \in 1 .. n /\ P(n - k) = per[n + 1 - k] * P(n + 1 - k)
          /\ P(n - (k - 1)) = P(n + 1 - k)
      BY Weights
    <2>2. f[k - 1] = r % P(n - (k - 1)) /\ k \in 0 .. n
      BY <1>9
    <2> HIDE DEF P
    <2>3. PICK b \in 1 .. n : b = n + 1 - k
      BY <2>1
    <2>4. P(b) \in Nat \ {0} /\ per[b] \in Nat \ {0}
      <3>1. b \in 0 .. n
        OBVIOUS
      <3> QED
        BY <1>2, <3>1
    <2>5. r % (per[b] * P(b)) = (r % P(b)) + ((r \div P(b)) % per[b]) * P(b)
      BY <1>1, <2>4, ModByProduct
    <2>6. f[k] = f[k - 1] + u[b] * P(b)
      BY <1>7, <2>3
    <2>7. f[k] = r % P(n - k)
      BY <1>3, <2>1, <2>2, <2>3, <2>5, <2>6
    <2> QED
      BY <2>2, <2>7
  <1>10. \A k \in 0 .. n : k \in T
    <2> HIDE DEF T
    <2> QED
      BY <1>8, <1>9, Upward
  <1>11. f[n] = r
    <2>1. f[n] = r % P(n - n) /\ n - n = 0
      BY <1>10
    <2> HIDE DEF P
    <2>2. r % P(0) = r
      BY <1>0, <1>1
    <2> QED
      BY <2>1, <2>2
  <1> QED
    BY <1>4, <1>6, <1>11

\* The numbering of the cells of a grid.
Numbering(per, n) ==
    /\ \A u \in GridCells(per, n) : IndicesToFlatIndex(u, per) \in 0 .. Product(per) - 1
    /\ \A r \in 0 .. Product(per) - 1 : \E u \in GridCells(per, n) : IndicesToFlatIndex(u, per) = r
    /\ \A u, v \in GridCells(per, n) :
          ShownBefore(u, v, n) <=> IndicesToFlatIndex(u, per) < IndicesToFlatIndex(v, per)
    /\ \A u, v \in GridCells(per, n) : IndicesToFlatIndex(u, per) = IndicesToFlatIndex(v, per) => u = v

\* Each cell has a number of its own, in row-major order.
LEMMA CellsNumbered ==
    ASSUME NEW n \in Nat, NEW per \in [1 .. n -> Nat]
    PROVE  Numbering(per, n) /\ Product(per) \in Nat
  <1> DEFINE F(u) == IndicesToFlatIndex(u, per)
             G == GridCells(per, n)
  <1>0. \A u \in G : u \in [1 .. n -> Nat]
    BY DEF GridCells
  <1>1. Product(per) = ProductAfter(per, 0) /\ ProductAfter(per, 0) \in Nat
    <2>1. /\ Product(per) = ProductAfter(per, 0)
          /\ \A i \in 0 .. n : ProductAfter(per, i) \in Nat
      BY ProductFacts
    <2>2. 0 \in 0 .. n
      OBVIOUS
    <2> QED
      BY <2>1, <2>2
  <1>2. ASSUME NEW u \in G PROVE F(u) \in 0 .. Product(per) - 1
    <2>1. PICK f : IsFlat(f, u, per, n) /\ F(u) = f[n]
      BY <1>0, FlatIndexIs
    <2>2. \A k \in 0 .. n : f[k] \in Nat /\ f[k] < ProductAfter(per, n - k)
      BY <2>1, FlatBounded
    <2>3. n \in 0 .. n /\ n - n = 0
      OBVIOUS
    <2>4. f[n] \in Nat /\ f[n] < ProductAfter(per, 0)
      BY <2>2, <2>3
    <2> QED
      BY <1>1, <2>1, <2>4
  <1>3. ASSUME NEW u \in G, NEW v \in G, ShownBefore(u, v, n) PROVE F(u) < F(v)
    <2>1. PICK f : IsFlat(f, u, per, n) /\ F(u) = f[n]
      BY <1>0, FlatIndexIs
    <2>2. PICK g : IsFlat(g, v, per, n) /\ F(v) = g[n]
      BY <1>0, FlatIndexIs
    <2>3. f[n] < g[n]
      BY <1>3, <2>1, <2>2, FlatOrder
    <2> QED
      BY <2>1, <2>2, <2>3
  <1>4. ASSUME NEW u \in G, NEW v \in G, u # v PROVE ShownBefore(u, v, n) \/ ShownBefore(v, u, n)
    <2>1. u \in [1 .. n -> Nat] /\ v \in [1 .. n -> Nat]
      BY <1>0
    <2>2. PICK a \in 1 .. n : u[a] # v[a] /\ \A b \in 1 .. a - 1 : u[b] = v[b]
      BY <1>4, <2>1, FirstDifference
    <2>3. u[a] \in Nat /\ v[a] \in Nat
      BY <2>1
    <2> QED
      BY <2>2, <2>3 DEF ShownBefore
  <1>5. \A u, v \in G : F(u) = F(v) => u = v
    <2> SUFFICES ASSUME NEW u \in G, NEW v \in G, F(u) = F(v), u # v PROVE FALSE
      OBVIOUS
    <2>1. F(u) < F(v) \/ F(v) < F(u)
      BY <1>3, <1>4
    <2>2. F(u) \in Nat /\ F(v) \in Nat
      BY <1>1, <1>2
    <2> HIDE DEF F
    <2> QED
      BY <2>1, <2>2
  <1>6. \A u, v \in G : ShownBefore(u, v, n) <=> F(u) < F(v)
    <2> SUFFICES ASSUME NEW u \in G, NEW v \in G, F(u) < F(v), ~ShownBefore(u, v, n) PROVE FALSE
      BY <1>3
    <2>1. F(u) \in Nat /\ F(v) \in Nat
      BY <1>1, <1>2
    <2>2. u # v
      <3> HIDE DEF F
      <3> QED
        BY <2>1
    <2>3. F(v) < F(u)
      BY <1>3, <1>4, <2>2
    <2> HIDE DEF F
    <2> QED
      BY <2>1, <2>3
  <1>7. \A r \in 0 .. Product(per) - 1 : \E u \in G : F(u) = r
    BY FlatOnto
  <1>8. Product(per) \in Nat
    BY <1>1
  <1> QED
    BY <1>2, <1>5, <1>6, <1>7, <1>8 DEF Numbering

\* So many cells come before a cell, and so many there are.
LEMMA CellsCounted ==
    ASSUME NEW n \in Nat, NEW per \in [1 .. n -> Nat], NEW m \in 0 .. Product(per)
    PROVE  LET C == {u \in GridCells(per, n) : IndicesToFlatIndex(u, per) < m}
           IN IsFiniteSet(C) /\ Cardinality(C) = m
  <1> DEFINE F(u) == IndicesToFlatIndex(u, per)
             G == GridCells(per, n)
             C == {u \in G : F(u) < m}
             h == [r \in 0 .. m - 1 |-> CHOOSE u \in G : F(u) = r]
  <1>0. Numbering(per, n) /\ Product(per) \in Nat
    BY CellsNumbered
  <1>1. /\ \A u \in G : F(u) \in 0 .. Product(per) - 1
        /\ \A r \in 0 .. Product(per) - 1 : \E u \in G : F(u) = r
        /\ \A u, v \in G : F(u) = F(v) => u = v
    BY <1>0 DEF Numbering
  <1> HIDE DEF F, G
  <1>2. ASSUME NEW r \in 0 .. m - 1 PROVE h[r] \in G /\ F(h[r]) = r
    <2>1. \E u \in G : F(u) = r
      BY <1>0, <1>1
    <2> QED
      BY <2>1
  <1>3. h \in Bijection(0 .. m - 1, C)
    <2>1. h \in [0 .. m - 1 -> C]
      BY <1>2
    <2>2. \A q, r \in 0 .. m - 1 : h[q] = h[r] => q = r
      BY <1>2
    <2>3. ASSUME NEW u \in C PROVE \E r \in 0 .. m - 1 : h[r] = u
      <3>1. u \in G /\ F(u) \in 0 .. m - 1
        BY <1>0, <1>1
      <3>2. h[F(u)] \in G /\ F(h[F(u)]) = F(u)
        BY <1>2, <3>1
      <3> QED
        BY <1>1, <3>1, <3>2
    <2> HIDE DEF h, C
    <2> QED
      BY <2>1, <2>2, <2>3 DEF Bijection, Injection, Surjection, IsInjective
  <1>4. m \in Nat /\ IsFiniteSet(0 .. m - 1) /\ Cardinality(0 .. m - 1) = m
    <2>1. m \in Nat
      BY <1>0
    <2>2. IsFiniteSet(0 .. m - 1) /\ Cardinality(0 .. m - 1) = IF 0 > m - 1 THEN 0 ELSE (m - 1) - 0 + 1
      BY <2>1, FS_Interval
    <2> QED
      BY <2>1, <2>2
  <1>5. Cardinality(C) = m
    <2> HIDE DEF h, C
    <2> QED
      BY <1>3, <1>4, SameSize
  <1>6. IsFiniteSet(C)
    <2> HIDE DEF h, C
    <2>1. ExistsBijection(0 .. m - 1, C)
      BY <1>3 DEF ExistsBijection
    <2> QED
      BY <1>4, <2>1, FS_Bijection
  <1> QED
    BY <1>5, <1>6 DEF F, G

\* The chunks of an array are the cells of its grid, and indices_to_flat_index
\* finds how many of them come first.
LEMMA ChunkRank ==
    ASSUME NEW n \in Nat, NEW shape \in [1 .. n -> Nat], NEW chunks \in [1 .. n -> Nat \ {0}],
           NEW idx \in ChunkGrid(shape, chunks)
    PROVE  LET grid == ChunkGrid(shape, chunks)
               flat == IndicesToFlatIndex(idx, ChunksPerDim(shape, chunks))
           IN flat = RowMajorRank(idx, grid) /\ flat \in Nat /\ Cardinality(grid) \in Nat /\ flat < Cardinality(grid)
  <1> DEFINE per == ChunksPerDim(shape, chunks)
             grid == ChunkGrid(shape, chunks)
             F(u) == IndicesToFlatIndex(u, per)
             G == GridCells(per, n)
             C(m) == {u \in G : F(u) < m}
  <1>1. per \in [1 .. n -> Nat]
    <2>1. ASSUME NEW d \in 1 .. n PROVE (shape[d] + chunks[d] - 1) \div chunks[d] \in Nat
      <3>1. shape[d] + chunks[d] - 1 \in Nat /\ chunks[d] \in Nat \ {0}
        OBVIOUS
      <3> QED
        BY <3>1, DivFacts
    <2>2. per = [d \in 1 .. n |-> (shape[d] + chunks[d] - 1) \div chunks[d]]
      BY DEF ChunksPerDim
    <2> HIDE DEF per
    <2> QED
      BY <2>1, <2>2
  <1>2. grid = G
    <2> DEFINE U == UNION {0 .. per[d] - 1 : d \in DOMAIN per}
    <2>1. grid = {i \in [1 .. n -> U] : \A d \in 1 .. n : i[d] < per[d]}
      BY DEF ChunkGrid
    <2> HIDE DEF per, grid
    <2>2. ASSUME NEW u \in G PROVE u \in grid
      <3>1. u \in [1 .. n -> Nat] /\ \A d \in 1 .. n : u[d] < per[d]
        BY DEF GridCells
      <3>2. ASSUME NEW d \in 1 .. n PROVE u[d] \in U
        <4>1. u[d] \in 0 .. per[d] - 1 /\ d \in DOMAIN per
          BY <1>1, <3>1
        <4> QED
          BY <4>1
      <3>3. u \in [1 .. n -> U]
        <4> HIDE DEF U
        <4> QED
          BY <3>1, <3>2
      <3> QED
        BY <2>1, <3>1, <3>3
    <2>3. ASSUME NEW u \in grid PROVE u \in G
      <3>1. u \in [1 .. n -> U] /\ \A d \in 1 .. n : u[d] < per[d]
        BY <2>1
      <3>2. U \subseteq Nat
        BY <1>1
      <3>3. u \in [1 .. n -> Nat]
        <4> HIDE DEF U
        <4> QED
          BY <3>1, <3>2
      <3> QED
        BY <3>1, <3>3 DEF GridCells
    <2> QED
      BY <2>2, <2>3
  <1>3. Numbering(per, n) /\ Product(per) \in Nat
    <2> HIDE DEF per
    <2> QED
      BY <1>1, CellsNumbered
  <1>4. idx \in G
    BY <1>2
  <1>5. DOMAIN idx = 1 .. n
    <2> HIDE DEF per, grid
    <2> QED
      BY <1>4 DEF GridCells
  <1> HIDE DEF per, F, G
  <1>6. F(idx) \in 0 .. Product(per) - 1
    BY <1>3, <1>4 DEF Numbering, F, G
  <1>7. \A u \in G : F(u) \in 0 .. Product(per) - 1
    BY <1>3 DEF Numbering, F, G
  <1>8. \A u \in G : ShownBefore(u, idx, n) <=> F(u) < F(idx)
    BY <1>3, <1>4 DEF Numbering, F, G
  <1>9. \A m \in 0 .. Product(per) : IsFiniteSet(C(m)) /\ Cardinality(C(m)) = m
    BY <1>1, CellsCounted DEF F, G
  <1>10. RowMajorRank(idx, grid) = Cardinality(C(F(idx)))
    <2>1. {j \in grid : \E d \in DOMAIN idx : j[d] < idx[d] /\ \A e \in 1 .. d - 1 : j[e] = idx[e]} = C(F(idx))
      <3> HIDE DEF grid
      <3> QED
        BY <1>2, <1>5, <1>8 DEF ShownBefore
    <2> QED
      BY <2>1 DEF RowMajorRank
  <1>11. C(Product(per)) = G
    BY <1>3, <1>7
  <1>12. Cardinality(G) = Product(per) /\ Cardinality(C(F(idx))) = F(idx)
    <2> HIDE DEF C
    <2> QED
      BY <1>3, <1>6, <1>9, <1>11
  <1>13. F(idx) = RowMajorRank(idx, grid) /\ F(idx) \in Nat /\ F(idx) < Cardinality(grid) /\ Cardinality(grid) \in Nat
    <2> HIDE DEF C, grid
    <2> QED
      BY <1>2, <1>3, <1>6, <1>10, <1>12
  <1> QED
    BY <1>13 DEF F, per

-----------------------------------------------------------------------------
(* References in files. *)

\* A sequence is how another one begins.
Begins(rows, all) == Len(rows) <= Len(all) /\ \A i \in 1 .. Len(rows) : rows[i] = all[i]

\* What the first m of n sequences hold is how what all hold begins.
LEMMA FlattenBegins ==
    ASSUME NEW X, NEW n \in Nat, NEW seqs \in [1 .. n -> Seq(X)], NEW m \in 0 .. n
    PROVE  /\ FlattenSeq(seqs) \in Seq(X) /\ FlattenSeq([i \in 1 .. m |-> seqs[i]]) \in Seq(X)
           /\ Begins(FlattenSeq([i \in 1 .. m |-> seqs[i]]), FlattenSeq(seqs))
  <1> DEFINE h == [kx \in (1 .. n) \X Seq(X) |-> kx[2] \o seqs[kx[1]]]
  <1>1. h \in [(1 .. n) \X Seq(X) -> Seq(X)]
    <2> SUFFICES ASSUME NEW kx \in (1 .. n) \X Seq(X) PROVE kx[2] \o seqs[kx[1]] \in Seq(X)
      OBVIOUS
    <2>1. kx[2] \in Seq(X) /\ seqs[kx[1]] \in Seq(X)
      OBVIOUS
    <2> QED
      BY <2>1, ConcatProperties
  <1>2. <<>> \in Seq(X)
    BY EmptySeq
  <1>3. PICK g : IsLoop(g, n, Seq(X), <<>>, h)
    <2> HIDE DEF h
    <2> QED
      BY <1>1, <1>2, Iterates
  <1>4. g \in [0 .. n -> Seq(X)] /\ g[0] = <<>> /\ \A k \in 1 .. n : g[k] = h[<<k, g[k - 1]>>]
    BY <1>3 DEF IsLoop
  <1>5. ASSUME NEW k \in 1 .. n
        PROVE  /\ g[k - 1] \in Seq(X) /\ g[k] \in Seq(X) /\ seqs[k] \in Seq(X)
               /\ Len(g[k - 1]) \in Nat /\ Len(seqs[k]) \in Nat
               /\ Len(g[k]) = Len(g[k - 1]) + Len(seqs[k])
               /\ Begins(g[k - 1], g[k])
               /\ \A x \in 1 .. Len(seqs[k]) : seqs[k][x] = g[k][Len(g[k - 1]) + x]
    <2>1. k - 1 \in 0 .. n /\ k \in 0 .. n
      OBVIOUS
    <2>2. g[k - 1] \in Seq(X) /\ g[k] \in Seq(X) /\ seqs[k] \in Seq(X)
      BY <1>4, <2>1
    <2>3. <<k, g[k - 1]>> \in (1 .. n) \X Seq(X)
      BY <2>2
    <2>4. g[k] = g[k - 1] \o seqs[k]
      BY <1>4, <2>3
    <2> HIDE DEF h
    <2>5. /\ Len(g[k]) = Len(g[k - 1]) + Len(seqs[k])
          /\ \A i \in 1 .. Len(g[k - 1]) + Len(seqs[k]) :
                g[k][i] = IF i <= Len(g[k - 1]) THEN g[k - 1][i] ELSE seqs[k][i - Len(g[k - 1])]
      BY <2>2, <2>4, ConcatProperties
    <2>6. Len(g[k - 1]) \in Nat /\ Len(seqs[k]) \in Nat
      BY <2>2, LenProperties
    <2>7. ASSUME NEW x \in 1 .. Len(seqs[k]) PROVE seqs[k][x] = g[k][Len(g[k - 1]) + x]
      <3>1. /\ Len(g[k - 1]) + x \in 1 .. Len(g[k - 1]) + Len(seqs[k]) /\ ~(Len(g[k - 1]) + x <= Len(g[k - 1]))
            /\ (Len(g[k - 1]) + x) - Len(g[k - 1]) = x
        BY <2>6
      <3> QED
        BY <2>5, <3>1
    <2>8. Begins(g[k - 1], g[k])
      <3>1. PICK a \in Nat, b \in Nat : a = Len(g[k - 1]) /\ b = Len(seqs[k])
        BY <2>6
      <3>2. Len(g[k - 1]) <= Len(g[k])
        BY <2>5, <3>1
      <3>3. ASSUME NEW i \in 1 .. a PROVE g[k - 1][i] = g[k][i]
        <4>1. i \in 1 .. a + b /\ i <= a
          OBVIOUS
        <4> QED
          BY <2>5, <3>1, <4>1
      <3> QED
        BY <3>1, <3>2, <3>3 DEF Begins
    <2> QED
      BY <2>2, <2>5, <2>6, <2>7, <2>8
  <1> HIDE DEF h
  <1>6. \A j \in 0 .. n : \A i \in 0 .. j : Begins(g[i], g[j])
    <2> DEFINE T == {j \in 0 .. n : \A i \in 0 .. j : Begins(g[i], g[j])}
    <2>1. \A j \in 0 .. n : g[j] \in Seq(X) /\ Len(g[j]) \in Nat
      BY <1>4, LenProperties
    <2>2. \A j \in 0 .. n : Begins(g[j], g[j])
      BY <2>1 DEF Begins
    <2>3. 0 \in T
      BY <2>2
    <2>4. ASSUME NEW j \in 1 .. n, j - 1 \in T PROVE j \in T
      <3>1. ASSUME NEW i \in 0 .. j PROVE Begins(g[i], g[j])
        <4>1. CASE i = j
          BY <2>2, <4>1
        <4>2. CASE i # j
          <5>1. i \in 0 .. j - 1 /\ i \in 0 .. n /\ j - 1 \in 0 .. n /\ j \in 0 .. n
            BY <4>2
          <5>2. Begins(g[i], g[j - 1]) /\ Begins(g[j - 1], g[j])
            BY <1>5, <2>4, <5>1
          <5>3. Len(g[i]) \in Nat /\ Len(g[j - 1]) \in Nat /\ Len(g[j]) \in Nat
            BY <2>1, <5>1
          <5>4. Len(g[i]) <= Len(g[j - 1]) /\ Len(g[j - 1]) <= Len(g[j])
            BY <5>2 DEF Begins
          <5>5. ASSUME NEW x \in 1 .. Len(g[i]) PROVE g[i][x] = g[j][x]
            <6>1. x \in 1 .. Len(g[j - 1])
              BY <5>3, <5>4
            <6> QED
              BY <5>2, <6>1 DEF Begins
          <5>6. Len(g[i]) <= Len(g[j])
            BY <5>3, <5>4
          <5> QED
            BY <5>5, <5>6 DEF Begins
        <4> QED
          BY <4>1, <4>2
      <3> QED
        BY <3>1
    <2>5. \A j \in 0 .. n : j \in T
      <3> HIDE DEF T
      <3> QED
        BY <2>3, <2>4, Upward
    <2> QED
      BY <2>5
  <1>7. ASSUME NEW j \in 0 .. n PROVE FlattenSeq([i \in 1 .. j |-> seqs[i]]) = g[j]
    <2> DEFINE part == [i \in 1 .. j |-> seqs[i]]
               off == [i \in 0 .. j |-> Len(g[i])]
    <2>1. part \in [1 .. j -> Seq(X)] /\ j \in Nat /\ g[j] \in Seq(X)
      BY <1>4
    <2>2. off \in [0 .. j -> Nat] /\ off[0] = 0 /\ off[j] = Len(g[j])
      <3>1. ASSUME NEW i \in 0 .. j PROVE Len(g[i]) \in Nat
        <4>1. g[i] \in Seq(X)
          BY <1>4
        <4> QED
          BY <4>1, LenProperties
      <3>2. Len(g[0]) = 0
        BY <1>4
      <3> QED
        BY <3>1, <3>2
    <2>3. ASSUME NEW i \in 1 .. j
          PROVE  /\ off[i] = off[i - 1] + Len(part[i])
                 /\ \A x \in 1 .. Len(part[i]) : part[i][x] = g[j][off[i - 1] + x]
      <3>0. i \in 1 .. n /\ i \in 0 .. j /\ i - 1 \in 0 .. j
        OBVIOUS
      <3>1. off[i] = Len(g[i]) /\ off[i - 1] = Len(g[i - 1]) /\ part[i] = seqs[i]
        BY <3>0
      <3> HIDE DEF off, part
      <3>2. /\ Len(g[i]) = Len(g[i - 1]) + Len(seqs[i]) /\ Len(g[i - 1]) \in Nat /\ Len(seqs[i]) \in Nat
            /\ \A x \in 1 .. Len(seqs[i]) : seqs[i][x] = g[i][Len(g[i - 1]) + x]
        BY <1>5, <3>0
      <3>3. Begins(g[i], g[j])
        BY <1>6, <3>0
      <3>4. ASSUME NEW x \in 1 .. Len(seqs[i]) PROVE seqs[i][x] = g[j][Len(g[i - 1]) + x]
        <4>0. PICK a \in Nat, b \in Nat : a = Len(g[i - 1]) /\ b = Len(seqs[i])
          BY <3>2
        <4>1. Len(g[i - 1]) + x \in 1 .. Len(g[i])
          <5>1. x \in 1 .. b /\ Len(g[i]) = a + b
            BY <3>2, <4>0
          <5>2. a + x \in 1 .. a + b
            BY <5>1
          <5> QED
            BY <4>0, <5>1, <5>2
        <4>2. g[i][Len(g[i - 1]) + x] = g[j][Len(g[i - 1]) + x]
          BY <3>3, <4>1 DEF Begins
        <4> QED
          BY <3>2, <4>2
      <3> QED
        BY <3>1, <3>2, <3>4
    <2> HIDE DEF off, part
    <2>4. Parts(part, j, g[j], off)
      BY <2>2, <2>3 DEF Parts
    <2>5. FlattenSeq(part) = g[j]
      BY <2>1, <2>4, FlattenParts
    <2> QED
      BY <2>5 DEF part
  <1>8. FlattenSeq(seqs) = g[n]
    <2>1. [i \in 1 .. n |-> seqs[i]] = seqs /\ n \in 0 .. n
      OBVIOUS
    <2> QED
      BY <1>7, <2>1
  <1>9. n \in 0 .. n /\ m \in 0 .. n /\ g[m] \in Seq(X) /\ g[n] \in Seq(X)
    BY <1>4
  <1> QED
    BY <1>6, <1>7, <1>8, <1>9

\* Up to ten files are in order when they are sorted by name.
LEMMA TenFilesInOrder ==
    ASSUME NEW X, NEW files \in Seq(X), Len(files) <= 10
    PROVE  SortedNames(files) = [k \in 1 .. Len(files) |-> k]
  <1> DEFINE n == Len(files)
             Before(k, l) == LET a == Digits(k - 1)
                                 b == Digits(l - 1)
                             IN \/ a[1] < b[1]
                                \/ a[1] = b[1] /\ Len(a) < Len(b)
                                \/ a[1] = b[1] /\ Len(a) = Len(b) /\ a[Len(a)] < b[Len(b)]
  <1>0. n \in Nat /\ DOMAIN files = 1 .. n
    BY LenProperties
  <1>1. ASSUME NEW k \in 1 .. n, NEW l \in 1 .. n PROVE Before(k, l) <=> k < l
    <2>1. k - 1 < 10 /\ l - 1 < 10
      BY <1>0
    <2>2. Digits(k - 1) = <<k - 1>> /\ Digits(l - 1) = <<l - 1>>
      BY <2>1 DEF Digits
    <2> QED
      BY <2>2
  <1>2. SortedNames(files)
          = [i \in 1 .. n |-> CHOOSE k \in 1 .. n : Cardinality({l \in 1 .. n : Before(l, k)}) = i - 1]
    BY <1>0 DEF SortedNames
  <1> HIDE DEF Before, n
  <1>3. ASSUME NEW k \in 1 .. n PROVE Cardinality({l \in 1 .. n : Before(l, k)}) = k - 1
    <2>1. {l \in 1 .. n : Before(l, k)} = 1 .. k - 1
      BY <1>0, <1>1
    <2>2. Cardinality(1 .. k - 1) = k - 1
      BY FS_Interval
    <2> QED
      BY <2>1, <2>2
  <1>4. ASSUME NEW i \in 1 .. n
        PROVE  (CHOOSE k \in 1 .. n : Cardinality({l \in 1 .. n : Before(l, k)}) = i - 1) = i
    <2>1. \E k \in 1 .. n : Cardinality({l \in 1 .. n : Before(l, k)}) = i - 1
      BY <1>3
    <2>2. \A k \in 1 .. n : Cardinality({l \in 1 .. n : Before(l, k)}) = i - 1 => k = i
      BY <1>3
    <2> QED
      BY <2>1, <2>2
  <1> QED
    BY <1>2, <1>4 DEF n

-----------------------------------------------------------------------------
(* Which arrays a cube is made of. *)

\* The places of a sequence.
LEMMA SeqPlaces ==
    ASSUME NEW M, NEW metas \in Seq(M)
    PROVE  /\ Len(metas) \in Nat /\ DOMAIN metas = 1 .. Len(metas) /\ IsFiniteSet(DOMAIN metas)
           /\ \A i \in DOMAIN metas : metas[i] \in M
  <1>1. Len(metas) \in Nat /\ DOMAIN metas = 1 .. Len(metas)
    BY LenProperties
  <1>2. IsFiniteSet(1 .. Len(metas))
    BY <1>1, FS_Interval
  <1> QED
    BY <1>1, <1>2

\* What is selected is there.
LEMMA SelectAtHas ==
    ASSUME NEW M, NEW metas \in Seq(M), NEW places \in SUBSET DOMAIN metas
    PROVE  SelectAt(metas, places) \in Seq(M) /\ Ran(SelectAt(metas, places)) \subseteq Ran(metas)
  <1>1. places \subseteq Nat /\ IsFiniteSet(places)
    BY SeqPlaces, FS_Subset
  <1>2. Cardinality(places) \in Nat /\ Sorted(places) \in [1 .. Cardinality(places) -> places]
    BY <1>1, SortedFacts
  <1>3. SelectAt(metas, places) = [k \in 1 .. Cardinality(places) |-> metas[Sorted(places)[k]]]
    BY <1>2 DEF SelectAt
  <1>4. \A k \in 1 .. Cardinality(places) : Sorted(places)[k] \in DOMAIN metas /\ metas[Sorted(places)[k]] \in M
    BY <1>2, SeqPlaces
  <1>5. SelectAt(metas, places) \in [1 .. Cardinality(places) -> M]
    BY <1>3, <1>4
  <1>6. SelectAt(metas, places) \in Seq(M) /\ DOMAIN SelectAt(metas, places) = 1 .. Cardinality(places)
    BY <1>2, <1>5, FunIsSeq
  <1> QED
    BY <1>3, <1>4, <1>6 DEF Ran

\* What is sorted by name is there.
LEMMA AlphabeticalHas ==
    ASSUME NEW M, NEW metas \in Seq(M), \A m \in M : m.name \in Nat
    PROVE  Alphabetical(metas) \in Seq(M) /\ Ran(Alphabetical(metas)) \subseteq Ran(metas)
  <1> DEFINE N == {metas[i].name : i \in DOMAIN metas}
             n == Cardinality(N)
             at(k) == CHOOSE i \in DOMAIN metas : metas[i].name = Sorted(N)[k]
  <1>1. N \subseteq Nat
    BY SeqPlaces
  <1>2. IsFiniteSet(N)
    <2> DEFINE f == [i \in DOMAIN metas |-> metas[i].name]
    <2>1. f \in Surjection(DOMAIN metas, N)
      <3>1. f \in [DOMAIN metas -> N]
        OBVIOUS
      <3>2. \A x \in N : \E i \in DOMAIN metas : f[i] = x
        OBVIOUS
      <3> QED
        BY <3>1, <3>2 DEF Surjection
    <2>2. IsFiniteSet(DOMAIN metas)
      BY SeqPlaces
    <2> HIDE DEF f, N
    <2> QED
      BY <2>1, <2>2, FS_Surjection
  <1>3. n \in Nat /\ Sorted(N) \in [1 .. n -> N]
    <2> HIDE DEF N
    <2> QED
      BY <1>1, <1>2, SortedFacts
  <1>4. ASSUME NEW k \in 1 .. n PROVE at(k) \in DOMAIN metas
    <2>1. Sorted(N)[k] \in N
      <3> HIDE DEF N
      <3> QED
        BY <1>3
    <2>2. \E i \in DOMAIN metas : metas[i].name = Sorted(N)[k]
      BY <2>1
    <2> QED
      BY <2>2
  <1>5. Alphabetical(metas) = [k \in 1 .. n |-> metas[at(k)]]
    <2>1. DOMAIN Sorted(N) = 1 .. n
      <3> HIDE DEF N
      <3> QED
        BY <1>3
    <2> QED
      BY <2>1 DEF Alphabetical
  <1> HIDE DEF at, n
  <1>6. \A k \in 1 .. n : metas[at(k)] \in M
    BY <1>4, SeqPlaces
  <1>7. Alphabetical(metas) \in [1 .. n -> M]
    BY <1>5, <1>6
  <1>8. Alphabetical(metas) \in Seq(M) /\ DOMAIN Alphabetical(metas) = 1 .. n
    BY <1>3, <1>7, FunIsSeq
  <1> QED
    BY <1>4, <1>5, <1>8 DEF Ran

\* The coordinates are put in order, and none is added.
LEMMA CoordOrderHas ==
    ASSUME NEW M, NEW coords \in Seq(M), \A m \in M : m.name \in Nat, NEW dvars
    PROVE  Ran(InferCoordOrder(coords, dvars)) \subseteq Ran(coords)
  <1> DEFINE Fits(v) == Len(v.shape) = Len(coords) /\ 0 \notin ToSet(MatchShape(coords, v.shape))
             first == SelectInSeq(dvars, Fits)
             taken == MatchShape(coords, dvars[first].shape)
  <1>1. CASE coords = <<>> \/ first = 0
    <2>1. InferCoordOrder(coords, dvars) = Alphabetical(coords)
      BY <1>1 DEF InferCoordOrder
    <2> QED
      BY <2>1, AlphabeticalHas
  <1>2. CASE ~(coords = <<>> \/ first = 0)
    <2>1. InferCoordOrder(coords, dvars) = [i \in DOMAIN taken |-> coords[taken[i]]]
      BY <1>2 DEF InferCoordOrder
    <2>2. Fits(dvars[first])
      <3> DEFINE I == {i \in 1 .. Len(dvars) : Fits(dvars[i])}
      <3>1. first = IF I # {} THEN Min(I) ELSE 0
        BY DEF SelectInSeq
      <3> HIDE DEF Fits, first
      <3>2. I # {} /\ first = Min(I)
        BY <1>2, <3>1
      <3>3. Min(I) \in I
        <4>1. I \subseteq Nat
          OBVIOUS
        <4>2. \E m \in I : \A i \in I : m <= i
          <5> HIDE DEF I
          <5> QED
            BY <3>2, <4>1, LeastNat
        <4> HIDE DEF I
        <4> QED
          BY <4>2 DEF Min
      <3> QED
        BY <3>2, <3>3
    <2>3. 0 \notin ToSet(taken)
      BY <2>2
    <2>4. ASSUME NEW i \in DOMAIN taken PROVE taken[i] \in DOMAIN coords
      <3> DEFINE shape == dvars[first].shape
                 k == Cardinality({d \in 1 .. i : shape[d] = shape[i]})
                 fits == {j \in DOMAIN coords : coords[j].shape[1] = shape[i]}
                 kth == {j \in fits : Cardinality({l \in fits : l <= j}) = k}
      <3>1. taken[i] = IF kth = {} THEN 0 ELSE Min(kth)
        BY DEF MatchShape
      <3>2. taken[i] # 0
        BY <2>3 DEF ToSet
      <3>3. kth \subseteq DOMAIN coords
        OBVIOUS
      <3>4. DOMAIN coords \subseteq Nat
        BY SeqPlaces
      <3> HIDE DEF kth, taken, first
      <3>5. kth # {} /\ taken[i] = Min(kth)
        BY <3>1, <3>2
      <3>6. \E m \in kth : \A j \in kth : m <= j
        BY <3>3, <3>4, <3>5, LeastNat
      <3>7. Min(kth) \in kth
        BY <3>6 DEF Min
      <3> QED
        BY <3>3, <3>5, <3>7
    <2> HIDE DEF taken
    <2> QED
      BY <2>1, <2>4 DEF Ran
  <1> QED
    BY <1>1, <1>2

\* What is separated is there.
LEMMA SeparateHas ==
    ASSUME NEW M, NEW metas \in Seq(M), \A m \in M : m.name \in Nat
    PROVE  Ran(Separate(metas).coords) \subseteq Ran(metas) /\ Ran(Separate(metas).data_vars) \subseteq Ran(metas)
  <1> DEFINE axes == {i \in DOMAIN metas : IsCoordinate(metas[i])}
             c == SelectAt(metas, axes)
             v == SelectAt(metas, DOMAIN metas \ axes)
  <1>1. axes \in SUBSET DOMAIN metas /\ DOMAIN metas \ axes \in SUBSET DOMAIN metas
    OBVIOUS
  <1>2. /\ Separate(metas).data_vars = Alphabetical(v)
        /\ Separate(metas).coords = InferCoordOrder(c, Alphabetical(v))
    BY DEF Separate
  <1> HIDE DEF axes
  <1>3. c \in Seq(M) /\ Ran(c) \subseteq Ran(metas) /\ v \in Seq(M) /\ Ran(v) \subseteq Ran(metas)
    BY <1>1, SelectAtHas
  <1> HIDE DEF c, v
  <1>4. Ran(Alphabetical(v)) \subseteq Ran(v)
    BY <1>3, AlphabeticalHas
  <1>5. Ran(InferCoordOrder(c, Alphabetical(v))) \subseteq Ran(c)
    BY <1>3, CoordOrderHas
  <1> QED
    BY <1>2, <1>3, <1>4, <1>5

\* A table made of consolidated metadata has the arrays that are listed there.
LEMMA ListedArrays ==
    ASSUME NEW s, DOMAIN s.arrays \subseteq Nat, s.zmeta[1].keys \in Seq(DOMAIN s.arrays)
    PROVE  LET meta == SeparateAndSortNoStats(FromZmetadata(s))
           IN Names(meta.coords) \cup Names(meta.data_vars) \subseteq ToSet(s.zmeta[1].keys)
  <1> DEFINE keys == s.zmeta[1].keys
             Meta(n) == V2Meta(n, s.arrays[n], s.arrays[n].attrs)
             M == {Meta(n) : n \in ToSet(keys)}
             metas == FromZmetadata(s)
             rest == SelectAt(metas, {i \in DOMAIN metas : ~IsScalar(metas[i])})
  <1>1. ASSUME NEW n PROVE Meta(n).name = n
    BY DEF V2Meta, ArrayMeta
  <1>2. Len(keys) \in Nat /\ DOMAIN keys = 1 .. Len(keys) /\ ToSet(keys) \subseteq DOMAIN s.arrays
    BY SeqPlaces DEF ToSet
  <1>3. metas = [i \in 1 .. Len(keys) |-> Meta(keys[i])]
    BY <1>2 DEF FromZmetadata
  <1> HIDE DEF Meta, keys, metas
  <1>4. metas \in [1 .. Len(keys) -> M]
    BY <1>2, <1>3 DEF ToSet
  <1>5. metas \in Seq(M)
    BY <1>2, <1>4, FunIsSeq
  <1>6. \A m \in M : m.name \in ToSet(keys) /\ m.name \in Nat
    BY <1>1, <1>2
  <1> HIDE DEF M
  <1>7. rest \in Seq(M)
    BY <1>5, SelectAtHas
  <1>8. SeparateAndSortNoStats(metas) = Separate(rest)
    BY DEF SeparateAndSortNoStats
  <1> HIDE DEF rest
  <1>9. Ran(Separate(rest).coords) \subseteq Ran(rest) /\ Ran(Separate(rest).data_vars) \subseteq Ran(rest)
    BY <1>6, <1>7, SeparateHas
  <1>10. \A m \in Ran(rest) : m \in M
    BY <1>7, SeqPlaces DEF Ran
  <1>11. Names(Separate(rest).coords) \cup Names(Separate(rest).data_vars) \subseteq ToSet(keys)
    BY <1>6, <1>9, <1>10 DEF Names, Ran
  <1> QED
    BY <1>8, <1>11 DEF metas, keys

-----------------------------------------------------------------------------
(* What is loaded of the references, and what is found by it. *)

\* What an adapter may have of the files of an array: nothing, or the first of
\* their rows.
Loaded(refs, files) ==
    refs = <<>> \/ \E rows \in Seq(RefRows) : refs = <<rows>> /\ Begins(rows, AllRefs(files))

\* The files of an array by number are the first of its rows.
LEMMA FirstFiles ==
    ASSUME NEW files \in Seq(RefFiles), NEW got \in 0 .. Len(files)
    PROVE  LET rows == ExtractRefs(files, [k \in 1 .. got |-> k])
           IN rows \in Seq(RefRows) /\ Begins(rows, AllRefs(files)) /\ (got = Len(files) => rows = AllRefs(files))
  <1> DEFINE n == Len(files)
             seqs == [k \in 1 .. n |-> files[k].refs]
  <1>1. n \in Nat /\ DOMAIN files = 1 .. n /\ \A k \in 1 .. n : files[k] \in RefFiles
    BY LenProperties
  <1>2. seqs \in [1 .. n -> Seq(RefRows)]
    BY <1>1 DEF RefFiles
  <1>3. ASSUME NEW m \in 0 .. n
        PROVE  ExtractRefs(files, [k \in 1 .. m |-> k]) = FlattenSeq([i \in 1 .. m |-> seqs[i]])
    <2> DEFINE order == [k \in 1 .. m |-> k]
    <2>1. DOMAIN order = 1 .. m /\ \A i \in 1 .. m : order[i] = i /\ i \in 1 .. n
      BY <1>1
    <2>2. [i \in DOMAIN order |-> files[order[i]].refs] = [i \in 1 .. m |-> seqs[i]]
      BY <2>1
    <2> QED
      BY <2>2 DEF ExtractRefs
  <1>4. AllRefs(files) = FlattenSeq(seqs)
    <2>1. n \in 0 .. n /\ [i \in 1 .. n |-> seqs[i]] = seqs
      BY <1>1
    <2>2. AllRefs(files) = ExtractRefs(files, [k \in 1 .. n |-> k])
      BY <1>1 DEF AllRefs
    <2> HIDE DEF seqs, n
    <2> QED
      BY <1>3, <2>1, <2>2
  <1> HIDE DEF seqs
  <1>5. got \in 0 .. n
    OBVIOUS
  <1>6. /\ FlattenSeq([i \in 1 .. got |-> seqs[i]]) \in Seq(RefRows)
        /\ Begins(FlattenSeq([i \in 1 .. got |-> seqs[i]]), FlattenSeq(seqs))
    BY <1>1, <1>2, <1>5, FlattenBegins
  <1>7. got = n => ExtractRefs(files, [k \in 1 .. got |-> k]) = AllRefs(files)
    BY <1>1 DEF AllRefs
  <1> QED
    BY <1>3, <1>4, <1>5, <1>6, <1>7

\* Files that are read by number: some of the first ones, or all of them.
LEMMA LoadAsyncHas ==
    ASSUME NEW files \in Seq(RefFiles), NEW got \in 0 .. Len(files), NEW limit \in Nat
    PROVE  /\ Loaded(LoadAsync(files, got, limit), files)
           /\ got = Len(files) /\ files # <<>> /\ Len(files) <= limit /\ (\A k \in DOMAIN files : files[k].ok)
                => LoadAsync(files, got, limit) = <<AllRefs(files)>>
  <1> DEFINE rows == ExtractRefs(files, [k \in 1 .. got |-> k])
  <1>1. rows \in Seq(RefRows) /\ Begins(rows, AllRefs(files)) /\ (got = Len(files) => rows = AllRefs(files))
    BY FirstFiles
  <1>2. LoadAsync(files, got, limit)
          = IF got = 0 \/ got > limit \/ \E k \in 1 .. got : ~files[k].ok THEN <<>> ELSE <<rows>>
    BY DEF LoadAsync
  <1> HIDE DEF rows
  <1>3. Loaded(LoadAsync(files, got, limit), files)
    BY <1>1, <1>2 DEF Loaded
  <1>4. ASSUME got = Len(files), files # <<>>, Len(files) <= limit, \A k \in DOMAIN files : files[k].ok
        PROVE  LoadAsync(files, got, limit) = <<AllRefs(files)>>
    <2>1. DOMAIN files = 1 .. got /\ got # 0 /\ ~(got > limit)
      BY <1>4, LenProperties, EmptySeq
    <2> QED
      BY <1>1, <1>2, <1>4, <2>1
  <1> QED
    BY <1>3, <1>4

\* Ten files that are read by name: all of them or none.
LEMMA LoadHas ==
    ASSUME NEW files \in Seq(RefFiles), Len(files) <= 10
    PROVE  /\ Loaded(Load(files), files)
           /\ files # <<>> /\ (\A k \in DOMAIN files : files[k].ok) => Load(files) = <<AllRefs(files)>>
  <1> DEFINE rows == ExtractRefs(files, [k \in 1 .. Len(files) |-> k])
  <1>1. Len(files) \in 0 .. Len(files)
    BY LenProperties
  <1>2. rows \in Seq(RefRows) /\ Begins(rows, AllRefs(files)) /\ rows = AllRefs(files)
    BY <1>1, FirstFiles
  <1>3. Load(files) = IF files = <<>> \/ \E k \in DOMAIN files : ~files[k].ok THEN <<>> ELSE <<rows>>
    BY TenFilesInOrder DEF Load
  <1> HIDE DEF rows
  <1> QED
    BY <1>2, <1>3 DEF Loaded

\* The source store is the bucket of every object whose array begins with one.
LEMMA SourceServes ==
    ASSUME NEW s, StoreOK(s), Addressable(s), NEW refs, DOMAIN refs \subseteq DOMAIN s.refs,
           \A n \in DOMAIN refs : Loaded(refs[n], s.refs[n]),
           NEW source \in SourceStores(refs),
           NEW n \in DOMAIN refs, refs[n] # <<>>, NEW i \in 1 .. Len(refs[n][1]), ~refs[n][1][i].inline
    PROVE  source = refs[n][1][i].bucket
  <1> DEFINE there == {m \in DOMAIN refs : refs[m] # <<>> /\ refs[m][1] # <<>>}
             first == {refs[m][1][1] : m \in there}
             buckets == {r.bucket : r \in {f \in first : ~f.inline}}
  <1>1. ASSUME NEW m \in DOMAIN refs, refs[m] # <<>>
        PROVE  /\ refs[m][1] \in Seq(RefRows) /\ Len(refs[m][1]) \in Nat
               /\ \A j \in 1 .. Len(refs[m][1]) :
                     j \in DOMAIN AllRefs(s.refs[m]) /\ refs[m][1][j] = AllRefs(s.refs[m])[j]
    <2>1. PICK rows \in Seq(RefRows) : refs[m] = <<rows>> /\ Begins(rows, AllRefs(s.refs[m]))
      BY <1>1 DEF Loaded
    <2>2. refs[m][1] = rows /\ Len(rows) \in Nat
      BY <2>1, LenProperties
    <2>3. s.refs[m] \in Seq(RefFiles)
      BY DEF StoreOK
    <2>4. AllRefs(s.refs[m]) \in Seq(RefRows)
      <3>1. Len(s.refs[m]) \in 0 .. Len(s.refs[m])
        BY <2>3, LenProperties
      <3> QED
        BY <2>3, <3>1, FirstFiles
    <2>5. DOMAIN AllRefs(s.refs[m]) = 1 .. Len(AllRefs(s.refs[m])) /\ Len(AllRefs(s.refs[m])) \in Nat
      BY <2>4, LenProperties
    <2> QED
      BY <2>1, <2>2, <2>5 DEF Begins
  <1>2. i \in Externals(s, n)
    BY <1>1 DEF Externals
  <1>3. 1 \in Externals(s, n)
    BY <1>2 DEF Addressable, StoreOK
  <1>4. n \in there /\ ~refs[n][1][1].inline
    <2>1. 1 \in 1 .. Len(refs[n][1])
      BY <1>1
    <2>2. ~refs[n][1][1].inline
      BY <1>1, <1>3, <2>1 DEF Externals
    <2>3. refs[n][1] # <<>>
      BY <2>1, EmptySeq
    <2> QED
      BY <2>2, <2>3
  <1>5. SourceStores(refs) = IF buckets = {} THEN {NoSource} ELSE buckets
    BY DEF SourceStores
  <1>6. refs[n][1][1].bucket \in buckets
    BY <1>4
  <1>7. source \in buckets
    <2> HIDE DEF buckets
    <2> QED
      BY <1>5, <1>6
  <1>8. PICK m \in there : ~refs[m][1][1].inline /\ source = refs[m][1][1].bucket
    BY <1>7
  <1>9. 1 \in 1 .. Len(refs[m][1])
    BY <1>1, <1>8, EmptySeq
  <1>10. 1 \in Externals(s, m) /\ source = AllRefs(s.refs[m])[1].bucket
    BY <1>1, <1>8, <1>9 DEF Externals
  <1>11. refs[n][1][i].bucket = AllRefs(s.refs[n])[i].bucket
    BY <1>1
  <1>12. m \in DOMAIN s.refs /\ n \in DOMAIN s.refs
    OBVIOUS
  <1>13. AllRefs(s.refs[m])[1].bucket = AllRefs(s.refs[n])[i].bucket
    BY <1>2, <1>10, <1>12 DEF Addressable, OneSource
  <1> QED
    BY <1>10, <1>11, <1>13

\* What an adapter gives for a chunk is that chunk or an error, and no error if
\* all references of the array were loaded and lead somewhere.
LEMMA ChunkFound ==
    ASSUME NEW s, StoreOK(s), s.format = "refs", Addressable(s),
           NEW refs, DOMAIN refs \subseteq DOMAIN s.refs,
           \A n \in DOMAIN refs : Loaded(refs[n], s.refs[n]),
           NEW source \in SourceStores(refs), NEW n \in DOMAIN refs,
           NEW idx \in ChunkGrid(s.arrays[n].shape, s.arrays[n].chunks)
    PROVE  LET chunk == GetChunk(refs[n], s.arrays[n], idx, s.sep, source, s.objects)
           IN /\ chunk \in {MeantChunk(s, n, idx), <<"error">>}
              /\ Referenced(s, n) /\ refs[n] = <<AllRefs(s.refs[n])>> => chunk = MeantChunk(s, n, idx)
  <1> DEFINE a == s.arrays[n]
             grid == ChunkGrid(a.shape, a.chunks)
             flat == IndicesToFlatIndex(idx, ChunksPerDim(a.shape, a.chunks))
             all == AllRefs(s.refs[n])
             chunk == GetChunk(refs[n], a, idx, s.sep, source, s.objects)
             ref == refs[n][1][flat + 1]
             meant == <<IF all[flat + 1].inline THEN "row" ELSE "object", all[flat + 1].bucket, all[flat + 1].path>>
  <1>1. flat = RowMajorRank(idx, grid) /\ flat \in Nat /\ Cardinality(grid) \in Nat /\ flat < Cardinality(grid)
    <2>1. n \in DOMAIN s.arrays
      BY DEF StoreOK
    <2>2. PICK len \in Nat : len = Len(a.shape)
      BY <2>1, LenProperties DEF StoreOK
    <2>3. a.shape \in [1 .. len -> Nat] /\ a.chunks \in [1 .. len -> Nat \ {0}]
      BY <2>1, <2>2, LenProperties DEF StoreOK
    <2> HIDE DEF a
    <2> QED
      BY <2>2, <2>3, ChunkRank DEF a
  <1>2. chunk = IF refs[n] = <<>> \/ flat >= Len(refs[n][1]) THEN <<"error">>
                ELSE FetchChunk(ref, source, s.objects)
    <2>1. ParseChunkKey(idx, s.sep) = idx
      BY DEF ParseChunkKey, Addressable, OneSource
    <2> QED
      BY <2>1 DEF GetChunk
  <1>3. all \in Seq(RefRows) /\ Len(all) \in Nat /\ DOMAIN all = 1 .. Len(all)
    <2>1. s.refs[n] \in Seq(RefFiles)
      BY DEF StoreOK
    <2>2. Len(s.refs[n]) \in 0 .. Len(s.refs[n])
      BY <2>1, LenProperties
    <2>3. all \in Seq(RefRows)
      BY <2>1, <2>2, FirstFiles
    <2> QED
      BY <2>3, LenProperties
  <1>4. MeantChunk(s, n, idx) = IF flat >= Len(all) THEN <<"none">> ELSE meant
    <2>1. MeantChunk(s, n, idx)
            = CASE s.format # "refs" -> <<"own", n, idx>>
                [] s.format = "refs" /\ flat >= Len(all) -> <<"none">>
                [] OTHER -> meant
      <3> HIDE DEF flat
      <3> QED
        BY <1>1 DEF MeantChunk
    <2> HIDE DEF flat, all, meant
    <2> QED
      BY <2>1
  <1>5. \/ refs[n] = <<>>
        \/ /\ refs[n] # <<>> /\ refs[n][1] \in Seq(RefRows) /\ Begins(refs[n][1], all)
    BY DEF Loaded
  <1> HIDE DEF flat, chunk, grid
  <1>6. CASE refs[n] = <<>> \/ flat >= Len(refs[n][1])
    <2>1. chunk = <<"error">>
      BY <1>2, <1>6
    <2>2. ~(Referenced(s, n) /\ refs[n] = <<all>>)
      <3> SUFFICES ASSUME Referenced(s, n), refs[n] = <<all>> PROVE FALSE
        OBVIOUS
      <3>1. Len(all) >= Cardinality(grid)
        BY DEF Referenced, grid
      <3>2. refs[n] # <<>> /\ refs[n][1] = all
        <4> HIDE DEF all
        <4> QED
          OBVIOUS
      <3> HIDE DEF all
      <3> QED
        BY <1>1, <1>3, <1>6, <3>1, <3>2
    <2> QED
      BY <2>1, <2>2 DEF chunk
  <1>7. CASE ~(refs[n] = <<>> \/ flat >= Len(refs[n][1]))
    <2>1. refs[n] # <<>> /\ Len(refs[n][1]) \in Nat /\ flat + 1 \in 1 .. Len(refs[n][1]) /\ Len(refs[n][1]) <= Len(all)
      BY <1>1, <1>5, <1>7, LenProperties DEF Begins
    <2>2. ref = all[flat + 1] /\ ~(flat >= Len(all)) /\ flat + 1 \in DOMAIN all
      <3> HIDE DEF all
      <3> QED
        BY <1>1, <1>3, <1>5, <2>1 DEF Begins
    <2>3. ref \in RefRows
      BY <1>3, <2>2
    <2>4. ~ref.inline => source = ref.bucket
      BY <2>1, SourceServes
    <2>5. ref.inline => ref.bucket = NoSource
      BY <2>3 DEF RefRows
    <2>6. MeantChunk(s, n, idx) = <<IF ref.inline THEN "row" ELSE "object", ref.bucket, ref.path>>
      <3> HIDE DEF all, ref
      <3> QED
        BY <1>4, <2>2
    <2>7. chunk = FetchChunk(ref, source, s.objects)
      BY <1>2, <1>7
    <2> HIDE DEF ref
    <2>8. ref.inline => chunk = <<"row", NoSource, ref.path>>
      BY <2>7 DEF FetchChunk
    <2>9. ~ref.inline => \/ chunk = <<"object", source, ref.path>>
                         \/ chunk = <<"error">> /\ <<ref.bucket, ref.path>> \notin s.objects
      BY <2>4, <2>7 DEF FetchChunk
    <2>10. Referenced(s, n) => ref.inline \/ <<ref.bucket, ref.path>> \in s.objects
      BY <2>2 DEF Referenced
    <2> QED
      BY <2>4, <2>5, <2>6, <2>8, <2>9, <2>10 DEF chunk
  <1> QED
    BY <1>6, <1>7

-----------------------------------------------------------------------------
(* Stores of references: what is known of adapters, handles and probes. *)

\* The columns of a table.
ColumnNames(meta) == Names(meta.coords) \cup Names(meta.data_vars)

\* Only a repository is opened as one.
RepositoryOK ==
    handle = "icechunk" \/ phase = "open" \/ (table # <<>> /\ table[1].store_kind = "icechunk")
        => store.icechunk

\* An adapter has a source for its references, which are those of the store, as
\* many of them as were found: all, if no request was lost.
AdapterOK ==
    adapter # <<>> =>
        /\ store.format = "refs" /\ DOMAIN adapter[1].refs = ToSet(store.zmeta[1].keys)
        /\ adapter[1].source \in SourceStores(adapter[1].refs)
        /\ OneSource(store) =>
              \A n \in DOMAIN adapter[1].refs :
                  /\ Loaded(adapter[1].refs[n], store.refs[n])
                  /\ lost = 0 /\ Referenced(store, n) => adapter[1].refs[n] = <<AllRefs(store.refs[n])>>

\* A store is read through an adapter when there is one, and then by the arrays
\* that its consolidated metadata lists.
HandleOK ==
    /\ handle = "adapter" \/ (table # <<>> /\ table[1].adapter) => adapter # <<>>
    /\ phase = "adapter" => store.format = "refs"
    /\ handle = "adapter" => phase \notin {"version", "arrays"} /\ (table # <<>> \/ phase = "failed")
    /\ handle = "adapter" /\ phase = "reading" => ColumnNames(scan[1].meta[1]) \subseteq ToSet(store.zmeta[1].keys)
    /\ store.format = "refs" /\ ~IsRemote /\ phase = "reading" => handle = "adapter"
    /\ scan # <<>> => "at" \in DOMAIN scan[1] /\ scan[1].at \in {"head", "worker"}

\* As long as nothing is lost, a remote store whose references the probe finds
\* is read through an adapter where it was registered.
ProbedOK ==
    lost = 0 /\ IsRemote /\ store.format = "refs" /\ TakenForVirtual(store) =>
        /\ table # <<>> => table[1].adapter
        /\ table = <<>> /\ Discovering => phase = "zmetadata" /\ store.zmeta[1].json = "bad"
        /\ scan # <<>> /\ scan[1].at = "head" => handle = "adapter"

\* A store of references: it is no repository, and its metadata is consolidated.
LEMMA ReferenceStore ==
    ASSUME store \in Stores, store.format = "refs"
    PROVE  /\ StoreOK(store) /\ ~store.icechunk /\ View = store /\ IsVirtualizarrStore(store)
           /\ store.zmeta # <<>> /\ store.zmeta[1].keys # <<>>
           /\ store.zmeta[1].keys \in Seq(DOMAIN store.arrays)
           /\ ToSet(store.zmeta[1].keys) \subseteq DOMAIN store.refs /\ IsFiniteSet(ToSet(store.zmeta[1].keys))
  <1>1. StoreOK(store)
    BY ViewFacts
  <1>2. /\ ~store.icechunk /\ store.zmeta # <<>> /\ store.zmeta[1].keys # <<>>
        /\ store.zmeta[1].keys \in Seq(DOMAIN store.arrays) /\ IsFiniteSet(DOMAIN store.arrays)
        /\ DOMAIN store.refs = DOMAIN store.arrays
        /\ \E n \in DOMAIN store.refs : store.refs[n] # <<>>
    BY <1>1 DEF StoreOK
  <1>3. ToSet(store.zmeta[1].keys) \subseteq DOMAIN store.refs
    BY <1>2, SeqPlaces DEF ToSet
  <1>4. IsFiniteSet(ToSet(store.zmeta[1].keys))
    BY <1>2, KeysFinite
  <1> QED
    BY <1>1, <1>2, <1>3, <1>4, ViewFacts DEF IsVirtualizarrStore

\* A store that has references is a store of references.
LEMMA HasReferences ==
    ASSUME store \in Stores, NEW n \in DOMAIN store.refs, store.refs[n] # <<>>
    PROVE  store.format = "refs"
  BY ViewFacts DEF StoreOK

-----------------------------------------------------------------------------
(* Losses. *)

\* Some requests are lost, or none.
LEMMA LoseMore ==
    ASSUME Typed, NEW n \in Nat, Lose(n)
    PROVE  lost \in Nat /\ lost' \in Nat /\ lost <= lost'
  BY DEF Typed, Lose

\* What is lost stays lost.
LEMMA LossesGrow ==
    ASSUME IInv, [Next]_vars
    PROVE  lost \in Nat /\ lost' \in Nat /\ lost <= lost'
  <1> DEFINE Grow == lost \in Nat /\ lost' \in Nat /\ lost <= lost'
  <1>1. lost \in Nat /\ lost \in 0 .. MaxFaults /\ store \in Stores /\ Typed
    BY BoundsAssumption DEF IInv, Typed
  <1>2. ASSUME Delivered PROVE Grow
    BY <1>1, <1>2 DEF Delivered
  <1>3. ASSUME NEW n \in Nat, Lose(n) PROVE Grow
    BY <1>1, <1>3, LoseMore
  <1>4. ASSUME UNCHANGED lost PROVE Grow
    BY <1>1, <1>4
  <1>5. CASE CreateLocal \/ CreateStore
    BY <1>2, <1>5 DEF CreateLocal, CreateStore
  <1>6. CASE IsIcechunkStore \/ OpenIcechunk \/ ReadZmetadata
    BY <1>2, <1>3, <1>6 DEF IsIcechunkStore, OpenIcechunk, ReadZmetadata
  <1>7. CASE IsVirtualizarrStoreAsync
    <2> DEFINE readable == View.zmeta # <<>> /\ View.zmeta[1].json # "bad"
               probed == IF readable
                         THEN ToSet(SubSeq(View.zmeta[1].keys, 1, Min({ProbeLimit, Len(View.zmeta[1].keys)})))
                         ELSE {}
    <2>1. IsFiniteSet(probed)
      <3>1. CASE readable
        <4>1. View.zmeta = store.zmeta /\ store.zmeta # <<>>
          BY <1>1, <3>1, ViewFacts
        <4>2. store.zmeta[1].keys \in Seq(DOMAIN store.arrays) /\ IsFiniteSet(DOMAIN store.arrays)
          BY <1>1, <4>1, ViewFacts DEF StoreOK
        <4> QED
          BY <3>1, <4>1, <4>2, KeysFinite
      <3>2. CASE ~readable
        BY <3>2, FS_EmptySet
      <3> QED
        BY <3>1, <3>2
    <2>2. Lose(1) \/ \E missed \in SUBSET probed : Lose(Cardinality(missed))
      BY <1>7 DEF IsVirtualizarrStoreAsync
    <2> HIDE DEF probed
    <2>3. \A missed \in SUBSET probed : Cardinality(missed) \in Nat
      BY <2>1, SizeOfPart
    <2> QED
      BY <1>3, <2>2, <2>3
  <1>8. CASE NewAdapter
    <2> DEFINE names == ToSet(store.zmeta[1].keys)
               late(got) == {n \in names : got[n] < Len(store.refs[n])}
    <2>1. IsFiniteSet(names)
      <3>1. store.zmeta[1].keys \in Seq(DOMAIN store.arrays) /\ IsFiniteSet(DOMAIN store.arrays)
        BY <1>1, <1>8, ViewFacts DEF StoreOK, IInv, RemoteOK, NewAdapter
      <3> QED
        BY <3>1, KeysFinite
    <2>2. Lose(1) \/ \E got : Lose(Cardinality(late(got)))
      BY <1>8 DEF NewAdapter
    <2> HIDE DEF names
    <2>3. \A got : Cardinality(late(got)) \in Nat
      BY <2>1, SizeOfPart
    <2> HIDE DEF late
    <2> QED
      BY <1>3, <2>2, <2>3
  <1>9. CASE DetectVersionAsync \/ DiscoverV2Async \/ DiscoverV3Async
    BY <1>1, <1>9, DiscoveryLoses, BoundsAssumption
  <1>10. CASE \E at \in {"head", "worker"} : StartScan(at)
    BY <1>4, <1>10 DEF StartScan
  <1>11. CASE ReadSome
    BY <1>2, <1>3, <1>11 DEF ReadSome, ReadChunk
  <1>12. CASE FinishScan \/ Terminated \/ UNCHANGED vars
    BY <1>4, <1>12 DEF FinishScan, Terminated, vars
  <1> HIDE DEF Grow
  <1>13. Grow
    BY <1>5, <1>6, <1>7, <1>8, <1>9, <1>10, <1>11, <1>12 DEF Next, Request, Grow
  <1> QED
    BY <1>13 DEF Grow

-----------------------------------------------------------------------------
(* The adapter. *)

\* An adapter that is not touched stays what it is, whatever gets lost later.
LEMMA AdapterKept ==
    ASSUME AdapterOK, UNCHANGED <<store, adapter>>, lost \in Nat, lost' \in Nat, lost <= lost'
    PROVE  AdapterOK'
  <1>1. lost' = 0 => lost = 0
    OBVIOUS
  <1>2. ASSUME NEW n PROVE Referenced(store, n)' = Referenced(store, n)
    BY DEF Referenced
  <1> QED
    BY <1>1, <1>2 DEF AdapterOK

\* A new adapter has loaded what arrived.
LEMMA AdapterLoads ==
    ASSUME IInv, HandleOK, NewAdapter, adapter' # adapter
    PROVE  AdapterOK'
  <1> DEFINE names == ToSet(store.zmeta[1].keys)
             late(got) == {n \in names : got[n] < Len(store.refs[n])}
  <1>1. /\ store \in Stores /\ store.format = "refs" /\ UNCHANGED store /\ IsRemote /\ Typed
    BY DEF IInv, Typed, RemoteOK, HandleOK, NewAdapter
  <1>2. /\ StoreOK(store) /\ names \subseteq DOMAIN store.refs /\ IsFiniteSet(names)
    BY <1>1, ReferenceStore
  <1>3. PICK got : /\ DOMAIN got = names
                   /\ \A n \in names : got[n] \in 0 .. Len(store.refs[n])
                   /\ Lose(Cardinality(late(got)))
                   /\ \E source \in SourceStores(LoadAllRefsAsync(got)) :
                         adapter' = <<[refs |-> LoadAllRefsAsync(got), source |-> source]>>
    <2>1. PICK got \in [names -> 0 .. Max({Len(store.refs[n]) : n \in names})] :
                   /\ \A n \in names : got[n] <= Len(store.refs[n])
                   /\ Lose(Cardinality(late(got)))
                   /\ \E source \in SourceStores(LoadAllRefsAsync(got)) :
                         adapter' = <<[refs |-> LoadAllRefsAsync(got), source |-> source]>>
      BY DEF NewAdapter
    <2>2. ASSUME NEW n \in names PROVE got[n] \in 0 .. Len(store.refs[n])
      <3>1. got[n] \in 0 .. Max({Len(store.refs[m]) : m \in names})
        BY <2>1
      <3>2. \A a, b : a \in 0 .. b => (b \in Int => a \in Nat)
        OBVIOUS
      <3>3. got[n] \in Nat
        BY <3>1
      <3>4. Len(store.refs[n]) \in Nat
        BY <1>2, LenProperties DEF StoreOK
      <3> QED
        BY <2>1, <3>3, <3>4
    <2>3. DOMAIN got = names
      BY <2>1
    <2> HIDE DEF names, late
    <2> QED
      BY <2>1, <2>2, <2>3
  <1> DEFINE refs == LoadAllRefsAsync(got)
  <1>4. PICK source \in SourceStores(refs) : adapter' = <<[refs |-> refs, source |-> source]>>
    BY <1>3
  <1>5. refs = [n \in names |-> LoadAsync(store.refs[n], got[n], MaxRefsFiles)]
    BY <1>3 DEF LoadAllRefsAsync
  <1> HIDE DEF refs
  <1>6. adapter' # <<>> /\ adapter'[1].refs = refs /\ adapter'[1].source = source /\ DOMAIN refs = names
    BY <1>4, <1>5
  <1>7. ASSUME NEW n \in names
        PROVE  /\ Loaded(refs[n], store.refs[n])
               /\ lost' = 0 /\ Referenced(store, n) => refs[n] = <<AllRefs(store.refs[n])>>
    <2>1. /\ store.refs[n] \in Seq(RefFiles) /\ got[n] \in 0 .. Len(store.refs[n])
          /\ MaxRefsFiles \in Nat /\ refs[n] = LoadAsync(store.refs[n], got[n], MaxRefsFiles)
      BY <1>2, <1>3, <1>5, BoundsAssumption DEF StoreOK
    <2>2. lost' = 0 => got[n] = Len(store.refs[n])
      <3> SUFFICES ASSUME lost' = 0 PROVE got[n] = Len(store.refs[n])
        OBVIOUS
      <3>1. IsFiniteSet(late(got)) /\ Cardinality(late(got)) \in Nat
        BY <1>2, SizeOfPart
      <3>2. Cardinality(late(got)) = 0
        <4> DEFINE c == Cardinality(late(got))
        <4>1. c \in Nat /\ Lose(c)
          BY <1>3, <3>1
        <4> HIDE DEF c
        <4>2. c = 0
          BY <1>1, <4>1, LossesStay
        <4> QED
          BY <4>2 DEF c
      <3>3. late(got) = {}
        <4> HIDE DEF late
        <4> QED
          BY <3>1, <3>2, FS_EmptySet
      <3>4. ~(got[n] < Len(store.refs[n]))
        BY <3>3
      <3>5. Len(store.refs[n]) \in Nat
        BY <2>1, LenProperties
      <3> QED
        BY <2>1, <3>4, <3>5
    <2>3. Referenced(store, n) => /\ store.refs[n] # <<>> /\ Len(store.refs[n]) <= MaxRefsFiles
                                  /\ \A k \in DOMAIN store.refs[n] : store.refs[n][k].ok
      BY <1>1 DEF Referenced, IsRemote
    <2> QED
      BY <2>1, <2>2, <2>3, LoadAsyncHas
  <1>8. ASSUME NEW n PROVE Referenced(store, n)' = Referenced(store, n)
    BY <1>1 DEF Referenced
  <1> HIDE DEF names
  <1>9. names = ToSet(store.zmeta[1].keys)
    BY DEF names
  <1> QED
    BY <1>1, <1>6, <1>7, <1>8, <1>9 DEF AdapterOK

\* A local scan loads all references anew.
LEMMA LocalAdapterLoads ==
    ASSUME IInv, UNCHANGED store, ~IsRemote, IsVirtualizarrStore(store), NEW at, ExecuteVirtualizarr(at)
    PROVE  AdapterOK'
  <1> DEFINE names == ToSet(store.zmeta[1].keys)
             refs == LoadAllRefs
  <1>1. store \in Stores
    BY DEF IInv, Typed
  <1>2. store.format = "refs"
    BY <1>1, HasReferences DEF IsVirtualizarrStore
  <1>3. StoreOK(store) /\ names \subseteq DOMAIN store.refs
    BY <1>1, <1>2, ReferenceStore
  <1>4. PICK source \in SourceStores(refs) : adapter' = <<[refs |-> refs, source |-> source]>>
    BY DEF ExecuteVirtualizarr
  <1>5. refs = [n \in names |-> Load(store.refs[n])]
    BY DEF LoadAllRefs
  <1> HIDE DEF refs
  <1>6. adapter' # <<>> /\ adapter'[1].refs = refs /\ adapter'[1].source = source /\ DOMAIN refs = names
    BY <1>4, <1>5
  <1>7. ASSUME OneSource(store), NEW n \in names
        PROVE  /\ Loaded(refs[n], store.refs[n])
               /\ Referenced(store, n) => refs[n] = <<AllRefs(store.refs[n])>>
    <2>1. n \in DOMAIN store.refs /\ store.refs[n] \in Seq(RefFiles) /\ refs[n] = Load(store.refs[n])
      BY <1>3, <1>5 DEF StoreOK
    <2>2. Len(store.refs[n]) <= 10
      BY <1>7, <2>1 DEF OneSource, IsRemote
    <2> QED
      BY <2>1, <2>2, LoadHas DEF Referenced
  <1>8. ASSUME NEW n PROVE Referenced(store, n)' = Referenced(store, n)
    BY DEF Referenced
  <1> HIDE DEF names
  <1>9. names = ToSet(store.zmeta[1].keys)
    BY DEF names
  <1> QED
    BY <1>2, <1>6, <1>7, <1>8, <1>9 DEF AdapterOK

\* How a scan starts.
LEMMA ScanPaths ==
    ASSUME NEW at, StartScan(at)
    PROVE  LET exec == IF at = "worker" THEN ShippedExec(table[1]) ELSE table[1]
           IN /\ phase = "ready" /\ UNCHANGED <<store, lost, version>> /\ served' = <<>>
              /\ \/ exec.adapter /\ ExecuteWithAdapter(at)
                 \/ ~IsRemote /\ IsVirtualizarrStore(store) /\ ExecuteVirtualizarr(at)
                 \/ ~exec.adapter /\ (IsRemote \/ exec.cached \/ exec.store_kind # "zarr") /\ ExecuteRemote(exec, at)
                 \/ ~IsRemote /\ ~IsVirtualizarrStore(store) /\ exec.store_kind = "zarr" /\ ExecuteLocal(at)
  <1> DEFINE exec == IF at = "worker" THEN ShippedExec(table[1]) ELSE table[1]
  <1>1. /\ phase = "ready" /\ UNCHANGED <<store, lost, version>> /\ served' = <<>>
        /\ \/ ExecutePath(exec) = "local" /\ ExecuteLocal(at)
           \/ ExecutePath(exec) = "virtualizarr" /\ ExecuteVirtualizarr(at)
           \/ ExecutePath(exec) = "adapter" /\ ExecuteWithAdapter(at)
           \/ ExecutePath(exec) = "remote" /\ ExecuteRemote(exec, at)
    BY DEF StartScan
  <1> HIDE DEF exec
  <1>2. /\ ExecutePath(exec) = "adapter" => exec.adapter
        /\ ExecutePath(exec) = "virtualizarr" => ~IsRemote /\ IsVirtualizarrStore(store)
        /\ ExecutePath(exec) = "remote" => ~exec.adapter /\ (IsRemote \/ exec.cached \/ exec.store_kind # "zarr")
        /\ ExecutePath(exec) = "local" => ~IsRemote /\ ~IsVirtualizarrStore(store) /\ exec.store_kind = "zarr"
    BY DEF ExecutePath
  <1>3. \/ exec.adapter /\ ExecuteWithAdapter(at)
        \/ ~IsRemote /\ IsVirtualizarrStore(store) /\ ExecuteVirtualizarr(at)
        \/ ~exec.adapter /\ (IsRemote \/ exec.cached \/ exec.store_kind # "zarr") /\ ExecuteRemote(exec, at)
        \/ ~IsRemote /\ ~IsVirtualizarrStore(store) /\ exec.store_kind = "zarr" /\ ExecuteLocal(at)
    BY <1>1, <1>2
  <1> QED
    BY <1>1, <1>3 DEF exec

\* The adapter is what was loaded.
LEMMA AdapterStep ==
    ASSUME IInv, AdapterOK, HandleOK, [Next]_vars
    PROVE  AdapterOK'
  <1>1. UNCHANGED store /\ lost \in Nat /\ lost' \in Nat /\ lost <= lost'
    BY StoreStays, LossesGrow
  <1>2. CASE UNCHANGED adapter
    BY <1>1, <1>2, AdapterKept
  <1>3. CASE adapter' # adapter
    <2>1. CASE NewAdapter
      BY <1>3, <2>1, AdapterLoads
    <2>2. CASE \E at \in {"head", "worker"} : StartScan(at)
      <3>1. PICK at \in {"head", "worker"} : StartScan(at)
        BY <2>2
      <3>2. \/ ~IsRemote /\ IsVirtualizarrStore(store) /\ ExecuteVirtualizarr(at)
            \/ UNCHANGED adapter
        BY <3>1, ScanPaths DEF ExecuteLocal, ExecuteWithAdapter, ExecuteRemote
      <3> QED
        BY <1>1, <1>3, <3>2, LocalAdapterLoads
    <2>3. NewAdapter \/ \E at \in {"head", "worker"} : StartScan(at)
      BY <1>3 DEF Next, Request, CreateLocal, CreateStore, IsIcechunkStore, OpenIcechunk,
         IsVirtualizarrStoreAsync, ReadZmetadata, DetectVersionAsync, DiscoverV2Async,
         DiscoverV3Async, ReadSome, ReadChunk, FinishScan, Terminated, vars
    <2> QED
      BY <2>1, <2>2, <2>3
  <1> QED
    BY <1>2, <1>3

-----------------------------------------------------------------------------
(* Repositories, handles and probes. *)

\* A table is registered, or it is not.
LEMMA Registers ==
    ASSUME table = <<>>, NEW meta, NEW kind, NEW cached, NEW virtual, Register(meta, kind, cached, virtual)
    PROVE  \/ table' = <<>> /\ phase' = "failed" /\ scan' = <<>>
           \/ /\ table' # <<>> /\ phase' = "ready" /\ UNCHANGED scan
              /\ table'[1].store_kind = kind /\ table'[1].adapter = virtual
  BY DEF Register, Fail, NewTable

\* The discovery of arrays ends a registration or gives a scan its metadata.
LEMMA Discovers ==
    ASSUME IInv, HandleOK, Discovering, NEW meta, Discovered(meta)
    PROVE  \/ /\ table = <<>> /\ table' = <<>> /\ phase' = "failed" /\ scan' = <<>>
           \/ /\ table = <<>> /\ table' # <<>> /\ phase' = "ready" /\ scan' = <<>>
              /\ table'[1].store_kind = IF handle = "icechunk" THEN "icechunk" ELSE "zarr"
              /\ table'[1].adapter = FALSE
           \/ /\ table # <<>> /\ UNCHANGED table /\ phase' = "reading"
              /\ scan # <<>> /\ scan' # <<>> /\ scan'[1].meta[1] = meta
              /\ "at" \in DOMAIN scan'[1] /\ scan'[1].at = scan[1].at
  <1>1. CASE table = <<>>
    <2>1. scan = <<>>
      BY <1>1 DEF IInv, TableAndScan
    <2>2. Register(meta, IF handle = "icechunk" THEN "icechunk" ELSE "zarr", TRUE, FALSE)
      BY <1>1 DEF Discovered
    <2> QED
      BY <1>1, <2>1, <2>2, Registers
  <1>2. CASE table # <<>>
    <2>1. scan' = <<[scan[1] EXCEPT !.meta = <<meta>>]>> /\ UNCHANGED table /\ phase' = "reading"
      BY <1>2 DEF Discovered
    <2>2. scan # <<>> /\ "meta" \in DOMAIN scan[1] /\ "at" \in DOMAIN scan[1]
      BY <1>2 DEF IInv, TableAndScan, Discovering, HandleOK
    <2> QED
      BY <1>2, <2>1, <2>2
  <1> QED
    BY <1>1, <1>2

\* How requests to discover arrays end.
LEMMA DiscoveryEnds ==
    ASSUME DetectVersionAsync \/ DiscoverV2Async \/ DiscoverV3Async
    PROVE  /\ phase \in {"version", "arrays"} /\ UNCHANGED <<store, handle, adapter, served>>
           /\ \/ Fail
              \/ phase' = "arrays" /\ UNCHANGED <<table, scan>>
              \/ \E meta : Discovered(meta)
  BY DEF DetectVersionAsync, NoVersion, DiscoverV2Async, DiscoverV3Async, CannotList

\* Only a repository is opened as one.
LEMMA RepositoryStep ==
    ASSUME IInv, IInv', HandleOK, RepositoryOK, [Next]_vars
    PROVE  RepositoryOK'
  <1>1. UNCHANGED store
    BY StoreStays
  <1> DEFINE Kept == (handle' = "icechunk" => handle = "icechunk") /\ UNCHANGED table /\ phase' # "open"
  <1>2. ASSUME Kept PROVE RepositoryOK'
    BY <1>1, <1>2 DEF RepositoryOK
  <1>3. ASSUME Fail, UNCHANGED handle PROVE Kept
    BY <1>3 DEF Fail
  <1>4. ASSUME NEW meta, Discovered(meta), Discovering, UNCHANGED handle PROVE RepositoryOK'
    BY <1>1, <1>4, Discovers DEF RepositoryOK
  <1>5. CASE CreateLocal
    <2>1. table = <<>> /\ UNCHANGED handle
      BY <1>5 DEF CreateLocal, IInv, TableAndScan
    <2>2. Fail \/ \E meta : Register(meta, "zarr", FALSE, FALSE)
      BY <1>5 DEF CreateLocal
    <2>3. ASSUME NEW meta, Register(meta, "zarr", FALSE, FALSE) PROVE RepositoryOK'
      <3>1. phase' # "open" /\ (table' = <<>> \/ table'[1].store_kind = "zarr")
        BY <2>1, <2>3, Registers
      <3> QED
        BY <1>1, <2>1, <3>1 DEF RepositoryOK
    <2> QED
      BY <1>2, <1>3, <2>1, <2>2, <2>3
  <1>6. CASE CreateStore
    BY <1>1, <1>6 DEF CreateStore, RepositoryOK, IInv, TableAndScan
  <1>7. CASE IsIcechunkStore
    BY <1>1, <1>7 DEF IsIcechunkStore, RepositoryOK, IInv, TableAndScan
  <1>8. CASE OpenIcechunk
    <2>1. store.icechunk
      BY <1>8 DEF OpenIcechunk, RepositoryOK
    <2> QED
      BY <1>1, <2>1 DEF RepositoryOK
  <1>9. CASE IsVirtualizarrStoreAsync
    BY <1>2, <1>9 DEF IsVirtualizarrStoreAsync
  <1>10. CASE NewAdapter
    <2>1. table = <<>>
      BY <1>10 DEF NewAdapter, IInv, TableAndScan
    <2>2. \/ Fail /\ UNCHANGED handle
          \/ handle' = "adapter" /\ Register(SeparateAndSortNoStats(FromZmetadata(store)), "zarr", FALSE, TRUE)
      BY <1>10 DEF NewAdapter
    <2>3. CASE handle' = "adapter" /\ Register(SeparateAndSortNoStats(FromZmetadata(store)), "zarr", FALSE, TRUE)
      <3>1. phase' # "open" /\ (table' = <<>> \/ table'[1].store_kind = "zarr")
        BY <2>1, <2>3, Registers
      <3> QED
        BY <1>1, <2>3, <3>1 DEF RepositoryOK
    <2> QED
      BY <1>2, <1>3, <2>2, <2>3
  <1>11. CASE ReadZmetadata
    <2>1. UNCHANGED handle /\ Discovering
      BY <1>11 DEF ReadZmetadata, Discovering
    <2>2. \/ phase' = "version" /\ UNCHANGED <<table, scan>>
          \/ Fail
          \/ Discovered(SeparateAndSortNoStats(FromZmetadata(store)))
      BY <1>11 DEF ReadZmetadata
    <2> QED
      BY <1>2, <1>3, <1>4, <2>1, <2>2
  <1>12. CASE DetectVersionAsync \/ DiscoverV2Async \/ DiscoverV3Async
    <2>1. Discovering /\ UNCHANGED handle
      BY <1>12, DiscoveryEnds DEF Discovering
    <2> QED
      BY <1>2, <1>3, <1>4, <1>12, <2>1, DiscoveryEnds
  <1>13. CASE \E at \in {"head", "worker"} : StartScan(at)
    <2>1. PICK at \in {"head", "worker"} : StartScan(at)
      BY <1>13
    <2> DEFINE exec == IF at = "worker" THEN ShippedExec(table[1]) ELSE table[1]
    <2>2. table # <<>> /\ exec.store_kind = table[1].store_kind
      BY <2>1 DEF IInv, TableAndScan, ShippedExec, StartScan
    <2> HIDE DEF exec
    <2>3. \/ ExecuteWithAdapter(at) \/ ExecuteVirtualizarr(at) \/ ExecuteLocal(at)
          \/ ExecuteRemote(exec, at)
      BY <2>1, ScanPaths DEF exec
    <2>4. CASE ExecuteWithAdapter(at) \/ ExecuteVirtualizarr(at) \/ ExecuteLocal(at)
      BY <1>2, <2>4 DEF ExecuteWithAdapter, ExecuteVirtualizarr, ExecuteLocal
    <2>5. CASE ExecuteRemote(exec, at)
      BY <1>1, <2>2, <2>5 DEF ExecuteRemote, RepositoryOK
    <2> QED
      BY <2>3, <2>4, <2>5
  <1>14. CASE ReadSome
    <2>1. UNCHANGED handle /\ (Fail \/ UNCHANGED <<phase, table>>)
      BY <1>14 DEF ReadSome, ReadChunk
    <2> QED
      BY <1>1, <1>2, <1>3, <2>1 DEF RepositoryOK
  <1>15. CASE FinishScan \/ Terminated \/ UNCHANGED vars
    BY <1>1, <1>15 DEF FinishScan, Terminated, vars, RepositoryOK
  <1> QED
    BY <1>5, <1>6, <1>7, <1>8, <1>9, <1>10, <1>11, <1>12, <1>13, <1>14, <1>15 DEF Next, Request

\* The arrays of a virtual store are those that its consolidated metadata lists,
\* for a local scan too.
LEMMA LocalScanHas ==
    ASSUME store \in Stores, IsVirtualizarrStore(store), DiscoverArrays(store, <<>>) # <<>>
    PROVE  ColumnNames(DiscoverArrays(store, <<>>)[1]) \subseteq ToSet(store.zmeta[1].keys)
  <1>1. store.format = "refs"
    BY HasReferences DEF IsVirtualizarrStore
  <1>2. /\ store.zmeta # <<>> /\ store.zmeta[1].keys # <<>> /\ DOMAIN store.arrays \subseteq Nat
        /\ store.zmeta[1].keys \in Seq(DOMAIN store.arrays)
    BY <1>1, ReferenceStore DEF StoreOK
  <1>3. DiscoverArrays(store, <<>>)[1] = SeparateAndSortNoStats(FromZmetadata(store))
    BY <1>2 DEF DiscoverArrays
  <1> QED
    BY <1>2, <1>3, ListedArrays DEF ColumnNames

\* Adapters are used where there are some, for the arrays they have.
LEMMA HandleStep ==
    ASSUME IInv, IInv', AdapterOK, RepositoryOK, HandleOK, [Next]_vars
    PROVE  HandleOK'
  <1>1. UNCHANGED store /\ store \in Stores
    BY StoreStays DEF IInv, Typed
  <1>2. IsRemote' = IsRemote /\ (scan # <<>> => "meta" \in DOMAIN scan[1]) /\ (scan' # <<>> => "meta" \in DOMAIN scan'[1])
    BY <1>1 DEF IsRemote, IInv, TableAndScan
  <1>3. ASSUME Fail, UNCHANGED <<handle, adapter>> PROVE HandleOK'
    BY <1>1, <1>3 DEF Fail, HandleOK
  <1>4. ASSUME UNCHANGED <<handle, adapter, table, scan>>, phase' # "reading", phase # "failed",
               phase' = "adapter" => store.format = "refs",
               handle = "adapter" => phase' \notin {"version", "arrays"}
        PROVE  HandleOK'
    BY <1>1, <1>4 DEF HandleOK
  <1>5. ASSUME NEW meta, Discovered(meta), Discovering, UNCHANGED <<handle, adapter>>,
               handle = "adapter" => ColumnNames(meta) \subseteq ToSet(store.zmeta[1].keys)
        PROVE  HandleOK'
    <2>1. store.format = "refs" => IsRemote
      BY <1>1, <1>5, ReferenceStore DEF IInv, LocalOK
    <2>2. CASE table = <<>>
      <3>1. handle # "adapter"
        BY <1>5, <2>2 DEF HandleOK, Discovering
      <3>2. /\ scan' = <<>> /\ phase' \in {"failed", "ready"}
            /\ table' = <<>> \/ ~table'[1].adapter
        BY <1>5, <2>2, Discovers
      <3> QED
        BY <1>5, <3>1, <3>2 DEF HandleOK
    <2>3. CASE table # <<>>
      <3>1. /\ UNCHANGED table /\ phase' = "reading" /\ scan # <<>> /\ scan' # <<>>
            /\ scan'[1].meta[1] = meta /\ "at" \in DOMAIN scan'[1] /\ scan'[1].at = scan[1].at
        BY <1>5, <2>3, Discovers
      <3> QED
        BY <1>1, <1>2, <1>5, <2>1, <2>3, <3>1 DEF HandleOK
    <2> QED
      BY <2>2, <2>3
  <1>6. CASE CreateLocal
    <2>1. /\ table = <<>> /\ scan = <<>> /\ handle = "plain" /\ UNCHANGED <<handle, adapter>>
      BY <1>6 DEF CreateLocal, IInv, TableAndScan, RemoteOK
    <2>2. Fail \/ \E meta : Register(meta, "zarr", FALSE, FALSE)
      BY <1>6 DEF CreateLocal
    <2>3. ASSUME NEW meta, Register(meta, "zarr", FALSE, FALSE) PROVE HandleOK'
      <3>1. /\ scan' = <<>> /\ phase' \in {"failed", "ready"} /\ (table' = <<>> \/ ~table'[1].adapter)
        BY <2>1, <2>3, Registers
      <3> QED
        BY <2>1, <3>1 DEF HandleOK
    <2> QED
      BY <1>3, <2>1, <2>2, <2>3
  <1>7. CASE CreateStore
    <2>1. UNCHANGED <<handle, adapter, table, scan>> /\ phase = "new" /\ phase' \in {"open", "icechunk", "zmetadata"}
      BY <1>7 DEF CreateStore
    <2> QED
      BY <1>4, <2>1
  <1>8. CASE IsIcechunkStore
    BY <1>4, <1>8 DEF IsIcechunkStore
  <1>9. CASE OpenIcechunk
    <2>1. UNCHANGED adapter
      BY <1>9 DEF OpenIcechunk
    <2>2. CASE Fail /\ UNCHANGED handle
      BY <1>3, <2>1, <2>2
    <2>3. CASE handle' = "icechunk" /\ phase' = "zmetadata" /\ UNCHANGED <<table, scan>>
      BY <1>1, <2>1, <2>3 DEF HandleOK
    <2> QED
      BY <1>9, <2>2, <2>3 DEF OpenIcechunk
  <1>10. CASE IsVirtualizarrStoreAsync
    <2> DEFINE readable == View.zmeta # <<>> /\ View.zmeta[1].json # "bad"
               probed == IF readable
                         THEN ToSet(SubSeq(View.zmeta[1].keys, 1, Min({ProbeLimit, Len(View.zmeta[1].keys)})))
                         ELSE {}
    <2>1. /\ UNCHANGED <<handle, adapter, table, scan>> /\ phase = "virtualizarr"
          /\ \/ phase' = "zmetadata"
             \/ phase' = "adapter" /\ \E n \in probed : store.refs[n] # <<>>
      BY <1>10 DEF IsVirtualizarrStoreAsync
    <2>2. ASSUME NEW n \in probed PROVE n \in DOMAIN store.refs
      <3>1. readable
        BY <2>2
      <3>2. View.zmeta = store.zmeta /\ store.zmeta # <<>>
        BY <1>1, <3>1, ViewFacts
      <3>3. store.zmeta[1].keys \in Seq(DOMAIN store.arrays) /\ DOMAIN store.refs = DOMAIN store.arrays
        BY <1>1, <3>2, ViewFacts DEF StoreOK
      <3> DEFINE m == Min({ProbeLimit, Len(store.zmeta[1].keys)})
      <3>4. m \in Nat /\ m <= Len(store.zmeta[1].keys)
        BY <3>3, BoundsAssumption DEF Min
      <3>5. n \in ToSet(SubSeq(store.zmeta[1].keys, 1, m))
        BY <2>2, <3>1, <3>2
      <3> HIDE DEF m
      <3> QED
        BY <3>3, <3>4, <3>5 DEF ToSet
    <2> HIDE DEF probed
    <2>3. phase' = "adapter" => store.format = "refs"
      BY <1>1, <2>1, <2>2, HasReferences
    <2> QED
      BY <1>4, <2>1, <2>3
  <1>11. CASE NewAdapter
    <2>1. table = <<>> /\ scan = <<>> /\ phase = "adapter"
      BY <1>11 DEF NewAdapter, IInv, TableAndScan
    <2>2. \/ Fail /\ UNCHANGED <<handle, adapter>>
          \/ adapter' # <<>> /\ Register(SeparateAndSortNoStats(FromZmetadata(store)), "zarr", FALSE, TRUE)
      <3>1. ASSUME ~(Fail /\ UNCHANGED <<handle, adapter>>)
            PROVE  adapter' # <<>> /\ Register(SeparateAndSortNoStats(FromZmetadata(store)), "zarr", FALSE, TRUE)
        <4> DEFINE names == ToSet(store.zmeta[1].keys)
        <4>1. PICK got \in [names -> 0 .. Max({Len(store.refs[n]) : n \in names})] :
                 /\ \E source \in SourceStores(LoadAllRefsAsync(got)) :
                       adapter' = <<[refs |-> LoadAllRefsAsync(got), source |-> source]>>
                 /\ Register(SeparateAndSortNoStats(FromZmetadata(store)), "zarr", FALSE, TRUE)
          BY <1>11, <3>1 DEF NewAdapter
        <4>2. PICK source \in SourceStores(LoadAllRefsAsync(got)) :
                 adapter' = <<[refs |-> LoadAllRefsAsync(got), source |-> source]>>
          BY <4>1
        <4>3. adapter' # <<>>
          BY <4>2
        <4> QED
          BY <4>1, <4>3
      <3> QED
        BY <3>1
    <2>3. CASE adapter' # <<>> /\ Register(SeparateAndSortNoStats(FromZmetadata(store)), "zarr", FALSE, TRUE)
      <3>1. scan' = <<>> /\ \/ phase' = "failed" /\ table' = <<>>
                            \/ phase' = "ready" /\ table' # <<>>
        BY <2>1, <2>3, Registers
      <3> QED
        BY <2>3, <3>1 DEF HandleOK
    <2> QED
      BY <1>3, <2>2, <2>3
  <1>12. CASE ReadZmetadata
    <2>1. UNCHANGED <<handle, adapter>> /\ Discovering /\ phase = "zmetadata"
      BY <1>12 DEF ReadZmetadata, Discovering
    <2>2. handle = "adapter" => store.format = "refs"
      BY DEF HandleOK, AdapterOK
    <2>3. store.format = "refs" => /\ View = store /\ store.zmeta # <<>> /\ store.zmeta[1].keys # <<>>
                                   /\ ColumnNames(SeparateAndSortNoStats(FromZmetadata(store))) \subseteq ToSet(store.zmeta[1].keys)
      BY <1>1, ReferenceStore, ListedArrays DEF StoreOK, ColumnNames
    <2>4. \/ phase' = "version" /\ UNCHANGED <<table, scan>> /\ handle # "adapter"
          \/ Fail
          \/ Discovered(SeparateAndSortNoStats(FromZmetadata(store)))
      BY <1>12, <2>2, <2>3 DEF ReadZmetadata
    <2> QED
      BY <1>3, <1>4, <1>5, <2>1, <2>2, <2>3, <2>4
  <1>13. CASE DetectVersionAsync \/ DiscoverV2Async \/ DiscoverV3Async
    <2>1. Discovering /\ UNCHANGED <<handle, adapter>> /\ phase # "failed" /\ handle # "adapter"
      BY <1>13, DiscoveryEnds DEF Discovering, HandleOK
    <2> QED
      BY <1>3, <1>4, <1>5, <1>13, <2>1, DiscoveryEnds
  <1>14. CASE \E at \in {"head", "worker"} : StartScan(at)
    <2>1. PICK at \in {"head", "worker"} : StartScan(at)
      BY <1>14
    <2> DEFINE exec == IF at = "worker" THEN ShippedExec(table[1]) ELSE table[1]
    <2>2. /\ table # <<>> /\ phase = "ready"
          /\ exec.cached => table[1].cached
          /\ exec.adapter => table[1].adapter
          /\ exec.store_kind = table[1].store_kind
      BY <2>1 DEF IInv, TableAndScan, ShippedExec, StartScan
    <2> HIDE DEF exec
    <2>3. \/ exec.adapter /\ ExecuteWithAdapter(at)
          \/ ~IsRemote /\ IsVirtualizarrStore(store) /\ ExecuteVirtualizarr(at)
          \/ ~exec.adapter /\ (IsRemote \/ exec.cached \/ exec.store_kind # "zarr") /\ ExecuteRemote(exec, at)
          \/ ~IsRemote /\ ~IsVirtualizarrStore(store) /\ ExecuteLocal(at)
      BY <2>1, ScanPaths DEF exec
    <2>4. CASE exec.adapter /\ ExecuteWithAdapter(at)
      BY <1>1, <2>2, <2>4 DEF ExecuteWithAdapter, HandleOK
    <2>5. CASE ~IsRemote /\ IsVirtualizarrStore(store) /\ ExecuteVirtualizarr(at)
      <3>1. /\ adapter' # <<>> /\ handle' = "adapter" /\ phase' = "reading" /\ UNCHANGED table
            /\ scan' = <<[at |-> at, meta |-> DiscoverArrays(store, <<>>), reads |-> 0]>>
        BY <2>5 DEF ExecuteVirtualizarr
      <3>2. DiscoverArrays(store, <<>>) # <<>>
        BY <3>1 DEF IInv, TableAndScan
      <3>3. ColumnNames(scan'[1].meta[1]) \subseteq ToSet(store.zmeta[1].keys)
        BY <1>1, <2>5, <3>1, <3>2, LocalScanHas
      <3>4. "at" \in DOMAIN scan'[1] /\ scan'[1].at \in {"head", "worker"}
        BY <3>1
      <3> QED
        BY <1>1, <2>2, <3>1, <3>3, <3>4 DEF HandleOK
    <2>6. CASE (IsRemote \/ exec.cached \/ exec.store_kind # "zarr") /\ ExecuteRemote(exec, at)
      <3>1. /\ handle' \in {"icechunk", "plain"} /\ UNCHANGED <<adapter, table>>
            /\ phase' \in {"reading", "open", "zmetadata"}
            /\ scan' # <<>> /\ "at" \in DOMAIN scan'[1] /\ scan'[1].at = at
        BY <2>6 DEF ExecuteRemote
      <3>2. store.format = "refs" => IsRemote
        <4>1. ~IsRemote => store.icechunk
          BY <2>2, <2>6 DEF IInv, LocalOK, LocalTable
        <4> QED
          BY <1>1, <4>1, ReferenceStore
      <3> QED
        BY <1>1, <1>2, <3>1, <3>2 DEF HandleOK
    <2>7. CASE ~IsRemote /\ ~IsVirtualizarrStore(store) /\ ExecuteLocal(at)
      <3>1. handle # "adapter" /\ store.format # "refs"
        BY <1>1, <2>7, ReferenceStore DEF IInv, RemoteOK
      <3>2. /\ UNCHANGED <<handle, adapter, table>> /\ phase' = "reading"
            /\ scan' # <<>> /\ "at" \in DOMAIN scan'[1] /\ scan'[1].at = at
        BY <2>7 DEF ExecuteLocal
      <3> QED
        BY <1>1, <3>1, <3>2 DEF HandleOK
    <2> QED
      BY <2>3, <2>4, <2>5, <2>6, <2>7
  <1>15. CASE ReadSome
    <2>1. /\ UNCHANGED <<handle, adapter>> /\ phase = "reading" /\ scan # <<>>
          /\ \/ Fail
             \/ scan' = <<[scan[1] EXCEPT !.reads = @ + 1]>> /\ UNCHANGED <<phase, table>>
      BY <1>15 DEF ReadSome, ReadChunk, IInv, TableAndScan
    <2>2. CASE scan' = <<[scan[1] EXCEPT !.reads = @ + 1]>> /\ UNCHANGED <<phase, table>>
      <3>1. /\ "meta" \in DOMAIN scan[1] /\ "at" \in DOMAIN scan[1]
        BY <1>2, <2>1 DEF HandleOK
      <3>2. scan'[1].meta = scan[1].meta /\ scan'[1].at = scan[1].at /\ "at" \in DOMAIN scan'[1]
        BY <2>2, <3>1
      <3> QED
        BY <1>1, <1>2, <2>1, <2>2, <3>2 DEF HandleOK
    <2> QED
      BY <1>3, <2>1, <2>2
  <1>16. CASE FinishScan
    <2>1. table # <<>>
      BY <1>16 DEF FinishScan, IInv, TableAndScan
    <2> QED
      BY <1>1, <1>16, <2>1 DEF FinishScan, HandleOK
  <1>17. CASE Terminated \/ UNCHANGED vars
    BY <1>1, <1>2, <1>17 DEF Terminated, vars, HandleOK
  <1> QED
    BY <1>6, <1>7, <1>8, <1>9, <1>10, <1>11, <1>12, <1>13, <1>14, <1>15, <1>16, <1>17 DEF Next, Request

\* The probe that loses nothing finds what it looks for.
LEMMA ProbeFinds ==
    ASSUME IInv, store.format = "refs", TakenForVirtual(store), IsVirtualizarrStoreAsync, lost' = 0
    PROVE  phase' = "adapter" \/ (phase' = "zmetadata" /\ store.zmeta[1].json = "bad")
  <1> DEFINE keys == store.zmeta[1].keys
             m == Min({ProbeLimit, Len(keys)})
             readable == View.zmeta # <<>> /\ View.zmeta[1].json # "bad"
             probed == IF readable
                       THEN ToSet(SubSeq(View.zmeta[1].keys, 1, Min({ProbeLimit, Len(View.zmeta[1].keys)})))
                       ELSE {}
  <1>1. /\ store \in Stores /\ Typed /\ View = store /\ store.zmeta # <<>> /\ keys \in Seq(DOMAIN store.arrays)
        /\ IsFiniteSet(DOMAIN store.arrays)
    BY ReferenceStore DEF IInv, Typed, StoreOK
  <1>2. PICK missed \in SUBSET probed :
           /\ Lose(Cardinality(missed))
           /\ phase' = IF \E n \in probed \ missed : store.refs[n] # <<>> THEN "adapter" ELSE "zmetadata"
    <2>1. ~Lose(1)
      BY <1>1, LossesStay
    <2> QED
      BY <2>1 DEF IsVirtualizarrStoreAsync
  <1>3. CASE store.zmeta[1].json = "bad"
    <2> HIDE DEF probed
    <2> QED
      BY <1>2, <1>3
  <1>4. CASE store.zmeta[1].json # "bad"
    <2>1. probed = ToSet(SubSeq(keys, 1, m))
      BY <1>1, <1>4
    <2>2. m \in Nat /\ m <= Len(keys) /\ \A i \in Nat : i <= ProbeLimit /\ i <= Len(keys) => i <= m
      <3>1. Len(keys) \in Nat
        BY <1>1, LenProperties
      <3> DEFINE len == Len(keys)
      <3>2. m \in {ProbeLimit, len} /\ m <= ProbeLimit /\ m <= len
        <4> HIDE DEF keys
        <4> QED
          BY <3>1, BoundsAssumption DEF Min
      <3> HIDE DEF m, len
      <3>3. m \in Nat /\ m <= len /\ \A i \in Nat : i <= ProbeLimit /\ i <= len => i <= m
        BY <3>2, <3>1, BoundsAssumption DEF len
      <3> QED
        BY <3>3 DEF len
    <2>3. PICK i \in DOMAIN keys : i <= ProbeLimit /\ store.refs[keys[i]] # <<>>
      BY DEF TakenForVirtual
    <2>4. i \in 1 .. m
      <3>1. DOMAIN keys = 1 .. Len(keys) /\ Len(keys) \in Nat
        BY <1>1, LenProperties
      <3> HIDE DEF m, keys
      <3> QED
        BY <2>2, <2>3, <3>1
    <2>5. keys[i] \in probed
      <3> HIDE DEF m, probed
      <3>1. keys[i] \in ToSet(SubSeq(keys, 1, m))
        <4>1. Len(keys) \in Nat /\ 1 \in 1 .. Len(keys) + 1 /\ m \in 0 .. Len(keys)
          BY <1>1, <2>2, LenProperties
        <4>2. DOMAIN SubSeq(keys, 1, m) = 1 .. m /\ SubSeq(keys, 1, m)[i] = keys[i]
          BY <1>1, <2>4, <4>1
        <4> QED
          BY <2>4, <4>2 DEF ToSet
      <3> QED
        BY <2>1, <3>1
    <2>6. missed = {}
      <3>1. IsFiniteSet(probed)
        BY <1>1, <2>1, KeysFinite
      <3> HIDE DEF probed
      <3>2. IsFiniteSet(missed) /\ Cardinality(missed) \in Nat
        BY <3>1, SizeOfPart
      <3>3. Cardinality(missed) = 0
        <4> DEFINE c == Cardinality(missed)
        <4>1. c \in Nat /\ Lose(c)
          BY <1>2, <3>2
        <4> HIDE DEF c
        <4>2. c = 0
          BY <1>1, <4>1, LossesStay
        <4> QED
          BY <4>2 DEF c
      <3> QED
        BY <3>2, <3>3, FS_EmptySet
    <2> HIDE DEF probed, keys
    <2> QED
      BY <1>2, <2>3, <2>5, <2>6
  <1> QED
    BY <1>3, <1>4

\* A remote store of references is read through its adapter at home, unless
\* something is lost or its arrays are not probed.
LEMMA ProbedStep ==
    ASSUME IInv, IInv', RepositoryOK, HandleOK, ProbedOK, [Next]_vars
    PROVE  ProbedOK'
  <1>1. UNCHANGED store /\ store \in Stores /\ lost \in Nat /\ lost' \in Nat /\ lost <= lost' /\ Typed
    BY StoreStays, LossesGrow DEF IInv, Typed
  <1> DEFINE Home == /\ table' # <<>> => table'[1].adapter
                     /\ table' = <<>> /\ Discovering' => phase' = "zmetadata" /\ store.zmeta[1].json = "bad"
                     /\ scan' # <<>> /\ scan'[1].at = "head" => handle' = "adapter"
  <1>2. SUFFICES ASSUME lost' = 0, IsRemote, store.format = "refs", TakenForVirtual(store) PROVE Home
    BY <1>1 DEF ProbedOK, IsRemote
  <1>3. /\ lost = 0 /\ ~Lose(1) /\ ~store.icechunk /\ View = store /\ store.client = "factory"
        /\ store.zmeta # <<>> /\ store.zmeta[1].keys # <<>>
    <2>1. lost = 0 /\ ~Lose(1)
      BY <1>1, <1>2, LossesStay
    <2> QED
      BY <1>1, <1>2, <2>1, ReferenceStore DEF TakenForVirtual
  <1>4. /\ table # <<>> => table[1].adapter
        /\ table = <<>> /\ Discovering => phase = "zmetadata" /\ store.zmeta[1].json = "bad"
        /\ scan # <<>> /\ scan[1].at = "head" => handle = "adapter"
    BY <1>2, <1>3 DEF ProbedOK
  <1>5. ASSUME Fail PROVE Home
    BY <1>4, <1>5 DEF Fail, Discovering
  <1>6. ASSUME UNCHANGED <<handle, table, scan>>,
               table = <<>> => phase' \notin {"zmetadata", "version", "arrays"} PROVE Home
    BY <1>4, <1>6 DEF Discovering
  <1>7. ASSUME NEW meta, Discovered(meta), Discovering, table # <<>>, UNCHANGED handle PROVE Home
    <2>1. UNCHANGED table /\ scan # <<>> /\ scan'[1].at = scan[1].at
      BY <1>7, Discovers
    <2> QED
      BY <1>4, <1>7, <2>1
  <1> HIDE DEF Home
  <1>8. CASE CreateLocal
    BY <1>2, <1>8 DEF CreateLocal
  <1>9. CASE CreateStore
    <2>1. UNCHANGED <<handle, table, scan>> /\ phase' = "icechunk"
      BY <1>2, <1>3, <1>9 DEF CreateStore
    <2> QED
      BY <1>6, <2>1
  <1>10. CASE IsIcechunkStore
    <2>1. UNCHANGED <<handle, table, scan>> /\ phase' = "virtualizarr"
      BY <1>3, <1>10 DEF IsIcechunkStore
    <2> QED
      BY <1>6, <2>1
  <1>11. CASE OpenIcechunk
    BY <1>3, <1>11 DEF OpenIcechunk, RepositoryOK
  <1>12. CASE IsVirtualizarrStoreAsync
    <2>1. UNCHANGED <<handle, table, scan>> /\ table = <<>>
      BY <1>12 DEF IsVirtualizarrStoreAsync, IInv, TableAndScan
    <2>2. scan = <<>>
      BY <2>1 DEF IInv, TableAndScan
    <2>3. phase' = "adapter" \/ (phase' = "zmetadata" /\ store.zmeta[1].json = "bad")
      BY <1>2, <1>12, ProbeFinds
    <2> QED
      BY <2>1, <2>2, <2>3 DEF Home, Discovering
  <1>13. CASE NewAdapter
    <2>1. table = <<>>
      BY <1>13 DEF NewAdapter, IInv, TableAndScan
    <2>2. handle' = "adapter" /\ Register(SeparateAndSortNoStats(FromZmetadata(store)), "zarr", FALSE, TRUE)
      BY <1>3, <1>13 DEF NewAdapter
    <2>3. \/ table' = <<>> /\ phase' = "failed" /\ scan' = <<>>
          \/ table' # <<>> /\ phase' = "ready" /\ table'[1].adapter = TRUE
      BY <2>1, <2>2, Registers
    <2> QED
      BY <2>2, <2>3 DEF Home, Discovering
  <1>14. CASE ReadZmetadata
    <2>1. UNCHANGED handle /\ Discovering
      BY <1>14 DEF ReadZmetadata, Discovering
    <2>2. CASE table = <<>>
      <3>1. handle # "adapter" /\ store.zmeta[1].json = "bad"
        BY <1>4, <2>1, <2>2 DEF HandleOK, Discovering
      <3>2. Fail
        BY <1>3, <1>14, <3>1 DEF ReadZmetadata
      <3> QED
        BY <1>5, <3>2
    <2>3. CASE table # <<>>
      <3>1. \/ UNCHANGED <<table, scan>>
            \/ Fail
            \/ Discovered(SeparateAndSortNoStats(FromZmetadata(store)))
        BY <1>14 DEF ReadZmetadata
      <3> QED
        BY <1>5, <1>6, <1>7, <2>1, <2>3, <3>1
    <2> QED
      BY <2>2, <2>3
  <1>15. CASE DetectVersionAsync \/ DiscoverV2Async \/ DiscoverV3Async
    <2>1. Discovering /\ UNCHANGED handle /\ table # <<>>
      BY <1>4, <1>15, DiscoveryEnds DEF Discovering
    <2> QED
      BY <1>5, <1>6, <1>7, <1>15, <2>1, DiscoveryEnds
  <1>16. CASE \E at \in {"head", "worker"} : StartScan(at)
    <2>1. PICK at \in {"head", "worker"} : StartScan(at)
      BY <1>16
    <2>2. table # <<>> /\ table[1].adapter
      BY <1>4, <2>1 DEF IInv, TableAndScan, StartScan
    <2>3. CASE at = "head"
      <3>1. ExecuteWithAdapter(at)
        BY <1>2, <2>1, <2>2, <2>3, ScanPaths
      <3> QED
        BY <2>2, <3>1 DEF ExecuteWithAdapter, Home
    <2>4. CASE at = "worker"
      <3>1. \/ ExecuteWithAdapter(at)
            \/ \E exec : ExecuteRemote(exec, at)
        BY <1>2, <2>1, ScanPaths
      <3>2. CASE ExecuteWithAdapter(at)
        BY <2>2, <2>4, <3>2 DEF ExecuteWithAdapter, Home
      <3>3. ASSUME NEW exec, ExecuteRemote(exec, at) PROVE Home
        <4>1. UNCHANGED table /\ scan' # <<>> /\ scan'[1].at = at
          BY <3>3 DEF ExecuteRemote
        <4> QED
          BY <2>2, <2>4, <4>1 DEF Home
      <3> QED
        BY <3>1, <3>2, <3>3
    <2> QED
      BY <2>3, <2>4
  <1>17. CASE ReadSome
    <2>1. /\ UNCHANGED handle /\ phase = "reading" /\ scan # <<>> /\ table # <<>>
          /\ \/ Fail
             \/ scan' = <<[scan[1] EXCEPT !.reads = @ + 1]>> /\ UNCHANGED <<phase, table>>
      BY <1>17 DEF ReadSome, ReadChunk, IInv, TableAndScan
    <2>2. CASE scan' = <<[scan[1] EXCEPT !.reads = @ + 1]>> /\ UNCHANGED <<phase, table>>
      <3>1. "at" \in DOMAIN scan[1]
        BY <2>1 DEF HandleOK
      <3>2. scan'[1].at = scan[1].at
        BY <2>2, <3>1
      <3> QED
        BY <1>4, <2>1, <2>2, <3>2 DEF Home
    <2> QED
      BY <1>5, <2>1, <2>2
  <1>18. CASE FinishScan
    <2>1. table # <<>> /\ UNCHANGED table /\ scan' = <<>>
      BY <1>18 DEF FinishScan, IInv, TableAndScan
    <2> QED
      BY <1>4, <2>1 DEF Home
  <1>19. CASE Terminated \/ UNCHANGED vars
    BY <1>4, <1>19 DEF Terminated, vars, Home, Discovering
  <1> QED
    BY <1>8, <1>9, <1>10, <1>11, <1>12, <1>13, <1>14, <1>15, <1>16, <1>17, <1>18, <1>19 DEF Next, Request

-----------------------------------------------------------------------------
(* Chunks. *)

\* What is known of adapters, handles and probes.
VirtualOK == RepositoryOK /\ AdapterOK /\ HandleOK /\ ProbedOK

\* What the store gives for a chunk.
LEMMA ChunkBytesAre ==
    ASSUME IInv, VirtualOK, Addressable(store), phase = "reading",
           NEW n \in ColumnNames(scan[1].meta[1]),
           NEW idx \in ChunkGrid(store.arrays[n].shape, store.arrays[n].chunks)
    PROVE  \/ ChunkBytes(n, idx) = MeantChunk(store, n, idx)
           \/ ChunkBytes(n, idx) = <<"error">> /\ (lost > 0 \/ ~Referenced(store, n))
           \/ /\ ChunkBytes(n, idx) = <<"fill">> /\ handle = "plain" /\ IsRemote
              /\ lost > 0 \/ scan[1].at = "worker" \/ ~TakenForVirtual(store)
  <1> DEFINE a == store.arrays[n]
             loaded == TransformZarray(a.raw)[1] \notin {"M", "m"}
             found == GetChunk(adapter[1].refs[n], a, idx, store.sep, adapter[1].source, store.objects)
  <1>1. store \in Stores /\ lost \in Nat /\ handle \in {"plain", "icechunk", "adapter"}
    BY BoundsAssumption DEF IInv, Typed
  <1>2. loaded
    BY DEF TransformZarray
  <1>3. ChunkBytes(n, idx)
          = CASE handle = "adapter" /\ loaded -> found
              [] handle = "adapter" /\ ~loaded -> <<"error">>
              [] handle # "adapter" /\ store.format = "refs" -> <<"fill">>
              [] OTHER -> <<"own", n, idx>>
    BY DEF ChunkBytes
  <1> HIDE DEF loaded, found
  <1>4. CASE handle = "adapter"
    <2> DEFINE refs == adapter[1].refs
               source == adapter[1].source
    <2>1. /\ store.format = "refs" /\ DOMAIN refs = ToSet(store.zmeta[1].keys) /\ source \in SourceStores(refs)
          /\ \A m \in DOMAIN refs : /\ Loaded(refs[m], store.refs[m])
                                    /\ lost = 0 /\ Referenced(store, m) => refs[m] = <<AllRefs(store.refs[m])>>
      BY <1>4 DEF VirtualOK, AdapterOK, HandleOK, Addressable
    <2>2. n \in DOMAIN refs
      BY <1>4, <2>1 DEF VirtualOK, HandleOK
    <2>3. StoreOK(store) /\ DOMAIN refs \subseteq DOMAIN store.refs
      BY <1>1, <2>1, ReferenceStore
    <2> HIDE DEF refs, source
    <2>4. /\ found \in {MeantChunk(store, n, idx), <<"error">>}
          /\ Referenced(store, n) /\ refs[n] = <<AllRefs(store.refs[n])>> => found = MeantChunk(store, n, idx)
      BY <2>1, <2>2, <2>3, ChunkFound DEF found, refs, source
    <2>5. ChunkBytes(n, idx) = found
      BY <1>2, <1>3, <1>4
    <2> QED
      BY <1>1, <2>1, <2>2, <2>4, <2>5
  <1>5. CASE handle # "adapter" /\ store.format = "refs"
    <2>1. ChunkBytes(n, idx) = <<"fill">>
      BY <1>3, <1>5
    <2>2. IsRemote
      BY <1>5 DEF VirtualOK, HandleOK
    <2>3. handle = "plain"
      BY <1>1, <1>5, ReferenceStore DEF VirtualOK, RepositoryOK
    <2>4. scan # <<>> /\ scan[1].at \in {"head", "worker"}
      BY DEF VirtualOK, HandleOK, IInv, TableAndScan
    <2>5. lost = 0 /\ TakenForVirtual(store) => scan[1].at # "head"
      BY <1>5, <2>2, <2>4 DEF VirtualOK, ProbedOK
    <2> QED
      BY <1>1, <2>1, <2>2, <2>3, <2>4, <2>5
  <1>6. CASE handle # "adapter" /\ store.format # "refs"
    <2>1. ChunkBytes(n, idx) = <<"own", n, idx>>
      BY <1>3, <1>6
    <2>2. MeantChunk(store, n, idx) = <<"own", n, idx>>
      BY <1>6 DEF MeantChunk
    <2> QED
      BY <2>1, <2>2
  <1> QED
    BY <1>4, <1>5, <1>6

\* What was served stays right: what is lost stays lost.
LEMMA ServedKept ==
    ASSUME ChunkIsTheOneAsked, UNCHANGED <<store, served>>, lost \in Nat, lost' \in Nat, lost <= lost'
    PROVE  ChunkIsTheOneAsked'
  <1>1. lost > 0 => lost' > 0
    OBVIOUS
  <1>2. /\ Addressable(store)' = Addressable(store) /\ IsRemote' = IsRemote
        /\ TakenForVirtual(store)' = TakenForVirtual(store)
        /\ \A n, idx : /\ MeantChunk(store, n, idx)' = MeantChunk(store, n, idx)
                       /\ Referenced(store, n)' = Referenced(store, n)
    BY DEF Addressable, OneSource, IsRemote, TakenForVirtual, MeantChunk, Referenced
  <1> QED
    BY <1>1, <1>2 DEF ChunkIsTheOneAsked

\* What the reader is served is the chunk it asked for.
LEMMA ServedStep ==
    ASSUME IInv, VirtualOK, ChunkIsTheOneAsked, [Next]_vars
    PROVE  ChunkIsTheOneAsked'
  <1>1. UNCHANGED store /\ lost \in Nat /\ lost' \in Nat /\ lost <= lost'
    BY StoreStays, LossesGrow
  <1>2. CASE UNCHANGED served
    BY <1>1, <1>2, ServedKept
  <1>3. CASE served' = <<>>
    BY <1>3 DEF ChunkIsTheOneAsked
  <1>4. CASE ReadSome
    <2>1. PICK n \in ColumnNames(scan[1].meta[1]), part \in BOOLEAN :
             \E idx \in ChunkGrid(store.arrays[n].shape, store.arrays[n].chunks) : ReadChunk(n, idx, part)
      BY <1>4 DEF ReadSome, ColumnNames
    <2>2. PICK idx \in ChunkGrid(store.arrays[n].shape, store.arrays[n].chunks) : ReadChunk(n, idx, part)
      BY <2>1
    <2> DEFINE bytes == ChunkBytes(n, idx)
    <2>3. PICK what \in {bytes, <<"error">>} :
             /\ IF what = bytes THEN Delivered ELSE IsRemote /\ Lose(1)
             /\ served' = <<[array |-> n, idx |-> idx, what |-> what, via |-> handle, at |-> scan[1].at]>>
      BY <2>2 DEF ReadChunk
    <2>4. phase = "reading"
      BY <2>2 DEF ReadChunk
    <2>5. Addressable(store) =>
             \/ bytes = MeantChunk(store, n, idx)
             \/ bytes = <<"error">> /\ (lost > 0 \/ ~Referenced(store, n))
             \/ /\ bytes = <<"fill">> /\ handle = "plain" /\ IsRemote
                /\ lost > 0 \/ scan[1].at = "worker" \/ ~TakenForVirtual(store)
      BY <2>1, <2>2, <2>4, ChunkBytesAre
    <2> HIDE DEF bytes
    <2>6. /\ served'[1].array = n /\ served'[1].idx = idx /\ served'[1].what = what
          /\ served'[1].via = handle /\ served'[1].at = scan[1].at
      BY <2>3
    <2>7. Addressable(store) =>
             \/ what = MeantChunk(store, n, idx)
             \/ what = <<"error">> /\ (lost' > 0 \/ ~Referenced(store, n))
             \/ /\ what = <<"fill">> /\ handle = "plain" /\ IsRemote
                /\ lost' > 0 \/ scan[1].at = "worker" \/ ~TakenForVirtual(store)
      <3>1. CASE what = bytes
        BY <1>1, <2>3, <2>5, <3>1 DEF Delivered
      <3>2. CASE what # bytes
        <4>1. what = <<"error">> /\ lost' = lost + 1
          BY <2>3, <3>2 DEF Lose
        <4> QED
          BY <1>1, <4>1
      <3> QED
        BY <3>1, <3>2
    <2>8. /\ Addressable(store)' = Addressable(store) /\ IsRemote' = IsRemote
          /\ TakenForVirtual(store)' = TakenForVirtual(store)
          /\ MeantChunk(store, n, idx)' = MeantChunk(store, n, idx)
          /\ Referenced(store, n)' = Referenced(store, n)
      BY <1>1 DEF Addressable, OneSource, IsRemote, TakenForVirtual, MeantChunk, Referenced
    <2> QED
      BY <1>1, <2>6, <2>7, <2>8 DEF ChunkIsTheOneAsked
  <1>5. UNCHANGED served \/ served' = <<>> \/ ReadSome
    <2>1. CASE Request
      BY <2>1 DEF Request, CreateLocal, CreateStore, IsIcechunkStore, OpenIcechunk, IsVirtualizarrStoreAsync,
         NewAdapter, ReadZmetadata, DetectVersionAsync, DiscoverV2Async, DiscoverV3Async
    <2>2. CASE \E at \in {"head", "worker"} : StartScan(at)
      BY <2>2 DEF StartScan
    <2>3. CASE FinishScan \/ Terminated \/ UNCHANGED vars
      BY <2>3 DEF FinishScan, Terminated, vars
    <2> QED
      BY <2>1, <2>2, <2>3 DEF Next
  <1> QED
    BY <1>2, <1>3, <1>4, <1>5

\* Whatever was lost, and wherever the scan runs: what the reader gets for a
\* chunk of a store whose references the adapter can serve is that chunk or an
\* error, an error only if something was lost or is missing, and fill values only
\* from a remote virtual store that is read as a plain one.
THEOREM ChunkIsTheOneAskedHolds == Spec => []ChunkIsTheOneAsked
  <1>1. Init => VirtualOK /\ ChunkIsTheOneAsked
    BY DEF Init, VirtualOK, RepositoryOK, AdapterOK, HandleOK, ProbedOK, Discovering, ChunkIsTheOneAsked
  <1>2. IInv /\ IInv' /\ VirtualOK /\ ChunkIsTheOneAsked /\ [Next]_vars => VirtualOK' /\ ChunkIsTheOneAsked'
    <2> SUFFICES ASSUME IInv, IInv', VirtualOK, ChunkIsTheOneAsked, [Next]_vars
                 PROVE  VirtualOK' /\ ChunkIsTheOneAsked'
      OBVIOUS
    <2>1. RepositoryOK /\ AdapterOK /\ HandleOK /\ ProbedOK
      BY DEF VirtualOK
    <2>2. RepositoryOK' /\ AdapterOK' /\ HandleOK' /\ ProbedOK'
      BY <2>1, RepositoryStep, AdapterStep, HandleStep, ProbedStep
    <2> QED
      BY <2>2, ServedStep DEF VirtualOK
  <1> QED
    BY <1>1, <1>2, IInvHolds, PTL DEF Spec

-----------------------------------------------------------------------------
(* Arrays, each once, selected and sorted. *)

\* No two have one name.
NamedOnce(metas) == \A i, j \in DOMAIN metas : metas[i].name = metas[j].name => i = j

\* Some of the elements of a sequence in which each is once are as many as their
\* places.
LEMMA PlacesOf ==
    ASSUME NEW M, NEW metas \in Seq(M), NamedOnce(metas), NEW T \in SUBSET Ran(metas)
    PROVE  /\ IsFiniteSet(T) /\ Cardinality(T) \in Nat
           /\ Cardinality({i \in DOMAIN metas : metas[i] \in T}) = Cardinality(T)
  <1> DEFINE P == {i \in DOMAIN metas : metas[i] \in T}
             f == [i \in P |-> metas[i]]
  <1>1. f \in Bijection(P, T)
    <2>1. f \in [P -> T]
      OBVIOUS
    <2>2. \A i, j \in P : f[i] = f[j] => i = j
      BY DEF NamedOnce
    <2>3. \A x \in T : \E i \in P : f[i] = x
      BY DEF Ran
    <2> HIDE DEF P, f
    <2> QED
      BY <2>1, <2>2, <2>3 DEF Bijection, Injection, Surjection, IsInjective
  <1>2. IsFiniteSet(P)
    <2>1. IsFiniteSet(DOMAIN metas)
      BY SeqPlaces
    <2> QED
      BY <2>1, FS_Subset
  <1> HIDE DEF P, f
  <1>3. f \in Surjection(P, T)
    BY <1>1 DEF Bijection
  <1>4. IsFiniteSet(T)
    BY <1>2, <1>3, FS_Surjection
  <1>5. Cardinality(T) = Cardinality(P) /\ Cardinality(T) \in Nat
    BY <1>1, <1>2, <1>4, SameSize, FS_CardinalityType
  <1> QED
    BY <1>4, <1>5 DEF P

\* All of them: as many as the sequence is long, and as their names.
LEMMA EachOnce ==
    ASSUME NEW M, NEW metas \in Seq(M), NamedOnce(metas)
    PROVE  /\ Cardinality(Ran(metas)) = Len(metas) /\ IsFiniteSet(Ran(metas))
           /\ Cardinality(Names(metas)) = Len(metas) /\ IsFiniteSet(Names(metas))
           /\ \A a, b \in Ran(metas) : a.name = b.name => a = b
  <1>1. Len(metas) \in Nat /\ DOMAIN metas = 1 .. Len(metas) /\ IsFiniteSet(DOMAIN metas)
    BY SeqPlaces
  <1>2. Cardinality(DOMAIN metas) = Len(metas)
    BY <1>1, FS_Interval
  <1>3. IsFiniteSet(Ran(metas)) /\ Cardinality(Ran(metas)) = Len(metas)
    <2>1. {i \in DOMAIN metas : metas[i] \in Ran(metas)} = DOMAIN metas
      BY DEF Ran
    <2> QED
      BY <1>2, <2>1, PlacesOf
  <1> DEFINE f == [i \in DOMAIN metas |-> metas[i].name]
  <1>4. f \in Bijection(DOMAIN metas, Names(metas))
    <2>1. f \in [DOMAIN metas -> Names(metas)]
      BY DEF Names
    <2>2. \A i, j \in DOMAIN metas : f[i] = f[j] => i = j
      BY DEF NamedOnce
    <2>3. \A x \in Names(metas) : \E i \in DOMAIN metas : f[i] = x
      BY DEF Names
    <2> HIDE DEF f
    <2> QED
      BY <2>1, <2>2, <2>3 DEF Bijection, Injection, Surjection, IsInjective
  <1>5. Cardinality(Names(metas)) = Len(metas)
    BY <1>1, <1>2, <1>4, SameSize
  <1>6. IsFiniteSet(Names(metas))
    BY <1>1, <1>4, FS_Surjection DEF Bijection
  <1>7. \A a, b \in Ran(metas) : a.name = b.name => a = b
    BY DEF Ran, NamedOnce
  <1> QED
    BY <1>3, <1>5, <1>6, <1>7

\* What is at some places, each of them once.
Picks(out, seq, places) ==
    \E at \in [1 .. Cardinality(places) -> places] :
        /\ out = [k \in 1 .. Cardinality(places) |-> seq[at[k]]]
        /\ \A j, k \in 1 .. Cardinality(places) : at[j] = at[k] => j = k

\* What is selected, each once.
LEMMA SelectAtOnce ==
    ASSUME NEW M, NEW metas \in Seq(M), NEW places \in SUBSET DOMAIN metas
    PROVE  /\ SelectAt(metas, places) \in Seq(M)
           /\ Ran(SelectAt(metas, places)) = {metas[i] : i \in places}
           /\ Len(SelectAt(metas, places)) = Cardinality(places)
           /\ Picks(SelectAt(metas, places), metas, places)
  <1>1. places \subseteq Nat /\ IsFiniteSet(places)
    BY SeqPlaces, FS_Subset
  <1> DEFINE at == Sorted(places)
             n == Cardinality(places)
  <1>2. /\ n \in Nat /\ at \in [1 .. n -> places]
        /\ \A x \in places : \E k \in 1 .. n : at[k] = x
        /\ \A j, k \in 1 .. n : j < k => at[j] < at[k]
    BY <1>1, SortedFacts
  <1>3. SelectAt(metas, places) = [k \in 1 .. n |-> metas[at[k]]]
    BY <1>2 DEF SelectAt
  <1> HIDE DEF at
  <1>4. \A k \in 1 .. n : at[k] \in DOMAIN metas /\ metas[at[k]] \in M
    BY <1>2, SeqPlaces
  <1>5. SelectAt(metas, places) \in [1 .. n -> M]
    BY <1>3, <1>4
  <1>6. SelectAt(metas, places) \in Seq(M) /\ DOMAIN SelectAt(metas, places) = 1 .. n /\ Len(SelectAt(metas, places)) = n
    BY <1>2, <1>5, FunIsSeq
  <1>7. Ran(SelectAt(metas, places)) = {metas[i] : i \in places}
    <2> DEFINE out == SelectAt(metas, places)
    <2>1. DOMAIN out = 1 .. n /\ \A k \in 1 .. n : out[k] = metas[at[k]]
      BY <1>3, <1>6
    <2> HIDE DEF out
    <2>2. Ran(out) \subseteq {metas[i] : i \in places}
      BY <1>2, <2>1 DEF Ran
    <2>3. ASSUME NEW i \in places PROVE metas[i] \in Ran(out)
      BY <1>2, <2>1 DEF Ran
    <2> QED
      BY <2>2, <2>3 DEF out
  <1>8. \A j, k \in 1 .. n : at[j] = at[k] => j = k
    <2>1. \A j \in 1 .. n : at[j] \in Nat
      BY <1>1, <1>2
    <2> QED
      BY <1>2, <2>1
  <1>9. Picks(SelectAt(metas, places), metas, places)
    BY <1>2, <1>3, <1>8 DEF Picks
  <1> QED
    BY <1>6, <1>7, <1>9

\* Names stay distinct in a selection.
LEMMA SelectNamed ==
    ASSUME NEW M, NEW metas \in Seq(M), NamedOnce(metas), NEW places \in SUBSET DOMAIN metas
    PROVE  NamedOnce(SelectAt(metas, places))
  <1>0. Picks(SelectAt(metas, places), metas, places)
    BY SelectAtOnce
  <1>1. PICK at \in [1 .. Cardinality(places) -> places] :
           /\ SelectAt(metas, places) = [k \in 1 .. Cardinality(places) |-> metas[at[k]]]
           /\ \A j, k \in 1 .. Cardinality(places) : at[j] = at[k] => j = k
    BY <1>0 DEF Picks
  <1> QED
    BY <1>1 DEF NamedOnce

\* In the order of their names.
ByName(metas) == \A i, j \in DOMAIN metas : i < j => metas[i].name < metas[j].name

\* Sorting by name keeps what there is, in an order that depends on nothing else.
LEMMA AlphabeticalOnce ==
    ASSUME NEW M, NEW metas \in Seq(M), \A m \in M : m.name \in Nat, NamedOnce(metas)
    PROVE  LET out == Alphabetical(metas)
           IN /\ out \in Seq(M) /\ Ran(out) = Ran(metas) /\ NamedOnce(out) /\ Len(out) = Len(metas)
              /\ ByName(out)
  <1> DEFINE N == {metas[i].name : i \in DOMAIN metas}
             n == Cardinality(N)
             at(k) == CHOOSE i \in DOMAIN metas : metas[i].name = Sorted(N)[k]
             out == Alphabetical(metas)
  <1>1. N \subseteq Nat /\ N = Names(metas)
    BY SeqPlaces DEF Names
  <1>2. IsFiniteSet(N) /\ n = Len(metas)
    BY <1>1, EachOnce
  <1>3. /\ n \in Nat /\ Sorted(N) \in [1 .. n -> N]
        /\ \A x \in N : \E k \in 1 .. n : Sorted(N)[k] = x
        /\ \A j, k \in 1 .. n : j < k => Sorted(N)[j] < Sorted(N)[k]
    <2> HIDE DEF N
    <2> QED
      BY <1>1, <1>2, SortedFacts
  <1>4. ASSUME NEW k \in 1 .. n PROVE at(k) \in DOMAIN metas /\ metas[at(k)].name = Sorted(N)[k]
    <2>1. Sorted(N)[k] \in N
      <3> HIDE DEF N
      <3> QED
        BY <1>3
    <2>2. \E i \in DOMAIN metas : metas[i].name = Sorted(N)[k]
      BY <2>1
    <2> QED
      BY <2>2
  <1>5. out = [k \in 1 .. n |-> metas[at(k)]]
    <2>1. DOMAIN Sorted(N) = 1 .. n
      <3> HIDE DEF N
      <3> QED
        BY <1>3
    <2> QED
      BY <2>1 DEF Alphabetical
  <1> HIDE DEF at, n, out
  <1>6. \A k \in 1 .. n : metas[at(k)] \in M
    BY <1>4, SeqPlaces
  <1>7. out \in [1 .. n -> M]
    BY <1>5, <1>6
  <1>8. out \in Seq(M) /\ DOMAIN out = 1 .. n /\ Len(out) = n
    BY <1>3, <1>7, FunIsSeq
  <1>9. \A k \in 1 .. n : out[k] \in Ran(metas) /\ out[k].name = Sorted(N)[k]
    BY <1>4, <1>5 DEF Ran
  <1>10. ASSUME NEW x \in Ran(metas) PROVE \E k \in 1 .. n : out[k] = x
    <2>1. PICK i \in DOMAIN metas : metas[i] = x
      BY DEF Ran
    <2>2. metas[i].name \in N
      OBVIOUS
    <2>3. PICK k \in 1 .. n : Sorted(N)[k] = metas[i].name
      <3> HIDE DEF N
      <3> QED
        BY <1>3, <2>2
    <2>4. at(k) = i
      BY <1>4, <2>3 DEF NamedOnce
    <2> QED
      BY <1>5, <2>1, <2>4
  <1>11. Ran(out) = Ran(metas)
    BY <1>8, <1>9, <1>10 DEF Ran
  <1>12. \A i, j \in DOMAIN out : i < j => out[i].name < out[j].name
    <2> HIDE DEF N
    <2> QED
      BY <1>3, <1>8, <1>9
  <1>13. NamedOnce(out)
    <2>1. \A k \in 1 .. n : out[k].name \in Nat
      BY <1>7
    <2>2. ASSUME NEW i \in DOMAIN out, NEW j \in DOMAIN out, out[i].name = out[j].name PROVE i = j
      <3>1. ~(i < j) /\ ~(j < i)
        BY <1>8, <1>12, <2>1, <2>2
      <3> QED
        BY <1>3, <1>8, <3>1
    <2> QED
      BY <2>2 DEF NamedOnce
  <1> QED
    BY <1>2, <1>8, <1>11, <1>12, <1>13 DEF out, ByName

-----------------------------------------------------------------------------
(* Dimensions matched with coordinates. *)

\* Coordinates: arrays of one dimension.
AreCoords(coords, n) ==
    DOMAIN coords = 1 .. n /\ \A j \in 1 .. n : coords[j].shape \in Seq(Nat) /\ coords[j].shape[1] \in Nat

\* The places of a length among the dimensions of a shape, and among the coordinates.
DimsOf(shape, x) == {d \in DOMAIN shape : shape[d] = x}
CoordsOf(coords, x) == {j \in DOMAIN coords : coords[j].shape[1] = x}

\* Numbers up to n.
LEMMA PartOfRange ==
    ASSUME NEW n \in Nat, NEW S \in SUBSET (1 .. n)
    PROVE  S \subseteq Nat /\ IsFiniteSet(S) /\ Cardinality(S) \in Nat
  <1>1. IsFiniteSet(1 .. n)
    BY FS_Interval
  <1>2. IsFiniteSet(S)
    BY <1>1, FS_Subset
  <1> QED
    BY <1>2, FS_CardinalityType

\* The members up to a place are those below the next.
LEMMA UpTo ==
    ASSUME NEW n \in Nat, NEW S \in SUBSET (1 .. n), NEW i \in S
    PROVE  /\ {l \in S : l <= i} = Below(S, i + 1)
           /\ Cardinality(Below(S, i)) \in Nat
           /\ Cardinality(Below(S, i + 1)) = Cardinality(Below(S, i)) + 1
           /\ Cardinality(Below(S, i + 1)) <= Cardinality(S)
           /\ IsFiniteSet(S) /\ Cardinality(S) \in Nat
  <1>0. S \subseteq Nat /\ IsFiniteSet(S)
    BY PartOfRange
  <1>1. S \subseteq Nat /\ IsFiniteSet(S) /\ i \in Nat /\ i + 1 \in Nat
    BY <1>0
  <1>2. {l \in S : l <= i} = Below(S, i + 1)
    <2>1. \A l \in S : l <= i <=> l < i + 1
      BY <1>1
    <2> QED
      BY <2>1 DEF Below
  <1>3. Cardinality(S) \in Nat
    BY <1>1, FS_CardinalityType
  <1> QED
    BY <1>1, <1>2, <1>3, BelowFacts

\* What a dimension is matched with: nothing, or the coordinate of its length
\* that comes as late among those as the dimension among those of its length.
LEMMA MatchIs ==
    ASSUME NEW n \in Nat, NEW coords, AreCoords(coords, n), NEW shape \in [1 .. n -> Nat], NEW i \in 1 .. n
    PROVE  LET t == MatchShape(coords, shape)[i]
               x == shape[i]
               rank == Cardinality(Below(DimsOf(shape, x), i))
           IN /\ rank \in Nat /\ rank < Cardinality(DimsOf(shape, x))
              /\ t # 0 => t \in CoordsOf(coords, x) /\ Cardinality(Below(CoordsOf(coords, x), t)) = rank
              /\ rank < Cardinality(CoordsOf(coords, x)) => t # 0
  <1> DEFINE t == MatchShape(coords, shape)[i]
             x == shape[i]
             D == DimsOf(shape, x)
             fits == CoordsOf(coords, x)
             k == Cardinality({d \in 1 .. i : shape[d] = shape[i]})
             kth == {j \in fits : Cardinality({l \in fits : l <= j}) = k}
  <1>1. t = IF kth = {} THEN 0 ELSE Min(kth)
    BY DEF MatchShape, CoordsOf
  <1>2. D \in SUBSET (1 .. n) /\ i \in D /\ fits \in SUBSET (1 .. n) /\ i \in Nat
    BY DEF DimsOf, CoordsOf, AreCoords
  <1>3. {d \in 1 .. i : shape[d] = shape[i]} = {d \in D : d <= i}
    BY DEF DimsOf
  <1> HIDE DEF D, fits, t, kth
  <1>4. /\ k = Cardinality(Below(D, i)) + 1 /\ Cardinality(Below(D, i)) \in Nat
        /\ k <= Cardinality(D) /\ Cardinality(D) \in Nat
    <2>1. k = Cardinality({d \in D : d <= i})
      BY <1>3
    <2> HIDE DEF k
    <2>2. /\ {d \in D : d <= i} = Below(D, i + 1) /\ Cardinality(Below(D, i)) \in Nat
          /\ Cardinality(Below(D, i + 1)) = Cardinality(Below(D, i)) + 1
          /\ Cardinality(Below(D, i + 1)) <= Cardinality(D) /\ Cardinality(D) \in Nat
      BY <1>2, UpTo
    <2> QED
      BY <2>1, <2>2
  <1> HIDE DEF k
  <1>5. \A j \in fits : /\ {l \in fits : l <= j} = Below(fits, j + 1) /\ Cardinality(Below(fits, j)) \in Nat
                        /\ Cardinality(Below(fits, j + 1)) = Cardinality(Below(fits, j)) + 1
    BY <1>2, UpTo
  <1>6. kth = {j \in fits : Cardinality(Below(fits, j)) = Cardinality(Below(D, i))}
    <2>1. ASSUME NEW j \in fits
          PROVE  Cardinality({l \in fits : l <= j}) = k <=> Cardinality(Below(fits, j)) = Cardinality(Below(D, i))
      <3>1. /\ Cardinality({l \in fits : l <= j}) = Cardinality(Below(fits, j + 1)) /\ Cardinality(Below(fits, j)) \in Nat
            /\ Cardinality(Below(fits, j + 1)) = Cardinality(Below(fits, j)) + 1
        BY <1>5
      <3> QED
        BY <1>4, <3>1
    <2> QED
      BY <2>1 DEF kth
  <1>7. kth # {} => t \in kth /\ t # 0
    <2> SUFFICES ASSUME kth # {} PROVE t \in kth /\ t # 0
      OBVIOUS
    <2>1. kth \subseteq Nat /\ kth \subseteq 1 .. n
      <3>1. kth \subseteq fits
        BY DEF kth
      <3> QED
        BY <1>2, <3>1
    <2>2. \E m \in kth : \A j \in kth : m <= j
      BY <2>1, LeastNat
    <2>3. Min(kth) \in kth
      BY <2>2 DEF Min
    <2>4. t = Min(kth)
      BY <1>1
    <2> QED
      BY <2>1, <2>3, <2>4
  <1>8. Cardinality(Below(D, i)) < Cardinality(fits) => kth # {}
    <2> SUFFICES ASSUME Cardinality(Below(D, i)) < Cardinality(fits) PROVE kth # {}
      OBVIOUS
    <2>1. fits \subseteq Nat /\ IsFiniteSet(fits)
      BY <1>2, PartOfRange
    <2>2. Cardinality(fits) \in Nat
      BY <2>1, FS_CardinalityType
    <2>3. k \in 1 .. Cardinality(fits)
      BY <1>4, <2>2
    <2>4. \E y \in fits : Cardinality(Below(fits, y)) = k - 1
      BY <2>1, <2>3, KthMember
    <2> QED
      BY <1>4, <1>6, <2>4
  <1>9. t # 0 => kth # {}
    BY <1>1
  <1> QED
    BY <1>4, <1>6, <1>7, <1>8, <1>9 DEF t, D, fits

\* Each coordinate is matched with one dimension, of its length.
Matches(taken, coords, shape, n) ==
    /\ taken \in [1 .. n -> 1 .. n]
    /\ \A i \in 1 .. n : coords[taken[i]].shape[1] = shape[i]
    /\ \A i, j \in 1 .. n : taken[i] = taken[j] => i = j
    /\ \A j \in 1 .. n : \E i \in 1 .. n : taken[i] = j

\* A matching that leaves no dimension out takes each coordinate once.
LEMMA MatchTakes ==
    ASSUME NEW n \in Nat, NEW coords, AreCoords(coords, n), NEW shape \in [1 .. n -> Nat],
           0 \notin ToSet(MatchShape(coords, shape))
    PROVE  Matches(MatchShape(coords, shape), coords, shape, n)
  <1> DEFINE taken == MatchShape(coords, shape)
  <1>1. taken = [i \in 1 .. n |-> taken[i]]
    BY DEF MatchShape
  <1>2. \A i \in 1 .. n : taken[i] # 0
    BY <1>1 DEF ToSet
  <1> HIDE DEF taken
  <1>3. \A i \in 1 .. n : /\ taken[i] \in CoordsOf(coords, shape[i])
                          /\ Cardinality(Below(CoordsOf(coords, shape[i]), taken[i]))
                               = Cardinality(Below(DimsOf(shape, shape[i]), i))
    BY <1>2, MatchIs DEF taken
  <1>4. \A i \in 1 .. n : taken[i] \in 1 .. n /\ coords[taken[i]].shape[1] = shape[i]
    BY <1>3 DEF CoordsOf, AreCoords
  <1>5. taken \in [1 .. n -> 1 .. n]
    BY <1>1, <1>4
  <1>6. ASSUME NEW i \in 1 .. n, NEW j \in 1 .. n, i < j, taken[i] = taken[j] PROVE FALSE
    <2> DEFINE D == DimsOf(shape, shape[i])
    <2>1. shape[i] = shape[j]
      BY <1>4, <1>6
    <2>2. Cardinality(Below(D, i)) = Cardinality(Below(D, j))
      BY <1>3, <1>6, <2>1
    <2>3. D \subseteq Nat /\ IsFiniteSet(D) /\ i \in D /\ j \in Nat
      <3>1. D \in SUBSET (1 .. n) /\ i \in D
        BY DEF DimsOf
      <3> QED
        BY <3>1, PartOfRange
    <2>4. Cardinality(Below(D, i)) < Cardinality(Below(D, j)) /\ Cardinality(Below(D, i)) \in Nat
      <3> HIDE DEF D
      <3> QED
        BY <1>6, <2>3, BelowMonotone, BelowFacts
    <2> QED
      BY <2>2, <2>4
  <1>7. \A i, j \in 1 .. n : taken[i] = taken[j] => i = j
    <2> SUFFICES ASSUME NEW i \in 1 .. n, NEW j \in 1 .. n, taken[i] = taken[j] PROVE i = j
      OBVIOUS
    <2>1. ~(i < j) /\ ~(j < i)
      BY <1>6
    <2> QED
      BY <2>1
  <1>8. taken \in Surjection(1 .. n, 1 .. n)
    <2>1. taken \in Injection(1 .. n, 1 .. n)
      BY <1>5, <1>7 DEF Injection, IsInjective
    <2> QED
      BY <2>1, FS_Interval, FS_Injection
  <1>9. \A j \in 1 .. n : \E i \in 1 .. n : taken[i] = j
    BY <1>8 DEF Surjection
  <1> QED
    BY <1>4, <1>5, <1>7, <1>9 DEF taken, Matches

\* If there is a coordinate for each dimension, none is left out.
LEMMA MatchFinds ==
    ASSUME NEW n \in Nat, NEW coords, AreCoords(coords, n), NEW shape \in [1 .. n -> Nat],
           \A i \in 1 .. n : Cardinality(CoordsOf(coords, shape[i])) = Cardinality(DimsOf(shape, shape[i]))
    PROVE  0 \notin ToSet(MatchShape(coords, shape))
  <1> DEFINE taken == MatchShape(coords, shape)
  <1>1. DOMAIN taken = 1 .. n
    BY DEF MatchShape
  <1>2. \A i \in 1 .. n : taken[i] # 0
    BY MatchIs
  <1> QED
    BY <1>1, <1>2 DEF ToSet

-----------------------------------------------------------------------------
(* Axes in order. *)

\* The lengths of coordinates, and what it is for a variable to have them.
Sizes(coords) == [i \in DOMAIN coords |-> coords[i].shape[1]]
HasLengths(v, sizes) ==
    /\ Len(v.shape) = Len(sizes)
    /\ \A k \in ToSet(v.shape) \cup ToSet(sizes) : Cardinality(DimsOf(v.shape, k)) = Cardinality(DimsOf(sizes, k))

\* AxesInOrder, with the first variable as the least place of one.
LEMMA AxesAre ==
    ASSUME NEW meta, DOMAIN meta.data_vars \subseteq Nat, Len(meta.data_vars) \in Nat,
           Cardinality(Names(meta.coords)) = Len(meta.coords),
           LET I == {i \in 1 .. Len(meta.data_vars) : HasLengths(meta.data_vars[i], Sizes(meta.coords))}
           IN I # {} => Sizes(meta.coords) = meta.data_vars[Min(I)].shape
    PROVE  AxesInOrder(meta)
  <1> DEFINE sizes == [i \in DOMAIN meta.coords |-> meta.coords[i].shape[1]]
             Count(seq, k) == Cardinality({i \in DOMAIN seq : seq[i] = k})
             Spans(v) == /\ Len(v.shape) = Len(sizes)
                         /\ \A k \in ToSet(v.shape) \cup ToSet(sizes) : Count(v.shape, k) = Count(sizes, k)
             first == SelectInSeq(meta.data_vars, Spans)
             I == {i \in 1 .. Len(meta.data_vars) : HasLengths(meta.data_vars[i], Sizes(meta.coords))}
  <1>1. sizes = Sizes(meta.coords)
    BY DEF Sizes
  <1>2. \A v : Spans(v) <=> HasLengths(v, Sizes(meta.coords))
    <2>1. \A seq, k : Count(seq, k) = Cardinality(DimsOf(seq, k))
      BY DEF DimsOf
    <2> HIDE DEF Count, sizes
    <2> QED
      BY <1>1, <2>1 DEF HasLengths
  <1>3. first = LET J == {i \in 1 .. Len(meta.data_vars) : Spans(meta.data_vars[i])} IN IF J # {} THEN Min(J) ELSE 0
    BY DEF SelectInSeq
  <1> HIDE DEF Spans
  <1>4. {i \in 1 .. Len(meta.data_vars) : Spans(meta.data_vars[i])} = I
    BY <1>2
  <1>5. first = IF I # {} THEN Min(I) ELSE 0
    BY <1>3, <1>4
  <1>6. first # 0 => sizes = meta.data_vars[first].shape
    BY <1>1, <1>5
  <1> QED
    BY <1>6 DEF AxesInOrder, Spans

\* Arrays have names, and lengths.
AreArrays(M) == \A m \in M : m.name \in Nat /\ m.shape \in Seq(Nat)

\* Where the coordinates of a length are.
LEMMA WhereLong ==
    ASSUME NEW coords, NEW k
    PROVE  DimsOf(Sizes(coords), k) = CoordsOf(coords, k) /\ DOMAIN Sizes(coords) = DOMAIN coords
  <1>1. DOMAIN Sizes(coords) = DOMAIN coords /\ \A i \in DOMAIN coords : Sizes(coords)[i] = coords[i].shape[1]
    BY DEF Sizes
  <1> QED
    BY <1>1 DEF DimsOf, CoordsOf

\* The same coordinates in another order have the same lengths as often.
LEMMA SameCounts ==
    ASSUME NEW M, NEW a \in Seq(M), NEW b \in Seq(M), NamedOnce(a), NamedOnce(b), Ran(a) = Ran(b)
    PROVE  Len(a) = Len(b) /\ \A k : Cardinality(CoordsOf(a, k)) = Cardinality(CoordsOf(b, k))
  <1>1. Len(a) = Len(b)
    BY EachOnce
  <1>2. ASSUME NEW k PROVE Cardinality(CoordsOf(a, k)) = Cardinality(CoordsOf(b, k))
    <2> DEFINE T == {c \in Ran(a) : c.shape[1] = k}
    <2>1. CoordsOf(a, k) = {i \in DOMAIN a : a[i] \in T}
      BY DEF CoordsOf, Ran
    <2>2. CoordsOf(b, k) = {i \in DOMAIN b : b[i] \in T}
      BY DEF CoordsOf, Ran
    <2>3. T \in SUBSET Ran(a) /\ T \in SUBSET Ran(b)
      OBVIOUS
    <2> HIDE DEF T
    <2>4. Cardinality({i \in DOMAIN a : a[i] \in T}) = Cardinality(T)
      BY <2>3, PlacesOf
    <2>5. Cardinality({i \in DOMAIN b : b[i] \in T}) = Cardinality(T)
      BY <2>3, PlacesOf
    <2> QED
      BY <2>1, <2>2, <2>4, <2>5
  <1> QED
    BY <1>1, <1>2

\* The least place in a set of places.
LEMMA LeastPlace ==
    ASSUME NEW I, I \subseteq Nat, I # {}
    PROVE  Min(I) \in I /\ (\A i \in I : Min(I) <= i) /\ \A m \in I : (\A i \in I : m <= i) => m = Min(I)
  <1>1. \E m \in I : \A i \in I : m <= i
    BY LeastNat
  <1>2. Min(I) \in I /\ \A i \in I : Min(I) <= i
    BY <1>1 DEF Min
  <1>3. ASSUME NEW m \in I, \A i \in I : m <= i PROVE m = Min(I)
    <2>1. m <= Min(I) /\ Min(I) <= m /\ m \in Nat /\ Min(I) \in Nat
      BY <1>2, <1>3
    <2> QED
      BY <2>1
  <1> QED
    BY <1>2, <1>3

\* A variable that has the lengths of the coordinates can be matched with them.
LEMMA LengthsFit ==
    ASSUME NEW M, NEW coords \in Seq(M), NEW out \in Seq(M), AreArrays(M), NamedOnce(coords), NamedOnce(out),
           Ran(coords) = Ran(out), \A j \in DOMAIN coords : Len(coords[j].shape) = 1,
           NEW v \in M, HasLengths(v, Sizes(out))
    PROVE  Len(v.shape) = Len(coords) /\ 0 \notin ToSet(MatchShape(coords, v.shape))
  <1> DEFINE n == Len(coords)
  <1>1. n \in Nat /\ DOMAIN coords = 1 .. n /\ Len(out) = n /\ DOMAIN out = 1 .. n
    BY SameCounts, SeqPlaces
  <1>2. Len(Sizes(out)) = n
    <2>1. Sizes(out) \in [1 .. n -> {out[i].shape[1] : i \in 1 .. n}]
      BY <1>1 DEF Sizes
    <2> HIDE DEF n
    <2> QED
      BY <1>1, <2>1, FunIsSeq
  <1>3. Len(v.shape) = n /\ v.shape \in [1 .. n -> Nat]
    <2>1. v.shape \in Seq(Nat) /\ Len(v.shape) = n
      BY <1>2 DEF HasLengths, AreArrays
    <2> QED
      BY <2>1
  <1>4. AreCoords(coords, n)
    <2>1. ASSUME NEW j \in 1 .. n PROVE coords[j].shape \in Seq(Nat) /\ coords[j].shape[1] \in Nat
      <3>1. coords[j] \in M /\ Len(coords[j].shape) = 1
        BY <1>1, SeqPlaces
      <3>2. coords[j].shape \in Seq(Nat)
        BY <3>1 DEF AreArrays
      <3> QED
        BY <3>1, <3>2
    <2> QED
      BY <1>1, <2>1 DEF AreCoords
  <1>5. ASSUME NEW i \in 1 .. n
        PROVE  Cardinality(CoordsOf(coords, v.shape[i])) = Cardinality(DimsOf(v.shape, v.shape[i]))
    <2>1. v.shape[i] \in ToSet(v.shape)
      BY <1>3 DEF ToSet
    <2>2. Cardinality(DimsOf(v.shape, v.shape[i])) = Cardinality(DimsOf(Sizes(out), v.shape[i]))
      BY <2>1 DEF HasLengths
    <2>3. Cardinality(DimsOf(Sizes(out), v.shape[i])) = Cardinality(CoordsOf(coords, v.shape[i]))
      BY WhereLong, SameCounts
    <2> QED
      BY <2>2, <2>3
  <1> HIDE DEF n
  <1>6. 0 \notin ToSet(MatchShape(coords, v.shape))
    BY <1>1, <1>3, <1>4, <1>5, MatchFinds
  <1> QED
    BY <1>3, <1>6 DEF n

-----------------------------------------------------------------------------
(* Cubes. *)

\* The lengths of coordinates are those of the first variable that has them; if
\* there is none they are in the order of their names.
LikeFirst(coords, dvars) ==
    LET I == {i \in 1 .. Len(dvars) : HasLengths(dvars[i], Sizes(coords))}
    IN IF I # {} THEN Sizes(coords) = dvars[Min(I)].shape ELSE ByName(coords)

\* infer_coord_order_from_data_vars puts the coordinates in the order of the axes
\* of the first variable that has their lengths.
LEMMA CoordOrderIs ==
    ASSUME NEW M, AreArrays(M), NEW coords \in Seq(M), NEW dvars \in Seq(M), NamedOnce(coords),
           \A j \in DOMAIN coords : Len(coords[j].shape) = 1
    PROVE  LET out == InferCoordOrder(coords, dvars)
           IN /\ out \in Seq(M) /\ Ran(out) = Ran(coords) /\ NamedOnce(out) /\ Len(out) = Len(coords)
              /\ LikeFirst(out, dvars)
  <1> DEFINE Fits(v) == Len(v.shape) = Len(coords) /\ 0 \notin ToSet(MatchShape(coords, v.shape))
             first == SelectInSeq(dvars, Fits)
             taken == MatchShape(coords, dvars[first].shape)
             out == InferCoordOrder(coords, dvars)
             J == {i \in 1 .. Len(dvars) : Fits(dvars[i])}
             n == Len(coords)
  <1>1. first = IF J # {} THEN Min(J) ELSE 0
    BY DEF SelectInSeq
  <1>2. Len(dvars) \in Nat /\ DOMAIN dvars = 1 .. Len(dvars) /\ \A i \in 1 .. Len(dvars) : dvars[i] \in M
    BY SeqPlaces
  <1>3. n \in Nat /\ DOMAIN coords = 1 .. n
    BY SeqPlaces
  <1>4. J \subseteq 1 .. Len(dvars) /\ J \subseteq Nat
    OBVIOUS
  <1>5. /\ coords = <<>> \/ first = 0 => out = Alphabetical(coords)
        /\ ~(coords = <<>> \/ first = 0) => out = [i \in DOMAIN taken |-> coords[taken[i]]]
    BY DEF InferCoordOrder
  <1>6. ASSUME NEW o \in Seq(M), Ran(o) = Ran(coords), NamedOnce(o),
               NEW i \in 1 .. Len(dvars), HasLengths(dvars[i], Sizes(o))
        PROVE  i \in J
    <2> HIDE DEF out, first, taken
    <2> QED
      BY <1>2, <1>6, LengthsFit
  <1> HIDE DEF J, Fits, first, out
  <1>7. first # 0 => J # {} /\ first = Min(J) /\ first \in J /\ \A i \in J : first <= i
    BY <1>1, <1>4, LeastPlace
  <1>8. CASE coords = <<>> \/ first = 0
    <2>1. out \in Seq(M) /\ Ran(out) = Ran(coords) /\ NamedOnce(out) /\ Len(out) = Len(coords) /\ ByName(out)
      BY <1>5, <1>8, AlphabeticalOnce DEF AreArrays
    <2>2. LikeFirst(out, dvars)
      <3> DEFINE I == {i \in 1 .. Len(dvars) : HasLengths(dvars[i], Sizes(out))}
      <3>1. I \subseteq J
        BY <1>6, <2>1
      <3> SUFFICES ASSUME I # {} PROVE Sizes(out) = dvars[Min(I)].shape
        BY <2>1 DEF LikeFirst
      <3>2. J # {}
        BY <3>1
      <3>3. first # 0
        <4>1. Min(J) \in J
          BY <1>4, <3>2, LeastPlace
        <4> QED
          BY <1>1, <1>4, <3>2, <4>1
      <3>4. coords = <<>> /\ n = 0
        BY <1>8, <3>3
      <3>5. out = <<>> /\ Sizes(out) = <<>> /\ Len(Sizes(out)) = 0
        <4>1. DOMAIN out = 1 .. 0 /\ out \in Seq(M)
          BY <2>1, <3>4
        <4> QED
          BY <4>1 DEF Sizes
      <3>6. Min(I) \in I
        <4>1. I \subseteq Nat
          OBVIOUS
        <4> HIDE DEF I
        <4> QED
          BY <4>1, LeastPlace
      <3>7. dvars[Min(I)] \in M /\ Len(dvars[Min(I)].shape) = 0
        BY <1>2, <3>5, <3>6 DEF HasLengths
      <3>8. dvars[Min(I)].shape \in Seq(Nat)
        BY <3>7 DEF AreArrays
      <3> HIDE DEF I
      <3> QED
        BY <3>5, <3>7, <3>8
    <2> QED
      BY <2>1, <2>2 DEF out
  <1>9. CASE ~(coords = <<>> \/ first = 0)
    <2>1. first \in J /\ Fits(dvars[first]) /\ dvars[first] \in M
      BY <1>2, <1>7, <1>9 DEF J
    <2>2. dvars[first].shape \in [1 .. n -> Nat] /\ 0 \notin ToSet(taken) /\ Len(dvars[first].shape) = n
      <3>1. dvars[first].shape \in Seq(Nat) /\ Len(dvars[first].shape) = n
        BY <2>1 DEF Fits, AreArrays
      <3> QED
        BY <2>1, <3>1 DEF Fits
    <2>3. AreCoords(coords, n)
      <3>1. ASSUME NEW j \in 1 .. n PROVE coords[j].shape \in Seq(Nat) /\ coords[j].shape[1] \in Nat
        <4>1. coords[j] \in M /\ Len(coords[j].shape) = 1
          BY <1>3, SeqPlaces
        <4>2. coords[j].shape \in Seq(Nat)
          BY <4>1 DEF AreArrays
        <4> QED
          BY <4>1, <4>2
      <3> QED
        BY <1>3, <3>1 DEF AreCoords
    <2>4. /\ taken \in [1 .. n -> 1 .. n]
          /\ \A i \in 1 .. n : coords[taken[i]].shape[1] = dvars[first].shape[i]
          /\ \A i, j \in 1 .. n : taken[i] = taken[j] => i = j
          /\ \A j \in 1 .. n : \E i \in 1 .. n : taken[i] = j
      <3> DEFINE shape == dvars[first].shape
      <3> HIDE DEF shape, n
      <3>1. shape \in [1 .. n -> Nat] /\ 0 \notin ToSet(MatchShape(coords, shape))
        BY <2>2 DEF shape
      <3>2. Matches(MatchShape(coords, shape), coords, shape, n)
        BY <1>3, <2>3, <3>1, MatchTakes
      <3> QED
        BY <3>2 DEF shape, Matches
    <2> HIDE DEF taken
    <2>5. out = [i \in 1 .. n |-> coords[taken[i]]]
      BY <1>5, <1>9, <2>4
    <2>6. \A i \in 1 .. n : coords[taken[i]] \in M
      BY <1>3, <2>4, SeqPlaces
    <2>7. out \in [1 .. n -> M]
      BY <2>5, <2>6
    <2> HIDE DEF n
    <2>8. out \in Seq(M) /\ Len(out) = n /\ DOMAIN out = 1 .. n
      BY <1>3, <2>7, FunIsSeq
    <2>9. Ran(out) = Ran(coords)
      <3>1. DOMAIN coords = 1 .. n /\ DOMAIN out = 1 .. n /\ \A i \in 1 .. n : out[i] = coords[taken[i]]
        BY <1>3, <2>5, <2>8
      <3>2. \A i \in DOMAIN out : out[i] \in Ran(coords)
        BY <2>4, <3>1 DEF Ran
      <3>3. \A j \in DOMAIN coords : coords[j] \in Ran(out)
        <4> TAKE j \in DOMAIN coords
        <4>1. PICK i \in 1 .. n : taken[i] = j
          BY <2>4, <3>1
        <4>2. out[i] = coords[j]
          BY <3>1, <4>1
        <4> QED
          BY <3>1, <4>2 DEF Ran
      <3> QED
        BY <3>2, <3>3 DEF Ran
    <2>10. NamedOnce(out)
      BY <1>3, <2>4, <2>5 DEF NamedOnce
    <2>11. Sizes(out) = dvars[first].shape
      <3>1. Sizes(out) = [i \in 1 .. n |-> coords[taken[i]].shape[1]]
        BY <2>5 DEF Sizes
      <3>2. Sizes(out) = [i \in 1 .. n |-> dvars[first].shape[i]]
        BY <2>4, <3>1
      <3> QED
        BY <2>2, <3>2
    <2>12. LikeFirst(out, dvars)
      <3> DEFINE I == {i \in 1 .. Len(dvars) : HasLengths(dvars[i], Sizes(out))}
      <3>1. I \subseteq J
        BY <1>6, <2>8, <2>9, <2>10
      <3>2. first \in I
        BY <1>4, <2>1, <2>11 DEF HasLengths
      <3>3. \A i \in I : first <= i
        BY <1>7, <1>9, <3>1
      <3>4. I \subseteq Nat
        BY <1>4, <3>1
      <3>5. first = Min(I)
        <4> HIDE DEF I
        <4> QED
          BY <3>2, <3>3, <3>4, LeastPlace
      <3> QED
        BY <2>11, <3>2, <3>5 DEF LikeFirst
    <2> QED
      BY <2>8, <2>9, <2>10, <2>12 DEF out, n
  <1> QED
    BY <1>8, <1>9

\* Coordinates and variables are the arrays of one dimension and the others, each
\* once, and the axes are in order.
CubeOf(meta, metas, M) ==
    /\ meta.coords \in Seq(M) /\ meta.data_vars \in Seq(M)
    /\ Ran(meta.coords) = {m \in Ran(metas) : IsCoordinate(m)}
    /\ Ran(meta.data_vars) = {m \in Ran(metas) : ~IsCoordinate(m)}
    /\ NamedOnce(meta.coords) /\ NamedOnce(meta.data_vars)
    /\ LikeFirst(meta.coords, meta.data_vars)
    /\ ByName(meta.data_vars)

\* separate_and_sort_arrays makes a cube of arrays of different names.
LEMMA SeparateIs ==
    ASSUME NEW M, AreArrays(M), NEW metas \in Seq(M), NamedOnce(metas)
    PROVE  CubeOf(Separate(metas), metas, M)
  <1> DEFINE axes == {i \in DOMAIN metas : IsCoordinate(metas[i])}
             c == SelectAt(metas, axes)
             v == SelectAt(metas, DOMAIN metas \ axes)
  <1>1. axes \in SUBSET DOMAIN metas /\ DOMAIN metas \ axes \in SUBSET DOMAIN metas
    OBVIOUS
  <1>2. /\ Separate(metas).data_vars = Alphabetical(v)
        /\ Separate(metas).coords = InferCoordOrder(c, Alphabetical(v))
    BY DEF Separate
  <1>3. {metas[i] : i \in axes} = {m \in Ran(metas) : IsCoordinate(m)}
    BY DEF Ran
  <1>4. {metas[i] : i \in DOMAIN metas \ axes} = {m \in Ran(metas) : ~IsCoordinate(m)}
    BY DEF Ran
  <1> HIDE DEF axes
  <1>5. c \in Seq(M) /\ Ran(c) = {metas[i] : i \in axes} /\ NamedOnce(c)
    BY <1>1, SelectAtOnce, SelectNamed
  <1>6. v \in Seq(M) /\ Ran(v) = {metas[i] : i \in DOMAIN metas \ axes} /\ NamedOnce(v)
    BY <1>1, SelectAtOnce, SelectNamed
  <1> HIDE DEF c, v
  <1>7. LET a == Alphabetical(v)
        IN a \in Seq(M) /\ Ran(a) = Ran(v) /\ NamedOnce(a) /\ ByName(a)
    BY <1>6, AlphabeticalOnce DEF AreArrays
  <1>8. \A j \in DOMAIN c : Len(c[j].shape) = 1
    <2>1. \A j \in DOMAIN c : c[j] \in Ran(c)
      BY DEF Ran
    <2> QED
      BY <1>3, <1>5, <2>1 DEF IsCoordinate
  <1>9. LET out == InferCoordOrder(c, Alphabetical(v))
        IN out \in Seq(M) /\ Ran(out) = Ran(c) /\ NamedOnce(out) /\ LikeFirst(out, Alphabetical(v))
    BY <1>5, <1>7, <1>8, CoordOrderIs
  <1> QED
    BY <1>2, <1>3, <1>4, <1>5, <1>6, <1>7, <1>9 DEF CubeOf

\* The columns of a table: arrays, each once, of which those of one dimension are
\* the axes.
Cubed(meta, metas) ==
    /\ AxesInOrder(meta)
    /\ Names(meta.coords) = {m.name : m \in {x \in Ran(metas) : IsCoordinate(x)}}
    /\ LET all == meta.coords \o meta.data_vars
       IN /\ Names(all) = Names(metas) /\ Len(all) = Len(metas)
          /\ \A i \in DOMAIN all : \E m \in Ran(metas) : all[i].name = m.name /\ all[i].dims = m.dims

\* The names in a sequence are those of its elements.
LEMMA NamesRan == ASSUME NEW metas PROVE Names(metas) = {m.name : m \in Ran(metas)}
  BY DEF Names, Ran

\* What follows for a table whose coordinates differ from those of a cube in
\* what was read from the store at most.
LEMMA CubeIs ==
    ASSUME NEW M, NEW metas \in Seq(M), NamedOnce(metas), NEW cube, CubeOf(cube, metas, M),
           NEW meta, meta.data_vars = cube.data_vars,
           NEW N, meta.coords \in Seq(N), Len(meta.coords) = Len(cube.coords),
           \A i \in DOMAIN cube.coords : /\ meta.coords[i].name = cube.coords[i].name
                                         /\ meta.coords[i].shape = cube.coords[i].shape
                                         /\ meta.coords[i].dims = cube.coords[i].dims
    PROVE  Cubed(meta, metas)
  <1> DEFINE c == cube.coords
             d == meta.coords
             v == cube.data_vars
             all == d \o v
  <1>1. /\ c \in Seq(M) /\ v \in Seq(M) /\ NamedOnce(c) /\ NamedOnce(v) /\ LikeFirst(c, v)
        /\ Ran(c) = {m \in Ran(metas) : IsCoordinate(m)} /\ Ran(v) = {m \in Ran(metas) : ~IsCoordinate(m)}
    BY DEF CubeOf
  <1>2. /\ Len(c) \in Nat /\ DOMAIN c = 1 .. Len(c) /\ DOMAIN d = DOMAIN c /\ Len(d) = Len(c)
        /\ Len(v) \in Nat /\ DOMAIN v = 1 .. Len(v) /\ d \in Seq(N)
    <2>1. Len(d) \in Nat /\ DOMAIN d = 1 .. Len(d)
      BY SeqPlaces
    <2> QED
      BY <1>1, <2>1, SeqPlaces
  <1>3. \A i \in DOMAIN c : d[i].name = c[i].name /\ d[i].shape = c[i].shape /\ d[i].dims = c[i].dims
    OBVIOUS
  <1>4. meta.data_vars = v /\ meta.coords = d
    OBVIOUS
  <1> HIDE DEF c, d, v
  <1>5. Names(d) = Names(c)
    BY <1>2, <1>3 DEF Names
  <1>6. Sizes(d) = Sizes(c)
    BY <1>2, <1>3 DEF Sizes
  <1>7. AxesInOrder(meta)
    <2>1. DOMAIN v \subseteq Nat /\ Cardinality(Names(d)) = Len(d)
      BY <1>1, <1>2, <1>5, EachOnce
    <2> DEFINE I == {i \in 1 .. Len(v) : HasLengths(v[i], Sizes(d))}
    <2>2. I # {} => Sizes(d) = v[Min(I)].shape
      BY <1>1, <1>6 DEF LikeFirst
    <2> QED
      BY <1>2, <1>4, <2>1, <2>2, AxesAre
  <1>8. Names(d) = {m.name : m \in {x \in Ran(metas) : IsCoordinate(x)}}
    BY <1>1, <1>5, NamesRan
  <1>9. /\ Len(all) = Len(d) + Len(v) /\ DOMAIN all = 1 .. Len(all)
        /\ \A i \in 1 .. Len(d) : all[i] = d[i]
        /\ \A i \in Len(d) + 1 .. Len(d) + Len(v) : all[i] = v[i - Len(d)]
    <2> DEFINE U == N \cup M
    <2>1. d \in Seq(U) /\ v \in Seq(U)
      BY <1>1, <1>2
    <2> HIDE DEF U
    <2> QED
      BY <2>1
  <1>10. \A i \in DOMAIN all : (i \in DOMAIN d /\ all[i] = d[i]) \/ \E j \in DOMAIN v : all[i] = v[j]
    <2> SUFFICES ASSUME NEW i \in DOMAIN all, ~(i \in DOMAIN d) PROVE \E j \in DOMAIN v : all[i] = v[j]
      BY <1>2, <1>9
    <2>1. i \in Len(d) + 1 .. Len(d) + Len(v) /\ i - Len(d) \in DOMAIN v
      BY <1>2, <1>9
    <2> QED
      BY <1>9, <2>1
  <1>11. /\ \A j \in DOMAIN d : j \in DOMAIN all /\ all[j] = d[j]
         /\ \A j \in DOMAIN v : j + Len(d) \in DOMAIN all /\ all[j + Len(d)] = v[j]
    <2>1. \A j \in DOMAIN d : j \in DOMAIN all /\ all[j] = d[j]
      BY <1>2, <1>9
    <2>2. ASSUME NEW j \in DOMAIN v PROVE j + Len(d) \in DOMAIN all /\ all[j + Len(d)] = v[j]
      <3>1. j + Len(d) \in Len(d) + 1 .. Len(d) + Len(v) /\ (j + Len(d)) - Len(d) = j
        BY <1>2
      <3>2. j + Len(d) \in DOMAIN all
        BY <1>2, <1>9, <3>1
      <3> QED
        BY <1>9, <3>1, <3>2
    <2> QED
      BY <2>1, <2>2
  <1> HIDE DEF all
  <1>12. Names(all) = Names(d) \cup Names(v)
    BY <1>10, <1>11 DEF Names
  <1>13. Names(all) = Names(metas)
    BY <1>1, <1>5, <1>12, NamesRan
  <1>14. Len(all) = Len(metas)
    <2> DEFINE S == Ran(c)
               T == Ran(v)
    <2>1. /\ Cardinality(S) = Len(c) /\ IsFiniteSet(S) /\ Cardinality(T) = Len(v) /\ IsFiniteSet(T)
          /\ Cardinality(Ran(metas)) = Len(metas)
      BY <1>1, EachOnce
    <2>2. S \cup T = Ran(metas) /\ S \cap T = {}
      BY <1>1
    <2> HIDE DEF S, T
    <2>3. Cardinality(S \cup T) = Cardinality(S) + Cardinality(T) - Cardinality(S \cap T)
      BY <2>1, FS_Union
    <2>4. Cardinality(S \cap T) = 0
      BY <2>2, FS_EmptySet
    <2>5. Cardinality(S \cup T) = Len(metas)
      BY <2>1, <2>2, Zenon
    <2>6. Len(metas) = Len(c) + Len(v) - 0
      BY <2>1, <2>3, <2>4, <2>5, Zenon
    <2> QED
      BY <1>2, <1>9, <2>6
  <1>15. ASSUME NEW i \in DOMAIN all PROVE \E m \in Ran(metas) : all[i].name = m.name /\ all[i].dims = m.dims
    <2>1. CASE i \in DOMAIN d /\ all[i] = d[i]
      <3>1. c[i] \in Ran(c) /\ d[i].name = c[i].name /\ d[i].dims = c[i].dims
        BY <1>2, <1>3, <2>1 DEF Ran
      <3> QED
        BY <1>1, <2>1, <3>1
    <2>2. CASE \E j \in DOMAIN v : all[i] = v[j]
      <3>1. all[i] \in Ran(v)
        BY <2>2 DEF Ran
      <3> QED
        BY <1>1, <3>1
    <2> QED
      BY <1>10, <2>1, <2>2
  <1>16. all = meta.coords \o meta.data_vars
    BY <1>4 DEF all
  <1> QED
    BY <1>4, <1>7, <1>8, <1>13, <1>14, <1>15, <1>16 DEF Cubed

\* Arrays are records.
AreRecords(M) == \A m \in M : {"name", "shape", "dims"} \subseteq DOMAIN m

\* separate_and_sort_arrays, which reads the bounds of the coordinates.
LEMMA SortedIsCube ==
    ASSUME NEW M, AreArrays(M), AreRecords(M), NEW metas \in Seq(M), NamedOnce(metas), NEW s
    PROVE  Cubed(SeparateAndSort(s, metas), metas)
  <1> DEFINE cube == Separate(metas)
             meta == SeparateAndSort(s, metas)
             bound(i) == CoordMinMax(cube.coords[i], s.arrays[cube.coords[i].name])
             d == [i \in DOMAIN cube.coords |-> [cube.coords[i] EXCEPT !.bounds = bound(i)]]
  <1>1. CubeOf(cube, metas, M)
    BY SeparateIs
  <1>2. meta.coords = d /\ meta.data_vars = cube.data_vars
    BY DEF SeparateAndSort, Separate
  <1> HIDE DEF cube, meta, bound
  <1>3. cube.coords \in Seq(M) /\ Len(cube.coords) \in Nat /\ DOMAIN cube.coords = 1 .. Len(cube.coords)
    BY <1>1, SeqPlaces DEF CubeOf
  <1> DEFINE N == {d[i] : i \in 1 .. Len(cube.coords)}
  <1>4. d \in [1 .. Len(cube.coords) -> N]
    BY <1>3
  <1>5. d \in Seq(N) /\ Len(d) = Len(cube.coords)
    <2> HIDE DEF N, d
    <2> QED
      BY <1>3, <1>4, FunIsSeq
  <1>6. ASSUME NEW i \in DOMAIN cube.coords
        PROVE  /\ d[i].name = cube.coords[i].name /\ d[i].shape = cube.coords[i].shape
               /\ d[i].dims = cube.coords[i].dims
    <2>1. {"name", "shape", "dims"} \subseteq DOMAIN cube.coords[i]
      BY <1>3, SeqPlaces DEF AreRecords
    <2> QED
      BY <2>1
  <1> HIDE DEF d, N
  <1>7. Cubed(meta, metas)
    BY <1>1, <1>2, <1>5, <1>6, CubeIs
  <1> QED
    BY <1>7 DEF meta

\* The arrays that have dimensions.
NoScalars(metas) == SelectAt(metas, {i \in DOMAIN metas : ~IsScalar(metas[i])})

\* The others drop what has no dimensions.
LEMMA NoStatsIsCube ==
    ASSUME NEW M, AreArrays(M), NEW metas \in Seq(M), NamedOnce(metas)
    PROVE  /\ Cubed(SeparateAndSortNoStats(metas), NoScalars(metas))
           /\ NoScalars(metas) \in Seq(M) /\ NamedOnce(NoScalars(metas))
           /\ Ran(NoScalars(metas)) = {m \in Ran(metas) : ~IsScalar(m)}
  <1> DEFINE places == {i \in DOMAIN metas : ~IsScalar(metas[i])}
             some == NoScalars(metas)
             cube == SeparateAndSortNoStats(metas)
  <1>1. some = SelectAt(metas, places) /\ cube = Separate(some)
    BY DEF NoScalars, SeparateAndSortNoStats
  <1>2. places \in SUBSET DOMAIN metas
    OBVIOUS
  <1>3. {metas[i] : i \in places} = {m \in Ran(metas) : ~IsScalar(m)}
    BY DEF Ran
  <1> HIDE DEF places, some, cube
  <1>4. some \in Seq(M) /\ NamedOnce(some) /\ Ran(some) = {m \in Ran(metas) : ~IsScalar(m)}
    BY <1>1, <1>2, <1>3, SelectAtOnce, SelectNamed
  <1>5. CubeOf(cube, some, M)
    BY <1>1, <1>4, SeparateIs
  <1>6. cube.coords \in Seq(M)
    BY <1>5 DEF CubeOf
  <1>7. Cubed(cube, some)
    BY <1>4, <1>5, <1>6, CubeIs
  <1> QED
    BY <1>4, <1>7 DEF some, cube

-----------------------------------------------------------------------------
(* Cubes that arrays determine. *)

\* Where two orders by name part, the one that has something later there has the
\* larger name.
LEMMA OrdersPart ==
    ASSUME NEW M, AreArrays(M), NEW n \in Nat, NEW s \in [1 .. n -> M], NEW t \in [1 .. n -> M],
           NamedOnce(s), ByName(t), Ran(s) \subseteq Ran(t),
           NEW k \in 1 .. n, \A i \in 1 .. n : i < k => s[i] = t[i], s[k] # t[k]
    PROVE  t[k].name < s[k].name
  <1>1. s[k] \in Ran(t)
    BY DEF Ran
  <1>2. PICK j \in 1 .. n : t[j] = s[k]
    BY <1>1 DEF Ran
  <1>3. ~(j < k)
    <2> SUFFICES ASSUME j < k PROVE FALSE
      OBVIOUS
    <2>1. s[j] = s[k]
      BY <1>2
    <2>2. j = k
      BY <2>1 DEF NamedOnce
    <2> QED
      BY <2>2
  <1>4. j # k
    BY <1>2
  <1>5. k < j
    BY <1>3, <1>4
  <1> QED
    BY <1>2, <1>5 DEF ByName

\* There is one order by name.
LEMMA OneOrderByName ==
    ASSUME NEW M, AreArrays(M), NEW s \in Seq(M), NEW t \in Seq(M), NamedOnce(s), NamedOnce(t),
           ByName(s), ByName(t), Ran(s) = Ran(t)
    PROVE  s = t
  <1> DEFINE n == Len(s)
  <1>1. n \in Nat /\ Len(t) = n
    BY SeqPlaces, SameCounts
  <1>2. s \in [1 .. n -> M] /\ t \in [1 .. n -> M]
    BY <1>1
  <1> HIDE DEF n
  <1> DEFINE D == {k \in 1 .. n : s[k] # t[k]}
  <1>3. D = {}
    <2> SUFFICES ASSUME D # {} PROVE FALSE
      OBVIOUS
    <2>1. D \subseteq Nat
      OBVIOUS
    <2>2. PICK k \in D : \A m \in D : k <= m
      <3> HIDE DEF D
      <3> QED
        BY <2>1, LeastNat
    <2>3. k \in 1 .. n /\ s[k] # t[k] /\ s[k].name \in Nat /\ t[k].name \in Nat
      BY <1>2 DEF AreArrays
    <2>4. \A i \in 1 .. n : i < k => s[i] = t[i]
      BY <2>2, <2>3
    <2> HIDE DEF D
    <2>5. t[k].name < s[k].name
      BY <1>1, <1>2, <2>3, <2>4, OrdersPart
    <2>6. s[k].name < t[k].name
      BY <1>1, <1>2, <2>3, <2>4, OrdersPart
    <2> QED
      BY <2>3, <2>5, <2>6
  <1>4. \A k \in 1 .. n : s[k] = t[k]
    BY <1>3
  <1>5. s = [k \in 1 .. n |-> s[k]] /\ t = [k \in 1 .. n |-> t[k]]
    BY <1>2
  <1> HIDE DEF D
  <1> QED
    BY <1>4, <1>5

\* Coordinates, of which no two have one length.
OfOneLength(metas) ==
    \A x, y \in Ran(metas) : IsCoordinate(x) /\ IsCoordinate(y) /\ x.shape = y.shape => x = y

\* If each coordinate has a length of its own, the arrays of a cube determine the
\* order of its axes.
LEMMA OneCube ==
    ASSUME NEW M, AreArrays(M), NEW ms, NEW ns, NEW a, NEW b, CubeOf(a, ms, M), CubeOf(b, ns, M),
           Ran(ms) = Ran(ns), OfOneLength(ms)
    PROVE  a.coords = b.coords /\ a.data_vars = b.data_vars
  <1> DEFINE c == a.coords
             d == b.coords
             v == a.data_vars
  <1>1. /\ c \in Seq(M) /\ d \in Seq(M) /\ NamedOnce(c) /\ NamedOnce(d) /\ Ran(c) = Ran(d)
        /\ Ran(c) = {m \in Ran(ms) : IsCoordinate(m)}
    BY DEF CubeOf
  <1>2. b.data_vars = v
    BY OneOrderByName DEF CubeOf
  <1>3. LikeFirst(c, v) /\ LikeFirst(d, v)
    BY <1>2 DEF CubeOf
  <1> HIDE DEF c, d, v
  <1>4. /\ Len(c) = Len(d) /\ Len(c) \in Nat /\ DOMAIN c = 1 .. Len(c) /\ DOMAIN d = 1 .. Len(c)
        /\ \A k : Cardinality(CoordsOf(c, k)) = Cardinality(CoordsOf(d, k))
    BY <1>1, SeqPlaces, SameCounts
  <1>5. \A k : Cardinality(DimsOf(Sizes(c), k)) = Cardinality(DimsOf(Sizes(d), k))
    BY <1>4, WhereLong
  <1>6. ToSet(Sizes(c)) = ToSet(Sizes(d))
    <2>1. \A e : ToSet(Sizes(e)) = {x.shape[1] : x \in Ran(e)}
      BY DEF ToSet, Sizes, Ran
    <2> QED
      BY <1>1, <2>1
  <1>7. Len(Sizes(c)) = Len(c) /\ Len(Sizes(d)) = Len(c)
    <2>1. Sizes(c) \in [1 .. Len(c) -> ToSet(Sizes(c))] /\ Sizes(d) \in [1 .. Len(c) -> ToSet(Sizes(d))]
      BY <1>4 DEF Sizes, ToSet
    <2> QED
      BY <1>4, <2>1, FunIsSeq
  <1> DEFINE I == {i \in 1 .. Len(v) : HasLengths(v[i], Sizes(c))}
             J == {i \in 1 .. Len(v) : HasLengths(v[i], Sizes(d))}
  <1>8. I = J
    <2>1. \A x : HasLengths(x, Sizes(c)) <=> HasLengths(x, Sizes(d))
      BY <1>5, <1>6, <1>7 DEF HasLengths
    <2> QED
      BY <2>1
  <1>9. (I # {} => Sizes(c) = v[Min(I)].shape) /\ (I = {} => ByName(c))
    BY <1>3 DEF LikeFirst
  <1>10. (J # {} => Sizes(d) = v[Min(J)].shape) /\ (J = {} => ByName(d))
    BY <1>3 DEF LikeFirst
  <1> HIDE DEF I, J
  <1>11. CASE I = {}
    <2>1. c = d
      BY <1>1, <1>8, <1>9, <1>10, <1>11, OneOrderByName
    <2> QED
      BY <1>2, <2>1 DEF c, d, v
  <1>12. CASE I # {}
    <2>1. Sizes(c) = Sizes(d)
      BY <1>8, <1>9, <1>10, <1>12
    <2>2. ASSUME NEW i \in 1 .. Len(c) PROVE c[i] = d[i]
      <3>1. /\ c[i] \in Ran(ms) /\ IsCoordinate(c[i]) /\ c[i] \in M
            /\ d[i] \in Ran(ms) /\ IsCoordinate(d[i]) /\ d[i] \in M
        <4>1. c[i] \in Ran(c) /\ d[i] \in Ran(d)
          BY <1>4 DEF Ran
        <4>2. c[i] \in M /\ d[i] \in M
          BY <1>1, <1>4, SeqPlaces
        <4> QED
          BY <1>1, <4>1, <4>2
      <3>2. c[i].shape[1] = d[i].shape[1]
        BY <1>4, <2>1 DEF Sizes
      <3>3. /\ c[i].shape \in Seq(Nat) /\ Len(c[i].shape) = 1
            /\ d[i].shape \in Seq(Nat) /\ Len(d[i].shape) = 1
        BY <3>1 DEF AreArrays, IsCoordinate
      <3>4. c[i].shape = d[i].shape
        BY <3>2, <3>3
      <3> QED
        BY <3>1, <3>4 DEF OfOneLength
    <2>3. c = d
      BY <1>1, <1>4, <2>2
    <2> QED
      BY <1>2, <2>3 DEF c, d, v
  <1> QED
    BY <1>11, <1>12

\* The same for what is made of arrays in another order.
LEMMA OneTable ==
    ASSUME NEW M, AreArrays(M), NEW ms \in Seq(M), NEW ns \in Seq(M), NamedOnce(ms), NamedOnce(ns),
           Ran(ms) = Ran(ns), OfOneLength(ms)
    PROVE  /\ \A s : SeparateAndSort(s, ms) = SeparateAndSort(s, ns)
           /\ SeparateAndSortNoStats(ms) = SeparateAndSortNoStats(ns)
  <1>1. ASSUME NEW xs \in Seq(M), NEW ys \in Seq(M), NamedOnce(xs), NamedOnce(ys), Ran(xs) = Ran(ys), OfOneLength(xs)
        PROVE  Separate(xs) = Separate(ys)
    <2>1. CubeOf(Separate(xs), xs, M) /\ CubeOf(Separate(ys), ys, M)
      BY <1>1, SeparateIs
    <2>2. Separate(xs).coords = Separate(ys).coords /\ Separate(xs).data_vars = Separate(ys).data_vars
      BY <1>1, <2>1, OneCube
    <2>3. \A metas : Separate(metas) = [coords |-> Separate(metas).coords, data_vars |-> Separate(metas).data_vars,
                                        total_rows |-> Rows(Separate(metas).coords)]
      BY DEF Separate
    <2> QED
      BY <2>2, <2>3
  <1>2. \A s : SeparateAndSort(s, ms) = SeparateAndSort(s, ns)
    <2>1. Separate(ms) = Separate(ns)
      BY <1>1
    <2> QED
      BY <2>1 DEF SeparateAndSort
  <1>3. SeparateAndSortNoStats(ms) = SeparateAndSortNoStats(ns)
    <2>1. /\ NoScalars(ms) \in Seq(M) /\ NamedOnce(NoScalars(ms)) /\ Ran(NoScalars(ms)) = {m \in Ran(ms) : ~IsScalar(m)}
          /\ NoScalars(ns) \in Seq(M) /\ NamedOnce(NoScalars(ns)) /\ Ran(NoScalars(ns)) = {m \in Ran(ms) : ~IsScalar(m)}
      BY NoStatsIsCube
    <2>2. OfOneLength(NoScalars(ms))
      BY <2>1 DEF OfOneLength
    <2>3. Separate(NoScalars(ms)) = Separate(NoScalars(ns))
      BY <1>1, <2>1, <2>2
    <2> QED
      BY <2>3 DEF SeparateAndSortNoStats, NoScalars
  <1> QED
    BY <1>2, <1>3

-----------------------------------------------------------------------------
(* Tables of a store. *)

\* Metadata of arrays of a store, each of another array.
ArraysFrom(metas, s, l) ==
    /\ l \in Seq(DOMAIN s.arrays) /\ IsInjective(l)
    /\ metas = [i \in DOMAIN l |-> metas[i]]
    /\ \A i \in DOMAIN l : \E type, time, dims : metas[i] = ArrayMeta(l[i], s.arrays[l[i]], type, time, dims)

\* What such metadata has.
LEMMA ArraysHave ==
    ASSUME NEW s, StoreOK(s), NEW l, NEW metas, ArraysFrom(metas, s, l)
    PROVE  /\ \A i \in DOMAIN l : metas[i].name = l[i] /\ metas[i].shape = s.arrays[l[i]].shape
           /\ metas \in Seq(Ran(metas)) /\ AreArrays(Ran(metas)) /\ AreRecords(Ran(metas))
           /\ NamedOnce(metas) /\ Names(metas) = ToSet(l)
  <1>1. /\ Len(l) \in Nat /\ DOMAIN l = 1 .. Len(l) /\ \A i \in DOMAIN l : l[i] \in DOMAIN s.arrays
        /\ DOMAIN metas = DOMAIN l
    BY SeqPlaces DEF ArraysFrom
  <1>2. ASSUME NEW i \in DOMAIN l
        PROVE  /\ metas[i].name = l[i] /\ metas[i].shape = s.arrays[l[i]].shape
               /\ {"name", "shape", "dims"} \subseteq DOMAIN metas[i]
    <2>1. PICK type, time, dims : metas[i] = ArrayMeta(l[i], s.arrays[l[i]], type, time, dims)
      BY DEF ArraysFrom
    <2> QED
      BY <2>1 DEF ArrayMeta
  <1>3. metas \in Seq(Ran(metas))
    <2>1. metas = [i \in 1 .. Len(l) |-> metas[i]]
      BY <1>1 DEF ArraysFrom
    <2>2. metas \in [1 .. Len(l) -> Ran(metas)]
      BY <1>1, <2>1 DEF Ran
    <2> QED
      BY <1>1, <2>2, FunIsSeq
  <1>4. AreArrays(Ran(metas)) /\ AreRecords(Ran(metas))
    <2>1. \A n \in DOMAIN s.arrays : n \in Nat /\ s.arrays[n].shape \in Seq(Nat)
      BY DEF StoreOK
    <2> QED
      BY <1>1, <1>2, <2>1 DEF AreArrays, AreRecords, Ran
  <1>5. NamedOnce(metas)
    BY <1>1, <1>2 DEF NamedOnce, ArraysFrom, IsInjective
  <1>6. Names(metas) = ToSet(l)
    BY <1>1, <1>2 DEF Names, ToSet
  <1> QED
    BY <1>2, <1>3, <1>4, <1>5, <1>6

\* What is known of an array when nothing is lost.
Inferred(s, n) ==
    IF s.format = "v3" THEN V3Meta(n, s.arrays[n]) ELSE V2Meta(n, s.arrays[n], s.arrays[n].attrs)

ArraysOf(s, l) == [i \in DOMAIN l |-> Inferred(s, l[i])]

\* The arrays whose metadata can be read.
Legible(s) ==
    {n \in DOMAIN s.arrays : s.arrays[n].node = "array" /\ (Consolidates(s) \/ s.arrays[n].doc # "bad")}

\* The orders in which they are found.
Orders(s) ==
    IF Consolidates(s) THEN {s.zmeta[1].keys}
    ELSE {l \in Seq(Legible(s)) : IsInjective(l) /\ ToSet(l) = Legible(s)}

\* The tables that a store can become if nothing is lost.
TableOf(s, l) ==
    IF KeepsScalars(s) THEN SeparateAndSort(s, ArraysOf(s, l)) ELSE SeparateAndSortNoStats(ArraysOf(s, l))

Tables(s) == {TableOf(s, l) : l \in Orders(s)}

\* Metadata of arrays is made of names and shapes as they are.
LEMMA MetaIs ==
    ASSUME NEW s, NEW n
    PROVE  /\ \E type, time, dims : V3Meta(n, s.arrays[n]) = ArrayMeta(n, s.arrays[n], type, time, dims)
           /\ \A attrs : \E type, time, dims : V2Meta(n, s.arrays[n], attrs) = ArrayMeta(n, s.arrays[n], type, time, dims)
           /\ \E type, time, dims : Inferred(s, n) = ArrayMeta(n, s.arrays[n], type, time, dims)
  <1>1. \E type, time, dims : V3Meta(n, s.arrays[n]) = ArrayMeta(n, s.arrays[n], type, time, dims)
    BY DEF V3Meta
  <1>2. \A attrs : \E type, time, dims : V2Meta(n, s.arrays[n], attrs) = ArrayMeta(n, s.arrays[n], type, time, dims)
    BY DEF V2Meta
  <1> QED
    BY <1>1, <1>2 DEF Inferred

\* Metadata that is complete has the dimension names that were given.
LEMMA DimsAreGiven ==
    ASSUME NEW s, NEW n
    PROVE  Inferred(s, n).dims = GivenDims(s, s.arrays[n])
  <1>1. CASE s.format = "v3"
    BY <1>1 DEF Inferred, V3Meta, ArrayMeta, ParseArrayDimensions, ParseV3DimensionNames, GivenDims
  <1>2. CASE s.format # "v3"
    BY <1>2 DEF Inferred, V2Meta, ArrayMeta, ParseArrayDimensions, GivenDims
  <1> QED
    BY <1>1, <1>2

\* An order is a sequence of arrays, each once; of all that can be read, if the
\* consolidated metadata is complete.
LEMMA OrdersAre ==
    ASSUME NEW s, StoreOK(s), NEW l \in Orders(s)
    PROVE  /\ l \in Seq(DOMAIN s.arrays) /\ IsInjective(l)
           /\ ToSet(l) \subseteq Legible(s)
           /\ Complete(s) => ToSet(l) = Legible(s)
           /\ ~Consolidates(s) => ToSet(l) = Legible(s)
  <1>1. CASE Consolidates(s)
    <2>1. /\ l = s.zmeta[1].keys /\ l \in Seq(DOMAIN s.arrays) /\ IsInjective(l) /\ l # <<>> /\ s.zmeta # <<>>
          /\ s.format # "v3"
      BY <1>1 DEF Orders, Consolidates, StoreOK
    <2>2. Legible(s) = DOMAIN s.arrays
      BY <1>1, <2>1 DEF Legible, StoreOK
    <2>3. ToSet(l) \subseteq DOMAIN s.arrays
      BY <2>1, SeqPlaces DEF ToSet
    <2>4. ToSet(l) # {}
      <3>1. Len(l) \in Nat /\ DOMAIN l = 1 .. Len(l)
        BY <2>1, SeqPlaces
      <3>2. Len(l) # 0
        BY <2>1
      <3>3. l[1] \in ToSet(l)
        BY <3>1, <3>2 DEF ToSet
      <3> QED
        BY <3>3
    <2> QED
      BY <1>1, <2>1, <2>2, <2>3, <2>4 DEF Complete
  <1>2. CASE ~Consolidates(s)
    <2>1. l \in Seq(Legible(s)) /\ IsInjective(l) /\ ToSet(l) = Legible(s)
      BY <1>2 DEF Orders
    <2>2. Legible(s) \subseteq DOMAIN s.arrays
      BY DEF Legible
    <2>3. l \in Seq(DOMAIN s.arrays)
      BY <2>1, <2>2
    <2> QED
      BY <1>2, <2>1, <2>3
  <1> QED
    BY <1>1, <1>2

\* The arrays that are found, in some order.
LEMMA ArraysOfHave ==
    ASSUME NEW s, StoreOK(s), NEW l \in Seq(DOMAIN s.arrays), IsInjective(l)
    PROVE  ArraysFrom(ArraysOf(s, l), s, l)
  <1>1. ArraysOf(s, l) = [i \in DOMAIN l |-> ArraysOf(s, l)[i]]
    BY DEF ArraysOf
  <1>2. \A i \in DOMAIN l : ArraysOf(s, l)[i] = Inferred(s, l[i])
    BY DEF ArraysOf
  <1> QED
    BY <1>1, <1>2, MetaIs DEF ArraysFrom

\* Whatever is known of the arrays, the axes of a table made of them are in order.
LEMMA AlwaysInOrder ==
    ASSUME NEW s, StoreOK(s), NEW l, NEW metas, ArraysFrom(metas, s, l)
    PROVE  AxesInOrder(SeparateAndSort(s, metas)) /\ AxesInOrder(SeparateAndSortNoStats(metas))
  <1>1. metas \in Seq(Ran(metas)) /\ AreArrays(Ran(metas)) /\ AreRecords(Ran(metas)) /\ NamedOnce(metas)
    BY ArraysHave
  <1>2. Cubed(SeparateAndSort(s, metas), metas)
    BY <1>1, SortedIsCube
  <1>3. Cubed(SeparateAndSortNoStats(metas), NoScalars(metas))
    BY <1>1, NoStatsIsCube
  <1> QED
    BY <1>2, <1>3 DEF Cubed

\* The arrays of a store.
Inventory(s) == {Inferred(s, n) : n \in DOMAIN s.arrays}

\* Whatever is inferred of an array, its name and shape are as they are.
LEMMA InferredHas ==
    ASSUME NEW s, NEW n
    PROVE  Inferred(s, n).name = n /\ Inferred(s, n).shape = s.arrays[n].shape
  <1>1. PICK type, time, dims : Inferred(s, n) = ArrayMeta(n, s.arrays[n], type, time, dims)
    BY MetaIs
  <1> QED
    BY <1>1 DEF ArrayMeta

\* What the arrays of a store are made into.
LEMMA InventoryHas ==
    ASSUME NEW s, StoreOK(s), NEW l \in Seq(DOMAIN s.arrays), IsInjective(l)
    PROVE  /\ ArraysOf(s, l) \in Seq(Inventory(s)) /\ NamedOnce(ArraysOf(s, l))
           /\ AreArrays(Inventory(s))
           /\ Ran(ArraysOf(s, l)) = {Inferred(s, n) : n \in ToSet(l)}
           /\ Names(ArraysOf(s, l)) = ToSet(l)
  <1>1. Len(l) \in Nat /\ DOMAIN l = 1 .. Len(l) /\ \A i \in DOMAIN l : l[i] \in DOMAIN s.arrays
    BY SeqPlaces
  <1>2. ArraysFrom(ArraysOf(s, l), s, l)
    BY ArraysOfHave
  <1>3. NamedOnce(ArraysOf(s, l)) /\ Names(ArraysOf(s, l)) = ToSet(l)
    BY <1>2, ArraysHave
  <1>4. ArraysOf(s, l) \in [1 .. Len(l) -> Inventory(s)]
    BY <1>1 DEF ArraysOf, Inventory
  <1>5. ArraysOf(s, l) \in Seq(Inventory(s))
    BY <1>1, <1>4, FunIsSeq
  <1>6. AreArrays(Inventory(s))
    <2>1. \A n \in DOMAIN s.arrays : n \in Nat /\ s.arrays[n].shape \in Seq(Nat)
      BY DEF StoreOK
    <2> QED
      BY <2>1, InferredHas DEF AreArrays, Inventory
  <1>7. Ran(ArraysOf(s, l)) = {Inferred(s, n) : n \in ToSet(l)}
    <2>1. DOMAIN ArraysOf(s, l) = DOMAIN l /\ \A i \in DOMAIN l : ArraysOf(s, l)[i] = Inferred(s, l[i])
      BY DEF ArraysOf
    <2> QED
      BY <2>1 DEF Ran, ToSet
  <1> QED
    BY <1>3, <1>5, <1>6, <1>7

\* The table has the columns it should have.
TabulatesAll(meta, s) ==
    LET all == meta.coords \o meta.data_vars
    IN /\ Names(all) = Tabular(s) /\ Len(all) = Cardinality(Tabular(s))
       /\ \A i \in DOMAIN all : all[i].dims = GivenDims(s, s.arrays[all[i].name])
       /\ Names(meta.coords) = {n \in Tabular(s) : Len(s.arrays[n].shape) = 1}

\* A cube of the arrays that can be columns.
LEMMA CubeTabulates ==
    ASSUME NEW s, NEW meta, NEW M, NEW metas \in Seq(M), NamedOnce(metas), Cubed(meta, metas),
           Ran(metas) = {Inferred(s, n) : n \in Tabular(s)}
    PROVE  TabulatesAll(meta, s)
  <1> DEFINE all == meta.coords \o meta.data_vars
  <1>1. /\ Names(all) = Names(metas) /\ Len(all) = Len(metas)
        /\ \A i \in DOMAIN all : \E m \in Ran(metas) : all[i].name = m.name /\ all[i].dims = m.dims
        /\ Names(meta.coords) = {m.name : m \in {x \in Ran(metas) : IsCoordinate(x)}}
    BY DEF Cubed
  <1>2. Names(metas) = Tabular(s)
    <2>1. Names(metas) = {m.name : m \in Ran(metas)}
      BY NamesRan
    <2> QED
      BY <2>1, InferredHas
  <1>3. Cardinality(Names(metas)) = Len(metas)
    BY EachOnce
  <1>4. ASSUME NEW i \in DOMAIN all
        PROVE  all[i].dims = GivenDims(s, s.arrays[all[i].name])
    <2>1. PICK m \in Ran(metas) : all[i].name = m.name /\ all[i].dims = m.dims
      BY <1>1
    <2>2. PICK n \in Tabular(s) : m = Inferred(s, n)
      OBVIOUS
    <2> HIDE DEF all
    <2>3. all[i].name = n
      BY <2>1, <2>2, InferredHas
    <2>4. m.dims = GivenDims(s, s.arrays[n])
      BY <2>2, DimsAreGiven
    <2> QED
      BY <2>1, <2>3, <2>4
  <1>5. Names(meta.coords) = {n \in Tabular(s) : Len(s.arrays[n].shape) = 1}
    <2>1. \A n : IsCoordinate(Inferred(s, n)) <=> Len(s.arrays[n].shape) = 1
      BY InferredHas DEF IsCoordinate
    <2> QED
      BY <1>1, <2>1, InferredHas
  <1> QED
    BY <1>1, <1>2, <1>3, <1>4, <1>5 DEF TabulatesAll

\* The tables a store can become are tables of all its arrays.
LEMMA TablesAre ==
    ASSUME NEW s, StoreOK(s), NEW meta \in Tables(s)
    PROVE  AxesInOrder(meta) /\ (Complete(s) => TabulatesAll(meta, s))
  <1>1. PICK l \in Orders(s) : meta = TableOf(s, l)
    BY DEF Tables
  <1>2. l \in Seq(DOMAIN s.arrays) /\ IsInjective(l) /\ (Complete(s) => ToSet(l) = Legible(s))
    BY OrdersAre
  <1>3. AxesInOrder(meta)
    <2>1. ArraysFrom(ArraysOf(s, l), s, l)
      BY <1>2, ArraysOfHave
    <2> QED
      BY <1>1, <2>1, AlwaysInOrder DEF TableOf
  <1>4. ASSUME Complete(s)
        PROVE  TabulatesAll(meta, s)
    <2> DEFINE metas == ArraysOf(s, l)
    <2>1. /\ metas \in Seq(Inventory(s)) /\ NamedOnce(metas) /\ AreArrays(Inventory(s))
          /\ Ran(metas) = {Inferred(s, n) : n \in Legible(s)}
      BY <1>2, <1>4, InventoryHas
    <2>2. CASE KeepsScalars(s)
      <3>1. meta = SeparateAndSort(s, metas)
        BY <1>1, <2>2 DEF TableOf
      <3>2. ArraysFrom(metas, s, l)
        BY <1>2, ArraysOfHave
      <3>3. metas \in Seq(Ran(metas)) /\ AreArrays(Ran(metas)) /\ AreRecords(Ran(metas))
        BY <3>2, ArraysHave
      <3>4. Cubed(meta, metas)
        BY <2>1, <3>1, <3>3, SortedIsCube
      <3>5. Tabular(s) = Legible(s)
        BY <2>2 DEF Tabular, Legible
      <3> QED
        BY <2>1, <3>4, <3>5, CubeTabulates
    <2>3. CASE ~KeepsScalars(s)
      <3>1. meta = SeparateAndSortNoStats(metas)
        BY <1>1, <2>3 DEF TableOf
      <3>2. /\ Cubed(meta, NoScalars(metas)) /\ NoScalars(metas) \in Seq(Inventory(s)) /\ NamedOnce(NoScalars(metas))
            /\ Ran(NoScalars(metas)) = {m \in Ran(metas) : ~IsScalar(m)}
        BY <2>1, <3>1, NoStatsIsCube
      <3>3. Tabular(s) = {n \in Legible(s) : s.arrays[n].shape # <<>>}
        BY <2>3 DEF Tabular, Legible
      <3>4. \A n : IsScalar(Inferred(s, n)) <=> s.arrays[n].shape = <<>>
        BY InferredHas DEF IsScalar
      <3>5. Ran(NoScalars(metas)) = {Inferred(s, n) : n \in Tabular(s)}
        BY <2>1, <3>2, <3>3, <3>4
      <3> QED
        BY <3>2, <3>5, CubeTabulates
    <2> QED
      BY <2>2, <2>3
  <1> QED
    BY <1>3, <1>4

\* What has a length is not empty.
LEMMA NotEmpty == ASSUME NEW q, Len(q) = 1 PROVE q # <<>>
  <1>1. Len(<<>>) = 0
    OBVIOUS
  <1>2. ASSUME q = <<>>
        PROVE  FALSE
    <2>1. Len(q) = 0
      BY <1>1, <1>2
    <2> QED
      BY <2>1
  <1> QED
    BY <1>2

\* There is but one if no two coordinates have one length, or the metadata is
\* consolidated.
LEMMA OneTableOnly ==
    ASSUME NEW s, StoreOK(s), DistinctSizes(s) \/ Consolidates(s), NEW a \in Tables(s), NEW b \in Tables(s)
    PROVE  a = b
  <1>1. PICK k \in Orders(s) : a = TableOf(s, k)
    BY DEF Tables
  <1>2. PICK l \in Orders(s) : b = TableOf(s, l)
    BY DEF Tables
  <1>3. CASE Consolidates(s)
    BY <1>1, <1>2, <1>3 DEF Orders
  <1>4. CASE ~Consolidates(s)
    <2> DEFINE ms == ArraysOf(s, k)
               ns == ArraysOf(s, l)
    <2>1. /\ k \in Seq(DOMAIN s.arrays) /\ IsInjective(k) /\ ToSet(k) = Legible(s)
          /\ l \in Seq(DOMAIN s.arrays) /\ IsInjective(l) /\ ToSet(l) = Legible(s)
      BY <1>4, OrdersAre
    <2>2. ms \in Seq(Inventory(s)) /\ NamedOnce(ms) /\ Ran(ms) = {Inferred(s, n) : n \in Legible(s)}
          /\ AreArrays(Inventory(s))
      BY <2>1, InventoryHas
    <2>3. ns \in Seq(Inventory(s)) /\ NamedOnce(ns) /\ Ran(ns) = {Inferred(s, n) : n \in Legible(s)}
      BY <2>1, InventoryHas
    <2> HIDE DEF ms, ns
    <2>4. OfOneLength(ms)
      <3> SUFFICES ASSUME NEW x \in Ran(ms), NEW y \in Ran(ms), IsCoordinate(x), IsCoordinate(y), x.shape = y.shape
                   PROVE  x = y
        BY DEF OfOneLength
      <3>1. PICK m \in Legible(s) : x = Inferred(s, m)
        BY <2>2
      <3>2. PICK n \in Legible(s) : y = Inferred(s, n)
        BY <2>2
      <3>3. /\ Len(s.arrays[m].shape) = 1 /\ Len(s.arrays[n].shape) = 1
            /\ s.arrays[m].shape = s.arrays[n].shape
        BY <3>1, <3>2, InferredHas DEF IsCoordinate
      <3>4. m \in Tabular(s) /\ n \in Tabular(s)
        <4>1. s.arrays[m].shape # <<>>
          BY <3>3, NotEmpty
        <4>2. s.arrays[n].shape # <<>>
          BY <3>3, NotEmpty
        <4> QED
          BY <4>1, <4>2 DEF Tabular, Legible
      <3>5. m = n
        BY <1>4, <3>3, <3>4 DEF DistinctSizes
      <3> QED
        BY <3>1, <3>2, <3>5
    <2>5. SeparateAndSort(s, ms) = SeparateAndSort(s, ns) /\ SeparateAndSortNoStats(ms) = SeparateAndSortNoStats(ns)
      BY <2>2, <2>3, <2>4, OneTable
    <2> QED
      BY <1>1, <1>2, <2>5 DEF TableOf, ms, ns
  <1> QED
    BY <1>3, <1>4

-----------------------------------------------------------------------------
(* What is found of a store. *)

\* What is selected from a listing.
LEMMA Selected ==
    ASSUME NEW s, StoreOK(s), NEW l \in Listings(s), NEW K \in SUBSET DOMAIN s.arrays
    PROVE  LET read == SelectAt(l, {i \in DOMAIN l : l[i] \in K})
           IN read \in Seq(K) /\ IsInjective(read) /\ ToSet(read) = K
  <1> DEFINE D == DOMAIN s.arrays
             places == {i \in DOMAIN l : l[i] \in K}
             read == SelectAt(l, places)
  <1>1. l \in Seq(D) /\ IsInjective(l)
    <2>1. Cardinality(D) \in Nat
      BY FS_CardinalityType DEF StoreOK
    <2>2. l \in [1 .. Cardinality(D) -> D] /\ IsInjective(l)
      BY DEF Listings
    <2> HIDE DEF D
    <2> QED
      BY <2>1, <2>2, FunIsSeq
  <1>2. \A n \in K : \E i \in DOMAIN l : l[i] = n
    BY ListingIsOnto DEF StoreOK, ToSet
  <1>3. read \in Seq(D) /\ Ran(read) = {l[i] : i \in places} /\ Picks(read, l, places)
    BY <1>1, SelectAtOnce
  <1>4. PICK at \in [1 .. Cardinality(places) -> places] :
           /\ read = [k \in 1 .. Cardinality(places) |-> l[at[k]]]
           /\ \A j, k \in 1 .. Cardinality(places) : at[j] = at[k] => j = k
    BY <1>3 DEF Picks
  <1>5. Ran(read) = K
    BY <1>2, <1>3
  <1> HIDE DEF places
  <1>6. places \subseteq DOMAIN l
    BY DEF places
  <1> HIDE DEF read
  <1>7. IsInjective(read)
    <2> SUFFICES ASSUME NEW j \in DOMAIN read, NEW k \in DOMAIN read, read[j] = read[k]
                 PROVE  j = k
      BY DEF IsInjective
    <2>1. j \in 1 .. Cardinality(places) /\ k \in 1 .. Cardinality(places) /\ l[at[j]] = l[at[k]]
      BY <1>4
    <2>2. at[j] \in DOMAIN l /\ at[k] \in DOMAIN l
      BY <2>1, <1>4, <1>6
    <2>3. at[j] = at[k]
      BY <1>1, <2>1, <2>2 DEF IsInjective
    <2> QED
      BY <1>4, <2>1, <2>3
  <1>8. ToSet(read) = K
    BY <1>5 DEF ToSet, Ran
  <1>9. read \in Seq(K)
    <2>1. Len(read) \in Nat /\ DOMAIN read = 1 .. Len(read)
      BY <1>3, SeqPlaces
    <2>2. read \in [1 .. Len(read) -> K]
      <3>1. read = [k \in 1 .. Len(read) |-> read[k]]
        BY <1>4, <2>1
      <3> QED
        BY <3>1, <2>1, <1>8 DEF ToSet
    <2> QED
      BY <2>1, <2>2, FunIsSeq
  <1> QED
    BY <1>7, <1>8, <1>9 DEF read, places

\* Consolidated metadata that lists something gives the one order there is.
LEMMA ConsolidatedTable ==
    ASSUME NEW s, StoreOK(s), Consolidates(s)
    PROVE  /\ s.zmeta[1].keys \in Orders(s) /\ FromZmetadata(s) = ArraysOf(s, s.zmeta[1].keys)
           /\ KeepsScalars(s) => SeparateAndSort(s, FromZmetadata(s)) \in Tables(s)
           /\ ~KeepsScalars(s) => SeparateAndSortNoStats(FromZmetadata(s)) \in Tables(s)
  <1>1. s.zmeta[1].keys \in Orders(s)
    BY DEF Orders
  <1>2. FromZmetadata(s) = ArraysOf(s, s.zmeta[1].keys)
    <2>1. s.format # "v3"
      BY DEF Consolidates, StoreOK
    <2> QED
      BY <2>1 DEF FromZmetadata, ArraysOf, Inferred
  <1> QED
    BY <1>1, <1>2 DEF Tables, TableOf

\* What is selected from a listing of directories is an order, if it is what can
\* be read.
LEMMA ListedTable ==
    ASSUME NEW s, StoreOK(s), ~Consolidates(s), NEW l \in Listings(s), NEW places,
           places = {i \in DOMAIN l : l[i] \in Legible(s)}
    PROVE  SelectAt(l, places) \in Orders(s)
  <1>1. Legible(s) \in SUBSET DOMAIN s.arrays
    BY DEF Legible
  <1> QED
    BY <1>1, Selected DEF Orders

\* A version that is found, if any, is that of the store.
LEMMA VersionIs ==
    ASSUME NEW s, StoreOK(s), s.format # "refs", NEW root \in SUBSET s.root, NEW dirs
    PROVE  DetectVersion(s, root, dirs) \in {"none", s.format}
  <1>1. CASE s.format = "v3"
    BY <1>1 DEF StoreOK, DetectVersion
  <1>2. CASE s.format = "v2"
    BY <1>2 DEF StoreOK, DetectVersion
  <1> QED
    BY <1>1, <1>2 DEF StoreOK

\* A look at a local directory finds a table of the store.
LEMMA DiscoverLocal ==
    ASSUME NEW s, StoreOK(s), s.scheme = "fs", ~s.icechunk, NEW l, l \in Listings(s) \/ Consolidates(s),
           DiscoverArrays(s, l) # <<>>
    PROVE  DiscoverArrays(s, l)[1] \in Tables(s)
  <1>1. CASE Consolidates(s)
    <2>1. KeepsScalars(s) <=> ~IsVirtualizarrStore(s)
      BY DEF KeepsScalars
    <2>2. DiscoverArrays(s, l) = <<IF IsVirtualizarrStore(s) THEN SeparateAndSortNoStats(FromZmetadata(s))
                                   ELSE SeparateAndSort(s, FromZmetadata(s))>>
      BY <1>1 DEF DiscoverArrays, Consolidates
    <2> QED
      BY <1>1, <2>1, <2>2, ConsolidatedTable
  <1>2. CASE ~Consolidates(s)
    <2> DEFINE found == DetectVersion(s, s.root, DOMAIN s.arrays)
    <2>1. s.format # "refs" /\ s.format \in {"v2", "v3"}
      BY <1>2 DEF StoreOK, Consolidates
    <2>2. found \in {"none", s.format}
      BY <2>1, VersionIs
    <2> HIDE DEF found
    <2>3. DiscoverArrays(s, l) = ScanDirectories(s, found, l) /\ found # "none"
      BY <1>2 DEF DiscoverArrays, Consolidates, found
    <2>4. found = s.format
      BY <2>2, <2>3
    <2>5. l \in Listings(s)
      BY <1>2
    <2> DEFINE places == {i \in DOMAIN l : s.format = "v2" \/ s.arrays[l[i]].node = "array"}
               legible == SelectAt(l, places)
    <2>6. /\ \A n \in ToSet(l) : s.arrays[n].doc # "bad"
          /\ DiscoverArrays(s, l) =
                <<SeparateAndSort(s, [i \in DOMAIN legible |->
                    IF s.format = "v2" THEN V2Meta(legible[i], s.arrays[legible[i]], s.arrays[legible[i]].attrs)
                    ELSE V3Meta(legible[i], s.arrays[legible[i]])])>>
      BY <2>3, <2>4 DEF ScanDirectories
    <2>7. places = {i \in DOMAIN l : l[i] \in Legible(s)}
      <3>1. \A i \in DOMAIN l : l[i] \in DOMAIN s.arrays
        BY <2>5 DEF Listings
      <3>2. \A i \in DOMAIN l : s.arrays[l[i]].doc # "bad"
        BY <2>6 DEF ToSet
      <3>3. s.format = "v2" => \A n \in DOMAIN s.arrays : s.arrays[n].node = "array"
        BY DEF StoreOK
      <3> QED
        BY <3>1, <3>2, <3>3 DEF Legible
    <2> HIDE DEF places
    <2>8. legible \in Orders(s)
      BY <1>2, <2>5, <2>7, ListedTable
    <2> HIDE DEF legible
    <2>9. ArraysOf(s, legible) =
             [i \in DOMAIN legible |->
                    IF s.format = "v2" THEN V2Meta(legible[i], s.arrays[legible[i]], s.arrays[legible[i]].attrs)
                    ELSE V3Meta(legible[i], s.arrays[legible[i]])]
      <3>1. \A i \in DOMAIN legible : Inferred(s, legible[i]) =
                    IF s.format = "v2" THEN V2Meta(legible[i], s.arrays[legible[i]], s.arrays[legible[i]].attrs)
                    ELSE V3Meta(legible[i], s.arrays[legible[i]])
        BY <2>1 DEF Inferred
      <3> QED
        BY <3>1 DEF ArraysOf
    <2>10. KeepsScalars(s)
      BY <2>1 DEF KeepsScalars, IsVirtualizarrStore, StoreOK
    <2> QED
      BY <2>6, <2>8, <2>9, <2>10 DEF Tables, TableOf
  <1> QED
    BY <1>1, <1>2

\* A repository that is not opened as one has no metadata.
LEMMA HiddenRepository ==
    ASSUME store.icechunk, handle # "icechunk", store \in Stores, NEW l
    PROVE  DiscoverArrays(View, l) = <<>>
  <1>1. StoreOK(store)
    BY StoresAssumption
  <1>2. View = [store EXCEPT !.root = {}, !.arrays = <<>>, !.zmeta = <<>>, !.refs = <<>>]
    BY DEF View
  <1>3. View.root = {} /\ View.arrays = <<>> /\ View.zmeta = <<>>
    BY <1>1, <1>2 DEF StoreOK
  <1>4. DOMAIN View.arrays = {}
    BY <1>3
  <1>5. DetectVersion(View, View.root, DOMAIN View.arrays) = "none"
    BY <1>3, <1>4 DEF DetectVersion
  <1> QED
    BY <1>3, <1>5 DEF DiscoverArrays

-----------------------------------------------------------------------------
(* Tables that are registered and scanned. *)

\* What is known of tables: their axes are in order, and as long as nothing is
\* lost a table, and what a scan goes by, is one that the store can become;
\* directories are listed only then when there is no consolidated metadata.
TablesOK ==
    /\ table # <<>> => AxesInOrder(table[1].meta)
    /\ lost = 0 => /\ table # <<>> => table[1].meta \in Tables(store)
                   /\ phase = "reading" => scan[1].meta[1] \in Tables(store)
                   /\ phase \in {"version", "arrays"} => ~Consolidates(store)
                   /\ phase = "arrays" => version = store.format
    /\ phase = "arrays" => View = store

\* Metadata that a table can be made of after a step.
Sound(meta) == AxesInOrder(meta) /\ (lost' = 0 => meta \in Tables(store))

\* A table that the store can become is one.
LEMMA TableIsSound ==
    ASSUME store \in Stores, NEW meta \in Tables(store)
    PROVE  Sound(meta)
  BY TablesAre, StoresAssumption DEF Sound

\* A registration or a query fails.
LEMMA FailsSoundly ==
    ASSUME TablesOK, Fail, UNCHANGED store, lost' = 0 => lost = 0
    PROVE  TablesOK'
  BY DEF TablesOK, Fail

\* The discovery goes on elsewhere.
LEMMA MovesSoundly ==
    ASSUME TablesOK, UNCHANGED <<store, table>>, lost' = 0 => lost = 0,
           phase' \notin {"version", "arrays", "reading"}
    PROVE  TablesOK'
  BY DEF TablesOK

\* A table is registered.
LEMMA RegistersSoundly ==
    ASSUME table = <<>>, NEW meta, Sound(meta), NEW kind, NEW cached, NEW virtual,
           Register(meta, kind, cached, virtual), UNCHANGED store
    PROVE  TablesOK'
  <1>1. \/ table' = <<>> /\ phase' = "failed"
        \/ table' = NewTable(meta, kind, cached, virtual) /\ phase' = "ready"
    BY DEF Register, Fail
  <1>2. CASE table' = <<>> /\ phase' = "failed"
    BY <1>2 DEF TablesOK
  <1>3. CASE table' = NewTable(meta, kind, cached, virtual) /\ phase' = "ready"
    <2>1. table'[1].meta = meta
      BY <1>3 DEF NewTable
    <2> QED
      BY <1>3, <2>1 DEF TablesOK, Sound
  <1> QED
    BY <1>1, <1>2, <1>3

\* Arrays are discovered.
LEMMA DiscoversSoundly ==
    ASSUME IInv, Discovering, TablesOK, NEW meta, Sound(meta), Discovered(meta), UNCHANGED store,
           lost' = 0 => lost = 0
    PROVE  TablesOK'
  <1>1. CASE table = <<>>
    BY <1>1, RegistersSoundly DEF Discovered
  <1>2. CASE table # <<>>
    <2>1. scan' = <<[scan[1] EXCEPT !.meta = <<meta>>]>> /\ UNCHANGED table /\ phase' = "reading"
      BY <1>2 DEF Discovered
    <2>2. "meta" \in DOMAIN scan[1]
      BY <1>2 DEF IInv, TableAndScan, Discovering
    <2>3. scan'[1].meta[1] = meta
      BY <2>1, <2>2
    <2> QED
      BY <1>2, <2>1, <2>3 DEF TablesOK, Sound
  <1> QED
    BY <1>1, <1>2

\* A directory becomes a table.
LEMMA CreateLocalSound ==
    ASSUME IInv, TablesOK, CreateLocal
    PROVE  TablesOK'
  <1>1. /\ store \in Stores /\ ~IsRemote /\ table = <<>> /\ handle = "plain" /\ UNCHANGED <<store, lost>>
    BY DEF CreateLocal, Delivered, IInv, Typed, TableAndScan, RemoteOK
  <1>2. CASE Fail
    BY <1>1, <1>2, FailsSoundly
  <1>3. ASSUME NEW l \in Listings(View), DiscoverArrays(View, l) # <<>>,
               Register(DiscoverArrays(View, l)[1], "zarr", FALSE, FALSE)
        PROVE  TablesOK'
    <2>1. ~store.icechunk /\ View = store
      BY <1>1, <1>3, HiddenRepository, ViewFacts
    <2>2. DiscoverArrays(store, l)[1] \in Tables(store)
      BY <1>1, <1>3, <2>1, StoresAssumption, DiscoverLocal DEF IsRemote
    <2> QED
      BY <1>1, <1>3, <2>1, <2>2, TableIsSound, RegistersSoundly
  <1> QED
    BY <1>2, <1>3 DEF CreateLocal

\* The references of a virtual store are loaded, with its metadata.
LEMMA NewAdapterSound ==
    ASSUME IInv, HandleOK, TablesOK, NewAdapter
    PROVE  TablesOK'
  <1>1. /\ store \in Stores /\ IsRemote /\ table = <<>> /\ UNCHANGED store /\ store.format = "refs"
        /\ phase = "adapter"
    BY DEF NewAdapter, IInv, Typed, TableAndScan, RemoteOK, HandleOK
  <1>2. StoreOK(store) /\ Consolidates(store) /\ ~KeepsScalars(store)
    BY <1>1, ReferenceStore DEF Consolidates, KeepsScalars, IsRemote
  <1>3. CASE Fail
    BY <1>1, <1>3 DEF Fail, TablesOK
  <1>4. CASE Register(SeparateAndSortNoStats(FromZmetadata(store)), "zarr", FALSE, TRUE)
    BY <1>1, <1>2, <1>4, ConsolidatedTable, TableIsSound, RegistersSoundly
  <1> QED
    BY <1>3, <1>4 DEF NewAdapter

\* What can be discovered by requests: repositories and remote stores.
LEMMA DiscoveredRemotely ==
    ASSUME IInv, Discovering
    PROVE  StoreOK(store) /\ store \in Stores /\ ~KeepsScalars(store)
  BY StoresAssumption DEF IInv, Typed, LocalOK, KeepsScalars, IsRemote

\* Consolidated metadata is read.
LEMMA ReadZmetadataSound ==
    ASSUME IInv, TablesOK, ReadZmetadata
    PROVE  TablesOK'
  <1>1. /\ store \in Stores /\ UNCHANGED <<store, handle>> /\ Typed /\ phase = "zmetadata" /\ Discovering
    BY DEF ReadZmetadata, IInv, Typed, Discovering
  <1>2. StoreOK(store) /\ ~KeepsScalars(store)
    BY <1>1, DiscoveredRemotely
  <1>3. /\ View.zmeta = store.zmeta \/ (View.zmeta = <<>> /\ store.icechunk)
        /\ store.icechunk => store.zmeta = <<>>
    BY <1>1, <1>2, ViewFacts DEF StoreOK
  <1>4. CASE Delivered /\ Fail
    BY <1>1, <1>4, FailsSoundly DEF Delivered
  <1>5. CASE Lose(1) /\ phase' = "version" /\ UNCHANGED <<table, scan>>
    <2>1. lost' # 0
      BY <1>1, <1>5, LossesStay
    <2> QED
      BY <1>1, <1>5, <2>1 DEF TablesOK
  <1>6. CASE /\ Delivered /\ phase' = "version" /\ UNCHANGED <<table, scan>>
             /\ View.zmeta # <<>> => View.zmeta[1].keys = <<>>
    <2>1. ~Consolidates(store)
      BY <1>3, <1>6 DEF Consolidates
    <2> QED
      BY <1>1, <1>6, <2>1 DEF TablesOK, Delivered
  <1>7. CASE /\ Delivered /\ View.zmeta # <<>> /\ View.zmeta[1].keys # <<>>
             /\ Discovered(SeparateAndSortNoStats(FromZmetadata(store)))
    <2>1. Consolidates(store)
      BY <1>3, <1>7 DEF Consolidates
    <2>2. Sound(SeparateAndSortNoStats(FromZmetadata(store)))
      BY <1>1, <1>2, <2>1, ConsolidatedTable, TableIsSound
    <2> QED
      BY <1>1, <1>7, <2>2, DiscoversSoundly DEF Delivered
  <1> QED
    BY <1>4, <1>5, <1>6, <1>7 DEF ReadZmetadata

\* Nothing is lost after a step of a discovery only if nothing was before.
LEMMA LosesLater ==
    ASSUME IInv, DetectVersionAsync \/ DiscoverV2Async \/ DiscoverV3Async
    PROVE  lost' = 0 => lost = 0
  <1>1. lost \in Nat /\ lost' \in lost .. MaxFaults /\ MaxFaults \in Nat
    BY DiscoveryLoses, BoundsAssumption DEF IInv, Typed
  <1> QED
    BY <1>1

\* The version is detected: there is none in a repository that is not opened.
LEMMA DetectVersionSound ==
    ASSUME IInv, TablesOK, DetectVersionAsync
    PROVE  TablesOK'
  <1>1. /\ store \in Stores /\ phase = "version" /\ UNCHANGED <<store, handle>> /\ (lost' = 0 => lost = 0)
        /\ Typed
    BY LosesLater DEF IInv, Typed, DetectVersionAsync
  <1>2. StoreOK(store)
    BY <1>1, StoresAssumption
  <1>3. PICK root \in SUBSET (View.root \cap {"zarr.json", ".zgroup"}), seen \in SUBSET DOMAIN View.arrays :
           LET v == DetectVersion(View, root, seen)
           IN /\ version' = v
              /\ Fail \/ (v # "none" /\ phase' = "arrays" /\ UNCHANGED <<table, scan>>)
    BY DEF DetectVersionAsync, NoVersion
  <1>4. CASE Fail
    BY <1>1, <1>4, FailsSoundly
  <1>5. CASE DetectVersion(View, root, seen) # "none" /\ phase' = "arrays" /\ UNCHANGED <<table, scan>>
    <2>1. View = store
      <3>1. CASE store.icechunk /\ handle # "icechunk"
        <4>1. View = [store EXCEPT !.root = {}, !.arrays = <<>>, !.zmeta = <<>>, !.refs = <<>>]
          BY <3>1 DEF View
        <4>2. View.root = {} /\ View.arrays = <<>>
          BY <1>2, <4>1 DEF StoreOK
        <4>3. DOMAIN View.arrays = {}
          BY <4>2
        <4>4. root = {} /\ seen = {}
          BY <4>2, <4>3
        <4> QED
          BY <1>5, <4>4 DEF DetectVersion
      <3>2. CASE ~(store.icechunk /\ handle # "icechunk")
        BY <3>2 DEF View
      <3> QED
        BY <3>1, <3>2
    <2>2. View' = store'
      BY <1>1, <2>1 DEF View
    <2>3. ASSUME lost' = 0
          PROVE  version' = store.format /\ ~Consolidates(store) /\ lost = 0
      <3>1. lost = 0 /\ ~Consolidates(store)
        BY <1>1, <2>3 DEF TablesOK
      <3>2. store.format # "refs"
        BY <1>2, <3>1 DEF StoreOK, Consolidates
      <3>3. root \in SUBSET store.root
        BY <2>1
      <3>4. DetectVersion(store, root, seen) \in {"none", store.format}
        BY <1>2, <3>2, <3>3, VersionIs
      <3> QED
        BY <1>3, <1>5, <2>1, <3>1, <3>4
    <2> QED
      BY <1>1, <1>5, <2>2, <2>3 DEF TablesOK
  <1> QED
    BY <1>3, <1>4, <1>5

\* Nothing is lost only if no part of it is.
LEMMA NoneLost ==
    ASSUME Typed, NEW S, IsFiniteSet(S), NEW T \in SUBSET S, Lose(Cardinality(T)), lost' = 0
    PROVE  lost = 0 /\ T = {}
  <1>1. IsFiniteSet(T) /\ Cardinality(T) \in Nat
    BY SizeOfPart
  <1>2. lost = 0 /\ Cardinality(T) = 0
    BY <1>1, LossesStay
  <1> QED
    BY <1>1, <1>2, FS_EmptySet

\* The arrays of a V2 store are read.
LEMMA DiscoverV2Sound ==
    ASSUME IInv, TablesOK, DiscoverV2Async
    PROVE  TablesOK'
  <1>1. /\ store \in Stores /\ phase = "arrays" /\ version = "v2" /\ UNCHANGED <<store, handle>>
        /\ (lost' = 0 => lost = 0) /\ Typed /\ View = store /\ Discovering
    BY LosesLater DEF IInv, Typed, DiscoverV2Async, TablesOK, Discovering
  <1>2. StoreOK(store) /\ ~KeepsScalars(store) /\ IsFiniteSet(DOMAIN store.arrays)
    BY <1>1, DiscoveredRemotely DEF StoreOK
  <1>3. CASE Fail
    BY <1>1, <1>3, FailsSoundly
  <1>4. CASE ~Fail
    <2> DEFINE Found(l, got) == SelectAt(l, {i \in DOMAIN l : store.format = "v2" /\ got[l[i]] # "lost"})
               Metas(read, got) ==
                   [i \in DOMAIN read |->
                       V2Meta(read[i], store.arrays[read[i]],
                              IF got[read[i]] = "all" THEN store.arrays[read[i]].attrs ELSE "none")]
    <2>1. PICK l \in Listings(store), got \in [DOMAIN store.arrays -> {"all", "noattrs", "lost"}] :
             /\ Lose(Cardinality({n \in DOMAIN got : got[n] # "all"}))
             /\ \A n \in ToSet(Found(l, got)) : store.arrays[n].doc # "bad"
             /\ Discovered(SeparateAndSortNoStats(Metas(Found(l, got), got)))
      BY <1>1, <1>4 DEF DiscoverV2Async, CannotList
    <2> DEFINE K == {n \in DOMAIN store.arrays : store.format = "v2" /\ got[n] # "lost"}
               read == Found(l, got)
               metas == Metas(read, got)
    <2>2. read = SelectAt(l, {i \in DOMAIN l : l[i] \in K})
      <3>1. \A i \in DOMAIN l : l[i] \in DOMAIN store.arrays
        BY DEF Listings
      <3>2. {i \in DOMAIN l : store.format = "v2" /\ got[l[i]] # "lost"} = {i \in DOMAIN l : l[i] \in K}
        BY <3>1
      <3> QED
        BY <3>2
    <2>3. K \in SUBSET DOMAIN store.arrays
      OBVIOUS
    <2> HIDE DEF Found, K
    <2>4. read \in Seq(K) /\ IsInjective(read) /\ ToSet(read) = K
      BY <1>2, <2>2, <2>3, Selected
    <2> USE DEF K
    <2>5. read \in Seq(DOMAIN store.arrays)
      BY <2>3, <2>4
    <2>6. AxesInOrder(SeparateAndSortNoStats(metas))
      <3>1. metas = [i \in DOMAIN read |-> metas[i]]
        OBVIOUS
      <3>2. ASSUME NEW i \in DOMAIN read
            PROVE  \E type, time, dims : metas[i] = ArrayMeta(read[i], store.arrays[read[i]], type, time, dims)
        <4>1. PICK attrs : metas[i] = V2Meta(read[i], store.arrays[read[i]], attrs)
          OBVIOUS
        <4> HIDE DEF metas, read
        <4>2. \E type, time, dims : V2Meta(read[i], store.arrays[read[i]], attrs) =
                                    ArrayMeta(read[i], store.arrays[read[i]], type, time, dims)
          BY DEF V2Meta
        <4> QED
          BY <4>1, <4>2
      <3>3. ArraysFrom(metas, store, read)
        BY <2>4, <2>5, <3>1, <3>2 DEF ArraysFrom
      <3> QED
        BY <1>2, <3>3, AlwaysInOrder
    <2>7. ASSUME lost' = 0
          PROVE  SeparateAndSortNoStats(metas) \in Tables(store)
      <3>1. {n \in DOMAIN got : got[n] # "all"} = {} /\ lost = 0
        <4>1. {n \in DOMAIN got : got[n] # "all"} \in SUBSET DOMAIN store.arrays
          OBVIOUS
        <4> QED
          BY <1>1, <1>2, <2>1, <2>7, <4>1, NoneLost
      <3>2. \A n \in DOMAIN store.arrays : got[n] = "all"
        BY <3>1
      <3>3. store.format = "v2" /\ ~Consolidates(store)
        BY <1>1, <3>1 DEF TablesOK
      <3>4. K = DOMAIN store.arrays
        BY <3>2, <3>3
      <3>5. K = Legible(store)
        BY <1>2, <2>1, <2>4, <3>3, <3>4 DEF Legible, StoreOK
      <3>6. read \in Orders(store)
        BY <2>4, <3>3, <3>5 DEF Orders
      <3>7. metas = ArraysOf(store, read)
        <4>1. \A i \in DOMAIN read : read[i] \in DOMAIN store.arrays
          BY <2>5, SeqPlaces
        <4>2. \A i \in DOMAIN read : got[read[i]] = "all"
          BY <3>2, <4>1
        <4> QED
          BY <3>3, <4>2 DEF ArraysOf, Inferred
      <3> HIDE DEF metas, read
      <3> QED
        BY <1>2, <3>6, <3>7 DEF Tables, TableOf
    <2>8. Sound(SeparateAndSortNoStats(metas))
      BY <2>6, <2>7 DEF Sound
    <2> HIDE DEF metas
    <2>9. Discovered(SeparateAndSortNoStats(metas))
      BY <2>1 DEF metas
    <2> QED
      BY <1>1, <2>8, <2>9, DiscoversSoundly
  <1> QED
    BY <1>3, <1>4

\* Those of a V3 store.
LEMMA DiscoverV3Sound ==
    ASSUME IInv, TablesOK, DiscoverV3Async
    PROVE  TablesOK'
  <1>1. /\ store \in Stores /\ phase = "arrays" /\ version = "v3" /\ UNCHANGED <<store, handle>>
        /\ (lost' = 0 => lost = 0) /\ Typed /\ View = store /\ Discovering
    BY LosesLater DEF IInv, Typed, DiscoverV3Async, TablesOK, Discovering
  <1>2. StoreOK(store) /\ ~KeepsScalars(store) /\ IsFiniteSet(DOMAIN store.arrays)
    BY <1>1, DiscoveredRemotely DEF StoreOK
  <1>3. CASE Fail
    BY <1>1, <1>3, FailsSoundly
  <1>4. CASE ~Fail
    <2> DEFINE Kept(n, missed) == /\ store.format = "v3" /\ n \notin missed
                                  /\ store.arrays[n].doc # "bad" /\ store.arrays[n].node = "array"
               Found(l, missed) == SelectAt(l, {i \in DOMAIN l : Kept(l[i], missed)})
               Metas(read) == [i \in DOMAIN read |-> V3Meta(read[i], store.arrays[read[i]])]
    <2>1. PICK l \in Listings(store), missed \in SUBSET DOMAIN store.arrays :
             /\ Lose(Cardinality(missed))
             /\ Discovered(SeparateAndSortNoStats(Metas(Found(l, missed))))
      BY <1>1, <1>4 DEF DiscoverV3Async, CannotList
    <2> DEFINE K == {n \in DOMAIN store.arrays : Kept(n, missed)}
               read == Found(l, missed)
               metas == Metas(read)
    <2>2. read = SelectAt(l, {i \in DOMAIN l : l[i] \in K})
      <3>1. \A i \in DOMAIN l : l[i] \in DOMAIN store.arrays
        BY DEF Listings
      <3>2. {i \in DOMAIN l : Kept(l[i], missed)} = {i \in DOMAIN l : l[i] \in K}
        BY <3>1
      <3> QED
        BY <3>2
    <2>3. K \in SUBSET DOMAIN store.arrays
      OBVIOUS
    <2> HIDE DEF Found, K
    <2>4. read \in Seq(K) /\ IsInjective(read) /\ ToSet(read) = K
      BY <1>2, <2>2, <2>3, Selected
    <2> USE DEF K
    <2>5. read \in Seq(DOMAIN store.arrays)
      BY <2>3, <2>4
    <2>6. AxesInOrder(SeparateAndSortNoStats(metas))
      <3>1. metas = [i \in DOMAIN read |-> metas[i]]
        OBVIOUS
      <3>2. \A i \in DOMAIN read : \E type, time, dims :
               metas[i] = ArrayMeta(read[i], store.arrays[read[i]], type, time, dims)
        BY MetaIs
      <3>3. ArraysFrom(metas, store, read)
        BY <2>4, <2>5, <3>1, <3>2 DEF ArraysFrom
      <3> QED
        BY <1>2, <3>3, AlwaysInOrder
    <2>7. ASSUME lost' = 0
          PROVE  SeparateAndSortNoStats(metas) \in Tables(store)
      <3>1. missed = {} /\ lost = 0
        BY <1>1, <1>2, <2>1, <2>7, NoneLost
      <3>2. store.format = "v3" /\ ~Consolidates(store)
        BY <1>1, <3>1 DEF TablesOK
      <3>3. K = Legible(store)
        BY <3>1, <3>2 DEF Legible
      <3>4. read \in Orders(store)
        BY <2>4, <3>2, <3>3 DEF Orders
      <3>5. metas = ArraysOf(store, read)
        BY <3>2 DEF ArraysOf, Inferred
      <3> HIDE DEF metas, read
      <3> QED
        BY <1>2, <3>4, <3>5 DEF Tables, TableOf
    <2>8. Sound(SeparateAndSortNoStats(metas))
      BY <2>6, <2>7 DEF Sound
    <2> HIDE DEF metas
    <2>9. Discovered(SeparateAndSortNoStats(metas))
      BY <2>1 DEF metas
    <2> QED
      BY <1>1, <2>8, <2>9, DiscoversSoundly
  <1> QED
    BY <1>3, <1>4

\* Requests keep what is known of tables.
LEMMA RequestSound ==
    ASSUME IInv, HandleOK, TablesOK, Request
    PROVE  TablesOK'
  <1>1. UNCHANGED store /\ lost \in Nat /\ lost' \in Nat /\ lost <= lost'
    BY StoreStays, LossesGrow DEF Next
  <1>2. lost' = 0 => lost = 0
    BY <1>1
  <1>3. CASE CreateStore \/ IsIcechunkStore \/ IsVirtualizarrStoreAsync
    <2>1. UNCHANGED table /\ phase' \notin {"version", "arrays", "reading"}
      BY <1>3 DEF CreateStore, IsIcechunkStore, IsVirtualizarrStoreAsync
    <2> QED
      BY <1>1, <1>2, <2>1, MovesSoundly
  <1>4. CASE OpenIcechunk
    <2>1. CASE Fail
      BY <1>1, <1>2, <2>1, FailsSoundly
    <2>2. CASE UNCHANGED table /\ phase' = "zmetadata"
      BY <1>1, <1>2, <2>2, MovesSoundly
    <2> QED
      BY <1>4, <2>1, <2>2 DEF OpenIcechunk
  <1> QED
    BY <1>3, <1>4, CreateLocalSound, NewAdapterSound, ReadZmetadataSound, DetectVersionSound,
       DiscoverV2Sound, DiscoverV3Sound DEF Request

\* A scan begins with the table that was kept, with none, or with another look.
LEMMA StartScanSound ==
    ASSUME IInv, TablesOK, NEW at, StartScan(at)
    PROVE  TablesOK'
  <1> DEFINE exec == IF at = "worker" THEN ShippedExec(table[1]) ELSE table[1]
  <1>1. /\ store \in Stores /\ StoreOK(store) /\ table # <<>> /\ phase = "ready"
        /\ UNCHANGED <<store, lost, version>>
    BY StoresAssumption DEF StartScan, IInv, Typed, TableAndScan
  <1>2. exec.meta = table[1].meta
    BY <1>1 DEF IInv, TableAndScan, ShippedExec
  <1>3. \/ exec.adapter /\ ExecuteWithAdapter(at)
        \/ ~IsRemote /\ IsVirtualizarrStore(store) /\ ExecuteVirtualizarr(at)
        \/ ~exec.adapter /\ (IsRemote \/ exec.cached \/ exec.store_kind # "zarr") /\ ExecuteRemote(exec, at)
        \/ ~IsRemote /\ ~IsVirtualizarrStore(store) /\ exec.store_kind = "zarr" /\ ExecuteLocal(at)
    BY ScanPaths
  <1>10. exec.store_kind = table[1].store_kind
    BY <1>1 DEF IInv, TableAndScan, ShippedExec
  <1>4. IInv'
    BY StartScanStep
  <1> HIDE DEF exec
  <1>5. ASSUME UNCHANGED table, phase' = "reading", NEW meta, meta # <<>> => meta[1] \in Tables(store),
               scan' = <<[at |-> at, meta |-> meta, reads |-> 0]>>
        PROVE  TablesOK'
    <2>1. scan'[1].meta = meta /\ meta # <<>>
      BY <1>4, <1>5 DEF IInv, TableAndScan
    <2> QED
      BY <1>1, <1>5, <2>1 DEF TablesOK
  <1>6. CASE ExecuteWithAdapter(at)
    BY <1>1, <1>6, MovesSoundly DEF ExecuteWithAdapter
  <1>7. CASE ~IsRemote /\ IsVirtualizarrStore(store) /\ ExecuteVirtualizarr(at)
    <2>1. Consolidates(store) /\ ~store.icechunk
      BY <1>1, <1>7 DEF IsVirtualizarrStore, StoreOK, Consolidates
    <2>2. DiscoverArrays(store, <<>>) # <<>> => DiscoverArrays(store, <<>>)[1] \in Tables(store)
      BY <1>1, <1>7, <2>1, DiscoverLocal DEF IsRemote
    <2> QED
      BY <1>5, <1>7, <2>2 DEF ExecuteVirtualizarr
  <1>8. CASE ExecuteRemote(exec, at)
    <2>1. CASE exec.cached
      <3>1. scan' = <<[at |-> at, meta |-> <<exec.meta>>, reads |-> 0]>> /\ phase' = "reading" /\ UNCHANGED table
        BY <1>8, <2>1 DEF ExecuteRemote
      <3>2. scan'[1].meta[1] = table[1].meta
        BY <1>2, <3>1
      <3> QED
        BY <1>1, <3>1, <3>2 DEF TablesOK
    <2>2. CASE ~exec.cached
      <3>1. UNCHANGED table /\ phase' \in {"open", "zmetadata"}
        BY <1>8, <2>2 DEF ExecuteRemote
      <3> QED
        BY <1>1, <3>1, MovesSoundly
    <2> QED
      BY <2>1, <2>2
  <1>9. CASE ~IsRemote /\ ~IsVirtualizarrStore(store) /\ exec.store_kind = "zarr" /\ ExecuteLocal(at)
    <2>1. PICK l \in Listings(View) : scan' = <<[at |-> at, meta |-> DiscoverArrays(View, l), reads |-> 0]>>
      BY <1>9 DEF ExecuteLocal
    <2>2. DiscoverArrays(View, l) # <<>> => DiscoverArrays(View, l)[1] \in Tables(store)
      <3>1. CASE store.icechunk
        <4>1. handle # "icechunk"
          BY <1>1, <1>9, <1>10 DEF IInv, LocalOK, LocalTable
        <4> QED
          BY <1>1, <3>1, <4>1, HiddenRepository
      <3>2. CASE ~store.icechunk
        <4>1. View = store
          BY <1>1, <3>2, ViewFacts
        <4> QED
          BY <1>1, <1>9, <3>2, <4>1, DiscoverLocal DEF IsRemote
      <3> QED
        BY <3>1, <3>2
    <2> QED
      BY <1>5, <1>9, <2>1, <2>2 DEF ExecuteLocal
  <1> QED
    BY <1>3, <1>6, <1>7, <1>8, <1>9

\* A chunk that is read, or not, changes no table.
LEMMA ReadSomeSound ==
    ASSUME IInv, TablesOK, ReadSome
    PROVE  TablesOK'
  <1>1. PICK n, idx, part : ReadChunk(n, idx, part)
    BY DEF ReadSome
  <1>2. UNCHANGED store /\ (lost' = 0 => lost = 0)
    BY <1>1, LossesStay DEF ReadChunk, Delivered, IInv
  <1>3. \/ Fail
        \/ /\ scan' = <<[scan[1] EXCEPT !.reads = @ + 1]>> /\ UNCHANGED <<phase, table>>
           /\ phase = "reading"
    BY <1>1 DEF ReadChunk
  <1>4. CASE Fail
    BY <1>2, <1>4, FailsSoundly
  <1>5. CASE /\ scan' = <<[scan[1] EXCEPT !.reads = @ + 1]>> /\ UNCHANGED <<phase, table>>
             /\ phase = "reading"
    <2>1. scan'[1].meta = scan[1].meta
      BY <1>5 DEF IInv, TableAndScan
    <2> QED
      BY <1>2, <1>5, <2>1 DEF TablesOK
  <1> QED
    BY <1>3, <1>4, <1>5

\* Tables are those of the store.
LEMMA TablesStep ==
    ASSUME IInv, HandleOK, TablesOK, [Next]_vars
    PROVE  TablesOK'
  <1>1. CASE Request
    BY <1>1, RequestSound
  <1>2. CASE \E at \in {"head", "worker"} : StartScan(at)
    BY <1>2, StartScanSound
  <1>3. CASE ReadSome
    BY <1>3, ReadSomeSound
  <1>4. CASE FinishScan
    <2>1. UNCHANGED <<store, table, lost>> /\ phase' = "ready"
      BY <1>4 DEF FinishScan
    <2> QED
      BY <2>1, MovesSoundly
  <1>5. CASE UNCHANGED vars
    BY <1>5 DEF vars, TablesOK, View
  <1> QED
    BY <1>1, <1>2, <1>3, <1>4, <1>5 DEF Next, Terminated

\* The invariants of the proofs hold together.
LEMMA TablesHold == Spec => [](IInv /\ TablesOK)
  <1>1. Init => RepositoryOK /\ AdapterOK /\ HandleOK /\ ProbedOK /\ TablesOK
    BY DEF Init, RepositoryOK, AdapterOK, HandleOK, ProbedOK, TablesOK, Discovering
  <1>2. IInv /\ IInv' /\ RepositoryOK /\ AdapterOK /\ HandleOK /\ TablesOK /\ [Next]_vars
           => RepositoryOK' /\ AdapterOK' /\ HandleOK' /\ TablesOK'
    BY RepositoryStep, AdapterStep, HandleStep, TablesStep
  <1> QED
    BY <1>1, <1>2, IInvHolds, PTL DEF Spec

\* Whatever was lost, the coordinates of a table, each once, come in the order of
\* the axes of a variable; if nothing was, the table has all arrays of the store
\* that can be columns, each once, with the dimensions they were given, whether
\* its metadata came from a directory, from consolidated metadata, from an adapter
\* or from requests.
THEOREM TableIsTheStoreHolds == Spec => []TableIsTheStore
  <1>1. IInv /\ TablesOK => TableIsTheStore
    <2> SUFFICES ASSUME IInv, TablesOK, table # <<>>
                 PROVE  TableIsTheStore
      BY DEF TableIsTheStore
    <2>1. StoreOK(store)
      BY StoresAssumption DEF IInv, Typed
    <2>2. AxesInOrder(table[1].meta)
      BY DEF TablesOK
    <2>3. lost = 0 /\ Complete(store) => TabulatesAll(table[1].meta, store)
      BY <2>1, TablesAre DEF TablesOK
    <2> QED
      BY <2>2, <2>3 DEF TableIsTheStore, TabulatesAll
  <1> QED
    BY <1>1, TablesHold, PTL

\* As long as no request is lost, every scan, on the head or on a worker, reads
\* the very cube that was registered, if the metadata is consolidated or no two
\* coordinates have one length.
THEOREM ScansSeeTheTableHolds == Spec => []ScansSeeTheTable
  <1>1. IInv /\ TablesOK => ScansSeeTheTable
    <2> SUFFICES ASSUME IInv, TablesOK, phase = "reading", lost = 0, DistinctSizes(store) \/ Consolidates(store)
                 PROVE  scan[1].meta[1] = table[1].meta
      BY DEF ScansSeeTheTable
    <2>1. StoreOK(store) /\ table # <<>>
      BY StoresAssumption DEF IInv, Typed, TableAndScan
    <2>2. scan[1].meta[1] \in Tables(store) /\ table[1].meta \in Tables(store)
      BY <2>1 DEF TablesOK
    <2> QED
      BY <2>1, <2>2, OneTableOnly
  <1> QED
    BY <1>1, TablesHold, PTL
=============================================================================
