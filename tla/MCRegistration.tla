--------------------------- MODULE MCRegistration ---------------------------
(* Stores with up to four arrays: every format, place and way to register.   *)
EXTENDS Registration

F8 == <<"f", 8>>

\* Arrays of a Zarr store, and one with its dimensions named.
Array(shape, chunks) ==
    [node |-> "array", doc |-> "ok", shape |-> shape, chunks |-> chunks, raw |-> F8,
     attrs |-> "plain", dims |-> NoDims, native |-> NoDims,
     vals |-> IF Len(shape) = 1 THEN [i \in 1 .. shape[1] |-> i] ELSE <<>>]

Named(a, names) == [a EXCEPT !.dims = names]

Native(a, names) == [a EXCEPT !.native = names, !.attrs = "none"]

\* A time axis of two, a grid axis of three, and a variable with both, which
\* sorts first.
Cube == <<Named(Array(<<2, 3>>, <<1, 2>>), <<3, 2>>),
          Named(Array(<<3>>, <<2>>), <<2>>),
          [Named(Array(<<2>>, <<2>>), <<3>>) EXCEPT !.raw = <<"M", 8>>, !.attrs = "since"]>>

\* With a scalar.
CubeAndScalar == Append(Cube, Array(<<>>, <<>>))

\* Square, with equal lengths.
Square == <<Array(<<2>>, <<2>>), Array(<<2, 2>>, <<1, 2>>), Array(<<2>>, <<1>>)>>

\* Coordinates that no variable spans.
Loose == <<Array(<<3>>, <<2>>), Array(<<2>>, <<2>>), Array(<<4, 2>>, <<1, 2>>)>>

CubeV3 ==
    <<Native(Array(<<2, 3>>, <<1, 2>>), <<3, Null>>), Native(Array(<<3>>, <<2>>), <<2>>),
      Array(<<2>>, <<2>>), [Array(<<>>, <<>>) EXCEPT !.node = "group"]>>

Broken(arrays) == [arrays EXCEPT ![1].doc = "bad"]

Store(client, scheme, format, arrays) ==
    [client |-> client, scheme |-> scheme, icechunk |-> FALSE, format |-> format, arrays |-> arrays,
     root |-> {}, zmeta |-> <<>>, refs |-> [n \in DOMAIN arrays |-> <<>>], sep |-> ".", objects |-> {}]

Rooted(s) == [s EXCEPT !.root = {IF s.format = "v3" THEN "zarr.json" ELSE ".zgroup"}]

Consolidated(s, keys, json) == [s EXCEPT !.zmeta = <<[keys |-> keys, json |-> json]>>]

Repository(s) == Rooted([s EXCEPT !.icechunk = TRUE])

\* References to consecutive chunks, one file after another: a path is a number.
Ref(bucket, path) == [inline |-> bucket = NoSource, bucket |-> bucket, path |-> path]

\* sizes is the number of rows of each file.
Files(bucket, base, sizes) ==
    LET Start(k) == IF k = 1 THEN 0 ELSE IF k = 2 THEN sizes[1] ELSE (k - 1) * sizes[1]
    IN [k \in DOMAIN sizes |->
          [ok |-> TRUE, refs |-> [i \in 1 .. sizes[k] |-> Ref(bucket, base + Start(k) + i)]]]

\* The cube as references: the variable has four chunks, in files of two; the
\* coordinates are inline.
Virtual(client, scheme, keys) ==
    LET s == Store(client, scheme, "refs", Cube)
    IN [Consolidated(s, keys, "nan") EXCEPT
           !.refs = <<Files(1, 10, <<2, 2>>), Files(NoSource, 20, <<2>>), Files(NoSource, 30, <<1>>)>>,
           !.objects = {<<1, p>> : p \in 11 .. 14},
           !.root = {".zgroup"}]

\* Nothing that could be a column.
Scalars == <<Array(<<>>, <<>>)>>

LocalStores ==
    {Rooted(Store("factory", "fs", "v3", <<>>)),
     Store("factory", "fs", "v2", Square), Rooted(Store("head", "fs", "v2", CubeAndScalar)),
     Rooted(Store("factory", "fs", "v3", CubeV3)), Store("factory", "fs", "v3", Broken(CubeV3)),
     Store("factory", "fs", "v2", Loose),
     Consolidated(Store("factory", "fs", "v2", CubeAndScalar), <<3, 1, 2, 4>>, "nan"),
     Consolidated(Store("factory", "fs", "v2", Cube), <<>>, "plain"),
     Consolidated(Store("factory", "fs", "v2", Cube), <<1, 2, 3>>, "bad")}

RemoteStores ==
    {Consolidated(Store("factory", "s3", "v2", Scalars), <<1>>, "plain"),
     Rooted(Store("factory", "http", "v2", Cube)),
     Rooted(Store("head", "gs", "v2", Scalars)), Store("factory", "gs", "v2", Loose), Rooted(Store("head", "s3", "v2", Cube)),
     Rooted(Store("factory", "gs", "v3", CubeV3)), Rooted(Store("factory", "s3", "v3", Broken(CubeV3))),
     Store("factory", "gs", "v2", Broken(Cube)), Rooted(Store("factory", "http", "v3", CubeV3)),
     Store("factory", "http", "v2", Cube),
     Consolidated(Store("factory", "http", "v2", CubeAndScalar), <<3, 1, 2, 4>>, "plain"),
     Consolidated(Store("factory", "gs", "v2", Square), <<2, 3, 1>>, "plain"),
     Consolidated(Store("factory", "gs", "v2", Cube), <<1, 2, 3>>, "nan"),
     Consolidated(Store("factory", "gs", "v2", Cube), <<2>>, "plain")}

Repositories ==
    {Repository(Store("factory", "fs", "v3", CubeV3)), Repository(Store("factory", "gs", "v3", Loose)),
     Repository(Store("factory", "http", "v3", CubeV3)), Repository(Store("head", "fs", "v3", CubeV3))}

\* The references of the third array are not probed; of the last stores, some
\* are not found or found wrong.
VirtualStores ==
    {[Consolidated(Store("factory", "gs", "refs", Scalars), <<1>>, "nan") EXCEPT
         !.refs = <<Files(NoSource, 20, <<1>>)>>],
     Virtual("factory", "gs", <<1, 2, 3>>), Virtual("factory", "fs", <<2, 3, 1>>),
     Virtual("head", "gs", <<1, 2, 3>>), Virtual("head", "fs", <<1, 2, 3>>),
     [Virtual("factory", "s3", <<2, 3, 1>>) EXCEPT !.refs[2] = <<>>, !.refs[3] = <<>>],
     [Virtual("factory", "gs", <<1, 2, 3>>) EXCEPT !.refs[1] = Files(1, 10, <<1, 1, 1, 1>>)],
     [Virtual("factory", "gs", <<1, 2, 3>>) EXCEPT !.refs[1][2].ok = FALSE],
     [Virtual("factory", "fs", <<1, 2, 3>>) EXCEPT !.refs[1][1].ok = FALSE],
     [Virtual("factory", "fs", <<1, 2, 3>>) EXCEPT !.sep = "/"],
     [Virtual("factory", "gs", <<1, 2, 3>>) EXCEPT !.refs[1] = Files(1, 10, <<2, 1>>)],
     [Virtual("head", "fs", <<1, 2, 3>>) EXCEPT !.objects = {<<1, 11>>}],
     [Virtual("factory", "fs", <<1, 2, 3>>) EXCEPT
         !.refs[2] = Files(2, 20, <<2>>), !.objects = @ \cup {<<2, p>> : p \in 10 .. 30}],
     [Virtual("factory", "fs", <<1, 2, 3>>) EXCEPT
         !.arrays[1].shape = <<12, 1>>, !.arrays[3].shape = <<12>>, !.arrays[3].chunks = <<12>>,
         !.arrays[2].shape = <<1>>, !.arrays[2].chunks = <<1>>,
         !.refs[1] = Files(1, 10, [k \in 1 .. 12 |-> 1]), !.objects = {<<1, p>> : p \in 11 .. 22}]}

MCStores == LocalStores \cup RemoteStores \cup Repositories \cup VirtualStores
=============================================================================
