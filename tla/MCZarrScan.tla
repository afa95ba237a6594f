----------------------------- MODULE MCZarrScan -----------------------------
(* Queries over a cube of 4 x 3 cells chunked 2 x 1 and one of 2 x 3 x 4.    *)
EXTENDS ZarrScan

Span(S) == [form |-> "span", keep |-> S]
List(S) == [form |-> "list", keep |-> S]
Date(S) == [form |-> "date", keep |-> S]

Lim(n, at) == [n |-> n, at |-> at]
Unlimited  == Lim(NoLimit, "rule")

Query(sizes, chunks, variables, v, filters, lim, target, tasks) ==
    [sizes |-> sizes, chunks |-> chunks, coord_chunk |-> 3, vars |-> variables, var |-> v,
     filter |-> filters, limit |-> lim.n, limit_at |-> lim.at,
     target |-> target, tasks |-> tasks, store |-> "zarr"]

Plane(f, g, lim, target, tasks) ==
    Query(<<4, 3>>, <<2, 1>>, << <<1, 2>> >>, 1, <<f, g>>, lim, target, tasks)

Cube(f, g, h, lim, target, tasks) ==
    Query(<<2, 3, 4>>, <<2, 2, 2>>, << <<1, 2, 3>> >>, 1, <<f, g, h>>, lim, target, tasks)

MCQueries ==
    {Plane(f, g, lim, target, 1) :
        f \in {NoFilter, Span({1, 2}), List({0, 3}), Date({1, 2, 3})},
        g \in {NoFilter, Span({1, 2})},
        lim \in {Unlimited, Lim(3, "rule")}, target \in {1, 2}}
    \cup {Plane(f, g, lim, 2, 3) :
        f \in {NoFilter, Date({0, 3}), Span({})}, g \in {NoFilter, Span({})},
        lim \in {Unlimited, Lim(2, "rule")}}
    \cup {Plane(f, NoFilter, Lim(n, "scan"), 3, 1) : f \in {NoFilter, List({0, 3})}, n \in {1, 5, 20}}
    \cup {[Plane(f, NoFilter, Unlimited, target, 1) EXCEPT !.chunks = <<4, 1>>] :
        f \in {List({0, 2, 3}), Date({0, 3})}, target \in {1, 2}}
    \cup {[Plane(Date({0, 1}), NoFilter, lim, 2, 1) EXCEPT !.store = s] :
        s \in {"uncached", "virtual"}, lim \in {Unlimited, Lim(2, "rule")}}
    \cup {Cube(NoFilter, g, NoFilter, lim, target, 1) :
        g \in {NoFilter, Span({1, 2})}, lim \in {Unlimited, Lim(5, "rule")}, target \in {2, 4}}

\* Small queries, answered whatever becomes of the resolution of their outer
\* filter: a series of four cells, and a plane of two by two.
Series(f, lim, target, tasks) ==
    Query(<<4>>, <<1>>, << <<1>> >>, 1, <<f>>, lim, target, tasks)

SmallQueries ==
    {Series(f, Unlimited, target, 1) : f \in {NoFilter, Span({1, 2}), List({0, 3}), Span({})}, target \in {1, 2}}
    \cup {Series(NoFilter, lim, 2, tasks) : lim \in {Unlimited, Lim(3, "rule")}, tasks \in {1, 2}}
    \cup {Series(List({0, 3}), Lim(n, "scan"), 2, 1) : n \in {1, 5}}
    \cup {Query(<<2, 2>>, <<1, 2>>, << <<1, 2>> >>, 1, <<NoFilter, NoFilter>>, Unlimited, 2, 1)}

\* A remote VirtualiZarr store, for two partitions.
AdapterQueries == {[Plane(Span({1, 2}), NoFilter, Unlimited, 2, 1) EXCEPT !.store = "adapter"]}

\* An IN list on the inner axis; on both axes.
InnerListQueries == {Plane(NoFilter, List({0, 2}), Unlimited, 1, 1)}
TwoListQueries   == {Plane(List({0, 3}), List({0, 2}), Unlimited, 1, 1)}

\* Two variables: the first has axes 2 and 3, the second all three.
Mixed(f, v, target, tasks) ==
    Query(<<4, 3, 2>>, <<2, 1, 2>>, << <<2, 3>>, <<1, 2, 3>> >>, v,
          <<NoFilter, f, NoFilter>>, Unlimited, target, tasks)

\* The full variable, cut along axis 2: three partitions over two tasks leave
\* one padding spec; a filter on axis 2 that matches nothing leaves one too.
EmptySpecQueries == {Mixed(Span({}), 2, 3, 1), Mixed(NoFilter, 2, 3, 2)}

\* A variable without the axis the partitions cut.
StaticVarQueries ==
    {Query(<<4, 3>>, <<2, 1>>, << <<1, 2>>, <<2>> >>, 2, <<NoFilter, NoFilter>>, Unlimited, 2, 1)}

\* A date-part filter on the axis the projected variable lacks.
StaticDateQueries ==
    {[q EXCEPT !.filter[1] = Date({0, 2}), !.target = 1] : q \in StaticVarQueries}

\* A square raster [time, y, x] whose coordinates are listed time, x, y.
SquareQueries ==
    {Query(<<1, 2, 2>>, <<1, 2, 1>>, << <<1, 3, 2>> >>, 1, <<NoFilter, NoFilter, NoFilter>>,
           Unlimited, 2, 1)}

\* The main run: also the queries that end in a panic or an error.
AllQueries == MCQueries \cup EmptySpecQueries \cup TwoListQueries
              \cup StaticDateQueries \cup SquareQueries
              \cup {[q EXCEPT !.target = t] : q \in AdapterQueries, t \in {1, 2}}
=============================================================================
