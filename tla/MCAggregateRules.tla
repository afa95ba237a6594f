-------------------------- MODULE MCAggregateRules --------------------------
(* Aggregates over a 3 x 2 grid, over grids without positions on one axis,   *)
(* and over variables that lack the first axis.                               *)
EXTENDS AggregateRules

Agg(fn, col, arg, distinct) == [fn |-> fn, col |-> col, arg |-> arg, distinct |-> distinct]
Of(fn, col) == Agg(fn, col, "column", FALSE)

AggLists == {
    <<Of("count", Star)>>,
    <<Of("count", 2), Of("count", Var)>>,
    <<Of("min", 1), Agg("max", 2, "cast", FALSE)>>,
    <<Of("sum", Var), Of("min", Var), Of("count", Star)>>,
    <<Agg("avg", Var, "cast", FALSE), Of("max", Var)>>,
    <<Agg("sum", Var, "expr", FALSE)>>,
    <<Agg("sum", Var, "column", TRUE)>>,
    <<Agg("count", 1, "column", TRUE), Of("count", Star)>>,
    <<Of("min", 1)>>,
    <<Of("min", 2), Of("count", 2)>> }

Key(kind, col) == [kind |-> kind, col |-> col]

KeyLists == {
    <<>>, <<Key("column", 2)>>, <<Key("column", 1), Key("column", 2)>>,
    <<Key("month", 1)>>, <<Key("month", 1), Key("column", 2)>>,
    <<Key("year", 1)>>, <<Key("column", Var)>> }

Where(form, keep) == [form |-> form, keep |-> keep]
Everything == Where("none", {})

Grids == { [coords |-> <<<<7, 5, 4>>, <<1, 3>>>>, dims |-> <<1, 2>>],
           [coords |-> <<<<7, 5, 4>>, <<1, 3>>>>, dims |-> <<2>>],
           [coords |-> <<<<7, 5>>, <<>>>>, dims |-> <<1, 2>>],
           [coords |-> <<<<>>, <<1, 3>>>>, dims |-> <<2>>] }

CellValue(row) == SumOver([a \in DOMAIN row |-> a * row[a]]) - 3

Query(g, meta, aggs, keys, filter, fetch, union, parts, budget) ==
    [coords |-> g.coords, dims |-> g.dims, meta |-> meta, aggs |-> aggs, keys |-> keys,
     filter |-> filter, fetch |-> fetch, union |-> union, parts |-> parts, budget |-> budget]

\* Every axis a query names or is partitioned along is one the scan ranges over;
\* a LIMIT is in a subquery without a filter.
Resolvable(q) ==
    LET E == DetermineEffectiveCoords(q)
    IN Columns(q) \ {Var} \subseteq E
       /\ (q.filter.form = "coord" \/ q.parts > 1 => 1 \in E)
       /\ (q.fetch # NoFetch => q.filter.form = "none")

MCQueries ==
    {q \in
        {Query(g, "full", aggs, keys, f, NoFetch, FALSE, parts, budget) :
            g \in Grids, aggs \in AggLists, keys \in KeyLists,
            f \in {Everything, Where("coord", {1, 3}), Where("coord", {})},
            parts \in {1, 2}, budget \in {2, 4, 6}}
        \cup {Query(g, meta, aggs, <<>>, f, fetch, union, parts, 6) :
            g \in Grids, meta \in {"full", "nominmax", "none"}, aggs \in AggLists,
            f \in {Everything, Where("value", {})}, fetch \in {NoFetch, 2},
            union \in BOOLEAN, parts \in {1, 2}} :
        Resolvable(q)}

\* SELECT SUM(v) .. WHERE v ..
ValueQueries ==
    {Query(g, "full", <<Of("sum", Var)>>, <<>>, Where("value", {}), NoFetch, FALSE, 2, 6) :
        g \in {g \in Grids : g.dims = <<1, 2>>}}
=============================================================================
