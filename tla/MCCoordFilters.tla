--------------------------- MODULE MCCoordFilters ---------------------------
(* Up to three conjuncts over short arrays, ascending, descending and with   *)
(* gaps, of numbers and of timestamps.                                       *)
EXTENDS CoordFilters

Conj(op, a, b, list, field) ==
    [op |-> op, cast |-> FALSE, a |-> a, b |-> b, list |-> list, field |-> field]

Compare(op, a)   == Conj(op, a, 0, <<>>, "")
Between(a, b)    == Conj("between", a, b, <<>>, "")
InList(list)     == Conj("in", 0, 0, list, "")
Part(f, a)       == Conj("part", a, 0, <<>>, f)
PartIn(f, list)  == Conj("partin", 0, 0, list, f)

Comparisons ==
    {Compare(op, a) : op \in {"=", ">=", ">", "<=", "<"}, a \in {2, 3, 4}}
    \cup {Between(a, b) : a \in {1, 3}, b \in {2, 4}}

Lists == {InList(<<>>), InList(<<4, 1>>), InList(<<3, 2, 3>>)}

Parts ==
    {Part(f, a) : a \in {0, 1}, f \in {"MONTH", "HOUR"}}
    \cup {PartIn("MONTH", <<1, 0>>), PartIn("HOUR", <<0>>)}

Others == {Conj("or", 1, 4, <<>>, ""), [Compare("=", 2) EXCEPT !.cast = TRUE]}

Numbers    == Comparisons \cup Lists \cup Others
Timestamps == Comparisons \cup Parts

Case(vals, time, where) == [vals |-> vals, time |-> time, where |-> where]

MCCases ==
    {Case(vals, FALSE, w) :
        vals \in {<<1, 2, 4, 5>>, <<5, 4, 2, 1>>, <<3>>},
        w \in UNION {[1 .. n -> Numbers] : n \in 0 .. 2}}
    \cup {Case(vals, TRUE, w) :
        vals \in {<<0, 2, 3, 4, 5>>, <<6, 4, 3, 1>>},
        w \in UNION {[1 .. n -> Timestamps] : n \in 1 .. 2}}
    \cup {Case(<<0, 1, 3, 4, 5>>, TRUE, <<p, c, q>>) :
        p \in Parts, c \in Comparisons, q \in Parts \cup Lists}
=============================================================================
