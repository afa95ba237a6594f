--------------------------- MODULE MCLimitPushdown ---------------------------
(* Chains of up to three operators over a scan, and unions of two scans.     *)
EXTENDS LimitPushdown

Node(op, fetch, skip, parent) == [op |-> op, fetch |-> fetch, skip |-> skip, parent |-> parent]

\* Operators with their fetch and skip; LIMIT 1 OFFSET 2 and OFFSET 1 among them.
Ops == {<<"limit", 1, 0>>, <<"limit", 3, 0>>, <<"limit", 1, 2>>, <<"limit", NoFetch, 1>>,
        <<"limit", NoFetch, 0>>, <<"topk", 2, 0>>, <<"coords", NoFetch, 0>>,
        <<"values", NoFetch, 0>>, <<"count", NoFetch, 0>>}

Chain(ops, limit) ==
    [i \in 1 .. Len(ops) + 1 |->
        IF i <= Len(ops) THEN Node(ops[i][1], ops[i][2], ops[i][3], i - 1)
        ELSE Node("zarr", limit, 0, Len(ops))]

Chains == {Chain(ops, l) : ops \in UNION {[1 .. n -> Ops] : n \in 0 .. 3}, l \in {NoFetch, 2}}

\* An operator above a union, one on each branch.
Unions ==
    {<<Node(o[1], o[2], o[3], 0), Node("union", NoFetch, 0, 1),
       Node(a[1], a[2], a[3], 2), Node("zarr", NoFetch, 0, 3),
       Node(b[1], b[2], b[3], 2), Node("zarr", l, 0, 5)>> :
        o, a, b \in Ops, l \in {NoFetch, 2}}

MCPlans == Chains \cup Unions
=============================================================================
