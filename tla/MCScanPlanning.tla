--------------------------- MODULE MCScanPlanning ---------------------------
(* Every small geometry of the outer axis, every range and every index list  *)
(* that may survive on it, with and without inner axes to fan out over.      *)
EXTENDS ScanPlanning

CONSTANTS MaxOuter, MaxChunk, MaxTarget, MaxTasks

\* Filters on an axis of n positions.
Filters(n) ==
    LET pos == 0 .. n - 1
    IN {NoFilter}
       \cup {[form |-> "span", keep |-> {x \in pos : lo <= x /\ x < hi}] : lo \in 0 .. n, hi \in 0 .. n}
       \cup {[form |-> "date", keep |-> S] : S \in SUBSET pos}

Table(sizes, chunks, f, g, target, tasks, limit_at) ==
    [sizes |-> sizes, chunks |-> chunks, coord_chunk |-> 0,
     vars |-> << [a \in DOMAIN sizes |-> a] >>, var |-> 1,
     filter |-> [a \in DOMAIN sizes |-> IF a = 1 THEN f ELSE IF a = 2 THEN g ELSE NoFilter],
     limit |-> IF limit_at = "none" THEN NoLimit ELSE 2,
     limit_at |-> limit_at, target |-> target, tasks |-> tasks, store |-> "zarr"]

\* One axis: the split functions on all their inputs.
OneAxis ==
    UNION {{Table(<<n>>, <<c>>, f, NoFilter, t, k, "none") : f \in Filters(n)} :
        n \in 0 .. MaxOuter, c \in 1 .. MaxChunk, t \in 1 .. MaxTarget, k \in 1 .. MaxTasks}

\* Three axes: the boxes of fan_out_inner, with the second axis filtered or not.
ThreeAxes ==
    {Table(<<4, 5, 3>>, <<c, d, e>>, f, g, t, k, l) :
        c \in {1, 2, 4}, d \in {1, 2, 5}, e \in {1, 3},
        f \in {NoFilter, [form |-> "span", keep |-> 1 .. 3],
               [form |-> "date", keep |-> {0, 3}], [form |-> "span", keep |-> {}]},
        g \in {NoFilter, [form |-> "span", keep |-> {1}]},
        t \in {1, 3, 8}, k \in {1, 3}, l \in {"none", "scan"}}

MCQueries == OneAxis \cup ThreeAxes
=============================================================================
