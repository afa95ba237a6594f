------------------------------ MODULE Partition ------------------------------
(***************************************************************************)
(* How the head cuts a scan into output partitions.  The loops of          *)
(* physical_plan/partition.rs that advance a chunk cursor by a fixed step   *)
(* are written in closed form: the i-th turn of the loop emits the i-th     *)
(* piece.  Axes are numbered from 1 in coordinate order; positions on an    *)
(* axis from 0, as in the code.                                             *)
(***************************************************************************)
EXTENDS Selection

\* PartitionSpec: a slice of the outer axis, and for a multi-axis box one more
\* slice for each axis in the domain of extra.
FromOuter(sel) == [outer |-> sel, extra |-> <<>>]

EmptySpec == FromOuter(RangeSel(0, 0))

SpecEmpty(spec) ==
    SelEmpty(spec.outer) \/ \E a \in DOMAIN spec.extra : SelEmpty(spec.extra[a])

\* Mutant: the last slice runs to the end of its chunk.
PlanPartitionsUnclipped(outer_len, chunk_len, target) ==
    IF outer_len = 0 THEN <<RangeSel(0, 0)>>
    ELSE LET chunk    == IF chunk_len = 0 THEN outer_len ELSE chunk_len
             n_chunks == DivCeil(outer_len, chunk)
             per      == DivCeil(n_chunks, Max2(1, Min2(target, n_chunks)))
         IN [i \in 1 .. DivCeil(n_chunks, per) |->
                RangeSel((i - 1) * per * chunk, i * per * chunk)]

\* Mutant: the chunks per slice are rounded down.
PlanPartitionsFloor(outer_len, chunk_len, target) ==
    IF outer_len = 0 THEN <<RangeSel(0, 0)>>
    ELSE LET chunk    == IF chunk_len = 0 THEN outer_len ELSE chunk_len
             n_chunks == DivCeil(outer_len, chunk)
             per      == n_chunks \div Max2(1, Min2(target, n_chunks))
         IN [i \in 1 .. DivCeil(n_chunks, per) |->
                RangeSel((i - 1) * per * chunk, Min2(i * per * chunk, outer_len))]

\* Mutant: slices of equal length, wherever the chunks end.
PlanPartitionsUnaligned(outer_len, chunk_len, target) ==
    LET n   == Max2(1, Min2(target, outer_len))
        len == DivCeil(outer_len, n)
    IN [i \in 1 .. n |-> RangeSel(Min2((i - 1) * len, outer_len), Min2(i * len, outer_len))]

\* Slices of the whole axis, cut on chunk boundaries, at most target of them.
PlanPartitions(outer_len, chunk_len, target) ==
    IF outer_len = 0 THEN <<RangeSel(0, 0)>>
    ELSE LET chunk    == IF chunk_len = 0 THEN outer_len ELSE chunk_len
             n_chunks == DivCeil(outer_len, chunk)
             per      == DivCeil(n_chunks, Max2(1, Min2(target, n_chunks)))
         IN [i \in 1 .. DivCeil(n_chunks, per) |->
                RangeSel((i - 1) * per * chunk, Min2(i * per * chunk, outer_len))]

\* Mutant: the pieces are not clipped to the range.
SplitRangeUnclipped(s, e, chunk_len, target) ==
    IF e <= s THEN <<RangeSel(s, s)>>
    ELSE IF chunk_len = 0 THEN <<RangeSel(s, e)>>
    ELSE LET first    == s \div chunk_len
             n_chunks == ((e - 1) \div chunk_len) - first + 1
             per      == DivCeil(n_chunks, Max2(1, Min2(target, n_chunks)))
         IN [i \in 1 .. DivCeil(n_chunks, per) |->
                RangeSel((first + (i - 1) * per) * chunk_len, (first + i * per) * chunk_len)]

\* The same for the surviving range [s, e): pieces break on chunk boundaries
\* only, the first and the last are clipped to the range.
SplitRange(s, e, chunk_len, target) ==
    IF e <= s THEN <<RangeSel(s, s)>>
    ELSE IF chunk_len = 0 THEN <<RangeSel(s, e)>>
    ELSE LET first    == s \div chunk_len
             n_chunks == ((e - 1) \div chunk_len) - first + 1
             per      == DivCeil(n_chunks, Max2(1, Min2(target, n_chunks)))
         IN [i \in 1 .. DivCeil(n_chunks, per) |->
                RangeSel(Max2((first + (i - 1) * per) * chunk_len, s),
                         Min2((first + i * per) * chunk_len, e))]

\* Mutant: every index is a group of its own.
ChunkGroupsSingle(v, chunk) == [g \in DOMAIN v |-> <<v[g]>>]

\* Runs of a sorted index list that lie in one chunk.
ChunkGroups(v, chunk) ==
    LET at  == {v[k] : k \in DOMAIN v}
        ids == Sorted({x \div chunk : x \in at})
    IN [g \in DOMAIN ids |-> Sorted({x \in at : x \div chunk = ids[g]})]

\* Take the next chunk group into the partition being filled, which is closed
\* when it holds its share and enough groups are left for those still owed.
PackGroup(st, groups, gi, p, per) ==
    LET cur == st.cur \o groups[gi]
    IN IF /\ Len(cur) >= per
          /\ Len(st.out) + 1 < p
          /\ Len(groups) - gi >= p - (Len(st.out) + 1)
       THEN [out |-> Append(st.out, cur), cur |-> <<>>]
       ELSE [out |-> st.out, cur |-> cur]

\* Pack the chunk groups greedily, in order.
PackGroups(groups, p, per) ==
    LET pack[gi \in 0 .. Len(groups)] ==
            IF gi = 0 THEN [out |-> <<>>, cur |-> <<>>]
            ELSE PackGroup(pack[gi - 1], groups, gi, p, per)
        last == pack[Len(groups)]
    IN IF last.cur = <<>> THEN last.out ELSE Append(last.out, last.cur)

SplitIndices(v, chunk_len, target) ==
    IF v = <<>> THEN << <<>> >>
    ELSE LET groups == ChunkGroups(v, IF chunk_len = 0 THEN 1 ELSE chunk_len)
             p      == Max2(1, Min2(target, Len(groups)))
         IN PackGroups(groups, p, DivCeil(Len(v), p))

SplitSelection(sel, chunk_len, target) ==
    IF IsIndices(sel)
    THEN LET pieces == SplitIndices(sel.idx, chunk_len, target)
         IN [i \in DOMAIN pieces |-> IndicesSel(pieces[i])]
    ELSE SplitRange(sel.lo, sel.hi, chunk_len, target)

-----------------------------------------------------------------------------
(* Multi-axis fan-out (datasource/zarr.rs). *)

\* The members of a finite set in the order of a relation.
Ranked(S, before) ==
    [k \in 1 .. Cardinality(S) |->
        CHOOSE a \in S : Cardinality({b \in S : <<b, a>> \in before}) = k - 1]

\* Rows of one length, one after the other.
FlattenRows(rows) ==
    LET k == Len(rows[1])
    IN [i \in 1 .. Len(rows) * k |-> rows[((i - 1) \div k) + 1][((i - 1) % k) + 1]]

\* Inner axes worth splitting, most chunks first.  var lists the axes of the
\* first data variable, outermost first.
FanOutCandidates(var, sizes, chunks, filtered) ==
    LET NChunks(a) == DivCeil(sizes[a], Max2(1, chunks[a]))
        S          == {a \in DOMAIN sizes : /\ \E k \in 2 .. Len(var) : var[k] = a
                                            /\ a \notin filtered
                                            /\ NChunks(a) > 1}
    IN Ranked(S, {ab \in S \X S : \/ NChunks(ab[1]) > NChunks(ab[2])
                                  \/ NChunks(ab[1]) = NChunks(ab[2]) /\ ab[1] < ab[2]})

\* Split one more axis, if what the budget leaves allows it.
SplitAxis(st, a, sizes, chunks, inner_budget) ==
    LET allowed == inner_budget \div st.acc
        chunk   == Max2(1, chunks[a])
        pieces  == PlanPartitions(sizes[a], chunk, Min2(DivCeil(sizes[a], chunk), allowed))
    IN IF allowed <= 1 \/ Len(pieces) <= 1 THEN st
       ELSE [acc |-> st.acc * Len(pieces), split |-> Append(st.split, <<a, pieces>>)]

\* The splits chosen for the candidate axes, in their order.
InnerSplits(candidates, sizes, chunks, inner_budget) ==
    LET chosen[j \in 0 .. Len(candidates)] ==
            IF j = 0 THEN [acc |-> 1, split |-> <<>>]
            ELSE SplitAxis(chosen[j - 1], candidates[j], sizes, chunks, inner_budget)
    IN chosen[Len(candidates)].split

\* Each combination with each piece of one more axis.
ExtendCombos(combos, axis, pieces) ==
    FlattenRows([c \in DOMAIN combos |-> [i \in DOMAIN pieces |->
        [a \in DOMAIN combos[c] \cup {axis} |-> IF a = axis THEN pieces[i] ELSE combos[c][a]]]])

\* The boxes: every combination of one piece per split axis, the axis split
\* first varying slowest.
InnerCombos(split) ==
    LET combos[j \in 0 .. Len(split)] ==
            IF j = 0 THEN << <<>> >>
            ELSE ExtendCombos(combos[j - 1], split[j][1], split[j][2])
    IN combos[Len(split)]

FanOutInner(outer_specs, var, sizes, chunks, filtered, target) ==
    LET p_outer == Len(outer_specs)
        budget  == target \div p_outer
        split   == InnerSplits(FanOutCandidates(var, sizes, chunks, filtered),
                               sizes, chunks, budget)
        combos  == InnerCombos(split)
    IN IF \/ p_outer >= target
          \/ p_outer = 1 /\ SpecEmpty(outer_specs[1])
          \/ budget <= 1
          \/ split = <<>>
       THEN outer_specs
       ELSE FlattenRows([o \in DOMAIN outer_specs |->
                [c \in DOMAIN combos |->
                    [outer |-> outer_specs[o].outer, extra |-> combos[c]]]])

-----------------------------------------------------------------------------
\* One group of specs per worker task, contiguous and balanced, padded with
\* empty specs to a uniform length.
DistributeSpecsAcrossTasks(specs, task_count) ==
    LET tasks   == Max2(1, task_count)
        base    == Len(specs) \div tasks
        rem     == Len(specs) % tasks
        k       == IF rem > 0 THEN base + 1 ELSE base
        First(t) == (t - 1) * base + Min2(t - 1, rem)
        Size(t)  == base + (IF t <= rem THEN 1 ELSE 0)
    IN [t \in 1 .. tasks |->
            [i \in 1 .. k |->
                IF i <= Size(t) THEN specs[First(t) + i] ELSE EmptySpec]]
=============================================================================
