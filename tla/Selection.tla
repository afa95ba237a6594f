------------------------------ MODULE Selection ------------------------------
(***************************************************************************)
(* The surviving positions on one coordinate axis: CoordSelection of       *)
(* reader/filter.rs.  A selection is a half-open range of positions or a   *)
(* sorted list of scattered ones; both are read in ascending order, so     *)
(* most of the code only needs the sequence Positions(sel).                *)
(***************************************************************************)
EXTENDS Integers, Sequences, FiniteSets

RangeSel(s, e) == [kind |-> "range", lo |-> s, hi |-> e]
IndicesSel(v)  == [kind |-> "indices", idx |-> v]

IsIndices(sel) == sel.kind = "indices"

\* The selected positions, ascending.
Positions(sel) ==
    IF IsIndices(sel) THEN sel.idx
    ELSE [k \in 1 .. (IF sel.hi > sel.lo THEN sel.hi - sel.lo ELSE 0) |-> sel.lo + k - 1]

\* The selected positions as a set.
Members(sel) ==
    IF IsIndices(sel) THEN {sel.idx[k] : k \in DOMAIN sel.idx}
    ELSE sel.lo .. sel.hi - 1

SelLen(sel) == Len(Positions(sel))

SelEmpty(sel) == Members(sel) = {}

\* A finite set of numbers in ascending order: the k-th has k - 1 below it.
Sorted(S) ==
    [k \in 1 .. Cardinality(S) |-> CHOOSE x \in S : Cardinality({y \in S : y < x}) = k - 1]

DivCeil(a, b) == (a + b - 1) \div b
Min2(a, b) == IF a <= b THEN a ELSE b
Max2(a, b) == IF a >= b THEN a ELSE b
=============================================================================
