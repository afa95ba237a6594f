---------------------------- MODULE MCZarrWriter ----------------------------
(* Copies of a 5 x 2 grid in chunks of 2 x 1 (a ragged chunk on the outer    *)
(* axis) and 3 x 2 grids in chunks that are ragged on both axes.             *)
EXTENDS ZarrWriter

Plain == [axes |-> <<<<10, 20, 30, 40, 50>>, <<1, 2>>>>, cf |-> {}, kind |-> "project", keys |-> {},
          out |-> {1, 2}, nvars |-> 1, writable |-> TRUE,
          keep |-> <<RangeSel(0, 5), RangeSel(0, 2)>>, holes |-> {}, nulls |-> {},
          chunks |-> <<2, 2>>, source_chunks |-> <<2, 1>>, parts |-> 2, target |-> TRUE]

Small == [Plain EXCEPT !.axes = <<<<10, 20, 30>>, <<1, 2>>>>, !.keep = <<RangeSel(0, 3), RangeSel(0, 2)>>]

Row(i, j) == <<i, j>>

Written ==
    {[Plain EXCEPT !.parts = parts, !.chunks = chunks, !.holes = holes, !.target = target] :
        parts \in {0, 1, 2, 3}, chunks \in {<<2, 2>>, <<3, 2>>},
        holes \in {{}, {Row(4, 0), Row(4, 1), Row(0, 1)}}, target \in BOOLEAN}
    \cup
    {[Small EXCEPT !.parts = 2, !.chunks = chunks, !.nvars = 2, !.nulls = {Row(1, 1)}, !.keep = keep] :
        chunks \in {<<>>, <<2, 3>>}, keep \in {<<RangeSel(0, 3), RangeSel(0, 2)>>, <<IndicesSel(<<0, 2>>), RangeSel(1, 2)>>}}
    \cup
    {[Small EXCEPT !.kind = "reduce", !.keys = keys, !.out = keys, !.chunks = chunks] :
        keys \in {{1}, {2}}, chunks \in {<<>>, <<1>>, <<2>>}}

Refused ==
    {[Small EXCEPT !.kind = kind] : kind \in {"join", "nometa", "scalar", "unpushable"}}
    \cup {[Small EXCEPT !.nvars = 0], [Small EXCEPT !.writable = FALSE],
          [Small EXCEPT !.out = {1}], [Small EXCEPT !.out = {1}, !.chunks = <<2>>],
          [Small EXCEPT !.keep = <<RangeSel(0, 3), RangeSel(1, 1)>>],
          [Small EXCEPT !.chunks = <<>>, !.source_chunks = <<>>],
          [Small EXCEPT !.chunks = <<2>>], [Small EXCEPT !.chunks = <<0, 2>>]}

\* Admitted, and refused by the sink: timestamps, axes that descend, a group key
\* that is not selected.
Unplaced ==
    {[Small EXCEPT !.cf = {1}], [Small EXCEPT !.cf = {2}],
     [Small EXCEPT !.axes = <<<<30, 20, 10>>, <<1, 2>>>>],
     [Small EXCEPT !.kind = "reduce", !.keys = {1, 2}, !.out = {1}]}

MCCopies == Written \cup Refused \cup Unplaced
=============================================================================
