---------------------------- MODULE LimitPushdown ----------------------------
(***************************************************************************)
(* ZarrLimitPushdownRule (optimizer/limit_pushdown.rs) on plan trees.      *)
(*                                                                         *)
(* A plan is a sequence of nodes in preorder, the root first; a node is    *)
(*   op      "zarr"    ZarrExec; fetch is its limit                        *)
(*           "limit"   CoalescePartitionsExec, LocalLimitExec (skip = 0)   *)
(*                     or GlobalLimitExec                                  *)
(*           "topk"    SortExec with a fetch, which the rule does not see  *)
(*           "coords"  FilterExec on coordinates, already in the ZarrExec  *)
(*           "values"  FilterExec on a data variable                       *)
(*           "count"   AggregateExec                                       *)
(*           "union"   UnionExec                                           *)
(*   fetch   how many rows, or NoFetch                                     *)
(*   skip    the OFFSET of a GlobalLimitExec                               *)
(*   parent  the index of the parent, 0 for the root                       *)
(* A plan without ORDER BY may return any rows that fit its LIMIT, so the  *)
(* meaning of a plan is a set of results.                                  *)
(***************************************************************************)
EXTENDS Integers, Sequences, FiniteSets, FiniteSetsExt

CONSTANTS
    Plans,  \* the plans handed to the rule
    NRows   \* rows of the table that survive the coordinate filters

ASSUME NRowsAssumption == NRows \in Nat

NoFetch == -1

Children(pl, i) == {j \in DOMAIN pl : pl[j].parent = i}

\* Every node but the root has a parent before it; scans are the leaves, and a
\* node that is no union has one child.
PlanOK(pl) ==
    /\ pl \in Seq([op : {"zarr", "limit", "topk", "coords", "values", "count", "union"},
                    fetch : Nat \cup {NoFetch}, skip : Nat, parent : Nat])
    /\ \A i \in DOMAIN pl :
          /\ IF i = 1 THEN pl[i].parent = 0 ELSE pl[i].parent \in 1 .. i - 1
          /\ pl[i].op = "zarr" <=> Children(pl, i) = {}
          /\ pl[i].op # "union" => \A j, k \in Children(pl, i) : j = k
    /\ pl # <<>>

ASSUME PlansAssumption == \A pl \in Plans : PlanOK(pl)

VARIABLES
    given,  \* the plan DataFusion built
    plan,   \* the plan as it is now
    step    \* "given" or "optimized"

vars == <<given, plan, step>>

-----------------------------------------------------------------------------
\* The nodes above each node.
Ancestors(pl) ==
    LET anc[i \in DOMAIN pl] ==
            IF pl[i].parent = 0 THEN {} ELSE {pl[i].parent} \cup anc[pl[i].parent]
    IN anc

\* Mutant: the fetch of any node counts, a sort's too.
ExtractAnyFetch(node) ==
    IF node.op # "zarr" /\ node.fetch # NoFetch THEN {node.fetch} ELSE {}

\* The limit of one node, as a set of at most one number.
ExtractLimitFromNode(node) ==
    IF node.op = "limit" /\ node.fetch # NoFetch THEN {node.fetch} ELSE {}

\* All limits of the tree; the rule takes their minimum.
FindLimitAnywhere(pl) == UNION {ExtractLimitFromNode(pl[i]) : i \in DOMAIN pl}

\* Mutant: a smaller limit of the ZarrExec is overwritten.
PushLimitToZarrAlways(pl, limits) ==
    [i \in DOMAIN pl |->
        IF pl[i].op = "zarr" /\ limits # {} THEN [pl[i] EXCEPT !.fetch = Min(limits)] ELSE pl[i]]

\* Every ZarrExec gets the least of the limit handed down and the limits above
\* it, unless it has one that is no larger.
PushLimitToZarr(pl, limits) ==
    LET Incoming(i) == (IF limits = {} THEN {} ELSE {Min(limits)})
                       \cup UNION {ExtractLimitFromNode(pl[j]) : j \in Ancestors(pl)[i]}
        ShouldPush(i) == /\ Incoming(i) # {}
                         /\ pl[i].fetch = NoFetch \/ Min(Incoming(i)) < pl[i].fetch
    IN [i \in DOMAIN pl |->
            IF pl[i].op = "zarr" /\ ShouldPush(i)
            THEN [pl[i] EXCEPT !.fetch = Min(Incoming(i))] ELSE pl[i]]

Optimize ==
    /\ step = "given"
    /\ plan' = PushLimitToZarr(plan, FindLimitAnywhere(plan))
    /\ step' = "optimized"
    /\ UNCHANGED given

Init ==
    /\ given \in Plans
    /\ plan = given
    /\ step = "given"

Next == Optimize

Spec == Init /\ [][Next]_vars

-----------------------------------------------------------------------------
(* What plans mean. *)

FewerOf(n, k) == IF n = NoFetch \/ k < n THEN k ELSE n

\* A row of the table is its number in scan order and the scan it came from;
\* even rows pass the filter on a data variable, and a sort puts the last
\* row first.
Passes(row) == row[2] % 2 = 0

\* The rows a LIMIT may let through, and those a sort with a fetch does.
Limited(S, node) == kSubset(FewerOf(node.fetch, Max({0, Cardinality(S) - node.skip})), S)
TopK(S, node) == {T \in kSubset(FewerOf(node.fetch, Cardinality(S)), S) :
                    \A x \in T, y \in S \ T : x[2] >= y[2]}

\* One result of each child, put together.
Together(below) ==
    {UNION {f[j] : j \in DOMAIN below} :
        f \in {g \in [DOMAIN below -> UNION {below[j] : j \in DOMAIN below}] :
                    \A j \in DOMAIN below : g[j] \in below[j]}}

\* The results node i may return, as sets of rows, given those of its children.
\* A ZarrExec with a limit returns the first rows of the scan.
NodeResults(i, node, below) ==
    LET input == below[CHOOSE j \in DOMAIN below : TRUE]
    IN CASE node.op = "zarr"   -> {{i} \X (1 .. FewerOf(node.fetch, NRows))}
         [] node.op = "limit"  -> UNION {Limited(S, node) : S \in input}
         [] node.op = "topk"   -> UNION {TopK(S, node) : S \in input}
         [] node.op = "coords" -> input
         [] node.op = "values" -> {{r \in S : Passes(r)} : S \in input}
         [] node.op = "count"  -> {{<<i, Cardinality(S)>>} : S \in input}
         [] node.op = "union"  -> Together(below)

\* The results of a plan are those of its root.
Results(pl) ==
    LET out[i \in DOMAIN pl] == NodeResults(i, pl[i], [j \in Children(pl, i) |-> out[j]])
    IN out[1]

-----------------------------------------------------------------------------
(* Properties. *)

\* Plans the rule may be trusted with: every limit is above every scan with
\* nothing in between that drops, orders or counts rows, and none has an OFFSET.
LimitsReachScans(pl) ==
    \A i \in DOMAIN pl : pl[i].op = "limit" /\ pl[i].fetch # NoFetch =>
        /\ pl[i].skip = 0
        /\ \A z \in DOMAIN pl : pl[z].op = "zarr" =>
              /\ i \in Ancestors(pl)[z]
              /\ \A j \in Ancestors(pl)[z] :
                    i \in Ancestors(pl)[j] => pl[j].op \in {"limit", "coords", "union"}
                                              /\ pl[j].skip = 0

\* On those plans the rewritten plan returns only what the given plan might.
EquivalentWhenLimitsReach ==
    LimitsReachScans(given) => Results(plan) \subseteq Results(given)

\* Past a filter on a data variable or beside another branch of a union the
\* rule may cost rows ("fewer rows than expected"), but what is returned is
\* part of a right answer, where nothing counts, sorts or skips rows.
NothingInvented ==
    (\A i \in DOMAIN given : given[i].op \notin {"count", "topk"} /\ given[i].skip = 0)
        => \A S \in Results(plan) : \E T \in Results(given) : S \subseteq T
=============================================================================
