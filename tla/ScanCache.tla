------------------------------ MODULE ScanCache ------------------------------
(***************************************************************************)
(* The ScanCache that the partitions of one scan share                     *)
(* (reader/scan_cache.rs), and the coordinate loading of read_zarr_async   *)
(* that uses it.  Each partition loads all coordinates concurrently        *)
(* (try_join_all): a job first asks for the opened array, then for the     *)
(* values.  Both live in cells of type tokio OnceCell: the first caller to *)
(* get the cell's permit runs the read, the others wait; a failed or       *)
(* dropped read gives the permit back and leaves the cell empty.           *)
(*                                                                         *)
(* Which waiter gets a free permit is left open (tokio serves them in      *)
(* order).  A value is named after the partition whose read produced it,   *)
(* so that two reads of one path can be told apart.                        *)
(***************************************************************************)
EXTENDS Integers, FiniteSets

CONSTANTS
    Partitions,  \* the output partitions of the scan
    Coords,      \* the coordinate arrays of the store
    Outer,       \* the one of which a partition reads only a window
    WindowOf,    \* the chunk-aligned window of Outer that a partition reads
    None         \* no value

ASSUME CacheAssumption ==
    /\ None \notin Partitions
    /\ Outer \in Coords

Jobs  == Partitions \X Coords
Kinds == {"array", "coord"}

\* Mutant: a window of the outer coordinate is stored under the path alone.
KeyPathOnly(j, k) == <<k, j[2], None>>

\* The cell a job asks for: arrays by path, coordinates by path, or by path
\* and window for the outer one.
Key(j, k) == <<k, j[2], IF k = "coord" /\ j[2] = Outer THEN WindowOf[j[1]] ELSE None>>

Cells == {Key(j, k) : j \in Jobs, k \in Kinds}

VARIABLES
    cell,   \* what each cell holds
    fills,  \* how many reads of it succeeded
    part,   \* each partition: "loading", "loaded", "failed" or "dropped"
    stage,  \* each job: the kind it needs next, or "end"
    call,   \* each job's pending get_or_try_init
    got     \* what each job received

vars == <<cell, fills, part, stage, call, got>>

Init ==
    /\ cell  = [c \in Cells |-> None]
    /\ fills = [c \in Cells |-> 0]
    /\ part  = [p \in Partitions |-> "loading"]
    /\ stage = [j \in Jobs |-> "array"]
    /\ call  = [j \in Jobs |-> "idle"]
    /\ got   = [j \in Jobs |-> [k \in Kinds |-> None]]

\* The cell job j is at.
At(j) == Key(j, stage[j])

Live(j) == part[j[1]] = "loading" /\ stage[j] # "end"

\* The job has its value and goes on.
Receive(j, v) ==
    /\ got'   = [got EXCEPT ![j] = [k \in Kinds |-> IF k = stage[j] THEN v ELSE got[j][k]]]
    /\ stage' = [stage EXCEPT ![j] = IF stage[j] = "array" THEN "coord" ELSE "end"]
    /\ call'  = [call EXCEPT ![j] = "idle"]

\* get_or_try_init on a filled cell returns at once; otherwise it queues for
\* the permit.
Ask(j) ==
    /\ Live(j) /\ call[j] = "idle"
    /\ \/ /\ cell[At(j)] # None
          /\ Receive(j, cell[At(j)])
       \/ /\ cell[At(j)] = None
          /\ call' = [call EXCEPT ![j] = "waiting"]
          /\ UNCHANGED <<stage, got>>
    /\ UNCHANGED <<cell, fills, part>>

Reading(c) == {i \in Jobs : call[i] = "reading" /\ At(i) = c}

\* Mutant: the permit is not exclusive.
AcquireShared(j) ==
    /\ Live(j) /\ call[j] = "waiting"
    /\ cell[At(j)] = None
    /\ call' = [call EXCEPT ![j] = "reading"]
    /\ UNCHANGED <<cell, fills, part, stage, got>>

\* Mutant: the holder of the permit does not look whether the cell is set.
AcquireBlind(j) ==
    /\ Live(j) /\ call[j] = "waiting"
    /\ Reading(At(j)) = {}
    /\ call' = [call EXCEPT ![j] = "reading"]
    /\ UNCHANGED <<cell, fills, part, stage, got>>

\* The permit of an empty cell is free: a waiter takes it and starts its read.
Acquire(j) ==
    /\ Live(j) /\ call[j] = "waiting"
    /\ cell[At(j)] = None
    /\ Reading(At(j)) = {}
    /\ call' = [call EXCEPT ![j] = "reading"]
    /\ UNCHANGED <<cell, fills, part, stage, got>>

\* Mutant: the reader keeps its value to itself.
ReadOkUncached(j) ==
    /\ Live(j) /\ call[j] = "reading"
    /\ Receive(j, j[1])
    /\ UNCHANGED <<cell, fills, part>>

\* The read succeeds: the cell is set and its waiters released.
ReadOk(j) ==
    /\ Live(j) /\ call[j] = "reading"
    /\ cell'  = [cell EXCEPT ![At(j)] = j[1]]
    /\ fills' = [fills EXCEPT ![At(j)] = @ + 1]
    /\ Receive(j, j[1])
    /\ UNCHANGED part

\* A waiter finds the cell set.
Resume(j) ==
    /\ Live(j) /\ call[j] = "waiting"
    /\ cell[At(j)] # None
    /\ Receive(j, cell[At(j)])
    /\ UNCHANGED <<cell, fills, part>>

\* Mutant: a dropped read keeps its permit.
DropCallsKeepPermit(p) ==
    call' = [j \in Jobs |-> IF j[1] = p /\ call[j] # "reading" THEN "idle" ELSE call[j]]

\* All calls of a partition are dropped, a permit it holds with them.
DropCalls(p) == call' = [j \in Jobs |-> IF j[1] = p THEN "idle" ELSE call[j]]

\* Mutant: the error is cached.
ReadErrCached(j) ==
    /\ Live(j) /\ call[j] = "reading"
    /\ cell' = [cell EXCEPT ![At(j)] = "error"]
    /\ part' = [part EXCEPT ![j[1]] = "failed"]
    /\ DropCalls(j[1])
    /\ UNCHANGED <<fills, stage, got>>

\* The read fails: try_join_all returns the error and drops the other jobs.
ReadErr(j) ==
    /\ Live(j) /\ call[j] = "reading"
    /\ part' = [part EXCEPT ![j[1]] = "failed"]
    /\ DropCalls(j[1])
    /\ UNCHANGED <<cell, fills, stage, got>>

\* The query no longer needs the partition (LIMIT reached, another partition
\* failed, the client left) and drops its stream at an await.
Drop(p) ==
    /\ part[p] = "loading"
    /\ part' = [part EXCEPT ![p] = "dropped"]
    /\ DropCalls(p)
    /\ UNCHANGED <<cell, fills, stage, got>>

\* Mutant: the partition goes on with the first coordinate that is there.
JoinAny(p) ==
    /\ part[p] = "loading"
    /\ \E c \in Coords : stage[<<p, c>>] = "end"
    /\ part' = [part EXCEPT ![p] = "loaded"]
    /\ UNCHANGED <<cell, fills, stage, call, got>>

\* try_join_all has every coordinate.
Join(p) ==
    /\ part[p] = "loading"
    /\ \A c \in Coords : stage[<<p, c>>] = "end"
    /\ part' = [part EXCEPT ![p] = "loaded"]
    /\ UNCHANGED <<cell, fills, stage, call, got>>

Step(j) == Ask(j) \/ Acquire(j) \/ ReadOk(j) \/ Resume(j) \/ ReadErr(j)

\* Nothing is left to do: every partition has ended.
Ended == (\A p \in Partitions : part[p] # "loading") /\ UNCHANGED vars

Next == \/ \E j \in Jobs : Step(j)
        \/ \E p \in Partitions : Drop(p) \/ Join(p)
        \/ Ended

Safety == Init /\ [][Next]_vars

\* Fairness: the runtime polls a job that can go on, a store read ends one way
\* or the other, and nothing need ever be dropped.
Spec == /\ Safety
        /\ \A j \in Jobs : WF_vars(Step(j))
        /\ \A p \in Partitions : WF_vars(Join(p))

-----------------------------------------------------------------------------
(* Properties. *)

\* The type invariant.
TypeOK ==
    /\ cell  \in [Cells -> Partitions \cup {None}]
    /\ fills \in [Cells -> Nat]
    /\ part  \in [Partitions -> {"loading", "loaded", "failed", "dropped"}]
    /\ stage \in [Jobs -> Kinds \cup {"end"}]
    /\ call  \in [Jobs -> {"idle", "waiting", "reading"}]
    /\ got   \in [Jobs -> [Kinds -> Partitions \cup {None}]]

\* However many partitions ask, one of them reads while the others wait.
OneReader ==
    \A i, j \in Jobs :
        call[i] = "reading" /\ call[j] = "reading" /\ At(i) = At(j) => i = j

\* "Each is read once, by whichever partition asks first": whatever fails or is
\* dropped on the way, no path is read successfully twice.
ReadOnce == \A c \in Cells : fills[c] <= 1

\* Partitions that received a path's values received the same ones, even when
\* the first reader has failed or gone since.
Agreement ==
    \A i, j \in Jobs : \A k \in Kinds :
        Key(i, k) = Key(j, k) /\ got[i][k] # None /\ got[j][k] # None
            => got[i][k] = got[j][k]

\* A partition is never handed another partition's window of the outer
\* coordinate.
RightWindow ==
    \A j \in Jobs :
        LET reader == got[j]["coord"]
        IN j[2] = Outer /\ reader # None => WindowOf[reader] = WindowOf[j[1]]

\* A partition that finished loading has every coordinate.
LoadedIsComplete ==
    \A j \in Jobs : part[j[1]] = "loaded" => got[j]["coord"] # None

\* Nobody waits for ever: each partition ends up loaded, failed or dropped.
EveryPartitionEnds == \A p \in Partitions : <>(part[p] # "loading")
=============================================================================
