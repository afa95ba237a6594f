--------------------------- MODULE ScanCacheProofs ---------------------------
(***************************************************************************)
(* Proofs about ScanCache for any set of partitions, any set of            *)
(* coordinates and any assignment of windows.                              *)
(***************************************************************************)
EXTENDS ScanCache, TLAPS

\* A reader belongs to a partition that is still loading, and reads an empty
\* cell.
ReadersAreLive ==
    \A j \in Jobs : call[j] = "reading" => Live(j) /\ cell[At(j)] = None

\* What a job received is what the cell holds.
GotFromCell ==
    \A j \in Jobs : \A k \in Kinds : got[j][k] # None => got[j][k] = cell[Key(j, k)]

\* The count of successful reads tells whether the cell is set.
FillsCount == \A c \in Cells : fills[c] = IF cell[c] = None THEN 0 ELSE 1

\* What a job went past it received, and a loaded partition's jobs have ended.
StagesReached ==
    /\ \A j \in Jobs : stage[j] = "end" => got[j]["coord"] # None
    /\ \A j \in Jobs : part[j[1]] = "loaded" => stage[j] = "end"

\* The cell of a window holds what a partition with that window read.
WindowsKept ==
    \A j \in Jobs :
        LET c == Key(j, "coord")
        IN j[2] = Outer /\ cell[c] # None => WindowOf[cell[c]] = WindowOf[j[1]]

\* The inductive invariant.
IInv == TypeOK /\ OneReader /\ ReadersAreLive /\ GotFromCell /\ FillsCount

-----------------------------------------------------------------------------
\* Keys of jobs are cells, and a job names its partition.
LEMMA JobFacts ==
    ASSUME NEW j \in Jobs
    PROVE  /\ j[1] \in Partitions
           /\ \A k \in Kinds : Key(j, k) \in Cells
  BY DEF Jobs, Cells

\* A live job is at a cell.
LEMMA AtIsCell ==
    ASSUME TypeOK, NEW j \in Jobs, Live(j)
    PROVE  stage[j] \in Kinds /\ At(j) \in Cells
  <1>1. stage[j] \in Kinds
    BY DEF TypeOK, Live
  <1> QED
    BY <1>1, JobFacts DEF At

\* Init establishes the invariant.
LEMMA InitIInv == Init => IInv
  <1> SUFFICES ASSUME Init PROVE IInv
    OBVIOUS
  <1>1. TypeOK
    BY DEF Init, TypeOK, Kinds
  <1>2. OneReader /\ ReadersAreLive /\ GotFromCell
    BY DEF Init, OneReader, ReadersAreLive, GotFromCell
  <1>3. FillsCount
    BY DEF Init, FillsCount
  <1> QED
    BY <1>1, <1>2, <1>3 DEF IInv

\* Receiving the value of the cell a job is at, which the cell holds after the
\* step, keeps the types and what GotFromCell says.
LEMMA ReceiveKeeps ==
    ASSUME IInv, NEW j \in Jobs, Live(j), NEW v \in Partitions, Receive(j, v),
           cell' \in [Cells -> Partitions \cup {None}], cell'[At(j)] = v,
           \A c \in Cells : cell[c] # None => cell'[c] = cell[c]
    PROVE  /\ got'   \in [Jobs -> [Kinds -> Partitions \cup {None}]]
           /\ stage' \in [Jobs -> Kinds \cup {"end"}]
           /\ call'  \in [Jobs -> {"idle", "waiting", "reading"}]
           /\ GotFromCell'
  <1>0. TypeOK /\ GotFromCell /\ stage[j] \in Kinds /\ At(j) \in Cells
    BY AtIsCell DEF IInv
  <1>1. got' \in [Jobs -> [Kinds -> Partitions \cup {None}]]
    BY <1>0 DEF TypeOK, Receive
  <1>2. stage' \in [Jobs -> Kinds \cup {"end"}]
    BY <1>0 DEF TypeOK, Receive, Kinds
  <1>3. call' \in [Jobs -> {"idle", "waiting", "reading"}]
    BY <1>0 DEF TypeOK, Receive
  <1>4. GotFromCell'
    <2> SUFFICES ASSUME NEW i \in Jobs, NEW k \in Kinds, got'[i][k] # None
                 PROVE  got'[i][k] = cell'[Key(i, k)]
      BY DEF GotFromCell, Key
    <2>1. CASE i = j /\ k = stage[j]
      BY <2>1, <1>0 DEF TypeOK, Receive, At
    <2>2. CASE ~(i = j /\ k = stage[j])
      <3>1. got'[i][k] = got[i][k]
        BY <2>2, <1>0 DEF TypeOK, Receive
      <3>2. Key(i, k) \in Cells /\ got[i][k] = cell[Key(i, k)]
        BY <3>1, <1>0, JobFacts DEF GotFromCell
      <3> QED
        BY <3>1, <3>2
    <2> QED
      BY <2>1, <2>2
  <1> QED
    BY <1>1, <1>2, <1>3, <1>4
-----------------------------------------------------------------------------
\* A job that receives leaves the readers as they were, or is the one reader
\* that stops.
LEMMA ReceiveKeepsReaders ==
    ASSUME IInv, NEW j \in Jobs, Live(j), NEW v \in Partitions, Receive(j, v), part' = part,
           \A c \in Cells : c # At(j) => cell'[c] = cell[c],
           \A i \in Jobs : i # j /\ call[i] = "reading" => At(i) # At(j) \/ cell' = cell
    PROVE  OneReader' /\ ReadersAreLive'
  <1>0. TypeOK /\ OneReader /\ ReadersAreLive
    BY DEF IInv
  <1>1. ASSUME NEW i \in Jobs, call'[i] = "reading"
        PROVE  i # j /\ call[i] = "reading" /\ stage'[i] = stage[i]
    BY <1>0, <1>1 DEF TypeOK, Receive
  <1>2. OneReader'
    BY <1>0, <1>1 DEF OneReader, At, Key
  <1>3. ReadersAreLive'
    <2> SUFFICES ASSUME NEW i \in Jobs, call'[i] = "reading"
                 PROVE  Live(i)' /\ cell'[At(i)'] = None
      BY DEF ReadersAreLive
    <2>1. i # j /\ call[i] = "reading" /\ stage'[i] = stage[i]
      BY <1>1
    <2>2. Live(i) /\ cell[At(i)] = None /\ At(i) \in Cells
      BY <2>1, <1>0, AtIsCell DEF ReadersAreLive
    <2>3. Live(i)' /\ At(i)' = At(i)
      BY <2>1, <2>2 DEF Live, At, Key
    <2> QED
      BY <2>1, <2>2, <2>3
  <1> QED
    BY <1>2, <1>3

\* Dropping the calls of one partition ends its reads and leaves the rest.
LEMMA DropKeepsReaders ==
    ASSUME IInv, NEW p \in Partitions, DropCalls(p), cell' = cell, stage' = stage,
           NEW w, part' = [part EXCEPT ![p] = w]
    PROVE  /\ call' \in [Jobs -> {"idle", "waiting", "reading"}]
           /\ OneReader' /\ ReadersAreLive'
  <1>0. TypeOK /\ OneReader /\ ReadersAreLive
    BY DEF IInv
  <1>1. call' \in [Jobs -> {"idle", "waiting", "reading"}]
    BY <1>0 DEF TypeOK, DropCalls
  <1>2. ASSUME NEW i \in Jobs, call'[i] = "reading"
        PROVE  i[1] # p /\ call[i] = "reading"
    BY <1>2 DEF DropCalls
  <1>3. OneReader'
    BY <1>0, <1>2 DEF OneReader, At, Key
  <1>4. ReadersAreLive'
    <2> SUFFICES ASSUME NEW i \in Jobs, call'[i] = "reading"
                 PROVE  Live(i)' /\ cell'[At(i)'] = None
      BY DEF ReadersAreLive
    <2>1. i[1] # p /\ call[i] = "reading" /\ i[1] \in Partitions
      BY <1>2, JobFacts
    <2>2. Live(i) /\ cell[At(i)] = None
      BY <2>1, <1>0 DEF ReadersAreLive
    <2> QED
      BY <2>1, <2>2, <1>0 DEF Live, At, Key, TypeOK
  <1> QED
    BY <1>1, <1>3, <1>4

\* A step of the cache keeps the invariant.
LEMMA NextIInv == IInv /\ [Next]_vars => IInv'
  <1> SUFFICES ASSUME IInv, [Next]_vars PROVE IInv'
    OBVIOUS
  <1>0. TypeOK /\ OneReader /\ ReadersAreLive /\ GotFromCell /\ FillsCount
    BY DEF IInv
  <1>1. ASSUME NEW j \in Jobs, Live(j), cell[At(j)] # None, Receive(j, cell[At(j)]),
               UNCHANGED <<cell, fills, part>>
        PROVE  IInv'
    <2>1. At(j) \in Cells /\ cell[At(j)] \in Partitions
      BY <1>0, <1>1, AtIsCell DEF TypeOK
    <2>2. TypeOK' /\ GotFromCell'
      BY <1>0, <1>1, <2>1, ReceiveKeeps DEF TypeOK
    <2>3. OneReader' /\ ReadersAreLive'
      BY <1>1, <2>1, ReceiveKeepsReaders
    <2>4. FillsCount'
      BY <1>0, <1>1 DEF FillsCount
    <2> QED
      BY <2>2, <2>3, <2>4 DEF IInv
  <1>2. ASSUME NEW j \in Jobs, Ask(j) PROVE IInv'
    <2>1. CASE cell[At(j)] # None
      BY <1>1, <1>2, <2>1 DEF Ask
    <2>2. CASE cell[At(j)] = None
      <3>1. /\ call' = [call EXCEPT ![j] = "waiting"]
            /\ UNCHANGED <<cell, fills, part, stage, got>>
        BY <1>2, <2>2 DEF Ask
      <3>2. TypeOK' /\ GotFromCell' /\ FillsCount'
        BY <1>0, <3>1 DEF TypeOK, GotFromCell, FillsCount, Key
      <3>3. \A i \in Jobs : call'[i] = "reading" => call[i] = "reading"
        BY <1>0, <3>1 DEF TypeOK
      <3>4. OneReader' /\ ReadersAreLive'
        BY <1>0, <3>1, <3>3 DEF OneReader, ReadersAreLive, Live, At, Key
      <3> QED
        BY <3>2, <3>4 DEF IInv
    <2> QED
      BY <2>1, <2>2
  <1>3. ASSUME NEW j \in Jobs, Acquire(j) PROVE IInv'
    <2>1. /\ Live(j) /\ cell[At(j)] = None /\ Reading(At(j)) = {}
          /\ call' = [call EXCEPT ![j] = "reading"]
          /\ UNCHANGED <<cell, fills, part, stage, got>>
      BY <1>3 DEF Acquire
    <2>2. TypeOK' /\ GotFromCell' /\ FillsCount'
      BY <1>0, <2>1 DEF TypeOK, GotFromCell, FillsCount, Key
    <2>3. \A i \in Jobs : call'[i] = "reading" => i = j \/ (call[i] = "reading" /\ At(i) # At(j))
      BY <1>0, <2>1 DEF TypeOK, Reading
    <2>4. \A i \in Jobs : At(i)' = At(i)
      BY <2>1 DEF At, Key
    <2>5. OneReader'
      BY <1>0, <2>3, <2>4 DEF OneReader
    <2>6. ReadersAreLive'
      BY <1>0, <2>1, <2>3, <2>4 DEF ReadersAreLive, Live
    <2> QED
      BY <2>2, <2>5, <2>6 DEF IInv
  <1>4. ASSUME NEW j \in Jobs, ReadOk(j) PROVE IInv'
    <2>1. /\ Live(j) /\ call[j] = "reading" /\ Receive(j, j[1]) /\ part' = part
          /\ cell'  = [cell EXCEPT ![At(j)] = j[1]]
          /\ fills' = [fills EXCEPT ![At(j)] = @ + 1]
      BY <1>4 DEF ReadOk
    <2>2. At(j) \in Cells /\ cell[At(j)] = None /\ j[1] \in Partitions
      BY <1>0, <2>1, AtIsCell, JobFacts DEF ReadersAreLive
    <2>3. /\ cell' \in [Cells -> Partitions \cup {None}]
          /\ cell'[At(j)] = j[1]
          /\ \A c \in Cells : c # At(j) => cell'[c] = cell[c]
      BY <1>0, <2>1, <2>2 DEF TypeOK
    <2>4. fills' \in [Cells -> Nat]
      <3>1. fills[At(j)] + 1 \in Nat
        BY <1>0, <2>2 DEF TypeOK
      <3>2. fills' = [fills EXCEPT ![At(j)] = fills[At(j)] + 1]
        BY <2>1
      <3> QED
        BY <1>0, <3>1, <3>2 DEF TypeOK
    <2>5. TypeOK' /\ GotFromCell'
      BY <1>0, <2>1, <2>2, <2>3, <2>4, ReceiveKeeps DEF TypeOK
    <2>6. \A i \in Jobs : i # j /\ call[i] = "reading" => At(i) # At(j)
      BY <1>0, <2>1 DEF OneReader
    <2>7. OneReader' /\ ReadersAreLive'
      BY <2>1, <2>2, <2>3, <2>6, ReceiveKeepsReaders
    <2>8. FillsCount'
      BY <1>0, <2>1, <2>2, <2>3, CacheAssumption DEF FillsCount, TypeOK
    <2> QED
      BY <2>5, <2>7, <2>8 DEF IInv
  <1>5. ASSUME NEW j \in Jobs, Resume(j) PROVE IInv'
    BY <1>1, <1>5 DEF Resume
  <1>6. ASSUME NEW p \in Partitions, DropCalls(p), UNCHANGED <<cell, fills, stage, got>>,
               NEW w \in {"failed", "dropped"}, part' = [part EXCEPT ![p] = w]
        PROVE  IInv'
    <2>1. call' \in [Jobs -> {"idle", "waiting", "reading"}] /\ OneReader' /\ ReadersAreLive'
      BY <1>6, DropKeepsReaders
    <2>2. TypeOK'
      BY <1>0, <1>6, <2>1 DEF TypeOK
    <2>3. GotFromCell' /\ FillsCount'
      BY <1>0, <1>6 DEF GotFromCell, FillsCount, Key
    <2> QED
      BY <2>1, <2>2, <2>3 DEF IInv
  <1>7. ASSUME NEW j \in Jobs, ReadErr(j) PROVE IInv'
    BY <1>6, <1>7, JobFacts DEF ReadErr
  <1>8. ASSUME NEW p \in Partitions, Drop(p) PROVE IInv'
    BY <1>6, <1>8 DEF Drop
  <1>9. ASSUME NEW p \in Partitions, Join(p) PROVE IInv'
    <2>1. /\ part' = [part EXCEPT ![p] = "loaded"]
          /\ \A c \in Coords : stage[<<p, c>>] = "end"
          /\ UNCHANGED <<cell, fills, stage, call, got>>
      BY <1>9 DEF Join
    <2>2. TypeOK' /\ GotFromCell' /\ FillsCount' /\ OneReader'
      BY <1>0, <2>1 DEF TypeOK, GotFromCell, FillsCount, OneReader, At, Key
    <2>3. \A i \in Jobs : Live(i) => i[1] # p
      BY <2>1 DEF Live, Jobs
    <2>4. ReadersAreLive'
      BY <1>0, <2>1, <2>3, JobFacts DEF ReadersAreLive, Live, At, Key, TypeOK
    <2> QED
      BY <2>2, <2>4 DEF IInv
  <1>10. CASE UNCHANGED vars
    BY <1>0, <1>10 DEF IInv, vars, TypeOK, OneReader, ReadersAreLive, GotFromCell, FillsCount,
                       Live, At, Key
  <1> QED
    BY <1>2, <1>3, <1>4, <1>5, <1>7, <1>8, <1>9, <1>10 DEF Next, Step, Ended

-----------------------------------------------------------------------------
\* The invariant holds throughout.
THEOREM InvariantHolds == Safety => []IInv
  BY InitIInv, NextIInv, PTL DEF Safety

\* The variables keep their types.
THEOREM TypeCorrect == Safety => []TypeOK
  <1>1. IInv => TypeOK
    BY DEF IInv
  <1> QED
    BY <1>1, InvariantHolds, PTL

\* A cell never has two readers at once, for any number of partitions.
THEOREM SingleReader == Safety => []OneReader
  <1>1. IInv => OneReader
    BY DEF IInv
  <1> QED
    BY <1>1, InvariantHolds, PTL

\* No array is opened twice and no coordinate window read twice with success,
\* whatever reads fail or are dropped in between.
THEOREM ReadAtMostOnce == Safety => []ReadOnce
  <1>1. IInv => ReadOnce
    BY DEF IInv, FillsCount, ReadOnce
  <1> QED
    BY <1>1, InvariantHolds, PTL

\* All partitions of a scan see the same coordinate values.
THEOREM PartitionsAgree == Safety => []Agreement
  <1>1. IInv => Agreement
    BY DEF IInv, GotFromCell, Agreement
  <1> QED
    BY <1>1, InvariantHolds, PTL

-----------------------------------------------------------------------------
\* Init has reached nothing.
LEMMA InitStages == Init => StagesReached
  <1> SUFFICES ASSUME Init PROVE StagesReached
    OBVIOUS
  <1>1. \A j \in Jobs : stage[j] = "array"
    BY DEF Init
  <1>2. \A j \in Jobs : part[j[1]] = "loading"
    BY JobFacts DEF Init
  <1> QED
    BY <1>1, <1>2 DEF StagesReached

\* Steps keep what the stages say.  Receive is the only one to move a stage,
\* Join the only one to load a partition.
LEMMA NextStages == IInv /\ StagesReached /\ [Next]_vars => StagesReached'
  <1> SUFFICES ASSUME IInv, StagesReached, [Next]_vars PROVE StagesReached'
    OBVIOUS
  <1>0. TypeOK
    BY DEF IInv
  <1>1. ASSUME NEW j \in Jobs, Live(j), NEW v \in Partitions, Receive(j, v), part' = part
        PROVE  StagesReached'
    <2>0. stage[j] \in Kinds /\ v # None
      BY <1>0, <1>1, AtIsCell, CacheAssumption
    <2> SUFFICES ASSUME NEW i \in Jobs
                 PROVE  /\ stage'[i] = "end" => got'[i]["coord"] # None
                        /\ part'[i[1]] = "loaded" => stage'[i] = "end"
      BY DEF StagesReached
    <2>1. CASE i # j
      <3>1. stage'[i] = stage[i] /\ got'[i] = got[i]
        BY <1>0, <1>1, <2>1 DEF Receive, TypeOK
      <3> QED
        BY <1>1, <3>1 DEF StagesReached
    <2>2. CASE i = j
      <3>1. stage'[j] = "end" => stage[j] = "coord"
        BY <1>0, <1>1, <2>0 DEF Receive, TypeOK, Kinds
      <3>2. stage[j] = "coord" => got'[j]["coord"] = v
        BY <1>0, <1>1 DEF Receive, TypeOK, Kinds
      <3>3. part'[j[1]] # "loaded"
        BY <1>1 DEF Live
      <3> QED
        BY <2>0, <2>2, <3>1, <3>2, <3>3
    <2> QED
      BY <2>1, <2>2
  <1>2. ASSUME NEW j \in Jobs, Live(j), cell[At(j)] # None, Receive(j, cell[At(j)]), part' = part
        PROVE  StagesReached'
    <2>1. cell[At(j)] \in Partitions
      BY <1>0, <1>2, AtIsCell DEF TypeOK
    <2> QED
      BY <1>1, <1>2, <2>1
  <1>3. ASSUME NEW p \in Partitions, NEW w \in {"failed", "dropped"},
               part' = [part EXCEPT ![p] = w], UNCHANGED <<stage, got>>
        PROVE  StagesReached'
    <2>1. \A j \in Jobs : part'[j[1]] = "loaded" => part[j[1]] = "loaded"
      BY <1>0, <1>3, JobFacts DEF TypeOK
    <2> QED
      BY <1>3, <2>1 DEF StagesReached
  <1>4. ASSUME NEW j \in Jobs, Ask(j) PROVE StagesReached'
    <2>1. CASE UNCHANGED <<part, stage, got>>
      BY <2>1 DEF StagesReached
    <2> QED
      BY <1>2, <1>4, <2>1 DEF Ask
  <1>5. ASSUME NEW j \in Jobs, Acquire(j) PROVE StagesReached'
    BY <1>5 DEF Acquire, StagesReached
  <1>6. ASSUME NEW j \in Jobs, ReadOk(j) PROVE StagesReached'
    BY <1>1, <1>6, JobFacts DEF ReadOk
  <1>7. ASSUME NEW j \in Jobs, Resume(j) PROVE StagesReached'
    BY <1>2, <1>7 DEF Resume
  <1>8. ASSUME NEW j \in Jobs, ReadErr(j) PROVE StagesReached'
    BY <1>3, <1>8, JobFacts DEF ReadErr
  <1>9. ASSUME NEW p \in Partitions, Drop(p) PROVE StagesReached'
    BY <1>3, <1>9 DEF Drop
  <1>10. ASSUME NEW p \in Partitions, Join(p) PROVE StagesReached'
    <2>1. \A j \in Jobs : j[1] = p => stage[j] = "end"
      BY <1>10 DEF Join, Jobs
    <2>2. \A j \in Jobs : part'[j[1]] = "loaded" => j[1] = p \/ part[j[1]] = "loaded"
      BY <1>0, <1>10, JobFacts DEF Join, TypeOK
    <2> QED
      BY <1>10, <2>1, <2>2 DEF Join, StagesReached
  <1>11. CASE UNCHANGED vars
    BY <1>11 DEF vars, StagesReached
  <1> QED
    BY <1>4, <1>5, <1>6, <1>7, <1>8, <1>9, <1>10, <1>11 DEF Next, Step, Ended

\* No partition builds batches with a coordinate missing.
THEOREM LoadedHasAll == Safety => []LoadedIsComplete
  <1>1. StagesReached => LoadedIsComplete
    BY DEF StagesReached, LoadedIsComplete
  <1> QED
    BY <1>1, InitStages, NextStages, InvariantHolds, PTL DEF Safety

-----------------------------------------------------------------------------
\* Init sets no cell.
LEMMA InitWindows == Init => WindowsKept
  <1> SUFFICES ASSUME Init, NEW j \in Jobs PROVE cell[Key(j, "coord")] = None
    BY DEF WindowsKept
  <1> QED
    BY JobFacts DEF Init, Kinds

\* ReadOk is the only step that sets a cell, and the key of the cell names the
\* window of the partition that reads.
LEMMA NextWindows == IInv /\ WindowsKept /\ [Next]_vars => WindowsKept'
  <1> SUFFICES ASSUME IInv, WindowsKept, [Next]_vars PROVE WindowsKept'
    OBVIOUS
  <1>1. ASSUME NEW j \in Jobs, ReadOk(j) PROVE WindowsKept'
    <2>1. stage[j] \in Kinds /\ At(j) \in Cells /\ cell \in [Cells -> Partitions \cup {None}]
      BY <1>1, AtIsCell DEF ReadOk, IInv, TypeOK
    <2> SUFFICES ASSUME NEW i \in Jobs, i[2] = Outer, cell'[Key(i, "coord")] # None
                 PROVE  WindowOf[cell'[Key(i, "coord")]] = WindowOf[i[1]]
      BY DEF WindowsKept, Key
    <2>2. Key(i, "coord") \in Cells
      BY JobFacts DEF Kinds
    <2>3. CASE Key(i, "coord") = At(j)
      <3>1. stage[j] = "coord" /\ j[2] = Outer
        BY <2>3 DEF At, Key
      <3>2. WindowOf[i[1]] = WindowOf[j[1]]
        BY <2>3, <3>1 DEF At, Key
      <3>3. cell'[Key(i, "coord")] = j[1]
        BY <1>1, <2>1, <2>3 DEF ReadOk
      <3> QED
        BY <3>2, <3>3
    <2>4. CASE Key(i, "coord") # At(j)
      <3>1. cell'[Key(i, "coord")] = cell[Key(i, "coord")]
        BY <1>1, <2>1, <2>2, <2>4 DEF ReadOk
      <3> QED
        BY <3>1 DEF WindowsKept
    <2> QED
      BY <2>3, <2>4
  <1>2. CASE cell' = cell
    BY <1>2 DEF WindowsKept, Key
  <1> QED
    BY <1>1, <1>2 DEF Next, Step, Ask, Acquire, Resume, ReadErr, Drop, Join, Ended, vars

\* No partition is handed the outer coordinate of other chunks than its own.
THEOREM WindowsRight == Safety => []RightWindow
  <1>1. IInv /\ WindowsKept => RightWindow
    <2> SUFFICES ASSUME IInv, WindowsKept, NEW j \in Jobs, j[2] = Outer, got[j]["coord"] # None
                 PROVE  WindowOf[got[j]["coord"]] = WindowOf[j[1]]
      BY DEF RightWindow
    <2>1. got[j]["coord"] = cell[Key(j, "coord")]
      BY DEF IInv, GotFromCell, Kinds
    <2> QED
      BY <2>1 DEF WindowsKept
  <1> QED
    BY <1>1, InitWindows, NextWindows, InvariantHolds, PTL DEF Safety
=============================================================================
