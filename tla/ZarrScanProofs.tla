--------------------------- MODULE ZarrScanProofs ---------------------------
(***************************************************************************)
(* From the cuts of one axis to the plan of a whole scan, and from the plan *)
(* to the rows returned, for every query, batch size and ceiling.           *)
(*                                                                         *)
(* Planning: the inner axes are cut into boxes, each outer piece is read    *)
(* box by box, and the specs are spread over tasks: SpecsCut, that each     *)
(* cell is in a spec and no two specs have a chunk in common, is carried    *)
(* through all of it and is the core of the inductive invariant PlanInv.    *)
(*                                                                         *)
(* Execution, whatever the query: what a partition reads, the type          *)
(* invariant and the memory that the windows hold at one time (ScanInv),    *)
(* and that tiles do not split chunks.  Then, for the queries that the      *)
(* reader answers: the rows of a tile are its cells, each with its own      *)
(* value; the boxes of the partitions are disjoint and cover what is        *)
(* wanted; and RowsInv keeps account of every cell, as not yet read,        *)
(* pending or returned.  It gives the exactness of the result, at the end   *)
(* and at any time before, and that the scan implements TableScan.          *)
(***************************************************************************)
EXTENDS ZarrScan, PartitionProofs


-----------------------------------------------------------------------------
(* Rows and ranks. *)

\* Rows laid one after the other: each index stands for one place of one row,
\* and each place has an index.
LaidOut(flat, rows, at, n, k) ==
    /\ at \in [1 .. n * k -> (1 .. n) \X (1 .. k)]
    /\ flat = [m \in 1 .. n * k |-> rows[at[m][1]][at[m][2]]]
    /\ \A l, m \in 1 .. n * k : at[l] = at[m] => l = m
    /\ \A r \in 1 .. n, i \in 1 .. k : \E m \in 1 .. n * k : at[m] = <<r, i>>

\* What FlattenRows does with rows of one length.
LEMMA FlattenFacts ==
    ASSUME NEW n \in Nat \ {0}, NEW k \in Nat \ {0}, NEW S, NEW rows \in [1 .. n -> [1 .. k -> S]]
    PROVE  \E at : LaidOut(FlattenRows(rows), rows, at, n, k)
  <1> DEFINE Row(m) == ((m - 1) \div k) + 1
             Col(m) == ((m - 1) % k) + 1
             at     == [m \in 1 .. n * k |-> <<Row(m), Col(m)>>]
  <1>1. n * k \in Nat
    OBVIOUS
  <1>2. ASSUME NEW m \in 1 .. n * k
        PROVE  /\ Row(m) \in 1 .. n /\ Col(m) \in 1 .. k
               /\ m = ((Row(m) - 1) * k) + Col(m)
    <2> DEFINE q == (m - 1) \div k
               r == (m - 1) % k
    <2>1. m - 1 \in Nat /\ m - 1 < n * k
      BY <1>1
    <2>2. q \in Nat /\ r \in 0 .. k - 1 /\ m - 1 = (q * k) + r
      BY <2>1, DivFacts, ModFacts
    <2>3. q < n
      BY <2>1, InChunks
    <2>4. Row(m) = q + 1 /\ Col(m) = r + 1
      OBVIOUS
    <2> HIDE DEF q, r
    <2>5. q * k \in Nat /\ (q + 1) - 1 = q
      BY <2>2
    <2> QED
      BY <2>2, <2>3, <2>4, <2>5
  <1> HIDE DEF Row, Col
  <1>3. at \in [1 .. n * k -> (1 .. n) \X (1 .. k)]
    BY <1>2
  <1>4. FlattenRows(rows) = [m \in 1 .. n * k |-> rows[at[m][1]][at[m][2]]]
    <2>1. rows \in Seq([1 .. k -> S]) /\ Len(rows) = n
      OBVIOUS
    <2>2. rows[1] \in [1 .. k -> S]
      OBVIOUS
    <2>3. Len(rows[1]) = k
      BY <2>2
    <2>4. FlattenRows(rows) = [m \in 1 .. n * k |-> rows[Row(m)][Col(m)]]
      BY <2>1, <2>3 DEF FlattenRows, Row, Col
    <2> QED
      BY <2>4
  <1>5. ASSUME NEW l \in 1 .. n * k, NEW m \in 1 .. n * k, at[l] = at[m] PROVE l = m
    <2>1. Row(l) = Row(m) /\ Col(l) = Col(m)
      BY <1>5
    <2> QED
      BY <1>2, <2>1
  <1>6. ASSUME NEW r \in 1 .. n, NEW i \in 1 .. k
        PROVE  \E m \in 1 .. n * k : at[m] = <<r, i>>
    <2> DEFINE m == ((r - 1) * k) + i
    <2>1. (r - 1) * k \in Nat /\ r * k = ((r - 1) * k) + k /\ r * k <= n * k
      <3>1. r - 1 \in Nat /\ r \in Nat /\ r <= n
        OBVIOUS
      <3> QED
        BY <3>1, MulMono
    <2>2. m \in 1 .. n * k
      <3> DEFINE x == (r - 1) * k
                 y == r * k
                 z == n * k
      <3>1. x \in Nat /\ y = x + k /\ y <= z /\ z \in Nat
        BY <1>1, <2>1
      <3> HIDE DEF x, y, z
      <3>2. x + i \in 1 .. z
        BY <3>1
      <3> QED
        BY <3>2 DEF x, z
    <2>3. (m - 1) \div k = r - 1
      <3>1. m - 1 \in Nat /\ r - 1 \in Nat /\ (r - 1) * k <= m - 1 /\ m - 1 < ((r - 1) + 1) * k
        BY <2>1, <2>2
      <3> QED
        BY <3>1, DivUnique
    <2>4. Row(m) = r
      BY <2>3 DEF Row
    <2>5. Col(m) = i
      <3>1. m = ((Row(m) - 1) * k) + Col(m) /\ Col(m) \in 1 .. k
        BY <1>2, <2>2
      <3> DEFINE c == Col(m)
      <3>2. m = ((r - 1) * k) + c /\ c \in 1 .. k
        BY <2>4, <3>1
      <3> HIDE DEF c
      <3>3. c = i
        BY <2>1, <3>2
      <3> QED
        BY <3>3 DEF c
    <2> HIDE DEF m
    <2>6. at[m] = <<r, i>>
      BY <2>2, <2>4, <2>5
    <2> QED
      BY <2>2, <2>6
  <1> HIDE DEF at
  <1>7. LaidOut(FlattenRows(rows), rows, at, n, k)
    BY <1>3, <1>4, <1>5, <1>6 DEF LaidOut
  <1> QED
    BY <1>7

-----------------------------------------------------------------------------
(* The boxes of the split axes. *)

\* Two selections have no chunk in common.
Apart(s, t, c) == \A x \in Members(s), y \in Members(t) : x \div c # y \div c

\* Boxes, n of them, that cut the axes A of a grid on chunk boundaries.
Boxes(combos, A, n, sizes, chunks) ==
    /\ DOMAIN combos = 1 .. n /\ combos = [c \in 1 .. n |-> combos[c]]
    /\ \A c \in 1 .. n : DOMAIN combos[c] = A
    /\ \A c \in 1 .. n, a \in A :
          combos[c][a] \in RangeSels /\ Members(combos[c][a]) \subseteq 0 .. sizes[a] - 1
    /\ \A cell : (\A a \in A : cell[a] \in 0 .. sizes[a] - 1) =>
          \E c \in 1 .. n : \A a \in A : cell[a] \in Members(combos[c][a])
    /\ \A c, d \in 1 .. n : c # d =>
          \E a \in A : Apart(combos[c][a], combos[d][a], Max2(1, chunks[a]))

\* Pieces of a cut have no chunk in common.
LEMMA CutApart ==
    ASSUME NEW pieces, NEW S, S \subseteq Nat, NEW c \in Nat \ {0}, NEW m, NEW K, CutOf(pieces, S, c, m, K),
           NEW i \in DOMAIN pieces, NEW j \in DOMAIN pieces, i # j
    PROVE  Apart(pieces[i], pieces[j], c)
  <1> SUFFICES ASSUME NEW x \in Members(pieces[i]), NEW y \in Members(pieces[j])
               PROVE  x \div c # y \div c
    BY DEF Apart
  <1>1. x \in Nat /\ y \in Nat
    BY DEF CutOf
  <1>2. x \div c \in Nat /\ y \div c \in Nat
    BY <1>1, DivFacts
  <1>3. i \in Int /\ j \in Int
    BY DEF CutOf
  <1>4. x \div c < y \div c \/ y \div c < x \div c
    <2>1. CASE i < j
      BY <2>1 DEF CutOf
    <2>2. CASE j < i
      BY <2>2 DEF CutOf
    <2> QED
      BY <1>3, <2>1, <2>2
  <1> QED
    BY <1>2, <1>4

\* One more axis: the boxes with every piece of it.
LEMMA ExtendFacts ==
    ASSUME NEW n \in Nat \ {0}, NEW A, NEW sizes, NEW chunks, NEW combos,
           Boxes(combos, A, n, sizes, chunks),
           NEW axis, axis \notin A, sizes[axis] \in Nat, chunks[axis] \in Nat,
           NEW k \in Nat \ {0}, NEW pieces, DOMAIN pieces = 1 .. k, NEW m,
           CutOf(pieces, 0 .. sizes[axis] - 1, Max2(1, chunks[axis]), m, RangeSels)
    PROVE  Boxes(ExtendCombos(combos, axis, pieces), A \cup {axis}, n * k, sizes, chunks)
  <1> DEFINE B         == A \cup {axis}
             Box(c, i) == [a \in B |-> IF a = axis THEN pieces[i] ELSE combos[c][a]]
             rows      == [c \in 1 .. n |-> [i \in 1 .. k |-> Box(c, i)]]
             S         == {Box(c, i) : c \in 1 .. n, i \in 1 .. k}
             more      == ExtendCombos(combos, axis, pieces)
  <1>1. /\ DOMAIN combos = 1 .. n
        /\ \A c \in 1 .. n : DOMAIN combos[c] = A
        /\ \A c \in 1 .. n, a \in A :
              combos[c][a] \in RangeSels /\ Members(combos[c][a]) \subseteq 0 .. sizes[a] - 1
        /\ \A cell : (\A a \in A : cell[a] \in 0 .. sizes[a] - 1) =>
              \E c \in 1 .. n : \A a \in A : cell[a] \in Members(combos[c][a])
        /\ \A c, d \in 1 .. n : c # d =>
              \E a \in A : Apart(combos[c][a], combos[d][a], Max2(1, chunks[a]))
    BY DEF Boxes
  <1>2. more = FlattenRows(rows)
    BY <1>1 DEF ExtendCombos
  <1>3. rows \in [1 .. n -> [1 .. k -> S]]
    OBVIOUS
  <1>4. \A c \in 1 .. n, i \in 1 .. k :
           /\ rows[c][i] = Box(c, i) /\ DOMAIN Box(c, i) = B
           /\ Box(c, i)[axis] = pieces[i]
           /\ \A a \in A : Box(c, i)[a] = combos[c][a]
    OBVIOUS
  <1>5. n * k \in Nat
    OBVIOUS
  <1> HIDE DEF rows, Box, S, more
  <1>6. PICK at : LaidOut(more, rows, at, n, k)
    BY <1>2, <1>3, FlattenFacts
  <1> DEFINE w == n * k
  <1>7. /\ DOMAIN more = 1 .. w /\ more = [l \in 1 .. w |-> more[l]]
        /\ \A l \in 1 .. w : at[l][1] \in 1 .. n /\ at[l][2] \in 1 .. k
        /\ \A l \in 1 .. w : at[l] = <<at[l][1], at[l][2]>>
        /\ \A l \in 1 .. w : more[l] = Box(at[l][1], at[l][2])
    <2>1. at \in [1 .. w -> (1 .. n) \X (1 .. k)] /\ more = [l \in 1 .. w |-> rows[at[l][1]][at[l][2]]]
      BY <1>6 DEF LaidOut
    <2> HIDE DEF w
    <2>2. ASSUME NEW l \in 1 .. w
          PROVE  at[l][1] \in 1 .. n /\ at[l][2] \in 1 .. k /\ at[l] = <<at[l][1], at[l][2]>>
      BY <2>1
    <2>3. ASSUME NEW l \in 1 .. w PROVE more[l] = Box(at[l][1], at[l][2])
      <3>1. more[l] = rows[at[l][1]][at[l][2]]
        BY <2>1
      <3> QED
        BY <1>4, <2>2, <3>1, Zenon
    <2> QED
      BY <2>1, <2>2, <2>3
  <1> HIDE DEF w
  <1>8. \A l \in 1 .. w : DOMAIN more[l] = B
    BY <1>4, <1>7
  <1>9. ASSUME NEW l \in 1 .. w, NEW a \in B
        PROVE  more[l][a] \in RangeSels /\ Members(more[l][a]) \subseteq 0 .. sizes[a] - 1
    <2>1. CASE a = axis
      <3>1. more[l][a] = pieces[at[l][2]]
        BY <1>4, <1>7, <2>1
      <3> QED
        BY <1>7, <2>1, <3>1 DEF CutOf
    <2>2. CASE a \in A
      <3>1. more[l][a] = combos[at[l][1]][a]
        BY <1>4, <1>7, <2>2
      <3> QED
        BY <1>1, <1>7, <2>2, <3>1
    <2> QED
      BY <2>1, <2>2
  <1>10. ASSUME NEW cell, \A a \in B : cell[a] \in 0 .. sizes[a] - 1
         PROVE  \E l \in 1 .. w : \A a \in B : cell[a] \in Members(more[l][a])
    <2>1. PICK c \in 1 .. n : \A a \in A : cell[a] \in Members(combos[c][a])
      BY <1>1, <1>10
    <2>2. PICK i \in 1 .. k : cell[axis] \in Members(pieces[i])
      BY <1>10 DEF CutOf
    <2>3. PICK l \in 1 .. w : at[l] = <<c, i>>
      BY <1>6 DEF w, LaidOut
    <2>4. more[l] = Box(c, i)
      BY <1>7, <2>3
    <2>5. ASSUME NEW a \in B PROVE cell[a] \in Members(more[l][a])
      BY <1>4, <2>1, <2>2, <2>4
    <2> QED
      BY <2>5
  <1>11. ASSUME NEW l \in 1 .. w, NEW q \in 1 .. w, l # q
         PROVE  \E a \in B : Apart(more[l][a], more[q][a], Max2(1, chunks[a]))
    <2> DEFINE c == at[l][1]
               i == at[l][2]
               d == at[q][1]
               j == at[q][2]
    <2>1. /\ c \in 1 .. n /\ d \in 1 .. n /\ i \in 1 .. k /\ j \in 1 .. k
          /\ more[l] = Box(c, i) /\ more[q] = Box(d, j)
      BY <1>7
    <2>2. c # d \/ i # j
      <3>1. at[l] # at[q]
        BY <1>6, <1>11 DEF w, LaidOut
      <3> QED
        BY <1>7, <3>1
    <2> HIDE DEF c, i, d, j
    <2>3. CASE c # d
      <3>1. PICK a \in A : Apart(combos[c][a], combos[d][a], Max2(1, chunks[a]))
        BY <1>1, <2>1, <2>3
      <3>2. Box(c, i)[a] = combos[c][a] /\ Box(d, j)[a] = combos[d][a]
        BY <1>4, <2>1, Zenon
      <3>3. more[l][a] = combos[c][a] /\ more[q][a] = combos[d][a]
        BY <2>1, <3>2
      <3> QED
        BY <3>1, <3>3
    <2>4. CASE i # j
      <3>1. Max2(1, chunks[axis]) \in Nat \ {0}
        BY DEF Max2
      <3>2. 0 .. sizes[axis] - 1 \subseteq Nat
        OBVIOUS
      <3>3. Apart(pieces[i], pieces[j], Max2(1, chunks[axis]))
        BY <2>1, <2>4, <3>1, <3>2, CutApart
      <3>4. more[l][axis] = pieces[i] /\ more[q][axis] = pieces[j]
        BY <1>4, <2>1
      <3> QED
        BY <3>3, <3>4
    <2> QED
      BY <2>2, <2>3, <2>4
  <1>12. Boxes(more, B, w, sizes, chunks)
    <2> HIDE DEF B
    <2> QED
      BY <1>7, <1>8, <1>9, <1>10, <1>11 DEF Boxes
  <1> QED
    BY <1>12 DEF more, w

\* The boxes after each split axis.
IsCombos(f, n, split) ==
    f = [j \in 0 .. n |-> IF j = 0 THEN << <<>> >>
                          ELSE ExtendCombos(f[j - 1], split[j][1], split[j][2])]

\* The turns of the loop over the split axes are well defined.
LEMMA CombosExist ==
    ASSUME NEW split, NEW n \in Nat
    PROVE  \E f : IsCombos(f, n, split)
  <1> DEFINE Turn(h, j) == IF j = 0 THEN << <<>> >>
                           ELSE ExtendCombos(h[j - 1], split[j][1], split[j][2])
             Bad == {m \in Nat : ~ \E f : IsCombos(f, m, split)}
  <1>0. \A f, m : IsCombos(f, m, split) <=> f = [j \in 0 .. m |-> Turn(f, j)]
    BY DEF IsCombos
  <1>1. \E f : IsCombos(f, 0, split)
    <2> DEFINE f == [j \in 0 .. 0 |-> << <<>> >>]
    <2>1. 0 .. 0 = {0}
      OBVIOUS
    <2>2. f = [j \in 0 .. 0 |-> Turn(f, j)]
      BY <2>1
    <2> QED
      BY <1>0, <2>2
  <1>2. ASSUME NEW m \in Nat, NEW f, IsCombos(f, m, split)
        PROVE  \E g : IsCombos(g, m + 1, split)
    <2> DEFINE g == [j \in 0 .. m + 1 |-> IF j = m + 1 THEN Turn(f, m + 1) ELSE f[j]]
    <2>1. \A j \in 0 .. m : f[j] = Turn(f, j)
      <3>1. f = [j \in 0 .. m |-> Turn(f, j)]
        BY <1>0, <1>2
      <3> HIDE DEF Turn
      <3> QED
        BY <3>1
    <2>2. ASSUME NEW j \in 0 .. m + 1 PROVE g[j] = Turn(g, j)
      <3>1. j # m + 1 => j \in 0 .. m /\ g[j] = f[j]
        OBVIOUS
      <3>2. j = m + 1 => g[j] = Turn(f, j)
        OBVIOUS
      <3>3. j # 0 => g[j - 1] = f[j - 1]
        OBVIOUS
      <3>4. g[j] = Turn(f, j)
        <4> HIDE DEF g, Turn
        <4> QED
          BY <2>1, <3>1, <3>2
      <3> HIDE DEF g
      <3> QED
        BY <3>3, <3>4
    <2>3. g = [j \in 0 .. m + 1 |-> Turn(g, j)]
      <3>1. g = [j \in 0 .. m + 1 |-> g[j]]
        OBVIOUS
      <3> HIDE DEF g, Turn
      <3> QED
        BY <2>2, <3>1
    <2> QED
      BY <1>0, <2>3
  <1>3. Bad = {}
    <2> SUFFICES ASSUME Bad # {} PROVE FALSE
      OBVIOUS
    <2>1. PICK m \in Bad : \A l \in Bad : m <= l
      BY LeastNat
    <2>2. m # 0
      BY <1>1
    <2>3. m - 1 \in Nat /\ m - 1 \notin Bad /\ (m - 1) + 1 = m
      BY <2>1, <2>2
    <2>4. PICK f : IsCombos(f, m - 1, split)
      BY <2>3
    <2>5. \E g : IsCombos(g, (m - 1) + 1, split)
      BY <1>2, <2>3, <2>4
    <2> QED
      BY <2>3, <2>5
  <1> QED
    BY <1>3

\* The last split axis comes on top of the boxes of the others.
LEMMA CombosAppend ==
    ASSUME NEW T, NEW split \in Seq(T), NEW ap \in T
    PROVE  InnerCombos(Append(split, ap)) = ExtendCombos(InnerCombos(split), ap[1], ap[2])
  <1> DEFINE n    == Len(split)
             more == Append(split, ap)
             f    == CHOOSE f : IsCombos(f, n, split)
             g    == CHOOSE g : IsCombos(g, n + 1, more)
  <1>1. /\ n \in Nat /\ Len(more) = n + 1 /\ more[n + 1] = ap
        /\ \A j \in 1 .. n : more[j] = split[j]
    BY AppendAt
  <1>2. IsCombos(f, n, split) /\ IsCombos(g, n + 1, more)
    <2>1. n \in Nat /\ n + 1 \in Nat
      BY <1>1
    <2> HIDE DEF n, more
    <2> QED
      BY <2>1, CombosExist
  <1>3. InnerCombos(split) = f[n] /\ InnerCombos(more) = g[n + 1]
    <2>1. InnerCombos(split) = f[n]
      BY DEF InnerCombos, IsCombos
    <2>2. InnerCombos(more) = (CHOOSE h : IsCombos(h, Len(more), more))[Len(more)]
      BY DEF InnerCombos, IsCombos
    <2> HIDE DEF more
    <2> QED
      BY <1>1, <2>1, <2>2
  <1> HIDE DEF n, more, f, g
  <1>4. \A j \in 0 .. n : f[j] = IF j = 0 THEN << <<>> >>
                                 ELSE ExtendCombos(f[j - 1], split[j][1], split[j][2])
    <2>1. f = [j \in 0 .. n |-> IF j = 0 THEN << <<>> >>
                                ELSE ExtendCombos(f[j - 1], split[j][1], split[j][2])]
      BY <1>2 DEF IsCombos
    <2> QED
      BY <2>1
  <1>5. \A j \in 0 .. n + 1 : g[j] = IF j = 0 THEN << <<>> >>
                                     ELSE ExtendCombos(g[j - 1], more[j][1], more[j][2])
    <2>1. g = [j \in 0 .. n + 1 |-> IF j = 0 THEN << <<>> >>
                                    ELSE ExtendCombos(g[j - 1], more[j][1], more[j][2])]
      BY <1>2 DEF IsCombos
    <2> QED
      BY <2>1
  <1>6. \A j \in 0 .. n : f[j] = g[j]
    <2> DEFINE Bad == {j \in 0 .. n : f[j] # g[j]}
    <2> SUFFICES ASSUME Bad # {} PROVE FALSE
      OBVIOUS
    <2>1. PICK j \in Bad : \A i \in Bad : j <= i
      <3>1. Bad \subseteq Nat
        OBVIOUS
      <3> HIDE DEF Bad
      <3> QED
        BY <3>1, LeastNat
    <2>2. j \in 0 .. n /\ j \in 0 .. n + 1 /\ f[j] # g[j]
      BY <1>1, <2>1
    <2>3. j # 0
      BY <1>4, <1>5, <2>2
    <2>4. j - 1 \in 0 .. n /\ j - 1 \notin Bad /\ j \in 1 .. n
      BY <1>1, <2>1, <2>2, <2>3
    <2>5. f[j - 1] = g[j - 1] /\ more[j] = split[j]
      BY <1>1, <2>4
    <2>6. f[j] = ExtendCombos(f[j - 1], split[j][1], split[j][2])
      BY <1>4, <2>2, <2>3
    <2>7. g[j] = ExtendCombos(g[j - 1], more[j][1], more[j][2])
      BY <1>5, <2>2, <2>3
    <2> QED
      BY <2>2, <2>5, <2>6, <2>7
  <1>7. n + 1 \in 0 .. n + 1 /\ n + 1 # 0 /\ (n + 1) - 1 = n /\ n \in 0 .. n
    BY <1>1
  <1>8. g[n + 1] = ExtendCombos(g[n], more[n + 1][1], more[n + 1][2])
    BY <1>5, <1>7
  <1> QED
    BY <1>1, <1>3, <1>6, <1>7, <1>8 DEF more

\* Nothing split is one box that restricts nothing.
LEMMA NoCombos ==
    ASSUME NEW sizes, NEW chunks
    PROVE  Boxes(InnerCombos(<<>>), {}, 1, sizes, chunks)
  <1> DEFINE f == CHOOSE f : IsCombos(f, 0, <<>>)
  <1>1. InnerCombos(<<>>) = f[0]
    <2>1. Len(<<>>) = 0
      OBVIOUS
    <2>2. InnerCombos(<<>>) = (CHOOSE h : IsCombos(h, Len(<<>>), <<>>))[Len(<<>>)]
      BY DEF InnerCombos, IsCombos
    <2> QED
      BY <2>1, <2>2
  <1>2. IsCombos(f, 0, <<>>)
    BY CombosExist
  <1> HIDE DEF f
  <1>3. f[0] = << <<>> >>
    <2>1. f = [j \in 0 .. 0 |-> IF j = 0 THEN << <<>> >>
                                ELSE ExtendCombos(f[j - 1], <<>>[j][1], <<>>[j][2])]
      BY <1>2 DEF IsCombos
    <2> QED
      BY <2>1
  <1> DEFINE combos == << <<>> >>
  <1>4. DOMAIN combos = 1 .. 1 /\ combos[1] = <<>> /\ DOMAIN <<>> = {} /\ 1 .. 1 = {1}
        /\ combos = [c \in 1 .. 1 |-> combos[c]]
    OBVIOUS
  <1> HIDE DEF combos
  <1>5. Boxes(combos, {}, 1, sizes, chunks)
    BY <1>4 DEF Boxes
  <1> QED
    BY <1>1, <1>3, <1>5 DEF combos

-----------------------------------------------------------------------------
(* The axes that are split. *)

\* The splits chosen so far cut the axes A into acc boxes, within the budget.
Chosen(st, A, sizes, chunks, budget) ==
    /\ st.acc \in Nat \ {0} /\ st.acc <= budget
    /\ \E T : st.split \in Seq(T)
    /\ Boxes(InnerCombos(st.split), A, st.acc, sizes, chunks)

\* The loop of fan_out_inner over one more axis leaves it whole, or cuts it on
\* chunk boundaries within the budget.
LEMMA SplitAxisFacts ==
    ASSUME NEW budget \in Nat \ {0}, NEW sizes, NEW chunks, NEW A, NEW a, a \notin A,
           sizes[a] \in Nat, chunks[a] \in Nat, NEW st, Chosen(st, A, sizes, chunks, budget)
    PROVE  \/ Chosen(SplitAxis(st, a, sizes, chunks, budget), A, sizes, chunks, budget)
           \/ Chosen(SplitAxis(st, a, sizes, chunks, budget), A \cup {a}, sizes, chunks, budget)
  <1> DEFINE allowed == budget \div st.acc
             chunk   == Max2(1, chunks[a])
             m       == Min2(DivCeil(sizes[a], chunk), allowed)
             pieces  == PlanPartitions(sizes[a], chunk, m)
             next    == SplitAxis(st, a, sizes, chunks, budget)
             more    == [acc |-> st.acc * Len(pieces), split |-> Append(st.split, <<a, pieces>>)]
  <1>1. next = IF allowed <= 1 \/ Len(pieces) <= 1 THEN st ELSE more
    BY DEF SplitAxis
  <1>2. st.acc \in Nat \ {0} /\ st.acc <= budget /\ allowed \in Nat /\ allowed * st.acc <= budget
    <2>1. st.acc \in Nat \ {0} /\ st.acc <= budget
      BY DEF Chosen
    <2> QED
      BY <2>1, DivFacts
  <1>3. chunk \in Nat \ {0} /\ Max2(1, chunk) = chunk
    BY DEF Max2
  <1>4. DivCeil(sizes[a], chunk) \in Nat
    <2>1. sizes[a] + chunk - 1 \in Nat
      BY <1>3
    <2> QED
      BY <1>3, <2>1, DivFacts DEF DivCeil
  <1>5. m \in Nat /\ m <= allowed
    BY <1>2, <1>4 DEF Min2
  <1> HIDE DEF allowed, m
  <1>7. CutOf(pieces, 0 .. sizes[a] - 1, chunk, Max2(1, m), RangeSels)
    <2> HIDE DEF chunk
    <2>1. chunk \in Nat
      BY <1>3
    <2>2. CutOf(pieces, 0 .. sizes[a] - 1, Max2(1, chunk), Max2(1, m), RangeSels)
      BY <1>5, <2>1, PlanCutOf
    <2> QED
      BY <1>3, <2>2
  <1>6. PICK k \in 1 .. Max2(1, m) : DOMAIN pieces = 1 .. k
    <2> HIDE DEF pieces
    <2> QED
      BY <1>7 DEF CutOf
  <1>8. Len(pieces) = k /\ k \in Nat \ {0} /\ k <= Max2(1, m)
    <2>1. k \in Nat \ {0} /\ k <= Max2(1, m)
      BY <1>5, <1>6 DEF Max2
    <2>2. pieces = [i \in 1 .. k |-> pieces[i]]
      <3> HIDE DEF m, allowed
      <3>1. pieces = [i \in DOMAIN pieces |-> pieces[i]]
        <4>1. CASE sizes[a] = 0
          <5>1. pieces = <<RangeSel(0, 0)>>
            BY <4>1 DEF PlanPartitions
          <5> HIDE DEF pieces
          <5> QED
            BY <5>1
        <4>2. CASE sizes[a] # 0
          <5> DEFINE c    == IF chunk = 0 THEN sizes[a] ELSE chunk
                     nc   == DivCeil(sizes[a], c)
                     per  == DivCeil(nc, Max2(1, Min2(m, nc)))
                     w    == DivCeil(nc, per)
                     P(i) == RangeSel((i - 1) * per * c, Min2(i * per * c, sizes[a]))
          <5>1. pieces = [i \in 1 .. w |-> P(i)]
            BY <4>2 DEF PlanPartitions
          <5> HIDE DEF w, P, pieces
          <5> QED
            BY <5>1
        <4> QED
          BY <4>1, <4>2
      <3> QED
        BY <1>6, <3>1
    <2> HIDE DEF pieces
    <2>3. Len(pieces) = k
      BY <2>1, <2>2
    <2> QED
      BY <2>1, <2>3
  <1> HIDE DEF pieces, next, more
  <1>9. CASE allowed <= 1 \/ Len(pieces) <= 1
    BY <1>1, <1>9 DEF next
  <1>10. CASE ~(allowed <= 1 \/ Len(pieces) <= 1)
    <2>1. next = more
      BY <1>1, <1>10
    <2>2. more.acc = st.acc * k /\ more.split = Append(st.split, <<a, pieces>>)
      BY <1>8 DEF more
    <2>3. k <= allowed
      BY <1>2, <1>5, <1>8, <1>10 DEF Max2
    <2>4. st.acc * k \in Nat \ {0} /\ st.acc * k <= budget
      <3> DEFINE acc == st.acc
      <3>1. acc \in Nat \ {0} /\ allowed \in Nat /\ allowed * acc <= budget
        BY <1>2
      <3> HIDE DEF acc
      <3>2. k * acc <= allowed * acc
        BY <1>8, <2>3, <3>1, MulMono
      <3>3. acc * k = k * acc /\ k * acc \in Nat \ {0} /\ allowed * acc \in Nat
        BY <1>8, <3>1
      <3>4. acc * k \in Nat \ {0} /\ acc * k <= budget
        BY <3>1, <3>2, <3>3
      <3> QED
        BY <3>4 DEF acc
    <2>5. PICK T : st.split \in Seq(T)
      BY DEF Chosen
    <2> DEFINE ap == <<a, pieces>>
               U  == T \cup {ap}
    <2>6. st.split \in Seq(U) /\ ap \in U
      <3>1. T \subseteq U
        OBVIOUS
      <3> HIDE DEF U
      <3>2. st.split \in Seq(U)
        BY <2>5, <3>1
      <3> QED
        BY <3>2 DEF U
    <2>7. Append(st.split, ap) \in Seq(U)
      <3> HIDE DEF U, ap
      <3> QED
        BY <2>6, AppendAt
    <2>8. InnerCombos(Append(st.split, ap)) = ExtendCombos(InnerCombos(st.split), ap[1], ap[2])
      <3> HIDE DEF U, ap
      <3> QED
        BY <2>6, CombosAppend
    <2>9. ap[1] = a /\ ap[2] = pieces
      OBVIOUS
    <2>10. Boxes(ExtendCombos(InnerCombos(st.split), a, pieces), A \cup {a}, st.acc * k, sizes, chunks)
      <3>1. Boxes(InnerCombos(st.split), A, st.acc, sizes, chunks)
        BY DEF Chosen
      <3> QED
        BY <1>2, <1>6, <1>7, <1>8, <3>1, ExtendFacts
    <2> HIDE DEF U
    <2>11. Boxes(InnerCombos(more.split), A \cup {a}, more.acc, sizes, chunks)
      BY <2>2, <2>8, <2>9, <2>10
    <2>12. \E V : more.split \in Seq(V)
      BY <2>2, <2>7
    <2>13. Chosen(more, A \cup {a}, sizes, chunks, budget)
      BY <2>2, <2>4, <2>11, <2>12 DEF Chosen
    <2> QED
      BY <2>1, <2>13 DEF next
  <1> QED
    BY <1>9, <1>10

\* The splits after each candidate axis.
IsChosen(f, n, candidates, sizes, chunks, budget) ==
    f = [j \in 0 .. n |-> IF j = 0 THEN [acc |-> 1, split |-> <<>>]
                          ELSE SplitAxis(f[j - 1], candidates[j], sizes, chunks, budget)]

\* The turns of the loop over the candidates are well defined.
LEMMA ChosenExists ==
    ASSUME NEW candidates, NEW sizes, NEW chunks, NEW budget, NEW n \in Nat
    PROVE  \E f : IsChosen(f, n, candidates, sizes, chunks, budget)
  <1> DEFINE Turn(h, j) == IF j = 0 THEN [acc |-> 1, split |-> <<>>]
                           ELSE SplitAxis(h[j - 1], candidates[j], sizes, chunks, budget)
             Is(f, m) == IsChosen(f, m, candidates, sizes, chunks, budget)
             Bad == {m \in Nat : ~ \E f : Is(f, m)}
  <1>0. \A f, m : Is(f, m) <=> f = [j \in 0 .. m |-> Turn(f, j)]
    BY DEF IsChosen
  <1>1. \E f : Is(f, 0)
    <2> DEFINE f == [j \in 0 .. 0 |-> [acc |-> 1, split |-> <<>>]]
    <2>1. 0 .. 0 = {0}
      OBVIOUS
    <2>2. f = [j \in 0 .. 0 |-> Turn(f, j)]
      BY <2>1
    <2> QED
      BY <1>0, <2>2
  <1> HIDE DEF Is
  <1>2. ASSUME NEW m \in Nat, NEW f, Is(f, m)
        PROVE  \E g : Is(g, m + 1)
    <2> DEFINE g == [j \in 0 .. m + 1 |-> IF j = m + 1 THEN Turn(f, m + 1) ELSE f[j]]
    <2>1. \A j \in 0 .. m : f[j] = Turn(f, j)
      <3>1. f = [j \in 0 .. m |-> Turn(f, j)]
        BY <1>0, <1>2
      <3> HIDE DEF Turn
      <3> QED
        BY <3>1
    <2>2. ASSUME NEW j \in 0 .. m + 1 PROVE g[j] = Turn(g, j)
      <3>1. j # m + 1 => j \in 0 .. m /\ g[j] = f[j]
        OBVIOUS
      <3>2. j = m + 1 => g[j] = Turn(f, j)
        OBVIOUS
      <3>3. j # 0 => g[j - 1] = f[j - 1]
        OBVIOUS
      <3>4. g[j] = Turn(f, j)
        <4> HIDE DEF g, Turn
        <4> QED
          BY <2>1, <3>1, <3>2
      <3> HIDE DEF g
      <3> QED
        BY <3>3, <3>4
    <2>3. g = [j \in 0 .. m + 1 |-> Turn(g, j)]
      <3>1. g = [j \in 0 .. m + 1 |-> g[j]]
        OBVIOUS
      <3> HIDE DEF g, Turn
      <3> QED
        BY <2>2, <3>1
    <2> QED
      BY <1>0, <2>3
  <1>3. Bad = {}
    <2> SUFFICES ASSUME Bad # {} PROVE FALSE
      OBVIOUS
    <2>1. PICK m \in Bad : \A l \in Bad : m <= l
      BY LeastNat
    <2>2. m # 0
      BY <1>1
    <2>3. m - 1 \in Nat /\ m - 1 \notin Bad /\ (m - 1) + 1 = m
      BY <2>1, <2>2
    <2>4. PICK f : Is(f, m - 1)
      BY <2>3
    <2>5. \E g : Is(g, (m - 1) + 1)
      BY <1>2, <2>3, <2>4
    <2> QED
      BY <2>3, <2>5
  <1> QED
    BY <1>3 DEF Is

\* The boxes of fan_out_inner cut some of the candidate axes, on chunk boundaries
\* only, and there are no more of them than the budget.
LEMMA InnerSplitsFacts ==
    ASSUME NEW n \in Nat, NEW X, NEW candidates \in [1 .. n -> X],
           \A i, j \in 1 .. n : candidates[i] = candidates[j] => i = j,
           NEW sizes, NEW chunks, \A a \in X : sizes[a] \in Nat /\ chunks[a] \in Nat,
           NEW budget \in Nat \ {0}
    PROVE  \E A \in SUBSET X, acc \in 1 .. budget :
              Boxes(InnerCombos(InnerSplits(candidates, sizes, chunks, budget)), A, acc, sizes, chunks)
  <1> DEFINE f       == CHOOSE f : IsChosen(f, n, candidates, sizes, chunks, budget)
             Upto(j) == {candidates[i] : i \in 1 .. j}
             Good(j) == \E A \in SUBSET Upto(j) : Chosen(f[j], A, sizes, chunks, budget)
             Bad     == {j \in 0 .. n : ~Good(j)}
  <1>1. Len(candidates) = n
    OBVIOUS
  <1>2. InnerSplits(candidates, sizes, chunks, budget) = f[n].split
    BY <1>1 DEF InnerSplits, IsChosen
  <1>3. IsChosen(f, n, candidates, sizes, chunks, budget)
    BY ChosenExists
  <1> HIDE DEF f
  <1>4. \A j \in 0 .. n : f[j] = IF j = 0 THEN [acc |-> 1, split |-> <<>>]
                                 ELSE SplitAxis(f[j - 1], candidates[j], sizes, chunks, budget)
    <2>1. f = [j \in 0 .. n |-> IF j = 0 THEN [acc |-> 1, split |-> <<>>]
                                 ELSE SplitAxis(f[j - 1], candidates[j], sizes, chunks, budget)]
      BY <1>3 DEF IsChosen
    <2> QED
      BY <2>1
  <1>5. Good(0)
    <2>1. f[0] = [acc |-> 1, split |-> <<>>]
      BY <1>4
    <2>2. f[0].acc = 1 /\ f[0].split = <<>> /\ <<>> \in Seq({})
      BY <2>1
    <2>3. Boxes(InnerCombos(f[0].split), {}, f[0].acc, sizes, chunks)
      BY <2>2, NoCombos
    <2>4. Chosen(f[0], {}, sizes, chunks, budget)
      BY <2>2, <2>3 DEF Chosen
    <2> QED
      BY <2>4
  <1>6. ASSUME NEW j \in 1 .. n, Good(j - 1) PROVE Good(j)
    <2>1. PICK A \in SUBSET Upto(j - 1) : Chosen(f[j - 1], A, sizes, chunks, budget)
      BY <1>6
    <2> DEFINE a == candidates[j]
    <2>2. a \in X /\ sizes[a] \in Nat /\ chunks[a] \in Nat
      OBVIOUS
    <2>3. a \notin A
      <3> SUFFICES ASSUME a \in A PROVE FALSE
        OBVIOUS
      <3>1. PICK i \in 1 .. j - 1 : candidates[i] = a
        BY <2>1
      <3>2. i \in 1 .. n /\ i # j
        OBVIOUS
      <3> QED
        BY <3>1, <3>2
    <2>4. f[j] = SplitAxis(f[j - 1], a, sizes, chunks, budget)
      BY <1>4
    <2> HIDE DEF a
    <2>5. Chosen(f[j], A, sizes, chunks, budget) \/ Chosen(f[j], A \cup {a}, sizes, chunks, budget)
      BY <2>1, <2>2, <2>3, <2>4, SplitAxisFacts
    <2>6. A \in SUBSET Upto(j) /\ A \cup {a} \in SUBSET Upto(j)
      BY <2>1 DEF a
    <2> QED
      BY <2>5, <2>6
  <1>7. Good(n)
    <2> HIDE DEF Good
    <2>0. n \in 0 .. n
      OBVIOUS
    <2> SUFFICES ASSUME Bad # {} PROVE FALSE
      BY <2>0
    <2>1. Bad \subseteq Nat
      OBVIOUS
    <2>2. PICK j \in Bad : \A l \in Bad : j <= l
      <3> HIDE DEF Bad
      <3> QED
        BY <2>1, LeastNat
    <2>3. j \in 0 .. n /\ ~Good(j)
      OBVIOUS
    <2>4. j # 0
      BY <1>5, <2>3
    <2>5. j \in 1 .. n /\ j - 1 \in 0 .. n /\ j - 1 \notin Bad
      BY <2>2, <2>3, <2>4
    <2>6. Good(j - 1)
      BY <2>5
    <2> QED
      BY <1>6, <2>3, <2>5, <2>6
  <1>8. PICK A \in SUBSET Upto(n) : Chosen(f[n], A, sizes, chunks, budget)
    BY <1>7
  <1>9. A \in SUBSET X
    BY <1>8
  <1>10. f[n].acc \in 1 .. budget /\ Boxes(InnerCombos(f[n].split), A, f[n].acc, sizes, chunks)
    BY <1>8 DEF Chosen
  <1> QED
    BY <1>2, <1>9, <1>10

-----------------------------------------------------------------------------
(* The partitions of a scan. *)

\* The axes fan_out_inner may split: they have chunks to split, no filter, and are
\* not the outermost of the first data variable.
Splittable(var, sizes, filtered) ==
    {a \in DOMAIN sizes : sizes[a] > 0 /\ a \notin filtered /\ \E k \in 2 .. Len(var) : var[k] = a}

\* A list of candidates names each of some axes once.
Listed(candidates, X) ==
    \E n \in Nat : /\ candidates \in [1 .. n -> X]
                   /\ \A i, j \in 1 .. n : candidates[i] = candidates[j] => i = j

\* The candidates of fan_out_inner are distinct inner axes.
LEMMA CandidateFacts ==
    ASSUME NEW var, NEW d \in Nat, NEW sizes, DOMAIN sizes = 1 .. d, NEW chunks, NEW filtered,
           \A a \in 1 .. d : sizes[a] \in Nat /\ chunks[a] \in Nat
    PROVE  Listed(FanOutCandidates(var, sizes, chunks, filtered), Splittable(var, sizes, filtered))
  <1> DEFINE NChunks(a) == DivCeil(sizes[a], Max2(1, chunks[a]))
             S == {a \in DOMAIN sizes : /\ \E k \in 2 .. Len(var) : var[k] = a
                                        /\ a \notin filtered
                                        /\ NChunks(a) > 1}
             R == {ab \in S \X S : \/ NChunks(ab[1]) > NChunks(ab[2])
                                   \/ NChunks(ab[1]) = NChunks(ab[2]) /\ ab[1] < ab[2]}
             candidates == FanOutCandidates(var, sizes, chunks, filtered)
  <1>1. candidates = Ranked(S, R)
    BY DEF FanOutCandidates
  <1>2. ASSUME NEW a \in 1 .. d
        PROVE  NChunks(a) \in Nat /\ (sizes[a] = 0 => NChunks(a) = 0)
    <2> DEFINE c == Max2(1, chunks[a])
    <2>1. c \in Nat \ {0} /\ sizes[a] \in Nat
      BY DEF Max2
    <2> HIDE DEF c
    <2>2. sizes[a] + c - 1 \in Nat
      BY <2>1
    <2>3. DivCeil(sizes[a], c) \in Nat
      BY <2>1, <2>2, DivFacts DEF DivCeil
    <2>4. ASSUME sizes[a] = 0 PROVE DivCeil(sizes[a], c) = 0
      <3>1. sizes[a] + c - 1 \in Nat /\ 0 \in Nat /\ 0 * c <= sizes[a] + c - 1 /\ sizes[a] + c - 1 < (0 + 1) * c
        BY <2>1, <2>4
      <3> QED
        BY <2>1, <3>1, DivUnique DEF DivCeil
    <2> QED
      BY <2>3, <2>4 DEF c
  <1> HIDE DEF NChunks
  <1>3. S \subseteq 1 .. d /\ S \subseteq Splittable(var, sizes, filtered)
    <2>1. S \subseteq 1 .. d
      OBVIOUS
    <2>2. ASSUME NEW a \in S PROVE a \in Splittable(var, sizes, filtered)
      <3>1. a \in 1 .. d /\ NChunks(a) > 1 /\ a \notin filtered /\ \E k \in 2 .. Len(var) : var[k] = a
        OBVIOUS
      <3>2. sizes[a] > 0
        BY <1>2, <3>1
      <3> QED
        BY <3>1, <3>2 DEF Splittable
    <2> QED
      BY <2>1, <2>2
  <1>4. IsFiniteSet(S)
    <2>1. IsFiniteSet(1 .. d)
      BY FS_Interval
    <2> QED
      BY <1>3, <2>1, FS_Subset
  <1>5. \A a, b \in S : <<a, b>> \in R <=> \/ NChunks(a) > NChunks(b)
                                           \/ NChunks(a) = NChunks(b) /\ a < b
    <2> HIDE DEF S
    <2> QED
      OBVIOUS
  <1>6. \A a \in S : NChunks(a) \in Nat /\ a \in Nat
    BY <1>2, <1>3
  <1> HIDE DEF S, R
  <1>7. /\ \A a \in S : <<a, a>> \notin R
        /\ \A a, b \in S : a # b => <<a, b>> \in R \/ <<b, a>> \in R
        /\ \A a, b, c \in S : <<a, b>> \in R /\ <<b, c>> \in R => <<a, c>> \in R
    <2>1. ASSUME NEW a \in S PROVE <<a, a>> \notin R
      BY <1>5, <1>6
    <2>2. ASSUME NEW a \in S, NEW b \in S, a # b PROVE <<a, b>> \in R \/ <<b, a>> \in R
      BY <1>5, <1>6, <2>2
    <2>3. ASSUME NEW a \in S, NEW b \in S, NEW c \in S, <<a, b>> \in R, <<b, c>> \in R
          PROVE  <<a, c>> \in R
      BY <1>5, <1>6, <2>3
    <2> QED
      BY <2>1, <2>2, <2>3
  <1> DEFINE n == Cardinality(S)
  <1>8. /\ n \in Nat /\ candidates \in [1 .. n -> S]
        /\ \A i, j \in 1 .. n : candidates[i] = candidates[j] => i = j
    BY <1>1, <1>4, <1>7, RankedFacts
  <1> HIDE DEF n, candidates
  <1>9. candidates \in [1 .. n -> Splittable(var, sizes, filtered)]
    BY <1>3, <1>8
  <1> QED
    BY <1>8, <1>9 DEF Listed, candidates

\* Specs that cut the positions S of the outer axis and, in boxes, the axes A:
\* each cell of these is in a spec, and no two specs have a chunk in common.  The
\* outer selections are of the kinds K.
SpecsCut(sp, n, S, c, A, sizes, chunks, K) ==
    /\ DOMAIN sp = 1 .. n /\ sp = [i \in 1 .. n |-> sp[i]]
    /\ \A i \in 1 .. n : sp[i] = EmptySpec \/ DOMAIN sp[i].extra = A
    /\ \A i \in 1 .. n : sp[i].outer \in K /\ Members(sp[i].outer) \subseteq S
    /\ \A i \in 1 .. n : \A a \in DOMAIN sp[i].extra :
          sp[i].extra[a] \in RangeSels /\ Members(sp[i].extra[a]) \subseteq 0 .. sizes[a] - 1
    /\ \A x \in S : \A cell : (\A a \in A : cell[a] \in 0 .. sizes[a] - 1) =>
          \E i \in 1 .. n : /\ DOMAIN sp[i].extra = A
                            /\ x \in Members(sp[i].outer)
                            /\ \A a \in A : cell[a] \in Members(sp[i].extra[a])
    /\ \A i, j \in 1 .. n : i # j =>
          \/ Apart(sp[i].outer, sp[j].outer, c)
          \/ /\ DOMAIN sp[i].extra = A /\ DOMAIN sp[j].extra = A
             /\ \E a \in A : Apart(sp[i].extra[a], sp[j].extra[a], Max2(1, chunks[a]))

\* The outer pieces as specs.
LEMMA OuterSpecsCut ==
    ASSUME NEW S, S \subseteq Nat, NEW c \in Nat \ {0}, NEW m \in Nat, NEW pieces, NEW K,
           CutOf(pieces, S, c, m, K), NEW p \in Nat, DOMAIN pieces = 1 .. p, NEW sizes, NEW chunks
    PROVE  SpecsCut([i \in 1 .. p |-> FromOuter(pieces[i])], p, S, c, {}, sizes, chunks, K)
  <1> DEFINE sp == [i \in 1 .. p |-> FromOuter(pieces[i])]
  <1>1. ASSUME NEW i \in 1 .. p
        PROVE  sp[i].outer = pieces[i] /\ sp[i].extra = <<>>
    BY DEF FromOuter
  <1>2. DOMAIN <<>> = {}
    OBVIOUS
  <1>3. DOMAIN sp = 1 .. p /\ sp = [i \in 1 .. p |-> sp[i]]
    OBVIOUS
  <1> HIDE DEF sp
  <1>4. \A i \in 1 .. p : DOMAIN sp[i].extra = {}
    BY <1>1, <1>2
  <1>5. \A i \in 1 .. p : sp[i].outer \in K /\ Members(sp[i].outer) \subseteq S
    BY <1>1 DEF CutOf
  <1>6. \A x \in S : \E i \in 1 .. p : x \in Members(sp[i].outer)
    BY <1>1 DEF CutOf
  <1>7. ASSUME NEW i \in 1 .. p, NEW j \in 1 .. p, i # j
        PROVE  Apart(sp[i].outer, sp[j].outer, c)
    BY <1>1, <1>7, CutApart
  <1>8. SpecsCut(sp, p, S, c, {}, sizes, chunks, K)
    BY <1>3, <1>4, <1>5, <1>6, <1>7 DEF SpecsCut
  <1> QED
    BY <1>8 DEF sp

\* Every one of p outer pieces with every one of k boxes.
BoxSpecs(pieces, combos, p, k) ==
    FlattenRows([o \in 1 .. p |-> [b \in 1 .. k |-> [outer |-> pieces[o], extra |-> combos[b]]]])

\* They cut the outer positions and the axes of the boxes.
LEMMA BoxSpecsCut ==
    ASSUME NEW S, S \subseteq Nat, NEW c \in Nat \ {0}, NEW m \in Nat, NEW pieces, NEW K,
           CutOf(pieces, S, c, m, K), NEW p \in Nat \ {0}, DOMAIN pieces = 1 .. p, NEW sizes, NEW chunks,
           NEW A, NEW k \in Nat \ {0}, NEW combos, Boxes(combos, A, k, sizes, chunks)
    PROVE  SpecsCut(BoxSpecs(pieces, combos, p, k), p * k, S, c, A, sizes, chunks, K)
  <1> DEFINE Cut(o, b) == [outer |-> pieces[o], extra |-> combos[b]]
             rows      == [o \in 1 .. p |-> [b \in 1 .. k |-> Cut(o, b)]]
             T         == {Cut(o, b) : o \in 1 .. p, b \in 1 .. k}
             sp     == FlattenRows(rows)
             n         == p * k
  <1>1. rows \in [1 .. p -> [1 .. k -> T]]
    OBVIOUS
  <1>2. \A o \in 1 .. p, b \in 1 .. k :
           rows[o][b] = Cut(o, b) /\ Cut(o, b).outer = pieces[o] /\ Cut(o, b).extra = combos[b]
    OBVIOUS
  <1>3. n \in Nat
    OBVIOUS
  <1> HIDE DEF rows, Cut, T, sp
  <1>4. PICK at : LaidOut(sp, rows, at, p, k)
    BY <1>1, FlattenFacts DEF sp
  <1>5. /\ DOMAIN sp = 1 .. n /\ sp = [i \in 1 .. n |-> sp[i]]
        /\ \A i \in 1 .. n : /\ at[i][1] \in 1 .. p /\ at[i][2] \in 1 .. k
                              /\ at[i] = <<at[i][1], at[i][2]>>
                              /\ sp[i].outer = pieces[at[i][1]] /\ sp[i].extra = combos[at[i][2]]
    <2>1. at \in [1 .. n -> (1 .. p) \X (1 .. k)] /\ sp = [i \in 1 .. n |-> rows[at[i][1]][at[i][2]]]
      BY <1>4 DEF LaidOut
    <2> HIDE DEF n
    <2>2. ASSUME NEW i \in 1 .. n
          PROVE  at[i][1] \in 1 .. p /\ at[i][2] \in 1 .. k /\ at[i] = <<at[i][1], at[i][2]>>
      BY <2>1
    <2>3. ASSUME NEW i \in 1 .. n
          PROVE  sp[i].outer = pieces[at[i][1]] /\ sp[i].extra = combos[at[i][2]]
      <3> DEFINE o == at[i][1]
                 b == at[i][2]
      <3>1. sp[i] = rows[o][b] /\ o \in 1 .. p /\ b \in 1 .. k
        BY <2>1, <2>2
      <3> HIDE DEF o, b
      <3>2. sp[i] = Cut(o, b) /\ Cut(o, b).outer = pieces[o] /\ Cut(o, b).extra = combos[b]
        BY <1>2, <3>1, Zenon
      <3>3. sp[i].outer = pieces[o] /\ sp[i].extra = combos[b]
        BY <3>2, Zenon
      <3> QED
        BY <3>3 DEF o, b
    <2> QED
      BY <2>1, <2>2, <2>3
  <1>6. /\ \A l, i \in 1 .. n : at[l] = at[i] => l = i
        /\ \A o \in 1 .. p, b \in 1 .. k : \E i \in 1 .. n : at[i] = <<o, b>>
    BY <1>4 DEF LaidOut
  <1> HIDE DEF n
  <1>7. /\ \A b \in 1 .. k : DOMAIN combos[b] = A
        /\ \A b \in 1 .. k, a \in A :
              combos[b][a] \in RangeSels /\ Members(combos[b][a]) \subseteq 0 .. sizes[a] - 1
        /\ \A cell : (\A a \in A : cell[a] \in 0 .. sizes[a] - 1) =>
              \E b \in 1 .. k : \A a \in A : cell[a] \in Members(combos[b][a])
        /\ \A b, e \in 1 .. k : b # e =>
              \E a \in A : Apart(combos[b][a], combos[e][a], Max2(1, chunks[a]))
    BY DEF Boxes
  <1>8. /\ \A o \in 1 .. p : pieces[o] \in K /\ Members(pieces[o]) \subseteq S
        /\ \A x \in S : \E o \in 1 .. p : x \in Members(pieces[o])
    BY DEF CutOf
  <1>9. \A o, q \in 1 .. p : o # q => Apart(pieces[o], pieces[q], c)
    BY CutApart
  <1>10. \A i \in 1 .. n : DOMAIN sp[i].extra = A
    BY <1>5, <1>7
  <1>11. \A i \in 1 .. n : sp[i].outer \in K /\ Members(sp[i].outer) \subseteq S
    BY <1>5, <1>8
  <1>12. \A i \in 1 .. n : \A a \in DOMAIN sp[i].extra :
            sp[i].extra[a] \in RangeSels /\ Members(sp[i].extra[a]) \subseteq 0 .. sizes[a] - 1
    BY <1>5, <1>7
  <1>13. ASSUME NEW x \in S, NEW cell, \A a \in A : cell[a] \in 0 .. sizes[a] - 1
         PROVE  \E i \in 1 .. n : /\ DOMAIN sp[i].extra = A
                                  /\ x \in Members(sp[i].outer)
                                  /\ \A a \in A : cell[a] \in Members(sp[i].extra[a])
    <2>1. PICK o \in 1 .. p : x \in Members(pieces[o])
      BY <1>8
    <2>2. PICK b \in 1 .. k : \A a \in A : cell[a] \in Members(combos[b][a])
      BY <1>7, <1>13
    <2>3. PICK i \in 1 .. n : at[i] = <<o, b>>
      BY <1>6
    <2>4. sp[i].outer = pieces[o] /\ sp[i].extra = combos[b]
      BY <1>5, <2>3
    <2> QED
      BY <1>10, <2>1, <2>2, <2>4
  <1>14. ASSUME NEW i \in 1 .. n, NEW j \in 1 .. n, i # j
         PROVE  \/ Apart(sp[i].outer, sp[j].outer, c)
                \/ \E a \in A : Apart(sp[i].extra[a], sp[j].extra[a], Max2(1, chunks[a]))
    <2>1. at[i][1] # at[j][1] \/ at[i][2] # at[j][2]
      <3>1. at[i] # at[j]
        BY <1>6, <1>14
      <3>2. at[i] = <<at[i][1], at[i][2]>> /\ at[j] = <<at[j][1], at[j][2]>>
        BY <1>5
      <3> QED
        BY <3>1, <3>2
    <2>2. /\ at[i][1] \in 1 .. p /\ at[i][2] \in 1 .. k
          /\ sp[i].outer = pieces[at[i][1]] /\ sp[i].extra = combos[at[i][2]]
          /\ at[j][1] \in 1 .. p /\ at[j][2] \in 1 .. k
          /\ sp[j].outer = pieces[at[j][1]] /\ sp[j].extra = combos[at[j][2]]
      BY <1>5
    <2>3. CASE at[i][1] # at[j][1]
      BY <1>9, <2>2, <2>3
    <2>4. CASE at[i][2] # at[j][2]
      <3>1. PICK a \in A : Apart(combos[at[i][2]][a], combos[at[j][2]][a], Max2(1, chunks[a]))
        BY <1>7, <2>2, <2>4
      <3> QED
        BY <2>2, <3>1
    <2> QED
      BY <2>1, <2>3, <2>4
  <1>15. SpecsCut(sp, n, S, c, A, sizes, chunks, K)
    BY <1>5, <1>10, <1>11, <1>12, <1>13, <1>14 DEF SpecsCut
  <1> QED
    BY <1>15 DEF sp, n, rows, Cut, BoxSpecs

\* Specs that cut the outer positions S and some inner axes, at most m of them.
FansOut(sp, S, c, var, sizes, chunks, filtered, m, K) ==
    \E A \in SUBSET Splittable(var, sizes, filtered), n \in 1 .. m : SpecsCut(sp, n, S, c, A, sizes, chunks, K)

\* fan_out_inner: whichever axes are split, each cell stays in one partition, no
\* chunk comes to lie in two, and there are no more partitions than asked for.
THEOREM FanOutInnerCuts ==
    ASSUME NEW S, S \subseteq Nat, NEW c \in Nat \ {0}, NEW target \in Nat, NEW pieces,
           NEW K, CutOf(pieces, S, c, Max2(1, target), K),
           NEW var, NEW d \in Nat, NEW sizes, DOMAIN sizes = 1 .. d, NEW chunks, NEW filtered,
           \A a \in 1 .. d : sizes[a] \in Nat /\ chunks[a] \in Nat
    PROVE  FansOut(FanOutInner([i \in DOMAIN pieces |-> FromOuter(pieces[i])],
                               var, sizes, chunks, filtered, target),
                   S, c, var, sizes, chunks, filtered, Max2(1, target), K)
  <1> DEFINE outer_specs == [i \in DOMAIN pieces |-> FromOuter(pieces[i])]
             m           == Max2(1, target)
             sp       == FanOutInner(outer_specs, var, sizes, chunks, filtered, target)
  <1>1. m \in Nat \ {0} /\ (target > 0 => m = target)
    BY DEF Max2
  <1>2. PICK p \in 1 .. m : DOMAIN pieces = 1 .. p
    BY DEF CutOf
  <1>3. p \in Nat \ {0} /\ p <= m
    BY <1>1, <1>2
  <1>4. outer_specs = [i \in 1 .. p |-> FromOuter(pieces[i])]
    BY <1>2
  <1>5. Len(outer_specs) = p
    BY <1>3, <1>4
  <1>6. SpecsCut(outer_specs, p, S, c, {}, sizes, chunks, K)
    <2>1. m \in Nat /\ p \in Nat /\ CutOf(pieces, S, c, m, K)
      BY <1>1, <1>3
    <2> HIDE DEF m
    <2>2. SpecsCut([i \in 1 .. p |-> FromOuter(pieces[i])], p, S, c, {}, sizes, chunks, K)
      BY <1>2, <2>1, OuterSpecsCut
    <2> QED
      BY <1>4, <2>2
  <1> DEFINE budget     == target \div p
             candidates == FanOutCandidates(var, sizes, chunks, filtered)
             split      == InnerSplits(candidates, sizes, chunks, budget)
             combos     == InnerCombos(split)
             rows       == [o \in DOMAIN outer_specs |->
                              [b \in DOMAIN combos |->
                                 [outer |-> outer_specs[o].outer, extra |-> combos[b]]]]
             whole      == \/ p >= target
                           \/ p = 1 /\ SpecEmpty(outer_specs[1])
                           \/ budget <= 1
                           \/ split = <<>>
  <1>7. sp = IF whole THEN outer_specs ELSE FlattenRows(rows)
    <2> HIDE DEF outer_specs, candidates
    <2> QED
      BY <1>5 DEF FanOutInner, candidates
  <1>8. CASE whole
    <2>1. {} \in SUBSET Splittable(var, sizes, filtered)
      OBVIOUS
    <2>2. FansOut(outer_specs, S, c, var, sizes, chunks, filtered, m, K)
      <3> HIDE DEF outer_specs, m
      <3> QED
        BY <1>2, <1>6, <2>1 DEF FansOut
    <2> QED
      BY <1>7, <1>8, <2>2
  <1>9. CASE ~whole
    <2>1. p < target /\ budget > 1
      BY <1>3, <1>9
    <2>2. budget \in Nat \ {0} /\ budget * p <= target
      BY <1>3, <2>1, DivFacts
    <2>3. Listed(candidates, Splittable(var, sizes, filtered))
      BY CandidateFacts
    <2>4. \A a \in Splittable(var, sizes, filtered) : sizes[a] \in Nat /\ chunks[a] \in Nat
      BY DEF Splittable
    <2> HIDE DEF budget, candidates, split, combos, outer_specs, sp, whole
    <2>5. PICK A \in SUBSET Splittable(var, sizes, filtered), acc \in 1 .. budget :
             Boxes(combos, A, acc, sizes, chunks)
      <3>1. PICK w \in Nat : /\ candidates \in [1 .. w -> Splittable(var, sizes, filtered)]
                             /\ \A i, j \in 1 .. w : candidates[i] = candidates[j] => i = j
        BY <2>3 DEF Listed
      <3> DEFINE X == Splittable(var, sizes, filtered)
      <3>2. candidates \in [1 .. w -> X] /\ \A a \in X : sizes[a] \in Nat /\ chunks[a] \in Nat
        BY <2>4, <3>1
      <3> HIDE DEF X
      <3>3. \E A \in SUBSET X, acc \in 1 .. budget :
              Boxes(InnerCombos(InnerSplits(candidates, sizes, chunks, budget)), A, acc, sizes, chunks)
        BY <2>2, <3>1, <3>2, InnerSplitsFacts
      <3> QED
        BY <3>3 DEF combos, split, X
    <2>6. acc \in Nat \ {0} /\ acc <= budget /\ DOMAIN combos = 1 .. acc
      BY <2>2, <2>5 DEF Boxes
    <2>7. rows = [o \in 1 .. p |-> [b \in 1 .. acc |-> [outer |-> pieces[o], extra |-> combos[b]]]]
      <3>1. DOMAIN outer_specs = 1 .. p /\ \A o \in 1 .. p : outer_specs[o].outer = pieces[o]
        BY <1>4 DEF FromOuter
      <3> QED
        BY <2>6, <3>1
    <2>8. SpecsCut(FlattenRows(rows), p * acc, S, c, A, sizes, chunks, K)
      <3> HIDE DEF m, rows
      <3>1. m \in Nat /\ CutOf(pieces, S, c, m, K)
        BY <1>1 DEF m
      <3>2. SpecsCut(BoxSpecs(pieces, combos, p, acc), p * acc, S, c, A, sizes, chunks, K)
        BY <1>2, <1>3, <2>5, <2>6, <3>1, BoxSpecsCut
      <3>3. FlattenRows(rows) = BoxSpecs(pieces, combos, p, acc)
        BY <2>7 DEF BoxSpecs
      <3> QED
        BY <3>2, <3>3
    <2>9. p * acc \in 1 .. m
      <3>1. acc * p <= budget * p
        BY <1>3, <2>2, <2>6, MulMono
      <3>2. p * acc = acc * p /\ acc * p \in Nat \ {0} /\ budget * p \in Nat
        BY <1>3, <2>2, <2>6
      <3>3. m = target
        BY <1>1, <1>3, <2>1
      <3> HIDE DEF m
      <3> QED
        BY <2>2, <3>1, <3>2, <3>3
    <2> HIDE DEF rows, m
    <2>10. FansOut(FlattenRows(rows), S, c, var, sizes, chunks, filtered, m, K)
      BY <2>5, <2>8, <2>9 DEF FansOut
    <2> QED
      BY <1>7, <1>9, <2>10 DEF m, sp, outer_specs
  <1> QED
    BY <1>8, <1>9

-----------------------------------------------------------------------------
(* The slots of the tasks. *)

\* The w slots of the tasks hold the n specs, each once, and empty specs: slot l
\* has spec src[l], or none if that is 0.
Rehoused(slots, w, sp, n, src) ==
    /\ slots = [l \in 1 .. w |-> slots[l]]
    /\ src \in [1 .. w -> 0 .. n]
    /\ \A l \in 1 .. w : IF src[l] = 0 THEN slots[l] = EmptySpec ELSE slots[l] = sp[src[l]]
    /\ \A l, m \in 1 .. w : src[l] # 0 /\ src[l] = src[m] => l = m
    /\ \A j \in 1 .. n : \E l \in 1 .. w : src[l] = j

\* scale_up_leaf_node: what the variants of all tasks hold.
LEMMA SlotsOfTasks ==
    ASSUME NEW n \in Nat \ {0}, NEW sp, sp = [i \in 1 .. n |-> sp[i]], NEW task_count \in Nat
    PROVE  \E k \in Nat : \E src :
              Rehoused(FlattenRows(DistributeSpecsAcrossTasks(sp, task_count)),
                       Max2(1, task_count) * k, sp, n, src)
  <1> DEFINE tasks == Max2(1, task_count)
             dist  == DistributeSpecsAcrossTasks(sp, task_count)
             slots == FlattenRows(dist)
             T     == {sp[i] : i \in 1 .. n}
  <1>1. tasks \in Nat \ {0}
    BY DEF Max2
  <1>2. sp \in Seq(T) /\ DOMAIN sp = 1 .. n
    <2>1. sp \in [1 .. n -> T]
      OBVIOUS
    <2> HIDE DEF T
    <2> QED
      BY <2>1, FunIsSeq
  <1> HIDE DEF T
  <1>3. PICK k \in Nat : SpecsHaveOneSlot(sp, dist, tasks, k)
    BY <1>2, SpecsDistributed
  <1>4. /\ dist = [t \in DOMAIN dist |-> dist[t]]
        /\ \A t \in DOMAIN dist : dist[t] = [i \in DOMAIN dist[t] |-> dist[t][i]]
    <2> DEFINE base == Len(sp) \div tasks
               rem  == Len(sp) % tasks
               h    == IF rem > 0 THEN base + 1 ELSE base
               First(t) == (t - 1) * base + Min2(t - 1, rem)
               Size(t)  == base + (IF t <= rem THEN 1 ELSE 0)
               E(t, i)  == IF i <= Size(t) THEN sp[First(t) + i] ELSE EmptySpec
    <2>1. dist = [t \in 1 .. tasks |-> [i \in 1 .. h |-> E(t, i)]]
      BY DEF DistributeSpecsAcrossTasks
    <2> HIDE DEF dist, E, h, tasks
    <2> QED
      BY <2>1
  <1> HIDE DEF tasks, dist
  <1>5. /\ DOMAIN dist = 1 .. tasks
        /\ \A t \in 1 .. tasks : DOMAIN dist[t] = 1 .. k
    BY <1>3 DEF SpecsHaveOneSlot
  <1>6. PICK slot \in [1 .. n -> (1 .. tasks) \X (1 .. k)] :
           /\ \A j, l \in 1 .. n : slot[j] = slot[l] => j = l
           /\ \A j \in 1 .. n : dist[slot[j][1]][slot[j][2]] = sp[j]
           /\ \A t \in 1 .. tasks, i \in 1 .. k :
                 (\A j \in 1 .. n : slot[j] # <<t, i>>) => dist[t][i] = EmptySpec
    <2>1. PICK slot \in [DOMAIN sp -> (1 .. tasks) \X (1 .. k)] :
             /\ \A j, l \in DOMAIN sp : slot[j] = slot[l] => j = l
             /\ \A j \in DOMAIN sp : dist[slot[j][1]][slot[j][2]] = sp[j]
             /\ \A t \in 1 .. tasks, i \in 1 .. k :
                   (\A j \in DOMAIN sp : slot[j] # <<t, i>>) => dist[t][i] = EmptySpec
      BY <1>3, Zenon DEF SpecsHaveOneSlot
    <2>2. DOMAIN sp = 1 .. n
      BY <1>2
    <2>3. slot \in [1 .. n -> (1 .. tasks) \X (1 .. k)]
      BY <2>1, <2>2
    <2>4. \A j, l \in 1 .. n : slot[j] = slot[l] => j = l
      BY <2>1, <2>2
    <2>5. \A j \in 1 .. n : dist[slot[j][1]][slot[j][2]] = sp[j]
      BY <2>1, <2>2
    <2>6. ASSUME NEW t \in 1 .. tasks, NEW i \in 1 .. k, \A j \in 1 .. n : slot[j] # <<t, i>>
          PROVE  dist[t][i] = EmptySpec
      BY <2>1, <2>2, <2>6
    <2> QED
      BY <2>3, <2>4, <2>5, <2>6
  <1>7. k \in Nat \ {0}
    <2>0. 1 \in 1 .. n
      OBVIOUS
    <2>1. slot[1] \in (1 .. tasks) \X (1 .. k)
      BY <1>6, <2>0
    <2> QED
      BY <2>1
  <1> DEFINE V == {dist[t][i] : t \in 1 .. tasks, i \in 1 .. k}
             w == tasks * k
  <1>8. dist \in [1 .. tasks -> [1 .. k -> V]]
    <2>1. ASSUME NEW t \in 1 .. tasks PROVE dist[t] \in [1 .. k -> V]
      <3>1. dist[t] = [i \in 1 .. k |-> dist[t][i]] /\ \A i \in 1 .. k : dist[t][i] \in V
        BY <1>4, <1>5
      <3> HIDE DEF V
      <3> QED
        BY <3>1
    <2>2. dist = [t \in 1 .. tasks |-> dist[t]]
      BY <1>4, <1>5
    <2> HIDE DEF V
    <2> QED
      BY <2>1, <2>2
  <1>9. w \in Nat
    BY <1>1, <1>7
  <1> HIDE DEF V
  <1>10. PICK at : LaidOut(slots, dist, at, tasks, k)
    BY <1>1, <1>7, <1>8, FlattenFacts
  <1> HIDE DEF slots
  <1>11. /\ at \in [1 .. w -> (1 .. tasks) \X (1 .. k)]
         /\ slots = [l \in 1 .. w |-> dist[at[l][1]][at[l][2]]]
         /\ \A l, m \in 1 .. w : at[l] = at[m] => l = m
         /\ \A t \in 1 .. tasks, i \in 1 .. k : \E l \in 1 .. w : at[l] = <<t, i>>
    BY <1>10 DEF LaidOut
  <1> HIDE DEF w
  <1> DEFINE In(l, j) == j \in 1 .. n /\ slot[j] = at[l]
             src == [l \in 1 .. w |-> IF \E j \in 1 .. n : slot[j] = at[l]
                                      THEN CHOOSE j \in 1 .. n : slot[j] = at[l] ELSE 0]
  <1>12. ASSUME NEW l \in 1 .. w
         PROVE  /\ src[l] \in 0 .. n
                /\ src[l] # 0 => src[l] \in 1 .. n /\ slot[src[l]] = at[l]
                /\ src[l] = 0 => \A j \in 1 .. n : slot[j] # at[l]
    <2>1. CASE \E j \in 1 .. n : slot[j] = at[l]
      <3>1. src[l] = CHOOSE j \in 1 .. n : slot[j] = at[l]
        BY <2>1
      <3> HIDE DEF src
      <3>2. src[l] \in 1 .. n /\ slot[src[l]] = at[l]
        BY <2>1, <3>1
      <3> QED
        BY <3>2
    <2>2. CASE ~ \E j \in 1 .. n : slot[j] = at[l]
      BY <2>2
    <2> QED
      BY <2>1, <2>2
  <1>13. src \in [1 .. w -> 0 .. n]
    <2>1. src = [l \in 1 .. w |-> src[l]]
      OBVIOUS
    <2> HIDE DEF src
    <2> QED
      BY <1>12, <2>1
  <1> HIDE DEF src
  <1>14. slots = [l \in 1 .. w |-> slots[l]]
    BY <1>11
  <1>15. ASSUME NEW l \in 1 .. w
         PROVE  IF src[l] = 0 THEN slots[l] = EmptySpec ELSE slots[l] = sp[src[l]]
    <2> DEFINE t == at[l][1]
               i == at[l][2]
    <2>1. t \in 1 .. tasks /\ i \in 1 .. k /\ at[l] = <<t, i>> /\ slots[l] = dist[t][i]
      BY <1>11
    <2> HIDE DEF t, i
    <2>2. CASE src[l] = 0
      <3>1. \A j \in 1 .. n : slot[j] # <<t, i>>
        BY <1>12, <2>1, <2>2
      <3>2. dist[t][i] = EmptySpec
        BY <1>6, <2>1, <3>1
      <3> QED
        BY <2>1, <2>2, <3>2
    <2>3. CASE src[l] # 0
      <3> DEFINE j == src[l]
      <3>1. j \in 1 .. n /\ slot[j] = <<t, i>>
        BY <1>12, <2>1, <2>3
      <3> HIDE DEF j
      <3>2. slot[j][1] = t /\ slot[j][2] = i
        BY <3>1
      <3>3. dist[t][i] = sp[j]
        BY <1>6, <3>1, <3>2
      <3> QED
        BY <2>1, <2>3, <3>3 DEF j
    <2> QED
      BY <2>2, <2>3
  <1>16. ASSUME NEW l \in 1 .. w, NEW m \in 1 .. w, src[l] # 0, src[l] = src[m] PROVE l = m
    BY <1>11, <1>12, <1>16
  <1>17. ASSUME NEW j \in 1 .. n PROVE \E l \in 1 .. w : src[l] = j
    <2>1. slot[j] \in (1 .. tasks) \X (1 .. k)
      BY <1>6
    <2>2. PICK l \in 1 .. w : at[l] = slot[j]
      <3>1. PICK t \in 1 .. tasks, i \in 1 .. k : slot[j] = <<t, i>>
        BY <2>1
      <3> QED
        BY <1>11, <3>1, Zenon
    <2>3. src[l] \in 1 .. n /\ slot[src[l]] = slot[j]
      BY <1>12, <2>2
    <2> QED
      BY <1>6, <2>3
  <1>18. Rehoused(slots, w, sp, n, src)
    BY <1>13, <1>14, <1>15, <1>16, <1>17 DEF Rehoused
  <1>19. k \in Nat
    BY <1>7
  <1> QED
    BY <1>18, <1>19 DEF slots, dist, w, tasks

\* A spec without positions is apart from every other.
LEMMA EmptySpecFacts ==
    /\ Members(EmptySpec.outer) = {} /\ EmptySpec.extra = <<>> /\ DOMAIN EmptySpec.extra = {}
    /\ SpecEmpty(EmptySpec)
  <1>1. EmptySpec.outer = RangeSel(0, 0) /\ EmptySpec.extra = <<>>
    BY DEF EmptySpec, FromOuter
  <1>2. Members(RangeSel(0, 0)) = {}
    BY DEF Members, RangeSel, IsIndices
  <1>3. DOMAIN <<>> = {}
    OBVIOUS
  <1> QED
    BY <1>1, <1>2, <1>3 DEF SpecEmpty, SelEmpty

\* Padding and reordering keep the cut.
LEMMA RehousedCut ==
    ASSUME NEW n \in Nat, NEW sp, NEW S, NEW c, NEW A, NEW sizes, NEW chunks,
           NEW K, RangeSel(0, 0) \in K,
           SpecsCut(sp, n, S, c, A, sizes, chunks, K),
           NEW w \in Nat, NEW slots, NEW src, Rehoused(slots, w, sp, n, src)
    PROVE  SpecsCut(slots, w, S, c, A, sizes, chunks, K)
  <1>1. /\ slots = [l \in 1 .. w |-> slots[l]]
        /\ \A l \in 1 .. w : \/ src[l] = 0 /\ slots[l] = EmptySpec
                             \/ src[l] \in 1 .. n /\ slots[l] = sp[src[l]]
        /\ \A l, m \in 1 .. w : src[l] # 0 /\ src[l] = src[m] => l = m
        /\ \A j \in 1 .. n : \E l \in 1 .. w : src[l] = j
    BY DEF Rehoused
  <1>2. DOMAIN slots = 1 .. w
    BY <1>1
  <1>3. \A l \in 1 .. w : slots[l] = EmptySpec \/ DOMAIN slots[l].extra = A
    BY <1>1 DEF SpecsCut
  <1>4. \A l \in 1 .. w : slots[l].outer \in K /\ Members(slots[l].outer) \subseteq S
    <2> SUFFICES ASSUME NEW l \in 1 .. w PROVE slots[l].outer \in K /\ Members(slots[l].outer) \subseteq S
      OBVIOUS
    <2>1. CASE slots[l] = EmptySpec
      <3>1. Members(slots[l].outer) = {}
        BY <2>1, EmptySpecFacts, Zenon
      <3>2. slots[l].outer = RangeSel(0, 0)
        BY <2>1 DEF EmptySpec, FromOuter
      <3> QED
        BY <3>1, <3>2
    <2>2. CASE src[l] \in 1 .. n /\ slots[l] = sp[src[l]]
      BY <2>2 DEF SpecsCut
    <2> QED
      BY <1>1, <2>1, <2>2
  <1>5. \A l \in 1 .. w : \A a \in DOMAIN slots[l].extra :
           slots[l].extra[a] \in RangeSels /\ Members(slots[l].extra[a]) \subseteq 0 .. sizes[a] - 1
    BY <1>1, EmptySpecFacts DEF SpecsCut
  <1>6. ASSUME NEW x \in S, NEW cell, \A a \in A : cell[a] \in 0 .. sizes[a] - 1
        PROVE  \E l \in 1 .. w : /\ DOMAIN slots[l].extra = A
                                 /\ x \in Members(slots[l].outer)
                                 /\ \A a \in A : cell[a] \in Members(slots[l].extra[a])
    <2>1. PICK i \in 1 .. n : /\ DOMAIN sp[i].extra = A
                              /\ x \in Members(sp[i].outer)
                              /\ \A a \in A : cell[a] \in Members(sp[i].extra[a])
      BY <1>6 DEF SpecsCut
    <2>2. PICK l \in 1 .. w : src[l] = i
      BY <1>1
    <2>3. slots[l] = sp[i]
      BY <1>1, <2>2
    <2> QED
      BY <2>1, <2>3
  <1>7. ASSUME NEW l \in 1 .. w, NEW m \in 1 .. w, l # m
        PROVE  \/ Apart(slots[l].outer, slots[m].outer, c)
               \/ /\ DOMAIN slots[l].extra = A /\ DOMAIN slots[m].extra = A
                  /\ \E a \in A : Apart(slots[l].extra[a], slots[m].extra[a], Max2(1, chunks[a]))
    <2>1. CASE src[l] = 0 \/ src[m] = 0
      <3>1. slots[l] = EmptySpec \/ slots[m] = EmptySpec
        BY <1>1, <2>1
      <3> QED
        BY <3>1, EmptySpecFacts DEF Apart
    <2>2. CASE ~(src[l] = 0 \/ src[m] = 0)
      <3> DEFINE i == src[l]
                 j == src[m]
      <3>1. i \in 1 .. n /\ j \in 1 .. n /\ i # j /\ slots[l] = sp[i] /\ slots[m] = sp[j]
        BY <1>1, <1>7, <2>2
      <3> HIDE DEF i, j
      <3> QED
        BY <3>1 DEF SpecsCut
    <2> QED
      BY <2>1, <2>2
  <1> QED
    BY <1>1, <1>2, <1>3, <1>4, <1>5, <1>6, <1>7 DEF SpecsCut

\* The partitions that have something to read.
Working(sp, n) == {i \in 1 .. n : ~SpecEmpty(sp[i])}

\* Spreading the partitions over tasks gives no more of them something to read.
LEMMA RehousedWork ==
    ASSUME NEW n \in Nat, NEW sp, NEW w \in Nat, NEW slots, NEW src, Rehoused(slots, w, sp, n, src)
    PROVE  /\ Cardinality(Working(slots, w)) \in Nat /\ Cardinality(Working(sp, n)) \in Nat
           /\ Cardinality(Working(slots, w)) <= Cardinality(Working(sp, n))
  <1> DEFINE W == Working(slots, w)
             V == Working(sp, n)
             f == [l \in W |-> src[l]]
  <1>1. ASSUME NEW l \in W PROVE l \in 1 .. w /\ src[l] \in V /\ src[l] # 0
    <2>1. l \in 1 .. w /\ ~SpecEmpty(slots[l])
      BY DEF Working
    <2>2. src[l] # 0
      BY <2>1, EmptySpecFacts DEF Rehoused
    <2>3. src[l] \in 1 .. n /\ slots[l] = sp[src[l]]
      BY <2>1, <2>2 DEF Rehoused
    <2> QED
      BY <2>1, <2>2, <2>3 DEF Working
  <1>2. f \in Injection(W, V)
    <2> HIDE DEF V, W
    <2>1. f \in [W -> V]
      BY <1>1
    <2>2. ASSUME NEW l \in W, NEW m \in W, f[l] = f[m] PROVE l = m
      BY <1>1, <2>2 DEF Rehoused
    <2> HIDE DEF f
    <2> QED
      BY <2>1, <2>2 DEF Injection, IsInjective
  <1>3. IsFiniteSet(V)
    <2>1. IsFiniteSet(1 .. n)
      BY FS_Interval
    <2>2. V \in SUBSET (1 .. n)
      BY DEF Working
    <2> HIDE DEF V
    <2> QED
      BY <2>1, <2>2, FS_Subset
  <1> HIDE DEF f, W, V
  <1>4. IsFiniteSet(W) /\ Cardinality(W) <= Cardinality(V)
    BY <1>2, <1>3, FS_Injection
  <1> QED
    BY <1>3, <1>4, FS_CardinalityType DEF W, V

-----------------------------------------------------------------------------
(* The cuts of the outer axis. *)

\* The outer selections of a plan: ranges, and lists when a filter that is not a
\* comparison was resolved.
Kinds(q, res) ==
    IF res = "resolved" /\ q.filter[IdentifyOuterCoord(q)].form \notin {"none", "span"}
    THEN RangeSels \cup ListSels ELSE RangeSels

\* The partitions promise: the specs cut what is to be read, in chunks, and at
\* most the target of them read something.
WellCut(sp, q, res) ==
    \E n \in Nat \ {0}, A \in SUBSET Splittable(q.vars[1], q.sizes, Filtered(q)) :
        /\ SpecsCut(sp, n, ToCover(q, res), Max2(1, q.chunks[q.vars[1][1]]), A, q.sizes, q.chunks, Kinds(q, res))
        /\ Cardinality(Working(sp, n)) <= Max2(1, q.target)

\* Once the scan is spread over tasks, each has as many partitions.
SharesEven ==
    phase \notin {"plan", "planned", "optimized"} /\ Len(specs) >= 2 /\ query.tasks > 1
        => \E k \in Nat : Len(specs) = query.tasks * k

\* The inductive invariant.
PlanInv ==
    /\ query \in Queries
    /\ resolution \in {"skipped", "unfiltered", "resolved", "empty", "error"}
    /\ scan_limit \in Nat \cup {NoLimit}
    /\ scan_limit = query.limit \/ (scan_limit = NoLimit /\ phase \in {"plan", "planned"})
    /\ phase = "plan" => specs = <<>>
    /\ specs # <<>> => resolution # "skipped" /\ WellCut(specs, query, resolution)
    /\ SharesEven

\* What a query's geometry is.
LEMMA Geometry ==
    ASSUME NEW q \in Queries
    PROVE  /\ Len(q.sizes) \in Nat /\ Axes(q) = 1 .. Len(q.sizes) /\ DOMAIN q.sizes = 1 .. Len(q.sizes)
           /\ \A a \in Axes(q) : q.sizes[a] \in Nat /\ q.chunks[a] \in Nat
           /\ q.vars[1][1] \in Axes(q)
           /\ q.vars[1][1] \notin Splittable(q.vars[1], q.sizes, Filtered(q))
           /\ IdentifyOuterCoord(q) \in Axes(q)
           /\ q.sizes[IdentifyOuterCoord(q)] = q.sizes[q.vars[1][1]]
           /\ q.target \in Nat /\ q.tasks \in Nat /\ q.limit \in Nat \cup {NoLimit}
  <1>1. QueryOK(q)
    BY QueriesAssumption
  <1>2. q.sizes \in Seq(Nat) /\ q.chunks \in [Axes(q) -> Nat]
    BY <1>1 DEF QueryOK
  <1>3. Len(q.sizes) \in Nat /\ DOMAIN q.sizes = 1 .. Len(q.sizes)
    BY <1>2
  <1>4. Axes(q) = 1 .. Len(q.sizes)
    BY <1>3 DEF Axes
  <1>5. \A a \in Axes(q) : q.sizes[a] \in Nat /\ q.chunks[a] \in Nat
    BY <1>2, <1>3, <1>4
  <1> DEFINE v == q.vars[1]
  <1>6. v \in Seq(Axes(q)) /\ v # <<>> /\ \A j, k \in DOMAIN v : v[j] = v[k] => j = k
    BY <1>1 DEF QueryOK
  <1> HIDE DEF v
  <1>7. Len(v) \in Nat \ {0} /\ DOMAIN v = 1 .. Len(v) /\ v[1] \in Axes(q)
    BY <1>6
  <1>8. v[1] \notin Splittable(v, q.sizes, Filtered(q))
    <2> SUFFICES ASSUME v[1] \in Splittable(v, q.sizes, Filtered(q)) PROVE FALSE
      OBVIOUS
    <2>1. PICK k \in 2 .. Len(v) : v[k] = v[1]
      BY DEF Splittable
    <2>2. k \in DOMAIN v /\ 1 \in DOMAIN v /\ k # 1
      BY <1>7
    <2> QED
      BY <1>6, <2>1, <2>2
  <1>9. q.target \in Nat /\ q.tasks \in Nat /\ q.limit \in Nat \cup {NoLimit}
    BY <1>1 DEF QueryOK
  <1>10. IdentifyOuterCoord(q) \in Axes(q) /\ q.sizes[IdentifyOuterCoord(q)] = q.sizes[v[1]]
    <2> DEFINE P == {a \in Axes(q) : q.sizes[a] = q.sizes[v[1]]}
    <2>1. P # {} /\ P \subseteq Nat
      BY <1>4, <1>7
    <2>2. PICK a \in P : \A b \in P : a <= b
      <3> HIDE DEF P
      <3> QED
        BY <2>1, LeastNat
    <2>3. \A b \in Axes(q) : b < a => q.sizes[b] # q.sizes[v[1]]
      BY <1>4, <2>1, <2>2
    <2>4. \E x \in Axes(q) : /\ q.sizes[x] = q.sizes[v[1]]
                              /\ \A b \in Axes(q) : b < x => q.sizes[b] # q.sizes[v[1]]
      BY <2>2, <2>3
    <2> QED
      BY <2>4 DEF IdentifyOuterCoord, v
  <1> QED
    BY <1>3, <1>4, <1>5, <1>7, <1>8, <1>9, <1>10 DEF v

\* A set of positions of an axis that is not empty has a last one.
LEMMA LastPosition ==
    ASSUME NEW n \in Nat, NEW K, K \subseteq 0 .. n - 1, K # {}
    PROVE  \E x \in K : \A y \in K : x >= y
  <1> DEFINE T == {n - x : x \in K}
  <1>1. T \subseteq Nat /\ T # {}
    <2>1. \A x \in K : n - x \in Nat
      OBVIOUS
    <2>2. T \subseteq Nat
      BY <2>1
    <2>3. PICK x \in K : TRUE
      OBVIOUS
    <2>4. n - x \in T
      OBVIOUS
    <2> QED
      BY <2>2, <2>4
  <1>2. PICK t \in T : \A u \in T : t <= u
    <2> HIDE DEF T
    <2> QED
      BY <1>1, LeastNat
  <1>3. PICK x \in K : t = n - x
    OBVIOUS
  <1>4. ASSUME NEW y \in K PROVE x >= y
    <2>1. t <= n - y
      BY <1>2
    <2> QED
      BY <1>3, <2>1
  <1> QED
    BY <1>4

\* What a filter on the outer axis leaves is cut on chunk boundaries.
LEMMA ResolvedCut ==
    ASSUME NEW n \in Nat, NEW f, f.keep \subseteq 0 .. n - 1, f.keep # {}, f.form # "none",
           f.form = "span" => \A x, y \in f.keep : x .. y \subseteq f.keep,
           NEW chunk \in Nat, NEW target \in Nat
    PROVE  CutOf(SplitSelection(ResolveCoordSelection(f, n), chunk, target), f.keep,
                 Max2(1, chunk), Max2(1, target),
                 IF f.form = "span" THEN RangeSels ELSE ListSels)
  <1> DEFINE K == f.keep
  <1>0. K \subseteq 0 .. n - 1 /\ K # {} /\ K \subseteq Nat
    OBVIOUS
  <1>1. CASE f.form = "span"
    <2> DEFINE lo == CHOOSE x \in K : \A y \in K : x <= y
               hi == CHOOSE x \in K : \A y \in K : x >= y
               sel == RangeSel(lo, 1 + hi)
    <2>1. ResolveCoordSelection(f, n) = sel
      BY <1>1 DEF ResolveCoordSelection
    <2>2. \A x, y \in K : x .. y \subseteq K
      BY <1>1
    <2> HIDE DEF K
    <2>3. lo \in K /\ \A y \in K : lo <= y
      BY <1>0, LeastNat
    <2>4. hi \in K /\ \A y \in K : hi >= y
      BY <1>0, LastPosition
    <2>5. ~IsIndices(sel) /\ sel.lo = lo /\ sel.hi = 1 + hi
      BY DEF IsIndices, RangeSel
    <2>6. SplitSelection(sel, chunk, target) = SplitRange(lo, 1 + hi, chunk, target)
      BY <2>5 DEF SplitSelection
    <2> HIDE DEF lo, hi, sel
    <2>7. lo \in Nat /\ hi \in Nat /\ 1 + hi \in Nat /\ (1 + hi) - 1 = hi
      BY <1>0, <2>3, <2>4
    <2>8. lo .. (1 + hi) - 1 = K
      <3>1. lo .. hi \subseteq K
        BY <2>2, <2>3, <2>4
      <3>2. \A y \in K : y \in lo .. hi
        BY <1>0, <2>3, <2>4, <2>7
      <3> QED
        BY <2>7, <3>1, <3>2
    <2> DEFINE e == 1 + hi
    <2>9. e \in Nat
      BY <2>7
    <2> HIDE DEF e
    <2>10. CutOf(SplitRange(lo, e, chunk, target), lo .. e - 1, Max2(1, chunk), Max2(1, target), RangeSels)
      BY <2>7, <2>9, RangeCutOf
    <2> QED
      BY <1>1, <2>1, <2>6, <2>8, <2>10 DEF e, K
  <1>2. CASE f.form # "span"
    <2> DEFINE v == Sorted(K)
               w == Cardinality(K)
    <2>1. ResolveCoordSelection(f, n) = IndicesSel(v)
      BY <1>2 DEF ResolveCoordSelection
    <2> HIDE DEF K
    <2>2. IsFiniteSet(K)
      <3>1. IsFiniteSet(0 .. n - 1)
        BY FS_Interval
      <3> QED
        BY <1>0, <3>1, FS_Subset
    <2>3. w \in Nat /\ v \in [1 .. w -> K] /\ \A x \in K : \E k \in 1 .. w : v[k] = x
      BY <1>0, <2>2, SortedFacts
    <2> HIDE DEF v, w
    <2>4. v \in Seq(Nat)
      <3>1. v \in [1 .. w -> Nat]
        BY <1>0, <2>3
      <3> QED
        BY <2>3, <3>1, FunIsSeq
    <2>5. Ran(v) = K
      BY <2>3 DEF Ran
    <2>6. CutOf(SplitSelection(IndicesSel(v), chunk, target), Ran(v), Max2(1, chunk), Max2(1, target), ListSels)
      BY <2>4, SplitIndicesCuts
    <2> QED
      BY <1>2, <2>1, <2>5, <2>6 DEF K
  <1> QED
    BY <1>1, <1>2

\* The outer partitions as plan_scan_partitions cuts them.
IsOuterCut(sp, q, res) ==
    \E pieces : /\ sp = [i \in DOMAIN pieces |-> FromOuter(pieces[i])]
                /\ CutOf(pieces, ToCover(q, res), Max2(1, q.chunks[q.vars[1][1]]), Max2(1, q.target), Kinds(q, res))

\* Whatever the resolution of the outer filter comes to, what is then to be read
\* is cut on chunk boundaries.
LEMMA OuterSpecsFacts ==
    ASSUME NEW q \in Queries, NEW res \in ResolveOuterSelection(q)
    PROVE  /\ res \in {"unfiltered", "resolved", "empty", "error"}
           /\ ToCover(q, res) \subseteq Nat
           /\ IsOuterCut(OuterSpecs(q, res), q, res)
  <1> DEFINE o     == IdentifyOuterCoord(q)
             n     == q.sizes[o]
             f     == q.filter[o]
             chunk == q.chunks[q.vars[1][1]]
             c     == Max2(1, chunk)
             m     == Max2(1, q.target)
             pieces == CASE res = "resolved" -> SplitSelection(ResolveCoordSelection(f, n), chunk, q.target)
                         [] res = "empty" -> <<RangeSel(0, 0)>>
                         [] OTHER -> PlanPartitions(n, chunk, q.target)
  <1>1. IdentifyOuterCoord(q) = o
    OBVIOUS
  <1>2. o \in Axes(q) /\ n \in Nat /\ chunk \in Nat /\ q.target \in Nat
    BY Geometry
  <1>3. f.keep \subseteq 0 .. n - 1 /\ (f.form = "span" => \A x, y \in f.keep : x .. y \subseteq f.keep)
    BY <1>2, QueriesAssumption DEF QueryOK
  <1>4. OuterSpecs(q, res) = [i \in DOMAIN pieces |-> FromOuter(pieces[i])]
    <2> HIDE DEF o
    <2> QED
      BY <1>1 DEF OuterSpecs, o
  <1>5. ToCover(q, res) = IF res \in {"resolved", "empty"} THEN f.keep ELSE 0 .. n - 1
    BY <1>1 DEF ToCover
  <1>6. /\ res \in {"unfiltered", "resolved", "empty", "error"}
        /\ res = "resolved" => f.form # "none" /\ f.keep # {}
        /\ res = "empty" => f.keep = {}
    <2>1. res \in IF f.form = "none" \/ q.store \in {"uncached", "adapter"} THEN {"unfiltered"}
                  ELSE {"error", IF f.keep = {} THEN "empty" ELSE "resolved"}
      BY <1>1 DEF ResolveOuterSelection
    <2> HIDE DEF f
    <2> QED
      BY <2>1
  <1>k. Kinds(q, res) = IF res = "resolved" /\ f.form \notin {"none", "span"}
                        THEN RangeSels \cup ListSels ELSE RangeSels
    BY DEF Kinds
  <1> HIDE DEF n, f, chunk, o
  <1>7. CASE res = "resolved"
    <2>1. pieces = SplitSelection(ResolveCoordSelection(f, n), chunk, q.target)
      BY <1>7
    <2> DEFINE L == IF f.form = "span" THEN RangeSels ELSE ListSels
    <2>2. CutOf(pieces, f.keep, c, m, L)
      BY <1>2, <1>3, <1>6, <1>7, <2>1, ResolvedCut
    <2>k. L \subseteq Kinds(q, res)
      BY <1>6, <1>7, <1>k
    <2> HIDE DEF L
    <2>w. CutOf(pieces, f.keep, c, m, Kinds(q, res))
      BY <2>2, <2>k DEF CutOf
    <2>3. ToCover(q, res) = f.keep /\ f.keep \subseteq Nat
      BY <1>3, <1>5, <1>7
    <2> HIDE DEF pieces
    <2> QED
      BY <1>4, <1>6, <2>w, <2>3 DEF IsOuterCut, chunk
  <1>8. CASE res = "empty"
    <2>1. pieces = <<RangeSel(0, 0)>> /\ ToCover(q, res) = {}
      BY <1>5, <1>6, <1>8
    <2>2. Members(RangeSel(0, 0)) = {}
      BY DEF Members, RangeSel, IsIndices
    <2> HIDE DEF pieces
    <2>3. DOMAIN pieces = 1 .. 1 /\ pieces[1] = RangeSel(0, 0) /\ 1 .. 1 = {1}
      BY <2>1
    <2>4. 1 \in 1 .. m
      BY <1>2 DEF Max2
    <2> HIDE DEF m
    <2>6. RangeSel(0, 0) \in Kinds(q, res)
      BY <1>8, <1>k DEF RangeSel, RangeSels
    <2>5. CutOf(pieces, {}, c, m, Kinds(q, res))
      BY <2>2, <2>3, <2>4, <2>6 DEF CutOf
    <2> QED
      BY <1>4, <1>6, <2>1, <2>5 DEF IsOuterCut, chunk, m
  <1>9. CASE res \notin {"resolved", "empty"}
    <2>1. pieces = PlanPartitions(n, chunk, q.target)
      BY <1>9
    <2>2. ToCover(q, res) = 0 .. n - 1 /\ 0 .. n - 1 \subseteq Nat
      BY <1>2, <1>5, <1>9
    <2>4. Kinds(q, res) = RangeSels
      BY <1>9, <1>k
    <2>3. CutOf(pieces, 0 .. n - 1, c, m, Kinds(q, res))
      BY <1>2, <2>1, <2>4, PlanCutOf
    <2> HIDE DEF pieces
    <2> QED
      BY <1>4, <1>6, <2>2, <2>3 DEF IsOuterCut, chunk
  <1> QED
    BY <1>7, <1>8, <1>9

-----------------------------------------------------------------------------
(* The plan, step by step. *)

\* How many there are from 1 to n.
LEMMA UptoSize ==
    ASSUME NEW n \in Nat
    PROVE  IsFiniteSet(1 .. n) /\ Cardinality(1 .. n) = n
  BY FS_Interval

\* What plan_scan_partitions builds.
LEMMA PlannedCut ==
    ASSUME NEW q \in Queries, NEW res \in ResolveOuterSelection(q)
    PROVE  WellCut(FanOutInner(OuterSpecs(q, res), q.vars[1], q.sizes, q.chunks, Filtered(q), q.target),
                   q, res)
  <1> DEFINE S     == ToCover(q, res)
             o     == q.vars[1][1]
             c     == Max2(1, q.chunks[o])
             m     == Max2(1, q.target)
             outer == OuterSpecs(q, res)
             sp    == FanOutInner(outer, q.vars[1], q.sizes, q.chunks, Filtered(q), q.target)
             d     == Len(q.sizes)
             K     == Kinds(q, res)
  <1>1. /\ d \in Nat /\ Axes(q) = 1 .. d /\ DOMAIN q.sizes = 1 .. d
        /\ \A a \in 1 .. d : q.sizes[a] \in Nat /\ q.chunks[a] \in Nat
        /\ o \in 1 .. d /\ q.target \in Nat
    BY Geometry
  <1>2. S \subseteq Nat /\ IsOuterCut(outer, q, res)
    BY OuterSpecsFacts
  <1>3. c \in Nat \ {0} /\ m \in Nat
    BY <1>1 DEF Max2
  <1>4. PICK pieces : outer = [i \in DOMAIN pieces |-> FromOuter(pieces[i])]
                      /\ CutOf(pieces, S, c, m, K)
    BY <1>2 DEF IsOuterCut
  <1> HIDE DEF S, c, d, outer, K
  <1>5. FansOut(sp, S, c, q.vars[1], q.sizes, q.chunks, Filtered(q), m, K)
    BY <1>1, <1>2, <1>3, <1>4, FanOutInnerCuts
  <1> HIDE DEF sp, m
  <1>6. PICK A \in SUBSET Splittable(q.vars[1], q.sizes, Filtered(q)), n \in 1 .. m :
           SpecsCut(sp, n, S, c, A, q.sizes, q.chunks, K)
    BY <1>5 DEF FansOut
  <1>7. n \in Nat \ {0} /\ n <= m
    BY <1>3, <1>6
  <1>8. Cardinality(Working(sp, n)) <= m
    <2>0. n \in Nat
      BY <1>7
    <2>1. IsFiniteSet(1 .. n) /\ Cardinality(1 .. n) = n
      BY <2>0, UptoSize
    <2>2. Working(sp, n) \in SUBSET (1 .. n)
      BY DEF Working
    <2>3. IsFiniteSet(Working(sp, n)) /\ Cardinality(Working(sp, n)) <= n
      BY <2>1, <2>2, FS_Subset
    <2>4. Cardinality(Working(sp, n)) \in Nat
      BY <2>3, FS_CardinalityType
    <2> QED
      BY <1>3, <1>7, <2>3, <2>4
  <1>9. SpecsCut(sp, n, ToCover(q, res), Max2(1, q.chunks[q.vars[1][1]]), A, q.sizes, q.chunks, Kinds(q, res))
    BY <1>6 DEF S, c, K
  <1>10. Cardinality(Working(sp, n)) <= Max2(1, q.target)
    BY <1>8 DEF m
  <1>11. WellCut(sp, q, res)
    BY <1>6, <1>7, <1>9, <1>10 DEF WellCut
  <1> QED
    BY <1>11 DEF sp, outer

\* What scale_up_leaf_node makes of it.
LEMMA ScaledCut ==
    ASSUME NEW q \in Queries, NEW res, NEW sp, WellCut(sp, q, res)
    PROVE  LET slots == FlattenRows(DistributeSpecsAcrossTasks(sp, q.tasks))
           IN WellCut(slots, q, res) /\ \E k \in Nat : Len(slots) = Max2(1, q.tasks) * k
  <1> DEFINE S     == ToCover(q, res)
             K     == Kinds(q, res)
             c     == Max2(1, q.chunks[q.vars[1][1]])
             m     == Max2(1, q.target)
             tasks == q.tasks
             slots == FlattenRows(DistributeSpecsAcrossTasks(sp, tasks))
  <1>1. PICK n \in Nat \ {0}, A \in SUBSET Splittable(q.vars[1], q.sizes, Filtered(q)) :
           SpecsCut(sp, n, S, c, A, q.sizes, q.chunks, K) /\ Cardinality(Working(sp, n)) <= m
    BY DEF WellCut
  <1>2. tasks \in Nat /\ m \in Nat
    BY Geometry DEF Max2
  <1>k. RangeSel(0, 0) \in K
    BY DEF Kinds, RangeSel, RangeSels
  <1> HIDE DEF S, K, c, m, tasks
  <1>3. sp = [i \in 1 .. n |-> sp[i]]
    BY <1>1 DEF SpecsCut
  <1> DEFINE each == Max2(1, tasks)
  <1>s. PICK k \in Nat : \E src : Rehoused(slots, each * k, sp, n, src)
    BY <1>2, <1>3, SlotsOfTasks
  <1> DEFINE w == each * k
  <1>w. w \in Nat
    BY <1>2 DEF Max2
  <1> HIDE DEF w
  <1>4. PICK src : Rehoused(slots, w, sp, n, src)
    BY <1>s DEF w
  <1>l. Len(slots) = w
    BY <1>4, <1>w DEF Rehoused
  <1> HIDE DEF slots
  <1>5. SpecsCut(slots, w, S, c, A, q.sizes, q.chunks, K)
    BY <1>1, <1>4, <1>k, <1>w, RehousedCut
  <1>6. w # 0
    <2>1. 1 \in 1 .. n
      OBVIOUS
    <2>2. \E l \in 1 .. w : src[l] = 1
      BY <1>4, <2>1 DEF Rehoused
    <2> QED
      BY <1>w, <2>2
  <1>7. Cardinality(Working(slots, w)) <= m
    <2>1. n \in Nat /\ Cardinality(Working(sp, n)) <= m
      BY <1>1
    <2>2. /\ Cardinality(Working(slots, w)) \in Nat /\ Cardinality(Working(sp, n)) \in Nat
          /\ Cardinality(Working(slots, w)) <= Cardinality(Working(sp, n))
      BY <1>4, <1>w, <2>1, RehousedWork
    <2> QED
      BY <1>2, <2>1, <2>2
  <1>8. WellCut(slots, q, res)
    BY <1>5, <1>6, <1>7, <1>w DEF WellCut, S, K, c, m
  <1> QED
    BY <1>8, <1>l DEF slots, tasks, w

\* The first state.
LEMMA PlanStarts ==
    PlanInit => PlanInv
  BY DEF PlanInit, PlanInv, SharesEven, NoLimit

\* Every step keeps the promise.
LEMMA PlanSteps ==
    ASSUME PlanInv, [PlanNext]_planVars
    PROVE  PlanInv'
  <1> USE DEF PlanInv, SharesEven
  <1>1. CASE PlanScanPartitions
    <2>1. /\ phase = "plan" /\ phase' = "planned" /\ query' = query
          /\ scan_limit' = IF LimitAtScan(query) THEN query.limit ELSE NoLimit
      BY <1>1 DEF PlanScanPartitions
    <2>2. query.limit \in Nat \cup {NoLimit}
      BY Geometry
    <2>3. /\ scan_limit' \in Nat \cup {NoLimit}
          /\ scan_limit' = query.limit \/ scan_limit' = NoLimit
      BY <2>1, <2>2
    <2>4. CASE ReadWhole(query) /\ resolution' = "skipped" /\ specs' = <<>>
      BY <2>1, <2>3, <2>4
    <2>5. CASE \E outcome \in ResolveOuterSelection(query) :
                  /\ resolution' = outcome
                  /\ specs' = FanOutInner(OuterSpecs(query, outcome), query.vars[1], query.sizes,
                                          query.chunks, Filtered(query), query.target)
      <3>1. PICK q, res :
               /\ q \in Queries /\ q = query /\ res \in ResolveOuterSelection(q) /\ resolution' = res
               /\ specs' = FanOutInner(OuterSpecs(q, res), q.vars[1], q.sizes,
                                       q.chunks, Filtered(q), q.target)
        BY <2>5
      <3>2. WellCut(FanOutInner(OuterSpecs(q, res), q.vars[1], q.sizes, q.chunks, Filtered(q), q.target),
                    q, res)
        BY <3>1, PlannedCut
      <3>3. WellCut(specs', q, res) /\ query' = q
        BY <2>1, <3>1, <3>2
      <3>4. WellCut(specs, query, resolution)'
        BY <3>1, <3>3 DEF WellCut, ToCover, Kinds
      <3>5. res \in {"unfiltered", "resolved", "empty", "error"}
        BY <3>1, OuterSpecsFacts
      <3>6. res # "skipped"
        BY <3>5
      <3> QED
        BY <2>1, <2>3, <3>1, <3>4, <3>5, <3>6
    <2> QED
      BY <1>1, <2>4, <2>5 DEF PlanScanPartitions
  <1>2. CASE PushLimitToZarr
    <2>1. /\ phase' = "optimized" /\ query' = query /\ resolution' = resolution /\ specs' = specs
          /\ scan_limit' = IF query.limit # NoLimit /\ (scan_limit = NoLimit \/ query.limit < scan_limit)
                           THEN query.limit ELSE scan_limit
          /\ phase = "planned"
      BY <1>2 DEF PushLimitToZarr
    <2>2. query.limit \in Nat \cup {NoLimit}
      BY Geometry
    <2>4. scan_limit' = query.limit
      BY <2>1, <2>2
    <2>3. specs' # <<>> => WellCut(specs, query, resolution)'
      BY <2>1 DEF WellCut, ToCover, Kinds
    <2> QED
      BY <2>1, <2>2, <2>3, <2>4
  <1>3. CASE ScaleUpLeafNode
    <2>1. /\ phase' = "scan" /\ phase = "optimized" /\ query' = query /\ resolution' = resolution /\ scan_limit' = scan_limit
          /\ specs' = IF Len(specs) < 2 \/ query.tasks <= 1 THEN specs
                      ELSE FlattenRows(DistributeSpecsAcrossTasks(specs, query.tasks))
      BY <1>3 DEF ScaleUpLeafNode
    <2>l. Len(specs) \in Nat /\ query.tasks \in Nat
      <3>1. CASE specs = <<>>
        BY <3>1, Geometry
      <3>2. CASE specs # <<>>
        <4>1. PICK n \in Nat \ {0} : DOMAIN specs = 1 .. n /\ specs = [i \in 1 .. n |-> specs[i]]
          BY <3>2 DEF WellCut, SpecsCut
        <4> QED
          BY <4>1, Geometry
      <3> QED
        BY <3>1, <3>2
    <2>2. CASE Len(specs) < 2 \/ query.tasks <= 1
      <3>1. specs' = specs
        BY <2>1, <2>2
      <3>0. specs # <<>> => WellCut(specs, query, resolution)
        OBVIOUS
      <3>2. specs' # <<>> => WellCut(specs, query, resolution)'
        <4>1. query' = query /\ resolution' = resolution
          BY <2>1
        <4> QED
          BY ONLY <3>0, <3>1, <4>1 DEF WellCut, ToCover, Kinds
      <3> QED
        BY <2>1, <2>2, <2>l, <3>1, <3>2
    <2>3. CASE Len(specs) >= 2 /\ query.tasks > 1
      <3>1. specs # <<>> /\ specs' = FlattenRows(DistributeSpecsAcrossTasks(specs, query.tasks))
        <4>1. Len(<<>>) = 0
          OBVIOUS
        <4> QED
          BY <2>1, <2>3, <2>l, <4>1
      <3>2. PICK q, res, sp :
               /\ q \in Queries /\ q = query /\ res = resolution /\ sp = specs /\ WellCut(sp, q, res)
        BY <3>1
      <3> DEFINE slots == FlattenRows(DistributeSpecsAcrossTasks(sp, q.tasks))
      <3>3. WellCut(slots, q, res) /\ \E k \in Nat : Len(slots) = Max2(1, q.tasks) * k
        BY <3>2, ScaledCut
      <3>4. slots = specs'
        BY <3>1, <3>2
      <3> HIDE DEF slots
      <3>5. WellCut(specs, query, resolution)'
        BY <2>1, <3>2, <3>3, <3>4 DEF WellCut, ToCover, Kinds
      <3>6. Max2(1, q.tasks) = query.tasks
        BY <2>3, <2>l, <3>2 DEF Max2
      <3>7. \E k \in Nat : Len(specs') = query.tasks * k
        BY <3>3, <3>4, <3>6
      <3> QED
        BY <2>1, <3>1, <3>5, <3>7
    <2> QED
      BY <2>2, <2>3, <2>l
  <1>4. CASE UNCHANGED planVars
    <2>1. query' = query /\ phase' = phase /\ resolution' = resolution /\ specs' = specs
          /\ scan_limit' = scan_limit
      BY <1>4 DEF planVars
    <2>2. specs' # <<>> => WellCut(specs, query, resolution)'
      BY <2>1 DEF WellCut, ToCover, Kinds
    <2> QED
      BY <2>1, <2>2
  <1> QED
    BY <1>1, <1>2, <1>3, <1>4 DEF PlanNext

\* PlanInv holds in every state of a plan.
THEOREM PlanInvariant ==
    PlanSpec => []PlanInv
  <1>1. PlanInit => PlanInv
    BY PlanStarts
  <1>2. PlanInv /\ [PlanNext]_planVars => PlanInv'
    BY PlanSteps
  <1> QED
    BY <1>1, <1>2, PTL DEF PlanSpec

-----------------------------------------------------------------------------
(* What the invariant says of the partitions. *)

\* The specs of a plan, with the axes they cut.
LEMMA Unfold ==
    ASSUME PlanInv, specs # <<>>
    PROVE  \E n \in Nat \ {0}, A \in SUBSET Splittable(query.vars[1], query.sizes, Filtered(query)) :
              /\ SpecsCut(specs, n, ToCover(query, resolution), Max2(1, query.chunks[query.vars[1][1]]),
                          A, query.sizes, query.chunks, Kinds(query, resolution))
              /\ Cardinality(Working(specs, n)) <= Max2(1, query.target)
  BY DEF PlanInv, WellCut

\* What is to be read on the outer axis are positions of it.
LEMMA CoverIsInside ==
    ASSUME NEW q \in Queries, NEW res
    PROVE  ToCover(q, res) \subseteq 0 .. q.sizes[IdentifyOuterCoord(q)] - 1
  <1>1. IdentifyOuterCoord(q) \in Axes(q)
    BY Geometry
  <1>2. q.filter[IdentifyOuterCoord(q)].keep \subseteq 0 .. q.sizes[IdentifyOuterCoord(q)] - 1
    BY <1>1, QueriesAssumption DEF QueryOK
  <1> QED
    BY <1>1, <1>2 DEF ToCover

\* The specs hold positions that exist.
LEMMA CutTyped ==
    ASSUME PlanInv
    PROVE  PlanTypeOK
  <1>1. query \in Queries
    BY DEF PlanInv
  <1>2. CASE specs = <<>>
    <2>1. DOMAIN specs = {}
      BY <1>2
    <2> QED
      BY <2>1 DEF PlanInv, PlanTypeOK
  <1>3. CASE specs # <<>>
    <2>1. PICK n \in Nat \ {0}, A \in SUBSET Splittable(query.vars[1], query.sizes, Filtered(query)) :
             SpecsCut(specs, n, ToCover(query, resolution), Max2(1, query.chunks[query.vars[1][1]]),
                      A, query.sizes, query.chunks, Kinds(query, resolution))
      BY <1>3, Unfold
    <2>2. ToCover(query, resolution) \subseteq 0 .. query.sizes[IdentifyOuterCoord(query)] - 1
      BY <1>1, CoverIsInside
    <2>3. /\ DOMAIN specs = 1 .. n
          /\ \A i \in 1 .. n : Members(specs[i].outer) \subseteq ToCover(query, resolution)
          /\ \A i \in 1 .. n : \A a \in DOMAIN specs[i].extra :
                Members(specs[i].extra[a]) \subseteq 0 .. query.sizes[a] - 1
      BY <2>1 DEF SpecsCut
    <2> QED
      BY <1>1, <2>2, <2>3 DEF PlanInv, PlanTypeOK
  <1> QED
    BY <1>2, <1>3

\* Two specs apart on an axis have no position of it in common.
LEMMA ApartDisjoint ==
    ASSUME NEW s, NEW t, NEW c, NEW x, Apart(s, t, c), x \in Members(s), x \in Members(t)
    PROVE  FALSE
  BY DEF Apart

\* Each cell to be read is in one spec.
LEMMA CutExact ==
    ASSUME OuterIsNamed(query), PlanInv
    PROVE  EachCellInOneSpec
  <1> DEFINE o == query.vars[1][1]
             S == ToCover(query, resolution)
             c == Max2(1, query.chunks[o])
  <1>1. query \in Queries /\ IdentifyOuterCoord(query) = o
    BY DEF PlanInv, OuterIsNamed
  <1>2. /\ \A a \in Axes(query) : query.sizes[a] \in Nat /\ query.chunks[a] \in Nat
        /\ o \in Axes(query) /\ o \notin Splittable(query.vars[1], query.sizes, Filtered(query))
    BY <1>1, Geometry
  <1> SUFFICES ASSUME specs # <<>>,
                      NEW cell \in [Axes(query) -> UNION {0 .. query.sizes[a] - 1 : a \in Axes(query)}],
                      \A a \in Axes(query) : cell[a] < query.sizes[a]
               PROVE  Cardinality({i \in DOMAIN specs :
                                     \A a \in Axes(query) : cell[a] \in SpecOn(specs[i], query, a)})
                      = IF cell[o] \in S THEN 1 ELSE 0
    BY <1>1 DEF EachCellInOneSpec
  <1> DEFINE In(i) == \A a \in Axes(query) : cell[a] \in SpecOn(specs[i], query, a)
             I     == {i \in DOMAIN specs : In(i)}
  <1>3. \A a \in Axes(query) : cell[a] \in 0 .. query.sizes[a] - 1
    <2> SUFFICES ASSUME NEW a \in Axes(query) PROVE cell[a] \in 0 .. query.sizes[a] - 1
      OBVIOUS
    <2>1. cell[a] \in UNION {0 .. query.sizes[b] - 1 : b \in Axes(query)}
      OBVIOUS
    <2>2. PICK b \in Axes(query) : cell[a] \in 0 .. query.sizes[b] - 1
      BY <2>1
    <2>3. cell[a] \in Nat /\ cell[a] < query.sizes[a] /\ query.sizes[a] \in Nat
      <3>1. query.sizes[a] \in Nat /\ query.sizes[b] \in Nat
        BY <1>2
      <3>2. cell[a] \in Nat
        BY <2>2, <3>1
      <3>3. cell[a] < query.sizes[a]
        OBVIOUS
      <3> QED
        BY <3>1, <3>2, <3>3
    <2> DEFINE u == cell[a]
               v == query.sizes[a]
    <2>4. u \in Nat /\ u < v /\ v \in Nat
      BY <2>3
    <2> HIDE DEF u, v
    <2>5. u \in 0 .. v - 1
      BY <2>4
    <2> QED
      BY <2>5 DEF u, v
  <1>4. PICK n \in Nat \ {0}, A \in SUBSET Splittable(query.vars[1], query.sizes, Filtered(query)) :
           SpecsCut(specs, n, S, c, A, query.sizes, query.chunks, Kinds(query, resolution))
    BY Unfold
  <1>5. A \subseteq Axes(query) /\ o \notin A
    BY <1>2, <1>4 DEF Splittable, Axes
  <1> HIDE DEF o, S, c
  <1>6. /\ DOMAIN specs = 1 .. n
        /\ \A i \in 1 .. n : specs[i] = EmptySpec \/ DOMAIN specs[i].extra = A
        /\ \A i \in 1 .. n : Members(specs[i].outer) \subseteq S
        /\ \A x \in S : \A e : (\A a \in A : e[a] \in 0 .. query.sizes[a] - 1) =>
              \E i \in 1 .. n : /\ DOMAIN specs[i].extra = A
                                /\ x \in Members(specs[i].outer)
                                /\ \A a \in A : e[a] \in Members(specs[i].extra[a])
        /\ \A i, j \in 1 .. n : i # j =>
              \/ Apart(specs[i].outer, specs[j].outer, c)
              \/ /\ DOMAIN specs[i].extra = A /\ DOMAIN specs[j].extra = A
                 /\ \E a \in A : Apart(specs[i].extra[a], specs[j].extra[a], Max2(1, query.chunks[a]))
    BY <1>4 DEF SpecsCut
  <1>7. ASSUME NEW i \in 1 .. n, In(i)
        PROVE  /\ DOMAIN specs[i].extra = A /\ cell[o] \in Members(specs[i].outer)
               /\ \A a \in A : cell[a] \in Members(specs[i].extra[a])
    <2>1. o \notin DOMAIN specs[i].extra
      BY <1>5, <1>6, EmptySpecFacts
    <2>2. cell[o] \in Members(specs[i].outer)
      BY <1>1, <1>2, <1>7, <2>1 DEF SpecOn
    <2>3. specs[i] # EmptySpec
      <3> SUFFICES ASSUME specs[i] = EmptySpec PROVE FALSE
        OBVIOUS
      <3>1. Members(specs[i].outer) = {}
        BY EmptySpecFacts, Zenon
      <3> QED
        BY <2>2, <3>1
    <2>4. DOMAIN specs[i].extra = A
      BY <1>6, <2>3
    <2>5. ASSUME NEW a \in A PROVE cell[a] \in Members(specs[i].extra[a])
      <3>1. a \in Axes(query) /\ a \in DOMAIN specs[i].extra
        BY <1>5, <2>4
      <3> QED
        BY <1>7, <3>1 DEF SpecOn
    <2> QED
      BY <2>2, <2>4, <2>5
  <1>8. ASSUME NEW i \in 1 .. n, DOMAIN specs[i].extra = A, cell[o] \in Members(specs[i].outer),
               \A a \in A : cell[a] \in Members(specs[i].extra[a])
        PROVE  In(i)
    <2> SUFFICES ASSUME NEW a \in Axes(query) PROVE cell[a] \in SpecOn(specs[i], query, a)
      OBVIOUS
    <2> QED
      BY <1>1, <1>3, <1>8 DEF SpecOn
  <1> HIDE DEF In
  <1>9. CASE cell[o] \in S
    <2>1. \A a \in A : cell[a] \in 0 .. query.sizes[a] - 1
      BY <1>3, <1>5
    <2>2. PICK i \in 1 .. n : /\ DOMAIN specs[i].extra = A /\ cell[o] \in Members(specs[i].outer)
                             /\ \A a \in A : cell[a] \in Members(specs[i].extra[a])
      BY <1>6, <1>9, <2>1
    <2>3. In(i)
      BY <1>8, <2>2
    <2>4. ASSUME NEW j \in 1 .. n, In(j) PROVE j = i
      <3> SUFFICES ASSUME j # i PROVE FALSE
        OBVIOUS
      <3>1. /\ cell[o] \in Members(specs[j].outer)
            /\ \A a \in A : cell[a] \in Members(specs[j].extra[a])
        BY <1>7, <2>4
      <3>2. \/ Apart(specs[j].outer, specs[i].outer, c)
            \/ \E a \in A : Apart(specs[j].extra[a], specs[i].extra[a], Max2(1, query.chunks[a]))
        BY <1>6
      <3>3. CASE Apart(specs[j].outer, specs[i].outer, c)
        BY <2>2, <3>1, <3>3, ApartDisjoint
      <3>4. CASE \E a \in A : Apart(specs[j].extra[a], specs[i].extra[a], Max2(1, query.chunks[a]))
        BY <2>2, <3>1, <3>4, ApartDisjoint
      <3> QED
        BY <3>2, <3>3, <3>4
    <2>5. I = {i}
      BY <1>6, <2>3, <2>4
    <2> HIDE DEF I
    <2>6. Cardinality(I) = 1
      BY <2>5, FS_Singleton
    <2> QED
      BY <1>9, <2>6 DEF I, In
  <1>10. CASE cell[o] \notin S
    <2>1. I = {}
      BY <1>6, <1>7, <1>10
    <2> HIDE DEF I
    <2>2. Cardinality(I) = 0
      BY <2>1, FS_EmptySet
    <2> QED
      BY <1>10, <2>2 DEF I, In
  <1> QED
    BY <1>9, <1>10

\* No chunk is in two specs.
LEMMA CutInChunks ==
    ASSUME OuterIsNamed(query), PlanInv
    PROVE  NoChunkReadTwice
  <1> DEFINE o == query.vars[1][1]
  <1>1. query \in Queries /\ IdentifyOuterCoord(query) = o
    BY DEF PlanInv, OuterIsNamed
  <1>2. o \in Axes(query) /\ o \notin Splittable(query.vars[1], query.sizes, Filtered(query))
    BY <1>1, Geometry
  <1> SUFFICES ASSUME NEW i \in DOMAIN specs, NEW j \in DOMAIN specs, i < j,
                      ~SpecEmpty(specs[i]), ~SpecEmpty(specs[j])
               PROVE  \E a \in Axes(query) :
                         ChunksOn(specs[i], query, a) \cap ChunksOn(specs[j], query, a) = {}
    BY DEF NoChunkReadTwice
  <1>3. specs # <<>>
    OBVIOUS
  <1>4. PICK n \in Nat \ {0}, A \in SUBSET Splittable(query.vars[1], query.sizes, Filtered(query)) :
           SpecsCut(specs, n, ToCover(query, resolution), Max2(1, query.chunks[o]),
                    A, query.sizes, query.chunks, Kinds(query, resolution))
    BY <1>3, Unfold
  <1>5. A \subseteq Axes(query) /\ o \notin A
    BY <1>2, <1>4 DEF Splittable, Axes
  <1> HIDE DEF o
  <1>6. /\ i \in 1 .. n /\ j \in 1 .. n /\ i # j
        /\ o \notin DOMAIN specs[i].extra /\ o \notin DOMAIN specs[j].extra
    <2>1. i \in 1 .. n /\ j \in 1 .. n
      BY <1>4 DEF SpecsCut
    <2>2. /\ specs[i] = EmptySpec \/ DOMAIN specs[i].extra = A
          /\ specs[j] = EmptySpec \/ DOMAIN specs[j].extra = A
      BY <1>4, <2>1 DEF SpecsCut
    <2> QED
      BY <1>5, <2>1, <2>2, EmptySpecFacts
  <1>7. \/ Apart(specs[i].outer, specs[j].outer, Max2(1, query.chunks[o]))
        \/ /\ DOMAIN specs[i].extra = A /\ DOMAIN specs[j].extra = A
           /\ \E a \in A : Apart(specs[i].extra[a], specs[j].extra[a], Max2(1, query.chunks[a]))
    BY <1>4, <1>6 DEF SpecsCut
  <1>8. CASE Apart(specs[i].outer, specs[j].outer, Max2(1, query.chunks[o]))
    <2>1. SpecOn(specs[i], query, o) = Members(specs[i].outer)
          /\ SpecOn(specs[j], query, o) = Members(specs[j].outer)
      BY <1>1, <1>6 DEF SpecOn
    <2>2. ChunksOn(specs[i], query, o) \cap ChunksOn(specs[j], query, o) = {}
      BY <1>8, <2>1 DEF ChunksOn, Apart
    <2> QED
      BY <1>2, <2>2 DEF o
  <1>9. ASSUME DOMAIN specs[i].extra = A, DOMAIN specs[j].extra = A,
               NEW a \in A, Apart(specs[i].extra[a], specs[j].extra[a], Max2(1, query.chunks[a]))
        PROVE  \E b \in Axes(query) :
                  ChunksOn(specs[i], query, b) \cap ChunksOn(specs[j], query, b) = {}
    <2>1. SpecOn(specs[i], query, a) = Members(specs[i].extra[a])
          /\ SpecOn(specs[j], query, a) = Members(specs[j].extra[a])
      BY <1>9 DEF SpecOn
    <2>2. ChunksOn(specs[i], query, a) \cap ChunksOn(specs[j], query, a) = {}
      BY <1>9, <2>1 DEF ChunksOn, Apart
    <2> QED
      BY <1>5, <2>2
  <1> QED
    BY <1>7, <1>8, <1>9

\* As many specs have work as asked for, and some has if there is any.
LEMMA CutWithinTarget ==
    ASSUME PlanInv
    PROVE  WithinTarget
  <1> SUFFICES ASSUME specs # <<>>
               PROVE  LET work == {i \in DOMAIN specs : ~SpecEmpty(specs[i])}
                      IN /\ Cardinality(work) <= Max2(1, query.target)
                         /\ work = {} => ToCover(query, resolution) = {}
    BY DEF WithinTarget
  <1> DEFINE work == {i \in DOMAIN specs : ~SpecEmpty(specs[i])}
             S    == ToCover(query, resolution)
  <1>1. query \in Queries
    BY DEF PlanInv
  <1>2. PICK n \in Nat \ {0}, A \in SUBSET Splittable(query.vars[1], query.sizes, Filtered(query)) :
           /\ SpecsCut(specs, n, S, Max2(1, query.chunks[query.vars[1][1]]), A, query.sizes, query.chunks, Kinds(query, resolution))
           /\ Cardinality(Working(specs, n)) <= Max2(1, query.target)
    BY Unfold
  <1>3. work = Working(specs, n)
    BY <1>2 DEF SpecsCut, Working
  <1>4. ASSUME NEW x \in S PROVE work # {}
    <2> DEFINE first == [a \in A |-> 0]
    <2>1. ASSUME NEW a \in A PROVE first[a] \in 0 .. query.sizes[a] - 1
      <3>1. a \in Axes(query) /\ query.sizes[a] > 0
        BY <1>2 DEF Splittable, Axes
      <3>2. query.sizes[a] \in Nat
        BY <1>1, <3>1, Geometry
      <3> QED
        BY <3>1, <3>2
    <2> HIDE DEF first, S
    <2>2. PICK i \in 1 .. n : /\ DOMAIN specs[i].extra = A /\ x \in Members(specs[i].outer)
                             /\ \A a \in A : first[a] \in Members(specs[i].extra[a])
      BY <1>2, <2>1 DEF SpecsCut
    <2>3. ~SpecEmpty(specs[i])
      BY <2>2 DEF SpecEmpty, SelEmpty
    <2>4. i \in DOMAIN specs
      BY <1>2 DEF SpecsCut
    <2> QED
      BY <2>3, <2>4
  <1> HIDE DEF work, S
  <1>5. Cardinality(work) <= Max2(1, query.target) /\ (work = {} => S = {})
    BY <1>2, <1>3, <1>4
  <1> QED
    BY <1>5 DEF work, S

-----------------------------------------------------------------------------
(* The plan of every query. *)

\* The type invariant: at every step the partitions hold selections of positions
\* that exist, on the outer axis and on each axis fan_out_inner split.
THEOREM PlanTyped ==
    PlanSpec => []PlanTypeOK
  <1>1. PlanInv => PlanTypeOK
    BY CutTyped
  <1> QED
    BY <1>1, PlanInvariant, PTL

\* Where the coordinate that the length of axis 0 gives is the one it is named
\* after: from planning to the worker tasks each cell to be read is in exactly one
\* partition, and no filtered-out outer position is in any.
THEOREM CellsInOneSpec ==
    PlanSpec => [](OuterIsNamed(query) => EachCellInOneSpec)
  <1>1. PlanInv => (OuterIsNamed(query) => EachCellInOneSpec)
    BY CutExact
  <1> QED
    BY <1>1, PlanInvariant, PTL

\* No chunk of the store is read by two partitions.
THEOREM ChunksInOneSpec ==
    PlanSpec => [](OuterIsNamed(query) => NoChunkReadTwice)
  <1>1. PlanInv => (OuterIsNamed(query) => NoChunkReadTwice)
    BY CutInChunks
  <1> QED
    BY <1>1, PlanInvariant, PTL

\* No more partitions have work than target_partitions, and one has if any
\* position is to be read.
THEOREM PlanWithinTarget ==
    PlanSpec => []WithinTarget
  <1>1. PlanInv => WithinTarget
    BY CutWithinTarget
  <1> QED
    BY <1>1, PlanInvariant, PTL


-----------------------------------------------------------------------------
(* What one partition reads. *)

\* The axes of the projected variable.
LEMMA DimsFacts ==
    ASSUME NEW q \in Queries
    PROVE  /\ Len(Dims(q)) \in Nat \ {0} /\ DOMAIN Dims(q) = 1 .. Len(Dims(q))
           /\ Dims(q) \in [1 .. Len(Dims(q)) -> Axes(q)]
           /\ \A j, k \in 1 .. Len(Dims(q)) : Dims(q)[j] = Dims(q)[k] => j = k
           /\ Axes(q) = 1 .. Len(q.sizes) /\ Len(q.sizes) \in Nat
           /\ Len(Dims(q)) <= Len(q.sizes)
  <1> DEFINE d == Dims(q)
             n == Len(d)
             N == Len(q.sizes)
  <1>1. d \in Seq(Axes(q)) /\ d # <<>> /\ \A j, k \in DOMAIN d : d[j] = d[k] => j = k
    BY QueriesAssumption DEF QueryOK, Dims
  <1>2. Axes(q) = 1 .. N /\ N \in Nat
    BY Geometry
  <1> HIDE DEF d, N
  <1>3. n \in Nat \ {0} /\ DOMAIN d = 1 .. n /\ d \in [1 .. n -> Axes(q)]
    BY <1>1, EmptySeq
  <1>4. n <= N
    <2> SUFFICES ASSUME N < n PROVE FALSE
      BY <1>2, <1>3
    <2>1. IsFiniteSet(1 .. n) /\ Cardinality(1 .. n) = n /\ IsFiniteSet(1 .. N) /\ Cardinality(1 .. N) = N
      BY <1>2, <1>3, UptoSize
    <2>2. \E x, y \in 1 .. n : x # y /\ d[x] = d[y]
      BY <1>2, <1>3, <2>1, FS_PigeonHole
    <2> QED
      BY <1>1, <1>3, <2>2
  <1> QED
    BY <1>1, <1>2, <1>3, <1>4 DEF d, N

\* What a filter resolves to when something survives it, and an axis without one.
LEMMA ResolvedSel ==
    ASSUME NEW n \in Nat, NEW f, f.form \in {"none", "span", "list", "date"},
           f.keep \subseteq 0 .. n - 1, f.form # "none" => f.keep # {},
           f.form = "span" => \A x, y \in f.keep : x .. y \subseteq f.keep
    PROVE  /\ ResolveCoordSelection(f, n) \in Sels
           /\ Members(ResolveCoordSelection(f, n)) = IF f.form = "none" THEN 0 .. n - 1 ELSE f.keep
           /\ f.form \in {"none", "span"} => ResolveCoordSelection(f, n) \in RangeSels
  <1> DEFINE r == ResolveCoordSelection(f, n)
  <1>1. CASE f.form = "none"
    <2>1. r = RangeSel(0, n)
      BY <1>1 DEF ResolveCoordSelection
    <2>2. r \in RangeSels /\ Members(r) = 0 .. n - 1
      BY <2>1 DEF RangeSels, RangeSel, Members, IsIndices
    <2> QED
      BY <1>1, <2>2 DEF Sels
  <1>2. CASE f.form = "span"
    <2> DEFINE lo == CHOOSE x \in f.keep : \A y \in f.keep : x <= y
               hi == CHOOSE x \in f.keep : \A y \in f.keep : x >= y
    <2>1. r = RangeSel(lo, 1 + hi)
      BY <1>2 DEF ResolveCoordSelection
    <2>2. f.keep \subseteq Nat /\ f.keep # {}
      BY <1>2
    <2>3. lo \in f.keep /\ \A y \in f.keep : lo <= y
      <3>1. \E x \in f.keep : \A y \in f.keep : x <= y
        BY <2>2, LeastNat
      <3> QED
        BY <3>1
    <2>4. hi \in f.keep /\ \A y \in f.keep : hi >= y
      <3>1. \E x \in f.keep : \A y \in f.keep : x >= y
        BY <2>2, LastPosition
      <3> QED
        BY <3>1
    <2> HIDE DEF lo, hi
    <2>5. f.keep = lo .. hi
      <3>1. lo .. hi \subseteq f.keep
        BY <1>2, <2>3, <2>4
      <3>2. \A x \in f.keep : x \in lo .. hi
        BY <2>2, <2>3, <2>4
      <3> QED
        BY <3>1, <3>2
    <2>6. lo \in Nat /\ hi \in Nat
      BY <2>2, <2>3, <2>4
    <2>7. r \in RangeSels /\ Members(r) = lo .. (1 + hi) - 1
      <3> HIDE DEF r
      <3> QED
        BY <2>1, <2>6 DEF RangeSels, RangeSel, Members, IsIndices
    <2>8. lo .. (1 + hi) - 1 = lo .. hi
      BY <2>6
    <2> QED
      BY <1>2, <2>5, <2>7, <2>8 DEF Sels
  <1>3. CASE f.form \notin {"none", "span"}
    <2> DEFINE v == Sorted(f.keep)
               m == Cardinality(f.keep)
    <2>1. r = IndicesSel(v)
      BY <1>3 DEF ResolveCoordSelection
    <2>2. f.keep \subseteq Nat /\ IsFiniteSet(f.keep)
      <3>1. IsFiniteSet(0 .. n - 1)
        BY FS_Interval
      <3> QED
        BY <3>1, FS_Subset
    <2>3. /\ m \in Nat /\ v \in [1 .. m -> f.keep]
          /\ \A x \in f.keep : \E k \in 1 .. m : v[k] = x
          /\ \A j, k \in 1 .. m : j < k => v[j] < v[k]
      BY <2>2, SortedFacts
    <2> HIDE DEF v, m
    <2>4. v \in [1 .. m -> Nat] /\ DOMAIN v = 1 .. m
      BY <2>2, <2>3
    <2>5. v \in Seq(Nat)
      BY <2>3, <2>4, FunIsSeq
    <2>6. Ascends(v)
      BY <2>3, <2>4 DEF Ascends
    <2>7. r \in ListSels
      BY <2>1, <2>5, <2>6 DEF ListSels
    <2>8. Members(r) = {v[k] : k \in 1 .. m}
      BY <2>1, <2>4 DEF Members, IndicesSel, IsIndices
    <2>9. {v[k] : k \in 1 .. m} = f.keep
      BY <2>3
    <2> QED
      BY <1>3, <2>7, <2>8, <2>9 DEF Sels
  <1> QED
    BY <1>1, <1>2, <1>3

\* A partition is one of the specs when the reader gets them.
LEMMA SpecOfPartition ==
    ASSUME PlanInv, NEW p \in 1 .. NPartitions, ReaderSpecs # <<>>
    PROVE  p \in DOMAIN specs /\ specs # <<>> /\ Len(specs) \in Nat \ {0} /\ DOMAIN specs = 1 .. Len(specs)
  <1>1. specs # <<>> /\ ReaderSpecs = specs
    BY DEF ReaderSpecs
  <1>2. PICK n \in Nat \ {0}, A \in SUBSET Splittable(query.vars[1], query.sizes, Filtered(query)) :
            SpecsCut(specs, n, ToCover(query, resolution), Max2(1, query.chunks[query.vars[1][1]]),
                     A, query.sizes, query.chunks, Kinds(query, resolution))
    BY <1>1, Unfold
  <1>3. DOMAIN specs = 1 .. n /\ specs = [i \in 1 .. n |-> specs[i]]
    BY <1>2 DEF SpecsCut
  <1> DEFINE S == {specs[i] : i \in 1 .. n}
  <1>4. specs \in [1 .. n -> S]
    BY <1>3
  <1> HIDE DEF S
  <1>5. Len(specs) = n
    BY <1>4, FunIsSeq
  <1> QED
    BY <1>1, <1>3, <1>5 DEF NPartitions, Max2

\* The reader selects positions that exist.
LEMMA ReaderSelTyped ==
    ASSUME PlanInv, ~MatchesNothing, NEW p \in 1 .. NPartitions, NEW a \in Axes(query)
    PROVE  /\ ReaderSelection(p, a) \in Sels
           /\ Members(ReaderSelection(p, a)) \subseteq 0 .. query.sizes[a] - 1
  <1>1. query \in Queries /\ QueryOK(query)
    BY QueriesAssumption DEF PlanInv
  <1>2. query.sizes[a] \in Nat
    BY <1>1, Geometry
  <1>3. CASE ReaderSpecs # <<>> /\ (a \in DOMAIN specs[p].extra \/ a = IdentifyOuterCoord(query))
    <2>1. p \in DOMAIN specs /\ specs # <<>>
      BY <1>3, SpecOfPartition
    <2>2. PICK n \in Nat \ {0}, A \in SUBSET Splittable(query.vars[1], query.sizes, Filtered(query)) :
            SpecsCut(specs, n, ToCover(query, resolution), Max2(1, query.chunks[query.vars[1][1]]),
                     A, query.sizes, query.chunks, Kinds(query, resolution))
      BY <2>1, Unfold
    <2>3. p \in 1 .. n
      BY <2>1, <2>2 DEF SpecsCut
    <2>4. CASE a \in DOMAIN specs[p].extra
      <3>1. ReaderSelection(p, a) = specs[p].extra[a]
        BY <1>3, <2>4 DEF ReaderSelection
      <3>2. specs[p].extra[a] \in RangeSels /\ Members(specs[p].extra[a]) \subseteq 0 .. query.sizes[a] - 1
        BY <2>2, <2>3, <2>4 DEF SpecsCut
      <3> QED
        BY <3>1, <3>2 DEF Sels
    <2>5. CASE a \notin DOMAIN specs[p].extra
      <3>1. ReaderSelection(p, a) = specs[p].outer /\ a = IdentifyOuterCoord(query)
        BY <1>3, <2>5 DEF ReaderSelection
      <3>2. specs[p].outer \in Kinds(query, resolution) /\ Members(specs[p].outer) \subseteq ToCover(query, resolution)
        BY <2>2, <2>3 DEF SpecsCut
      <3>3. specs[p].outer \in Sels
        BY <3>2 DEF Kinds, Sels
      <3>4. ToCover(query, resolution) \subseteq 0 .. query.sizes[IdentifyOuterCoord(query)] - 1
        BY <1>1, CoverIsInside
      <3> QED
        BY <3>1, <3>2, <3>3, <3>4
    <2> QED
      BY <2>4, <2>5
  <1>4. CASE ~(ReaderSpecs # <<>> /\ (a \in DOMAIN specs[p].extra \/ a = IdentifyOuterCoord(query)))
    <2> DEFINE f == query.filter[a]
    <2>1. /\ f.form \in {"none", "span", "list", "date"} /\ f.keep \subseteq 0 .. query.sizes[a] - 1
          /\ f.form = "span" => \A x, y \in f.keep : x .. y \subseteq f.keep
      BY <1>1 DEF QueryOK
    <2>2. CASE a \in ReaderFilters
      <3>1. ReaderSelection(p, a) = ResolveCoordSelection(f, query.sizes[a])
        BY <1>4, <2>2 DEF ReaderSelection
      <3>2. f.keep # {} /\ f.form # "none"
        BY <2>2 DEF MatchesNothing, ReaderFilters, Filtered
      <3> HIDE DEF f
      <3>3. /\ ResolveCoordSelection(f, query.sizes[a]) \in Sels
            /\ Members(ResolveCoordSelection(f, query.sizes[a])) = f.keep
        BY <1>2, <2>1, <3>2, ResolvedSel
      <3> QED
        BY <2>1, <3>1, <3>3
    <2>3. CASE a \notin ReaderFilters
      <3>1. ReaderSelection(p, a) = RangeSel(0, query.sizes[a])
        BY <1>4, <2>3 DEF ReaderSelection
      <3>2. RangeSel(0, query.sizes[a]) \in RangeSels
        BY <1>2 DEF RangeSels, RangeSel
      <3>3. Members(RangeSel(0, query.sizes[a])) = 0 .. query.sizes[a] - 1
        BY DEF Members, RangeSel, IsIndices
      <3> QED
        BY <3>1, <3>2, <3>3 DEF Sels
    <2> QED
      BY <2>2, <2>3
  <1> QED
    BY <1>3, <1>4


\* How many specs there are.
LEMMA SpecsLength ==
    ASSUME PlanInv
    PROVE  Len(specs) \in Nat /\ (specs # <<>> => Len(specs) # 0 /\ DOMAIN specs = 1 .. Len(specs))
  <1>1. CASE specs = <<>>
    BY <1>1
  <1>2. CASE specs # <<>>
    <2>1. PICK n \in Nat \ {0}, A \in SUBSET Splittable(query.vars[1], query.sizes, Filtered(query)) :
            SpecsCut(specs, n, ToCover(query, resolution), Max2(1, query.chunks[query.vars[1][1]]),
                     A, query.sizes, query.chunks, Kinds(query, resolution))
      BY <1>2, Unfold
    <2>2. DOMAIN specs = 1 .. n /\ specs = [i \in 1 .. n |-> specs[i]]
      BY <2>1 DEF SpecsCut
    <2> DEFINE S == {specs[i] : i \in 1 .. n}
    <2>3. specs \in [1 .. n -> S]
      BY <2>2
    <2> HIDE DEF S
    <2>4. Len(specs) = n
      BY <2>3, FunIsSeq
    <2> QED
      BY <2>2, <2>4
  <1> QED
    BY <1>1, <1>2

\* The phases before the scan is executed.
PlanPhases == {"plan", "planned", "optimized"}

\* The partitions of one process, and the rows each of them may hold.
LEMMA ExecFacts ==
    ASSUME PlanInv, phase \notin PlanPhases
    PROVE  /\ NPartitions \in Nat \ {0} /\ ExecPartitions \in Nat \ {0} /\ WindowTarget \in Nat
           /\ ScanCeiling \in Nat /\ BatchSize \in Nat
           /\ Distributed => query.tasks \in Nat /\ NPartitions = query.tasks * ExecPartitions
           /\ ~Distributed => NPartitions = ExecPartitions
           /\ ExecPartitions * Max2(1, WindowTarget)
                 <= Max2(ScanCeiling, ExecPartitions * Max2(1, BatchSize))
  <1> DEFINE L == Len(specs)
             E == ExecPartitions
  <1>1. L \in Nat /\ query.tasks \in Nat
    BY SpecsLength, Geometry DEF PlanInv
  <1>2. NPartitions \in Nat \ {0} /\ NPartitions = Max2(1, L)
    BY <1>1 DEF NPartitions, Max2
  <1>3. ScanCeiling \in Nat /\ BatchSize \in Nat
    BY BoundsAssumption DEF ScanCeiling
  <1>4. /\ E \in Nat \ {0}
        /\ Distributed => NPartitions = query.tasks * E
        /\ ~Distributed => NPartitions = E
    <2>1. CASE Distributed
      <3>1. L >= 2 /\ query.tasks > 1
        BY <2>1 DEF Distributed
      <3>2. PICK k \in Nat : L = query.tasks * k
        BY <3>1 DEF PlanInv, SharesEven, PlanPhases
      <3>3. E = L \div query.tasks
        BY <2>1 DEF ExecPartitions
      <3> HIDE DEF L, E
      <3> DEFINE t == query.tasks
      <3>4. k * t <= L /\ L < (k + 1) * t /\ t \in Nat \ {0}
        BY <1>1, <3>1, <3>2
      <3>5. L \div t = k
        <4> HIDE DEF t
        <4> QED
          BY <1>1, <3>4, DivUnique
      <3>6. k # 0
        BY <1>1, <3>1, <3>2
      <3>7. NPartitions = L
        BY <1>1, <1>2, <3>1 DEF Max2
      <3> QED
        BY <2>1, <3>2, <3>3, <3>5, <3>6, <3>7
    <2>2. CASE ~Distributed
      BY <1>2, <2>2 DEF ExecPartitions
    <2> QED
      BY <2>1, <2>2
  <1> DEFINE d == ScanCeiling \div E
  <1> HIDE DEF L, E
  <1>5. d \in Nat /\ d * E <= ScanCeiling
    BY <1>3, <1>4, DivFacts
  <1>6. WindowTarget = Max2(d, BatchSize)
    BY DEF WindowTarget, E
  <1> HIDE DEF d
  <1>7. WindowTarget \in Nat
    BY <1>3, <1>5, <1>6 DEF Max2
  <1>8. E * Max2(1, WindowTarget) <= Max2(ScanCeiling, E * Max2(1, BatchSize))
    <2> DEFINE b == Max2(1, BatchSize)
               w == Max2(1, WindowTarget)
    <2>1. b \in Nat /\ w \in Nat /\ (w = b \/ w = d)
      BY <1>3, <1>5, <1>6 DEF Max2
    <2> HIDE DEF b, w
    <2>2. E * w \in Nat /\ E * b \in Nat /\ d * E = E * d
      BY <1>4, <1>5, <2>1
    <2>3. ASSUME w = b PROVE E * w <= Max2(ScanCeiling, E * b)
      BY <1>3, <2>2, <2>3 DEF Max2
    <2>4. ASSUME w = d PROVE E * w <= Max2(ScanCeiling, E * b)
      <3>1. E * w <= ScanCeiling
        BY <1>5, <2>2, <2>4
      <3> QED
        BY <1>3, <2>2, <3>1 DEF Max2
    <2>5. E * w <= Max2(ScanCeiling, E * b)
      BY <2>1, <2>3, <2>4
    <2> QED
      BY <2>5 DEF b, w
  <1> QED
    BY <1>1, <1>2, <1>3, <1>4, <1>7, <1>8 DEF E

\* The selections, sizes and tiles of a partition.
LEMMA PartitionTyped ==
    ASSUME PlanInv, phase \notin PlanPhases, ~MatchesNothing, NEW p \in 1 .. NPartitions
    PROVE  LET n == Len(Dims(query)) IN
           /\ n \in Nat \ {0}
           /\ EffectiveSels(p) \in [1 .. n -> Sels]
           /\ \A j \in 1 .. n : EffectiveSels(p)[j] = ReaderSelection(p, Dims(query)[j])
           /\ QuerySizes(p) \in [1 .. n -> Nat]
           /\ \A j \in 1 .. n : QuerySizes(p)[j] = SelLen(ReaderSelection(p,
                     IF n < Len(query.sizes) THEN Dims(query)[j] ELSE j))
           /\ Alignment(p) \in [1 .. n -> Nat \ {0}]
           /\ ~PlanDividesByZero(p) =>
                 /\ WindowTiles(p) \in [1 .. n -> Nat]
                 /\ \A j \in 1 .. n : WindowTiles(p)[j] <= PlanStreaming(QuerySizes(p), WindowTarget)[j]
  <1> DEFINE n == Len(Dims(query))
             d == Dims(query)
  <1>1. query \in Queries
    BY DEF PlanInv
  <1>2. /\ n \in Nat \ {0} /\ DOMAIN d = 1 .. n /\ d \in [1 .. n -> Axes(query)]
        /\ Axes(query) = 1 .. Len(query.sizes) /\ Len(query.sizes) \in Nat /\ n <= Len(query.sizes)
    BY <1>1, DimsFacts
  <1>3. \A a \in Axes(query) : CoordRanges(p)[a] = ReaderSelection(p, a)
    BY DEF CoordRanges
  <1>4. \A a \in Axes(query) : ReaderSelection(p, a) \in Sels
    BY ReaderSelTyped
  <1>5. EffectiveSels(p) = [j \in 1 .. n |-> ReaderSelection(p, d[j])]
    <2>1. EffectiveSels(p) = [j \in 1 .. n |-> CoordRanges(p)[d[j]]]
      BY <1>2 DEF EffectiveSels
    <2> HIDE DEF n, d
    <2> QED
      BY <1>2, <1>3, <2>1
  <1>6. EffectiveSels(p) \in [1 .. n -> Sels] /\ \A j \in 1 .. n : EffectiveSels(p)[j] = ReaderSelection(p, d[j])
    <2> HIDE DEF n, d
    <2> QED
      BY <1>2, <1>4, <1>5
  <1> DEFINE C(j) == IF n < Len(query.sizes) THEN d[j] ELSE j
  <1>7. QuerySizes(p) = [j \in 1 .. n |-> SelLen(CoordRanges(p)[C(j)])]
    BY <1>2 DEF QuerySizes
  <1> HIDE DEF n, d
  <1>8. \A j \in 1 .. n : C(j) \in Axes(query)
    BY <1>2
  <1>9. ASSUME NEW j \in 1 .. n
        PROVE  QuerySizes(p)[j] = SelLen(ReaderSelection(p, C(j))) /\ QuerySizes(p)[j] \in Nat
    <2> HIDE DEF C
    <2>1. QuerySizes(p)[j] = SelLen(ReaderSelection(p, C(j)))
      BY <1>3, <1>7, <1>8
    <2>2. ReaderSelection(p, C(j)) \in Sels
      BY <1>4, <1>8
    <2>3. SelLen(ReaderSelection(p, C(j))) \in Nat
      BY <2>2, SelFacts DEF Sels
    <2> QED
      BY <2>1, <2>3
  <1>10. QuerySizes(p) \in [1 .. n -> Nat]
    <2>1. QuerySizes(p) = [j \in 1 .. n |-> QuerySizes(p)[j]]
      BY <1>7
    <2> QED
      BY <1>9, <2>1
  <1>11. Alignment(p) \in [1 .. n -> Nat \ {0}]
    <2>1. Alignment(p) = [j \in 1 .. n |-> Min2(Max2(1, VarChunks(query)[j]), Max2(1, QuerySizes(p)[j]))]
      BY <1>2 DEF Alignment, d
    <2>2. ASSUME NEW j \in 1 .. n PROVE VarChunks(query)[j] \in Nat
      <3>1. VarChunks(query)[j] = query.chunks[d[j]]
        BY <1>2 DEF VarChunks, d
      <3>2. d[j] \in Axes(query)
        BY <1>2
      <3> QED
        BY <1>1, <3>1, <3>2, Geometry
    <2>3. ASSUME NEW j \in 1 .. n
          PROVE Min2(Max2(1, VarChunks(query)[j]), Max2(1, QuerySizes(p)[j])) \in Nat \ {0}
      BY <1>9, <2>2 DEF Min2, Max2
    <2> QED
      BY <2>1, <2>3
  <1>12. ASSUME ~PlanDividesByZero(p)
         PROVE  /\ WindowTiles(p) \in [1 .. n -> Nat]
                /\ \A j \in 1 .. n : WindowTiles(p)[j] <= PlanStreaming(QuerySizes(p), WindowTarget)[j]
    <2>1. WindowTarget \in Nat
      BY ExecFacts
    <2>2. ProductAfter(QuerySizes(p), Pivot(QuerySizes(p), Max2(1, WindowTarget))) # 0
      BY <1>12 DEF PlanDividesByZero
    <2> QED
      BY <1>2, <1>10, <1>11, <2>1, <2>2, TilesTyped DEF WindowTiles
  <1> QED
    BY <1>2, <1>6, <1>9, <1>10, <1>11, <1>12 DEF n, d

\* The columns of a tile have the product of its window lengths.
LEMMA CoordRowsLen ==
    ASSUME NEW n \in Nat, NEW windows, DOMAIN windows = 1 .. n,
           \A a \in 1 .. n : SelLen(windows[a].sel) \in Nat, NEW coords
    PROVE  LET sizes == [a \in 1 .. n |-> SelLen(windows[a].sel)]
           IN /\ Product(sizes) \in Nat
              /\ DOMAIN CoordRows(coords, windows) = 1 .. Product(sizes)
              /\ Len(CoordRows(coords, windows)) = Product(sizes)
  <1> DEFINE sizes == [a \in 1 .. n |-> SelLen(windows[a].sel)]
             N == Product(sizes)
             R == CoordRows(coords, windows)
  <1>1. sizes \in [1 .. n -> Nat]
    OBVIOUS
  <1>2. N \in Nat
    <2> HIDE DEF sizes
    <2>0. 0 \in 0 .. n
      OBVIOUS
    <2>1. ProductAfter(sizes, 0) \in Nat /\ N = ProductAfter(sizes, 0)
      BY <1>1, <2>0, ProductFacts
    <2> QED
      BY <2>1
  <1>3. DOMAIN R = 1 .. N /\ R = [k \in 1 .. N |-> R[k]]
    BY DEF CoordRows
  <1> DEFINE S == {R[k] : k \in 1 .. N}
  <1>4. R \in [1 .. N -> S]
    <2> HIDE DEF R, N
    <2> QED
      BY <1>3
  <1>5. Len(R) = N
    <2> HIDE DEF R, N, S
    <2> QED
      BY <1>2, <1>4, FunIsSeq
  <1> QED
    BY <1>2, <1>3, <1>5

-----------------------------------------------------------------------------
(* The streams. *)

\* A stream as its partition's selections and tiles make it: on a tile of its
\* grid, with at most cap rows pending.
StreamOK(s, sels, tiles, n, cap) ==
    /\ s = [state |-> s.state, grid |-> s.grid, emitted |-> s.emitted, pending |-> s.pending]
    /\ s.state \in {"closed", "open", "done"} /\ s.emitted \in Nat
    /\ (\E S : s.pending \in Seq(S)) /\ (s.pending = <<>> \/ Len(s.pending) <= cap)
    /\ s.state = "closed" => s.emitted = 0
    /\ s.state # "open" => s.pending = <<>>
    /\ s.state = "open" => GridOK(s.grid, sels, tiles, n)

\* Stream p is; it has a grid only if there is something to read.
StreamTyped(p) ==
    /\ StreamOK(streams[p], EffectiveSels(p), WindowTiles(p), Len(Dims(query)), Max2(1, WindowTarget))
    /\ streams[p].state = "open" => ~MatchesNothing /\ ~PlanDividesByZero(p)

\* The inductive invariant of the execution, whatever the query.
ScanInv ==
    /\ PlanInv
    /\ phase \in PlanPhases \cup {"scan", "done", "failed", "divided_by_zero", "unexpanded"}
    /\ phase \in PlanPhases => streams = <<>> /\ fetched = 0 /\ delivered = EmptyBag
    /\ phase \notin PlanPhases =>
          /\ streams = [p \in 1 .. NPartitions |-> streams[p]]
          /\ \A p \in 1 .. NPartitions : StreamTyped(p)
    /\ fetched \in Nat /\ IsABag(delivered)

\* What a partition reads does not change while it is read.
LEMMA SameContext ==
    ASSUME query' = query, specs' = specs
    PROVE  /\ NPartitions' = NPartitions /\ WindowTarget' = WindowTarget
           /\ ExecPartitions' = ExecPartitions /\ ScanCeiling' = ScanCeiling /\ Distributed' = Distributed
           /\ MatchesNothing' = MatchesNothing
           /\ \A p : /\ EffectiveSels(p)' = EffectiveSels(p)
                     /\ WindowTiles(p)' = WindowTiles(p)
                     /\ PlanDividesByZero(p)' = PlanDividesByZero(p)
  <1>1. /\ NPartitions' = NPartitions /\ Distributed' = Distributed /\ ReaderSpecs' = ReaderSpecs
    BY DEF NPartitions, Distributed, ReaderSpecs
  <1>2. ExecPartitions' = ExecPartitions /\ ScanCeiling' = ScanCeiling
    BY <1>1 DEF ExecPartitions, ScanCeiling
  <1>3. WindowTarget' = WindowTarget
    BY <1>2 DEF WindowTarget
  <1>4. ReaderFilters' = ReaderFilters
    BY <1>1 DEF ReaderFilters
  <1>5. MatchesNothing' = MatchesNothing
    BY <1>4 DEF MatchesNothing
  <1>6. ASSUME NEW p
        PROVE  /\ EffectiveSels(p)' = EffectiveSels(p) /\ WindowTiles(p)' = WindowTiles(p)
               /\ PlanDividesByZero(p)' = PlanDividesByZero(p)
    <2>1. \A a : ReaderSelection(p, a)' = ReaderSelection(p, a)
      BY <1>1, <1>4 DEF ReaderSelection
    <2>2. CoordRanges(p)' = CoordRanges(p)
      BY <2>1 DEF CoordRanges
    <2>3. EffectiveSels(p)' = EffectiveSels(p)
      BY <2>2 DEF EffectiveSels
    <2>4. QuerySizes(p)' = QuerySizes(p)
      BY <2>2 DEF QuerySizes
    <2>5. Alignment(p)' = Alignment(p)
      BY <2>4 DEF Alignment
    <2>6. WindowTiles(p)' = WindowTiles(p)
      BY <1>3, <2>4, <2>5 DEF WindowTiles
    <2>7. PlanDividesByZero(p)' = PlanDividesByZero(p)
      BY <1>3, <2>4 DEF PlanDividesByZero
    <2> QED
      BY <2>3, <2>6, <2>7
  <1> QED
    BY <1>1, <1>2, <1>3, <1>5, <1>6

\* A step of the execution leaves the plan as it is.
LEMMA PlanKept ==
    ASSUME PlanInv, UNCHANGED <<query, resolution, specs, scan_limit>>,
           phase \notin PlanPhases, phase' \notin PlanPhases
    PROVE  PlanInv'
  BY DEF PlanInv, SharesEven, PlanPhases

\* A step of one stream, or of none, keeps the others as they are.
LEMMA StreamStep ==
    ASSUME ScanInv, phase = "scan", UNCHANGED <<query, resolution, specs, scan_limit>>,
           phase' \in {"scan", "done", "failed", "divided_by_zero", "unexpanded"},
           NEW p \in 1 .. NPartitions,
           streams' = [streams EXCEPT ![p] = streams'[p]],
           StreamOK(streams'[p], EffectiveSels(p), WindowTiles(p), Len(Dims(query)), Max2(1, WindowTarget)),
           streams'[p].state = "open" => ~MatchesNothing /\ ~PlanDividesByZero(p),
           fetched' \in Nat, IsABag(delivered)'
    PROVE  ScanInv'
  <1>1. phase \notin PlanPhases /\ phase' \notin PlanPhases
    BY DEF PlanPhases
  <1>2. PlanInv'
    BY <1>1, PlanKept DEF ScanInv
  <1>3. streams = [r \in 1 .. NPartitions |-> streams[r]] /\ \A r \in 1 .. NPartitions : StreamTyped(r)
    BY <1>1 DEF ScanInv
  <1>4. /\ NPartitions' = NPartitions /\ WindowTarget' = WindowTarget /\ Dims(query)' = Dims(query)
        /\ MatchesNothing' = MatchesNothing
        /\ \A r : /\ EffectiveSels(r)' = EffectiveSels(r)
                  /\ WindowTiles(r)' = WindowTiles(r)
                  /\ PlanDividesByZero(r)' = PlanDividesByZero(r)
    BY SameContext
  <1>5. DOMAIN streams = 1 .. NPartitions
    BY <1>3
  <1>6. streams' = [r \in 1 .. NPartitions |-> streams'[r]] /\ \A r \in 1 .. NPartitions : r # p => streams'[r] = streams[r]
    BY <1>5
  <1>7. ASSUME NEW r \in 1 .. NPartitions PROVE StreamTyped(r)'
    <2>1. CASE r = p
      BY <1>4, <2>1 DEF StreamTyped
    <2>2. CASE r # p
      <3>1. StreamTyped(r) /\ streams'[r] = streams[r]
        BY <1>3, <1>6, <2>2
      <3> QED
        BY <1>4, <3>1 DEF StreamTyped
    <2> QED
      BY <2>1, <2>2
  <1> QED
    BY <1>1, <1>2, <1>4, <1>6, <1>7 DEF ScanInv

\* A step that leaves the streams as they are.
LEMMA NoStreamStep ==
    ASSUME ScanInv, phase \notin PlanPhases, UNCHANGED <<query, resolution, specs, scan_limit, streams, fetched, delivered>>,
           phase' \in {"scan", "done", "failed", "divided_by_zero", "unexpanded"}
    PROVE  ScanInv'
  <1>1. phase' \notin PlanPhases
    BY DEF PlanPhases
  <1>2. PlanInv'
    BY <1>1, PlanKept DEF ScanInv
  <1>3. streams = [r \in 1 .. NPartitions |-> streams[r]] /\ \A r \in 1 .. NPartitions : StreamTyped(r)
    BY DEF ScanInv
  <1>4. /\ NPartitions' = NPartitions /\ WindowTarget' = WindowTarget /\ Dims(query)' = Dims(query)
        /\ MatchesNothing' = MatchesNothing
        /\ \A r : /\ EffectiveSels(r)' = EffectiveSels(r)
                  /\ WindowTiles(r)' = WindowTiles(r)
                  /\ PlanDividesByZero(r)' = PlanDividesByZero(r)
    BY SameContext
  <1>5. ASSUME NEW r \in 1 .. NPartitions PROVE StreamTyped(r)'
    BY <1>3, <1>4 DEF StreamTyped
  <1>6. fetched' \in Nat /\ IsABag(delivered)'
    BY DEF ScanInv, IsABag
  <1>7. streams' = [r \in 1 .. NPartitions' |-> streams'[r]]
    BY <1>3, <1>4
  <1> QED
    BY <1>1, <1>2, <1>4, <1>5, <1>6, <1>7 DEF ScanInv

\* The columns of the tile a stream stands on fit the target.
LEMMA TileFits ==
    ASSUME ScanInv, phase = "scan", NEW p \in 1 .. NPartitions, streams[p].state = "open"
    PROVE  /\ Len(TileCoords(p)) \in Nat /\ Len(TileCoords(p)) <= Max2(1, WindowTarget)
           /\ DOMAIN TileCoords(p) = 1 .. Len(TileCoords(p))
  <1> DEFINE n == Len(Dims(query))
             g == streams[p].grid
             tile == CurrentTile(g)
             sizes == [a \in 1 .. n |-> SelLen(tile[a].sel)]
  <1>1. PlanInv /\ phase \notin PlanPhases /\ StreamTyped(p)
    BY DEF ScanInv, PlanPhases
  <1>2. ~MatchesNothing /\ ~PlanDividesByZero(p) /\ GridOK(g, EffectiveSels(p), WindowTiles(p), n)
    BY <1>1 DEF StreamTyped, StreamOK
  <1>3. /\ n \in Nat \ {0} /\ EffectiveSels(p) \in [1 .. n -> Sels] /\ QuerySizes(p) \in [1 .. n -> Nat]
        /\ WindowTiles(p) \in [1 .. n -> Nat]
        /\ \A j \in 1 .. n : WindowTiles(p)[j] <= PlanStreaming(QuerySizes(p), WindowTarget)[j]
        /\ Alignment(p) \in [1 .. n -> Nat \ {0}]
    BY <1>1, <1>2, PartitionTyped
  <1>4. WindowTarget \in Nat
    BY <1>1, ExecFacts
  <1>5. ProductAfter(QuerySizes(p), Pivot(QuerySizes(p), Max2(1, WindowTarget))) # 0
    BY <1>2 DEF PlanDividesByZero
  <1>6. PlanStreaming(QuerySizes(p), WindowTarget) \in [1 .. n -> Nat]
    <2> HIDE DEF n
    <2> QED
      BY <1>3, <1>4, <1>5, TilesTyped
  <1>7. /\ DOMAIN tile = 1 .. n
        /\ \A a \in 1 .. n : SelLen(tile[a].sel) \in Nat /\ SelLen(tile[a].sel) <= Max2(1, WindowTiles(p)[a])
    <2> HIDE DEF n, g
    <2>1. n \in Nat
      BY <1>3
    <2> QED
      BY <1>2, <1>3, <2>1, TileFacts DEF IsWindow
  <1> HIDE DEF n, g, tile
  <1>8. /\ Product(sizes) \in Nat
        /\ DOMAIN CoordRows(FilteredCoords(p), tile) = 1 .. Product(sizes)
        /\ Len(CoordRows(FilteredCoords(p), tile)) = Product(sizes)
    <2>1. n \in Nat
      BY <1>3
    <2> QED
      BY <1>7, <2>1, CoordRowsLen
  <1>9. \A i \in 1 .. n : sizes[i] <= Max2(1, PlanStreaming(QuerySizes(p), WindowTarget)[i])
    <2> SUFFICES ASSUME NEW i \in 1 .. n
                 PROVE  SelLen(tile[i].sel) <= Max2(1, PlanStreaming(QuerySizes(p), WindowTarget)[i])
      OBVIOUS
    <2> DEFINE x == SelLen(tile[i].sel)
               y == WindowTiles(p)[i]
               z == PlanStreaming(QuerySizes(p), WindowTarget)[i]
    <2>1. x \in Nat /\ y \in Nat /\ z \in Nat /\ x <= Max2(1, y) /\ y <= z
      BY <1>3, <1>6, <1>7
    <2> HIDE DEF x, y, z
    <2>2. x <= Max2(1, z)
      BY <2>1 DEF Max2
    <2> QED
      BY <2>2 DEF x, z
  <1>10. sizes \in [1 .. n -> Nat]
    BY <1>7
  <1>11. Product(sizes) <= Max2(1, WindowTarget)
    <2> HIDE DEF sizes
    <2> QED
      BY <1>3, <1>4, <1>5, <1>9, <1>10, WindowBound
  <1>12. TileCoords(p) = CoordRows(FilteredCoords(p), tile)
    BY DEF TileCoords, tile, g
  <1> QED
    BY <1>8, <1>11, <1>12

\* The rows a stream queues.
LEMMA RowsFit ==
    ASSUME ScanInv, phase = "scan", NEW p \in 1 .. NPartitions, HasWindow(p)
    PROVE  /\ \E S : TileRows(p) \in Seq(S)
           /\ Len(TileRows(p)) \in Nat /\ Len(TileRows(p)) <= Max2(1, WindowTarget)
           /\ Len(TileRows(p)) = IF scan_limit = NoLimit THEN Len(TileCoords(p))
                                 ELSE Min2(scan_limit - streams[p].emitted, Len(TileCoords(p)))
           /\ \A k \in 1 .. Len(TileRows(p)) : TileRows(p)[k] = <<TileCoords(p)[k], TileValues(p)[k]>>
           /\ DOMAIN TileRows(p) = 1 .. Len(TileRows(p))
  <1> DEFINE L == Len(TileCoords(p))
             e == streams[p].emitted
             owed == IF scan_limit = NoLimit THEN L ELSE Min2(scan_limit - e, L)
             F(k) == <<TileCoords(p)[k], TileValues(p)[k]>>
             S == {F(k) : k \in 1 .. owed}
             R == TileRows(p)
  <1>1. streams[p].state = "open" /\ ~LimitReached(streams[p])
    BY DEF HasWindow, NeedsWindow
  <1>2. L \in Nat /\ L <= Max2(1, WindowTarget)
    BY <1>1, TileFits
  <1>3. phase \notin PlanPhases /\ e \in Nat
    BY DEF ScanInv, PlanPhases, StreamTyped, StreamOK
  <1>w. WindowTarget \in Nat
    BY <1>3, ExecFacts DEF ScanInv
  <1>4. scan_limit \in Nat \cup {NoLimit}
    BY DEF ScanInv, PlanInv
  <1>5. owed \in Nat /\ owed <= L
    <2> HIDE DEF L, e
    <2>1. CASE scan_limit = NoLimit
      BY <1>2, <2>1
    <2>2. CASE scan_limit # NoLimit
      <3>1. scan_limit \in Nat /\ ~(e >= scan_limit)
        BY <1>1, <1>4, <2>2 DEF LimitReached, e
      <3> QED
        BY <1>2, <1>3, <2>2, <3>1 DEF Min2
    <2> QED
      BY <2>1, <2>2
  <1>6. R = [k \in 1 .. owed |-> F(k)]
    BY DEF TileRows
  <1> HIDE DEF owed, R
  <1>7. R \in [1 .. owed -> S]
    BY <1>6
  <1> HIDE DEF S
  <1>8. R \in Seq(S) /\ Len(R) = owed /\ DOMAIN R = 1 .. owed
    BY <1>5, <1>7, FunIsSeq
  <1>9. owed <= Max2(1, WindowTarget)
    <2> HIDE DEF L
    <2> QED
      BY <1>2, <1>5, <1>w DEF Max2
  <1>10. \A k \in 1 .. owed : R[k] = F(k)
    BY <1>6
  <1> HIDE DEF F
  <1>11. /\ \E T : R \in Seq(T)
         /\ Len(R) \in Nat /\ Len(R) <= Max2(1, WindowTarget)
         /\ Len(R) = owed
         /\ \A k \in 1 .. Len(R) : R[k] = F(k)
         /\ DOMAIN R = 1 .. Len(R)
    BY <1>5, <1>8, <1>9, <1>10
  <1> QED
    BY <1>11 DEF R, owed, F

\* The rows of a slice that pass the filters and the LIMIT are among its rows.
LEMMA OutFacts ==
    ASSUME NEW S, NEW rows \in Seq(S), fetched \in Nat, query.limit \in Nat \cup {NoLimit}, ~FetchDone
    PROVE  /\ FilterBatch(rows) \in Seq(S) /\ Fetch(FilterBatch(rows)) \in Seq(S)
           /\ Len(Fetch(FilterBatch(rows))) \in Nat
  <1> DEFINE K == {k \in DOMAIN rows : PassesFilterExec(rows[k])}
             kept == Sorted(K)
             m == Cardinality(K)
             F == FilterBatch(rows)
  <1>1. DOMAIN rows = 1 .. Len(rows) /\ Len(rows) \in Nat
    OBVIOUS
  <1>2. K \subseteq Nat /\ IsFiniteSet(K)
    <2>1. IsFiniteSet(1 .. Len(rows))
      BY <1>1, FS_Interval
    <2> QED
      BY <1>1, <2>1, FS_Subset
  <1>3. m \in Nat /\ kept \in [1 .. m -> K]
    <2> HIDE DEF K
    <2> QED
      BY <1>2, SortedFacts
  <1>4. F = [i \in DOMAIN kept |-> rows[kept[i]]]
    BY DEF FilterBatch
  <1>5. \A k \in K : rows[k] \in S
    BY <1>1
  <1> HIDE DEF K, kept, m, F
  <1>6. F \in [1 .. m -> S]
    BY <1>3, <1>4, <1>5
  <1>7. F \in Seq(S) /\ Len(F) = m /\ DOMAIN F = 1 .. m
    BY <1>3, <1>6, FunIsSeq
  <1>8. CASE query.limit = NoLimit
    BY <1>3, <1>7, <1>8 DEF Fetch, F
  <1>9. CASE query.limit # NoLimit
    <2> DEFINE x == Min2(query.limit - fetched, m)
    <2>1. query.limit \in Nat /\ ~(fetched >= query.limit)
      BY <1>9 DEF FetchDone
    <2>2. x \in 0 .. m
      BY <1>3, <2>1 DEF Min2
    <2>3. Fetch(F) = SubSeq(F, 1, x)
      BY <1>7, <1>9 DEF Fetch
    <2> HIDE DEF x
    <2>4. \A i \in 1 .. x : F[i] \in S
      BY <1>3, <1>6, <2>2
    <2>5. SubSeq(F, 1, x) \in Seq(S)
      BY <1>3, <2>2, <2>4, SubSeqProperties
    <2> QED
      BY <1>7, <2>3, <2>5 DEF F
  <1> QED
    BY <1>8, <1>9

\* The rows of a sequence are a bag.
LEMMA BagOfFacts ==
    ASSUME NEW S, NEW rows \in Seq(S)
    PROVE  /\ IsABag(BagOf(rows)) /\ DOMAIN BagOf(rows) = Ran(rows)
           /\ \A r \in Ran(rows) : BagOf(rows)[r] = Cardinality({k \in DOMAIN rows : rows[k] = r})
  <1> DEFINE C(r) == {k \in DOMAIN rows : rows[k] = r}
  <1>1. BagOf(rows) = [r \in Ran(rows) |-> Cardinality(C(r))]
    BY DEF BagOf, Ran
  <1>2. ASSUME NEW r \in Ran(rows) PROVE Cardinality(C(r)) \in {n \in Nat : n > 0}
    <2>1. DOMAIN rows = 1 .. Len(rows) /\ Len(rows) \in Nat
      OBVIOUS
    <2>2. IsFiniteSet(C(r)) /\ C(r) # {}
      <3>1. IsFiniteSet(1 .. Len(rows))
        BY <2>1, FS_Interval
      <3>2. C(r) \in SUBSET (1 .. Len(rows))
        BY <2>1
      <3>3. C(r) # {}
        BY DEF Ran
      <3> HIDE DEF C
      <3> QED
        BY <3>1, <3>2, <3>3, FS_Subset
    <2>3. Cardinality(C(r)) \in Nat /\ Cardinality(C(r)) # 0
      <3> HIDE DEF C
      <3> QED
        BY <2>2, FS_CardinalityType, FS_EmptySet
    <2> QED
      BY <2>3
  <1> HIDE DEF C
  <1>3. DOMAIN BagOf(rows) = Ran(rows) /\ \A r \in Ran(rows) : BagOf(rows)[r] = Cardinality(C(r))
    BY <1>1
  <1>4. IsABag(BagOf(rows))
    BY <1>1, <1>2, <1>3 DEF IsABag
  <1> QED
    BY <1>3, <1>4 DEF C

\* Bags together are a bag.
LEMMA BagUnionTyped ==
    ASSUME NEW A, NEW B, IsABag(A), IsABag(B)
    PROVE  IsABag(A (+) B) /\ DOMAIN (A (+) B) = DOMAIN A \cup DOMAIN B
           /\ \A e \in DOMAIN A \cup DOMAIN B :
                 (A (+) B)[e] = (IF e \in DOMAIN A THEN A[e] ELSE 0) + (IF e \in DOMAIN B THEN B[e] ELSE 0)
  <1> DEFINE D == DOMAIN A \cup DOMAIN B
             F(e) == (IF e \in DOMAIN A THEN A[e] ELSE 0) + (IF e \in DOMAIN B THEN B[e] ELSE 0)
  <1>1. A (+) B = [e \in D |-> F(e)]
    BY DEF (+)
  <1>2. ASSUME NEW e \in D PROVE F(e) \in {n \in Nat : n > 0}
    <2>1. e \in DOMAIN A => A[e] \in {n \in Nat : n > 0}
      BY DEF IsABag
    <2>2. e \in DOMAIN B => B[e] \in {n \in Nat : n > 0}
      BY DEF IsABag
    <2> QED
      BY <2>1, <2>2
  <1> HIDE DEF F, D
  <1>3. DOMAIN (A (+) B) = D /\ \A e \in D : (A (+) B)[e] = F(e)
    BY <1>1
  <1>4. IsABag(A (+) B)
    BY <1>1, <1>2, <1>3 DEF IsABag
  <1> QED
    BY <1>3, <1>4 DEF F, D

\* The first state.
LEMMA ScanStarts ==
    ScanInit => ScanInv
  <1> SUFFICES ASSUME ScanInit PROVE ScanInv
    OBVIOUS
  <1>1. PlanInv
    BY PlanStarts DEF ScanInit
  <1>2. IsABag(EmptyBag)
    BY DEF IsABag, EmptyBag, SetToBag
  <1> QED
    BY <1>1, <1>2 DEF ScanInit, PlanInit, ScanInv, PlanPhases

\* Planning starts no stream.
LEMMA PlanningStep ==
    ASSUME ScanInv, Planning
    PROVE  ScanInv'
  <1>1. PlanInv'
    BY PlanSteps DEF ScanInv, Planning, PlanNext
  <1>2. phase \in PlanPhases /\ phase' \in PlanPhases /\ UNCHANGED <<streams, fetched, delivered>>
    BY DEF Planning, PlanScanPartitions, PushLimitToZarr, PlanPhases, execVars
  <1>3. fetched' \in Nat /\ IsABag(delivered)'
    BY <1>2 DEF ScanInv, IsABag
  <1> QED
    BY <1>1, <1>2, <1>3 DEF ScanInv

\* Every partition gets a stream.
LEMMA ExecuteStep ==
    ASSUME ScanInv, Execute
    PROVE  ScanInv'
  <1>1. PlanInv'
    BY PlanSteps DEF ScanInv, Execute, PlanNext
  <1>2. phase' = "scan" /\ UNCHANGED <<fetched, delivered>>
    BY DEF Execute, ScaleUpLeafNode
  <1>3. fetched' \in Nat /\ IsABag(delivered)'
    BY <1>2 DEF ScanInv, IsABag
  <1>4. streams' = [p \in 1 .. NPartitions' |-> Closed]
    BY DEF Execute, NPartitions
  <1>5. ASSUME NEW p \in 1 .. NPartitions' PROVE StreamTyped(p)'
    <2>1. streams'[p] = Closed
      BY <1>4
    <2>2. ASSUME NEW sels, NEW tiles, NEW n, NEW cap PROVE StreamOK(Closed, sels, tiles, n, cap)
      <3>1. <<>> \in Seq({})
        BY EmptySeq
      <3> QED
        BY <3>1 DEF StreamOK, Closed
    <2>3. Closed.state # "open"
      BY DEF Closed
    <2> QED
      BY <2>1, <2>2, <2>3 DEF StreamTyped
  <1>6. streams' = [p \in 1 .. NPartitions' |-> streams'[p]]
    BY <1>4
  <1> QED
    BY <1>1, <1>2, <1>3, <1>5, <1>6 DEF ScanInv, PlanPhases

\* What a poll may rely on.
LEMMA Polled ==
    ASSUME ScanInv, phase = "scan", NEW p \in DOMAIN streams
    PROVE  /\ p \in 1 .. NPartitions /\ DOMAIN streams = 1 .. NPartitions
           /\ PlanInv /\ phase \notin PlanPhases
           /\ StreamTyped(p)
           /\ StreamOK(streams[p], EffectiveSels(p), WindowTiles(p), Len(Dims(query)), Max2(1, WindowTarget))
  <1>1. phase \notin PlanPhases
    BY DEF PlanPhases
  <1>2. streams = [r \in 1 .. NPartitions |-> streams[r]] /\ \A r \in 1 .. NPartitions : StreamTyped(r)
    BY <1>1 DEF ScanInv
  <1>3. DOMAIN streams = 1 .. NPartitions
    BY <1>2
  <1> QED
    BY <1>1, <1>2, <1>3 DEF ScanInv, StreamTyped

\* A stream that ends.
LEMMA EndsStep ==
    ASSUME ScanInv, phase = "scan", NEW p \in DOMAIN streams, streams[p].pending = <<>>,
           streams' = [streams EXCEPT ![p].state = "done"],
           UNCHANGED <<query, phase, resolution, specs, scan_limit, fetched, delivered>>
    PROVE  ScanInv'
  <1> DEFINE s == streams[p]
  <1>1. /\ p \in 1 .. NPartitions /\ DOMAIN streams = 1 .. NPartitions
        /\ StreamOK(s, EffectiveSels(p), WindowTiles(p), Len(Dims(query)), Max2(1, WindowTarget))
    BY Polled
  <1>2. s = [state |-> s.state, grid |-> s.grid, emitted |-> s.emitted, pending |-> s.pending] /\ s.emitted \in Nat
    BY <1>1 DEF StreamOK
  <1>3. streams'[p] = [s EXCEPT !.state = "done"]
    BY <1>1
  <1>4. streams'[p] = [state |-> "done", grid |-> s.grid, emitted |-> s.emitted, pending |-> <<>>]
    <2> DEFINE e == s.emitted
               g == s.grid
               t == s.state
    <2> HIDE DEF e, g, t
    <2>1. s = [state |-> t, grid |-> g, emitted |-> e, pending |-> <<>>]
      BY <1>2 DEF e, g, t
    <2> HIDE DEF s
    <2>2. streams'[p] = [state |-> "done", grid |-> g, emitted |-> e, pending |-> <<>>]
      BY <1>3, <2>1
    <2> QED
      BY <2>2 DEF e, g
  <1>5. streams' = [streams EXCEPT ![p] = streams'[p]]
    BY <1>1
  <1> HIDE DEF s
  <1>6. /\ StreamOK(streams'[p], EffectiveSels(p), WindowTiles(p), Len(Dims(query)), Max2(1, WindowTarget))
        /\ streams'[p].state # "open"
    <2>1. <<>> \in Seq({})
      BY EmptySeq
    <2> QED
      BY <1>2, <1>4, <2>1 DEF StreamOK
  <1>7. fetched' \in Nat /\ IsABag(delivered)'
    BY DEF ScanInv, IsABag
  <1> QED
    BY <1>1, <1>5, <1>6, <1>7, StreamStep

\* The tile grid is laid out.
LEMMA OpenTilesStep ==
    ASSUME ScanInv, NEW p \in DOMAIN streams, OpenTiles(p)
    PROVE  ScanInv'
  <1> DEFINE s == streams[p]
             g == TileGrid(EffectiveSels(p), WindowTiles(p))
             n == Len(Dims(query))
  <1>0. phase = "scan" /\ s.state = "closed" /\ ~MatchesNothing /\ ~PlanDividesByZero(p)
    BY DEF OpenTiles
  <1>1. /\ p \in 1 .. NPartitions /\ DOMAIN streams = 1 .. NPartitions /\ PlanInv /\ phase \notin PlanPhases
        /\ StreamOK(s, EffectiveSels(p), WindowTiles(p), n, Max2(1, WindowTarget))
    BY <1>0, Polled
  <1>2. /\ s = [state |-> s.state, grid |-> s.grid, emitted |-> s.emitted, pending |-> s.pending]
        /\ s.emitted \in Nat /\ s.pending = <<>>
    BY <1>0, <1>1 DEF StreamOK
  <1>3. UNCHANGED <<query, phase, resolution, specs, scan_limit, fetched, delivered>>
    BY DEF OpenTiles, planVars
  <1>4. streams'[p] = [s EXCEPT !.state = "open", !.grid = g] /\ streams' = [streams EXCEPT ![p] = streams'[p]]
    BY <1>1 DEF OpenTiles
  <1>5. GridOK(g, EffectiveSels(p), WindowTiles(p), n)
    <2>1. n \in Nat \ {0} /\ EffectiveSels(p) \in [1 .. n -> Sels] /\ WindowTiles(p) \in [1 .. n -> Nat]
      BY <1>0, <1>1, PartitionTyped
    <2> HIDE DEF n
    <2>2. n \in Nat
      BY <2>1
    <2> QED
      BY <2>1, <2>2, GridStarts
  <1> HIDE DEF g, n
  <1>6. streams'[p] = [state |-> "open", grid |-> g, emitted |-> s.emitted, pending |-> <<>>]
    <2> DEFINE e == s.emitted
               h == s.grid
               t == s.state
    <2> HIDE DEF e, h, t
    <2>1. s = [state |-> t, grid |-> h, emitted |-> e, pending |-> <<>>]
      BY <1>2 DEF e, h, t
    <2> HIDE DEF s
    <2>2. streams'[p] = [state |-> "open", grid |-> g, emitted |-> e, pending |-> <<>>]
      BY <1>4, <2>1
    <2> QED
      BY <2>2 DEF e
  <1> HIDE DEF s
  <1>7. StreamOK(streams'[p], EffectiveSels(p), WindowTiles(p), n, Max2(1, WindowTarget))
    <2>1. <<>> \in Seq({})
      BY EmptySeq
    <2> QED
      BY <1>2, <1>5, <1>6, <2>1 DEF StreamOK
  <1>8. fetched' \in Nat /\ IsABag(delivered)'
    BY <1>3 DEF ScanInv, IsABag
  <1> QED
    BY <1>0, <1>1, <1>3, <1>4, <1>7, <1>8, StreamStep DEF n

\* A window is built.
LEMMA NextWindowStep ==
    ASSUME ScanInv, NEW p \in DOMAIN streams, NextWindow(p)
    PROVE  ScanInv'
  <1> DEFINE s == streams[p]
             g == AdvanceGrid(s.grid)
             n == Len(Dims(query))
             rows == TileRows(p)
             e == s.emitted + Len(rows)
  <1>0. HasWindow(p) /\ phase = "scan" /\ s.state = "open"
    BY DEF NextWindow, HasWindow, NeedsWindow
  <1>1. /\ p \in 1 .. NPartitions /\ DOMAIN streams = 1 .. NPartitions /\ PlanInv /\ phase \notin PlanPhases
        /\ StreamOK(s, EffectiveSels(p), WindowTiles(p), n, Max2(1, WindowTarget)) /\ StreamTyped(p)
    BY <1>0, Polled
  <1>m. ~MatchesNothing /\ ~PlanDividesByZero(p)
    BY <1>0, <1>1 DEF StreamTyped
  <1>2. /\ s = [state |-> s.state, grid |-> s.grid, emitted |-> s.emitted, pending |-> s.pending]
        /\ s.emitted \in Nat /\ GridOK(s.grid, EffectiveSels(p), WindowTiles(p), n)
    BY <1>0, <1>1 DEF StreamOK
  <1>3. UNCHANGED <<query, phase, resolution, specs, scan_limit, fetched, delivered>>
    BY DEF NextWindow, planVars
  <1>4. /\ streams'[p] = [s EXCEPT !.grid = g, !.emitted = e, !.pending = rows]
        /\ streams' = [streams EXCEPT ![p] = streams'[p]]
    BY <1>1 DEF NextWindow
  <1>5. GridOK(g, EffectiveSels(p), WindowTiles(p), n)
    <2>1. n \in Nat \ {0} /\ EffectiveSels(p) \in [1 .. n -> Sels] /\ WindowTiles(p) \in [1 .. n -> Nat]
      BY <1>1, <1>m, PartitionTyped
    <2> DEFINE h == s.grid
    <2> HIDE DEF n, h
    <2>2. n \in Nat /\ GridOK(h, EffectiveSels(p), WindowTiles(p), n)
      BY <1>2, <2>1 DEF h
    <2>3. GridOK(AdvanceGrid(h), EffectiveSels(p), WindowTiles(p), n)
      BY <2>1, <2>2, GridAdvances
    <2> QED
      BY <2>3 DEF h
  <1>6. (\E S : rows \in Seq(S)) /\ Len(rows) \in Nat /\ Len(rows) <= Max2(1, WindowTarget)
    BY <1>0, <1>1, RowsFit
  <1>7. e \in Nat
    BY <1>2, <1>6
  <1> HIDE DEF g, n, rows, e
  <1>8. streams'[p] = [state |-> "open", grid |-> g, emitted |-> e, pending |-> rows]
    <2> DEFINE x == s.emitted
               h == s.grid
               t == s.pending
    <2> HIDE DEF x, h, t
    <2>1. s = [state |-> "open", grid |-> h, emitted |-> x, pending |-> t]
      BY <1>0, <1>2 DEF x, h, t
    <2> HIDE DEF s
    <2> QED
      BY <1>4, <2>1
  <1> HIDE DEF s
  <1>9. StreamOK(streams'[p], EffectiveSels(p), WindowTiles(p), n, Max2(1, WindowTarget))
    BY <1>5, <1>6, <1>7, <1>8 DEF StreamOK
  <1>10. fetched' \in Nat /\ IsABag(delivered)'
    BY <1>3 DEF ScanInv, IsABag
  <1> QED
    BY <1>0, <1>1, <1>3, <1>4, <1>m, <1>9, <1>10, StreamStep DEF n

\* The next slice of the rows left and what remains of them.
LEMMA SliceFacts ==
    ASSUME NEW S, NEW rows \in Seq(S), rows # <<>>
    PROVE  LET n == SliceToBatchSize(rows, BatchSize)
           IN /\ n \in 1 .. Len(rows) /\ Len(rows) \in Nat
              /\ SubSeq(rows, 1, n) \in Seq(S) /\ Len(SubSeq(rows, 1, n)) = n
              /\ \A i \in 1 .. n : SubSeq(rows, 1, n)[i] = rows[i]
              /\ SubSeq(rows, n + 1, Len(rows)) \in Seq(S)
              /\ Len(SubSeq(rows, n + 1, Len(rows))) = Len(rows) - n
              /\ \A i \in 1 .. Len(rows) - n : SubSeq(rows, n + 1, Len(rows))[i] = rows[n + i]
  <1> DEFINE n == SliceToBatchSize(rows, BatchSize)
             L == Len(rows)
  <1>1. L \in Nat \ {0} /\ \A i \in 1 .. L : rows[i] \in S
    BY EmptySeq
  <1>2. n \in 1 .. L
    BY <1>1, BoundsAssumption DEF SliceToBatchSize, Min2, Max2
  <1> HIDE DEF n, L
  <1>3. \A i \in 1 .. n : rows[i] \in S
    BY <1>1, <1>2
  <1>4. /\ SubSeq(rows, 1, n) \in Seq(S)
        /\ Len(SubSeq(rows, 1, n)) = IF 1 <= n THEN n - 1 + 1 ELSE 0
        /\ \A i \in 1 .. n - 1 + 1 : SubSeq(rows, 1, n)[i] = rows[1 + i - 1]
    <2>1. n \in Int /\ 1 \in Int
      BY <1>1, <1>2
    <2> QED
      BY <1>3, <2>1, SubSeqProperties
  <1>5. Len(SubSeq(rows, 1, n)) = n /\ \A i \in 1 .. n : SubSeq(rows, 1, n)[i] = rows[i]
    <2>1. n \in Nat \ {0}
      BY <1>1, <1>2
    <2>2. Len(SubSeq(rows, 1, n)) = n
      BY <1>4, <2>1
    <2>3. ASSUME NEW i \in 1 .. n PROVE SubSeq(rows, 1, n)[i] = rows[i]
      <3>1. i \in 1 .. n - 1 + 1 /\ 1 + i - 1 = i
        BY <2>1
      <3> QED
        BY <1>4, <3>1
    <2> QED
      BY <2>2, <2>3
  <1>6. \A i \in n + 1 .. L : rows[i] \in S
    BY <1>1, <1>2
  <1>7. /\ SubSeq(rows, n + 1, L) \in Seq(S)
        /\ Len(SubSeq(rows, n + 1, L)) = IF n + 1 <= L THEN L - (n + 1) + 1 ELSE 0
        /\ \A i \in 1 .. L - (n + 1) + 1 : SubSeq(rows, n + 1, L)[i] = rows[(n + 1) + i - 1]
    <2>1. n + 1 \in Int /\ L \in Int
      BY <1>1, <1>2
    <2> QED
      BY <1>6, <2>1, SubSeqProperties
  <1>8. Len(SubSeq(rows, n + 1, L)) = L - n /\ \A i \in 1 .. L - n : SubSeq(rows, n + 1, L)[i] = rows[n + i]
    <2>1. n \in Nat /\ L \in Nat /\ n <= L
      BY <1>1, <1>2
    <2>2. Len(SubSeq(rows, n + 1, L)) = L - n
      BY <1>7, <2>1
    <2>3. ASSUME NEW i \in 1 .. L - n PROVE SubSeq(rows, n + 1, L)[i] = rows[n + i]
      <3>1. i \in 1 .. L - (n + 1) + 1 /\ (n + 1) + i - 1 = n + i
        BY <2>1
      <3> QED
        BY <1>7, <3>1
    <2> QED
      BY <2>2, <2>3
  <1> QED
    BY <1>1, <1>2, <1>4, <1>5, <1>7, <1>8 DEF n, L

\* A slice is handed on.
LEMMA DeliverStep ==
    ASSUME ScanInv, NEW p \in DOMAIN streams, DeliverBatch(p)
    PROVE  ScanInv'
  <1> DEFINE s == streams[p]
             rows == s.pending
             c == SliceToBatchSize(rows, BatchSize)
             rest == SubSeq(rows, c + 1, Len(rows))
             out == Fetch(FilterBatch(SubSeq(rows, 1, c)))
             n == Len(Dims(query))
  <1>0. phase = "scan" /\ s.state = "open" /\ rows # <<>> /\ ~FetchDone
    BY DEF DeliverBatch
  <1>1. /\ p \in 1 .. NPartitions /\ DOMAIN streams = 1 .. NPartitions /\ PlanInv /\ phase \notin PlanPhases
        /\ StreamOK(s, EffectiveSels(p), WindowTiles(p), n, Max2(1, WindowTarget)) /\ StreamTyped(p)
    BY <1>0, Polled
  <1>m. ~MatchesNothing /\ ~PlanDividesByZero(p)
    BY <1>0, <1>1 DEF StreamTyped
  <1>2. /\ s = [state |-> s.state, grid |-> s.grid, emitted |-> s.emitted, pending |-> s.pending]
        /\ s.emitted \in Nat /\ GridOK(s.grid, EffectiveSels(p), WindowTiles(p), n)
        /\ Len(rows) <= Max2(1, WindowTarget)
    BY <1>0, <1>1 DEF StreamOK
  <1>3. UNCHANGED <<query, phase, resolution, specs, scan_limit>>
    BY DEF DeliverBatch, planVars
  <1>4. /\ streams'[p] = [s EXCEPT !.pending = rest] /\ streams' = [streams EXCEPT ![p] = streams'[p]]
    BY <1>1 DEF DeliverBatch
  <1>5. fetched' = fetched + Len(out) /\ delivered' = delivered (+) BagOf(out)
    BY DEF DeliverBatch
  <1>6. PICK S : rows \in Seq(S)
    BY <1>1 DEF StreamOK
  <1>7. /\ c \in 1 .. Len(rows) /\ Len(rows) \in Nat /\ SubSeq(rows, 1, c) \in Seq(S)
        /\ rest \in Seq(S) /\ Len(rest) = Len(rows) - c
    <2> HIDE DEF rows
    <2> QED
      BY <1>0, <1>6, SliceFacts
  <1>8. out \in Seq(S) /\ Len(out) \in Nat
    <2>1. fetched \in Nat /\ query.limit \in Nat \cup {NoLimit}
      BY <1>1, Geometry DEF ScanInv, PlanInv
    <2> DEFINE first == SubSeq(rows, 1, c)
    <2> HIDE DEF first
    <2>2. first \in Seq(S)
      BY <1>7 DEF first
    <2>3. Fetch(FilterBatch(first)) \in Seq(S) /\ Len(Fetch(FilterBatch(first))) \in Nat
      BY <1>0, <2>1, <2>2, OutFacts
    <2> QED
      BY <2>3 DEF first
  <1> HIDE DEF out, rest, c, n
  <1>9. fetched' \in Nat
    BY <1>5, <1>8 DEF ScanInv
  <1>10. IsABag(delivered)'
    <2>1. IsABag(delivered) /\ IsABag(BagOf(out))
      BY <1>8, BagOfFacts DEF ScanInv
    <2>2. IsABag(delivered (+) BagOf(out))
      BY <2>1, BagUnionTyped
    <2>3. IsABag(delivered')
      BY <1>5, <2>2
    <2> QED
      BY <2>3 DEF IsABag
  <1>11. streams'[p] = [state |-> "open", grid |-> s.grid, emitted |-> s.emitted, pending |-> rest]
    <2> DEFINE x == s.emitted
               h == s.grid
               t == s.pending
    <2> HIDE DEF x, h, t
    <2>1. s = [state |-> "open", grid |-> h, emitted |-> x, pending |-> t]
      BY <1>0, <1>2 DEF x, h, t
    <2>2. streams'[p] = [state |-> "open", grid |-> h, emitted |-> x, pending |-> rest]
      <3> HIDE DEF s
      <3> QED
        BY <1>4, <2>1
    <2> QED
      BY <2>2 DEF x, h
  <1>12. Len(rest) <= Max2(1, WindowTarget)
    <2>1. WindowTarget \in Nat
      BY <1>1, ExecFacts
    <2> QED
      BY <1>2, <1>7, <2>1 DEF Max2
  <1>13. StreamOK(streams'[p], EffectiveSels(p), WindowTiles(p), n, Max2(1, WindowTarget))
    <2> DEFINE x == s.emitted
               h == s.grid
    <2>1. x \in Nat /\ GridOK(h, EffectiveSels(p), WindowTiles(p), n)
      BY <1>2
    <2> HIDE DEF x, h
    <2>2. streams'[p] = [state |-> "open", grid |-> h, emitted |-> x, pending |-> rest]
      BY <1>11 DEF x, h
    <2> QED
      BY <1>7, <1>12, <2>1, <2>2 DEF StreamOK
  <1> QED
    BY <1>0, <1>1, <1>3, <1>4, <1>m, <1>9, <1>10, <1>13, StreamStep DEF n

\* Every step keeps the invariant.
LEMMA ScanSteps ==
    ASSUME ScanInv, [ScanNext]_vars
    PROVE  ScanInv'
  <1>1. CASE Planning
    BY <1>1, PlanningStep
  <1>2. CASE Execute
    BY <1>2, ExecuteStep
  <1>3. CASE Finish
    <2>1. phase = "scan" /\ phase' = "done" /\ UNCHANGED <<query, resolution, specs, scan_limit, streams, fetched, delivered>>
      BY <1>3 DEF Finish, execVars
    <2>2. phase \notin PlanPhases
      BY <2>1 DEF PlanPhases
    <2> QED
      BY <2>1, <2>2, NoStreamStep
  <1>4. ASSUME NEW p \in DOMAIN streams, PollStream(p) PROVE ScanInv'
    <2>1. CASE EndStream(p)
      <3>1. /\ phase = "scan" /\ streams[p].pending = <<>> /\ streams' = [streams EXCEPT ![p].state = "done"]
            /\ UNCHANGED <<query, phase, resolution, specs, scan_limit, fetched, delivered>>
        BY <2>1 DEF EndStream, NeedsWindow, planVars
      <3> QED
        BY <3>1, EndsStep
    <2>2. CASE DeliverBatch(p)
      BY <2>2, DeliverStep
    <2>3. CASE OpenEmpty(p)
      <3>1. /\ phase = "scan" /\ streams[p].state = "closed" /\ streams' = [streams EXCEPT ![p].state = "done"]
            /\ UNCHANGED <<query, phase, resolution, specs, scan_limit, fetched, delivered>>
        BY <2>3 DEF OpenEmpty, planVars
      <3>2. streams[p].pending = <<>>
        BY <3>1, Polled DEF StreamOK
      <3> QED
        BY <3>1, <3>2, EndsStep
    <2>4. CASE OpenTiles(p)
      BY <2>4, OpenTilesStep
    <2>5. CASE NextWindow(p)
      BY <2>5, NextWindowStep
    <2>6. CASE OpenPanics(p) \/ WindowPanics(p) \/ WindowFails(p)
      <3>1. /\ phase = "scan" /\ phase' \in {"divided_by_zero", "unexpanded", "failed"}
            /\ UNCHANGED <<query, resolution, specs, scan_limit, streams, fetched, delivered>>
        BY <2>6 DEF OpenPanics, WindowPanics, WindowFails, HasWindow, NeedsWindow, execVars
      <3>2. phase \notin PlanPhases
        BY <3>1 DEF PlanPhases
      <3> QED
        BY <3>1, <3>2, NoStreamStep
    <2> QED
      BY <1>4, <2>1, <2>2, <2>3, <2>4, <2>5, <2>6 DEF PollStream
  <1>5. ASSUME NEW p \in DOMAIN streams, StreamFails(p) PROVE ScanInv'
    <2>1. /\ phase = "scan" /\ phase' = "failed"
          /\ UNCHANGED <<query, resolution, specs, scan_limit, streams, fetched, delivered>>
      BY <1>5 DEF StreamFails, execVars
    <2>2. phase \notin PlanPhases
      BY <2>1 DEF PlanPhases
    <2> QED
      BY <2>1, <2>2, NoStreamStep
  <1>6. ASSUME UNCHANGED vars PROVE ScanInv'
    <2>1. UNCHANGED <<query, phase, resolution, specs, scan_limit, streams, fetched, delivered>>
      BY <1>6 DEF vars, planVars, execVars
    <2>2. CASE phase \in PlanPhases
      <3>1. PlanInv'
        BY <2>1 DEF ScanInv, PlanInv, SharesEven
      <3>2. IsABag(delivered)'
        BY <2>1 DEF ScanInv, IsABag
      <3> QED
        BY <2>1, <2>2, <3>1, <3>2 DEF ScanInv
    <2>3. CASE phase \notin PlanPhases
      <3>1. phase' \in {"scan", "done", "failed", "divided_by_zero", "unexpanded"}
        BY <2>1, <2>3 DEF ScanInv
      <3> QED
        BY <2>1, <2>3, <3>1, NoStreamStep
    <2> QED
      BY <2>2, <2>3
  <1>7. CASE Terminated
    BY <1>6, <1>7 DEF Terminated
  <1> QED
    BY <1>1, <1>2, <1>3, <1>4, <1>5, <1>6, <1>7 DEF ScanNext, Run

\* What the invariant says of the types.
LEMMA InvTyped ==
    ASSUME ScanInv
    PROVE  ScanTypeOK
  <1>1. PlanTypeOK
    BY CutTyped DEF ScanInv
  <1>2. Ended \/ phase \in {"plan", "planned", "optimized", "scan"}
    BY DEF ScanInv, PlanPhases, Ended
  <1>3. ASSUME NEW p \in DOMAIN streams
        PROVE  streams[p].state \in {"closed", "open", "done"} /\ streams[p].emitted \in Nat
    <2>1. phase \notin PlanPhases
      <3>1. streams # <<>>
        OBVIOUS
      <3> QED
        BY <3>1 DEF ScanInv
    <2>2. streams = [r \in 1 .. NPartitions |-> streams[r]] /\ \A r \in 1 .. NPartitions : StreamTyped(r)
      BY <2>1 DEF ScanInv
    <2>3. p \in 1 .. NPartitions
      BY <2>2
    <2> QED
      BY <2>2, <2>3 DEF StreamTyped, StreamOK
  <1> QED
    BY <1>1, <1>2, <1>3 DEF ScanTypeOK, ScanInv

\* The type invariant of a running scan.
THEOREM ScanTyped ==
    ScanSafety => []ScanTypeOK
  <1>1. ScanInit => ScanInv
    BY ScanStarts
  <1>2. ScanInv /\ [ScanNext]_vars => ScanInv'
    BY ScanSteps
  <1>3. ScanInv => ScanTypeOK
    BY InvTyped
  <1> QED
    BY <1>1, <1>2, <1>3, PTL DEF ScanSafety

\* What the invariant says of the windows.
LEMMA InvWindows ==
    ASSUME ScanInv
    PROVE  WindowsWithinCeiling
  <1> DEFINE E == ExecPartitions
             W == Max2(1, WindowTarget)
             Held(t) == [i \in 1 .. E |-> Len(streams[t * E + i].pending)]
             T == IF Distributed THEN query.tasks ELSE 1
  <1> SUFFICES ASSUME streams # <<>>, NEW t \in 0 .. T - 1
               PROVE  Total(Held(t)) <= Max2(ScanCeiling, E * Max2(1, BatchSize))
    BY DEF WindowsWithinCeiling
  <1>1. phase \notin PlanPhases /\ PlanInv
    BY DEF ScanInv
  <1>2. \A r \in 1 .. NPartitions : StreamTyped(r)
    BY <1>1 DEF ScanInv
  <1>3. /\ NPartitions \in Nat \ {0} /\ E \in Nat \ {0} /\ WindowTarget \in Nat
        /\ ScanCeiling \in Nat /\ BatchSize \in Nat
        /\ Distributed => query.tasks \in Nat /\ NPartitions = query.tasks * E
        /\ ~Distributed => NPartitions = E
        /\ E * W <= Max2(ScanCeiling, E * Max2(1, BatchSize))
    BY <1>1, ExecFacts
  <1>4. W \in Nat
    BY <1>3 DEF Max2
  <1> HIDE DEF E, W
  <1>5. T \in Nat /\ NPartitions = T * E
    BY <1>3
  <1> HIDE DEF T
  <1>6. ASSUME NEW i \in 1 .. E PROVE t * E + i \in 1 .. NPartitions
    <2>1. t \in Nat /\ t + 1 <= T /\ t + 1 \in Nat
      BY <1>5
    <2>2. (t + 1) * E <= T * E
      BY <1>3, <1>5, <2>1, MulMono
    <2> DEFINE x == t * E
    <2>3. x \in Nat /\ (t + 1) * E = x + E
      BY <1>3, <2>1
    <2> HIDE DEF x
    <2>4. x + E <= NPartitions
      BY <1>5, <2>2, <2>3
    <2>5. x + i \in 1 .. NPartitions
      BY <1>3, <2>3, <2>4
    <2> QED
      BY <2>5 DEF x
  <1>7. ASSUME NEW i \in 1 .. E
        PROVE Len(streams[t * E + i].pending) \in Nat /\ Len(streams[t * E + i].pending) <= W
    <2> DEFINE s == streams[t * E + i]
               q == t * E + i
    <2>1. q \in 1 .. NPartitions
      BY <1>6
    <2> HIDE DEF q
    <2>2. (\E S : streams[q].pending \in Seq(S)) /\ (streams[q].pending = <<>> \/ Len(streams[q].pending) <= W)
      BY <1>2, <2>1 DEF StreamTyped, StreamOK, W
    <2>3. Len(streams[q].pending) \in Nat /\ Len(streams[q].pending) <= W
      BY <1>4, <2>2
    <2> QED
      BY <2>3 DEF q
  <1>8. Held(t) \in [1 .. E -> Nat] /\ \A i \in 1 .. E : Held(t)[i] <= W
    BY <1>7
  <1>9. Total(Held(t)) \in Nat /\ Total(Held(t)) <= E * W
    <2> HIDE DEF Held
    <2>1. E \in Nat
      BY <1>3
    <2> QED
      BY <1>4, <1>8, <2>1, TotalBound
  <1> HIDE DEF Held
  <1> DEFINE a == Total(Held(t))
             b == E * W
             c == Max2(ScanCeiling, E * Max2(1, BatchSize))
  <1>10. a \in Nat /\ b \in Nat /\ c \in Nat /\ a <= b /\ b <= c
    <2>1. E * Max2(1, BatchSize) \in Nat
      BY <1>3 DEF Max2
    <2> QED
      BY <1>3, <1>4, <1>9, <2>1 DEF Max2
  <1> HIDE DEF a, b, c
  <1>11. a <= c
    BY <1>10
  <1> QED
    BY <1>11 DEF a, c

\* The windows of the partitions of one process stay within its memory ceiling.
THEOREM WindowsBounded ==
    ScanSafety => []WindowsWithinCeiling
  <1>1. ScanInit => ScanInv
    BY ScanStarts
  <1>2. ScanInv /\ [ScanNext]_vars => ScanInv'
    BY ScanSteps
  <1>3. ScanInv => WindowsWithinCeiling
    BY InvWindows
  <1> QED
    BY <1>1, <1>2, <1>3, PTL DEF ScanSafety

-----------------------------------------------------------------------------
(* Chunk reads. *)

\* A number of whole chunks.
LEMMA WholeChunks ==
    ASSUME NEW q \in Nat, NEW c \in Nat \ {0}
    PROVE  (q * c) \div c = q /\ (q # 0 => DivCeil(q * c, c) = q)
  <1>1. q * c \in Nat /\ (q + 1) * c = q * c + c
    OBVIOUS
  <1>2. (q * c) \div c = q
    <2> DEFINE x == q * c
    <2>1. x \in Nat /\ q * c <= x /\ x < (q + 1) * c
      BY <1>1
    <2> HIDE DEF x
    <2>2. x \div c = q
      BY <2>1, DivUnique
    <2> QED
      BY <2>2 DEF x
  <1>3. ASSUME q # 0 PROVE DivCeil(q * c, c) = q
    <2> DEFINE x == q * c + c - 1
    <2>1. x \in Nat /\ q * c <= x /\ x < (q + 1) * c
      BY <1>1
    <2> HIDE DEF x
    <2>2. x \div c = q
      BY <2>1, DivUnique
    <2> QED
      BY <2>2 DEF x, DivCeil
  <1> QED
    BY <1>2, <1>3

\* The quotient rounded up grows with what is divided.
LEMMA AboveChunks ==
    ASSUME NEW q \in Nat, NEW c \in Nat \ {0}, NEW e \in Nat \ {0}, q * c < e
    PROVE  DivCeil(e, c) \in Nat /\ q + 1 <= DivCeil(e, c)
  <1> DEFINE d == DivCeil(e, c)
  <1>1. d \in Nat /\ e <= d * c
    BY DivCeilFacts
  <1> HIDE DEF d
  <1>2. q * c < d * c
    <2>1. q * c \in Nat /\ d * c \in Nat
      BY <1>1
    <2> QED
      BY <1>1, <2>1
  <1>3. ~(d <= q)
    <2> SUFFICES ASSUME d <= q PROVE FALSE
      OBVIOUS
    <2>1. d * c <= q * c
      BY <1>1, MulMono
    <2> QED
      BY <1>1, <1>2, <2>1
  <1> QED
    BY <1>1, <1>3 DEF d

\* Tiles of whole chunks, or a single one, touch each chunk once.
LEMMA PairsOfAlignedTiles ==
    ASSUME NEW n \in Nat \ {0}, NEW t \in Nat \ {0}, NEW c \in Nat \ {0},
           t >= n \/ \E m \in Nat : t = m * c
    PROVE  TileChunkPairs(n, t, c) = DivCeil(n, c)
  <1> DEFINE M == DivCeil(n, t)
             End(k) == Min2((k - 1) * t + t, n)
             g == [k \in 0 .. M |-> IF k = 0 THEN 0 ELSE DivCeil(End(k), c)]
  <1>1. M \in Nat \ {0} /\ (M - 1) * t < n /\ n <= M * t
    BY DivCeilFacts
  <1> HIDE DEF M
  <1>2. ASSUME NEW k \in 1 .. M
        PROVE  (k - 1) * t \in Nat /\ (k - 1) * t < n /\ End(k) \in Nat \ {0} /\ (k - 1) * t < End(k)
    <2>1. k - 1 \in Nat /\ M - 1 \in Nat /\ k - 1 <= M - 1
      BY <1>1
    <2>2. (k - 1) * t <= (M - 1) * t
      BY <2>1, MulMono
    <2>3. (k - 1) * t \in Nat /\ (M - 1) * t \in Nat
      BY <2>1
    <2> QED
      BY <1>1, <2>2, <2>3 DEF Min2
  <1>3. ASSUME NEW k \in 1 .. M
        PROVE  /\ g[k] \in Nat /\ g[k - 1] \in Nat
               /\ g[k - 1] = ((k - 1) * t) \div c /\ g[k - 1] <= g[k]
    <2>1. k \in 0 .. M /\ k - 1 \in 0 .. M /\ k # 0
      BY <1>1
    <2>2. g[k] = DivCeil(End(k), c) /\ g[k] \in Nat
      BY <1>2, <2>1, DivCeilFacts
    <2>3. CASE k = 1
      <3>1. g[k - 1] = 0
        BY <2>1, <2>3
      <3>2. (k - 1) * t = 0 /\ 0 \div c = 0
        BY <2>3
      <3> HIDE DEF g
      <3> QED
        BY <2>2, <3>1, <3>2
    <2>4. CASE k # 1
      <3>1. k - 1 \in 1 .. M /\ k - 1 # 0
        BY <2>1, <2>4
      <3>2. g[k - 1] = DivCeil(End(k - 1), c)
        BY <2>1, <3>1
      <3>3. ((k - 1) - 1) * t + t = (k - 1) * t
        BY <3>1
      <3>4. End(k - 1) = (k - 1) * t
        BY <1>2, <3>3 DEF Min2
      <3>5. t <= (k - 1) * t
        BY <3>1, MulMono
      <3>6. PICK m \in Nat : t = m * c
        BY <1>2, <3>5
      <3>7. m # 0 /\ (k - 1) * m \in Nat /\ (k - 1) * m # 0 /\ (k - 1) * t = ((k - 1) * m) * c
        BY <3>1, <3>6
      <3> DEFINE q == (k - 1) * m
      <3>8. q \in Nat /\ q # 0 /\ (k - 1) * t = q * c
        BY <3>7
      <3> HIDE DEF q, g
      <3>9. g[k - 1] = q /\ ((k - 1) * t) \div c = q
        BY <3>2, <3>4, <3>8, WholeChunks
      <3>10. q + 1 <= DivCeil(End(k), c)
        <4>1. End(k) \in Nat \ {0} /\ q * c < End(k)
          BY <1>2, <3>8
        <4> HIDE DEF End
        <4> QED
          BY <3>8, <4>1, AboveChunks
      <3> QED
        BY <2>2, <3>8, <3>9, <3>10
    <2> QED
      BY <2>3, <2>4
  <1>4. g \in [0 .. M -> Nat]
    <2>1. g[0] = 0
      BY <1>1
    <2>2. ASSUME NEW k \in 0 .. M PROVE g[k] \in Nat
      <3>1. k = 0 \/ k \in 1 .. M
        BY <1>1
      <3> HIDE DEF g
      <3> QED
        BY <1>3, <2>1, <3>1
    <2>3. g = [k \in 0 .. M |-> g[k]]
      OBVIOUS
    <2> HIDE DEF g
    <2> QED
      BY <2>2, <2>3
  <1>5. g[0] = 0 /\ g[M] = DivCeil(n, c)
    <2>1. (M - 1) * t + t = M * t
      BY <1>1
    <2>2. End(M) = n
      BY <1>1, <2>1 DEF Min2
    <2> QED
      BY <1>1, <2>2
  <1>6. TileChunkPairs(n, t, c) = Total([k \in 1 .. M |-> g[k] - g[k - 1]])
    <2> DEFINE Pairs(k) == DivCeil(End(k), c) - ((k - 1) * t) \div c
    <2>1. TileChunkPairs(n, t, c) = Total([k \in 1 .. M |-> Pairs(k)])
      BY DEF TileChunkPairs, M
    <2>2. ASSUME NEW k \in 1 .. M PROVE Pairs(k) = g[k] - g[k - 1]
      <3>1. k \in 0 .. M /\ k # 0
        BY <1>1
      <3>2. g[k] = DivCeil(End(k), c)
        BY <3>1
      <3> HIDE DEF g, End
      <3> QED
        BY <1>3, <3>2
    <2>3. [k \in 1 .. M |-> Pairs(k)] = [k \in 1 .. M |-> g[k] - g[k - 1]]
      <3> HIDE DEF g, Pairs
      <3> QED
        BY <2>2
    <2> QED
      BY <2>1, <2>3
  <1> HIDE DEF g
  <1>7. Total([k \in 1 .. M |-> g[k] - g[k - 1]]) = g[M] - g[0]
    BY <1>1, <1>3, <1>4, Telescopes
  <1>8. g[M] \in Nat
    BY <1>1, <1>4
  <1> QED
    BY <1>5, <1>6, <1>7, <1>8

\* Tiles of whole chunks c, or a single one of an axis of k positions.
Aligned(t, k, c) == t \in Nat \ {0} /\ (t >= k \/ \E m \in Nat : t = m * c)

\* A tile of u positions as plan_streaming_chunked rounds it.
Rounded(u, k, c) ==
    LET d == Min2(Max2(1, c), Max2(1, k))
    IN IF u >= k \/ u <= 1 \/ d <= 1 \/ u < d THEN u ELSE Min2((u \div d) * d, k)

\* A planned tile that holds a chunk is the whole axis or whole chunks.
LEMMA AlignedTile ==
    ASSUME NEW u \in Nat, NEW k \in Nat \ {0}, NEW c \in Nat \ {0},
           Rounded(u, k, c) >= Min2(c, k)
    PROVE  Aligned(Rounded(u, k, c), k, c)
  <1> DEFINE t == Rounded(u, k, c)
             d == Min2(Max2(1, c), Max2(1, k))
  <1>3. d \in Nat \ {0}
    BY DEF Min2, Max2
  <1>7. d = Min2(Max2(1, c), Max2(1, k))
    OBVIOUS
  <1>2. t = IF u >= k \/ u <= 1 \/ d <= 1 \/ u < d THEN u ELSE Min2((u \div d) * d, k)
    BY DEF Rounded
  <1>8. t >= Min2(c, k)
    OBVIOUS
  <1> HIDE DEF t, d
  <1>1. u \in Nat /\ t \in Nat
    <2>1. u \div d \in Nat
      BY <1>3, DivFacts
    <2>2. (u \div d) * d \in Nat
      BY <1>3, <2>1
    <2> QED
      BY <1>2, <2>2 DEF Min2
  <1>4. d = Min2(c, k) /\ t >= d
    BY <1>3, <1>7, <1>8 DEF Min2, Max2
  <1>5. t # 0
    BY <1>1, <1>3, <1>4
  <1>6. t >= k \/ \E m \in Nat : t = m * c
    <2>1. CASE d = k
      BY <1>4, <2>1
    <2>2. CASE d # k
      <3>1. d = c
        BY <1>3, <1>4, <2>2 DEF Min2
      <3>2. CASE u >= k \/ u <= 1 \/ d <= 1 \/ u < d
        <4>1. t = u
          BY <1>2, <3>2
        <4>2. CASE u >= k
          BY <4>1, <4>2
        <4>3. CASE u <= 1 \/ d <= 1
          <5>1. c = 1
            BY <1>1, <1>3, <1>4, <3>1, <4>1, <4>3
          <5>2. t = t * c
            BY <1>1, <5>1
          <5>3. \E m \in Nat : t = m * c
            BY <1>1, <5>2
          <5> QED
            BY <5>3
        <4>4. CASE u < d
          BY <1>1, <1>3, <1>4, <4>1, <4>4
        <4> QED
          BY <3>2, <4>2, <4>3, <4>4
      <3>3. CASE ~(u >= k \/ u <= 1 \/ d <= 1 \/ u < d)
        <4>1. t = Min2((u \div d) * d, k)
          BY <1>2, <3>3
        <4>2. u \div d \in Nat
          BY <1>1, <1>3, DivFacts
        <4>3. t = k \/ t = (u \div d) * d
          BY <4>1 DEF Min2
        <4>4. CASE t = k
          BY <1>1, <1>3, <4>4
        <4>5. CASE t = (u \div d) * d
          <5> DEFINE m == u \div d
          <5>1. m \in Nat /\ t = m * c
            BY <3>1, <4>2, <4>5
          <5> HIDE DEF m
          <5> QED
            BY <5>1
        <4> QED
          BY <4>3, <4>4, <4>5
      <3> QED
        BY <3>2, <3>3
    <2> QED
      BY <2>1, <2>2
  <1> QED
    BY <1>1, <1>5, <1>6 DEF t, Aligned

\* What the invariant says of the chunks.
LEMMA InvChunks ==
    ASSUME ScanInv
    PROVE  ChunksReadOnce
  <1> SUFFICES ASSUME AxesMatchCoords, NEW p \in DOMAIN streams, streams[p].state = "open",
                      NEW j \in DOMAIN Dims(query),
                      ~IsIndices(EffectiveSels(p)[j]), SelLen(EffectiveSels(p)[j]) > 0,
                      VarChunks(query)[j] > 0,
                      WindowTiles(p)[j] >= Min2(VarChunks(query)[j], SelLen(EffectiveSels(p)[j]))
               PROVE  TileChunkPairs(SelLen(EffectiveSels(p)[j]), WindowTiles(p)[j], VarChunks(query)[j])
                         = DivCeil(SelLen(EffectiveSels(p)[j]), VarChunks(query)[j])
    BY DEF ChunksReadOnce
  <1> DEFINE n == Len(Dims(query))
             s == QuerySizes(p)
             c == VarChunks(query)[j]
  <1>1. PlanInv /\ phase \notin PlanPhases /\ p \in 1 .. NPartitions /\ query \in Queries
    <2>1. PlanInv /\ query \in Queries
      BY DEF ScanInv, PlanInv, PlanTypeOK
    <2>2. phase \notin PlanPhases
      <3> SUFFICES ASSUME phase \in PlanPhases PROVE FALSE
        OBVIOUS
      <3>1. DOMAIN streams = {}
        BY DEF ScanInv
      <3> QED
        BY <3>1
    <2>3. DOMAIN streams = 1 .. NPartitions
      BY <2>2 DEF ScanInv
    <2> QED
      BY <2>1, <2>2, <2>3
  <1>2. ~MatchesNothing /\ ~PlanDividesByZero(p)
    BY <1>1 DEF ScanInv, StreamTyped
  <1>3. /\ n \in Nat \ {0} /\ s \in [1 .. n -> Nat] /\ Alignment(p) \in [1 .. n -> Nat \ {0}]
        /\ EffectiveSels(p) \in [1 .. n -> Sels]
        /\ EffectiveSels(p)[j] = ReaderSelection(p, Dims(query)[j])
        /\ s[j] = SelLen(ReaderSelection(p, IF n < Len(query.sizes) THEN Dims(query)[j] ELSE j))
        /\ j \in 1 .. n /\ DOMAIN Dims(query) = 1 .. n
    <2>1. DOMAIN Dims(query) = 1 .. n
      BY <1>1, DimsFacts
    <2> QED
      BY <1>1, <1>2, <2>1, PartitionTyped
  <1>4. s[j] = SelLen(EffectiveSels(p)[j])
    <2>1. CASE n < Len(query.sizes)
      BY <1>3, <2>1
    <2>2. CASE ~(n < Len(query.sizes))
      <3>1. n = Len(query.sizes)
        <4>1. n <= Len(query.sizes) /\ Len(query.sizes) \in Nat
          BY <1>1, DimsFacts
        <4> HIDE DEF n
        <4> QED
          BY <1>3, <2>2, <4>1
      <3>2. Len(Shape(query)) = n
        <4>1. Shape(query) = [k \in 1 .. n |-> query.sizes[Dims(query)[k]]]
          BY <1>3 DEF Shape
        <4> HIDE DEF n
        <4> QED
          BY <1>3, <4>1
      <3>3. CoordOfAxis(query.sizes, Shape(query), j) = j
        BY <3>1, <3>2 DEF CoordOfAxis
      <3>4. Dims(query)[j] = j
        BY <1>3, <3>3 DEF AxesMatchCoords
      <3> QED
        BY <1>3, <3>4
    <2> QED
      BY <2>1, <2>2
  <1>5. c \in Nat \ {0}
    <2>1. query.chunks \in [Axes(query) -> Nat]
      BY <1>1, QueriesAssumption DEF QueryOK
    <2>2. Dims(query)[j] \in Axes(query)
      BY <1>1, <1>3, DimsFacts
    <2>3. c = query.chunks[Dims(query)[j]]
      BY <1>3 DEF VarChunks
    <2> QED
      BY <2>1, <2>2, <2>3
  <1>6. Alignment(p)[j] = Min2(Max2(1, c), Max2(1, s[j]))
    BY <1>3 DEF Alignment
  <1>7. ProductAfter(s, Pivot(s, Max2(1, WindowTarget))) # 0
    BY <1>2 DEF PlanDividesByZero
  <1>8. WindowTiles(p) = PlanStreamingChunked(s, WindowTarget, Alignment(p)) /\ WindowTarget \in Nat
    BY <1>1, ExecFacts DEF WindowTiles
  <1>9. s[j] \in Nat \ {0}
    BY <1>3, <1>4
  <1> DEFINE t == WindowTiles(p)[j]
  <1>10. t >= Min2(c, s[j])
    BY <1>4
  <1>11. t \in Nat \ {0} /\ (t >= s[j] \/ \E m \in Nat : t = m * c)
    <2> DEFINE u == PlanStreaming(s, WindowTarget)[j]
               d == Alignment(p)[j]
               k == s[j]
    <2>1. u \in Nat
      <3>1. PlanStreaming(s, WindowTarget) \in [1 .. n -> Nat]
        <4> HIDE DEF n, s
        <4> QED
          BY <1>3, <1>7, <1>8, TilesTyped
      <3> QED
        BY <1>3, <3>1
    <2>2. t = IF u >= k \/ u <= 1 \/ d <= 1 \/ u < d THEN u ELSE Min2((u \div d) * d, k)
      <3>1. DOMAIN s = 1 .. n
        BY <1>3
      <3> QED
        BY <1>3, <1>8, <3>1 DEF PlanStreamingChunked
    <2>3. k \in Nat \ {0} /\ t >= Min2(c, k)
      BY <1>9, <1>10
    <2>4. d = Min2(Max2(1, c), Max2(1, k))
      BY <1>6
    <2> HIDE DEF u, d, k, t, c
    <2>5. t = Rounded(u, k, c)
      BY <2>2, <2>4 DEF Rounded
    <2>6. Aligned(t, k, c)
      BY <1>5, <2>1, <2>3, <2>5, AlignedTile
    <2> QED
      BY <2>6 DEF k, Aligned
  <1> HIDE DEF t, s, c
  <1>12. TileChunkPairs(s[j], t, c) = DivCeil(s[j], c)
    BY <1>5, <1>9, <1>11, PairsOfAlignedTiles
  <1> QED
    BY <1>4, <1>12 DEF t, c

\* No partition reads a chunk twice.
THEOREM ChunksOnce ==
    ScanSafety => []ChunksReadOnce
  <1>1. ScanInit => ScanInv
    BY ScanStarts
  <1>2. ScanInv /\ [ScanNext]_vars => ScanInv'
    BY ScanSteps
  <1>3. ScanInv => ChunksReadOnce
    BY InvChunks
  <1> QED
    BY <1>1, <1>2, <1>3, PTL DEF ScanSafety

-----------------------------------------------------------------------------
(* What the streams of an answered query read. *)

\* A partition as the reader gets it: a slice of the outer axis, and ranges of
\* inner axes without a filter.
SpecRead(p) ==
    /\ specs[p].outer \in Kinds(query, resolution)
    /\ Members(specs[p].outer) \subseteq ToCover(query, resolution)
    /\ IdentifyOuterCoord(query) \notin DOMAIN specs[p].extra
    /\ \A a \in DOMAIN specs[p].extra : specs[p].extra[a] \in RangeSels /\ a \notin Filtered(query)

\* Where the outer axis is found by its name, no box is of the outer axis.
LEMMA SpecReadFacts ==
    ASSUME PlanInv, OuterIsNamed(query), NEW p \in 1 .. NPartitions, ReaderSpecs # <<>>
    PROVE  SpecRead(p)
  <1>1. p \in DOMAIN specs /\ specs # <<>>
    BY SpecOfPartition
  <1>2. PICK n \in Nat \ {0}, A \in SUBSET Splittable(query.vars[1], query.sizes, Filtered(query)) :
          SpecsCut(specs, n, ToCover(query, resolution), Max2(1, query.chunks[query.vars[1][1]]),
                   A, query.sizes, query.chunks, Kinds(query, resolution))
    BY <1>1, Unfold
  <1>3. p \in 1 .. n
    BY <1>1, <1>2 DEF SpecsCut
  <1>4. specs[p].outer \in Kinds(query, resolution) /\ Members(specs[p].outer) \subseteq ToCover(query, resolution)
    BY <1>2, <1>3 DEF SpecsCut
  <1>5. DOMAIN specs[p].extra \subseteq A
    <2>1. specs[p] = EmptySpec \/ DOMAIN specs[p].extra = A
      BY <1>2, <1>3 DEF SpecsCut
    <2> QED
      BY <2>1, EmptySpecFacts
  <1>6. query \in Queries
    BY DEF PlanInv
  <1>7. IdentifyOuterCoord(query) \notin A
    BY <1>6, Geometry DEF OuterIsNamed
  <1>8. \A a \in DOMAIN specs[p].extra : specs[p].extra[a] \in RangeSels
    BY <1>2, <1>3 DEF SpecsCut
  <1>9. \A a \in A : a \notin Filtered(query)
    BY DEF Splittable
  <1> QED
    BY <1>4, <1>5, <1>7, <1>8, <1>9 DEF SpecRead

\* The head has resolved the filter on the outer axis, or left it to the reader.
OuterResolved == ReaderSpecs = <<>> \/ resolution \in {"resolved", "empty"}

\* The selection on axis a is a list only where the filter gives one, and keeps to
\* the filter, on the outer axis if the filter has been resolved.
KeepsFilter(sel, a) ==
    /\ IsIndices(sel) => query.filter[a].form \notin {"none", "span"}
    /\ a \in Filtered(query) /\ (a # IdentifyOuterCoord(query) \/ OuterResolved)
          => Members(sel) \subseteq query.filter[a].keep

\* So does what the reader selects.
LEMMA ReaderKeeps ==
    ASSUME PlanInv, OuterIsNamed(query), ~MatchesNothing, NEW p \in 1 .. NPartitions, NEW a \in Axes(query)
    PROVE  KeepsFilter(ReaderSelection(p, a), a)
  <1>1. query \in Queries /\ QueryOK(query)
    BY QueriesAssumption DEF PlanInv
  <1>2. query.sizes[a] \in Nat
    BY <1>1, Geometry
  <1>0. \A sel \in RangeSels : ~IsIndices(sel)
    BY DEF RangeSels, IsIndices
  <1>3. CASE ReaderSpecs # <<>> /\ a \in DOMAIN specs[p].extra
    <2>1. ReaderSelection(p, a) = specs[p].extra[a]
      BY <1>3 DEF ReaderSelection
    <2>2. specs[p].extra[a] \in RangeSels /\ a \notin Filtered(query)
      BY <1>3, SpecReadFacts DEF SpecRead
    <2> QED
      BY <1>0, <2>1, <2>2 DEF KeepsFilter
  <1>4. CASE ReaderSpecs # <<>> /\ a \notin DOMAIN specs[p].extra /\ a = IdentifyOuterCoord(query)
    <2>1. ReaderSelection(p, a) = specs[p].outer
      BY <1>4 DEF ReaderSelection
    <2>2. specs[p].outer \in Kinds(query, resolution) /\ Members(specs[p].outer) \subseteq ToCover(query, resolution)
      BY <1>4, SpecReadFacts DEF SpecRead
    <2>3. IsIndices(specs[p].outer) => query.filter[a].form \notin {"none", "span"}
      BY <1>0, <1>4, <2>2 DEF Kinds
    <2>4. OuterResolved => Members(specs[p].outer) \subseteq query.filter[a].keep
      BY <1>4, <2>2 DEF OuterResolved, ToCover
    <2> QED
      BY <1>4, <2>1, <2>3, <2>4 DEF KeepsFilter
  <1>5. CASE ~(ReaderSpecs # <<>> /\ (a \in DOMAIN specs[p].extra \/ a = IdentifyOuterCoord(query)))
    <2> DEFINE f == query.filter[a]
    <2>1. /\ f.form \in {"none", "span", "list", "date"} /\ f.keep \subseteq 0 .. query.sizes[a] - 1
          /\ f.form = "span" => \A x, y \in f.keep : x .. y \subseteq f.keep
      BY <1>1 DEF QueryOK
    <2>2. CASE a \in ReaderFilters
      <3>1. ReaderSelection(p, a) = ResolveCoordSelection(f, query.sizes[a])
        BY <1>5, <2>2 DEF ReaderSelection
      <3>2. f.keep # {} /\ f.form # "none"
        BY <2>2 DEF MatchesNothing, ReaderFilters, Filtered
      <3>3. KeepsFilter(ResolveCoordSelection(f, query.sizes[a]), a)
         <=> /\ IsIndices(ResolveCoordSelection(f, query.sizes[a])) => f.form \notin {"none", "span"}
             /\ a \in Filtered(query) /\ (a # IdentifyOuterCoord(query) \/ OuterResolved)
                 => Members(ResolveCoordSelection(f, query.sizes[a])) \subseteq f.keep
        BY DEF KeepsFilter
      <3> HIDE DEF f
      <3>4. /\ f.form \in {"none", "span"} => ResolveCoordSelection(f, query.sizes[a]) \in RangeSels
            /\ Members(ResolveCoordSelection(f, query.sizes[a])) = f.keep
        BY <1>2, <2>1, <3>2, ResolvedSel
      <3> QED
        BY <1>0, <3>1, <3>3, <3>4
    <2>3. CASE a \notin ReaderFilters
      <3>1. ReaderSelection(p, a) = RangeSel(0, query.sizes[a])
        BY <1>5, <2>3 DEF ReaderSelection
      <3>2. ~IsIndices(RangeSel(0, query.sizes[a]))
        BY DEF RangeSel, IsIndices
      <3>3. ~(a \in Filtered(query) /\ (a # IdentifyOuterCoord(query) \/ OuterResolved))
        BY <1>5, <2>3 DEF ReaderFilters, OuterResolved
      <3> QED
        BY <3>1, <3>2, <3>3 DEF KeepsFilter
    <2> QED
      BY <2>2, <2>3
  <1> QED
    BY <1>3, <1>4, <1>5


\* The coordinates that are extracted are those of the selection.
LEMMA FilteredCoordsFacts ==
    ASSUME PlanInv, phase \notin PlanPhases, OuterIsNamed(query), ~MatchesNothing, NEW p \in 1 .. NPartitions,
           NEW j \in 1 .. Len(Dims(query))
    PROVE  FilteredCoords(p)[j] = Positions(EffectiveSels(p)[j])
  <1> DEFINE a == Dims(query)[j]
             sel == EffectiveSels(p)[j]
             len == query.sizes[a]
  <1>1. query \in Queries /\ QueryOK(query)
    BY QueriesAssumption DEF PlanInv
  <1>2. DOMAIN Dims(query) = 1 .. Len(Dims(query)) /\ a \in Axes(query)
    BY <1>1, DimsFacts
  <1>3. len \in Nat /\ query.coord_chunk \in Nat
    BY <1>1, <1>2, Geometry DEF QueryOK
  <1>4. sel = ReaderSelection(p, a)
    BY PartitionTyped
  <1>5. sel \in Sels /\ Members(sel) \subseteq 0 .. len - 1
    BY <1>2, <1>4, ReaderSelTyped
  <1>6. FilteredCoords(p)[j] = IF ReaderSpecs # <<>> /\ a = IdentifyOuterCoord(query)
            THEN ReadOuterCoord(specs[p].outer, query.coord_chunk, len)
            ELSE ExtractFiltered([k \in 1 .. len |-> k - 1], sel)
    BY <1>2 DEF FilteredCoords
  <1>7. ReaderSpecs # <<>> /\ a = IdentifyOuterCoord(query) => specs[p].outer = sel
    <2>1. ReaderSpecs # <<>> /\ a = IdentifyOuterCoord(query) => a \notin DOMAIN specs[p].extra
      BY SpecReadFacts DEF SpecRead
    <2> QED
      BY <1>4, <2>1 DEF ReaderSelection
  <1> HIDE DEF sel, len, a
  <1>8. ReadOuterCoord(sel, query.coord_chunk, len) = Positions(sel)
    BY <1>3, <1>5, ReadOuterFacts
  <1>9. ExtractFiltered([k \in 1 .. len |-> k - 1], sel) = Positions(sel)
    BY <1>3, <1>5, ExtractWhole
  <1>10. FilteredCoords(p)[j] = Positions(sel)
    BY <1>6, <1>7, <1>8, <1>9
  <1> QED
    BY <1>10 DEF sel

\* A window of an axis stands at its offset among the positions of the selection.
WindowOf(window, sel) ==
    AxisColumn(Positions(sel), window) /\ (IsIndices(window.sel) <=> IsIndices(sel))

\* The windows of an axis do.
LEMMA WindowColumn ==
    ASSUME NEW sel \in Sels, NEW tile \in Nat, NEW w \in 1 .. Len(AxisWindows(sel, tile)),
           NEW window, window.sel = WindowOuterSelection(sel, tile)[w],
           window.offset = (w - 1) * Max2(1, tile)
    PROVE  WindowOf(window, sel)
  <1> DEFINE step == Max2(1, tile)
             ws == WindowOuterSelection(sel, tile)
             off == (w - 1) * step
  <1>1. PICK m \in Nat \ {0} : Windowing(ws, m, sel, step) /\ Len(AxisWindows(sel, tile)) = m
    BY WindowsOfAxis
  <1>2. sel \in RangeSels \cup ListSels
    BY DEF Sels
  <1>3. Positions(sel) \in Seq(Nat) /\ SelLen(sel) \in Nat /\ Len(Positions(sel)) = SelLen(sel)
    BY <1>2, SelFacts DEF SelLen
  <1>4. step \in Nat
    BY DEF Max2
  <1> HIDE DEF step, ws
  <1>5. w \in 1 .. m /\ m \in Nat
    BY <1>1
  <1>6. off \in Nat
    <2>1. w - 1 \in Nat
      BY <1>5
    <2> QED
      BY <1>4, <2>1
  <1>7. /\ ws[w] \in RangeSels \cup ListSels
        /\ IsIndices(ws[w]) <=> IsIndices(sel)
        /\ off + SelLen(ws[w]) <= SelLen(sel)
        /\ \A k \in 1 .. SelLen(ws[w]) : Positions(ws[w])[k] = Positions(sel)[off + k]
    BY <1>1, <1>5 DEF Windowing
  <1>8. window.sel = ws[w] /\ window.offset = off
    BY DEF ws, step
  <1> HIDE DEF off
  <1> QED
    BY <1>3, <1>6, <1>7, <1>8 DEF WindowOf, AxisColumn, Sels

\* So does the one of the tile that a grid stands on.
LEMMA WindowOfTile ==
    ASSUME NEW n \in Nat, NEW sels \in [1 .. n -> Sels], NEW tiles \in [1 .. n -> Nat],
           NEW grid, GridOK(grid, sels, tiles, n), NEW j \in 1 .. n
    PROVE  WindowOf(CurrentTile(grid)[j], sels[j])
  <1> DEFINE window == CurrentTile(grid)[j]
             w == grid.cursor[j]
  <1>f. IsWindow(window, sels[j], tiles[j], w)
    BY TileFacts
  <1>1. window.sel = WindowOuterSelection(sels[j], tiles[j])[w]
    BY <1>f DEF IsWindow
  <1>2. window.offset = (w - 1) * Max2(1, tiles[j])
    BY <1>f DEF IsWindow
  <1>3. w \in 1 .. Len(AxisWindows(sels[j], tiles[j])) /\ sels[j] \in Sels /\ tiles[j] \in Nat
    BY DEF GridOK
  <1> HIDE DEF window, w
  <1>4. WindowOf(window, sels[j])
    BY <1>1, <1>2, <1>3, WindowColumn
  <1> QED
    BY <1>4 DEF window

\* The tile a stream stands on.
LEMMA TileWindows ==
    ASSUME ScanInv, phase = "scan", NEW p \in 1 .. NPartitions, streams[p].state = "open"
    PROVE  /\ PlanInv /\ phase \notin PlanPhases /\ ~MatchesNothing
           /\ DOMAIN CurrentTile(streams[p].grid) = 1 .. Len(Dims(query))
           /\ \A j \in 1 .. Len(Dims(query)) : WindowOf(CurrentTile(streams[p].grid)[j], EffectiveSels(p)[j])
  <1> DEFINE n == Len(Dims(query))
             sels == EffectiveSels(p)
             tiles == WindowTiles(p)
             g == streams[p].grid
  <1>1. PlanInv /\ phase \notin PlanPhases
    BY DEF ScanInv, PlanPhases
  <1>2. ~MatchesNothing /\ ~PlanDividesByZero(p) /\ GridOK(g, sels, tiles, n)
    BY <1>1 DEF ScanInv, StreamTyped, StreamOK
  <1>3. n \in Nat /\ sels \in [1 .. n -> Sels] /\ tiles \in [1 .. n -> Nat]
    BY <1>1, <1>2, PartitionTyped
  <1> HIDE DEF n, sels, tiles, g
  <1>4. DOMAIN CurrentTile(g) = 1 .. n
    BY <1>2, <1>3, TileFacts
  <1>5. ASSUME NEW j \in 1 .. n PROVE WindowOf(CurrentTile(g)[j], sels[j])
    BY <1>2, <1>3, WindowOfTile
  <1> QED
    BY <1>1, <1>2, <1>4, <1>5 DEF n, sels, g

\* The positions of the tile a stream stands on.
TilePositions(p) == [j \in 1 .. Len(Dims(query)) |-> Positions(CurrentTile(streams[p].grid)[j].sel)]

\* The coordinate columns of a tile are its cells.
LEMMA TileCoordsFacts ==
    ASSUME ScanInv, phase = "scan", OuterIsNamed(query), NEW p \in 1 .. NPartitions, streams[p].state = "open"
    PROVE  /\ TilePositions(p) \in [1 .. Len(Dims(query)) -> Seq(Nat)]
           /\ TileCoords(p) = RowMajor(TilePositions(p))
  <1> DEFINE n == Len(Dims(query))
             windows == CurrentTile(streams[p].grid)
             coords == FilteredCoords(p)
  <1>1. PlanInv /\ phase \notin PlanPhases /\ ~MatchesNothing /\ DOMAIN windows = 1 .. n
    BY TileWindows
  <1>2. n \in Nat \ {0}
    BY <1>1, PartitionTyped
  <1>3. ASSUME NEW j \in 1 .. n PROVE AxisColumn(coords[j], windows[j])
    <2>1. coords[j] = Positions(EffectiveSels(p)[j])
      BY <1>1, FilteredCoordsFacts
    <2>2. WindowOf(windows[j], EffectiveSels(p)[j])
      BY TileWindows
    <2> QED
      BY <2>1, <2>2 DEF WindowOf
  <1>4. TilePositions(p) = [j \in 1 .. n |-> Positions(windows[j].sel)] /\ TileCoords(p) = CoordRows(coords, windows)
    BY DEF TilePositions, TileCoords
  <1> HIDE DEF n, windows, coords
  <1>5. /\ [j \in 1 .. n |-> Positions(windows[j].sel)] \in [1 .. n -> Seq(Nat)]
        /\ CoordRows(coords, windows) = RowMajor([j \in 1 .. n |-> Positions(windows[j].sel)])
    BY <1>1, <1>2, <1>3, CoordRowsFacts
  <1> QED
    BY <1>4, <1>5 DEF n

\* The selections a tile is read with: its windows on the axes of the variable, the
\* selections of the partition on the others.
LEMMA TileSelsFacts ==
    ASSUME ScanInv, phase = "scan", NEW p \in 1 .. NPartitions, streams[p].state = "open"
    PROVE  /\ TileSels(p) \in [1 .. Len(query.sizes) -> Sels]
           /\ \A j \in 1 .. Len(Dims(query)) : TileSels(p)[Dims(query)[j]] = CurrentTile(streams[p].grid)[j].sel
           /\ \A a \in 1 .. Len(query.sizes) :
                 (\A j \in 1 .. Len(Dims(query)) : Dims(query)[j] # a) => TileSels(p)[a] = ReaderSelection(p, a)
  <1> DEFINE n == Len(Dims(query))
             N == Len(query.sizes)
             tile == CurrentTile(streams[p].grid)
             Of(a) == CHOOSE j \in DOMAIN tile : Dims(query)[j] = a
  <1>1. PlanInv /\ ~MatchesNothing /\ DOMAIN tile = 1 .. n
    BY TileWindows
  <1>2. query \in Queries
    BY <1>1 DEF PlanInv
  <1>3. /\ Dims(query) \in [1 .. n -> 1 .. N] /\ Axes(query) = 1 .. N
        /\ \A j, k \in 1 .. n : Dims(query)[j] = Dims(query)[k] => j = k
    BY <1>2, DimsFacts
  <1>4. \A j \in 1 .. n : tile[j].sel \in Sels
    <2>1. \A j \in 1 .. n : WindowOf(tile[j], EffectiveSels(p)[j])
      BY TileWindows
    <2> HIDE DEF tile
    <2> QED
      BY <2>1 DEF WindowOf, AxisColumn
  <1>5. \A a \in 1 .. N : ReaderSelection(p, a) \in Sels
    BY <1>1, <1>3, ReaderSelTyped
  <1>6. TileSels(p) = [a \in 1 .. N |-> IF \E j \in 1 .. n : Dims(query)[j] = a
                                        THEN tile[Of(a)].sel ELSE ReaderSelection(p, a)]
    BY <1>1, <1>3 DEF TileSels, CoordRanges
  <1>7. \A j \in 1 .. n : Of(Dims(query)[j]) = j
    BY <1>1, <1>3
  <1> HIDE DEF n, N, tile, Of
  <1>8. \A j \in 1 .. n : TileSels(p)[Dims(query)[j]] = tile[j].sel
    BY <1>3, <1>6, <1>7
  <1>9. \A a \in 1 .. N : (\A j \in 1 .. n : Dims(query)[j] # a) => TileSels(p)[a] = ReaderSelection(p, a)
    BY <1>6
  <1>10. ASSUME NEW a \in 1 .. N PROVE TileSels(p)[a] \in Sels
    BY <1>4, <1>5, <1>8, <1>9
  <1>11. TileSels(p) \in [1 .. N -> Sels]
    <2>1. TileSels(p) = [a \in 1 .. N |-> TileSels(p)[a]]
      BY <1>6
    <2> QED
      BY <1>10, <2>1
  <1> QED
    BY <1>8, <1>9, <1>11 DEF n, N, tile

\* The queries whose tiles are read axis by axis.
LEMMA TileContext ==
    ASSUME ScanInv, phase = "scan", Answered, NEW p \in 1 .. NPartitions, streams[p].state = "open"
    PROVE  ReadContext(Len(Dims(query)), Len(query.sizes), Dims(query), TileSels(p), query.sizes,
                       Shape(query), VarChunks(query))
  <1> DEFINE n == Len(Dims(query))
             N == Len(query.sizes)
             dims == Dims(query)
             tile == CurrentTile(streams[p].grid)
             sels == TileSels(p)
  <1>1. PlanInv /\ phase \notin PlanPhases /\ ~MatchesNothing
    BY TileWindows
  <1>2. query \in Queries /\ QueryOK(query)
    BY <1>1, QueriesAssumption DEF PlanInv
  <1>3. /\ n \in Nat \ {0} /\ DOMAIN dims = 1 .. n
        /\ dims \in [1 .. n -> 1 .. N] /\ Axes(query) = 1 .. N
        /\ \A j, k \in 1 .. n : dims[j] = dims[k] => j = k
    BY <1>2, DimsFacts
  <1>4. 1 \in 1 .. n
    BY <1>3
  <1>5. DOMAIN Shape(query) = 1 .. n /\ Shape(query)[1] = query.sizes[dims[1]]
    BY <1>3, <1>4 DEF Shape
  <1>6. VarChunks(query)[1] \in Nat
    <2>1. VarChunks(query)[1] = query.chunks[dims[1]]
      BY <1>3, <1>4 DEF VarChunks
    <2>2. dims[1] \in Axes(query)
      BY <1>3, <1>4
    <2> QED
      BY <1>2, <2>1, <2>2, Geometry
  <1>7. \A k \in 1 .. n : CoordOfAxis(query.sizes, Shape(query), k) = dims[k]
    BY <1>3 DEF Answered, AxesMatchCoords
  <1>8. sels \in [1 .. N -> Sels]
    BY TileSelsFacts
  <1>9. ASSUME NEW a \in 1 .. N, IsIndices(sels[a]) PROVE a = dims[1]
    <2>1. KeepsFilter(ReaderSelection(p, a), a)
      BY <1>1, <1>3, ReaderKeeps DEF Answered
    <2>2. query.filter[a].form \notin {"none", "span"}
      <3>1. CASE \E j \in 1 .. n : dims[j] = a
        <4>1. PICK j \in 1 .. n : dims[j] = a
          BY <3>1
        <4>2. sels[a] = tile[j].sel
          BY <4>1, TileSelsFacts
        <4>3. WindowOf(tile[j], EffectiveSels(p)[j])
          BY TileWindows
        <4>4. EffectiveSels(p)[j] = ReaderSelection(p, a)
          BY <1>1, <4>1, PartitionTyped
        <4>5. IsIndices(ReaderSelection(p, a))
          BY <1>9, <4>2, <4>3, <4>4 DEF WindowOf
        <4> QED
          BY <2>1, <4>5 DEF KeepsFilter
      <3>2. CASE ~\E j \in 1 .. n : dims[j] = a
        <4>1. sels[a] = ReaderSelection(p, a)
          BY <3>2, TileSelsFacts
        <4> QED
          BY <1>9, <2>1, <4>1 DEF KeepsFilter
      <3> QED
        BY <3>1, <3>2
    <2>3. a \in Filtered(query)
      BY <1>3, <2>2 DEF Filtered
    <2>4. PICK j \in 1 .. n : dims[j] = a
      BY <1>3, <2>3 DEF Answered, FiltersOnProjectedAxes
    <2>5. ~(j > 1)
      BY <1>3, <2>2, <2>4 DEF Answered, ListsOnFirstAxisOnly
    <2>6. j = 1
      <3> HIDE DEF n
      <3> QED
        BY <1>3, <2>5
    <2> QED
      BY <2>4, <2>6
  <1> HIDE DEF n, N, dims, sels
  <1>10. ReadContext(n, N, dims, sels, query.sizes, Shape(query), VarChunks(query))
    BY <1>3, <1>5, <1>6, <1>7, <1>8, <1>9 DEF ReadContext
  <1> QED
    BY <1>10 DEF n, N, dims, sels

\* The coordinate columns and the values of a tile are those of the same cells, row
\* by row, and the reader does not panic.
LEMMA TileIsRead ==
    ASSUME ScanInv, phase = "scan", Answered, NEW p \in 1 .. NPartitions, streams[p].state = "open"
    PROVE  /\ TilePositions(p) \in [1 .. Len(Dims(query)) -> Seq(Nat)]
           /\ TileCoords(p) = RowMajor(TilePositions(p))
           /\ TileValues(p) = RowMajor(TilePositions(p))
           /\ ~ReadPanics(TileSels(p))
  <1> DEFINE n == Len(Dims(query))
             N == Len(query.sizes)
             dims == Dims(query)
             sels == TileSels(p)
  <1>1. PlanInv
    BY DEF ScanInv
  <1>2. query \in Queries
    BY <1>1 DEF PlanInv
  <1>3. n \in Nat \ {0} /\ N \in Nat
    BY <1>2, DimsFacts
  <1>4. ReadContext(n, N, dims, sels, query.sizes, Shape(query), VarChunks(query))
    BY TileContext
  <1>5. TileBox(n, dims, sels) = TilePositions(p)
    BY TileSelsFacts DEF TileBox, TilePositions
  <1>6. TileValues(p) = ReadValues(sels, query.sizes, Shape(query), VarChunks(query))
    BY DEF TileValues
  <1>7. TilePositions(p) \in [1 .. Len(Dims(query)) -> Seq(Nat)] /\ TileCoords(p) = RowMajor(TilePositions(p))
    BY TileCoordsFacts DEF Answered
  <1> HIDE DEF n, N, dims, sels
  <1>8. /\ ~ReadPanics(sels)
        /\ ReadValues(sels, query.sizes, Shape(query), VarChunks(query)) = RowMajor(TileBox(n, dims, sels))
    BY <1>3, <1>4, ReadIsRowMajor
  <1> QED
    BY <1>5, <1>6, <1>7, <1>8 DEF sels

-----------------------------------------------------------------------------
(* What the partitions read between them. *)

\* The rows asked for, as cells.
Asks(c) ==
    \A j \in 1 .. Len(Dims(query)) :
        /\ c[j] < query.sizes[Dims(query)[j]]
        /\ Dims(query)[j] \in Filtered(query) => c[j] \in query.filter[Dims(query)[j]].keep

\* The cells of the projected variable.
Cells == [1 .. Len(Dims(query)) -> Nat]

\* A wanted row is a cell with its own value.
LEMMA WantedFacts ==
    ASSUME query \in Queries
    PROVE  /\ \A r \in Wanted(query) : \E c \in Cells : r = <<c, c>> /\ Asks(c)
           /\ \A c \in Cells : Asks(c) => <<c, c>> \in Wanted(query)
  <1> DEFINE dims == Dims(query)
             n == Len(Dims(query))
             pos == UNION {0 .. query.sizes[a] - 1 : a \in Axes(query)}
  <1>1. /\ DOMAIN dims = 1 .. n /\ dims \in [1 .. n -> Axes(query)]
    BY DimsFacts
  <1>2. \A a \in Axes(query) : query.sizes[a] \in Nat
    BY Geometry
  <1>3. Wanted(query) = {<<c, c>> : c \in {c \in [1 .. n -> pos] : Asks(c)}}
    BY <1>1 DEF Wanted, Asks
  <1>4. pos \subseteq Nat
    BY <1>2
  <1>5. ASSUME NEW c \in Cells, Asks(c) PROVE c \in [1 .. n -> pos]
    <2>1. ASSUME NEW j \in 1 .. n PROVE c[j] \in pos
      <3>1. c[j] \in Nat /\ c[j] < query.sizes[dims[j]] /\ dims[j] \in Axes(query)
        BY <1>1, <1>5 DEF Cells, Asks
      <3>2. query.sizes[dims[j]] \in Nat
        BY <1>2, <3>1
      <3>3. c[j] \in 0 .. query.sizes[dims[j]] - 1
        BY <3>1, <3>2
      <3> QED
        BY <3>1, <3>3
    <2>2. c \in [1 .. n -> Nat]
      BY DEF Cells
    <2> HIDE DEF pos, n
    <2> QED
      BY <2>1, <2>2
  <1>6. [1 .. n -> pos] \subseteq Cells
    <2> HIDE DEF pos
    <2> QED
      BY <1>4 DEF Cells
  <1> HIDE DEF pos, n
  <1> QED
    BY <1>3, <1>5, <1>6

\* There are finitely many.
LEMMA WantedFinite ==
    ASSUME query \in Queries
    PROVE  IsFiniteSet(Wanted(query))
  <1> DEFINE n == Len(Dims(query))
             len(j) == query.sizes[Dims(query)[j]]
             box == [j \in 1 .. n |-> [k \in 1 .. len(j) |-> k - 1]]
             R == RowMajor(box)
             S == {<<R[k], R[k]>> : k \in DOMAIN R}
  <1>1. n \in Nat /\ \A j \in 1 .. n : len(j) \in Nat
    BY DimsFacts, Geometry
  <1>2. \A j \in 1 .. n : box[j] \in Seq(Nat) /\ Distinct(box[j]) /\ Ran(box[j]) = 0 .. len(j) - 1
    <2>1. ASSUME NEW j \in 1 .. n PROVE box[j] \in Seq(Nat) /\ Distinct(box[j]) /\ Ran(box[j]) = 0 .. len(j) - 1
      <3> DEFINE l == len(j)
                 v == [k \in 1 .. l |-> k - 1]
      <3>1. l \in Nat /\ box[j] = v
        BY <1>1
      <3> HIDE DEF l, box
      <3>2. v \in [1 .. l -> Nat]
        BY <3>1
      <3>3. v \in Seq(Nat)
        BY <3>1, <3>2
      <3>4. Distinct(v)
        BY <3>1 DEF Distinct
      <3>5. Ran(v) = 0 .. l - 1
        <4>1. ASSUME NEW x \in 0 .. l - 1 PROVE x \in Ran(v)
          <5>1. x + 1 \in 1 .. l /\ v[x + 1] = x
            BY <3>1
          <5> QED
            BY <5>1 DEF Ran
        <4>2. ASSUME NEW x \in Ran(v) PROVE x \in 0 .. l - 1
          <5>1. PICK k \in 1 .. l : x = k - 1
            BY <3>1 DEF Ran
          <5> QED
            BY <3>1, <5>1
        <4> QED
          BY <4>1, <4>2
      <3> QED
        BY <3>1, <3>3, <3>4, <3>5 DEF l
    <2> QED
      BY <2>1
  <1>3. box \in [1 .. n -> Seq(Nat)]
    BY <1>2
  <1> HIDE DEF box, n, len
  <1>4. /\ Product(SizesOf(box)) \in Nat /\ R \in [1 .. Product(SizesOf(box)) -> [1 .. n -> Nat]]
        /\ Ran(R) = {c \in [1 .. n -> Nat] : \A a \in 1 .. n : c[a] \in Ran(box[a])}
    BY <1>1, <1>2, <1>3, RowMajorFacts, RowMajorIs
  <1> HIDE DEF R
  <1>5. IsFiniteSet(S)
    <2>1. IsFiniteSet(DOMAIN R)
      BY <1>4, UptoSize
    <2> DEFINE f == [k \in DOMAIN R |-> <<R[k], R[k]>>]
    <2>2. f \in Surjection(DOMAIN R, S)
      BY DEF Surjection
    <2> HIDE DEF f, S
    <2> QED
      BY <2>1, <2>2, FS_Surjection
  <1>6. Wanted(query) \subseteq S
    <2>1. ASSUME NEW r \in Wanted(query) PROVE r \in S
      <3>1. PICK c \in Cells : r = <<c, c>> /\ Asks(c)
        BY WantedFacts
      <3>2. ASSUME NEW a \in 1 .. n PROVE c[a] \in Ran(box[a])
        <4>1. c[a] \in Nat /\ c[a] < len(a)
          BY <3>1 DEF Cells, Asks, n, len
        <4> QED
          BY <1>1, <1>2, <4>1
      <3>3. c \in Ran(R)
        BY <1>4, <3>2 DEF Cells, n
      <3> QED
        BY <3>1, <3>3 DEF Ran
    <2> QED
      BY <2>1
  <1> QED
    BY <1>5, <1>6, FS_Subset

\* What DataFusion's FilterExec looks at.
LEMMA PassesFacts ==
    ASSUME query \in Queries, NEW c
    PROVE  PassesFilterExec(<<c, c>>) <=>
              \A j \in 1 .. Len(Dims(query)) :
                  query.filter[Dims(query)[j]].form \in {"span", "list"} => c[j] \in query.filter[Dims(query)[j]].keep
  BY DimsFacts DEF PassesFilterExec

\* A wanted row passes it.
LEMMA WantedPasses ==
    ASSUME query \in Queries, NEW c, Asks(c)
    PROVE  PassesFilterExec(<<c, c>>)
  <1>1. ASSUME NEW j \in 1 .. Len(Dims(query)), query.filter[Dims(query)[j]].form \in {"span", "list"}
        PROVE  c[j] \in query.filter[Dims(query)[j]].keep
    <2>1. Dims(query)[j] \in Axes(query)
      BY DimsFacts
    <2>2. Dims(query)[j] \in Filtered(query)
      BY <1>1, <2>1 DEF Filtered
    <2> QED
      BY <2>2 DEF Asks
  <1> QED
    BY <1>1, PassesFacts

\* The cells a partition reads.
Box(p) == BoxCells(EffectiveSels(p), Len(Dims(query)))

\* Those that the FilterExec leaves are wanted; with a LIMIT all of them are.
LEMMA BoxWanted ==
    ASSUME PlanInv, phase \notin PlanPhases, Answered, ~MatchesNothing, NEW p \in 1 .. NPartitions,
           NEW c \in Box(p), PassesFilterExec(<<c, c>>) \/ query.limit # NoLimit
    PROVE  Asks(c)
  <1> DEFINE n == Len(Dims(query))
             dims == Dims(query)
             outer == IdentifyOuterCoord(query)
  <1>1. query \in Queries /\ QueryOK(query)
    BY QueriesAssumption DEF PlanInv
  <1>2. dims \in [1 .. n -> Axes(query)]
    BY <1>1, DimsFacts
  <1>3. c \in [1 .. n -> Nat]
    BY DEF Box, BoxCells
  <1>4. ASSUME NEW j \in 1 .. n
        PROVE  c[j] < query.sizes[dims[j]] /\ (dims[j] \in Filtered(query) => c[j] \in query.filter[dims[j]].keep)
    <2> DEFINE a == dims[j]
               sel == ReaderSelection(p, a)
    <2>1. a \in Axes(query) /\ query.sizes[a] \in Nat
      BY <1>1, <1>2, Geometry
    <2>2. EffectiveSels(p)[j] = sel
      BY PartitionTyped
    <2>3. c[j] \in Members(sel)
      BY <2>2 DEF Box, BoxCells
    <2>4. Members(sel) \subseteq 0 .. query.sizes[a] - 1
      BY <2>1, ReaderSelTyped
    <2>5. KeepsFilter(sel, a)
      BY <2>1, ReaderKeeps DEF Answered
    <2>6. ASSUME a \in Filtered(query) PROVE c[j] \in query.filter[a].keep
      <3>1. CASE a # outer \/ OuterResolved
        BY <2>3, <2>5, <2>6, <3>1 DEF KeepsFilter
      <3>2. CASE a = outer /\ ~OuterResolved
        <4>1. ReaderSpecs # <<>> /\ resolution \notin {"resolved", "empty"}
          BY <3>2 DEF OuterResolved
        <4>2. specs # <<>>
          BY <4>1, SpecOfPartition
        <4>3. resolution \in {"error", "unfiltered"}
          BY <4>1, <4>2 DEF PlanInv
        <4>4. query.filter[a].form # "none" /\ query.filter[a].form \in {"none", "span", "list", "date"}
          BY <1>1, <2>1, <2>6 DEF Filtered, QueryOK
        <4>5. query.filter[a].form # "date" /\ query.limit = NoLimit
          BY <3>2, <4>3, <4>4 DEF Answered, OuterFilterHonoured
        <4>6. PassesFilterExec(<<c, c>>)
          BY <4>5
        <4> QED
          BY <1>1, <4>4, <4>5, <4>6, PassesFacts
      <3> QED
        BY <3>1, <3>2
    <2>7. c[j] < query.sizes[a]
      <3> DEFINE x == c[j]
                 s == query.sizes[a]
      <3>1. x \in 0 .. s - 1 /\ s \in Nat
        BY <2>1, <2>3, <2>4
      <3> HIDE DEF x, s
      <3>2. x < s
        BY <3>1
      <3> QED
        BY <3>2 DEF x, s
    <2> QED
      BY <2>6, <2>7
  <1> QED
    BY <1>4 DEF Asks

\* A filter without matches that the reader resolves leaves nothing to want.
LEMMA NothingWanted ==
    ASSUME query \in Queries, Answered, MatchesNothing
    PROVE  Wanted(query) = {}
  <1>1. PICK a \in ReaderFilters : query.filter[a].keep = {}
    BY DEF MatchesNothing
  <1>2. a \in Filtered(query)
    BY DEF ReaderFilters
  <1>3. PICK j \in 1 .. Len(Dims(query)) : Dims(query)[j] = a
    BY <1>2, DimsFacts DEF Answered, FiltersOnProjectedAxes
  <1>4. ASSUME NEW c, Asks(c) PROVE FALSE
    BY <1>1, <1>2, <1>3, <1>4 DEF Asks
  <1> QED
    BY <1>4, WantedFacts

\* Several partitions are those of the reader.
LEMMA SeveralPartitions ==
    ASSUME PlanInv, Answered, NEW p \in 1 .. NPartitions, NEW q \in 1 .. NPartitions, p # q
    PROVE  ReaderSpecs # <<>>
  <1>1. Len(specs) \in Nat
    BY SpecsLength
  <1>2. Len(specs) > 1
    BY <1>1 DEF NPartitions, Max2
  <1>3. ReaderSpecs = specs
    BY <1>1, <1>2 DEF Answered, PartitionsReachReader
  <1> QED
    BY <1>2, <1>3

\* A partition reads its slice of the outer axis and its box of the others.
LEMMA SpecSelection ==
    ASSUME PlanInv, phase \notin PlanPhases, Answered, ~MatchesNothing, ReaderSpecs # <<>>, NEW p \in 1 .. NPartitions,
           NEW c \in Box(p), NEW j \in 1 .. Len(Dims(query))
    PROVE  /\ Dims(query)[j] = IdentifyOuterCoord(query) => c[j] \in Members(specs[p].outer)
           /\ Dims(query)[j] \in DOMAIN specs[p].extra => c[j] \in Members(specs[p].extra[Dims(query)[j]])
  <1> DEFINE a == Dims(query)[j]
  <1>1. EffectiveSels(p)[j] = ReaderSelection(p, a)
    BY PartitionTyped
  <1>2. c[j] \in Members(ReaderSelection(p, a))
    BY <1>1 DEF Box, BoxCells
  <1>3. IdentifyOuterCoord(query) \notin DOMAIN specs[p].extra
    BY SpecReadFacts DEF SpecRead, Answered
  <1> QED
    BY <1>2, <1>3 DEF ReaderSelection

\* No cell is read by two partitions.
LEMMA BoxesDisjoint ==
    ASSUME PlanInv, phase \notin PlanPhases, Answered, ~MatchesNothing,
           NEW p \in 1 .. NPartitions, NEW q \in 1 .. NPartitions, NEW c, c \in Box(p), c \in Box(q)
    PROVE  p = q
  <1> SUFFICES ASSUME p # q PROVE FALSE
    OBVIOUS
  <1>1. ReaderSpecs # <<>>
    BY SeveralPartitions
  <1>2. p \in DOMAIN specs /\ q \in DOMAIN specs /\ specs # <<>>
    BY <1>1, SpecOfPartition
  <1>3. PICK n \in Nat \ {0}, A \in SUBSET Splittable(query.vars[1], query.sizes, Filtered(query)) :
          SpecsCut(specs, n, ToCover(query, resolution), Max2(1, query.chunks[query.vars[1][1]]),
                   A, query.sizes, query.chunks, Kinds(query, resolution))
    BY <1>2, Unfold
  <1>4. p \in 1 .. n /\ q \in 1 .. n
    BY <1>2, <1>3 DEF SpecsCut
  <1>5. \/ Apart(specs[p].outer, specs[q].outer, Max2(1, query.chunks[query.vars[1][1]]))
        \/ /\ DOMAIN specs[p].extra = A /\ DOMAIN specs[q].extra = A
           /\ \E a \in A : Apart(specs[p].extra[a], specs[q].extra[a], Max2(1, query.chunks[a]))
    BY <1>3, <1>4 DEF SpecsCut
  <1>6. query \in Queries
    BY DEF PlanInv
  <1>7. DOMAIN Dims(query) = 1 .. Len(Dims(query))
    BY <1>6, DimsFacts
  <1>8. CASE Apart(specs[p].outer, specs[q].outer, Max2(1, query.chunks[query.vars[1][1]]))
    <2>1. PICK j \in 1 .. Len(Dims(query)) : Dims(query)[j] = IdentifyOuterCoord(query)
      BY <1>2, <1>7 DEF Answered, PartitionsCutProjectedAxes
    <2>2. c[j] \in Members(specs[p].outer) /\ c[j] \in Members(specs[q].outer)
      BY <1>1, <2>1, SpecSelection
    <2> QED
      BY <1>8, <2>2, ApartDisjoint
  <1>9. CASE /\ DOMAIN specs[p].extra = A /\ DOMAIN specs[q].extra = A
             /\ \E a \in A : Apart(specs[p].extra[a], specs[q].extra[a], Max2(1, query.chunks[a]))
    <2>1. PICK a \in A : Apart(specs[p].extra[a], specs[q].extra[a], Max2(1, query.chunks[a]))
      BY <1>9
    <2>2. PICK j \in 1 .. Len(Dims(query)) : Dims(query)[j] = a
      BY <1>2, <1>7, <1>9 DEF Answered, PartitionsCutProjectedAxes
    <2>3. c[j] \in Members(specs[p].extra[a])
      BY <1>1, <1>9, <2>2, SpecSelection
    <2>4. c[j] \in Members(specs[q].extra[a])
      BY <1>1, <1>9, <2>2, SpecSelection
    <2> QED
      BY <2>1, <2>3, <2>4, ApartDisjoint
  <1> QED
    BY <1>5, <1>8, <1>9

\* How the filter on the outer axis was resolved is what the head may come to.
ResolvedAs == specs # <<>> => resolution \in ResolveOuterSelection(query)

\* An axis that the partition does not restrict is read as its filter says.
LEMMA FreeSelection ==
    ASSUME PlanInv, ~MatchesNothing, NEW p \in 1 .. NPartitions, NEW a \in Axes(query),
           ReaderSpecs # <<>> => a \notin DOMAIN specs[p].extra /\ a # IdentifyOuterCoord(query)
    PROVE  Members(ReaderSelection(p, a))
              = IF a \in Filtered(query) THEN query.filter[a].keep ELSE 0 .. query.sizes[a] - 1
  <1> DEFINE f == query.filter[a]
             n == query.sizes[a]
  <1>1. query \in Queries /\ QueryOK(query)
    BY QueriesAssumption DEF PlanInv
  <1>2. n \in Nat
    BY <1>1, Geometry
  <1>3. /\ f.form \in {"none", "span", "list", "date"} /\ f.keep \subseteq 0 .. n - 1
        /\ f.form = "span" => \A x, y \in f.keep : x .. y \subseteq f.keep
    BY <1>1 DEF QueryOK
  <1>4. a \in ReaderFilters <=> a \in Filtered(query)
    BY DEF ReaderFilters
  <1>5. a \in Filtered(query) <=> f.form # "none"
    BY DEF Filtered
  <1>6. ReaderSelection(p, a) = IF a \in ReaderFilters THEN ResolveCoordSelection(f, n) ELSE RangeSel(0, n)
    BY DEF ReaderSelection
  <1>7. a \in ReaderFilters => f.keep # {}
    BY DEF MatchesNothing
  <1>8. Members(RangeSel(0, n)) = 0 .. n - 1
    BY DEF Members, RangeSel, IsIndices
  <1> HIDE DEF f, n
  <1>9. a \in ReaderFilters => Members(ResolveCoordSelection(f, n)) = f.keep
    BY <1>2, <1>3, <1>4, <1>5, <1>7, ResolvedSel
  <1> QED
    BY <1>4, <1>6, <1>8, <1>9 DEF f, n

\* Every wanted cell is read by a partition.
LEMMA BoxesCover ==
    ASSUME PlanInv, ResolvedAs, phase \notin PlanPhases, Answered, ~MatchesNothing, NEW c \in Cells, Asks(c)
    PROVE  \E p \in 1 .. NPartitions : c \in Box(p)
  <1> DEFINE n == Len(Dims(query))
             dims == Dims(query)
             outer == IdentifyOuterCoord(query)
  <1>1. query \in Queries /\ QueryOK(query)
    BY QueriesAssumption DEF PlanInv
  <1>2. /\ dims \in [1 .. n -> Axes(query)] /\ DOMAIN dims = 1 .. n
        /\ \A j, k \in 1 .. n : dims[j] = dims[k] => j = k
    BY <1>1, DimsFacts
  <1>3. \A a \in Axes(query) : query.sizes[a] \in Nat
    BY <1>1, Geometry
  <1>4. ASSUME NEW j \in 1 .. n
        PROVE  /\ c[j] \in 0 .. query.sizes[dims[j]] - 1
               /\ dims[j] \in Filtered(query) => c[j] \in query.filter[dims[j]].keep
    <2> DEFINE s == query.sizes[dims[j]]
               x == c[j]
    <2>1. x < s /\ x \in Nat /\ s \in Nat
      BY <1>2, <1>3 DEF Asks, Cells
    <2> HIDE DEF s, x
    <2>2. x \in 0 .. s - 1
      BY <2>1
    <2> QED
      BY <2>2 DEF s, x, Asks
  <1>5. NPartitions \in Nat \ {0}
    BY ExecFacts
  <1>6. ASSUME NEW p \in 1 .. NPartitions,
               \A j \in 1 .. n : c[j] \in Members(ReaderSelection(p, dims[j]))
        PROVE  c \in Box(p)
    <2>1. \A j \in 1 .. n : EffectiveSels(p)[j] = ReaderSelection(p, dims[j])
      BY PartitionTyped
    <2> QED
      BY <1>6, <2>1 DEF Box, BoxCells, Cells
  <1>7. CASE ReaderSpecs = <<>>
    <2>1. 1 \in 1 .. NPartitions
      BY <1>5
    <2>2. ASSUME NEW j \in 1 .. n PROVE c[j] \in Members(ReaderSelection(1, dims[j]))
      <3>1. Members(ReaderSelection(1, dims[j]))
              = IF dims[j] \in Filtered(query) THEN query.filter[dims[j]].keep ELSE 0 .. query.sizes[dims[j]] - 1
        BY <1>2, <1>7, <2>1, FreeSelection
      <3> QED
        BY <1>4, <3>1
    <2> QED
      BY <1>6, <2>1, <2>2
  <1>8. CASE ReaderSpecs # <<>>
    <2>1. ReaderSpecs = specs /\ specs # <<>>
      BY <1>8 DEF ReaderSpecs
    <2>2. PICK m \in Nat \ {0}, A \in SUBSET Splittable(query.vars[1], query.sizes, Filtered(query)) :
            SpecsCut(specs, m, ToCover(query, resolution), Max2(1, query.chunks[query.vars[1][1]]),
                     A, query.sizes, query.chunks, Kinds(query, resolution))
      BY <2>1, Unfold
    <2>3. DOMAIN specs = 1 .. m
      BY <2>2 DEF SpecsCut
    <2>4. 1 \in DOMAIN specs
      BY <2>2, <2>3
    <2>5. PICK o \in 1 .. n : dims[o] = outer
      BY <1>2, <2>4 DEF Answered, PartitionsCutProjectedAxes
    <2>6. c[o] \in ToCover(query, resolution)
      <3>1. CASE resolution \in {"resolved", "empty"}
        <4>1. query.filter[outer].form # "none"
          BY <2>1, <3>1 DEF ResolvedAs, ResolveOuterSelection
        <4>2. outer \in Filtered(query)
          BY <1>2, <2>5, <4>1 DEF Filtered
        <4>3. c[o] \in query.filter[outer].keep
          BY <1>4, <2>5, <4>2
        <4> QED
          BY <3>1, <4>3 DEF ToCover
      <3>2. CASE resolution \notin {"resolved", "empty"}
        BY <1>4, <2>5, <3>2 DEF ToCover
      <3> QED
        BY <3>1, <3>2
    <2> DEFINE cell == [a \in A |-> IF \E j \in 1 .. n : dims[j] = a
                                    THEN c[CHOOSE j \in 1 .. n : dims[j] = a] ELSE 0]
    <2>7. ASSUME NEW a \in A PROVE cell[a] \in 0 .. query.sizes[a] - 1
      <3>1. query.sizes[a] > 0 /\ a \in Axes(query)
        BY DEF Splittable, Axes
      <3>2. query.sizes[a] \in Nat
        BY <1>3, <3>1
      <3>3. 0 \in 0 .. query.sizes[a] - 1
        BY <3>1, <3>2
      <3>4. CASE \E j \in 1 .. n : dims[j] = a
        <4> DEFINE j == CHOOSE j \in 1 .. n : dims[j] = a
        <4>1. j \in 1 .. n /\ dims[j] = a
          BY <3>4
        <4>2. cell[a] = c[j]
          BY <3>4
        <4> HIDE DEF j, cell
        <4> QED
          BY <1>4, <4>1, <4>2
      <3> QED
        BY <3>3, <3>4
    <2>8. \A j \in 1 .. n : dims[j] \in A => cell[dims[j]] = c[j]
      BY <1>2
    <2> HIDE DEF cell
    <2>9. PICK i \in 1 .. m : /\ DOMAIN specs[i].extra = A
                              /\ c[o] \in Members(specs[i].outer)
                              /\ \A a \in A : cell[a] \in Members(specs[i].extra[a])
      BY <2>2, <2>6, <2>7 DEF SpecsCut
    <2>10. i \in 1 .. NPartitions
      <3>1. Len(specs) \in Nat /\ DOMAIN specs = 1 .. Len(specs)
        BY <2>1, SpecsLength
      <3> QED
        BY <2>3, <2>9, <3>1 DEF NPartitions, Max2
    <2>11. ASSUME NEW j \in 1 .. n PROVE c[j] \in Members(ReaderSelection(i, dims[j]))
      <3>1. CASE dims[j] \in A
        <4>1. ReaderSelection(i, dims[j]) = specs[i].extra[dims[j]]
          BY <1>8, <2>9, <3>1 DEF ReaderSelection
        <4> QED
          BY <2>8, <2>9, <3>1, <4>1
      <3>2. CASE dims[j] \notin A /\ dims[j] = outer
        <4>1. ReaderSelection(i, dims[j]) = specs[i].outer
          BY <1>8, <2>9, <3>2 DEF ReaderSelection
        <4>2. j = o
          BY <1>2, <2>5, <3>2
        <4> QED
          BY <2>9, <4>1, <4>2
      <3>3. CASE dims[j] \notin A /\ dims[j] # outer
        <4>1. Members(ReaderSelection(i, dims[j]))
                = IF dims[j] \in Filtered(query) THEN query.filter[dims[j]].keep ELSE 0 .. query.sizes[dims[j]] - 1
          BY <1>2, <2>9, <2>10, <3>3, FreeSelection
        <4> QED
          BY <1>4, <4>1
      <3> QED
        BY <3>1, <3>2, <3>3
    <2> QED
      BY <1>6, <2>10, <2>11
  <1> QED
    BY <1>7, <1>8

-----------------------------------------------------------------------------
(* The rows of a tile and of a batch. *)

\* Rows without repetition, each a cell of S with its own value.
Queued(rows, S) ==
    /\ Distinct(rows)
    /\ \A k \in DOMAIN rows : \E c \in S : rows[k] = <<c, c>>

\* An ascending sequence has no repetition.
LEMMA AscendsDistinct ==
    ASSUME NEW v \in Seq(Nat), Ascends(v)
    PROVE  Distinct(v)
  <1>1. ASSUME NEW j \in DOMAIN v, NEW k \in DOMAIN v, v[j] = v[k] PROVE j = k
    <2>1. v[j] \in Nat /\ v[k] \in Nat /\ j \in Nat /\ k \in Nat
      OBVIOUS
    <2>2. (j < k => v[j] < v[k]) /\ (k < j => v[k] < v[j])
      BY DEF Ascends
    <2> QED
      BY <1>1, <2>1, <2>2
  <1> QED
    BY <1>1 DEF Distinct

\* The cells of the tile a stream stands on, each once, in the order of the columns.
LEMMA TileOrder ==
    ASSUME ScanInv, phase = "scan", Answered, NEW p \in 1 .. NPartitions, streams[p].state = "open"
    PROVE  /\ Distinct(RowMajor(TilePositions(p)))
           /\ Ran(RowMajor(TilePositions(p)))
                 = TileCells(streams[p].grid.cursor, EffectiveSels(p), WindowTiles(p), Len(Dims(query)))
           /\ DOMAIN RowMajor(TilePositions(p)) = 1 .. Len(TileCoords(p))
  <1> DEFINE n == Len(Dims(query))
             sels == EffectiveSels(p)
             tiles == WindowTiles(p)
             g == streams[p].grid
             box == TilePositions(p)
  <1>1. PlanInv /\ phase \notin PlanPhases /\ ~MatchesNothing
    BY TileWindows
  <1>2. ~PlanDividesByZero(p) /\ GridOK(g, sels, tiles, n)
    BY <1>1 DEF ScanInv, StreamTyped, StreamOK
  <1>3. n \in Nat /\ sels \in [1 .. n -> Sels] /\ tiles \in [1 .. n -> Nat]
    BY <1>1, <1>2, PartitionTyped
  <1>4. box \in [1 .. n -> Seq(Nat)] /\ TileCoords(p) = RowMajor(box)
    BY TileIsRead
  <1>5. ASSUME NEW a \in 1 .. n
        PROVE  Distinct(box[a]) /\ Ran(box[a]) = WindowMembers(sels[a], tiles[a], g.cursor[a])
    <2> DEFINE sel == CurrentTile(g)[a].sel
    <2>1. box[a] = Positions(sel)
      BY DEF TilePositions
    <2>2. sel = WindowOuterSelection(sels[a], tiles[a])[g.cursor[a]] /\ sel \in Sels
      <3> HIDE DEF n, sels, tiles, g
      <3> QED
        BY <1>2, <1>3, TileFacts DEF IsWindow
    <2> HIDE DEF sel
    <2>3. Positions(sel) \in Seq(Nat) /\ Ascends(Positions(sel)) /\ Ran(Positions(sel)) = Members(sel)
      BY <2>2, SelFacts DEF Sels
    <2> QED
      BY <2>1, <2>2, <2>3, AscendsDistinct DEF WindowMembers
  <1> HIDE DEF n, sels, tiles, g, box
  <1>6. /\ RowMajor(box) \in [1 .. Product(SizesOf(box)) -> [1 .. n -> Nat]]
        /\ Distinct(RowMajor(box))
        /\ Ran(RowMajor(box)) = {c \in [1 .. n -> Nat] : \A a \in 1 .. n : c[a] \in Ran(box[a])}
    BY <1>3, <1>4, <1>5, RowMajorFacts
  <1>7. Ran(RowMajor(box)) = TileCells(g.cursor, sels, tiles, n)
    BY <1>5, <1>6 DEF TileCells
  <1>8. DOMAIN RowMajor(box) = 1 .. Len(TileCoords(p))
    BY <1>4, TileFits DEF ScanInv
  <1> QED
    BY <1>6, <1>7, <1>8 DEF n, sels, tiles, g, box

\* The rows a stream queues are those of the tile, up to the LIMIT, and building
\* them neither panics nor fails.
LEMMA NewRows ==
    ASSUME ScanInv, phase = "scan", Answered, NEW p \in 1 .. NPartitions, HasWindow(p)
    PROVE  LET S == TileCells(streams[p].grid.cursor, EffectiveSels(p), WindowTiles(p), Len(Dims(query)))
           IN /\ ~ReadPanics(TileSels(p)) /\ ColumnsFit(p)
              /\ Queued(TileRows(p), S)
              /\ scan_limit # NoLimit => streams[p].emitted + Len(TileRows(p)) <= scan_limit
              /\ (scan_limit = NoLimit \/ streams[p].emitted + Len(TileRows(p)) < scan_limit)
                    => \A c \in S : <<c, c>> \in Ran(TileRows(p))
  <1> DEFINE S == TileCells(streams[p].grid.cursor, EffectiveSels(p), WindowTiles(p), Len(Dims(query)))
             R == RowMajor(TilePositions(p))
             L == Len(TileCoords(p))
             rows == TileRows(p)
             l == Len(TileRows(p))
             e == streams[p].emitted
  <1>1. streams[p].state = "open" /\ ~LimitReached(streams[p])
    BY DEF HasWindow, NeedsWindow
  <1>2. /\ TileCoords(p) = R /\ TileValues(p) = R /\ ~ReadPanics(TileSels(p))
    BY <1>1, TileIsRead
  <1>3. ColumnsFit(p)
    BY <1>2 DEF ColumnsFit
  <1>4. Distinct(R) /\ Ran(R) = S /\ DOMAIN R = 1 .. L
    BY <1>1, TileOrder
  <1>5. L \in Nat
    BY <1>1, TileFits
  <1>6. /\ l \in Nat /\ DOMAIN rows = 1 .. l
        /\ l = IF scan_limit = NoLimit THEN L ELSE Min2(scan_limit - e, L)
    BY RowsFit
  <1>7. \A k \in 1 .. l : rows[k] = <<R[k], R[k]>>
    BY <1>2, RowsFit
  <1>8. e \in Nat /\ scan_limit \in Nat \cup {NoLimit}
    BY DEF ScanInv, PlanInv, PlanPhases, StreamTyped, StreamOK
  <1>9. scan_limit # NoLimit => e < scan_limit
    BY <1>1, <1>8 DEF LimitReached
  <1> HIDE DEF S, R, L, rows, l, e
  <1>10. l <= L
    BY <1>5, <1>6, <1>8, <1>9 DEF Min2
  <1>11. scan_limit # NoLimit => e + l <= scan_limit
    BY <1>5, <1>6, <1>8, <1>9 DEF Min2
  <1>12. scan_limit = NoLimit \/ e + l < scan_limit => l = L
    BY <1>5, <1>6, <1>8, <1>9 DEF Min2
  <1>13. Queued(rows, S)
    <2>1. \A k \in 1 .. l : k \in 1 .. L
      BY <1>5, <1>6, <1>10
    <2>2. \A k \in 1 .. l : R[k] \in S
      BY <1>4, <2>1 DEF Ran
    <2>3. Distinct(rows)
      BY <1>4, <1>6, <1>7, <2>1 DEF Distinct
    <2> QED
      BY <1>6, <1>7, <2>2, <2>3 DEF Queued
  <1>14. ASSUME l = L, NEW c \in S PROVE <<c, c>> \in Ran(rows)
    <2>1. PICK k \in 1 .. L : R[k] = c
      BY <1>4 DEF Ran
    <2> QED
      BY <1>6, <1>7, <1>14, <2>1 DEF Ran
  <1> QED
    BY <1>2, <1>3, <1>11, <1>12, <1>13, <1>14 DEF S, rows, l, e

\* What the FilterExec leaves of a batch.
LEMMA FilterFacts ==
    ASSUME NEW S, NEW rows \in Seq(S), Distinct(rows)
    PROVE  /\ FilterBatch(rows) \in Seq(S) /\ Distinct(FilterBatch(rows))
           /\ Ran(FilterBatch(rows)) = {r \in Ran(rows) : PassesFilterExec(r)}
           /\ (\A r \in Ran(rows) : PassesFilterExec(r)) => Len(FilterBatch(rows)) = Len(rows)
  <1> DEFINE K == {k \in DOMAIN rows : PassesFilterExec(rows[k])}
             kept == Sorted(K)
             m == Cardinality(K)
             F == FilterBatch(rows)
  <1>1. DOMAIN rows = 1 .. Len(rows) /\ Len(rows) \in Nat
    OBVIOUS
  <1>2. IsFiniteSet(1 .. Len(rows)) /\ Cardinality(1 .. Len(rows)) = Len(rows)
    BY <1>1, UptoSize
  <1>3. K \subseteq Nat /\ IsFiniteSet(K)
    BY <1>1, <1>2, FS_Subset
  <1>4. /\ m \in Nat /\ kept \in [1 .. m -> K] /\ \A x \in K : \E k \in 1 .. m : kept[k] = x
        /\ \A j, k \in 1 .. m : j < k => kept[j] < kept[k]
    <2> HIDE DEF K
    <2> QED
      BY <1>3, SortedFacts
  <1>5. F = [i \in DOMAIN kept |-> rows[kept[i]]]
    BY DEF FilterBatch
  <1>6. \A k \in K : rows[k] \in S /\ k \in DOMAIN rows /\ PassesFilterExec(rows[k])
    BY <1>1
  <1>7. \A k \in DOMAIN rows : PassesFilterExec(rows[k]) => k \in K
    OBVIOUS
  <1>8. (\A r \in Ran(rows) : PassesFilterExec(r)) => m = Len(rows)
    <2>1. ASSUME \A r \in Ran(rows) : PassesFilterExec(r) PROVE K = 1 .. Len(rows)
      BY <1>1, <2>1 DEF Ran
    <2> QED
      BY <1>2, <2>1
  <1> HIDE DEF K, kept, m, F
  <1>9. F \in [1 .. m -> S] /\ \A i \in 1 .. m : F[i] = rows[kept[i]] /\ kept[i] \in K
    BY <1>4, <1>5, <1>6
  <1>10. F \in Seq(S) /\ Len(F) = m /\ DOMAIN F = 1 .. m
    BY <1>4, <1>9, FunIsSeq
  <1>11. Distinct(F)
    <2>1. ASSUME NEW i \in 1 .. m, NEW j \in 1 .. m, F[i] = F[j] PROVE i = j
      <3>1. kept[i] = kept[j]
        BY <1>6, <1>9, <2>1 DEF Distinct
      <3>2. kept[i] \in Nat /\ kept[j] \in Nat
        BY <1>3, <1>9
      <3>3. (i < j => kept[i] < kept[j]) /\ (j < i => kept[j] < kept[i])
        BY <1>4
      <3> QED
        BY <1>4, <3>1, <3>2, <3>3
    <2> QED
      BY <1>10, <2>1 DEF Distinct
  <1>12. ASSUME NEW r \in Ran(F) PROVE r \in Ran(rows) /\ PassesFilterExec(r)
    <2>1. PICK i \in 1 .. m : r = F[i]
      BY <1>10 DEF Ran
    <2> QED
      BY <1>6, <1>9, <2>1 DEF Ran
  <1>13. ASSUME NEW r \in Ran(rows), PassesFilterExec(r) PROVE r \in Ran(F)
    <2>1. PICK k \in DOMAIN rows : r = rows[k]
      BY DEF Ran
    <2>2. PICK i \in 1 .. m : kept[i] = k
      BY <1>4, <1>7, <1>13, <2>1
    <2>3. F[i] = r
      BY <1>9, <2>1, <2>2
    <2> QED
      BY <1>10, <2>3 DEF Ran
  <1>14. Ran(F) = {r \in Ran(rows) : PassesFilterExec(r)}
    BY <1>12, <1>13
  <1> QED
    BY <1>8, <1>10, <1>11, <1>14 DEF F

\* What comes of a batch: rows of it that pass, each once; all of these, unless the
\* LIMIT is met.
Passed(rows, out) ==
    /\ Distinct(out)
    /\ \A r \in Ran(out) : r \in Ran(rows) /\ PassesFilterExec(r)
    /\ query.limit = NoLimit => \A r \in Ran(rows) : PassesFilterExec(r) => r \in Ran(out)
    /\ query.limit # NoLimit => fetched + Len(out) <= query.limit
    /\ query.limit # NoLimit /\ (\A r \in Ran(rows) : PassesFilterExec(r)) =>
          fetched + Len(out) = query.limit \/ (Len(out) = Len(rows) /\ Ran(rows) \subseteq Ran(out))

\* It does.
LEMMA OutPassed ==
    ASSUME NEW S, NEW rows \in Seq(S), Distinct(rows), fetched \in Nat, query.limit \in Nat \cup {NoLimit}, ~FetchDone
    PROVE  Passed(rows, Fetch(FilterBatch(rows)))
  <1> DEFINE F == FilterBatch(rows)
             m == Len(F)
             out == Fetch(FilterBatch(rows))
             all == \A r \in Ran(rows) : PassesFilterExec(r)
  <1>1. /\ F \in Seq(S) /\ Distinct(F) /\ Ran(F) = {r \in Ran(rows) : PassesFilterExec(r)}
        /\ all => m = Len(rows)
    BY FilterFacts
  <1>2. CASE query.limit = NoLimit
    <2>1. out = F
      BY <1>2 DEF Fetch
    <2> HIDE DEF F, out
    <2> QED
      BY <1>1, <1>2, <2>1 DEF Passed, out
  <1>3. CASE query.limit # NoLimit
    <2> DEFINE x == Min2(query.limit - fetched, m)
    <2>1. query.limit \in Nat /\ ~(fetched >= query.limit)
      BY <1>3 DEF FetchDone
    <2>2. out = SubSeq(F, 1, x)
      BY <1>3 DEF Fetch
    <2> HIDE DEF F, out
    <2>3. m \in Nat /\ DOMAIN F = 1 .. m
      BY <1>1
    <2> HIDE DEF m
    <2>4. x \in 0 .. m /\ fetched + x <= query.limit /\ (fetched + x = query.limit \/ x = m)
      BY <2>1, <2>3 DEF Min2
    <2> HIDE DEF x
    <2>5. DOMAIN out = 1 .. x /\ Len(out) = x /\ \A i \in 1 .. x : out[i] = F[i]
      <3>1. \A i \in 1 .. x : F[i] \in S
        BY <1>1, <2>3, <2>4
      <3> QED
        BY <1>1, <2>2, <2>3, <2>4, <3>1
    <2>6. \A i \in 1 .. x : i \in 1 .. m
      BY <2>3, <2>4
    <2>7. Distinct(out)
      BY <1>1, <2>3, <2>5, <2>6 DEF Distinct
    <2>8. Ran(out) \subseteq Ran(F)
      BY <2>3, <2>5, <2>6 DEF Ran
    <2>9. x = m => Ran(F) \subseteq Ran(out)
      BY <2>3, <2>5 DEF Ran
    <2>10. fetched + Len(out) <= query.limit
      BY <2>4, <2>5
    <2>11. all => fetched + Len(out) = query.limit \/ (Len(out) = Len(rows) /\ Ran(rows) \subseteq Ran(out))
      <3>1. all => Ran(F) = Ran(rows)
        BY <1>1
      <3> HIDE DEF all
      <3> QED
        BY <1>1, <2>4, <2>5, <2>9, <3>1
    <2>12. \A r \in Ran(out) : r \in Ran(rows) /\ PassesFilterExec(r)
      BY <1>1, <2>8
    <2> QED
      BY <1>3, <2>7, <2>10, <2>11, <2>12 DEF Passed, out
  <1> QED
    BY <1>2, <1>3

\* How many rows there are without repetition.
LEMMA DistinctSize ==
    ASSUME NEW S, NEW v \in Seq(S), Distinct(v)
    PROVE  IsFiniteSet(Ran(v)) /\ Cardinality(Ran(v)) = Len(v)
  <1>1. Len(v) \in Nat /\ DOMAIN v = 1 .. Len(v)
    OBVIOUS
  <1>2. v \in Surjection(1 .. Len(v), Ran(v)) /\ v \in Injection(1 .. Len(v), Ran(v))
    <2>1. v \in [1 .. Len(v) -> Ran(v)]
      <3>1. v \in [1 .. Len(v) -> S]
        BY <1>1
      <3> QED
        BY <1>1, <3>1 DEF Ran
    <2>2. \A r \in Ran(v) : \E k \in 1 .. Len(v) : v[k] = r
      BY <1>1 DEF Ran
    <2>3. \A j, k \in 1 .. Len(v) : v[j] = v[k] => j = k
      BY <1>1 DEF Distinct
    <2> DEFINE T == Ran(v)
               D == 1 .. Len(v)
    <2> HIDE DEF T, D
    <2>4. v \in Surjection(D, T)
      BY <2>1, <2>2 DEF Surjection, T, D
    <2>5. v \in Injection(D, T)
      BY <2>1, <2>3 DEF Injection, IsInjective, T, D
    <2> QED
      BY <2>4, <2>5 DEF T, D
  <1>3. IsFiniteSet(1 .. Len(v)) /\ Cardinality(1 .. Len(v)) = Len(v)
    BY <1>1, UptoSize
  <1> QED
    BY <1>2, <1>3, FS_Surjection

\* Rows without repetition are in their bag once.
LEMMA BagOfDistinct ==
    ASSUME NEW S, NEW v \in Seq(S), Distinct(v)
    PROVE  \A r \in Ran(v) : BagOf(v)[r] = 1
  <1>1. ASSUME NEW r \in Ran(v) PROVE BagOf(v)[r] = 1
    <2>1. PICK k \in DOMAIN v : v[k] = r
      BY DEF Ran
    <2>2. {j \in DOMAIN v : v[j] = r} = {k}
      BY <2>1 DEF Distinct
    <2>3. Cardinality({k}) = 1
      BY FS_Singleton
    <2> QED
      BY <2>2, <2>3, BagOfFacts
  <1> QED
    BY <1>1

-----------------------------------------------------------------------------
(* What has been read, queued and returned. *)

\* The cells of the tiles that stream s of partition p has queued.
PastCells(p, s) ==
    IF s.state = "closed" \/ MatchesNothing THEN {}
    ELSE Seen(s.grid, EffectiveSels(p), WindowTiles(p), Len(Dims(query)))

\* The LIMIT is met with F rows.
Met(F) == query.limit # NoLimit /\ F >= query.limit

\* Stream s of partition p when the rows D, F of them, have been returned: what is
\* pending has been read and not been returned; of its box, only what was read has
\* been returned, and of that everything wanted or pending, up to the LIMIT; it ends
\* at the LIMIT or when it has read its box; and it has not emitted more than it
\* delivered and holds, or the LIMIT is met.
StreamRows(p, s, F, D) ==
    /\ Queued(s.pending, PastCells(p, s))
    /\ \A r \in Ran(s.pending) : r \notin D
    /\ \A c \in Box(p) : <<c, c>> \in D => c \in PastCells(p, s)
    /\ \/ Met(F) \/ LimitReached(s)
       \/ \A c \in PastCells(p, s) : Asks(c) => <<c, c>> \in D \/ <<c, c>> \in Ran(s.pending)
    /\ s.state = "done" => MatchesNothing \/ LimitReached(s) \/ (s.grid.done /\ ~PlanDividesByZero(p))
    /\ query.limit # NoLimit => Met(F) \/ s.emitted <= Len(s.pending) + F

\* The rows B that were returned, F of them: wanted, each once, within the LIMIT.
Returned(F, B) ==
    /\ \A r \in DOMAIN B : B[r] = 1
    /\ DOMAIN B \subseteq Wanted(query)
    /\ IsFiniteSet(DOMAIN B) /\ Cardinality(DOMAIN B) = F
    /\ query.limit # NoLimit => F <= query.limit

\* The inductive invariant of the rows of an answered query.
RowsInv ==
    phase \notin PlanPhases /\ Answered =>
        /\ Returned(fetched, delivered)
        /\ \A p \in 1 .. NPartitions : StreamRows(p, streams[p], fetched, DOMAIN delivered)

\* The cells a stream has read are cells of its box.
LEMMA PastInBox ==
    ASSUME PlanInv, phase \notin PlanPhases, NEW p \in 1 .. NPartitions, NEW s,
           s.state # "closed" /\ ~MatchesNothing => ~PlanDividesByZero(p)
    PROVE  PastCells(p, s) \subseteq Box(p)
  <1> DEFINE n == Len(Dims(query))
             sels == EffectiveSels(p)
             tiles == WindowTiles(p)
  <1>1. CASE s.state = "closed" \/ MatchesNothing
    BY <1>1 DEF PastCells
  <1>2. CASE ~(s.state = "closed" \/ MatchesNothing)
    <2>1. n \in Nat /\ sels \in [1 .. n -> Sels] /\ tiles \in [1 .. n -> Nat]
      BY <1>2, PartitionTyped
    <2>2. PastCells(p, s) = Seen(s.grid, sels, tiles, n) /\ Box(p) = BoxCells(sels, n)
      BY <1>2 DEF PastCells, Box
    <2> HIDE DEF n, sels, tiles
    <2> QED
      BY <2>1, <2>2, SeenInside
  <1> QED
    BY <1>1, <1>2

\* A pair of a cell with itself names the cell.
LEMMA SameCell ==
    ASSUME NEW c, NEW d, <<c, c>> = <<d, d>>
    PROVE  c = d
  OBVIOUS

\* Rows of another partition change nothing for a stream.
LEMMA OtherRows ==
    ASSUME PlanInv, phase \notin PlanPhases, Answered, NEW p \in 1 .. NPartitions, NEW q \in 1 .. NPartitions, p # q,
           NEW s, s.pending # <<>> => ~MatchesNothing /\ ~PlanDividesByZero(q),
           NEW F \in Nat, NEW D, StreamRows(q, s, F, D), s.emitted \in Nat, Len(s.pending) \in Nat,
           NEW G \in Nat, F <= G, NEW O, \A r \in O : \E c \in Box(p) : r = <<c, c>>,
           O # {} => ~MatchesNothing
    PROVE  StreamRows(q, s, G, D \cup O)
  <1>1. query.limit \in Nat \cup {NoLimit}
    BY Geometry DEF PlanInv
  <1>2. Met(F) => Met(G)
    BY <1>1 DEF Met
  <1>3. ASSUME NEW c \in Box(q), <<c, c>> \in O PROVE FALSE
    <2>1. PICK d \in Box(p) : <<c, c>> = <<d, d>>
      BY <1>3
    <2>2. c \in Box(p)
      BY <2>1, SameCell
    <2>3. ~MatchesNothing
      BY <1>3
    <2> QED
      BY <2>2, <2>3, BoxesDisjoint
  <1>4. ASSUME NEW r \in Ran(s.pending) PROVE r \notin O
    <2>1. PICK k \in DOMAIN s.pending : r = s.pending[k]
      BY DEF Ran
    <2>2. s.pending # <<>>
      BY <2>1
    <2>3. PastCells(q, s) \subseteq Box(q)
      BY <2>2, PastInBox
    <2>4. PICK c \in PastCells(q, s) : r = <<c, c>>
      BY <2>1 DEF StreamRows, Queued
    <2> QED
      BY <1>3, <2>3, <2>4
  <1>5. query.limit # NoLimit => Met(G) \/ s.emitted <= Len(s.pending) + G
    <2>1. query.limit # NoLimit => Met(F) \/ s.emitted <= Len(s.pending) + F
      BY DEF StreamRows
    <2> DEFINE e == s.emitted
               l == Len(s.pending)
    <2>2. e \in Nat /\ l \in Nat
      OBVIOUS
    <2>3. e <= l + F => e <= l + G
      <3> HIDE DEF e, l
      <3> QED
        BY <2>2
    <2> QED
      BY <1>2, <2>1, <2>3
  <1>6. \A r \in Ran(s.pending) : r \notin D \cup O
    BY <1>4 DEF StreamRows
  <1>7. \A c \in Box(q) : <<c, c>> \in D \cup O => c \in PastCells(q, s)
    BY <1>3 DEF StreamRows
  <1>8. \/ Met(G) \/ LimitReached(s)
        \/ \A c \in PastCells(q, s) : Asks(c) => <<c, c>> \in D \cup O \/ <<c, c>> \in Ran(s.pending)
    BY <1>2 DEF StreamRows
  <1>9. /\ Queued(s.pending, PastCells(q, s))
        /\ s.state = "done" => MatchesNothing \/ LimitReached(s) \/ (s.grid.done /\ ~PlanDividesByZero(q))
    BY DEF StreamRows
  <1> QED
    BY <1>5, <1>6, <1>7, <1>8, <1>9 DEF StreamRows

\* A stream that changes its state, and reads and queues nothing.
LEMMA SamePast ==
    ASSUME NEW p, NEW s, NEW F, NEW D, StreamRows(p, s, F, D),
           NEW t, t.pending = s.pending, t.emitted = s.emitted, PastCells(p, t) = PastCells(p, s),
           t.state = "done" => MatchesNothing \/ LimitReached(s) \/ (t.grid.done /\ ~PlanDividesByZero(p))
    PROVE  StreamRows(p, t, F, D)
  <1>1. LimitReached(t) <=> LimitReached(s)
    BY DEF LimitReached
  <1> QED
    BY <1>1 DEF StreamRows

\* A stream that has not been opened.
LEMMA ClosedRows ==
    ASSUME NEW p
    PROVE  StreamRows(p, Closed, 0, {})
  <1>1. Closed.state = "closed" /\ Closed.pending = <<>> /\ Closed.emitted = 0
    BY DEF Closed
  <1>2. PastCells(p, Closed) = {}
    BY <1>1 DEF PastCells
  <1>3. Ran(<<>>) = {} /\ Distinct(<<>>) /\ Len(<<>>) = 0
    BY DEF Ran, Distinct
  <1>4. Queued(<<>>, {})
    BY <1>3 DEF Queued
  <1> QED
    BY <1>1, <1>2, <1>3, <1>4 DEF StreamRows

\* A window is built: its rows are new.
LEMMA WindowRows ==
    ASSUME NEW p, NEW s, NEW F \in Nat, NEW D, StreamRows(p, s, F, D), s.pending = <<>>, ~LimitReached(s),
           s.emitted \in Nat, scan_limit \in Nat \cup {NoLimit},
           NEW T, T \subseteq Box(p), \A c \in T : c \notin PastCells(p, s),
           NEW t, t.state = "open", PastCells(p, t) = PastCells(p, s) \cup T,
           Queued(t.pending, T), Len(t.pending) \in Nat, t.emitted = s.emitted + Len(t.pending),
           scan_limit = NoLimit \/ t.emitted < scan_limit => \A c \in T : <<c, c>> \in Ran(t.pending)
    PROVE  StreamRows(p, t, F, D)
  <1>1. Queued(t.pending, PastCells(p, t))
    BY DEF Queued
  <1>2. ASSUME NEW r \in Ran(t.pending) PROVE r \notin D
    <2>1. PICK c \in T : r = <<c, c>>
      BY DEF Ran, Queued
    <2>2. c \in Box(p) /\ c \notin PastCells(p, s)
      OBVIOUS
    <2> QED
      BY <2>1, <2>2 DEF StreamRows
  <1>3. \A c \in Box(p) : <<c, c>> \in D => c \in PastCells(p, t)
    BY DEF StreamRows
  <1>4. \/ Met(F) \/ LimitReached(t)
        \/ \A c \in PastCells(p, t) : Asks(c) => <<c, c>> \in D \/ <<c, c>> \in Ran(t.pending)
    <2>1. LimitReached(t) \/ scan_limit = NoLimit \/ t.emitted < scan_limit
      <3> DEFINE e == t.emitted
      <3>1. e \in Nat
        OBVIOUS
      <3>2. LimitReached(t) <=> scan_limit # NoLimit /\ e >= scan_limit
        BY DEF LimitReached
      <3> HIDE DEF e
      <3>3. LimitReached(t) \/ scan_limit = NoLimit \/ e < scan_limit
        BY <3>1, <3>2
      <3> QED
        BY <3>3 DEF e
    <2>2. Met(F) \/ \A c \in PastCells(p, s) : Asks(c) => <<c, c>> \in D
      <3>1. Ran(s.pending) = {}
        BY DEF Ran
      <3> QED
        BY <3>1 DEF StreamRows
    <2> QED
      BY <2>1, <2>2
  <1>5. query.limit # NoLimit => Met(F) \/ t.emitted <= Len(t.pending) + F
    <2> DEFINE e == s.emitted
               l == Len(t.pending)
    <2>1. e \in Nat /\ l \in Nat /\ t.emitted = e + l
      OBVIOUS
    <2>2. query.limit # NoLimit => Met(F) \/ e <= 0 + F
      BY DEF StreamRows
    <2> HIDE DEF e, l
    <2>3. e <= 0 + F => e + l <= l + F
      BY <2>1
    <2>4. query.limit # NoLimit => Met(F) \/ t.emitted <= l + F
      BY <2>1, <2>2, <2>3
    <2> QED
      BY <2>4 DEF l
  <1> QED
    BY <1>1, <1>2, <1>3, <1>4, <1>5 DEF StreamRows

\* A slice of at most batch_size rows is cut off a sequence of rows.
Cut(rows, head, tail) ==
    /\ Ran(rows) = Ran(head) \cup Ran(tail) /\ \A r \in Ran(head) : r \notin Ran(tail)
    /\ Distinct(head) /\ Distinct(tail)
    /\ Len(head) \in Nat /\ Len(tail) \in Nat /\ Len(rows) = Len(head) + Len(tail)

\* SliceToBatchSize does it.
LEMMA SliceCuts ==
    ASSUME NEW S, NEW rows \in Seq(S), rows # <<>>, Distinct(rows)
    PROVE  LET n == SliceToBatchSize(rows, BatchSize)
           IN Cut(rows, SubSeq(rows, 1, n), SubSeq(rows, n + 1, Len(rows)))
  <1> DEFINE n == SliceToBatchSize(rows, BatchSize)
             head == SubSeq(rows, 1, n)
             tail == SubSeq(rows, n + 1, Len(rows))
             L == Len(rows)
  <1>1. /\ n \in 1 .. L /\ L \in Nat
        /\ head \in Seq(S) /\ Len(head) = n /\ \A i \in 1 .. n : head[i] = rows[i]
        /\ tail \in Seq(S) /\ Len(tail) = L - n /\ \A i \in 1 .. L - n : tail[i] = rows[n + i]
    BY SliceFacts
  <1>2. DOMAIN rows = 1 .. L /\ DOMAIN head = 1 .. n /\ DOMAIN tail = 1 .. L - n
    <2> HIDE DEF head, tail, n
    <2> QED
      BY <1>1
  <1> HIDE DEF head, tail, n, L
  <1>3. \A i \in 1 .. n : i \in 1 .. L
    BY <1>1
  <1>4. \A i \in 1 .. L - n : n + i \in 1 .. L
    BY <1>1
  <1>5. Distinct(head)
    BY <1>1, <1>2, <1>3 DEF Distinct
  <1>6. Distinct(tail)
    <2>1. ASSUME NEW i \in 1 .. L - n, NEW j \in 1 .. L - n, tail[i] = tail[j] PROVE i = j
      <3>0. rows[n + i] = rows[n + j] /\ n + i \in DOMAIN rows /\ n + j \in DOMAIN rows
        BY <1>1, <1>2, <1>4, <2>1
      <3>1. n + i = n + j
        BY <3>0 DEF Distinct
      <3> QED
        BY <1>1, <3>1
    <2> QED
      BY <1>2, <2>1 DEF Distinct
  <1>7. ASSUME NEW r \in Ran(head) PROVE r \in Ran(rows) /\ r \notin Ran(tail)
    <2>1. PICK i \in 1 .. n : r = rows[i]
      BY <1>1, <1>2 DEF Ran
    <2>2. ASSUME NEW j \in 1 .. L - n, r = tail[j] PROVE FALSE
      <3>1. i = n + j
        BY <1>1, <1>2, <1>3, <1>4, <2>1, <2>2 DEF Distinct
      <3> QED
        BY <1>1, <3>1
    <2> QED
      BY <1>2, <1>3, <2>1, <2>2 DEF Ran
  <1>8. ASSUME NEW r \in Ran(tail) PROVE r \in Ran(rows)
    <2>1. PICK i \in 1 .. L - n : r = tail[i]
      BY <1>2 DEF Ran
    <2>2. n + i \in 1 .. L /\ r = rows[n + i]
      BY <1>1, <1>4, <2>1
    <2> QED
      BY <1>2, <2>2 DEF Ran
  <1>9. ASSUME NEW r \in Ran(rows) PROVE r \in Ran(head) \cup Ran(tail)
    <2>1. PICK k \in 1 .. L : r = rows[k]
      BY <1>2 DEF Ran
    <2>2. CASE k <= n
      <3>1. k \in 1 .. n
        BY <1>1, <2>2
      <3> QED
        BY <1>1, <1>2, <2>1, <3>1 DEF Ran
    <2>3. CASE k > n
      <3>1. k - n \in 1 .. L - n /\ n + (k - n) = k
        BY <1>1, <2>3
      <3>2. tail[k - n] = r
        BY <1>1, <2>1, <3>1
      <3> QED
        BY <1>2, <3>1, <3>2 DEF Ran
    <2> QED
      BY <1>1, <2>2, <2>3
  <1>10. Len(head) \in Nat /\ Len(tail) \in Nat /\ Len(rows) = Len(head) + Len(tail)
    BY <1>1 DEF L
  <1> QED
    BY <1>5, <1>6, <1>7, <1>8, <1>9, <1>10 DEF Cut, head, tail, n, L

\* What is queued is in the partition's box, and with a LIMIT passes the filters.
LEMMA QueuedInBox ==
    ASSUME PlanInv, phase \notin PlanPhases, Answered, ~MatchesNothing, NEW p \in 1 .. NPartitions, ~PlanDividesByZero(p),
           NEW s, Queued(s.pending, PastCells(p, s)), NEW r \in Ran(s.pending)
    PROVE  \E c \in Box(p) : /\ r = <<c, c>> /\ c \in Cells
                             /\ PassesFilterExec(r) => Asks(c)
                             /\ query.limit # NoLimit => PassesFilterExec(r)
  <1>1. PastCells(p, s) \subseteq Box(p)
    BY PastInBox
  <1>2. PICK c \in Box(p) : r = <<c, c>>
    BY <1>1 DEF Queued, Ran
  <1>3. c \in Cells
    BY DEF Box, BoxCells, Cells
  <1>4. PassesFilterExec(r) \/ query.limit # NoLimit => Asks(c)
    BY <1>2, BoxWanted
  <1>5. Asks(c) => PassesFilterExec(r)
    BY <1>2, WantedPasses DEF PlanInv
  <1> QED
    BY <1>2, <1>3, <1>4, <1>5

\* A slice is handed on: what comes of it has been returned, the rest is pending.
LEMMA HandedRows ==
    ASSUME PlanInv, phase \notin PlanPhases, Answered, ~MatchesNothing, NEW p \in 1 .. NPartitions, ~PlanDividesByZero(p),
           NEW s, NEW D, StreamRows(p, s, fetched, D), s.state = "open", s.emitted \in Nat,
           fetched \in Nat,
           NEW t, t.state = "open", t.grid = s.grid, t.emitted = s.emitted,
           NEW head, Cut(s.pending, head, t.pending),
           NEW out, Passed(head, out), Len(out) \in Nat
    PROVE  StreamRows(p, t, fetched + Len(out), D \cup Ran(out))
  <1> DEFINE F == fetched
             G == fetched + Len(out)
             rows == s.pending
             tail == t.pending
             O == Ran(out)
  <1>1. query.limit \in Nat \cup {NoLimit} /\ query \in Queries
    BY Geometry DEF PlanInv
  <1>2. G \in Nat /\ F <= G
    OBVIOUS
  <1>3. PastCells(p, t) = PastCells(p, s)
    BY DEF PastCells
  <1>4. LimitReached(t) <=> LimitReached(s)
    BY DEF LimitReached
  <1>5. /\ Ran(rows) = Ran(head) \cup Ran(tail) /\ \A r \in Ran(head) : r \notin Ran(tail)
        /\ Distinct(tail) /\ Len(tail) \in Nat /\ Len(head) \in Nat /\ Len(rows) = Len(head) + Len(tail)
    BY DEF Cut
  <1>6. \A r \in O : r \in Ran(head)
    BY DEF Passed
  <1>7. Queued(tail, PastCells(p, t))
    <2>1. ASSUME NEW k \in DOMAIN tail PROVE \E c \in PastCells(p, s) : tail[k] = <<c, c>>
      <3>1. tail[k] \in Ran(rows)
        BY <1>5 DEF Ran
      <3> QED
        BY <3>1 DEF StreamRows, Queued, Ran
    <2> QED
      BY <1>3, <1>5, <2>1 DEF Queued
  <1>8. \A r \in Ran(tail) : r \notin D \cup O
    BY <1>5, <1>6 DEF StreamRows
  <1>9. ASSUME NEW c \in Box(p), <<c, c>> \in D \cup O PROVE c \in PastCells(p, t)
    <2>1. CASE <<c, c>> \in D
      BY <1>3, <2>1 DEF StreamRows
    <2>2. CASE <<c, c>> \in O
      <3>1. <<c, c>> \in Ran(rows)
        BY <1>5, <1>6, <2>2
      <3>2. PICK d \in PastCells(p, s) : <<c, c>> = <<d, d>>
        BY <3>1 DEF StreamRows, Queued, Ran
      <3> QED
        BY <1>3, <3>2, SameCell
    <2> QED
      BY <1>9, <2>1, <2>2
  <1>10. query.limit # NoLimit => \A r \in Ran(head) : PassesFilterExec(r)
    <2>1. Queued(rows, PastCells(p, s))
      BY DEF StreamRows
    <2> QED
      BY <1>5, <2>1, QueuedInBox
  <1>11. query.limit # NoLimit => Met(G) \/ (Len(out) = Len(head) /\ Ran(head) \subseteq O)
    BY <1>1, <1>2, <1>10 DEF Passed, Met
  <1>12. Met(G) \/ \A r \in Ran(head) : PassesFilterExec(r) => r \in O
    BY <1>11 DEF Passed
  <1>13. Met(F) => Met(G)
    BY <1>1, <1>2 DEF Met
  <1>14. \/ Met(G) \/ LimitReached(t)
         \/ \A c \in PastCells(p, t) : Asks(c) => <<c, c>> \in D \cup O \/ <<c, c>> \in Ran(tail)
    <2>1. SUFFICES ASSUME ~Met(G), ~LimitReached(t), NEW c \in PastCells(p, t), Asks(c)
                   PROVE  <<c, c>> \in D \cup O \/ <<c, c>> \in Ran(tail)
      OBVIOUS
    <2>2. <<c, c>> \in D \/ <<c, c>> \in Ran(rows)
      BY <1>3, <1>4, <1>13, <2>1 DEF StreamRows
    <2>3. PassesFilterExec(<<c, c>>)
      BY <1>1, <2>1, WantedPasses
    <2> QED
      BY <1>5, <1>12, <2>1, <2>2, <2>3
  <1>15. query.limit # NoLimit => Met(G) \/ t.emitted <= Len(tail) + G
    <2> DEFINE e == s.emitted
               lh == Len(head)
               lt == Len(tail)
               lo == Len(out)
    <2>1. query.limit # NoLimit => Met(F) \/ e <= (lh + lt) + F
      BY <1>5 DEF StreamRows
    <2>2. e \in Nat /\ lh \in Nat /\ lt \in Nat /\ lo \in Nat /\ t.emitted = e /\ G = F + lo /\ F \in Nat
      BY <1>5
    <2> HIDE DEF e, lh, lt, lo, F, G
    <2>3. e <= (lh + lt) + F /\ lo = lh => e <= lt + G
      BY <2>2
    <2>4. query.limit # NoLimit => Met(G) \/ lo = lh
      BY <1>11 DEF lo, lh
    <2>5. query.limit # NoLimit => Met(G) \/ e <= lt + G
      BY <1>13, <2>1, <2>3, <2>4
    <2> QED
      BY <2>2, <2>5 DEF lt
  <1>16. t.state # "done"
    OBVIOUS
  <1> HIDE DEF G, O, tail
  <1>17. StreamRows(p, t, G, D \cup O)
    BY <1>7, <1>8, <1>9, <1>14, <1>15, <1>16 DEF StreamRows, tail
  <1> QED
    BY <1>17 DEF G, O

\* The rows out of partition p join those that have been returned.
Joined(p, out) ==
    /\ Returned(fetched + Len(out), delivered (+) BagOf(out))
    /\ DOMAIN (delivered (+) BagOf(out)) = DOMAIN delivered \cup Ran(out)
    /\ \A r \in Ran(out) : \E c \in Box(p) : r = <<c, c>>

\* The rows returned with a slice are new and wanted.
LEMMA ReturnedMore ==
    ASSUME PlanInv, phase \notin PlanPhases, Answered, ~MatchesNothing, NEW p \in 1 .. NPartitions, ~PlanDividesByZero(p),
           NEW s, StreamRows(p, s, fetched, DOMAIN delivered), fetched \in Nat, IsABag(delivered),
           Returned(fetched, delivered),
           NEW head, NEW tail, Cut(s.pending, head, tail),
           NEW S, NEW out \in Seq(S), Passed(head, out)
    PROVE  Joined(p, out)
  <1> DEFINE B == delivered
             C == BagOf(out)
             D == DOMAIN delivered
             O == Ran(out)
  <1>0. query \in Queries
    BY DEF PlanInv
  <1>1. Distinct(out) /\ \A r \in O : r \in Ran(head) /\ PassesFilterExec(r)
    BY DEF Passed
  <1>2. \A r \in O : r \in Ran(s.pending)
    BY <1>1 DEF Cut
  <1>3. ASSUME NEW r \in O PROVE r \notin D /\ r \in Wanted(query) /\ \E c \in Box(p) : r = <<c, c>>
    <2>1. r \notin D
      BY <1>2 DEF StreamRows
    <2>2. Queued(s.pending, PastCells(p, s))
      BY DEF StreamRows
    <2>3. PICK c \in Box(p) : r = <<c, c>> /\ c \in Cells /\ (PassesFilterExec(r) => Asks(c))
      BY <1>2, <2>2, QueuedInBox
    <2>4. Asks(c)
      BY <1>1, <2>3
    <2> QED
      BY <1>0, <2>1, <2>3, <2>4, WantedFacts
  <1>4. IsABag(C) /\ DOMAIN C = O
    BY BagOfFacts
  <1>5. \A r \in O : C[r] = 1
    BY <1>1, BagOfDistinct
  <1>6. IsFiniteSet(O) /\ Cardinality(O) = Len(out)
    BY <1>1, DistinctSize
  <1>7. /\ \A r \in D : B[r] = 1
        /\ D \subseteq Wanted(query) /\ IsFiniteSet(D) /\ Cardinality(D) = fetched
    BY DEF Returned
  <1> HIDE DEF C, O
  <1>8. /\ DOMAIN (B (+) C) = D \cup O
        /\ \A e \in D \cup O : (B (+) C)[e] = (IF e \in D THEN B[e] ELSE 0) + (IF e \in O THEN C[e] ELSE 0)
    BY <1>4, BagUnionTyped
  <1>9. ASSUME NEW e \in D \cup O PROVE (B (+) C)[e] = 1
    <2>1. (B (+) C)[e] = (IF e \in D THEN B[e] ELSE 0) + (IF e \in O THEN C[e] ELSE 0)
      BY <1>8
    <2>2. CASE e \in D
      <3>1. e \notin O
        BY <1>3, <2>2
      <3>2. B[e] = 1
        BY <1>7, <2>2
      <3>3. (B (+) C)[e] = 1 + 0
        BY <2>1, <2>2, <3>1, <3>2
      <3> QED
        BY <3>3
    <2>3. CASE e \notin D
      <3>1. C[e] = 1
        BY <1>5, <2>3
      <3>2. (B (+) C)[e] = 0 + 1
        BY <2>1, <2>3, <3>1
      <3> QED
        BY <3>2
    <2> QED
      BY <2>2, <2>3
  <1>10. IsFiniteSet(D \cup O) /\ Cardinality(D \cup O) = fetched + Len(out)
    <2>1. D \cap O = {}
      BY <1>3
    <2>2. /\ IsFiniteSet(D \cup O)
          /\ Cardinality(D \cup O) = Cardinality(D) + Cardinality(O) - Cardinality(D \cap O)
      BY <1>6, <1>7, FS_Union
    <2>3. Cardinality(D \cap O) = 0
      BY <2>1, FS_EmptySet
    <2>4. Cardinality(D) \in Nat /\ Cardinality(O) \in Nat
      BY <1>6, <1>7, FS_CardinalityType
    <2> QED
      BY <1>6, <1>7, <2>2, <2>3, <2>4
  <1>11. query.limit # NoLimit => fetched + Len(out) <= query.limit
    BY DEF Passed
  <1>12. D \cup O \subseteq Wanted(query)
    BY <1>3, <1>7
  <1>13. Returned(fetched + Len(out), B (+) C)
    BY <1>8, <1>9, <1>10, <1>11, <1>12 DEF Returned
  <1> QED
    BY <1>3, <1>8, <1>13 DEF C, O, Joined

-----------------------------------------------------------------------------
(* The rows of an answered query, step by step. *)

\* Whether a query is answered is settled when its scan starts.
LEMMA SameQuery ==
    ASSUME query' = query, specs' = specs, resolution' = resolution, scan_limit' = scan_limit
    PROVE  /\ Answered' <=> Answered
           /\ Wanted(query)' = Wanted(query)
           /\ \A c : Asks(c)' <=> Asks(c)
           /\ \A p : Box(p)' = Box(p)
           /\ ResolvedAs' <=> ResolvedAs
  <1>1. ReaderSpecs' = ReaderSpecs
    BY DEF ReaderSpecs
  <1>2. \A p : EffectiveSels(p)' = EffectiveSels(p)
    BY SameContext
  <1>3. /\ OuterFilterHonoured' <=> OuterFilterHonoured
        /\ OuterIsNamed(query)' <=> OuterIsNamed(query)
    BY DEF OuterFilterHonoured
  <1>4. /\ PartitionsCutProjectedAxes' <=> PartitionsCutProjectedAxes
        /\ PartitionsReachReader' <=> PartitionsReachReader
    BY <1>1 DEF PartitionsCutProjectedAxes, PartitionsReachReader
  <1>5. /\ FiltersOnProjectedAxes' <=> FiltersOnProjectedAxes
        /\ ListsOnFirstAxisOnly' <=> ListsOnFirstAxisOnly
        /\ AxesMatchCoords' <=> AxesMatchCoords
    BY DEF FiltersOnProjectedAxes, ListsOnFirstAxisOnly, AxesMatchCoords
  <1>6. Answered' <=> Answered
    BY <1>3, <1>4, <1>5 DEF Answered
  <1>7. Wanted(query)' = Wanted(query)
    OBVIOUS
  <1>8. \A c : Asks(c)' <=> Asks(c)
    BY DEF Asks
  <1>9. \A p : Box(p)' = Box(p)
    BY <1>2 DEF Box
  <1>10. ResolvedAs' <=> ResolvedAs
    BY DEF ResolvedAs
  <1> QED
    BY <1>6, <1>7, <1>8, <1>9, <1>10

\* What holds of the next streams in the plan that is executed holds of the streams next.
LEMMA RowsNext ==
    ASSUME query' = query, specs' = specs, resolution' = resolution, scan_limit' = scan_limit,
           Returned(fetched', delivered'),
           \A p \in 1 .. NPartitions : StreamRows(p, streams'[p], fetched', DOMAIN delivered')
    PROVE  RowsInv'
  <1>1. /\ NPartitions' = NPartitions
        /\ MatchesNothing' <=> MatchesNothing
        /\ \A p : EffectiveSels(p)' = EffectiveSels(p) /\ WindowTiles(p)' = WindowTiles(p)
        /\ \A p : PlanDividesByZero(p)' <=> PlanDividesByZero(p)
    BY SameContext
  <1>2. /\ Wanted(query)' = Wanted(query) /\ \A c : Asks(c)' <=> Asks(c)
        /\ \A p : Box(p)' = Box(p)
    BY SameQuery
  <1>3. Returned(fetched, delivered)'
    BY <1>2 DEF Returned
  <1>4. ASSUME NEW p \in 1 .. NPartitions
        PROVE  StreamRows(p, streams[p], fetched, DOMAIN delivered)'
    <2>1. PastCells(p, streams[p])' = PastCells(p, streams'[p])
      BY <1>1 DEF PastCells
    <2>2. LimitReached(streams[p])' <=> LimitReached(streams'[p])
      BY DEF LimitReached
    <2>3. Met(fetched)' <=> Met(fetched')
      BY DEF Met
    <2>4. StreamRows(p, streams'[p], fetched', DOMAIN delivered')
      OBVIOUS
    <2> QED
      BY <1>1, <1>2, <2>1, <2>2, <2>3, <2>4 DEF StreamRows
  <1> QED
    BY <1>1, <1>3, <1>4 DEF RowsInv

\* A step that only ends the execution, or does nothing.
LEMMA RowsKept ==
    ASSUME ScanInv, RowsInv, phase \notin PlanPhases,
           UNCHANGED <<query, resolution, specs, scan_limit, streams, fetched, delivered>>
    PROVE  RowsInv'
  <1>1. CASE Answered
    <2>1. /\ Returned(fetched, delivered)
          /\ \A p \in 1 .. NPartitions : StreamRows(p, streams[p], fetched, DOMAIN delivered)
      BY <1>1 DEF RowsInv
    <2> QED
      BY <2>1, RowsNext
  <1>2. CASE ~Answered
    <2>1. ~Answered'
      BY <1>2, SameQuery
    <2> QED
      BY <2>1 DEF RowsInv
  <1> QED
    BY <1>1, <1>2

\* The streams start.
LEMMA RowsStart ==
    ASSUME ScanInv, Execute
    PROVE  RowsInv'
  <1>1. fetched = 0 /\ delivered = EmptyBag
    BY DEF ScanInv, Execute, ScaleUpLeafNode, PlanPhases
  <1>2. fetched' = 0 /\ delivered' = EmptyBag /\ query' = query
    BY <1>1 DEF Execute, ScaleUpLeafNode
  <1>3. DOMAIN EmptyBag = {}
    BY DEF EmptyBag, SetToBag
  <1>4. streams' = [p \in 1 .. NPartitions' |-> Closed]
    BY DEF Execute, NPartitions
  <1>5. Returned(fetched, delivered)'
    <2>1. IsFiniteSet({}) /\ Cardinality({}) = 0
      BY FS_EmptySet
    <2>2. query'.limit \in Nat \cup {NoLimit}
      BY <1>2, Geometry DEF ScanInv, PlanInv
    <2>3. query'.limit # NoLimit => 0 <= query'.limit
      BY <2>2
    <2> QED
      BY <1>2, <1>3, <2>1, <2>3 DEF Returned
  <1>6. ASSUME NEW p \in 1 .. NPartitions'
        PROVE  StreamRows(p, streams[p], fetched, DOMAIN delivered)'
    <2>1. streams'[p] = Closed /\ Closed.state = "closed" /\ Closed.pending = <<>> /\ Closed.emitted = 0
      BY <1>4 DEF Closed
    <2>2. PastCells(p, streams[p])' = {}
      BY <2>1 DEF PastCells
    <2>3. Ran(<<>>) = {} /\ Distinct(<<>>) /\ Len(<<>>) = 0
      BY DEF Ran, Distinct
    <2>4. Queued(<<>>, {})
      BY <2>3 DEF Queued
    <2> QED
      BY <1>2, <1>3, <2>1, <2>2, <2>3, <2>4 DEF StreamRows
  <1> QED
    BY <1>5, <1>6 DEF RowsInv

\* A step of one stream that returns nothing.
LEMMA QuietStep ==
    ASSUME ScanInv, RowsInv, phase = "scan", Answered, NEW p \in DOMAIN streams,
           UNCHANGED <<query, resolution, specs, scan_limit, fetched, delivered>>,
           streams' = [streams EXCEPT ![p] = streams'[p]],
           StreamRows(p, streams'[p], fetched, DOMAIN delivered)
    PROVE  RowsInv'
  <1>1. p \in 1 .. NPartitions /\ DOMAIN streams = 1 .. NPartitions /\ phase \notin PlanPhases
    BY Polled
  <1>2. /\ Returned(fetched, delivered)
        /\ \A q \in 1 .. NPartitions : StreamRows(q, streams[q], fetched, DOMAIN delivered)
    BY <1>1 DEF RowsInv
  <1>3. \A q \in 1 .. NPartitions : q # p => streams'[q] = streams[q]
    BY <1>1
  <1>4. Returned(fetched', delivered')
    BY <1>2
  <1>5. ASSUME NEW q \in 1 .. NPartitions
        PROVE  StreamRows(q, streams'[q], fetched', DOMAIN delivered')
    BY <1>2, <1>3
  <1> QED
    BY <1>4, <1>5, RowsNext

\* A stream ends, or its grid is laid out.
LEMMA RowsEnd ==
    ASSUME ScanInv, RowsInv, NEW p \in DOMAIN streams, OpenEmpty(p) \/ EndStream(p) \/ OpenTiles(p)
    PROVE  RowsInv'
  <1> DEFINE s == streams[p]
             t == streams'[p]
             n == Len(Dims(query))
  <1>0. phase = "scan" /\ UNCHANGED <<query, resolution, specs, scan_limit, fetched, delivered>>
    BY DEF OpenEmpty, EndStream, OpenTiles, NeedsWindow, planVars
  <1>1. /\ p \in 1 .. NPartitions /\ DOMAIN streams = 1 .. NPartitions /\ PlanInv /\ phase \notin PlanPhases
        /\ StreamOK(s, EffectiveSels(p), WindowTiles(p), n, Max2(1, WindowTarget)) /\ StreamTyped(p)
    BY <1>0, Polled
  <1>2. s = [state |-> s.state, grid |-> s.grid, emitted |-> s.emitted, pending |-> s.pending]
    BY <1>1 DEF StreamOK
  <1>3. CASE ~Answered
    <2>1. ~Answered'
      BY <1>0, <1>3, SameQuery
    <2> QED
      BY <2>1 DEF RowsInv
  <1>4. CASE Answered
    <2>1. StreamRows(p, s, fetched, DOMAIN delivered)
      BY <1>1, <1>4 DEF RowsInv
    <2>2. streams' = [streams EXCEPT ![p] = t]
      BY <1>1 DEF OpenEmpty, EndStream, OpenTiles
    <2>3. StreamRows(p, t, fetched, DOMAIN delivered)
      <3>1. CASE OpenEmpty(p)
        <4>1. t = [s EXCEPT !.state = "done"] /\ MatchesNothing
          BY <1>1, <3>1 DEF OpenEmpty
        <4> HIDE DEF t
        <4>2. t.pending = s.pending /\ t.emitted = s.emitted
          BY <1>2, <4>1
        <4>3. PastCells(p, t) = PastCells(p, s)
          BY <4>1 DEF PastCells
        <4> HIDE DEF s
        <4> QED
          BY <2>1, <4>1, <4>2, <4>3, SamePast
      <3>2. CASE EndStream(p)
        <4>1. t = [s EXCEPT !.state = "done"] /\ s.state = "open" /\ (LimitReached(s) \/ s.grid.done)
          BY <1>1, <3>2 DEF EndStream, NeedsWindow
        <4> HIDE DEF t
        <4>2. ~PlanDividesByZero(p)
          BY <1>1, <4>1 DEF StreamTyped
        <4>3. t.pending = s.pending /\ t.emitted = s.emitted /\ t.grid = s.grid /\ t.state = "done"
          BY <1>2, <4>1
        <4>4. PastCells(p, t) = PastCells(p, s)
          BY <4>1, <4>3 DEF PastCells
        <4> HIDE DEF s
        <4> QED
          BY <2>1, <4>1, <4>2, <4>3, <4>4, SamePast
      <3>3. CASE OpenTiles(p)
        <4> DEFINE g == TileGrid(EffectiveSels(p), WindowTiles(p))
        <4>1. /\ t = [s EXCEPT !.state = "open", !.grid = g] /\ s.state = "closed"
              /\ ~MatchesNothing /\ ~PlanDividesByZero(p)
          BY <1>1, <3>3 DEF OpenTiles
        <4>2. n \in Nat \ {0} /\ EffectiveSels(p) \in [1 .. n -> Sels] /\ WindowTiles(p) \in [1 .. n -> Nat]
          BY <1>1, <4>1, PartitionTyped
        <4>3. Seen(g, EffectiveSels(p), WindowTiles(p), n) = {}
          <5> HIDE DEF n
          <5>1. n \in Nat
            BY <4>2
          <5> QED
            BY <4>2, <5>1, SeenNone
        <4> HIDE DEF t, g
        <4>4. t.pending = s.pending /\ t.emitted = s.emitted /\ t.grid = g /\ t.state = "open"
          BY <1>2, <4>1
        <4>5. PastCells(p, s) = {}
          BY <4>1 DEF PastCells
        <4>6. PastCells(p, t) = {}
          BY <4>1, <4>3, <4>4 DEF PastCells
        <4> HIDE DEF s
        <4> QED
          BY <2>1, <4>4, <4>5, <4>6, SamePast
      <3> QED
        BY <3>1, <3>2, <3>3
    <2> QED
      BY <1>0, <1>4, <2>2, <2>3, QuietStep
  <1> QED
    BY <1>3, <1>4

\* A window is built.
LEMMA RowsWindow ==
    ASSUME ScanInv, RowsInv, NEW p \in DOMAIN streams, NextWindow(p)
    PROVE  RowsInv'
  <1> DEFINE s == streams[p]
             t == streams'[p]
             n == Len(Dims(query))
             sels == EffectiveSels(p)
             tiles == WindowTiles(p)
             S == TileCells(s.grid.cursor, sels, tiles, n)
             rows == TileRows(p)
  <1>0. /\ phase = "scan" /\ UNCHANGED <<query, resolution, specs, scan_limit, fetched, delivered>>
        /\ HasWindow(p)
    BY DEF NextWindow, HasWindow, NeedsWindow, planVars
  <1>1. /\ p \in 1 .. NPartitions /\ DOMAIN streams = 1 .. NPartitions /\ PlanInv /\ phase \notin PlanPhases
        /\ StreamOK(s, sels, tiles, n, Max2(1, WindowTarget)) /\ StreamTyped(p)
    BY <1>0, Polled
  <1>2. /\ s.state = "open" /\ s.pending = <<>> /\ ~LimitReached(s) /\ ~s.grid.done
    BY <1>0 DEF HasWindow, NeedsWindow
  <1>3. /\ s = [state |-> s.state, grid |-> s.grid, emitted |-> s.emitted, pending |-> s.pending]
        /\ s.emitted \in Nat /\ GridOK(s.grid, sels, tiles, n)
    BY <1>1, <1>2 DEF StreamOK
  <1>4. ~MatchesNothing /\ ~PlanDividesByZero(p)
    BY <1>1, <1>2 DEF StreamTyped
  <1>5. n \in Nat \ {0} /\ sels \in [1 .. n -> Sels] /\ tiles \in [1 .. n -> Nat]
    BY <1>1, <1>4, PartitionTyped
  <1>6. /\ streams' = [streams EXCEPT ![p] = t]
        /\ t = [s EXCEPT !.grid = AdvanceGrid(@), !.emitted = @ + Len(rows), !.pending = rows]
    BY <1>1 DEF NextWindow
  <1>7. /\ t.state = "open" /\ t.grid = AdvanceGrid(s.grid) /\ t.emitted = s.emitted + Len(rows) /\ t.pending = rows
    <2> HIDE DEF t, rows
    <2> DEFINE e == s.emitted
               h == s.grid
               r == s.pending
               st == s.state
    <2> HIDE DEF e, h, r, st
    <2>1. s = [state |-> st, grid |-> h, emitted |-> e, pending |-> r]
      BY <1>3 DEF e, h, r, st
    <2>2. st = "open"
      BY <1>2 DEF st
    <2> HIDE DEF s
    <2>3. t = [state |-> st, grid |-> AdvanceGrid(h), emitted |-> e + Len(rows), pending |-> rows]
      BY <1>6, <2>1
    <2> QED
      BY <2>2, <2>3 DEF e, h
  <1>8. CASE ~Answered
    <2>1. ~Answered'
      BY <1>0, <1>8, SameQuery
    <2> QED
      BY <2>1 DEF RowsInv
  <1>9. CASE Answered
    <2>1. StreamRows(p, s, fetched, DOMAIN delivered)
      BY <1>1, <1>9 DEF RowsInv
    <2>2. /\ Queued(rows, S)
          /\ scan_limit = NoLimit \/ s.emitted + Len(rows) < scan_limit => \A c \in S : <<c, c>> \in Ran(rows)
      BY <1>0, <1>1, <1>9, NewRows
    <2>3. Len(rows) \in Nat
      BY <1>0, <1>1, RowsFit
    <2>4. /\ Visits(s.grid, AdvanceGrid(s.grid), sels, tiles, n) /\ S \subseteq BoxCells(sels, n)
      <3> DEFINE g == s.grid
      <3> HIDE DEF n, sels, tiles, g
      <3>1. n \in Nat
        BY <1>5
      <3>2. GridOK(g, sels, tiles, n) /\ ~g.done
        BY <1>2, <1>3 DEF g
      <3>3. Visits(g, AdvanceGrid(g), sels, tiles, n)
        BY <1>5, <3>1, <3>2, SeenNext
      <3>4. g.cursor \in Cursors(sels, tiles, n)
        BY <3>1, <3>2, StandsOnTile
      <3>5. TileCells(g.cursor, sels, tiles, n) \subseteq BoxCells(sels, n)
        BY <1>5, <3>1, <3>4, SeenInside
      <3> QED
        BY <3>3, <3>5 DEF g
    <2>5. PastCells(p, s) = Seen(s.grid, sels, tiles, n) /\ PastCells(p, t) = Seen(t.grid, sels, tiles, n)
      <3> HIDE DEF t
      <3> QED
        BY <1>2, <1>4, <1>7 DEF PastCells
    <2>6. Box(p) = BoxCells(sels, n)
      BY DEF Box
    <2> HIDE DEF s, t, S, rows, sels, tiles, n
    <2>7. PastCells(p, t) = PastCells(p, s) \cup S /\ \A c \in S : c \notin PastCells(p, s)
      BY <1>7, <2>4, <2>5 DEF Visits, S
    <2>8. scan_limit \in Nat \cup {NoLimit} /\ fetched \in Nat
      BY <1>1 DEF PlanInv, ScanInv
    <2>9. StreamRows(p, t, fetched, DOMAIN delivered)
      <3>1. S \subseteq Box(p)
        BY <2>4, <2>6
      <3>2. Queued(t.pending, S) /\ Len(t.pending) \in Nat /\ t.emitted = s.emitted + Len(t.pending)
        BY <1>7, <2>2, <2>3
      <3>3. scan_limit = NoLimit \/ t.emitted < scan_limit => \A c \in S : <<c, c>> \in Ran(t.pending)
        BY <1>7, <2>2
      <3> QED
        BY <1>2, <1>3, <1>7, <2>1, <2>7, <2>8, <3>1, <3>2, <3>3, WindowRows
    <2> QED
      BY <1>0, <1>6, <1>9, <2>9, QuietStep DEF t
  <1> QED
    BY <1>8, <1>9

\* A slice is handed on.
LEMMA RowsDelivered ==
    ASSUME ScanInv, RowsInv, NEW p \in DOMAIN streams, DeliverBatch(p)
    PROVE  RowsInv'
  <1> DEFINE s == streams[p]
             t == streams'[p]
             rows == s.pending
             c == SliceToBatchSize(rows, BatchSize)
             head == SubSeq(rows, 1, c)
             rest == SubSeq(rows, c + 1, Len(rows))
             out == Fetch(FilterBatch(head))
             n == Len(Dims(query))
  <1>0. /\ phase = "scan" /\ s.state = "open" /\ rows # <<>> /\ ~FetchDone
        /\ UNCHANGED <<query, resolution, specs, scan_limit>>
    BY DEF DeliverBatch, planVars
  <1>1. /\ p \in 1 .. NPartitions /\ DOMAIN streams = 1 .. NPartitions /\ PlanInv /\ phase \notin PlanPhases
        /\ StreamOK(s, EffectiveSels(p), WindowTiles(p), n, Max2(1, WindowTarget)) /\ StreamTyped(p)
        /\ \A q \in 1 .. NPartitions : StreamTyped(q)
    BY <1>0, Polled DEF ScanInv
  <1>2. ~MatchesNothing /\ ~PlanDividesByZero(p)
    BY <1>0, <1>1 DEF StreamTyped
  <1>3. /\ s = [state |-> s.state, grid |-> s.grid, emitted |-> s.emitted, pending |-> s.pending]
        /\ s.emitted \in Nat /\ \E S : rows \in Seq(S)
    BY <1>1 DEF StreamOK
  <1>4. /\ t = [s EXCEPT !.pending = rest] /\ streams' = [streams EXCEPT ![p] = t]
        /\ fetched' = fetched + Len(out) /\ delivered' = delivered (+) BagOf(out)
    BY <1>1 DEF DeliverBatch
  <1>5. t.state = "open" /\ t.grid = s.grid /\ t.emitted = s.emitted /\ t.pending = rest
    <2> HIDE DEF t, rest
    <2> DEFINE e == s.emitted
               h == s.grid
               r == s.pending
               st == s.state
    <2> HIDE DEF e, h, r, st
    <2>1. s = [state |-> st, grid |-> h, emitted |-> e, pending |-> r]
      BY <1>3 DEF e, h, r, st
    <2>2. st = "open"
      BY <1>0 DEF st
    <2> HIDE DEF s
    <2>3. t = [state |-> st, grid |-> h, emitted |-> e, pending |-> rest]
      BY <1>4, <2>1
    <2> QED
      BY <2>2, <2>3 DEF e, h
  <1>6. CASE ~Answered
    <2>1. ~Answered'
      BY <1>0, <1>6, SameQuery
    <2> QED
      BY <2>1 DEF RowsInv
  <1>7. CASE Answered
    <2>1. /\ Returned(fetched, delivered)
          /\ \A q \in 1 .. NPartitions : StreamRows(q, streams[q], fetched, DOMAIN delivered)
      BY <1>1, <1>7 DEF RowsInv
    <2>2. PICK S : rows \in Seq(S)
      BY <1>3
    <2>3. Distinct(rows)
      BY <1>1, <2>1 DEF StreamRows, Queued
    <2>4. Cut(rows, head, rest) /\ head \in Seq(S) /\ rest \in Seq(S)
      <3> HIDE DEF rows
      <3> QED
        BY <1>0, <2>2, <2>3, SliceCuts, SliceFacts
    <2>5. fetched \in Nat /\ IsABag(delivered) /\ query.limit \in Nat \cup {NoLimit}
      BY <1>1, Geometry DEF ScanInv, PlanInv
    <2>6. Passed(head, out) /\ out \in Seq(S) /\ Len(out) \in Nat
      <3> HIDE DEF head
      <3>1. Distinct(head)
        BY <2>4 DEF Cut
      <3> QED
        BY <1>0, <2>4, <2>5, <3>1, OutPassed, OutFacts
    <2> HIDE DEF out, head, rest, c, n
    <2>7. StreamRows(p, s, fetched, DOMAIN delivered)
      BY <1>1, <2>1
    <2>8. /\ Returned(fetched', delivered') /\ DOMAIN delivered' = DOMAIN delivered \cup Ran(out)
          /\ \A r \in Ran(out) : \E d \in Box(p) : r = <<d, d>>
      <3> HIDE DEF s
      <3>1. Cut(s.pending, head, rest)
        BY <2>4
      <3>0. /\ p \in 1 .. NPartitions /\ PlanInv /\ phase \notin PlanPhases /\ Returned(fetched, delivered)
            /\ fetched \in Nat /\ IsABag(delivered) /\ Passed(head, out) /\ out \in Seq(S)
        BY <1>1, <2>1, <2>5, <2>6
      <3>2. Joined(p, out)
        BY <1>2, <1>7, <2>7, <3>0, <3>1, ReturnedMore
      <3> QED
        BY <1>4, <3>2 DEF Joined
    <2>9. StreamRows(p, t, fetched', DOMAIN delivered')
      <3> HIDE DEF s, t
      <3>1. Cut(s.pending, head, t.pending)
        BY <1>5, <2>4
      <3>2. StreamRows(p, t, fetched + Len(out), DOMAIN delivered \cup Ran(out))
        BY <1>0, <1>1, <1>2, <1>3, <1>5, <1>7, <2>5, <2>6, <2>7, <3>1, HandedRows
      <3> QED
        BY <1>4, <2>8, <3>2
    <2>10. ASSUME NEW q \in 1 .. NPartitions
           PROVE  StreamRows(q, streams'[q], fetched', DOMAIN delivered')
      <3>1. CASE q = p
        BY <2>9, <3>1
      <3>2. CASE q # p
        <4> DEFINE u == streams[q]
        <4>1. streams'[q] = u
          BY <1>1, <1>4, <3>2
        <4>2. StreamOK(u, EffectiveSels(q), WindowTiles(q), Len(Dims(query)), Max2(1, WindowTarget)) /\ StreamTyped(q)
          BY <1>1 DEF StreamTyped
        <4>3. u.emitted \in Nat /\ Len(u.pending) \in Nat /\ (u.pending # <<>> => u.state = "open")
          <5>1. u.emitted \in Nat /\ (u.pending # <<>> => u.state = "open") /\ \E T : u.pending \in Seq(T)
            BY <4>2 DEF StreamOK
          <5>2. PICK T : u.pending \in Seq(T)
            BY <5>1
          <5> HIDE DEF u
          <5>3. Len(u.pending) \in Nat
            BY <5>2
          <5> QED
            BY <5>1, <5>3
        <4>4. u.pending # <<>> => ~MatchesNothing /\ ~PlanDividesByZero(q)
          BY <4>2, <4>3 DEF StreamTyped
        <4>5. StreamRows(q, u, fetched, DOMAIN delivered)
          BY <2>1
        <4>6. fetched + Len(out) \in Nat /\ fetched <= fetched + Len(out)
          BY <2>5, <2>6
        <4> HIDE DEF u
        <4>7. StreamRows(q, u, fetched + Len(out), DOMAIN delivered \cup Ran(out))
          BY <1>1, <1>2, <1>7, <2>5, <2>8, <3>2, <4>3, <4>4, <4>5, <4>6, OtherRows
        <4> QED
          BY <1>4, <2>8, <4>1, <4>7
      <3> QED
        BY <3>1, <3>2
    <2> QED
      BY <1>0, <2>8, <2>10, RowsNext
  <1> QED
    BY <1>6, <1>7

\* Why an execution ended well.
FinishedInv == phase = "done" => FetchDone \/ \A p \in DOMAIN streams : streams[p].state = "done"

\* The inductive invariant of the result.
ResultInv == ScanInv /\ RowsInv /\ ResolvedAs /\ FinishedInv

\* The first state.
LEMMA ResultStarts ==
    ASSUME ScanInit
    PROVE  ResultInv
  <1>1. ScanInv
    BY ScanStarts
  <1>2. phase = "plan" /\ specs = <<>>
    BY DEF ScanInit, PlanInit
  <1> QED
    BY <1>1, <1>2 DEF ResultInv, RowsInv, PlanPhases, ResolvedAs, FinishedInv

\* How the outer filter was resolved stays as planned.
LEMMA ResolvedSteps ==
    ASSUME ScanInv, ResolvedAs, [ScanNext]_vars
    PROVE  ResolvedAs'
  <1>1. CASE UNCHANGED <<query, resolution, specs>>
    BY <1>1 DEF ResolvedAs
  <1>2. CASE PlanScanPartitions
    BY <1>2 DEF PlanScanPartitions, ResolvedAs
  <1>3. CASE ScaleUpLeafNode
    <2>1. UNCHANGED <<query, resolution>>
      BY <1>3 DEF ScaleUpLeafNode
    <2>2. CASE Len(specs) < 2 \/ query.tasks <= 1
      <3>1. specs' = specs
        BY <1>3, <2>2 DEF ScaleUpLeafNode
      <3> QED
        BY <1>1, <2>1, <3>1
    <2>3. CASE ~(Len(specs) < 2)
      <3>1. specs # <<>>
        BY <2>3
      <3> QED
        BY <2>1, <3>1 DEF ResolvedAs
    <2> QED
      BY <2>2, <2>3
  <1> QED
    BY <1>1, <1>2, <1>3
    DEF ScanNext, Run, Planning, Execute, Finish, Terminated, StreamFails, PollStream, EndStream, DeliverBatch,
        OpenEmpty, OpenTiles, OpenPanics, NextWindow, WindowPanics, WindowFails, PushLimitToZarr, vars, planVars

\* An execution ends well when its streams have, or at the LIMIT.
LEMMA FinishedSteps ==
    ASSUME ScanInv, FinishedInv, [ScanNext]_vars
    PROVE  FinishedInv'
  <1>1. CASE UNCHANGED vars
    BY <1>1 DEF FinishedInv, FetchDone, vars, planVars, execVars
  <1>2. CASE phase' # "done"
    BY <1>2 DEF FinishedInv
  <1>3. CASE Finish
    BY <1>3 DEF FinishedInv, Finish, FetchDone, execVars
  <1> QED
    BY <1>1, <1>2, <1>3
    DEF ScanNext, Run, Planning, Execute, Terminated, StreamFails, PollStream, EndStream, DeliverBatch,
        NeedsWindow, HasWindow, OpenEmpty, OpenTiles, OpenPanics, NextWindow, WindowPanics, WindowFails, PushLimitToZarr, PlanScanPartitions,
        ScaleUpLeafNode, planVars

\* The rows, whatever the step.
LEMMA RowsSteps ==
    ASSUME ScanInv, RowsInv, [ScanNext]_vars
    PROVE  RowsInv'
  <1>1. CASE phase' \in PlanPhases
    BY <1>1 DEF RowsInv
  <1>2. CASE Execute
    BY <1>2, RowsStart
  <1>3. ASSUME phase \notin PlanPhases, UNCHANGED <<query, resolution, specs, scan_limit, streams, fetched, delivered>>
        PROVE  RowsInv'
    BY <1>3, RowsKept
  <1>4. CASE UNCHANGED vars
    <2>1. CASE phase \in PlanPhases
      BY <1>4, <2>1 DEF RowsInv, vars, planVars
    <2>2. CASE phase \notin PlanPhases
      BY <1>3, <1>4, <2>2 DEF vars, planVars, execVars
    <2> QED
      BY <2>1, <2>2
  <1>5. CASE Planning
    BY <1>1, <1>5 DEF Planning, PlanScanPartitions, PushLimitToZarr, PlanPhases
  <1>6. ASSUME phase = "scan", UNCHANGED <<query, resolution, specs, scan_limit, execVars>>
        PROVE  RowsInv'
    BY <1>3, <1>6 DEF PlanPhases, execVars
  <1>7. CASE Finish
    BY <1>6, <1>7 DEF Finish
  <1>8. CASE Terminated
    BY <1>4, <1>8 DEF Terminated
  <1>9. ASSUME NEW p \in DOMAIN streams, PollStream(p) PROVE RowsInv'
    <2>1. CASE OpenEmpty(p) \/ EndStream(p) \/ OpenTiles(p)
      BY <2>1, RowsEnd
    <2>2. CASE DeliverBatch(p)
      BY <2>2, RowsDelivered
    <2>3. CASE NextWindow(p)
      BY <2>3, RowsWindow
    <2>4. CASE OpenPanics(p) \/ WindowPanics(p) \/ WindowFails(p)
      BY <1>6, <2>4 DEF OpenPanics, WindowPanics, WindowFails, HasWindow, NeedsWindow
    <2> QED
      BY <1>9, <2>1, <2>2, <2>3, <2>4 DEF PollStream
  <1>10. ASSUME NEW p \in DOMAIN streams, StreamFails(p) PROVE RowsInv'
    BY <1>6, <1>10 DEF StreamFails
  <1> QED
    BY <1>2, <1>4, <1>5, <1>7, <1>8, <1>9, <1>10 DEF ScanNext, Run

\* Every step keeps the invariant.
LEMMA ResultSteps ==
    ASSUME ResultInv, [ScanNext]_vars
    PROVE  ResultInv'
  BY ScanSteps, RowsSteps, ResolvedSteps, FinishedSteps DEF ResultInv

\* It holds throughout.
LEMMA ResultKept ==
    ScanSafety => []ResultInv
  <1>1. ScanInit => ResultInv
    BY ResultStarts
  <1>2. ResultInv /\ [ScanNext]_vars => ResultInv'
    BY ResultSteps
  <1> QED
    BY <1>1, <1>2, PTL DEF ScanSafety

\* The rows returned are among the wanted ones, none twice.
LEMMA ReturnedWanted ==
    ASSUME ResultInv, Answered
    PROVE  delivered \sqsubseteq SetToBag(Wanted(query))
  <1>1. DOMAIN SetToBag(Wanted(query)) = Wanted(query) /\ \A r \in Wanted(query) : SetToBag(Wanted(query))[r] = 1
    BY DEF SetToBag
  <1>2. CASE phase \in PlanPhases
    <2>1. DOMAIN delivered = {}
      BY <1>2 DEF ResultInv, ScanInv, EmptyBag, SetToBag
    <2> QED
      BY <2>1 DEF \sqsubseteq
  <1>3. CASE phase \notin PlanPhases
    <2>1. (\A r \in DOMAIN delivered : delivered[r] = 1) /\ DOMAIN delivered \subseteq Wanted(query)
      BY <1>3 DEF ResultInv, RowsInv, Returned
    <2>2. \A r \in DOMAIN delivered : delivered[r] <= SetToBag(Wanted(query))[r]
      BY <1>1, <2>1
    <2> QED
      BY <1>1, <2>1, <2>2 DEF \sqsubseteq
  <1> QED
    BY <1>2, <1>3

\* A stream that has read its box has handed on what is wanted of it.
LEMMA BoxReturned ==
    ASSUME ResultInv, Answered, phase \notin PlanPhases, ~FetchDone, ~MatchesNothing,
           NEW p \in 1 .. NPartitions, streams[p].state = "done",
           NEW c \in Box(p), Asks(c)
    PROVE  <<c, c>> \in DOMAIN delivered
  <1> DEFINE s == streams[p]
             n == Len(Dims(query))
             sels == EffectiveSels(p)
             tiles == WindowTiles(p)
  <1>1. StreamRows(p, s, fetched, DOMAIN delivered)
    BY DEF ResultInv, RowsInv
  <1>2. StreamTyped(p) /\ PlanInv /\ fetched \in Nat
    BY DEF ResultInv, ScanInv
  <1>3. s.pending = <<>> /\ s.emitted \in Nat
    BY <1>2 DEF StreamTyped, StreamOK
  <1>4. query.limit \in Nat \cup {NoLimit} /\ scan_limit = query.limit
    BY <1>2, Geometry DEF PlanInv, PlanPhases
  <1>5. ~Met(fetched)
    BY DEF Met, FetchDone
  <1>6. ~LimitReached(s)
    <2>1. Len(s.pending) = 0
      BY <1>3
    <2>2. query.limit # NoLimit => s.emitted <= Len(s.pending) + fetched
      BY <1>1, <1>5 DEF StreamRows
    <2> HIDE DEF s
    <2>3. query.limit # NoLimit => s.emitted <= fetched
      BY <1>2, <2>1, <2>2
    <2>4. query.limit # NoLimit => ~(fetched >= query.limit)
      BY DEF FetchDone
    <2> QED
      BY <1>2, <1>3, <1>4, <2>3, <2>4 DEF LimitReached
  <1>7. s.grid.done /\ ~PlanDividesByZero(p)
    BY <1>1, <1>6 DEF StreamRows
  <1>8. n \in Nat \ {0} /\ sels \in [1 .. n -> Sels] /\ tiles \in [1 .. n -> Nat]
    BY <1>2, <1>7, PartitionTyped
  <1>9. PastCells(p, s) = Box(p)
    <2>1. PastCells(p, s) = Seen(s.grid, sels, tiles, n)
      BY DEF PastCells
    <2> DEFINE g == s.grid
    <2>2. g.done
      BY <1>7
    <2> HIDE DEF n, g, sels, tiles
    <2>3. n \in Nat
      BY <1>8
    <2>4. Seen(g, sels, tiles, n) = BoxCells(sels, n)
      BY <1>8, <2>2, <2>3, SeenAll
    <2> QED
      BY <2>1, <2>4 DEF Box, g, sels, n
  <1>10. Ran(<<>>) = {}
    BY DEF Ran
  <1> HIDE DEF s
  <1>11. <<c, c>> \in DOMAIN delivered \/ <<c, c>> \in Ran(s.pending)
    BY <1>1, <1>5, <1>6, <1>9 DEF StreamRows
  <1> QED
    BY <1>3, <1>10, <1>11

\* Between them the streams have returned all that is wanted, or the LIMIT is met.
LEMMA AllReturned ==
    ASSUME ResultInv, phase = "done" \/ (phase = "scan" /\ \A p \in DOMAIN streams : streams[p].state = "done"),
           Answered, ~FetchDone
    PROVE  DOMAIN delivered = Wanted(query)
  <1>1. phase \notin PlanPhases
    BY DEF PlanPhases
  <1>2. DOMAIN delivered \subseteq Wanted(query)
    BY <1>1 DEF ResultInv, RowsInv, Returned
  <1>3. PlanInv /\ query \in Queries /\ ResolvedAs /\ DOMAIN streams = 1 .. NPartitions
    <2>1. streams = [r \in 1 .. NPartitions |-> streams[r]]
      BY <1>1 DEF ResultInv, ScanInv
    <2>2. DOMAIN streams = 1 .. NPartitions
      BY <2>1
    <2> QED
      BY <2>2 DEF ResultInv, ScanInv, PlanInv
  <1>4. \A p \in 1 .. NPartitions : streams[p].state = "done"
    BY <1>3 DEF ResultInv, FinishedInv
  <1>5. CASE MatchesNothing
    BY <1>2, <1>3, <1>5, NothingWanted
  <1>6. CASE ~MatchesNothing
    <2>1. ASSUME NEW r \in Wanted(query) PROVE r \in DOMAIN delivered
      <3>1. PICK c \in Cells : r = <<c, c>> /\ Asks(c)
        BY <1>3, WantedFacts
      <3>2. PICK p \in 1 .. NPartitions : c \in Box(p)
        BY <1>1, <1>3, <1>6, <3>1, BoxesCover
      <3>3. streams[p].state = "done"
        BY <1>4
      <3> QED
        BY <1>1, <1>6, <3>1, <3>2, <3>3, BoxReturned
    <2> QED
      BY <1>2, <2>1
  <1> QED
    BY <1>5, <1>6

\* How many rows have been returned.
LEMMA ReturnedCount ==
    ASSUME ResultInv, Answered, phase \notin PlanPhases
    PROVE  /\ fetched \in Nat /\ Cardinality(BagToSet(delivered)) = fetched
           /\ Cardinality(Wanted(query)) \in Nat /\ fetched <= Cardinality(Wanted(query))
           /\ query.limit \in Nat \cup {NoLimit} /\ (query.limit # NoLimit => fetched <= query.limit)
  <1>1. Returned(fetched, delivered) /\ query \in Queries /\ fetched \in Nat
    BY DEF ResultInv, RowsInv, ScanInv, PlanInv
  <1>2. query.limit \in Nat \cup {NoLimit}
    BY <1>1, Geometry
  <1>3. IsFiniteSet(Wanted(query))
    BY <1>1, WantedFinite
  <1>4. /\ DOMAIN delivered \subseteq Wanted(query) /\ Cardinality(DOMAIN delivered) = fetched
        /\ query.limit # NoLimit => fetched <= query.limit
    BY <1>1 DEF Returned
  <1>5. Cardinality(DOMAIN delivered) <= Cardinality(Wanted(query))
    BY <1>3, <1>4, FS_Subset
  <1>6. Cardinality(Wanted(query)) \in Nat
    BY <1>3, FS_CardinalityType
  <1> QED
    BY <1>1, <1>2, <1>4, <1>5, <1>6 DEF BagToSet

\* The result is the one that was asked for.
LEMMA InvResult ==
    ASSUME ResultInv
    PROVE  ResultExact
  <1> SUFFICES ASSUME phase = "done", Answered
               PROVE  LET want == SetToBag(Wanted(query))
                      IN IF query.limit = NoLimit THEN delivered = want
                         ELSE /\ delivered \sqsubseteq want
                              /\ Cardinality(BagToSet(delivered)) = Min2(query.limit, Cardinality(Wanted(query)))
    BY DEF ResultExact
  <1>1. phase \notin PlanPhases
    BY DEF PlanPhases
  <1>2. CASE query.limit = NoLimit
    <2>1. DOMAIN delivered = Wanted(query)
      BY <1>2, AllReturned DEF FetchDone
    <2>2. \A r \in DOMAIN delivered : delivered[r] = 1
      BY <1>1 DEF ResultInv, RowsInv, Returned
    <2>3. delivered = [r \in DOMAIN delivered |-> delivered[r]]
      BY DEF ResultInv, ScanInv, IsABag
    <2>4. delivered = [r \in Wanted(query) |-> 1]
      BY <2>1, <2>2, <2>3
    <2> QED
      BY <1>2, <2>4 DEF SetToBag
  <1>3. CASE query.limit # NoLimit
    <2> DEFINE k == Cardinality(Wanted(query))
               l == query.limit
    <2>1. delivered \sqsubseteq SetToBag(Wanted(query))
      BY ReturnedWanted
    <2>2. /\ fetched \in Nat /\ Cardinality(BagToSet(delivered)) = fetched
          /\ k \in Nat /\ fetched <= k /\ l \in Nat /\ fetched <= l
      BY <1>1, <1>3, ReturnedCount
    <2>3. fetched = k \/ fetched >= l
      <3>1. CASE FetchDone
        BY <3>1 DEF FetchDone
      <3>2. CASE ~FetchDone
        BY <2>2, <3>2, AllReturned DEF BagToSet
      <3> QED
        BY <3>1, <3>2
    <2> HIDE DEF k, l
    <2>4. fetched = Min2(l, k)
      BY <2>2, <2>3 DEF Min2
    <2> QED
      BY <1>3, <2>1, <2>2, <2>4 DEF k, l
  <1> QED
    BY <1>2, <1>3

\* However the scan is cut and the streams are polled, a finished query that the
\* reader answers returned the rows it asked for, each once; with a LIMIT, that many.
THEOREM ResultIsExact ==
    ScanSafety => []ResultExact
  <1>1. ResultInv => ResultExact
    BY InvResult
  <1> QED
    BY <1>1, ResultKept, PTL

\* At no time has such a query returned a row that is not in its result, a row
\* twice, or a row with the value of another cell.
THEOREM OnlyTheResult ==
    ScanSafety => []NothingButTheResult
  <1>1. ResultInv => NothingButTheResult
    BY ReturnedWanted DEF NothingButTheResult
  <1> QED
    BY <1>1, ResultKept, PTL

-----------------------------------------------------------------------------
(* The promise of TableScan. *)

\* How far a scan is, for the query above it.
Status ==
    CASE phase = "done" -> "done"
      [] phase \in {"failed", "divided_by_zero", "unexpanded"} -> "error"
      [] OTHER -> "running"

\* The rows returned so far are at most those asked for.
CountInv ==
    phase \notin PlanPhases /\ Answered =>
        /\ Cardinality(BagToSet(delivered)) \in Nat /\ Cardinality(Wanted(query)) \in Nat
        /\ Cardinality(BagToSet(delivered)) <= Cardinality(Wanted(query))
        /\ query.limit \in Nat \cup {NoLimit}
        /\ query.limit # NoLimit => Cardinality(BagToSet(delivered)) <= query.limit

\* They are.
LEMMA InvCount ==
    ASSUME ResultInv
    PROVE  CountInv
  BY ReturnedCount DEF CountInv

\* The bags and cardinalities TableScan speaks of are those of the scan.
LEMMA SameTerms ==
    /\ Promise!EmptyBag = EmptyBag
    /\ \A S : Promise!BagToSet(S) = BagToSet(S) /\ Promise!SetToBag(S) = SetToBag(S)
    /\ \A S : Promise!Cardinality(S) = Cardinality(S)
    /\ \A S, T : Promise!\sqsubseteq(S, T) <=> S \sqsubseteq T
  <1>1. Promise!EmptyBag = EmptyBag
    BY DEF Promise!EmptyBag, EmptyBag, Promise!SetToBag, SetToBag
  <1>2. ASSUME NEW S PROVE Promise!BagToSet(S) = BagToSet(S) /\ Promise!SetToBag(S) = SetToBag(S)
    BY DEF Promise!BagToSet, BagToSet, Promise!SetToBag, SetToBag
  <1>3. ASSUME NEW S PROVE Promise!Cardinality(S) = Cardinality(S)
    BY DEF Promise!Cardinality, Cardinality
  <1>4. ASSUME NEW S, NEW T PROVE Promise!\sqsubseteq(S, T) <=> S \sqsubseteq T
    BY DEF Promise!\sqsubseteq, \sqsubseteq
  <1> QED
    BY <1>1, <1>2, <1>3, <1>4

\* A step that shows nothing of the rows or the end.
LEMMA Unseen ==
    ASSUME query' = query, delivered' = delivered, Status' = Status
    PROVE  UNCHANGED Promise!tsVars
  <1>1. Wanted(query)' = Wanted(query)
    OBVIOUS
  <1> QED
    BY <1>1 DEF Promise!tsVars, Status

\* A slice that is handed on arrives.
LEMMA SliceArrives ==
    ASSUME ResultInv, Answered', NothingButTheResult', CountInv', NEW p \in DOMAIN streams, DeliverBatch(p)
    PROVE  Promise!Arrive
  <1>1. phase = "scan" /\ UNCHANGED <<query, phase>>
    BY DEF DeliverBatch, planVars
  <1>2. Wanted(query)' = Wanted(query)
    BY <1>1
  <1>3. Status = "running" /\ Status' = "running"
    BY <1>1, Zenon DEF Status
  <1>4. delivered' \sqsubseteq SetToBag(Wanted(query))
    <2>1. phase' # "plan"
      BY <1>1
    <2>2. (delivered \sqsubseteq SetToBag(Wanted(query)))'
      BY <2>1 DEF NothingButTheResult
    <2> QED
      BY <1>2, <2>2 DEF \sqsubseteq
  <1>5. delivered \sqsubseteq delivered'
    <2> DEFINE out == Fetch(FilterBatch(SubSeq(streams[p].pending, 1, SliceToBatchSize(streams[p].pending, BatchSize))))
    <2>1. delivered' = delivered (+) BagOf(out)
      BY DEF DeliverBatch
    <2>2. IsABag(delivered) /\ IsABag(BagOf(out))
      <3>1. streams[p].pending # <<>> /\ ~FetchDone
        BY DEF DeliverBatch
      <3>2. StreamOK(streams[p], EffectiveSels(p), WindowTiles(p), Len(Dims(query)), Max2(1, WindowTarget))
            /\ fetched \in Nat /\ PlanInv /\ IsABag(delivered)
        BY <1>1, Polled DEF ResultInv, ScanInv
      <3>3. PICK S : streams[p].pending \in Seq(S)
        BY <3>2 DEF StreamOK
      <3> DEFINE rows == streams[p].pending
                 head == SubSeq(rows, 1, SliceToBatchSize(rows, BatchSize))
      <3>4. head \in Seq(S)
        <4>1. rows \in Seq(S) /\ rows # <<>>
          BY <3>1, <3>3
        <4> HIDE DEF rows
        <4> QED
          BY <4>1, SliceFacts
      <3>5. query.limit \in Nat \cup {NoLimit}
        BY <3>2, Geometry DEF PlanInv
      <3> HIDE DEF head
      <3>6. Fetch(FilterBatch(head)) \in Seq(S)
        BY <3>1, <3>2, <3>4, <3>5, OutFacts
      <3>7. out = Fetch(FilterBatch(head))
        BY DEF head
      <3> HIDE DEF out
      <3>8. out \in Seq(S)
        BY <3>6, <3>7
      <3> QED
        BY <3>2, <3>8, BagOfFacts
    <2> HIDE DEF out
    <2> DEFINE B == BagOf(out)
    <2> HIDE DEF B
    <2>3. /\ DOMAIN (delivered (+) B) = DOMAIN delivered \cup DOMAIN B
          /\ \A e \in DOMAIN delivered \cup DOMAIN B :
                (delivered (+) B)[e] = (IF e \in DOMAIN delivered THEN delivered[e] ELSE 0) + (IF e \in DOMAIN B THEN B[e] ELSE 0)
      BY <2>2, BagUnionTyped DEF B
    <2>4. ASSUME NEW e \in DOMAIN delivered PROVE delivered[e] <= delivered'[e]
      <3>1. delivered[e] \in Nat /\ (e \in DOMAIN B => B[e] \in Nat)
        BY <2>2 DEF IsABag, B
      <3>2. delivered'[e] = delivered[e] + (IF e \in DOMAIN B THEN B[e] ELSE 0)
        BY <2>1, <2>3 DEF B
      <3> QED
        BY <3>1, <3>2
    <2>5. DOMAIN delivered \subseteq DOMAIN delivered'
      BY <2>1, <2>3 DEF B
    <2> QED
      BY <2>4, <2>5 DEF \sqsubseteq
  <1>6. Cardinality(BagToSet(delivered')) <= Promise!Asked
    <2> DEFINE n == Cardinality(BagToSet(delivered'))
               k == Cardinality(Wanted(query))
               l == query.limit
    <2>1. phase' \notin PlanPhases
      BY <1>1 DEF PlanPhases
    <2>2. n \in Nat /\ k \in Nat /\ n <= k /\ l \in Nat \cup {-1} /\ (l # -1 => n <= l)
      BY <1>1, <1>2, <2>1 DEF CountInv, NoLimit, BagToSet
    <2>3. Promise!Asked = IF l = -1 \/ l > k THEN k ELSE l
      BY SameTerms DEF Promise!Asked
    <2> HIDE DEF n, k, l
    <2>4. n <= Promise!Asked
      BY <2>2, <2>3
    <2> QED
      BY <2>4 DEF n
  <1> QED
    BY <1>1, <1>2, <1>3, <1>4, <1>5, <1>6, SameTerms DEF Promise!Arrive, Status

\* A scan that finishes completes the promise.
LEMMA FinishCompletes ==
    ASSUME ResultInv, Answered, Finish
    PROVE  Promise!Complete
  <1>1. phase = "scan" /\ phase' = "done" /\ UNCHANGED <<query, delivered>>
    BY DEF Finish, execVars
  <1>2. Wanted(query)' = Wanted(query)
    BY <1>1
  <1>3. Status = "running" /\ Status' = "done"
    BY <1>1, Zenon DEF Status
  <1>4. Cardinality(BagToSet(delivered)) = Promise!Asked
    <2> DEFINE n == Cardinality(BagToSet(delivered))
               k == Cardinality(Wanted(query))
               l == query.limit
    <2>1. phase \notin PlanPhases
      BY <1>1 DEF PlanPhases
    <2>2. fetched \in Nat /\ n = fetched /\ k \in Nat /\ n <= k /\ l \in Nat \cup {-1} /\ (l # -1 => n <= l)
      BY <2>1, ReturnedCount DEF NoLimit
    <2>3. n = k \/ (l # -1 /\ fetched >= l)
      <3>1. CASE FetchDone
        BY <3>1 DEF FetchDone, NoLimit
      <3>2. CASE ~FetchDone
        <4>1. \A p \in DOMAIN streams : streams[p].state = "done"
          BY <3>2 DEF Finish
        <4>2. DOMAIN delivered = Wanted(query)
          BY <1>1, <3>2, <4>1, AllReturned
        <4> QED
          BY <4>2 DEF BagToSet
      <3> QED
        BY <3>1, <3>2
    <2>4. Promise!Asked = IF l = -1 \/ l > k THEN k ELSE l
      BY SameTerms DEF Promise!Asked
    <2> HIDE DEF n, k, l
    <2>5. n = Promise!Asked
      BY <2>2, <2>3, <2>4
    <2> QED
      BY <2>5 DEF n
  <1> QED
    BY <1>1, <1>2, <1>3, <1>4, SameTerms DEF Promise!Complete, Status

\* A scan that fails aborts it.
LEMMA FailureAborts ==
    ASSUME phase = "scan", phase' \in {"failed", "divided_by_zero", "unexpanded"}, UNCHANGED <<query, delivered>>
    PROVE  Promise!Abort
  <1>1. Wanted(query)' = Wanted(query)
    OBVIOUS
  <1>2. Status = "running"
    BY Zenon DEF Status
  <1>3. Status' = "error"
    BY Zenon DEF Status
  <1> QED
    BY <1>1, <1>2, <1>3 DEF Promise!Abort, Status

\* Every step of an answered query is one of the promise.
LEMMA PromiseSteps ==
    ASSUME ResultInv, Answered, Answered', NothingButTheResult', CountInv', [ScanNext]_vars
    PROVE  [Promise!TSNext]_(Promise!tsVars)
  <1>1. ASSUME query' = query, delivered' = delivered, phase' = phase
        PROVE  UNCHANGED Promise!tsVars
    <2>1. Status' = Status
      BY <1>1 DEF Status
    <2> QED
      BY <1>1, <2>1, Unseen
  <1>2. ASSUME query' = query, delivered' = delivered, phase \in PlanPhases, phase' \in PlanPhases \cup {"scan"}
        PROVE  UNCHANGED Promise!tsVars
    <2>1. Status = "running" /\ Status' = "running"
      BY <1>2 DEF Status, PlanPhases
    <2> QED
      BY <1>2, <2>1, Unseen
  <1>3. CASE UNCHANGED vars
    BY <1>1, <1>3 DEF vars, planVars, execVars
  <1>4. CASE Planning \/ Execute
    <2>1. query' = query /\ delivered' = delivered /\ phase \in PlanPhases /\ phase' \in PlanPhases \cup {"scan"}
      BY <1>4 DEF Planning, Execute, PlanScanPartitions, PushLimitToZarr, ScaleUpLeafNode, PlanPhases, execVars
    <2> QED
      BY <1>2, <2>1
  <1>5. CASE Finish
    BY <1>5, FinishCompletes DEF Promise!TSNext
  <1>6. ASSUME NEW p \in DOMAIN streams, PollStream(p) PROVE [Promise!TSNext]_(Promise!tsVars)
    <2>1. CASE EndStream(p) \/ OpenEmpty(p) \/ OpenTiles(p) \/ NextWindow(p)
      <3>1. query' = query /\ delivered' = delivered /\ phase' = phase
        BY <2>1 DEF EndStream, OpenEmpty, OpenTiles, NextWindow, planVars
      <3> QED
        BY <1>1, <3>1
    <2>2. CASE DeliverBatch(p)
      BY <2>2, SliceArrives DEF Promise!TSNext
    <2>3. CASE OpenPanics(p) \/ WindowPanics(p) \/ WindowFails(p)
      <3>1. phase = "scan" /\ phase' \in {"failed", "divided_by_zero", "unexpanded"} /\ UNCHANGED <<query, delivered>>
        BY <2>3 DEF OpenPanics, WindowPanics, WindowFails, HasWindow, NeedsWindow, execVars
      <3> QED
        BY <3>1, FailureAborts DEF Promise!TSNext
    <2> QED
      BY <1>6, <2>1, <2>2, <2>3 DEF PollStream
  <1>7. ASSUME NEW p \in DOMAIN streams, StreamFails(p) PROVE [Promise!TSNext]_(Promise!tsVars)
    <2>1. phase = "scan" /\ phase' \in {"failed", "divided_by_zero", "unexpanded"} /\ UNCHANGED <<query, delivered>>
      BY <1>7 DEF StreamFails, execVars
    <2> QED
      BY <2>1, FailureAborts DEF Promise!TSNext
  <1> QED
    BY <1>3, <1>4, <1>5, <1>6, <1>7 DEF ScanNext, Run, Terminated

\* Partitioned, tiled, filtered and merged, the scan of a query that the reader
\* answers is a scan of the table.
THEOREM ScanIsTableScan ==
    ScanSafety /\ []Answered => ImplementsTableScan
  <1>1. ScanInit => Promise!TSInit
    BY SameTerms DEF ScanInit, PlanInit, Promise!TSInit
  <1>2. ResultInv => NothingButTheResult /\ CountInv
    BY ReturnedWanted, InvCount DEF NothingButTheResult
  <1>3. /\ ResultInv /\ Answered /\ Answered' /\ NothingButTheResult' /\ CountInv' /\ [ScanNext]_vars
        => [Promise!TSNext]_(Promise!tsVars)
    BY PromiseSteps
  <1> QED
    BY <1>1, <1>2, <1>3, ResultKept, PTL DEF ScanSafety, ImplementsTableScan, Promise!TSSpec

\* An answered query is never one whose two scattered axes the reader leaves unexpanded.
NeverUnexpanded == Answered => phase # "unexpanded"

\* A query that the reader answers never panics while a window is built, whatever the
\* tiles: at most one of the axes it reads is scattered.
THEOREM AnsweredWindowsBuild ==
    ScanSafety => []NeverUnexpanded
  <1>1. ScanInit => NeverUnexpanded
    BY DEF ScanInit, PlanInit, NeverUnexpanded
  <1>2. ASSUME ResultInv, NeverUnexpanded, [ScanNext]_vars PROVE NeverUnexpanded'
    <2>1. CASE phase' # "unexpanded"
      BY <2>1 DEF NeverUnexpanded
    <2>2. CASE UNCHANGED vars
      <3>1. Answered' <=> Answered
        BY <2>2, SameQuery DEF vars, planVars
      <3> QED
        BY <1>2, <2>2, <3>1 DEF NeverUnexpanded, vars, planVars
    <2>3. ASSUME NEW p \in DOMAIN streams, WindowPanics(p) PROVE NeverUnexpanded'
      <3>1. HasWindow(p) /\ ReadPanics(TileSels(p)) /\ UNCHANGED <<query, resolution, specs, scan_limit>>
        BY <2>3 DEF WindowPanics
      <3>2. phase = "scan"
        BY <3>1 DEF HasWindow, NeedsWindow
      <3>3. Answered' <=> Answered
        BY <3>1, SameQuery
      <3>4. p \in 1 .. NPartitions
        BY <1>2, <3>2, Polled DEF ResultInv
      <3>5. ~Answered
        BY <1>2, <3>1, <3>2, <3>4, NewRows DEF ResultInv
      <3> QED
        BY <3>3, <3>5 DEF NeverUnexpanded
    <2> QED
      BY <1>2, <2>1, <2>2, <2>3
      DEF ScanNext, Run, Planning, Execute, Finish, Terminated, StreamFails, PollStream, EndStream, DeliverBatch,
          NeedsWindow, HasWindow, OpenEmpty, OpenTiles, OpenPanics, NextWindow, WindowFails, PushLimitToZarr, PlanScanPartitions,
          ScaleUpLeafNode, planVars
  <1> QED
    BY <1>1, <1>2, ResultKept, PTL DEF ScanSafety
=============================================================================
