-------------------------- MODULE DumpTransformProofs --------------------------
(***************************************************************************)
(* A chain of runs of volt-dump-transform keeps every atom's values, for   *)
(* any number of atoms, columns and runs, any tables and selections, and   *)
(* wherever the disk fails: DumpTransform implements AtomTable, provided   *)
(* that the first dump has an id column.                                   *)
(*                                                                         *)
(* ChainInv says of each phase what the frame, the rows and the output     *)
(* are, as functions of the input and the job.                             *)
(***************************************************************************)
EXTENDS DumpTransform, FiniteSetTheorems, TLAPS

-----------------------------------------------------------------------------
(* Selections *)

\* The numbers of a set can be listed in ascending order: each at the place that counts
\* how many are not above it.
LEMMA Enumeration ==
  ASSUME NEW n \in Nat, NEW K \in SUBSET (1..n)
  PROVE  /\ Cardinality(K) \in Nat
         /\ InOrder(K) \in [1..Cardinality(K) -> K] /\ Ascends(InOrder(K))
         /\ \A k \in K : \E i \in 1..Cardinality(K) : InOrder(K)[i] = k
  <1> DEFINE m == Cardinality(K)
             UpTo(k) == {j \in K : j <= k}
             rank == [k \in K |-> Cardinality(UpTo(k))]
  <1>0. \A k \in K : k \in Int
    OBVIOUS
  <1>1. IsFiniteSet(K) /\ m \in Nat /\ IsFiniteSet(1..m) /\ Cardinality(1..m) = m
    <2>1. IsFiniteSet(1..n)
      BY FS_Interval
    <2>2. IsFiniteSet(K) /\ m \in Nat
      BY <2>1, FS_Subset, FS_CardinalityType
    <2>3. QED
      BY <2>2, FS_Interval
  <1>2. \A k \in K : IsFiniteSet(UpTo(k)) /\ rank[k] \in 1..m
    <2> TAKE k \in K
    <2>1. UpTo(k) \in SUBSET K /\ k \in UpTo(k)
      OBVIOUS
    <2>2. IsFiniteSet(UpTo(k)) /\ Cardinality(UpTo(k)) <= m /\ Cardinality(UpTo(k)) \in Nat
      BY <1>1, <2>1, FS_Subset, FS_CardinalityType
    <2>3. Cardinality(UpTo(k)) # 0
      BY <2>1, <2>2, FS_EmptySet
    <2>4. QED
      BY <1>1, <2>2, <2>3
  <1>3. \A j, k \in K : j < k => rank[j] < rank[k]
    <2> SUFFICES ASSUME NEW j \in K, NEW k \in K, j < k PROVE rank[j] < rank[k]
      OBVIOUS
    <2>1. UpTo(j) \in SUBSET UpTo(k) /\ k \in UpTo(k) /\ k \notin UpTo(j)
      <3>1. \A x \in K : x <= j => x <= k
        BY <1>0
      <3>2. k <= k /\ ~(k <= j)
        BY <1>0
      <3>3. QED
        BY <3>1, <3>2, Zenon
    <2>2. UpTo(j) # UpTo(k)
      BY <2>1
    <2>3. Cardinality(UpTo(j)) <= Cardinality(UpTo(k)) /\ Cardinality(UpTo(j)) # Cardinality(UpTo(k))
      BY <1>2, <2>1, <2>2, FS_Subset
    <2>4. rank[j] \in Nat /\ rank[k] \in Nat
      BY <1>1, <1>2
    <2>5. rank[j] <= rank[k] /\ rank[j] # rank[k]
      BY <2>3
    <2>6. QED
      <3> HIDE DEF rank
      <3> QED BY <2>4, <2>5
  <1> HIDE DEF rank, m
  <1>4. rank \in Injection(K, 1..m)
    <2>1. rank \in [K -> 1..m]
      BY <1>2 DEF rank
    <2>2. \A j, k \in K : rank[j] = rank[k] => j = k
      <3> SUFFICES ASSUME NEW j \in K, NEW k \in K, rank[j] = rank[k], j # k PROVE FALSE
        OBVIOUS
      <3>1. j < k \/ k < j
        BY <1>0
      <3>2. rank[j] \in Int /\ rank[k] \in Int
        BY <2>1
      <3>3. QED
        BY <1>3, <3>1, <3>2
    <2>3. QED
      BY <2>1, <2>2 DEF Injection, IsInjective
  <1>5. rank \in Surjection(K, 1..m)
    BY <1>1, <1>4, FS_Injection DEF m
  <1>6. PICK e \in [1..m -> K] : \A i \in 1..m : rank[e[i]] = i
    <2> DEFINE e == [i \in 1..m |-> CHOOSE k \in K : rank[k] = i]
    <2>1. \A i \in 1..m : \E k \in K : rank[k] = i
      BY <1>5 DEF Surjection
    <2>2. e \in [1..m -> K] /\ \A i \in 1..m : rank[e[i]] = i
      BY <2>1
    <2>3. QED
      BY <2>2
  <1>7. Ascends(e)
    <2> SUFFICES ASSUME NEW i \in 1..m, NEW j \in 1..m, i < j PROVE e[i] < e[j]
      BY DEF Ascends
    <2>1. e[i] \in K /\ e[j] \in K /\ rank[e[i]] = i /\ rank[e[j]] = j
      BY <1>6
    <2>2. ~(e[j] < e[i])
      <3>1. i \in Int /\ j \in Int /\ ~(j < i)
        BY <1>1
      <3>2. e[j] < e[i] => rank[e[j]] < rank[e[i]]
        BY <1>3, <2>1
      <3>3. QED
        BY <2>1, <3>1, <3>2
    <2>3. e[i] # e[j]
      BY <2>1
    <2>4. e[i] \in Int /\ e[j] \in Int
      BY <1>0, <2>1
    <2>5. QED
      BY <2>2, <2>3, <2>4
  <1>8. InOrder(K) \in [1..m -> K] /\ Ascends(InOrder(K))
    BY <1>6, <1>7, Zenon DEF InOrder, m
  <1>9. \A k \in K : \E i \in 1..m : InOrder(K)[i] = k
    <2> DEFINE f == InOrder(K)
    <2>1. f \in [1..m -> K] /\ \A i, j \in 1..m : i < j => f[i] < f[j]
      BY <1>8 DEF Ascends
    <2> HIDE DEF f
    <2>2. \A i, j \in 1..m : f[i] = f[j] => i = j
      <3> SUFFICES ASSUME NEW i \in 1..m, NEW j \in 1..m, f[i] = f[j], i # j PROVE FALSE
        OBVIOUS
      <3>1. i < j \/ j < i
        BY <1>1
      <3>2. f[i] \in Int
        BY <1>0, <2>1
      <3>3. QED
        BY <2>1, <3>1, <3>2
    <2>3. f \in Injection(1..m, K)
      BY <2>1, <2>2 DEF Injection, IsInjective
    <2>4. f \in Surjection(1..m, K)
      BY <1>1, <2>3, FS_Injection DEF m
    <2>5. QED
      BY <2>4 DEF Surjection, f
  <1>10. QED
    BY <1>1, <1>8, <1>9 DEF m

\* What is taken from a sequence at the places of such a list
LEMMA AtPlacesType ==
  ASSUME NEW n \in Nat, NEW K \in SUBSET (1..n), NEW S, NEW s \in Seq(S), Len(s) = n
  PROVE  /\ AtPlaces(s, InOrder(K)) \in Seq(S)
         /\ Len(AtPlaces(s, InOrder(K))) = Cardinality(K)
         /\ \A j \in 1..Cardinality(K) : /\ InOrder(K)[j] \in K
                                         /\ AtPlaces(s, InOrder(K))[j] = s[InOrder(K)[j]]
  <1> DEFINE e == InOrder(K)
             m == Cardinality(K)
  <1>1. m \in Nat /\ e \in [1..m -> K]
    BY Enumeration
  <1>2. \A k \in K : s[k] \in S
    OBVIOUS
  <1> HIDE DEF e, m
  <1>3. \A j \in 1..m : e[j] \in K /\ s[e[j]] \in S
    BY <1>1, <1>2
  <1>4. AtPlaces(s, e) = [j \in 1..m |-> s[e[j]]]
    BY <1>1 DEF AtPlaces
  <1>5. AtPlaces(s, e) \in Seq(S) /\ Len(AtPlaces(s, e)) = m
    BY <1>1, <1>3, <1>4
  <1>6. \A j \in 1..m : AtPlaces(s, e)[j] = s[e[j]]
    BY <1>4
  <1>7. QED
    BY <1>3, <1>5, <1>6 DEF e, m

LEMMA SelectedMembers ==
  ASSUME NEW S, NEW s \in Seq(S), NEW R
  PROVE  /\ Selected(s, R) \in Seq(S)
         /\ Range(Selected(s, R)) = Range(s) \cap R
  <1> DEFINE n == Len(s)
             K == {k \in 1..n : s[k] \in R}
             t == AtPlaces(s, InOrder(K))
  <1>0. n \in Nat /\ K \in SUBSET (1..n) /\ DOMAIN s = 1..n
    OBVIOUS
  <1>1. Selected(s, R) = t
    BY <1>0 DEF Selected
  <1> HIDE DEF K, t, n
  <1>2. /\ t \in Seq(S) /\ Len(t) = Cardinality(K)
        /\ \A j \in 1..Cardinality(K) : InOrder(K)[j] \in K /\ t[j] = s[InOrder(K)[j]]
    BY <1>0, AtPlacesType DEF t, n
  <1>3. \A k \in K : \E i \in 1..Cardinality(K) : InOrder(K)[i] = k
    BY <1>0, Enumeration
  <1>4. DOMAIN t = 1..Cardinality(K)
    BY <1>2
  <1>5. \A x : x \in Range(t) <=> x \in Range(s) \cap R
    <2> TAKE x
    <2>1. ASSUME x \in Range(t) PROVE x \in Range(s) \cap R
      <3>1. PICK j \in 1..Cardinality(K) : t[j] = x
        BY <1>4, <2>1 DEF Range
      <3>2. QED
        BY <1>0, <1>2, <3>1 DEF Range, K
    <2>2. ASSUME x \in Range(s) \cap R PROVE x \in Range(t)
      <3>1. PICK k \in 1..n : s[k] = x
        BY <1>0, <2>2 DEF Range
      <3>2. k \in K
        BY <2>2, <3>1 DEF K
      <3>3. PICK i \in 1..Cardinality(K) : InOrder(K)[i] = k
        BY <1>3, <3>2
      <3>4. t[i] = x
        BY <1>2, <3>1, <3>3
      <3>5. QED
        BY <1>4, <3>3, <3>4 DEF Range
    <2>3. QED
      BY <2>1, <2>2
  <1>6. QED
    BY <1>1, <1>2, <1>5

LEMMA ConcatRange ==
  ASSUME NEW S, NEW s \in Seq(S), NEW t \in Seq(S)
  PROVE  s \o t \in Seq(S) /\ Range(s \o t) = Range(s) \cup Range(t)
  <1>1. /\ s \o t \in Seq(S) /\ Len(s) \in Nat /\ Len(t) \in Nat
        /\ DOMAIN s = 1..Len(s) /\ DOMAIN t = 1..Len(t) /\ DOMAIN (s \o t) = 1..Len(s) + Len(t)
        /\ \A i \in 1..Len(s) : (s \o t)[i] = s[i]
        /\ \A i \in 1..Len(t) : (s \o t)[Len(s) + i] = t[i]
    OBVIOUS
  <1> DEFINE u == s \o t
  <1> HIDE DEF u
  <1>2. \A i \in 1..Len(s) + Len(t) : i \in 1..Len(s) \/ \E j \in 1..Len(t) : i = Len(s) + j
    <2> SUFFICES ASSUME NEW i \in 1..Len(s) + Len(t), i \notin 1..Len(s)
                 PROVE  \E j \in 1..Len(t) : i = Len(s) + j
      OBVIOUS
    <2>1. i - Len(s) \in 1..Len(t) /\ i = Len(s) + (i - Len(s))
      BY <1>1
    <2>2. QED
      BY <2>1
  <1>3. \A j \in 1..Len(t) : Len(s) + j \in 1..Len(s) + Len(t)
    BY <1>1
  <1>4. \A j \in 1..Len(s) : j \in 1..Len(s) + Len(t)
    BY <1>1
  <1>5. Range(u) \subseteq Range(s) \cup Range(t)
    BY <1>1, <1>2 DEF Range, u
  <1>6. Range(s) \subseteq Range(u) /\ Range(t) \subseteq Range(u)
    BY <1>1, <1>3, <1>4 DEF Range, u
  <1>7. QED
    BY <1>1, <1>5, <1>6 DEF u

-----------------------------------------------------------------------------
(* The invariant *)

HasIds == "id" \in Range(Order)

Columns == Names \cup Positional
Atoms   == 1..Len(IdOf)
Printed == Int \cup [run : Nat, of : Int]

\* Columns that come with the positions, and with the identifiers if the first dump's do
OrderOK(order) == order \in Seq(Columns) /\ "x" \in Range(order) /\ (HasIds => "id" \in Range(order))

\* A dump on disk: each line is about an atom, under that atom's identifier.
DumpOK(dump) ==
  /\ OrderOK(dump.order)
  /\ dump.natoms \in Nat
  /\ dump.rows \in Seq([Range(dump.order) -> Printed]) /\ Len(dump.rows) <= dump.natoms
  /\ \A k \in 1..Len(dump.rows) :
       /\ dump.rows[k]["x"] \in Atoms
       /\ "id" \in Range(dump.order) => dump.rows[k]["id"] \in Int
       /\ HasIds => dump.rows[k]["id"] = IdOf[dump.rows[k]["x"]]

\* A frame in memory: as many identifiers and values as positions.
FrameOK(f) ==
  /\ OrderOK(f.order)
  /\ f.positions \in Seq(Atoms)
  /\ f.ids \in Seq(Int) /\ Len(f.ids) \in {0, Len(f.positions)}
  /\ HasIds => \A k \in 1..Len(f.positions) : k \in 1..Len(f.ids) /\ f.ids[k] = IdOf[f.positions[k]]
  /\ DOMAIN f.properties = Range(f.order) \ Positional
  /\ \A c \in DOMAIN f.properties :
       f.properties[c] \in Seq(Printed) /\ Len(f.properties[c]) = Len(f.positions)

Parsed  == {"keep", "merge", "map", "open", "write", "ok"}
Ready   == {"map", "open", "write", "ok"}
Mapped  == {"open", "write", "ok"}

\* The frame to write: what the input says of the atoms that the job keeps
FrameToWrite ==
  IF job.kind = "keep" THEN CompactFrame(ToFrame(input), job.atoms) ELSE ToFrame(input)

ControlInv ==
  /\ pc \in {"parse", "failed"} \cup Parsed
  /\ run \in 0..MaxRuns /\ broken \in BOOLEAN /\ job \in Jobs
  /\ pc \in {"keep", "merge"} => pc = job.kind

FrameInv ==
  /\ DumpOK(input) /\ FrameOK(frame)
  /\ pc \in Parsed => Whole(input)
  /\ pc \in {"keep", "merge"} => frame = ToFrame(input)
  /\ pc \in Ready => frame = FrameToWrite

\* Every atom's row has been looked up before the file is opened.
Looked == rows = [k \in DOMAIN frame.positions |-> RowOf(ResolveAtomId(frame, k))]

RowsInv ==
  /\ pc \in Ready /\ job.kind = "merge" => job.table.hasId
  /\ pc \in Mapped => Expandable /\ UniqueIds /\ Looked

OutputInv ==
  /\ output.natoms \in Nat /\ Len(output.rows) \in Nat /\ Len(output.rows) <= output.natoms
  /\ pc = "write" => output.header
  /\ pc = "ok" => output.header \/ Len(output.rows) = 0
  /\ pc \in {"write", "ok"} =>
       /\ output.order = ColumnOrder /\ output.natoms = Len(frame.positions)
       /\ output.rows \in Seq([Range(ColumnOrder) -> Printed])
       /\ \A k \in 1..Len(output.rows) : output.rows[k] = [c \in Range(ColumnOrder) |-> Cell(k, c)]

ChainInv == ControlInv /\ FrameInv /\ RowsInv /\ OutputInv

-----------------------------------------------------------------------------
(* Dumps and frames *)

LEMMA AtomsType == /\ Len(IdOf) \in Nat /\ DOMAIN IdOf = Atoms
                   /\ \A a \in Atoms : a \in Int /\ IdOf[a] \in Int
  BY IdAssumption DEF Atoms

LEMMA FirstDumpOK ==
  /\ DumpOK(FirstDump) /\ Whole(FirstDump)
  /\ Len(FirstDump.rows) = Len(IdOf)
  <1> DEFINE line(k) == [c \in Range(Order) |->
                          IF c = "x" THEN k ELSE IF c = "id" THEN IdOf[k] ELSE T!Value(0, IdOf[k])]
  <1>1. FirstDump.header = TRUE /\ FirstDump.order = Order /\ FirstDump.natoms = Len(IdOf) /\ FirstDump.rows = [k \in Atoms |-> line(k)]
    BY AtomsType DEF FirstDump
  <1>2. OrderOK(Order)
    BY OrderAssumption DEF OrderOK, Columns, HasIds
  <1>3. \A k \in Atoms : line(k) \in [Range(Order) -> Printed]
    <2> TAKE k \in Atoms
    <2>1. k \in Printed /\ IdOf[k] \in Printed
      BY AtomsType DEF Printed
    <2>2. T!Value(0, IdOf[k]) \in Printed
      BY AtomsType DEF Printed, T!Value
    <2>3. QED
      BY <2>1, <2>2
  <1>4. \A k \in Atoms : /\ line(k)["x"] = k
                         /\ "id" \in Range(Order) => line(k)["id"] = IdOf[k]
    BY OrderAssumption
  <1> HIDE DEF line
  <1>5. FirstDump.rows \in Seq([Range(Order) -> Printed]) /\ Len(FirstDump.rows) = Len(IdOf)
    BY <1>1, <1>3, AtomsType DEF Atoms
  <1>6. \A k \in Atoms : FirstDump.rows[k] = line(k)
    BY <1>1
  <1>7. QED
    BY <1>1, <1>2, <1>4, <1>5, <1>6, AtomsType DEF DumpOK, Whole, HasIds, Atoms

\* Every atom of a frame has a number to be looked up by, and it is the atom's own.
LEMMA ResolveOK ==
  ASSUME NEW f, FrameOK(f), NEW k \in 1..Len(f.positions)
  PROVE  /\ ResolveAtomId(f, k) \in Int
         /\ HasIds => ResolveAtomId(f, k) = IdOf[f.positions[k]]
  <1>1. f.ids \in Seq(Int) /\ k \in Int
    BY DEF FrameOK
  <1>2. DOMAIN f.ids = 1..Len(f.ids)
    BY <1>1
  <1>3. QED
    BY <1>1, <1>2 DEF FrameOK, ResolveAtomId

LEMMA ToFrameOK ==
  ASSUME NEW dump, DumpOK(dump)
  PROVE  /\ FrameOK(ToFrame(dump))
         /\ ToFrame(dump).order = dump.order
         /\ Len(ToFrame(dump).positions) = Len(dump.rows)
         /\ \A k \in 1..Len(dump.rows) :
              /\ ToFrame(dump).positions[k] = dump.rows[k]["x"]
              /\ \A c \in Range(dump.order) \ Positional : ToFrame(dump).properties[c][k] = dump.rows[k][c]
  <1> DEFINE f == ToFrame(dump)
             n == Len(dump.rows)
  <1>1. /\ n \in Nat /\ DOMAIN dump.rows = 1..n
        /\ \A k \in 1..n, c \in Range(dump.order) : dump.rows[k][c] \in Printed
    <2> DEFINE L == [Range(dump.order) -> Printed]
    <2>1. dump.rows \in Seq(L)
      BY DEF DumpOK
    <2>2. n \in Nat /\ DOMAIN dump.rows = 1..n /\ \A k \in 1..n : dump.rows[k] \in L
      <3> HIDE DEF L
      <3> QED BY <2>1
    <2>3. QED
      BY <2>2
  <1>2. /\ f.order = dump.order
        /\ f.positions = [k \in 1..n |-> dump.rows[k]["x"]]
        /\ f.ids = IF "id" \in Range(dump.order) THEN [k \in 1..n |-> dump.rows[k]["id"]] ELSE <<>>
        /\ f.properties = [c \in Range(dump.order) \ Positional |-> [k \in 1..n |-> dump.rows[k][c]]]
    BY <1>1 DEF ToFrame, Column
  <1> HIDE DEF f, n
  <1>3. f.positions \in Seq(Atoms) /\ Len(f.positions) = n
    BY <1>1, <1>2 DEF DumpOK, n
  <1>4. \A c \in Range(dump.order) \ Positional :
          f.properties[c] \in Seq(Printed) /\ Len(f.properties[c]) = n
    <2> TAKE c \in Range(dump.order) \ Positional
    <2>1. f.properties[c] = [k \in 1..n |-> dump.rows[k][c]]
      BY <1>2
    <2>2. \A k \in 1..n : dump.rows[k][c] \in Printed
      BY <1>1
    <2>3. QED
      BY <1>1, <2>1, <2>2
  <1>5. f.ids \in Seq(Int) /\ Len(f.ids) \in {0, n}
    <2>1. CASE "id" \in Range(dump.order)
      BY <1>1, <1>2, <2>1 DEF DumpOK, n
    <2>2. CASE "id" \notin Range(dump.order)
      BY <1>2, <2>2
    <2>3. QED
      BY <2>1, <2>2
  <1>6. HasIds => \A k \in 1..n : k \in 1..Len(f.ids) /\ f.ids[k] = IdOf[f.positions[k]]
    <2> SUFFICES ASSUME HasIds, NEW k \in 1..n
                 PROVE  k \in 1..Len(f.ids) /\ f.ids[k] = IdOf[f.positions[k]]
      OBVIOUS
    <2>1. f.ids = [j \in 1..n |-> dump.rows[j]["id"]]
      BY <1>2 DEF DumpOK, OrderOK
    <2>2. dump.rows[k]["id"] = IdOf[dump.rows[k]["x"]]
      BY DEF DumpOK, n
    <2>3. QED
      BY <1>1, <1>2, <2>1, <2>2
  <1>7. FrameOK(f)
    BY <1>2, <1>3, <1>4, <1>5, <1>6 DEF FrameOK, DumpOK
  <1>8. QED
    BY <1>1, <1>2, <1>3, <1>7 DEF f, n

\* The places of a frame's atoms that a job keeps
KeptPlaces(f, atoms) == {k \in 1..Len(f.positions) : f.positions[k] \in atoms}

LEMMA CompactFrameOK ==
  ASSUME NEW f, FrameOK(f), NEW atoms
  PROVE  LET K == KeptPlaces(f, atoms)
             g == CompactFrame(f, atoms)
         IN /\ FrameOK(g) /\ g.order = f.order
            /\ Cardinality(K) \in Nat /\ Len(g.positions) = Cardinality(K)
            /\ \A j \in 1..Cardinality(K) :
                 /\ InOrder(K)[j] \in K
                 /\ g.positions[j] = f.positions[InOrder(K)[j]]
                 /\ \A c \in DOMAIN f.properties : g.properties[c][j] = f.properties[c][InOrder(K)[j]]
  <1> DEFINE n == Len(f.positions)
             K == KeptPlaces(f, atoms)
             e == InOrder(K)
             m == Cardinality(K)
             g == CompactFrame(f, atoms)
  <1>1. f.positions \in Seq(Atoms) /\ n \in Nat /\ DOMAIN f.positions = 1..n /\ K \in SUBSET (1..n)
    BY DEF FrameOK, KeptPlaces
  <1>2. m \in Nat /\ e \in [1..m -> K]
    BY <1>1, Enumeration
  <1>3. /\ g.order = f.order
        /\ g.positions = AtPlaces(f.positions, e)
        /\ g.ids = [j \in DOMAIN e |-> ResolveAtomId(f, e[j])]
        /\ g.properties = [c \in DOMAIN f.properties |-> AtPlaces(f.properties[c], e)]
    BY <1>1 DEF CompactFrame, KeptPlaces
  <1> HIDE DEF K, g
  <1>4. /\ g.positions \in Seq(Atoms) /\ Len(g.positions) = m
        /\ \A j \in 1..m : e[j] \in K /\ g.positions[j] = f.positions[e[j]]
    <2> DEFINE s == f.positions
    <2>1. /\ AtPlaces(s, e) \in Seq(Atoms) /\ Len(AtPlaces(s, e)) = m
          /\ \A j \in 1..m : e[j] \in K /\ AtPlaces(s, e)[j] = s[e[j]]
      <3>1. s \in Seq(Atoms) /\ Len(s) = n /\ n \in Nat /\ K \in SUBSET (1..n)
        BY <1>1
      <3> HIDE DEF s, n
      <3>2. QED
        BY <3>1, AtPlacesType
    <2> HIDE DEF e, m
    <2>2. QED
      BY <1>3, <2>1
  <1>5. \A c \in DOMAIN f.properties :
          /\ g.properties[c] \in Seq(Printed) /\ Len(g.properties[c]) = m
          /\ \A j \in 1..m : g.properties[c][j] = f.properties[c][e[j]]
    <2> TAKE c \in DOMAIN f.properties
    <2>1. f.properties[c] \in Seq(Printed) /\ Len(f.properties[c]) = n
      BY DEF FrameOK
    <2>2. g.properties[c] = AtPlaces(f.properties[c], e)
      BY <1>3
    <2> DEFINE s == f.properties[c]
    <2>3. /\ AtPlaces(s, e) \in Seq(Printed) /\ Len(AtPlaces(s, e)) = m
          /\ \A j \in 1..m : AtPlaces(s, e)[j] = s[e[j]]
      <3>1. s \in Seq(Printed) /\ Len(s) = n /\ n \in Nat /\ K \in SUBSET (1..n)
        BY <1>1, <2>1
      <3> HIDE DEF s, n
      <3>2. QED
        BY <3>1, AtPlacesType
    <2> HIDE DEF e, m
    <2>4. QED
      BY <2>2, <2>3
  <1> HIDE DEF e, m
  <1>6. \A j \in 1..m : /\ ResolveAtomId(f, e[j]) \in Int
                        /\ HasIds => ResolveAtomId(f, e[j]) = IdOf[f.positions[e[j]]]
    BY <1>1, <1>4, ResolveOK
  <1>7. g.ids \in Seq(Int) /\ Len(g.ids) = m /\ \A j \in 1..m : g.ids[j] = ResolveAtomId(f, e[j])
    BY <1>2, <1>3, <1>6
  <1>8. FrameOK(g)
    <2>1. OrderOK(g.order) /\ DOMAIN g.properties = Range(g.order) \ Positional
      BY <1>3 DEF FrameOK
    <2>2. HasIds => \A j \in 1..Len(g.positions) : j \in 1..Len(g.ids) /\ g.ids[j] = IdOf[g.positions[j]]
      BY <1>4, <1>6, <1>7
    <2>3. \A c \in DOMAIN g.properties : g.properties[c] \in Seq(Printed) /\ Len(g.properties[c]) = Len(g.positions)
      BY <1>3, <1>4, <1>5
    <2>4. QED
      BY <1>4, <1>7, <2>1, <2>2, <2>3 DEF FrameOK
  <1>9. QED
    BY <1>2, <1>3, <1>4, <1>5, <1>8 DEF K, e, m, g, n

-----------------------------------------------------------------------------
(* What is written *)

LEMMA JobOK ==
  ASSUME NEW j \in Jobs
  PROVE  \/ j.kind = "keep" /\ j.atoms \subseteq Atoms
         \/ /\ j.kind = "merge" /\ j.overwrite \in BOOLEAN
            /\ j.table.hasId \in BOOLEAN /\ j.table.ids \in Seq(Int) /\ j.table.names \in Seq(Columns)
  BY AtomsType, TablesAssumption, OverwritesAssumption DEF Jobs, Columns

LEMMA ExtrasOK ==
  ASSUME job \in Jobs
  PROVE  /\ Extras \in Seq(Columns) /\ GivenIds \in Seq(Int)
         /\ job.kind = "merge" => Range(Extras) = Range(job.table.names) \ ({"id"} \cup Unsupported)
         /\ job.kind = "keep" => Extras = <<>>
         /\ Extras = <<>> <=> Range(Extras) = {}
  <1>1. CASE job.kind = "keep"
    <2>1. Extras = <<>> /\ GivenIds = <<>>
      BY <1>1 DEF Extras, GivenIds
    <2>2. <<>> \in Seq(Columns) /\ <<>> \in Seq(Int) /\ Range(<<>>) = {}
      BY DEF Range
    <2>3. QED
      BY <1>1, <2>1, <2>2
  <1>2. CASE job.kind = "merge"
    <2> DEFINE names == job.table.names
               R == (Names \cup Positional) \ ({"id"} \cup Unsupported)
    <2>1. job.table.ids \in Seq(Int) /\ names \in Seq(Columns)
      BY <1>2, JobOK
    <2>2. Extras = Selected(names, R) /\ GivenIds = job.table.ids
      BY <1>2 DEF Extras, GivenIds
    <2>3. Extras \in Seq(Columns) /\ Range(Extras) = Range(names) \cap R
      BY <2>1, <2>2, SelectedMembers
    <2>4. Range(names) \subseteq Names \cup Positional
      BY <2>1 DEF Range, Columns
    <2>5. Extras = <<>> <=> Range(Extras) = {}
      BY <2>3 DEF Range
    <2>6. QED
      BY <1>2, <2>1, <2>2, <2>3, <2>4, <2>5
  <1>3. QED
    BY <1>1, <1>2, JobOK

LEMMA ColumnOrderOK ==
  ASSUME FrameOK(frame), job \in Jobs
  PROVE  /\ OrderOK(ColumnOrder)
         /\ Range(ColumnOrder) = Range(frame.order) \cup Range(Extras)
  <1> DEFINE new == Selected(Extras, Range(Extras) \ Range(frame.order))
  <1>1. OrderOK(frame.order) /\ frame.order \in Seq(Columns) /\ "x" \in Range(frame.order)
    BY DEF FrameOK, OrderOK
  <1>2. frame.order # <<>>
    BY <1>1 DEF Range
  <1>3. ColumnOrder = frame.order \o new
    BY <1>2 DEF ColumnOrder
  <1>4. new \in Seq(Columns) /\ Range(new) = Range(Extras) \cap (Range(Extras) \ Range(frame.order))
    BY ExtrasOK, SelectedMembers
  <1> HIDE DEF new
  <1>5. ColumnOrder \in Seq(Columns) /\ Range(ColumnOrder) = Range(frame.order) \cup Range(new)
    BY <1>1, <1>3, <1>4, ConcatRange
  <1>6. Range(ColumnOrder) = Range(frame.order) \cup Range(Extras)
    BY <1>4, <1>5
  <1>7. QED
    BY <1>1, <1>5, <1>6 DEF OrderOK

\* The values of a merge are looked up by the identifiers that came with them.
LEMMA PropertyIdsOK ==
  ASSUME job \in Jobs, Expandable
  PROVE  /\ PropertyIds = GivenIds /\ PropertyIds \in Seq(Int)
         /\ \A id : IF id \in Range(GivenIds)
                    THEN /\ RowOf(id) \in 1..Len(PropertyIds) /\ RowOf(id) # 0
                         /\ PropertyIds[RowOf(id)] = id
                    ELSE RowOf(id) = 0
  <1>1. PropertyIds = GivenIds
    BY DEF PropertyIds, Expandable
  <1>2. PropertyIds \in Seq(Int) /\ DOMAIN PropertyIds = 1..Len(PropertyIds)
    BY <1>1, ExtrasOK
  <1>3. \A id : id \in Range(PropertyIds) =>
                  RowOf(id) \in DOMAIN PropertyIds /\ PropertyIds[RowOf(id)] = id
    BY DEF RowOf, Range
  <1>4. \A id : id \notin Range(PropertyIds) => RowOf(id) = 0
    BY DEF RowOf
  <1>5. 0 \notin DOMAIN PropertyIds
    BY <1>2
  <1>6. QED
    BY <1>1, <1>2, <1>3, <1>4, <1>5

LEMMA ValuePrinted == \A n \in Nat, id \in Int : T!Value(n, id) \in Printed /\ T!Zero \in Printed
  BY DEF T!Value, T!Zero, Printed

\* The cells of the line of an atom: its position, its number, and of every other column
\* what the table has under that number, or what the frame has.
LEMMA CellOK ==
  ASSUME FrameOK(frame), job \in Jobs, Expandable, Looked, run \in Nat,
         NEW k \in 1..Len(frame.positions)
  PROVE  /\ Cell(k, "x") = frame.positions[k]
         /\ Cell(k, "id") = ResolveAtomId(frame, k)
         /\ \A c : c \notin Positional =>
              Cell(k, c) = IF FromExtras(c)
                           THEN IF ResolveAtomId(frame, k) \in Range(GivenIds)
                                THEN T!Value(run + 1, ResolveAtomId(frame, k)) ELSE T!Zero
                           ELSE IF c \in DOMAIN frame.properties THEN frame.properties[c][k] ELSE T!Zero
         /\ \A c : Cell(k, c) \in Printed
  <1> DEFINE id == ResolveAtomId(frame, k)
  <1>1. id \in Int /\ DOMAIN frame.positions = 1..Len(frame.positions)
    BY ResolveOK DEF FrameOK
  <1>2. rows[k] = RowOf(id)
    BY <1>1 DEF Looked
  <1>3. Cell(k, "x") = frame.positions[k] /\ Cell(k, "id") = id
    BY DEF Cell, Positional
  <1>4. Cell(k, "x") \in Printed /\ Cell(k, "id") \in Printed
    <2>1. frame.positions[k] \in Atoms
      BY DEF FrameOK
    <2>2. QED
      BY <1>1, <1>3, <2>1, AtomsType DEF Printed
  <1>5. ASSUME NEW c, c \notin Positional
        PROVE  /\ Cell(k, c) = IF FromExtras(c)
                               THEN IF id \in Range(GivenIds) THEN T!Value(run + 1, id) ELSE T!Zero
                               ELSE IF c \in DOMAIN frame.properties THEN frame.properties[c][k] ELSE T!Zero
               /\ Cell(k, c) \in Printed
    <2>1. c # "x" /\ c # "id"
      BY <1>5 DEF Positional
    <2>2. CASE FromExtras(c)
      <3>1. Cell(k, c) = IF rows[k] = 0 THEN T!Zero ELSE T!Value(run + 1, PropertyIds[rows[k]])
        BY <1>5, <2>1, <2>2 DEF Cell
      <3>2. Cell(k, c) = IF id \in Range(GivenIds) THEN T!Value(run + 1, id) ELSE T!Zero
        BY <1>2, <3>1, PropertyIdsOK
      <3>3. QED
        BY <1>1, <2>2, <3>2, ValuePrinted
    <2>3. CASE ~FromExtras(c)
      <3>1. Cell(k, c) = IF c \in DOMAIN frame.properties /\ k \in DOMAIN frame.properties[c]
                         THEN frame.properties[c][k] ELSE T!Zero
        BY <1>5, <2>1, <2>3 DEF Cell
      <3>2. c \in DOMAIN frame.properties =>
              k \in DOMAIN frame.properties[c] /\ frame.properties[c][k] \in Printed
        <4> SUFFICES ASSUME c \in DOMAIN frame.properties
                     PROVE  k \in DOMAIN frame.properties[c] /\ frame.properties[c][k] \in Printed
          OBVIOUS
        <4>1. frame.properties[c] \in Seq(Printed) /\ Len(frame.properties[c]) = Len(frame.positions)
          BY DEF FrameOK
        <4>2. QED
          BY <4>1
      <3>3. T!Zero \in Printed
        BY <1>1, ValuePrinted
      <3>4. QED
        BY <2>3, <3>1, <3>2, <3>3
    <2>4. QED
      BY <2>2, <2>3
  <1>6. \A c : c = "x" \/ c = "id" \/ c \notin Positional
    BY DEF Positional
  <1>7. QED
    BY <1>3, <1>4, <1>5, <1>6

LEMMA Untouched ==
  ASSUME UNCHANGED <<frame, job>>
  PROVE  /\ Expandable' = Expandable /\ UniqueIds' = UniqueIds /\ ColumnOrder' = ColumnOrder
         /\ \A id : RowOf(id)' = RowOf(id)
         /\ UNCHANGED <<rows, run>> => Looked' = Looked /\ \A k, c : Cell(k, c)' = Cell(k, c)
  <1>1. Extras' = Extras /\ GivenIds' = GivenIds /\ PropertyIds' = PropertyIds
    BY DEF Extras, GivenIds, PropertyIds
  <1>2. Expandable' = Expandable /\ UniqueIds' = UniqueIds /\ ColumnOrder' = ColumnOrder
    BY <1>1 DEF Expandable, UniqueIds, ColumnOrder
  <1>3. \A id : RowOf(id)' = RowOf(id)
    BY <1>1 DEF RowOf
  <1>4. ASSUME UNCHANGED <<rows, run>> PROVE Looked' = Looked
    BY <1>3, <1>4 DEF Looked
  <1>5. ASSUME UNCHANGED <<rows, run>>, NEW k, NEW c PROVE Cell(k, c)' = Cell(k, c)
    BY <1>1, <1>5 DEF Cell, FromExtras
  <1>6. QED
    BY <1>2, <1>3, <1>4, <1>5

\* What has been written is a dump again, which the next run may read.
LEMMA OutputIsDump ==
  ASSUME ChainInv, pc \in {"write", "ok"}
  PROVE  DumpOK(output)
  <1>1. FrameOK(frame) /\ job \in Jobs /\ Expandable /\ Looked /\ run \in Nat
    BY RunsAssumption DEF ChainInv, ControlInv, FrameInv, RowsInv, Mapped
  <1>2. /\ output.order = ColumnOrder /\ output.natoms = Len(frame.positions)
        /\ output.natoms \in Nat /\ Len(output.rows) <= output.natoms /\ Len(output.rows) \in Nat
        /\ output.rows \in Seq([Range(ColumnOrder) -> Printed])
        /\ \A k \in 1..Len(output.rows) : output.rows[k] = [c \in Range(ColumnOrder) |-> Cell(k, c)]
    BY DEF ChainInv, OutputInv
  <1>3. OrderOK(ColumnOrder)
    BY <1>1, ColumnOrderOK
  <1>4. ASSUME NEW k \in 1..Len(output.rows)
        PROVE  /\ output.rows[k]["x"] \in Atoms
               /\ "id" \in Range(ColumnOrder) => output.rows[k]["id"] \in Int
               /\ HasIds => output.rows[k]["id"] = IdOf[output.rows[k]["x"]]
    <2>1. k \in 1..Len(frame.positions)
      BY <1>2
    <2>2. /\ Cell(k, "x") = frame.positions[k]
          /\ Cell(k, "id") = ResolveAtomId(frame, k)
          /\ frame.positions[k] \in Atoms
      BY <1>1, <2>1, CellOK DEF FrameOK
    <2>3. output.rows[k]["x"] = frame.positions[k]
      BY <1>2, <1>3, <2>2 DEF OrderOK
    <2>4. "id" \in Range(ColumnOrder) => output.rows[k]["id"] = ResolveAtomId(frame, k)
      BY <1>2, <2>2
    <2>5. HasIds => "id" \in Range(ColumnOrder)
      BY <1>3 DEF OrderOK
    <2>6. QED
      BY <1>1, <2>1, <2>2, <2>3, <2>4, <2>5, ResolveOK
  <1>5. QED
    BY <1>2, <1>3, <1>4 DEF DumpOK

-----------------------------------------------------------------------------
(* The steps *)

LEMMA InitChain == Init => ChainInv
  <1> SUFFICES ASSUME Init PROVE ChainInv
    OBVIOUS
  <1>1. DumpOK(input) /\ FrameOK(frame)
    BY FirstDumpOK, ToFrameOK DEF Init
  <1>2. ControlInv
    <2>1. run \in 0..MaxRuns
      BY RunsAssumption DEF Init
    <2>2. broken \in BOOLEAN /\ job \in Jobs /\ pc = "parse"
      BY DEF Init
    <2>3. QED
      BY <2>1, <2>2 DEF ControlInv
  <1>3. OutputInv
    BY DEF Init, OutputInv
  <1>4. QED
    BY <1>1, <1>2, <1>3 DEF Init, ChainInv, FrameInv, RowsInv, Parsed, Ready, Mapped

LEMMA ParseKeeps == ChainInv /\ Parse => ChainInv'
  <1> SUFFICES ASSUME ChainInv, Parse PROVE ChainInv'
    OBVIOUS
  <1>1. /\ pc' \in {"keep", "merge", "failed"}
        /\ pc' # "failed" => pc' = job.kind /\ Whole(input) /\ frame' = ToFrame(input)
        /\ pc' = "failed" => frame' = frame
        /\ UNCHANGED <<input, output, job, rows, broken, run>>
    BY JobOK DEF Parse, Goto, ChainInv, ControlInv
  <1>2. ControlInv'
    BY <1>1 DEF ChainInv, ControlInv, Parsed
  <1>3. FrameOK(frame')
    BY <1>1, ToFrameOK DEF ChainInv, FrameInv
  <1>4. FrameInv'
    BY <1>1, <1>3, ToFrameOK DEF ChainInv, FrameInv, Ready, Parsed, Whole
  <1>5. RowsInv' /\ OutputInv'
    BY <1>1 DEF ChainInv, RowsInv, OutputInv, Ready, Mapped
  <1>6. QED
    BY <1>2, <1>4, <1>5 DEF ChainInv

LEMMA ReadingKeeps == ChainInv /\ (KeepSelected \/ RefuseArgument \/ ReadTable) => ChainInv'
  <1> SUFFICES ASSUME ChainInv, KeepSelected \/ RefuseArgument \/ ReadTable PROVE ChainInv'
    OBVIOUS
  <1>1. /\ pc \in {"keep", "merge"} /\ pc = job.kind /\ pc' \in {"map", "failed"}
        /\ frame = ToFrame(input) /\ Whole(input) /\ DumpOK(input)
        /\ UNCHANGED <<input, output, job, rows, broken, run>>
    BY DEF KeepSelected, RefuseArgument, ReadTable, Goto, ChainInv, ControlInv, FrameInv, Parsed
  <1>2. /\ FrameOK(frame')
        /\ pc' = "map" => frame' = FrameToWrite /\ (job.kind = "merge" => job.table.hasId)
    <2>1. CASE KeepSelected
      <3>1. pc' = "map" /\ job.kind = "keep" /\ frame' = CompactFrame(frame, job.atoms)
        BY <1>1, <2>1 DEF KeepSelected, Goto
      <3>2. FrameOK(frame')
        BY <3>1, CompactFrameOK DEF ChainInv, FrameInv
      <3>3. QED
        BY <1>1, <3>1, <3>2 DEF FrameToWrite
    <2>2. CASE RefuseArgument
      BY <2>2 DEF RefuseArgument, ChainInv, FrameInv
    <2>3. CASE ReadTable
      BY <1>1, <2>3 DEF ReadTable, Goto, ChainInv, FrameInv, FrameToWrite
    <2>4. QED
      BY <2>1, <2>2, <2>3
  <1>3. ControlInv'
    BY <1>1 DEF ChainInv, ControlInv, Parsed
  <1>4. FrameInv'
    BY <1>1, <1>2 DEF FrameInv, FrameToWrite, Parsed, Ready, Whole
  <1>5. RowsInv' /\ OutputInv'
    BY <1>1, <1>2 DEF ChainInv, RowsInv, OutputInv, Ready, Mapped
  <1>6. QED
    BY <1>3, <1>4, <1>5 DEF ChainInv

LEMMA MapRowsKeeps == ChainInv /\ MapRows => ChainInv'
  <1> SUFFICES ASSUME ChainInv, MapRows PROVE ChainInv'
    OBVIOUS
  <1>1. /\ pc = "map" /\ pc' \in {"open", "failed"}
        /\ pc' = "open" => /\ Expandable /\ UniqueIds
                           /\ rows' = [k \in DOMAIN frame.positions |-> RowOf(ResolveAtomId(frame, k))]
        /\ UNCHANGED <<input, output, frame, job, broken, run>>
    BY DEF MapRows, Goto
  <1>2. ControlInv'
    BY <1>1 DEF ChainInv, ControlInv, Parsed
  <1>3. FrameInv'
    BY <1>1 DEF ChainInv, FrameInv, FrameToWrite, Parsed, Ready, Whole
  <1>4. RowsInv'
    <2>1. pc' = "open" => Expandable' /\ UniqueIds' /\ Looked'
      BY <1>1, Untouched DEF Looked
    <2>2. QED
      BY <1>1, <2>1 DEF ChainInv, RowsInv, Ready, Mapped
  <1>5. OutputInv'
    BY <1>1 DEF ChainInv, OutputInv
  <1>6. QED
    BY <1>2, <1>3, <1>4, <1>5 DEF ChainInv

LEMMA WritingKeeps == ChainInv /\ (OpenOutput \/ WriteRow \/ Close) => ChainInv'
  <1> SUFFICES ASSUME ChainInv, OpenOutput \/ WriteRow \/ Close PROVE ChainInv'
    OBVIOUS
  <1>1. /\ pc \in {"open", "write"} /\ pc' \in {"write", "ok", "failed"} /\ broken' \in BOOLEAN
        /\ UNCHANGED <<input, frame, job, rows, run>>
    BY DEF OpenOutput, WriteRow, Close, Goto, ChainInv, ControlInv
  <1>2. /\ FrameOK(frame) /\ job \in Jobs /\ Expandable /\ UniqueIds /\ Looked /\ run \in Nat
        /\ Len(frame.positions) \in Nat
    BY <1>1, RunsAssumption DEF ChainInv, ControlInv, FrameInv, FrameOK, RowsInv, Mapped
  <1>3. ControlInv'
    BY <1>1 DEF ChainInv, ControlInv, Parsed
  <1>4. FrameInv'
    BY <1>1 DEF ChainInv, FrameInv, FrameToWrite, Parsed, Ready, Whole
  <1>5. RowsInv'
    BY <1>1, <1>2, Untouched DEF ChainInv, RowsInv, Ready, Mapped
  <1>6. OutputInv'
    <2> DEFINE L == [Range(ColumnOrder) -> Printed]
               line(k) == [c \in Range(ColumnOrder) |-> Cell(k, c)]
               Good(o) == /\ o.natoms \in Nat /\ Len(o.rows) \in Nat /\ Len(o.rows) <= o.natoms
                          /\ o.order = ColumnOrder /\ o.natoms = Len(frame.positions)
                          /\ o.rows \in Seq(L)
                          /\ \A k \in 1..Len(o.rows) : o.rows[k] = line(k)
               Headed == /\ pc' = "write" => output'.header
                         /\ pc' = "ok" => output'.header \/ Len(output'.rows) = 0
    <2>1. ColumnOrder' = ColumnOrder /\ \A k, c : Cell(k, c)' = Cell(k, c)
      BY <1>1, Untouched
    <2>2. Good(output') /\ Headed => OutputInv'
      BY <1>1, <2>1 DEF OutputInv
    <2>3. pc = "write" => Good(output) /\ output.header
      BY DEF ChainInv, OutputInv
    <2>4. \A k \in 1..Len(frame.positions) : line(k) \in L
      BY <1>2, CellOK
    <2> HIDE DEF L, line
    <2>5. CASE OpenOutput
      <3>1. CASE output' = [header |-> TRUE, order |-> ColumnOrder, natoms |-> Len(frame.positions), rows |-> <<>>]
        <4>1. Good(output') /\ Headed
          BY <1>2, <3>1
        <4>2. QED
          BY <2>2, <4>1
      <3>2. CASE output' = output /\ pc' = "failed"
        BY <3>2 DEF ChainInv, OutputInv
      <3>3. QED
        BY <2>5, <3>1, <3>2 DEF OpenOutput, Goto
    <2>6. CASE WriteRow
      <3>1. /\ pc = "write" /\ pc' = "write" /\ Good(output) /\ output.header
            /\ Len(output.rows) < Len(frame.positions)
        BY <2>3, <2>6 DEF WriteRow
      <3>2. CASE output' = output
        BY <2>2, <3>1, <3>2
      <3>3. CASE output' # output
        <4> DEFINE n == Len(output.rows)
        <4>1. output' = [output EXCEPT !.rows = Append(@, [c \in Range(output.order) |-> Cell(n + 1, c)])]
          BY <2>6, <3>3 DEF WriteRow
        <4>2. line(n + 1) = [c \in Range(output.order) |-> Cell(n + 1, c)]
          BY <3>1 DEF line
        <4>3. n \in Nat /\ line(n + 1) \in L
          BY <1>2, <2>4, <3>1
        <4>4. /\ output'.order = ColumnOrder /\ output'.natoms = Len(frame.positions)
              /\ output'.rows = Append(output.rows, line(n + 1)) /\ output'.header
          BY <3>1, <4>1, <4>2
        <4>5. /\ output'.rows \in Seq(L) /\ Len(output'.rows) = n + 1
              /\ \A k \in 1..n + 1 : output'.rows[k] = line(k)
          BY <3>1, <4>3, <4>4
        <4>6. Good(output') /\ Headed
          BY <1>2, <3>1, <4>3, <4>4, <4>5
        <4>7. QED
          BY <2>2, <4>6
      <3>4. QED
        BY <3>2, <3>3
    <2>7. CASE Close
      <3>1. pc = "write" /\ pc' \in {"ok", "failed"} /\ Good(output) /\ output.header
        BY <2>3, <2>7 DEF Close
      <3>2. CASE output' = output
        BY <2>2, <3>1, <3>2
      <3>3. CASE \E n \in 0..Len(output.rows) : output' = [output EXCEPT !.rows = SubSeq(@, 1, n)]
        <4>1. PICK n \in 0..Len(output.rows) : output' = [output EXCEPT !.rows = SubSeq(@, 1, n)]
          BY <3>3
        <4>2. /\ output'.order = ColumnOrder /\ output'.natoms = output.natoms
              /\ output'.rows = SubSeq(output.rows, 1, n) /\ output'.header
          BY <3>1, <4>1
        <4>3. /\ output'.rows \in Seq(L) /\ Len(output'.rows) = n
              /\ \A k \in 1..n : output'.rows[k] = output.rows[k]
          BY <3>1, <4>2
        <4>4. Good(output') /\ Headed
          BY <3>1, <4>2, <4>3
        <4>5. QED
          BY <2>2, <4>4
      <3>4. CASE output' = [output EXCEPT !.header = FALSE, !.rows = <<>>]
        <4>1. /\ output'.order = ColumnOrder /\ output'.natoms = output.natoms
              /\ output'.rows = <<>>
          BY <3>1, <3>4
        <4>2. Good(output') /\ Headed
          BY <3>1, <4>1
        <4>3. QED
          BY <2>2, <4>2
      <3>5. QED
        BY <2>7, <3>2, <3>3, <3>4 DEF Close
    <2>8. QED
      BY <2>5, <2>6, <2>7
  <1>7. QED
    BY <1>3, <1>4, <1>5, <1>6 DEF ChainInv

LEMMA NextRunKeeps == ChainInv /\ NextRun => ChainInv'
  <1> SUFFICES ASSUME ChainInv, NextRun PROVE ChainInv'
    OBVIOUS
  <1>1. /\ pc \in {"ok", "failed"} /\ pc' = "parse" /\ run' = run + 1 /\ run < MaxRuns
        /\ input' = IF pc = "ok" THEN output ELSE input
        /\ job' \in Jobs /\ broken' = FALSE /\ UNCHANGED <<output, frame>>
    BY DEF NextRun
  <1>2. DumpOK(input')
    BY <1>1, OutputIsDump DEF ChainInv, FrameInv
  <1>3. ControlInv'
    <2>1. run' \in 0..MaxRuns
      BY <1>1, RunsAssumption DEF ChainInv, ControlInv
    <2>2. broken' \in BOOLEAN /\ job' \in Jobs /\ pc' = "parse"
      BY <1>1
    <2>3. QED
      BY <2>1, <2>2 DEF ControlInv
  <1>4. FrameInv' /\ RowsInv' /\ OutputInv'
    BY <1>1, <1>2 DEF ChainInv, FrameInv, RowsInv, OutputInv, Parsed, Ready, Mapped
  <1>5. QED
    BY <1>3, <1>4 DEF ChainInv

LEMMA ChainInvHolds == Spec => []ChainInv
  <1>1. ChainInv /\ [Next]_vars => ChainInv'
    <2> SUFFICES ASSUME ChainInv, [Next]_vars PROVE ChainInv'
      OBVIOUS
    <2>1. CASE UNCHANGED vars
      <3>1. UNCHANGED <<input, output, frame, job, rows, broken, pc, run>>
        BY <2>1 DEF vars
      <3>2. ControlInv' /\ FrameInv'
        BY <3>1 DEF ChainInv, ControlInv, FrameInv, FrameToWrite, Whole
      <3>3. RowsInv' /\ OutputInv'
        BY <3>1, Untouched DEF ChainInv, RowsInv, OutputInv
      <3>4. QED
        BY <3>2, <3>3 DEF ChainInv
    <2>2. QED
      BY <2>1, ParseKeeps, ReadingKeeps, MapRowsKeeps, WritingKeeps, NextRunKeeps DEF Next
  <1>2. QED
    BY <1>1, InitChain, PTL DEF Spec

-----------------------------------------------------------------------------
(* Types, and what a refused merge leaves alone *)

(* Types: a frame's arrays are as long as its positions, every atom has a row by the time *)
(* the file is opened, and an output never has more lines than it declares.              *)
THEOREM TypeCorrect == Spec => []TypeOK
  <1>1. ChainInv => TypeOK
    <2> SUFFICES ASSUME ChainInv PROVE TypeOK
      OBVIOUS
    <2>1. FrameOK(frame)
      BY DEF ChainInv, FrameInv
    <2>2. pc \in {"open", "write"} => Len(rows) = Len(frame.positions)
      <3> SUFFICES ASSUME pc \in {"open", "write"} PROVE Len(rows) = Len(frame.positions)
        OBVIOUS
      <3>1. Looked /\ Len(frame.positions) \in Nat /\ DOMAIN frame.positions = 1..Len(frame.positions)
        BY <2>1 DEF ChainInv, RowsInv, Mapped, FrameOK
      <3>2. QED
        BY <3>1 DEF Looked
    <2>3. QED
      BY <2>1, <2>2 DEF TypeOK, ChainInv, ControlInv, OutputInv, FrameOK, Parsed
  <1>2. QED
    BY <1>1, ChainInvHolds, PTL

(* The previous output is given up only for a merge that can be carried out: its table    *)
(* has identifiers, none of them twice, and a row if it has a column to bring.            *)
THEOREM RefusalIsHarmless == Spec => RefusedMergeKeepsOutput
  <1> DEFINE Mergeable ==
               /\ job.table.hasId
               /\ Cardinality(Range(job.table.ids)) = Len(job.table.ids)
               /\ Range(job.table.names) \subseteq {"id"} \cup Unsupported \/ job.table.ids # <<>>
  <1>1. ChainInv /\ [Next]_vars => [job.kind = "merge" /\ output' # output => Mergeable]_vars
    <2> SUFFICES ASSUME ChainInv, [Next]_vars, job.kind = "merge", output' # output PROVE Mergeable
      OBVIOUS
    <2> DEFINE ids == job.table.ids
    <2>1. pc \in {"open", "write"}
      BY DEF Next, vars, Parse, KeepSelected, RefuseArgument, ReadTable, MapRows, OpenOutput,
         WriteRow, Close, NextRun, Goto
    <2>2. job \in Jobs /\ Expandable /\ UniqueIds /\ job.table.hasId
      BY <2>1 DEF ChainInv, ControlInv, RowsInv, Ready, Mapped
    <2>3. PropertyIds = ids /\ GivenIds = ids /\ ids \in Seq(Int)
      BY <2>2, PropertyIdsOK DEF GivenIds
    <2>4. Cardinality(Range(ids)) = Len(ids)
      <3>1. Len(ids) \in Nat /\ DOMAIN ids = 1..Len(ids)
        BY <2>3
      <3>2. \A i, j \in 1..Len(ids) : ids[i] = ids[j] => i = j
        BY <2>2, <2>3, <3>1 DEF UniqueIds
      <3>3. ids \in [1..Len(ids) -> Range(ids)]
        BY <2>3, <3>1 DEF Range
      <3>4. ids \in Injection(1..Len(ids), Range(ids)) /\ ids \in Surjection(1..Len(ids), Range(ids))
        BY <3>1, <3>2, <3>3 DEF Injection, IsInjective, Surjection, Range
      <3>5. IsFiniteSet(1..Len(ids)) /\ Cardinality(1..Len(ids)) = Len(ids)
        BY <3>1, FS_Interval
      <3>6. QED
        BY <3>4, <3>5, FS_Surjection
    <2>5. Range(job.table.names) \subseteq {"id"} \cup Unsupported \/ ids # <<>>
      BY <2>2, <2>3, ExtrasOK DEF Expandable
    <2>6. QED
      BY <2>2, <2>4, <2>5
  <1>2. QED
    BY <1>1, ChainInvHolds, PTL DEF Spec, RefusedMergeKeepsOutput

-----------------------------------------------------------------------------
(* The refinement *)

LEMMA SameSelection ==
  /\ \A s, e : T!AtPlaces(s, e) = AtPlaces(s, e)
  /\ \A K : T!InOrder(K) = InOrder(K)
  <1>1. ASSUME NEW s, NEW e PROVE T!AtPlaces(s, e) = AtPlaces(s, e)
    BY DEF T!AtPlaces, AtPlaces
  <1>2. ASSUME NEW K PROVE T!InOrder(K) = InOrder(K)
    BY DEF T!InOrder, InOrder, T!Ascends, Ascends, T!Cardinality, Cardinality, T!IsFiniteSet, IsFiniteSet
  <1>3. QED
    BY <1>1, <1>2

\* Columns that come from the position are none that an operation could bring.
LEMMA SeenIsAnOperation ==
  ASSUME NEW j \in Jobs, NEW columns
  PROVE  Seen(j, columns) \in AllSeen
  <1>1. Seen(j, columns) = Seen(j, columns \cap Names)
    BY DEF Seen
  <1>2. columns \cap Names \in SUBSET Names
    OBVIOUS
  <1>3. QED
    BY <1>1, <1>2 DEF AllSeen

LEMMA LinesOK ==
  ASSUME NEW dump, DumpOK(dump)
  PROVE  /\ Len(dump.rows) \in Nat /\ DOMAIN Lines(dump) = 1..Len(dump.rows)
         /\ Lines(dump) \in Seq(Range(Lines(dump))) /\ Len(Lines(dump)) = Len(dump.rows)
         /\ \A k \in 1..Len(dump.rows) :
              Lines(dump)[k] = [atom  |-> dump.rows[k]["x"],
                                cells |-> [c \in Range(dump.order) \cap Names |-> dump.rows[k][c]]]
  <1>1. Len(dump.rows) \in Nat /\ DOMAIN dump.rows = 1..Len(dump.rows)
    BY DEF DumpOK
  <1>2. DOMAIN Lines(dump) = 1..Len(dump.rows)
    BY <1>1 DEF Lines
  <1>3. Lines(dump) \in [1..Len(dump.rows) -> Range(Lines(dump))]
    <2>1. Lines(dump) = [k \in 1..Len(dump.rows) |-> Lines(dump)[k]]
      BY <1>1 DEF Lines
    <2>2. QED
      BY <1>2, <2>1 DEF Range
  <1>4. Lines(dump) \in Seq(Range(Lines(dump))) /\ Len(Lines(dump)) = Len(dump.rows)
    BY <1>1, <1>3
  <1>5. QED
    BY <1>1, <1>2, <1>4 DEF Lines

\* A line of the output is about the atom of the frame's position.
LEMMA OutputLine ==
  ASSUME ChainInv, pc = "ok", NEW k \in 1..Len(output.rows)
  PROVE  /\ k \in 1..Len(frame.positions)
         /\ Lines(output)[k] = [atom  |-> frame.positions[k],
                                cells |-> [c \in Range(ColumnOrder) \cap Names |-> Cell(k, c)]]
  <1>1. /\ FrameOK(frame) /\ job \in Jobs /\ Expandable /\ Looked /\ run \in Nat
    BY RunsAssumption DEF ChainInv, ControlInv, FrameInv, RowsInv, Mapped
  <1>2. /\ output.order = ColumnOrder /\ output.natoms = Len(frame.positions)
        /\ Len(output.rows) <= output.natoms /\ Len(output.rows) \in Nat /\ output.natoms \in Nat
        /\ output.rows[k] = [c \in Range(ColumnOrder) |-> Cell(k, c)]
    BY DEF ChainInv, OutputInv
  <1>3. k \in 1..Len(frame.positions)
    BY <1>2
  <1>4. DumpOK(output)
    BY OutputIsDump
  <1>5. output.rows[k]["x"] = frame.positions[k]
    BY <1>1, <1>2, <1>3, CellOK, ColumnOrderOK DEF OrderOK
  <1>6. \A c \in Range(ColumnOrder) \cap Names : output.rows[k][c] = Cell(k, c)
    BY <1>2
  <1>7. Lines(output)[k] = [atom  |-> output.rows[k]["x"],
                            cells |-> [c \in Range(ColumnOrder) \cap Names |-> output.rows[k][c]]]
    BY <1>2, <1>4, LinesOK
  <1>8. [c \in Range(ColumnOrder) \cap Names |-> output.rows[k][c]]
          = [c \in Range(ColumnOrder) \cap Names |-> Cell(k, c)]
    BY <1>6
  <1>9. QED
    BY <1>3, <1>5, <1>7, <1>8

\* A dump that succeeded has the lines of the operation's result, as many as were stored.
Written == /\ T!Result \in Seq(Range(T!Result)) /\ Len(T!Result) = Len(frame.positions)
           /\ \A k \in 1..Len(output.rows) : Lines(output)[k] = T!Result[k]

LEMMA KeptIsWritten ==
  ASSUME ChainInv, pc = "ok", job.kind = "keep"
  PROVE  Written
  <1> DEFINE n == Len(input.rows)
             f == ToFrame(input)
             L == Lines(input)
             K == KeptPlaces(f, job.atoms)
             e == InOrder(K)
             m == Cardinality(K)
             names == Range(input.order) \cap Names
  <1>1. /\ DumpOK(input) /\ FrameOK(frame) /\ job \in Jobs /\ Expandable /\ Looked /\ run \in Nat
        /\ frame = CompactFrame(f, job.atoms)
    BY RunsAssumption DEF ChainInv, ControlInv, FrameInv, RowsInv, FrameToWrite, Ready, Mapped
  <1>2. /\ n \in Nat /\ DOMAIN L = 1..n /\ L \in Seq(Range(L)) /\ Len(L) = n
        /\ \A k \in 1..n : L[k] = [atom |-> input.rows[k]["x"], cells |-> [c \in names |-> input.rows[k][c]]]
    BY <1>1, LinesOK
  <1>3. /\ FrameOK(f) /\ f.order = input.order /\ Len(f.positions) = n
        /\ \A k \in 1..n : /\ f.positions[k] = input.rows[k]["x"]
                           /\ \A c \in Range(input.order) \ Positional : f.properties[c][k] = input.rows[k][c]
    BY <1>1, ToFrameOK
  <1>4. K \in SUBSET (1..n) /\ K = {k \in DOMAIN L : L[k].atom \in job.atoms}
    <2> HIDE DEF n, f, L, names
    <2>1. \A k \in 1..n : L[k].atom = f.positions[k]
      BY <1>2, <1>3
    <2>2. QED
      BY <1>2, <1>3, <2>1 DEF KeptPlaces
  <1>5. T!Result = AtPlaces(L, e)
    BY <1>4, SameSelection DEF T!Result, T!Kept, Seen
  <1> HIDE DEF n, f, L
  <1>6. /\ frame.order = input.order /\ m \in Nat /\ Len(frame.positions) = m
        /\ \A j \in 1..m : /\ e[j] \in K /\ frame.positions[j] = f.positions[e[j]]
                           /\ \A c \in DOMAIN f.properties : frame.properties[c][j] = f.properties[c][e[j]]
    <2> DEFINE g == CompactFrame(f, job.atoms)
    <2>1. /\ g.order = f.order /\ m \in Nat /\ Len(g.positions) = m
          /\ \A j \in 1..m : /\ e[j] \in K /\ g.positions[j] = f.positions[e[j]]
                             /\ \A c \in DOMAIN f.properties : g.properties[c][j] = f.properties[c][e[j]]
      BY <1>3, CompactFrameOK
    <2> HIDE DEF g, e, m, K
    <2>2. frame = g
      BY <1>1 DEF g
    <2>3. QED
      BY <1>3, <2>1, <2>2
  <1> HIDE DEF K
  <1>7. /\ T!Result \in Seq(Range(L)) /\ Len(T!Result) = m
        /\ \A j \in 1..m : e[j] \in K /\ T!Result[j] = L[e[j]]
    <2>1. /\ AtPlaces(L, e) \in Seq(Range(L)) /\ Len(AtPlaces(L, e)) = m
          /\ \A j \in 1..m : e[j] \in K /\ AtPlaces(L, e)[j] = L[e[j]]
      <3>1. n \in Nat /\ L \in Seq(Range(L)) /\ Len(L) = n /\ K \in SUBSET (1..n)
        BY <1>2, <1>4
      <3>2. QED
        BY <3>1, AtPlacesType
    <2>2. QED
      BY <1>5, <2>1, Zenon
  <1> HIDE DEF e, m
  <1>8. T!Result \in Seq(Range(T!Result))
    <2> DEFINE r == T!Result
    <2>1. r \in Seq(Range(L))
      BY <1>7
    <2> HIDE DEF r
    <2>2. r \in [1..Len(r) -> Range(r)] /\ Len(r) \in Nat
      BY <2>1 DEF Range
    <2>3. r \in Seq(Range(r))
      BY <2>2
    <2>4. QED
      BY <2>3 DEF r
  <1>9. Range(ColumnOrder) \cap Names = names
    BY <1>1, <1>6, ExtrasOK, ColumnOrderOK
  <1>10. DOMAIN f.properties = Range(input.order) \ Positional
         /\ DOMAIN frame.properties = Range(input.order) \ Positional /\ Extras = <<>>
    BY <1>1, <1>3, <1>6, ExtrasOK DEF FrameOK
  <1>11. ASSUME NEW k \in 1..Len(output.rows) PROVE Lines(output)[k] = T!Result[k]
    <2>1. /\ k \in 1..m
          /\ Lines(output)[k] = [atom |-> frame.positions[k], cells |-> [c \in names |-> Cell(k, c)]]
      BY <1>6, <1>9, OutputLine
    <2>2. e[k] \in 1..n /\ frame.positions[k] = input.rows[e[k]]["x"]
      BY <1>3, <1>4, <1>6, <2>1
    <2>3. ASSUME NEW c \in names PROVE Cell(k, c) = input.rows[e[k]][c]
      <3>1. c \notin Positional /\ c \in Range(input.order)
        BY NamesAssumption
      <3>2. ~FromExtras(c)
        BY <1>10 DEF FromExtras, Range
      <3>3. Cell(k, c) = frame.properties[c][k]
        BY <1>1, <1>6, <1>10, <2>1, <3>1, <3>2, CellOK
      <3>4. QED
        BY <1>3, <1>6, <1>10, <2>1, <2>2, <3>1, <3>3
    <2>4. [c \in names |-> Cell(k, c)] = [c \in names |-> input.rows[e[k]][c]]
      BY <2>3
    <2>5. T!Result[k] = [atom |-> input.rows[e[k]]["x"], cells |-> [c \in names |-> input.rows[e[k]][c]]]
      BY <1>2, <1>7, <2>1, <2>2
    <2>6. QED
      BY <2>1, <2>2, <2>4, <2>5
  <1>12. QED
    BY <1>6, <1>7, <1>8, <1>11 DEF Written

LEMMA MergeIsWritten ==
  ASSUME ChainInv, HasIds, pc = "ok", job.kind = "merge"
  PROVE  Written
  <1> DEFINE n == Len(input.rows)
             L == Lines(input)
             own == Range(input.order) \cap Names
             given == (Range(job.table.names) \cap Names)
                        \ (Unsupported \cup IF job.overwrite THEN {} ELSE Range(input.order))
             ids == Range(job.table.ids)
             atom(k) == input.rows[k]["x"]
             New(a) == IF IdOf[a] \in ids THEN T!Value(run + 1, IdOf[a]) ELSE T!Zero
             cells(k) == [c \in given \cup own |-> IF c \in given THEN New(atom(k)) ELSE input.rows[k][c]]
             line(k) == [atom |-> atom(k), cells |-> cells(k)]
             R == [k \in 1..n |-> line(k)]
  <1>1. /\ DumpOK(input) /\ FrameOK(frame) /\ job \in Jobs /\ Expandable /\ Looked /\ run \in Nat
        /\ frame = ToFrame(input)
    BY RunsAssumption DEF ChainInv, ControlInv, FrameInv, RowsInv, FrameToWrite, Ready, Mapped
  <1>2. /\ n \in Nat /\ DOMAIN L = 1..n
        /\ \A k \in 1..n : L[k] = [atom |-> atom(k), cells |-> [c \in own |-> input.rows[k][c]]]
    BY <1>1, LinesOK
  <1>3. /\ frame.order = input.order /\ Len(frame.positions) = n
        /\ \A k \in 1..n : /\ frame.positions[k] = atom(k)
                           /\ \A c \in Range(input.order) \ Positional : frame.properties[c][k] = input.rows[k][c]
    BY <1>1, ToFrameOK
  <1>4. Seen(job, Range(input.order)) = [kind |-> "merge", ids |-> ids, names |-> given]
    BY DEF Seen
  <1>5. T!Result = R
    <2> DEFINE With(l) == [c \in given \cup DOMAIN l.cells |-> IF c \in given THEN New(l.atom) ELSE l.cells[c]]
    <2>1. T!Result = [k \in 1..n |-> [L[k] EXCEPT !.cells = With(L[k])]]
      BY <1>2, <1>4 DEF T!Result, T!Attached
    <2>2. ASSUME NEW k \in 1..n PROVE [L[k] EXCEPT !.cells = With(L[k])] = line(k)
      <3> DEFINE before == [c \in own |-> input.rows[k][c]]
      <3>1. DOMAIN before = own /\ \A c \in own : before[c] = input.rows[k][c]
        OBVIOUS
      <3>2. L[k] = [atom |-> atom(k), cells |-> before]
        BY <1>2
      <3> HIDE DEF before, L, New, atom, given, own
      <3>3. L[k].atom = atom(k) /\ L[k].cells = before
        BY <3>2
      <3>4. With(L[k]) = cells(k)
        BY <3>1, <3>3
      <3> HIDE DEF With, cells
      <3>5. [L[k] EXCEPT !.cells = cells(k)] = [atom |-> atom(k), cells |-> cells(k)]
        BY <3>2
      <3>6. QED
        BY <3>4, <3>5
    <2>3. QED
      BY <2>1, <2>2
  <1> HIDE DEF n, L
  <1>6. R \in Seq(Range(R)) /\ Len(R) = n
    <2>1. R \in [1..n -> Range(R)]
      BY DEF Range
    <2> HIDE DEF R
    <2>2. QED
      BY <1>2, <2>1
  <1>7. /\ DOMAIN frame.properties = Range(input.order) \ Positional
        /\ Range(Extras) = Range(job.table.names) \ ({"id"} \cup Unsupported)
        /\ Range(ColumnOrder) = Range(input.order) \cup Range(Extras)
        /\ GivenIds = job.table.ids
    BY <1>1, <1>3, ExtrasOK, ColumnOrderOK DEF FrameOK, GivenIds
  <1>8. \A c \in Names : c \notin Positional /\ c # "id"
    BY NamesAssumption DEF Positional
  <1>9. \A c \in Names : FromExtras(c) <=> c \in given
    BY <1>7, <1>8 DEF FromExtras
  <1>10. Range(ColumnOrder) \cap Names = given \cup own
    BY <1>7, <1>8
  <1>11. ASSUME NEW k \in 1..Len(output.rows) PROVE Lines(output)[k] = R[k]
    <2>1. /\ k \in 1..n
          /\ Lines(output)[k] = [atom |-> frame.positions[k], cells |-> [c \in given \cup own |-> Cell(k, c)]]
      BY <1>3, <1>10, OutputLine
    <2>2. frame.positions[k] = atom(k) /\ ResolveAtomId(frame, k) = IdOf[atom(k)]
      BY <1>1, <1>3, <2>1, ResolveOK
    <2>3. ASSUME NEW c \in given \cup own
          PROVE  Cell(k, c) = IF c \in given THEN New(atom(k)) ELSE input.rows[k][c]
      <3>1. c \in Names /\ c \notin Positional
        BY <1>8
      <3>2. Cell(k, c) = IF c \in given THEN New(atom(k))
                         ELSE IF c \in DOMAIN frame.properties THEN frame.properties[c][k] ELSE T!Zero
        BY <1>1, <1>3, <1>7, <1>9, <2>1, <2>2, <3>1, CellOK
      <3>3. c \notin given => c \in DOMAIN frame.properties /\ frame.properties[c][k] = input.rows[k][c]
        BY <1>3, <1>7, <2>1, <3>1
      <3>4. QED
        BY <3>2, <3>3
    <2>4. [c \in given \cup own |-> Cell(k, c)] = cells(k)
      BY <2>3
    <2>5. QED
      BY <2>1, <2>2, <2>4
  <1>12. QED
    BY <1>3, <1>5, <1>6, <1>11 DEF Written

LEMMA InitMaps == Init => T!Init
  <1> SUFFICES ASSUME Init PROVE T!Init
    OBVIOUS
  <1> DEFINE own == Range(Order) \cap Names
  <1>1. input = FirstDump /\ pc = "parse" /\ run = 0 /\ job \in Jobs
    BY DEF Init
  <1>2. Lines(input) = [k \in DOMAIN IdOf |-> [atom |-> k, cells |-> [c \in own |-> T!Value(0, IdOf[k])]]]
    <2> DEFINE line(k) == [c \in Range(Order) |->
                            IF c = "x" THEN k ELSE IF c = "id" THEN IdOf[k] ELSE T!Value(0, IdOf[k])]
    <2>1. FirstDump.order = Order /\ FirstDump.rows = [k \in DOMAIN IdOf |-> line(k)]
      BY DEF FirstDump
    <2>2. ASSUME NEW k \in DOMAIN IdOf
          PROVE  /\ line(k)["x"] = k
                 /\ [c \in own |-> line(k)[c]] = [c \in own |-> T!Value(0, IdOf[k])]
      <3>1. \A c \in own : c \in Range(Order) /\ c # "x" /\ c # "id"
        BY NamesAssumption DEF Positional
      <3>2. QED
        BY <3>1, OrderAssumption
    <2> HIDE DEF line
    <2>3. Lines(input) = [k \in DOMAIN IdOf |-> [atom |-> line(k)["x"], cells |-> [c \in own |-> line(k)[c]]]]
      BY <1>1, <2>1 DEF Lines
    <2>4. QED
      BY <2>2, <2>3
  <1>3. Whole(input)
    BY <1>1, FirstDumpOK
  <1>4. Seen(job, Range(input.order)) \in AllSeen
    BY <1>1, SeenIsAnOperation
  <1>5. Outcome = "pending"
    BY <1>1 DEF Outcome
  <1>6. QED
    BY <1>1, <1>2, <1>3, <1>4, <1>5 DEF T!Init

\* What AtomTable sees of a step is what the mapping makes of the primed variables.
LEMMA Mapping ==
  /\ Lines(input)' = Lines(input') /\ (~Whole(input))' = ~Whole(input')
  /\ Seen(job, Range(input.order))' = Seen(job', Range(input'.order))
  /\ Outcome' = IF pc' = "failed" THEN "failed" ELSE IF pc' # "ok" THEN "pending"
                ELSE IF Whole(output') THEN "ok" ELSE "lost"
  BY DEF Lines, Whole, Seen, Range, Outcome

TVars == <<Lines(input), Seen(job, Range(input.order)), Outcome, ~Whole(input), run>>

\* Within a run the table changes only in what will be known of its outcome.
LEMMA RunningMaps ==
  ChainInv /\ (Parse \/ KeepSelected \/ RefuseArgument \/ ReadTable \/ MapRows \/ OpenOutput
                 \/ WriteRow \/ Close)
    => T!End \/ UNCHANGED TVars
  <1> SUFFICES ASSUME ChainInv,
                      \/ Parse \/ KeepSelected \/ RefuseArgument \/ ReadTable \/ MapRows
                      \/ OpenOutput \/ WriteRow \/ Close
               PROVE  T!End \/ UNCHANGED TVars
    OBVIOUS
  <1>1. /\ pc \notin {"ok", "failed"} /\ UNCHANGED <<input, job, run>>
        /\ pc' = "ok" => pc = "write"
    BY DEF ChainInv, ControlInv, Jobs, Parse, KeepSelected, RefuseArgument, ReadTable, MapRows,
       OpenOutput, WriteRow, Close, Goto
  <1>2. pc' = "ok" => Whole(input)
    BY <1>1 DEF ChainInv, FrameInv, Parsed
  <1>3. Outcome = "pending"
    BY <1>1 DEF Outcome
  <1>4. UNCHANGED <<Lines(input), Seen(job, Range(input.order)), ~Whole(input), run>>
    BY <1>1, Mapping
  <1>5. Outcome' \in {"pending", "failed"} \cup IF ~Whole(input) THEN {} ELSE {"ok", "lost"}
    BY <1>2, Mapping
  <1>6. CASE Outcome' = "pending"
    BY <1>3, <1>4, <1>6 DEF TVars
  <1>7. CASE Outcome' # "pending"
    BY <1>3, <1>4, <1>5, <1>7 DEF T!End
  <1>8. QED
    BY <1>6, <1>7

LEMMA NextRunMaps == ChainInv /\ HasIds /\ NextRun => T!Begin
  <1> SUFFICES ASSUME ChainInv, HasIds, NextRun PROVE T!Begin
    OBVIOUS
  <1>1. /\ pc \in {"ok", "failed"} /\ pc' = "parse" /\ run' = run + 1 /\ run < MaxRuns
        /\ input' = (IF pc = "ok" THEN output ELSE input) /\ job' \in Jobs
    BY DEF NextRun
  <1>2. /\ Outcome # "pending" /\ Outcome' = "pending"
        /\ Seen(job, Range(input.order))' \in AllSeen
    BY <1>1, SeenIsAnOperation, Mapping DEF Outcome
  <1>3. \/ Outcome = "ok" /\ Lines(input)' = T!Result /\ UNCHANGED ~Whole(input)
        \/ Outcome = "failed" /\ UNCHANGED <<Lines(input), ~Whole(input)>>
        \/ /\ Outcome = "lost" /\ (~Whole(input))' = TRUE
           /\ \E n \in {0} \cup 0..(Len(T!Result) - 1) : Lines(input)' = SubSeq(T!Result, 1, n)
    <2>1. CASE pc = "failed"
      BY <1>1, <2>1, Mapping DEF Outcome
    <2>2. CASE pc = "ok"
      <3> DEFINE r == T!Result
                 n == Len(output.rows)
                 m == Len(frame.positions)
      <3>1. /\ Whole(input) /\ job \in Jobs /\ input' = output /\ DumpOK(output)
            /\ output.natoms = m /\ n <= m /\ m \in Nat /\ (output.header \/ n = 0)
        BY <1>1, <2>2, OutputIsDump DEF ChainInv, ControlInv, FrameInv, OutputInv, Parsed, FrameOK
      <3>2. r \in Seq(Range(r)) /\ Len(r) = m /\ \A k \in 1..n : Lines(output)[k] = r[k]
        BY <2>2, <3>1, JobOK, KeptIsWritten, MergeIsWritten DEF Written
      <3> HIDE DEF r
      <3>3. n \in Nat /\ Lines(output) = [k \in 1..n |-> r[k]]
        <4>1. n \in Nat /\ DOMAIN output.rows = 1..n
          BY <3>1 DEF DumpOK
        <4>2. Lines(output) = [k \in 1..n |-> Lines(output)[k]]
          BY <4>1 DEF Lines
        <4>3. QED
          BY <3>2, <4>1, <4>2
      <3> HIDE DEF n, m
      <3>4. CASE Whole(output)
        <4>1. n = m
          BY <3>1, <3>4 DEF Whole, n
        <4>2. Lines(output) = r
          BY <3>2, <3>3, <4>1
        <4>3. Outcome = "ok"
          BY <2>2, <3>4 DEF Outcome
        <4>4. QED
          BY <3>1, <3>4, <4>2, <4>3, Mapping DEF r
      <3>5. CASE ~Whole(output)
        <4>1. n \in {0} \cup 0..(m - 1)
          BY <3>1, <3>3, <3>5 DEF Whole, n
        <4>2. SubSeq(r, 1, n) = [k \in 1..n |-> r[k]]
          BY <3>2, <4>1
        <4>3. Outcome = "lost"
          BY <2>2, <3>5 DEF Outcome
        <4>4. Lines(input)' = SubSeq(r, 1, n) /\ (~Whole(input))' = TRUE
          BY <3>1, <3>3, <3>5, <4>2, Mapping
        <4>5. QED
          BY <3>2, <4>1, <4>3, <4>4 DEF r
      <3>6. QED
        BY <3>4, <3>5
    <2>3. QED
      BY <1>1, <2>1, <2>2
  <1>4. QED
    BY <1>1, <1>2, <1>3 DEF T!Begin

(* A chain of runs is a chain of operations on the table of atoms, whatever is sliced,    *)
(* selected and merged, and wherever a run fails or loses the end of what it wrote.  It    *)
(* needs the identifiers: a dump without them is renumbered when its atoms are compacted. *)
THEOREM ChainImplementsAtomTable == HasIds => (Spec => ImplementsAtomTable)
  <1> SUFFICES ASSUME HasIds PROVE Spec => ImplementsAtomTable
    OBVIOUS
  <1>1. ChainInv /\ [Next]_vars => [T!End \/ T!Begin]_TVars
    <2> SUFFICES ASSUME ChainInv, [Next]_vars PROVE T!End \/ T!Begin \/ UNCHANGED TVars
      OBVIOUS
    <2>1. CASE UNCHANGED vars
      <3>1. UNCHANGED <<input, output, job, pc, run>>
        BY <2>1 DEF vars
      <3>2. QED
        BY <3>1, Mapping DEF TVars, Outcome
    <2>2. CASE NextRun
      BY <2>2, NextRunMaps
    <2>3. CASE Next /\ ~NextRun
      BY <2>3, RunningMaps DEF Next
    <2>4. QED
      BY <2>1, <2>2, <2>3
  <1>2. QED
    BY <1>1, InitMaps, ChainInvHolds, PTL DEF Spec, ImplementsAtomTable, T!Spec, TVars
================================================================================
