------------------------- MODULE CutoffNeighborsProofs -------------------------
(***************************************************************************)
(* A query of CutoffNeighborFinder stays inside the arrays that prepare()  *)
(* builds, returns no image of a particle twice, and returns with each the *)
(* separation of the caller's positions: for any cells of up to three      *)
(* axes, cutoffs, particles and stencils.  And it misses no image within   *)
(* the cutoff if the stencil reaches every offset that one can have.       *)
(*                                                                         *)
(* PreparedInv says what prepare() leaves: offsets once each, particles    *)
(* moved by whole sides, bins that follow each other in the sorted array.  *)
(* FoundInv ties each particle found to the offset and the place where it  *)
(* was found, which is what makes FindsEachOnce inductive.  SearchInv is   *)
(* the converse: what the cursors have passed and lies within the cutoff   *)
(* was returned.                                                           *)
(***************************************************************************)
EXTENDS CutoffNeighbors, FiniteSetTheorems, TLAPS

-----------------------------------------------------------------------------
(* Numbers *)

LEMMA MaxOfTwo ==
  ASSUME NEW a \in Int, NEW b \in Int
  PROVE  Max({a, b}) = IF a >= b THEN a ELSE b
  <1>1. \E x \in {a, b} : \A y \in {a, b} : x >= y
    OBVIOUS
  <1>2. Max({a, b}) \in {a, b} /\ \A y \in {a, b} : Max({a, b}) >= y
    BY <1>1 DEF Max
  <1>3. QED
    BY <1>2

LEMMA MinOfTwo ==
  ASSUME NEW a \in Int, NEW b \in Int
  PROVE  Min({a, b}) = IF a <= b THEN a ELSE b
  <1>1. \E x \in {a, b} : \A y \in {a, b} : x <= y
    OBVIOUS
  <1>2. Min({a, b}) \in {a, b} /\ \A y \in {a, b} : Min({a, b}) <= y
    BY <1>1 DEF Min
  <1>3. QED
    BY <1>2

\* A quotient is the number whose multiple lies less than the divisor below.
LEMMA Quotient ==
  ASSUME NEW x \in Int, NEW n \in Nat \ {0}
  PROVE  x \div n \in Int /\ x % n \in 0..(n - 1) /\ x = n * (x \div n) + (x % n)
  OBVIOUS

LEMMA QuotientUnique ==
  ASSUME NEW n \in Nat \ {0}, NEW p \in Int, NEW q \in Int,
         NEW r \in 0..(n - 1), NEW s \in 0..(n - 1), n * p + r = n * q + s
  PROVE  p = q /\ r = s
  <1>1. n * (p - q) = s - r
    OBVIOUS
  <1>2. p - q \in Int /\ s - r < n /\ s - r > -n
    OBVIOUS
  <1>3. CASE p - q >= 1
    <2>1. n * (p - q) >= n
      BY <1>3, <1>2
    <2>2. QED
      BY <2>1, <1>1, <1>2
  <1>4. CASE p - q <= -1
    <2>1. n * (p - q) <= -n
      BY <1>4, <1>2
    <2>2. QED
      BY <2>1, <1>1, <1>2
  <1>5. CASE p - q = 0
    BY <1>5, <1>1
  <1>6. QED
    BY <1>2, <1>3, <1>4, <1>5

\* How often a particle is moved, and how many cells a bin lies away, are both found with
\* truncating divisions; they come down to the rounded quotient.
LEMMA ShiftIsQuotient ==
  ASSUME NEW b \in Int, NEW n \in Nat \ {0}
  PROVE  WrapShift(b, n) = -(b \div n)
  <1>1. CASE b < 0
    <2> DEFINE c == -(b + 1)
               q == c \div n
               r == c % n
    <2>0. c \in Nat
      BY <1>1
    <2>1. Divide(c, n) = q
      BY <2>0 DEF Divide
    <2>2. q \in Int /\ r \in 0..(n - 1) /\ c = n * q + r
      <3> HIDE DEF c
      <3> QED BY <2>0, Quotient
    <2>3. b \div n \in Int /\ b % n \in 0..(n - 1) /\ b = n * (b \div n) + (b % n)
      BY Quotient
    <2>4. WrapShift(b, n) = q + 1
      BY <1>1, <2>1 DEF WrapShift
    <2> HIDE DEF q, r
    <2>5. b = n * (-q - 1) + (n - 1 - r) /\ n - 1 - r \in 0..(n - 1) /\ -q - 1 \in Int
      BY <2>2
    <2>6. b \div n = -q - 1
      <3> DEFINE p == b \div n
                 t == b % n
                 o == -q - 1
                 u == n - 1 - r
      <3>1. /\ p \in Int /\ o \in Int /\ t \in 0..(n - 1) /\ u \in 0..(n - 1)
            /\ n * p + t = n * o + u
        BY <2>3, <2>5
      <3> HIDE DEF p, t, o, u
      <3>2. p = o
        BY <3>1, QuotientUnique
      <3>3. QED
        BY <3>2 DEF p, o
    <2>7. QED
      BY <2>2, <2>4, <2>6
  <1>2. CASE b > 0
    BY <1>2 DEF WrapShift, Divide
  <1>3. CASE b = 0
    <2>1. Divide(-b, n) = 0 \div n /\ 0 \div n = 0
      BY <1>3 DEF Divide
    <2>2. QED
      BY <1>3, <2>1 DEF WrapShift
  <1>4. QED
    BY <1>1, <1>2, <1>3

LEMMA CrossedIsQuotient ==
  ASSUME NEW b \in Int, NEW n \in Nat \ {0}
  PROVE  CellsCrossed(b, n) = b \div n
  <1>1. CASE b >= n
    BY <1>1 DEF CellsCrossed, Divide
  <1>2. CASE b < 0
    <2> DEFINE c == n - 1 - b
               q == c \div n
               r == c % n
    <2>1. c \in Nat /\ b - n + 1 < 0 /\ -(b - n + 1) = c
      BY <1>2
    <2>2. q \in Int /\ r \in 0..(n - 1) /\ c = n * q + r
      <3> HIDE DEF c
      <3> QED BY <2>1, Quotient
    <2>3. b \div n \in Int /\ b % n \in 0..(n - 1) /\ b = n * (b \div n) + (b % n)
      BY Quotient
    <2>4. CellsCrossed(b, n) = -q
      <3>1. Divide(b - n + 1, n) = -q
        BY <2>1 DEF Divide
      <3>2. QED
        BY <1>2, <3>1 DEF CellsCrossed
    <2> HIDE DEF q, r
    <2>5. b = n * (-q) + (n - 1 - r) /\ n - 1 - r \in 0..(n - 1) /\ -q \in Int
      BY <2>2
    <2>6. b \div n = -q
      <3> DEFINE p == b \div n
                 t == b % n
                 o == -q
                 u == n - 1 - r
      <3>1. /\ p \in Int /\ o \in Int /\ t \in 0..(n - 1) /\ u \in 0..(n - 1)
            /\ n * p + t = n * o + u
        BY <2>3, <2>5
      <3> HIDE DEF p, t, o, u
      <3>2. p = o
        BY <3>1, QuotientUnique
      <3>3. QED
        BY <3>2 DEF p, o
    <2>7. QED
      BY <2>4, <2>6
  <1>3. CASE b \in 0..(n - 1)
    <2>1. b \div n = 0
      BY <1>3
    <2>2. QED
      BY <1>3, <2>1 DEF CellsCrossed
  <1>4. QED
    BY <1>1, <1>2, <1>3

\* int8_t keeps the numbers in its range, and a number only up to multiples of its width.
LEMMA ByteType ==
  ASSUME ByteMax \in Nat, NEW x \in Int
  PROVE  /\ Byte(x) \in (-ByteMax - 1)..ByteMax
         /\ \E q \in Int : x = Byte(x) + (2 * (ByteMax + 1)) * q
  <1> DEFINE w == 2 * (ByteMax + 1)
             y == x + ByteMax + 1
             q == y \div w
             r == y % w
  <1>1. w \in Nat \ {0} /\ y \in Int
    OBVIOUS
  <1>2. q \in Int /\ r \in 0..(w - 1) /\ y = w * q + r
    <2> HIDE DEF w, y
    <2> QED BY <1>1, Quotient
  <1>3. Byte(x) = r - (ByteMax + 1)
    BY DEF Byte
  <1> HIDE DEF q, r
  <1>4. x = Byte(x) + w * q
    <2> DEFINE m == w * q
    <2>1. m \in Int
      BY <1>1, <1>2
    <2> HIDE DEF m, w
    <2> QED BY <1>1, <1>2, <1>3, <2>1 DEF m
  <1>5. QED
    BY <1>2, <1>3, <1>4

\* Two numbers that it takes for the same differ by a multiple of the width.
LEMMA ByteSame ==
  ASSUME ByteMax \in Nat, NEW x \in Int, NEW y \in Int,
         NEW q \in Int, x = y + (2 * (ByteMax + 1)) * q
  PROVE  Byte(x) = Byte(y)
  <1> DEFINE w == 2 * (ByteMax + 1)
  <1>1. w \in Nat \ {0}
    OBVIOUS
  <1>2. PICK p \in Int : x = Byte(x) + w * p
    BY ByteType
  <1>3. PICK s \in Int : y = Byte(y) + w * s
    BY ByteType
  <1>4. Byte(x) \in (-ByteMax - 1)..ByteMax /\ Byte(y) \in (-ByteMax - 1)..ByteMax
    BY ByteType
  <1> DEFINE a == Byte(x) + ByteMax + 1
             b == Byte(y) + ByteMax + 1
  <1>5. a \in 0..(w - 1) /\ b \in 0..(w - 1)
    BY <1>4
  <1>6. w * p + a = w * (s + q) + b
    <2> HIDE DEF w
    <2>1. w * (s + q) = w * s + w * q
      BY <1>1
    <2>2. Byte(x) + w * p = Byte(y) + w * s + w * q
      <3> DEFINE wq == w * q
      <3>1. x = y + wq
        BY DEF w
      <3> HIDE DEF wq
      <3>2. QED
        BY <1>2, <1>3, <3>1 DEF wq
    <2>3. w * p \in Int /\ w * s \in Int /\ w * q \in Int
      BY <1>1
    <2>4. QED
      <3> DEFINE wq == w * q
                 wp == w * p
                 ws == w * s
      <3> HIDE DEF wq, wp, ws
      <3> QED BY <1>4, <2>1, <2>2, <2>3 DEF wq, wp, ws
  <1>7. a = b
    <2> HIDE DEF w, a, b
    <2> QED BY <1>1, <1>5, <1>6, QuotientUnique
  <1>8. QED
    BY <1>4, <1>7

LEMMA ByteKeeps ==
  ASSUME ByteMax \in Nat, NEW x \in (-ByteMax - 1)..ByteMax
  PROVE  Byte(x) = x
  <1> DEFINE w == 2 * (ByteMax + 1)
             y == x + ByteMax + 1
  <1>1. w \in Nat \ {0} /\ y \in 0..(w - 1)
    OBVIOUS
  <1>2. y % w = y
    <2> HIDE DEF w, y
    <2>1. w * 0 + y = w * (y \div w) + (y % w) /\ y \div w \in Int /\ y % w \in 0..(w - 1)
      BY <1>1, Quotient
    <2>2. QED
      <3> DEFINE q == y \div w
                 r == y % w
      <3> HIDE DEF q, r
      <3> QED BY <1>1, <2>1, QuotientUnique DEF q, r
  <1>3. QED
    BY <1>2 DEF Byte

-----------------------------------------------------------------------------
(* Lists *)

\* The members of S before x
Preceding(S, R, x) == {y \in S : <<y, x>> \in R}

\* A finite set in a strict order has each member at a place of its own.
LEMMA RankedLists ==
  ASSUME NEW S, IsFiniteSet(S), NEW R,
         \A x \in S : <<x, x>> \notin R,
         \A x, y \in S : x # y => <<x, y>> \in R \/ <<y, x>> \in R,
         \A x, y, z \in S : <<x, y>> \in R /\ <<y, z>> \in R => <<x, z>> \in R
  PROVE  /\ Cardinality(S) \in Nat
         /\ Ranked(S, R) \in [1..Cardinality(S) -> S]
         /\ \A p, q \in 1..Cardinality(S) : Ranked(S, R)[p] = Ranked(S, R)[q] => p = q
         /\ \A x \in S : \E p \in 1..Cardinality(S) :
              Ranked(S, R)[p] = x /\ p = Cardinality(Preceding(S, R, x)) + 1
  <1> DEFINE n == Cardinality(S)
             Before(x) == {y \in S : <<y, x>> \in R}
             rank == [x \in S |-> Cardinality(Before(x)) + 1]
             Places == {<<Cardinality(Before(x)) + 1, x>> : x \in S}
  <1>1. n \in Nat /\ IsFiniteSet(1..n) /\ Cardinality(1..n) = n
    <2>1. n \in Nat
      BY FS_CardinalityType
    <2>2. QED
      BY <2>1, FS_Interval
  <1>2. \A x \in S : IsFiniteSet(Before(x)) /\ Cardinality(Before(x)) \in 0..(n - 1)
    <2> TAKE x \in S
    <2>1. Before(x) \in SUBSET S /\ Before(x) # S
      OBVIOUS
    <2>2. /\ IsFiniteSet(Before(x)) /\ Cardinality(Before(x)) \in Nat
          /\ Cardinality(Before(x)) <= n /\ Cardinality(Before(x)) # n
      BY <2>1, FS_Subset, FS_CardinalityType
    <2>3. QED
      BY <1>1, <2>2
  <1>3. rank \in [S -> 1..n]
    <2> HIDE DEF Before, n
    <2> QED BY <1>1, <1>2
  <1>4. \A x, y \in S : <<x, y>> \in R => rank[x] # rank[y]
    <2> SUFFICES ASSUME NEW x \in S, NEW y \in S, <<x, y>> \in R PROVE rank[x] # rank[y]
      OBVIOUS
    <2>1. Before(x) \in SUBSET Before(y) /\ x \in Before(y) /\ x \notin Before(x)
      OBVIOUS
    <2>2. Before(x) # Before(y)
      BY <2>1
    <2>3. Cardinality(Before(x)) # Cardinality(Before(y))
      BY <1>2, <2>1, <2>2, FS_Subset
    <2> HIDE DEF Before
    <2>4. QED
      BY <1>1, <1>2, <2>3
  <1>5. rank \in Surjection(S, 1..n)
    <2>1. \A x, y \in S : rank[x] = rank[y] => x = y
      <3> HIDE DEF rank
      <3> QED BY <1>4
    <2>2. rank \in Injection(S, 1..n)
      BY <1>3, <2>1 DEF Injection, IsInjective
    <2> HIDE DEF rank
    <2>3. QED
      BY <1>1, <2>2, FS_Injection
  <1>6. \A p \in 1..n : \E x \in S : <<p, x>> \in Places
    <2> TAKE p \in 1..n
    <2>1. PICK x \in S : rank[x] = p
      BY <1>5 DEF Surjection
    <2>2. <<p, x>> = <<Cardinality(Before(x)) + 1, x>>
      BY <2>1
    <2>3. QED
      BY <2>2
  <1>7. Ranked(S, R) = [p \in 1..n |-> CHOOSE x \in S : <<p, x>> \in Places]
    BY DEF Ranked
  <1> DEFINE e == Ranked(S, R)
  <1>8. e \in [1..n -> S] /\ \A p \in 1..n : <<p, e[p]>> \in Places
    <2>1. \A p \in 1..n : e[p] = CHOOSE x \in S : <<p, x>> \in Places
      BY <1>7
    <2> HIDE DEF Places, e
    <2>2. \A p \in 1..n : e[p] \in S /\ <<p, e[p]>> \in Places
      BY <1>6, <2>1
    <2>3. QED
      BY <1>7, <2>2 DEF e
  <1>9. \A p \in 1..n : p = Cardinality(Before(e[p])) + 1
    <2> HIDE DEF Before, e
    <2> QED BY <1>8
  <1>10. \A x \in S : \E p \in 1..n : e[p] = x /\ p = Cardinality(Preceding(S, R, x)) + 1
    <2> HIDE DEF e, n, Before, Places
    <2> TAKE x \in S
    <2>1. rank[x] \in 1..n /\ rank[x] = Cardinality(Before(x)) + 1
      BY <1>3
    <2> DEFINE p == rank[x]
    <2>2. e[p] \in S /\ rank[e[p]] = p
      <3> HIDE DEF p
      <3>1. e[p] \in S /\ p = Cardinality(Before(e[p])) + 1
        BY <1>8, <1>9, <2>1 DEF p
      <3>2. QED
        BY <3>1
    <2> HIDE DEF rank
    <2>3. e[p] = x
      BY <1>4, <2>2
    <2>4. Before(x) = Preceding(S, R, x)
      BY Zenon DEF Before, Preceding
    <2>5. QED
      BY <2>1, <2>3, <2>4
  <1>11. QED
    <2> HIDE DEF e, n
    <2>1. \A p, q \in 1..n : e[p] = e[q] => p = q
      <3> HIDE DEF Before
      <3> QED BY <1>9
    <2>2. QED
      BY <1>1, <1>8, <1>10, <2>1 DEF e, n

\* The greatest of the numbers on the axes, of which there are three at most
LEMMA MaxOverAxes ==
  ASSUME NEW A \in SUBSET (1..3), A # {}, NEW f \in [A -> Int]
  PROVE  /\ Max({f[k] : k \in A}) \in Int
         /\ \A j \in A : f[j] <= Max({f[k] : k \in A})
         /\ \E j \in A : f[j] = Max({f[k] : k \in A})
  <1> DEFINE V == {f[k] : k \in A}
  <1>1. \E x \in V : \A y \in V : x >= y
    <2>1. \E k \in A : \A j \in A : f[k] >= f[j]
      <3> DEFINE g == [k \in 1..3 |-> IF k \in A THEN f[k] ELSE 0]
      <3>1. g[1] \in Int /\ g[2] \in Int /\ g[3] \in Int
        OBVIOUS
      <3>2. \A k \in A : g[k] = f[k]
        OBVIOUS
      <3>3. A = {1} \/ A = {2} \/ A = {3} \/ A = {1, 2} \/ A = {1, 3} \/ A = {2, 3} \/ A = {1, 2, 3}
        <4>1. \A k \in A : k = 1 \/ k = 2 \/ k = 3
          OBVIOUS
        <4>2. QED
          BY <4>1
      <3> HIDE DEF g
      <3>4. \E k \in A : \A j \in A : g[k] >= g[j]
        <4>1. CASE A = {1} \/ A = {2} \/ A = {3}
          BY <3>1, <4>1
        <4>2. CASE A = {1, 2}
          BY <3>1, <4>2
        <4>3. CASE A = {1, 3}
          BY <3>1, <4>3
        <4>4. CASE A = {2, 3}
          BY <3>1, <4>4
        <4>5. CASE A = {1, 2, 3}
          BY <3>1, <4>5
        <4>6. QED
          BY <3>3, <4>1, <4>2, <4>3, <4>4, <4>5
      <3>5. QED
        BY <3>2, <3>4
    <2>2. QED
      BY <2>1
  <1>2. V \subseteq Int
    OBVIOUS
  <1>3. Max(V) \in V /\ \A y \in V : Max(V) >= y
    <2> HIDE DEF V
    <2> QED BY <1>1 DEF Max
  <1>4. (\A k \in A : f[k] \in V) /\ \A v \in V : \E k \in A : f[k] = v
    OBVIOUS
  <1>5. QED
    <2> HIDE DEF V
    <2>1. Max(V) \in Int /\ (\A k \in A : f[k] <= Max(V)) /\ \E k \in A : f[k] = Max(V)
      BY <1>2, <1>3, <1>4
    <2>2. QED
      BY <2>1 DEF V

-----------------------------------------------------------------------------
(* Cells and bins *)

LEMMA CellType ==
  ASSUME cell \in Cells
  PROVE  /\ Axes \in SUBSET (1..3)
         /\ Side \in [Axes -> Nat \ {0}] /\ Periodic \in [Axes -> BOOLEAN]
         /\ Spots \subseteq [Axes -> Int] /\ Cutoffs \subseteq Nat \ {0}
         /\ ByteMax \in Nat /\ MaxPrepares \in Nat /\ BinCountLimit \in Nat \ {0}
         /\ Axes # {}
  <1>1. /\ cell.side \in Seq(Nat \ {0}) /\ Len(cell.side) \in 1..3
        /\ cell.periodic \in [DOMAIN cell.side -> BOOLEAN]
        /\ cell.spots \subseteq [DOMAIN cell.side -> Int]
        /\ cell.cutoffs \subseteq Nat \ {0}
        /\ cell.bins \in Nat \ {0} /\ cell.byteMax \in Nat /\ cell.prepares \in Nat
    BY CellAssumption
  <1>2. Axes \in SUBSET (1..3) /\ Axes # {} /\ Side \in [Axes -> Nat \ {0}]
    <2> DEFINE s == cell.side
    <2>1. s \in Seq(Nat \ {0}) /\ Len(s) \in 1..3
      BY <1>1
    <2> HIDE DEF s
    <2>2. s \in [1..Len(s) -> Nat \ {0}] /\ DOMAIN s = 1..Len(s) /\ 1 \in DOMAIN s
      BY <2>1
    <2>3. DOMAIN s \in SUBSET (1..3) /\ DOMAIN s # {} /\ s \in [DOMAIN s -> Nat \ {0}]
      BY <2>1, <2>2
    <2>4. QED
      BY <2>3 DEF s, Axes, Side
  <1>3. QED
    BY <1>1, <1>2 DEF Axes, Side, Periodic, Spots, Cutoffs, ByteMax, MaxPrepares, BinCountLimit

Counts == [Axes -> Nat \ {0}]   \* how many bins there are along the axes

LEMMA FullDimsType ==
  ASSUME cell \in Cells, NEW rc \in Cutoffs
  PROVE  FullDims(rc) \in Counts
  <1>1. \A k \in Axes : AtLeastOne(Side[k] \div rc) \in Nat \ {0}
    <2> TAKE k \in Axes
    <2>1. Side[k] \div rc \in Int
      BY CellType
    <2>2. QED
      BY <2>1, MaxOfTwo DEF AtLeastOne
  <1>2. QED
    BY <1>1 DEF FullDims, Counts

\* The reduction leaves no axis with more bins than it had.
LEMMA CoarserBelow ==
  ASSUME NEW n \in Nat \ {0}, NEW count, NEW d \in Coarser(n, count)
  PROVE  d <= n
  <1>1. PICK m \in 0..n : d = AtLeastOne(m)
    BY DEF Coarser
  <1>2. QED
    BY <1>1, MaxOfTwo DEF AtLeastOne

LEMMA DimsType ==
  ASSUME cell \in Cells, NEW rc \in Cutoffs, NEW dim \in Dims(rc)
  PROVE  dim \in Counts
  <1>1. FullDims(rc) \in Counts
    BY FullDimsType
  <1>2. CASE dim = FullDims(rc)
    BY <1>1, <1>2
  <1>3. CASE dim \in [Axes -> 1..Max({FullDims(rc)[k] : k \in Axes})]
    <2>1. CASE Axes = {}
      BY <1>3, <2>1 DEF Counts
    <2>2. CASE Axes # {}
      <3> DEFINE f == FullDims(rc)
                 m == Max({f[k] : k \in Axes})
      <3>1. f \in [Axes -> Int]
        BY <1>1 DEF Counts
      <3>2. m \in Int
        <4> HIDE DEF f
        <4> QED BY <2>2, <3>1, CellType, MaxOverAxes
      <3>3. dim \in [Axes -> 1..m]
        BY <1>3
      <3> HIDE DEF m
      <3>4. QED
        BY <3>2, <3>3 DEF Counts
    <2>3. QED
      BY <2>1, <2>2
  <1>4. QED
    BY <1>2, <1>3 DEF Dims

InBox(b, dim) == \A k \in Axes : b[k] \in 0..(dim[k] - 1)

\* The bins lie in the flat arrays, and no two at one place.
LEMMA AlongBox ==
  ASSUME cell \in Cells, NEW dim \in Counts, NEW b \in [Axes -> Int], InBox(b, dim), NEW k \in 1..3
  PROVE  Along(dim, k, 1) \in Nat \ {0} /\ Along(b, k, 0) \in 0..(Along(dim, k, 1) - 1)
  <1>1. CASE k \in Axes
    <2>1. dim[k] \in Nat \ {0} /\ b[k] \in 0..(dim[k] - 1)
      BY <1>1 DEF Counts, InBox
    <2>2. Along(dim, k, 1) = dim[k] /\ Along(b, k, 0) = b[k]
      BY <1>1 DEF Along
    <2>3. QED
      BY <2>1, <2>2
  <1>2. CASE k \notin Axes
    BY <1>2 DEF Along
  <1>3. QED
    BY <1>1, <1>2

LEMMA FlatInArray ==
  ASSUME cell \in Cells, NEW dim \in Counts, NEW b \in [Axes -> Int], InBox(b, dim)
  PROVE  ProductOver(dim) \in Nat \ {0} /\ FlatBin(b, dim) \in 0..(ProductOver(dim) - 1)
  <1> DEFINE n1 == Along(dim, 1, 1)
             n2 == Along(dim, 2, 1)
             n3 == Along(dim, 3, 1)
             b1 == Along(b, 1, 0)
             b2 == Along(b, 2, 0)
             b3 == Along(b, 3, 0)
  <1>1. /\ n1 \in Nat \ {0} /\ n2 \in Nat \ {0} /\ n3 \in Nat \ {0}
        /\ b1 \in 0..(n1 - 1) /\ b2 \in 0..(n2 - 1) /\ b3 \in 0..(n3 - 1)
    BY AlongBox
  <1>2. ProductOver(dim) = n1 * n2 * n3 /\ FlatBin(b, dim) = b1 + b2 * n1 + b3 * n1 * n2
    BY DEF ProductOver, FlatBin
  <1> HIDE DEF n1, n2, n3, b1, b2, b3
  <1>3. n1 * n2 \in Nat \ {0} /\ (n1 * n2) * n3 \in Nat \ {0}
    <2>1. n1 * n2 >= 1 /\ n1 * n2 \in Int
      BY <1>1
    <2> DEFINE w == n1 * n2
    <2>2. w \in Nat \ {0}
      BY <2>1
    <2> HIDE DEF w
    <2>3. w * n3 >= 1 /\ w * n3 \in Int
      BY <1>1, <2>2
    <2>4. QED
      BY <2>2, <2>3 DEF w
  <1>4. b1 + b2 * n1 \in 0..(n1 * n2 - 1)
    <2>1. b2 * n1 <= (n2 - 1) * n1 /\ b2 * n1 >= 0
      BY <1>1
    <2>2. (n2 - 1) * n1 = n1 * n2 - n1
      BY <1>1
    <2>3. QED
      BY <1>1, <1>3, <2>1, <2>2
  <1>5. b3 * n1 * n2 = b3 * (n1 * n2)
    BY <1>1
  <1>6. b3 * (n1 * n2) >= 0 /\ b3 * (n1 * n2) <= (n1 * n2) * n3 - n1 * n2
    <2> DEFINE w == n1 * n2
    <2>1. w \in Nat \ {0}
      BY <1>3
    <2> HIDE DEF w
    <2>2. b3 * w <= (n3 - 1) * w /\ b3 * w >= 0
      BY <1>1, <2>1
    <2>3. (n3 - 1) * w = w * n3 - w
      BY <1>1, <2>1
    <2>4. QED
      BY <1>1, <2>1, <2>2, <2>3 DEF w
  <1>7. QED
    <2> DEFINE w == n1 * n2
               p == w * n3
               q == b3 * w
               f == b1 + b2 * n1
    <2>1. /\ w \in Nat \ {0} /\ p \in Nat \ {0} /\ f \in 0..(w - 1) /\ q \in Int
          /\ q >= 0 /\ q <= p - w
      BY <1>1, <1>3, <1>4, <1>6
    <2>2. ProductOver(dim) = p /\ FlatBin(b, dim) = f + q
      BY <1>2, <1>5
    <2> HIDE DEF w, p, q, f
    <2>3. QED
      BY <2>1, <2>2

LEMMA FlatInjective ==
  ASSUME cell \in Cells, NEW dim \in Counts,
         NEW a \in [Axes -> Int], InBox(a, dim), NEW b \in [Axes -> Int], InBox(b, dim),
         FlatBin(a, dim) = FlatBin(b, dim)
  PROVE  a = b
  <1> DEFINE n1 == Along(dim, 1, 1)
             n2 == Along(dim, 2, 1)
             n3 == Along(dim, 3, 1)
             a1 == Along(a, 1, 0)
             a2 == Along(a, 2, 0)
             a3 == Along(a, 3, 0)
             b1 == Along(b, 1, 0)
             b2 == Along(b, 2, 0)
             b3 == Along(b, 3, 0)
  <1>1. /\ n1 \in Nat \ {0} /\ n2 \in Nat \ {0} /\ n3 \in Nat \ {0}
        /\ a1 \in 0..(n1 - 1) /\ a2 \in 0..(n2 - 1) /\ a3 \in 0..(n3 - 1)
        /\ b1 \in 0..(n1 - 1) /\ b2 \in 0..(n2 - 1) /\ b3 \in 0..(n3 - 1)
    BY AlongBox
  <1>2. a1 + a2 * n1 + a3 * n1 * n2 = b1 + b2 * n1 + b3 * n1 * n2
    BY DEF FlatBin
  <1> HIDE DEF n1, n2, n3, a1, a2, a3, b1, b2, b3
  <1>3. a1 = b1 /\ a2 + n2 * a3 = b2 + n2 * b3
    <2> DEFINE p == a2 + n2 * a3
               q == b2 + n2 * b3
    <2>1. p \in Int /\ q \in Int
      BY <1>1
    <2>2. n1 * p = a2 * n1 + a3 * n1 * n2 /\ n1 * q = b2 * n1 + b3 * n1 * n2
      BY <1>1
    <2>3. a2 * n1 \in Int /\ a3 * n1 * n2 \in Int /\ b2 * n1 \in Int /\ b3 * n1 * n2 \in Int
      BY <1>1
    <2> HIDE DEF p, q
    <2>4. n1 * p + a1 = n1 * q + b1
      <3> DEFINE x == a2 * n1
                 y == a3 * n1 * n2
                 z == b2 * n1
                 t == b3 * n1 * n2
      <3>1. /\ x \in Int /\ y \in Int /\ z \in Int /\ t \in Int
            /\ n1 * p = x + y /\ n1 * q = z + t /\ a1 + x + y = b1 + z + t
        BY <1>2, <2>2, <2>3
      <3> HIDE DEF x, y, z, t
      <3>2. QED
        BY <1>1, <3>1
    <2>5. p = q /\ a1 = b1
      BY <1>1, <2>1, <2>4, QuotientUnique
    <2>6. QED
      BY <2>5 DEF p, q
  <1>4. a2 = b2 /\ a3 = b3
    <2>1. n2 * a3 + a2 = n2 * b3 + b2 /\ a3 \in Int /\ b3 \in Int
      BY <1>1, <1>3
    <2>2. QED
      BY <1>1, <2>1, QuotientUnique
  <1>5. \A k \in Axes : a[k] = b[k]
    <2> TAKE k \in Axes
    <2>1. k = 1 \/ k = 2 \/ k = 3
      BY CellType
    <2>2. Along(a, k, 0) = a[k] /\ Along(b, k, 0) = b[k]
      BY DEF Along
    <2>3. QED
      BY <1>3, <1>4, <2>1, <2>2 DEF a1, a2, a3, b1, b2, b3
  <1>6. QED
    BY <1>5

-----------------------------------------------------------------------------
(* The stencil *)

Box(r) == [Axes -> (-r)..r]

LEMMA BoxFinite ==
  ASSUME cell \in Cells, NEW r \in Nat
  PROVE  IsFiniteSet(Box(r))
  <1> DEFINE I == (-r)..r
             T == (I \X I) \X I
             f == [o \in Box(r) |-> <<<<Along(o, 1, 0), Along(o, 2, 0)>>, Along(o, 3, 0)>>]
  <1>1. IsFiniteSet(T)
    <2>1. IsFiniteSet(I)
      BY FS_Interval
    <2> HIDE DEF I
    <2>2. IsFiniteSet(I \X I)
      BY <2>1, FS_Product
    <2> DEFINE P == I \X I
    <2> HIDE DEF P
    <2>3. IsFiniteSet(P \X I)
      BY <2>1, <2>2, FS_Product DEF P
    <2>4. QED
      BY <2>3 DEF P
  <1>2. \A o \in Box(r), k \in 1..3 : Along(o, k, 0) \in I
    BY DEF Along, Box
  <1>3. f \in [Box(r) -> T]
    <2> HIDE DEF I
    <2>1. \A o \in Box(r) : <<<<Along(o, 1, 0), Along(o, 2, 0)>>, Along(o, 3, 0)>> \in T
      BY <1>2
    <2>2. QED
      BY <2>1
  <1>4. \A o, p \in Box(r) : f[o] = f[p] => o = p
    <2> SUFFICES ASSUME NEW o \in Box(r), NEW p \in Box(r), f[o] = f[p] PROVE o = p
      OBVIOUS
    <2>1. /\ Along(o, 1, 0) = Along(p, 1, 0) /\ Along(o, 2, 0) = Along(p, 2, 0)
          /\ Along(o, 3, 0) = Along(p, 3, 0)
      OBVIOUS
    <2>2. \A k \in Axes : o[k] = p[k]
      <3> TAKE k \in Axes
      <3>1. k = 1 \/ k = 2 \/ k = 3
        BY CellType
      <3>2. QED
        BY <2>1, <3>1 DEF Along
    <2>3. QED
      BY <2>2 DEF Box
  <1>5. f \in Injection(Box(r), T)
    <2> HIDE DEF f, T
    <2> QED BY <1>3, <1>4 DEF Injection, IsInjective
  <1>6. QED
    <2> HIDE DEF f, T
    <2> QED BY <1>1, <1>5, FS_Injection

Steps == (1 - StencilLimit)..(StencilLimit - 1)   \* how far an offset goes along an axis

LEMMA OffsetsInBox ==
  ASSUME cell \in Cells, NEW rc, NEW dim
  PROVE  /\ Offsets(dim, rc) \subseteq [Axes -> Int] /\ IsFiniteSet(Offsets(dim, rc))
         /\ \A o \in Offsets(dim, rc), k \in Axes : o[k] \in Steps
         /\ Axes = {} => Offsets(dim, rc) = {}
  <1>1. \A r \in 0..(StencilLimit - 1) : Shell(r, dim, rc) \subseteq Box(StencilLimit)
    <2> TAKE r \in 0..(StencilLimit - 1)
    <2>1. (-r)..r \subseteq (-StencilLimit)..StencilLimit
      BY LimitsAssumption
    <2>2. Shell(r, dim, rc) \subseteq [Axes -> (-r)..r]
      BY DEF Shell
    <2>3. QED
      BY <2>1, <2>2 DEF Box
  <1>2. Offsets(dim, rc) \in SUBSET Box(StencilLimit)
    BY <1>1 DEF Offsets
  <1>3. IsFiniteSet(Offsets(dim, rc))
    BY <1>2, BoxFinite, FS_Subset, LimitsAssumption
  <1>4. Box(StencilLimit) \subseteq [Axes -> Int]
    BY LimitsAssumption DEF Box
  <1>5. Axes = {} => Offsets(dim, rc) = {}
    BY DEF Offsets, Shell
  <1>6. \A o \in Offsets(dim, rc), k \in Axes : o[k] \in Steps
    <2> TAKE o \in Offsets(dim, rc), k \in Axes
    <2>1. PICK r \in 0..(StencilLimit - 1) : o \in [Axes -> (-r)..r]
      BY DEF Offsets, Shell
    <2>2. o[k] \in (-r)..r
      BY <2>1
    <2>3. QED
      BY <2>1, <2>2, LimitsAssumption DEF Steps
  <1>7. QED
    BY <1>2, <1>3, <1>4, <1>5, <1>6

LEMMA RadiusType ==
  ASSUME cell \in Cells, Axes # {}, NEW o \in [Axes -> Int]
  PROVE  Radius(o) \in Int
  <1> DEFINE f == [k \in Axes |-> Abs(o[k])]
  <1>1. f \in [Axes -> Int]
    BY DEF Abs
  <1>2. Radius(o) = Max({f[k] : k \in Axes})
    <2>1. {f[k] : k \in Axes} = {Abs(o[k]) : k \in Axes}
      OBVIOUS
    <2> HIDE DEF f
    <2>2. QED
      BY <2>1 DEF Radius
  <1> HIDE DEF f
  <1>3. QED
    BY <1>1, <1>2, CellType, MaxOverAxes

\* By the first axis on which they differ
Below(o, p) == \E k \in Axes : o[k] < p[k] /\ \A j \in Axes : j < k => o[j] = p[j]

LEMMA BelowStrict ==
  ASSUME cell \in Cells, NEW o \in [Axes -> Int], NEW p \in [Axes -> Int], NEW q \in [Axes -> Int]
  PROVE  /\ ~Below(o, o)
         /\ o # p => Below(o, p) \/ Below(p, o)
         /\ Below(o, p) /\ Below(p, q) => Below(o, q)
  <1>1. \A k \in Axes : k \in 1..3 /\ o[k] \in Int /\ p[k] \in Int /\ q[k] \in Int
    BY CellType
  <1>2. ~Below(o, o)
    BY <1>1 DEF Below
  <1>3. o # p => Below(o, p) \/ Below(p, o)
    <2> SUFFICES ASSUME o # p PROVE Below(o, p) \/ Below(p, o)
      OBVIOUS
    <2>1. PICK k \in Axes : o[k] # p[k]
      OBVIOUS
    <2>2. \E h \in Axes : o[h] # p[h] /\ \A j \in Axes : j < h => o[j] = p[j]
      BY <1>1, <2>1
    <2>3. QED
      BY <1>1, <2>2 DEF Below
  <1>4. Below(o, p) /\ Below(p, q) => Below(o, q)
    <2> SUFFICES ASSUME Below(o, p), Below(p, q) PROVE Below(o, q)
      OBVIOUS
    <2>1. PICK k \in Axes : o[k] < p[k] /\ \A j \in Axes : j < k => o[j] = p[j]
      BY DEF Below
    <2>2. PICK h \in Axes : p[h] < q[h] /\ \A j \in Axes : j < h => p[j] = q[j]
      BY DEF Below
    <2>3. CASE k <= h
      <3>1. o[k] < q[k]
        BY <1>1, <2>1, <2>2, <2>3
      <3>2. \A j \in Axes : j < k => o[j] = q[j]
        BY <1>1, <2>1, <2>2, <2>3
      <3>3. QED
        BY <3>1, <3>2 DEF Below
    <2>4. CASE h < k
      <3>1. o[h] < q[h]
        BY <1>1, <2>1, <2>2, <2>4
      <3>2. \A j \in Axes : j < h => o[j] = q[j]
        BY <1>1, <2>1, <2>2, <2>4
      <3>3. QED
        BY <3>1, <3>2 DEF Below
    <2>5. QED
      BY <1>1, <2>3, <2>4
  <1>5. QED
    BY <1>2, <1>3, <1>4

\* The offsets of one prepare() are in the stencil once each.
LEMMA StencilType ==
  ASSUME cell \in Cells, NEW rc, NEW dim
  PROVE  /\ StencilOf(dim, rc) \in Seq([Axes -> Int])
         /\ \A s \in 1..Len(StencilOf(dim, rc)), k \in Axes : StencilOf(dim, rc)[s][k] \in Steps
         /\ \A s, t \in 1..Len(StencilOf(dim, rc)) :
              StencilOf(dim, rc)[s] = StencilOf(dim, rc)[t] => s = t
         /\ \A o \in Offsets(dim, rc) : \E s \in 1..Len(StencilOf(dim, rc)) : StencilOf(dim, rc)[s] = o
  <1> DEFINE S == Offsets(dim, rc)
             R == {w \in S \X S : Earlier(w[1], w[2])}
             n == Cardinality(S)
             e == Ranked(S, R)
  <1>1. /\ S \subseteq [Axes -> Int] /\ IsFiniteSet(S) /\ (S # {} => Axes # {})
        /\ \A o \in S, k \in Axes : o[k] \in Steps
    BY OffsetsInBox
  <1>2. \A o, p \in S : Earlier(o, p) <=> \/ Radius(o) < Radius(p)
                                          \/ Radius(o) = Radius(p) /\ Below(o, p)
    BY DEF Earlier, Below
  <1>3. \A o \in S : Radius(o) \in Int
    BY <1>1, RadiusType
  <1>4. \A o, p, q \in S : /\ ~Below(o, o)
                           /\ o # p => Below(o, p) \/ Below(p, o)
                           /\ Below(o, p) /\ Below(p, q) => Below(o, q)
    <2> HIDE DEF S
    <2> TAKE o, p, q \in S
    <2>1. o \in [Axes -> Int] /\ p \in [Axes -> Int] /\ q \in [Axes -> Int]
      BY <1>1
    <2>2. QED
      BY <2>1, BelowStrict
  <1> HIDE DEF S
  <1>5. /\ \A o \in S : ~Earlier(o, o)
        /\ \A o, p \in S : o # p => Earlier(o, p) \/ Earlier(p, o)
        /\ \A o, p, q \in S : Earlier(o, p) /\ Earlier(p, q) => Earlier(o, q)
    BY <1>2, <1>3, <1>4
  <1>6. \A o, p \in S : <<o, p>> \in R <=> Earlier(o, p)
    OBVIOUS
  <1> HIDE DEF R
  <1>7. /\ n \in Nat /\ e \in [1..n -> S] /\ \A s, t \in 1..n : e[s] = e[t] => s = t
        /\ \A o \in S : \E s \in 1..n : e[s] = o
    <2>1. IsFiniteSet(S)
      BY <1>1
    <2>2. /\ \A o \in S : <<o, o>> \notin R
          /\ \A o, p \in S : o # p => <<o, p>> \in R \/ <<p, o>> \in R
          /\ \A o, p, q \in S : <<o, p>> \in R /\ <<p, q>> \in R => <<o, q>> \in R
      BY <1>5, <1>6
    <2>3. /\ Cardinality(S) \in Nat
          /\ Ranked(S, R) \in [1..Cardinality(S) -> S]
          /\ \A p, q \in 1..Cardinality(S) : Ranked(S, R)[p] = Ranked(S, R)[q] => p = q
          /\ \A x \in S : \E p \in 1..Cardinality(S) :
               Ranked(S, R)[p] = x /\ p = Cardinality(Preceding(S, R, x)) + 1
      BY <2>1, <2>2, RankedLists
    <2>4. QED
      BY Zenon, <2>3
  <1>8. StencilOf(dim, rc) = e
    BY DEF StencilOf, S, R
  <1> HIDE DEF e, n
  <1>9. e \in [1..n -> [Axes -> Int]]
    BY <1>1, <1>7
  <1>10. e \in Seq([Axes -> Int]) /\ Len(e) = n
    BY <1>7, <1>9
  <1>11. \A s \in 1..Len(e), k \in Axes : e[s][k] \in Steps
    BY <1>1, <1>7, <1>10
  <1>12. \A o \in S : \E s \in 1..Len(e) : e[s] = o
    BY <1>7, <1>10
  <1>13. QED
    BY <1>7, <1>8, <1>10, <1>11, <1>12 DEF S

-----------------------------------------------------------------------------
(* prepare() puts particles into the cell *)

LEMMA CancelLess ==
  ASSUME NEW n \in Nat \ {0}, NEW x \in Int, NEW y \in Int, n * x < n * y
  PROVE  x < y
  <1>1. SUFFICES ASSUME x >= y PROVE FALSE
    OBVIOUS
  <1>2. n * (x - y) >= 0 /\ n * (x - y) = n * x - n * y
    BY <1>1
  <1>3. n * x \in Int /\ n * y \in Int
    OBVIOUS
  <1>4. QED
    <2> DEFINE p == n * x
               q == n * y
    <2> HIDE DEF p, q
    <2> QED BY <1>2, <1>3 DEF p, q

\* Whole cells can be counted in bins as well as in lengths.
LEMMA CellOfBin ==
  ASSUME NEW x \in Int, NEW n \in Nat \ {0}, NEW len \in Nat \ {0}
  PROVE  ((x * n) \div len) \div n = x \div len
  <1> DEFINE b == (x * n) \div len
             r == (x * n) % len
             q == b \div n
             s == b % n
  <1>1. x * n \in Int /\ b \in Int /\ r \in 0..(len - 1) /\ x * n = len * b + r
    <2> DEFINE y == x * n
    <2>1. y \in Int
      OBVIOUS
    <2> HIDE DEF y
    <2>2. y \div len \in Int /\ y % len \in 0..(len - 1) /\ y = len * (y \div len) + (y % len)
      BY <2>1, Quotient
    <2>3. QED
      BY <2>1, <2>2 DEF y
  <1>2. q \in Int /\ s \in 0..(n - 1) /\ b = n * q + s
    <2> HIDE DEF b
    <2> QED BY <1>1, Quotient
  <1> HIDE DEF b, r, q, s
  <1>3. x * n = n * x
    OBVIOUS
  <1>4. len * (n * q + s) = n * (len * q) + len * s
    BY <1>2
  <1>5. n * x = n * (len * q) + len * s + r
    BY <1>1, <1>2, <1>3, <1>4
  <1>6. len * s <= len * n - len /\ len * s >= 0
    <2>1. len * s <= len * (n - 1) /\ len * s >= 0
      BY <1>2
    <2>2. len * (n - 1) = len * n - len
      OBVIOUS
    <2>3. QED
      BY <2>1, <2>2
  <1>7. x - len * q \in 0..(len - 1)
    <2> DEFINE y == len * q
               t == len * s
               w == n * len
    <2>1. y \in Int /\ t \in Int /\ w \in Int /\ len * n = w
      BY <1>2
    <2>2. n * x = n * y + t + r /\ t <= w - len /\ t >= 0
      BY <1>5, <1>6, <2>1
    <2> HIDE DEF y, t
    <2>3. n * (x + 1) = n * x + n /\ n * (y + len) = n * y + w /\ n * x \in Int /\ n * y \in Int
      BY <2>1
    <2>4. n * y < n * (x + 1)
      <3> DEFINE nx == n * x
                 ny == n * y
      <3> HIDE DEF nx, ny, w
      <3> QED BY <1>1, <2>1, <2>2, <2>3 DEF nx, ny
    <2>5. n * x < n * (y + len)
      <3> DEFINE nx == n * x
                 ny == n * y
      <3> HIDE DEF nx, ny, w
      <3> QED BY <1>1, <2>1, <2>2, <2>3 DEF nx, ny
    <2>6. y < x + 1 /\ x < y + len
      BY <2>1, <2>4, <2>5, CancelLess
    <2>7. QED
      BY <2>1, <2>6 DEF y
  <1>8. x \div len \in Int /\ x % len \in 0..(len - 1) /\ x = len * (x \div len) + (x % len)
    BY Quotient
  <1>9. q = x \div len
    <2> DEFINE p == x \div len
               t == x % len
               u == x - len * q
    <2>1. /\ p \in Int /\ t \in 0..(len - 1) /\ u \in 0..(len - 1)
          /\ len * q + u = len * p + t
      BY <1>2, <1>7, <1>8
    <2> HIDE DEF p, t, u
    <2>2. q = p
      BY <1>2, <2>1, QuotientUnique
    <2>3. QED
      BY <2>2 DEF p
  <1>10. QED
    BY <1>9 DEF q, b

\* A coordinate is put into a bin of the array, moved by sides that the shift records.
LEMMA PlacedType ==
  ASSUME cell \in Cells, NEW k \in Axes, NEW x \in Int, NEW dim \in Counts, NEW hair \in BOOLEAN,
         hair => Periodic[k] /\ x % Side[k] = 0
  PROVE  /\ Placed(k, x, dim, hair).pos \in Int
         /\ Placed(k, x, dim, hair).shift \in Int
         /\ Placed(k, x, dim, hair).bin \in 0..(dim[k] - 1)
         /\ \E a \in Wraps(cell, k, x) : /\ Placed(k, x, dim, hair).pos = x + a * Side[k]
                                         /\ Placed(k, x, dim, hair).shift = Byte(a)
  <1> DEFINE n == dim[k]
             len == Side[k]
             b == (x * n) \div len
             q == x \div len
             r == x % len
  <1>1. n \in Nat \ {0} /\ len \in Nat \ {0} /\ Periodic[k] \in BOOLEAN /\ ByteMax \in Nat
    BY CellType DEF Counts
  <1>2. q \in Int /\ r \in 0..(len - 1) /\ x = len * q + r
    <2> HIDE DEF n, len
    <2> QED BY <1>1, Quotient
  <1>3. b \in Int /\ b \div n = q /\ b % n \in 0..(n - 1) /\ b = n * q + (b % n)
    <2> HIDE DEF n, len
    <2>1. x * n \in Int
      BY <1>1
    <2>2. b \in Int
      BY <1>1, <2>1
    <2>3. b \div n = q
      BY <1>1, CellOfBin
    <2> HIDE DEF b
    <2>4. QED
      BY <1>1, <2>2, <2>3, Quotient
  <1>4. BinAlong(k, x, dim) = b
    BY DEF BinAlong
  <1>5. WrapShift(b, n) = -q
    <2> HIDE DEF b, n
    <2> QED BY <1>1, <1>3, ShiftIsQuotient
  <1>6. Wraps(cell, k, x) = IF Periodic[k] THEN {a \in {-q, 1 - q} : x + a * len \in 0..len} ELSE {0}
    BY DEF Wraps, Side, Periodic
  <1>7. Byte(0) = 0
    BY <1>1, ByteKeeps
  <1> HIDE DEF n, len, b, q, r
  <1>8. x + (-q) * len = r /\ x + (1 - q) * len = r + len
    <2>1. len * q = q * len /\ (-q) * len = -(q * len) /\ (1 - q) * len = len - q * len /\ q * len \in Int
      BY <1>1, <1>2
    <2> DEFINE y == q * len
    <2> HIDE DEF y
    <2>2. QED
      BY <1>1, <1>2, <2>1 DEF y
  <1>9. \A a \in Int : Byte(a) \in Int
    BY <1>1, ByteType
  <1>10. CASE ~Periodic[k]
    <2>1. Placed(k, x, dim, hair) = [pos |-> x, shift |-> 0, bin |-> Min({Max({b, 0}), n - 1})]
      BY <1>4, <1>10 DEF Placed, n
    <2>2. Max({b, 0}) \in Nat
      BY <1>3, MaxOfTwo
    <2>3. Min({Max({b, 0}), n - 1}) \in 0..(n - 1)
      <3> DEFINE m == Max({b, 0})
      <3> HIDE DEF m
      <3>1. m \in Nat
        BY <2>2 DEF m
      <3>2. Min({m, n - 1}) \in 0..(n - 1)
        BY <1>1, <3>1, MinOfTwo
      <3>3. QED
        BY <3>2 DEF m
    <2>4. 0 \in Wraps(cell, k, x) /\ x = x + 0 * len
      BY <1>1, <1>6, <1>10
    <2>5. QED
      BY <1>7, <2>1, <2>3, <2>4 DEF n, len
  <1>11. CASE hair
    <2>1. Periodic[k] /\ r = 0
      BY <1>11 DEF r, len
    <2>2. Placed(k, x, dim, hair) = [pos |-> len, shift |-> Byte(1 - q), bin |-> n - 1]
      BY <1>11, <2>1 DEF Placed, n, len, q
    <2>3. x + (1 - q) * len = len
      BY <1>1, <1>8, <2>1
    <2>4. 1 - q \in Wraps(cell, k, x)
      BY <1>1, <1>6, <2>1, <2>3
    <2>5. Byte(1 - q) \in Int
      BY <1>2, <1>9
    <2>6. QED
      <3> HIDE DEF Placed, Wraps
      <3>1. n - 1 \in 0..(n - 1)
        BY <1>1
      <3>2. QED
        BY <1>1, <2>2, <2>3, <2>4, <2>5, <3>1 DEF n, len
  <1>12. CASE Periodic[k] /\ ~hair /\ b \in 0..(n - 1)
    <2>1. Placed(k, x, dim, hair) = [pos |-> x, shift |-> 0, bin |-> b]
      BY <1>4, <1>12 DEF Placed, n
    <2>2. q = 0
      <3> DEFINE t == b % n
      <3>1. n * q + t = n * 0 + b /\ t \in 0..(n - 1)
        BY <1>1, <1>3, <1>12
      <3> HIDE DEF t
      <3>2. QED
        BY <1>1, <1>2, <1>12, <3>1, QuotientUnique
    <2>3. 0 \in Wraps(cell, k, x) /\ x = x + 0 * len
      BY <1>1, <1>2, <1>6, <1>8, <1>12, <2>2
    <2>4. QED
      BY <1>7, <1>12, <2>1, <2>3 DEF n, len
  <1>13. CASE Periodic[k] /\ ~hair /\ b \notin 0..(n - 1)
    <2>1. Placed(k, x, dim, hair) = [pos |-> x + (-q) * len, shift |-> Byte(-q), bin |-> b % n]
      BY <1>4, <1>5, <1>13 DEF Placed, n, len
    <2>2. -q \in Wraps(cell, k, x) /\ -q \in Int
      BY <1>1, <1>2, <1>6, <1>8, <1>13
    <2>3. x + (-q) * len \in Int /\ Byte(-q) \in Int
      BY <1>1, <1>2, <1>8, <1>9
    <2>4. QED
      <3> HIDE DEF Placed, Wraps
      <3> QED BY <1>3, <2>1, <2>2, <2>3 DEF n, len
  <1>14. QED
    BY <1>1, <1>10, <1>11, <1>12, <1>13

-----------------------------------------------------------------------------
(* What prepare() leaves *)

Vectors == [Axes -> Int]

StencilInv ==
  /\ stencil \in Seq(Vectors)
  /\ \A s \in 1..Len(stencil), k \in Axes : stencil[s][k] \in Steps
  /\ prepares = 0 => stencil = <<>>
  /\ prepares = 1 => \A s, t \in 1..Len(stencil) : stencil[s] = stencil[t] => s = t

\* A particle lies where its position puts it, moved by whole sides into the cell.
IsMoved(i, k, a) ==
  /\ particles[i].pos[k] = place[i][k] + a * Side[k]
  /\ particles[i].shift[k] = Byte(a)

ParticlesInv ==
  IF prepares = 0 THEN particles = <<>>
  ELSE /\ particles \in [Index -> [pos : Vectors, shift : Vectors]]
       /\ \A i \in Index, k \in Axes : \E a \in Wraps(cell, k, place[i][k]) : IsMoved(i, k, a)

\* The bins follow each other in the array of the particles, and each particle is there once.
BinsInv ==
  prepares > 0 =>
    /\ binDim \in Counts
    /\ binStart \in [0..ProductOver(binDim) -> 0..Particles]
    /\ \A b, c \in 0..ProductOver(binDim) : b <= c => binStart[b] <= binStart[c]
    /\ binnedIndices \in [1..Particles -> Index]
    /\ \A p, q \in 1..Particles : binnedIndices[p] = binnedIndices[q] => p = q

GivenInv == cell \in Cells /\ place \in [Index -> Spots] /\ prepares \in 0..MaxPrepares

PreparedInv == GivenInv /\ StencilInv /\ ParticlesInv /\ BinsInv

LEMMA IndexCount == IsFiniteSet(Index) /\ Cardinality(Index) = Particles
  BY FS_Interval, LimitsAssumption DEF Index

LEMMA SortedType ==
  ASSUME NEW binOf \in [Index -> Int]
  PROVE  /\ SortedInto(binOf) \in [1..Particles -> Index]
         /\ \A p, q \in 1..Particles : SortedInto(binOf)[p] = SortedInto(binOf)[q] => p = q
         /\ \A j \in Index : \E p \in 1..Particles :
              /\ SortedInto(binOf)[p] = j
              /\ Cardinality({i \in Index : binOf[i] < binOf[j]}) < p
              /\ p <= Cardinality({i \in Index : binOf[i] < binOf[j] + 1})
  <1> DEFINE Goes(i, j) == binOf[i] < binOf[j] \/ (binOf[i] = binOf[j] /\ i > j)
             R == {w \in Index \X Index : Goes(w[1], w[2])}
  <1>1. \A i \in Index : i \in Int /\ binOf[i] \in Int
    BY LimitsAssumption DEF Index
  <1>2. /\ \A i \in Index : ~Goes(i, i)
        /\ \A i, j \in Index : i # j => Goes(i, j) \/ Goes(j, i)
        /\ \A h, i, j \in Index : Goes(h, i) /\ Goes(i, j) => Goes(h, j)
    <2>1. \A i, j \in Index : i > j \/ j > i \/ i = j
      BY <1>1
    <2>2. QED
      BY <1>1, <2>1
  <1>3. \A i, j \in Index : <<i, j>> \in R <=> Goes(i, j)
    OBVIOUS
  <1>4. SortedInto(binOf) = Ranked(Index, R)
    BY Zenon DEF SortedInto
  <1> HIDE DEF R, Goes
  <1>5. /\ Ranked(Index, R) \in [1..Cardinality(Index) -> Index]
        /\ \A p, q \in 1..Cardinality(Index) : Ranked(Index, R)[p] = Ranked(Index, R)[q] => p = q
        /\ \A j \in Index : \E p \in 1..Cardinality(Index) :
             Ranked(Index, R)[p] = j /\ p = Cardinality(Preceding(Index, R, j)) + 1
    <2>1. IsFiniteSet(Index)
      BY IndexCount
    <2>2. /\ \A i \in Index : <<i, i>> \notin R
          /\ \A i, j \in Index : i # j => <<i, j>> \in R \/ <<j, i>> \in R
          /\ \A h, i, j \in Index : <<h, i>> \in R /\ <<i, j>> \in R => <<h, j>> \in R
      BY <1>2, <1>3
    <2>3. QED
      BY Zenon, <2>1, <2>2, RankedLists
  <1>6. ASSUME NEW j \in Index
        PROVE  LET before == Cardinality(Preceding(Index, R, j))
               IN /\ before \in Nat
                  /\ Cardinality({i \in Index : binOf[i] < binOf[j]}) <= before
                  /\ before + 1 <= Cardinality({i \in Index : binOf[i] < binOf[j] + 1})
    <2> DEFINE B == Preceding(Index, R, j)
               L == {i \in Index : binOf[i] < binOf[j]}
               U == {i \in Index : binOf[i] < binOf[j] + 1}
    <2>1. B \in SUBSET Index /\ L \in SUBSET B /\ B \cup {j} \in SUBSET U /\ j \notin B
      <3>1. \A i \in Index : <<i, j>> \in R => binOf[i] < binOf[j] + 1
        BY <1>1, <1>3 DEF Goes
      <3>2. binOf[j] < binOf[j] + 1 /\ <<j, j>> \notin R
        BY <1>1, <1>2, <1>3
      <3>3. \A i \in Index : binOf[i] < binOf[j] => <<i, j>> \in R
        BY <1>1, <1>3 DEF Goes
      <3>4. QED
        BY <3>1, <3>2, <3>3 DEF Preceding
    <2>2. U \in SUBSET Index
      OBVIOUS
    <2> HIDE DEF B, L, U
    <2>3. IsFiniteSet(B) /\ IsFiniteSet(U)
      BY <2>1, <2>2, IndexCount, FS_Subset
    <2>4. Cardinality(B) \in Nat /\ Cardinality(U) \in Nat
      BY <2>3, FS_CardinalityType
    <2>5. Cardinality(L) <= Cardinality(B)
      BY <2>1, <2>3, FS_Subset
    <2>6. Cardinality(B \cup {j}) = Cardinality(B) + 1
      BY <2>1, <2>3, FS_AddElement
    <2>7. Cardinality(B \cup {j}) <= Cardinality(U)
      BY <2>1, <2>3, FS_Subset
    <2>8. QED
      BY <2>4, <2>5, <2>6, <2>7 DEF B, L, U
  <1>7. ASSUME NEW j \in Index
        PROVE  \E p \in 1..Particles :
                 /\ Ranked(Index, R)[p] = j
                 /\ Cardinality({i \in Index : binOf[i] < binOf[j]}) < p
                 /\ p <= Cardinality({i \in Index : binOf[i] < binOf[j] + 1})
    <2> DEFINE B == Cardinality(Preceding(Index, R, j))
               L == Cardinality({i \in Index : binOf[i] < binOf[j]})
               U == Cardinality({i \in Index : binOf[i] < binOf[j] + 1})
    <2>1. B \in Nat /\ L <= B /\ B + 1 <= U
      BY <1>6
    <2>2. L \in Int
      <3>1. {i \in Index : binOf[i] < binOf[j]} \in SUBSET Index
        OBVIOUS
      <3>2. IsFiniteSet({i \in Index : binOf[i] < binOf[j]})
        BY <3>1, IndexCount, FS_Subset
      <3>3. QED
        BY <3>2, FS_CardinalityType
    <2> HIDE DEF B, L, U
    <2>3. PICK p \in 1..Cardinality(Index) : Ranked(Index, R)[p] = j /\ p = B + 1
      BY <1>5 DEF B
    <2>4. L < p /\ p <= U
      BY <2>1, <2>2, <2>3
    <2>5. QED
      BY <2>3, <2>4, IndexCount DEF L, U
  <1>8. QED
    BY <1>4, <1>5, <1>7, IndexCount

LEMMA CountedMonotone ==
  ASSUME NEW binOf \in [Index -> Int], NEW b \in Int, NEW c \in Int, b <= c
  PROVE  /\ Cardinality({i \in Index : binOf[i] < b}) \in 0..Particles
         /\ Cardinality({i \in Index : binOf[i] < b}) <= Cardinality({i \in Index : binOf[i] < c})
  <1> DEFINE B == {i \in Index : binOf[i] < b}
             C == {i \in Index : binOf[i] < c}
  <1>1. B \in SUBSET Index /\ C \in SUBSET Index /\ B \in SUBSET C
    <2>1. \A i \in Index : binOf[i] \in Int
      OBVIOUS
    <2>2. \A i \in Index : binOf[i] < b => binOf[i] < c
      BY <2>1
    <2>3. QED
      BY <2>2
  <1> HIDE DEF B, C
  <1>2. IsFiniteSet(C) /\ Cardinality(B) <= Cardinality(C)
    BY <1>1, IndexCount, FS_Subset
  <1>3. IsFiniteSet(B) /\ Cardinality(B) \in Nat /\ Cardinality(B) <= Particles
    BY <1>1, IndexCount, FS_Subset, FS_CardinalityType
  <1>4. QED
    BY <1>2, <1>3, LimitsAssumption DEF B, C

LEMMA InitPrepared == Init => PreparedInv
  <1> SUFFICES ASSUME Init PROVE PreparedInv
    OBVIOUS
  <1>1. GivenInv
    BY CellType DEF Init, GivenInv
  <1>2. StencilInv
    <2>1. <<>> \in Seq(Vectors) /\ Len(<<>>) = 0
      OBVIOUS
    <2>2. stencil = <<>> /\ prepares = 0
      BY DEF Init
    <2>3. QED
      BY <2>1, <2>2 DEF StencilInv
  <1>3. QED
    BY <1>1, <1>2 DEF Init, PreparedInv, ParticlesInv, BinsInv

\* What prepare() computes with this cutoff, these bins and these roundings
Prepares(rc, dim, below) ==
  LET put == [i \in Index |-> [k \in Axes |-> Placed(k, place[i][k], dim, <<i, k>> \in below)]]
      binOf == [i \in Index |-> FlatBin([k \in Axes |-> put[i][k].bin], dim)]
  IN /\ cutoff' = rc /\ binDim' = dim
     /\ stencil' = stencil \o StencilOf(dim, rc)
     /\ particles' = [i \in Index |-> [pos   |-> [k \in Axes |-> put[i][k].pos],
                                       shift |-> [k \in Axes |-> put[i][k].shift]]]
     /\ binStart' = [b \in 0..ProductOver(dim) |-> Cardinality({i \in Index : binOf[i] < b})]
     /\ binnedIndices' = SortedInto(binOf)

LEMMA PrepareKeeps == PreparedInv /\ Prepare => PreparedInv'
  <1> SUFFICES ASSUME PreparedInv, Prepare PROVE PreparedInv'
    OBVIOUS
  <1>1. PICK rc \in Cutoffs : \E dim \in Dims(rc) : \E below \in SUBSET OnFaces : Prepares(rc, dim, below)
    BY DEF Prepare, Prepares
  <1>2. PICK dim \in Dims(rc) : \E below \in SUBSET OnFaces : Prepares(rc, dim, below)
    BY <1>1
  <1>3. PICK below \in SUBSET OnFaces : Prepares(rc, dim, below)
    BY <1>2
  <1> DEFINE put == [i \in Index |-> [k \in Axes |-> Placed(k, place[i][k], dim, <<i, k>> \in below)]]
             bin == [i \in Index |-> [k \in Axes |-> put[i][k].bin]]
             binOf == [i \in Index |-> FlatBin(bin[i], dim)]
  <1>4. /\ cell \in Cells /\ place \in [Index -> Spots] /\ prepares \in Nat
        /\ cell' = cell /\ place' = place /\ prepares' = prepares + 1 /\ prepares < MaxPrepares
    BY CellType DEF PreparedInv, GivenInv, Prepare, given
  <1>5. GivenInv'
    <2>1. MaxPrepares \in Nat /\ MaxPrepares' = MaxPrepares /\ Spots' = Spots
      BY <1>4, CellType DEF MaxPrepares, Spots
    <2>2. QED
      BY <1>4, <2>1 DEF GivenInv
  <1>6. Axes' = Axes /\ Side' = Side /\ Counts' = Counts /\ Vectors' = Vectors
    BY <1>4 DEF Axes, Side, Counts, Vectors
  <1>7. dim \in Counts
    BY <1>4, DimsType
  <1>8. StencilInv'
    <2> DEFINE new == StencilOf(dim, rc)
    <2>1. /\ new \in Seq(Vectors) /\ \A s \in 1..Len(new), k \in Axes : new[s][k] \in Steps
          /\ \A s, t \in 1..Len(new) : new[s] = new[t] => s = t
      BY <1>4, StencilType DEF Vectors
    <2>2. stencil' = stencil \o new
      BY <1>3 DEF Prepares
    <2>3. /\ stencil \in Seq(Vectors) /\ \A s \in 1..Len(stencil), k \in Axes : stencil[s][k] \in Steps
          /\ prepares = 0 => stencil = <<>>
      BY DEF PreparedInv, StencilInv
    <2> HIDE DEF new
    <2>4. stencil' \in Seq(Vectors) /\ Len(stencil') = Len(stencil) + Len(new)
      BY <2>1, <2>2, <2>3
    <2>5. \A s \in 1..Len(stencil'), k \in Axes : stencil'[s][k] \in Steps
      <3> TAKE s \in 1..Len(stencil'), k \in Axes
      <3>1. CASE s <= Len(stencil)
        <4>1. s \in 1..Len(stencil) /\ stencil'[s] = stencil[s]
          BY <2>1, <2>2, <2>3, <2>4, <3>1
        <4>2. QED
          BY <2>3, <4>1
      <3>2. CASE s > Len(stencil)
        <4>1. s - Len(stencil) \in 1..Len(new) /\ stencil'[s] = new[s - Len(stencil)]
          BY <2>1, <2>2, <2>3, <2>4, <3>2
        <4>2. QED
          BY <2>1, <4>1
      <3>3. QED
        BY <2>3, <2>4, <3>1, <3>2
    <2>6. prepares = 0 => stencil' = new
      BY <2>1, <2>2, <2>3
    <2>7. prepares' = 1 => \A s, t \in 1..Len(stencil') : stencil'[s] = stencil'[t] => s = t
      BY <1>4, <2>1, <2>6
    <2>8. QED
      BY <1>4, <1>6, <2>4, <2>5, <2>7 DEF StencilInv
  <1>9. \A i \in Index, k \in Axes :
          LET p == put[i][k]
          IN /\ p.pos \in Int /\ p.shift \in Int /\ p.bin \in 0..(dim[k] - 1)
             /\ \E a \in Wraps(cell, k, place[i][k]) : p.pos = place[i][k] + a * Side[k] /\ p.shift = Byte(a)
    <2> SUFFICES ASSUME NEW i \in Index, NEW k \in Axes
                 PROVE  LET p == put[i][k]
                        IN /\ p.pos \in Int /\ p.shift \in Int /\ p.bin \in 0..(dim[k] - 1)
                           /\ \E a \in Wraps(cell, k, place[i][k]) :
                                p.pos = place[i][k] + a * Side[k] /\ p.shift = Byte(a)
      OBVIOUS
    <2> DEFINE x == place[i][k]
               hair == <<i, k>> \in below
    <2>1. x \in Int
      BY <1>4, CellType
    <2>2. hair \in BOOLEAN /\ (hair => Periodic[k] /\ x % Side[k] = 0)
      BY DEF OnFaces
    <2>3. put[i][k] = Placed(k, x, dim, hair)
      OBVIOUS
    <2> HIDE DEF x, hair, put
    <2>4. /\ Placed(k, x, dim, hair).pos \in Int
          /\ Placed(k, x, dim, hair).shift \in Int
          /\ Placed(k, x, dim, hair).bin \in 0..(dim[k] - 1)
          /\ \E a \in Wraps(cell, k, x) : /\ Placed(k, x, dim, hair).pos = x + a * Side[k]
                                          /\ Placed(k, x, dim, hair).shift = Byte(a)
      BY <1>4, <1>7, <2>1, <2>2, PlacedType
    <2>5. QED
      BY <2>3, <2>4 DEF x
  <1> HIDE DEF put
  <1>10. ParticlesInv'
    <2>1. particles' = [i \in Index |-> [pos   |-> [k \in Axes |-> put[i][k].pos],
                                         shift |-> [k \in Axes |-> put[i][k].shift]]]
      BY <1>3 DEF Prepares, put
    <2>2. \A i \in Index : /\ [k \in Axes |-> put[i][k].pos] \in Vectors
                           /\ [k \in Axes |-> put[i][k].shift] \in Vectors
      BY <1>9 DEF Vectors
    <2>3. particles' \in [Index -> [pos : Vectors, shift : Vectors]]
      BY <2>1, <2>2
    <2>4. \A i \in Index, k \in Axes : /\ particles'[i].pos[k] = put[i][k].pos
                                       /\ particles'[i].shift[k] = put[i][k].shift
      BY <2>1
    <2>5. \A i \in Index, k \in Axes : \E a \in Wraps(cell, k, place[i][k]) :
            /\ particles'[i].pos[k] = place[i][k] + a * Side[k]
            /\ particles'[i].shift[k] = Byte(a)
      BY <1>9, <2>4
    <2>6. \A a : Byte(a)' = Byte(a)
      BY <1>4 DEF Byte, ByteMax
    <2>7. QED
      BY <1>4, <1>6, <2>3, <2>5, <2>6 DEF ParticlesInv, IsMoved
  <1>11. \A i \in Index : bin[i] \in [Axes -> Int] /\ InBox(bin[i], dim)
    <2> TAKE i \in Index
    <2>1. \A k \in Axes : put[i][k].bin \in 0..(dim[k] - 1) /\ put[i][k].bin \in Int
      BY <1>7, <1>9 DEF Counts
    <2>2. QED
      BY <2>1 DEF InBox
  <1> HIDE DEF bin
  <1>12. binOf \in [Index -> Int]
    <2>1. \A i \in Index : FlatBin(bin[i], dim) \in 0..(ProductOver(dim) - 1)
      BY <1>4, <1>7, <1>11, FlatInArray
    <2>2. QED
      BY <2>1
  <1>13. ProductOver(dim) \in Nat
    <2> DEFINE b == [k \in Axes |-> 0]
    <2>1. b \in [Axes -> Int] /\ InBox(b, dim)
      BY <1>7 DEF InBox, Counts
    <2> HIDE DEF b
    <2>2. QED
      BY <1>4, <1>7, <2>1, FlatInArray
  <1>14. BinsInv'
    <2>1. /\ binDim' = dim /\ binnedIndices' = SortedInto(binOf)
          /\ binStart' = [b \in 0..ProductOver(dim) |-> Cardinality({i \in Index : binOf[i] < b})]
      BY <1>3 DEF Prepares, put, bin
    <2> HIDE DEF binOf
    <2>2. \A b, c \in 0..ProductOver(dim) : b <= c =>
            /\ Cardinality({i \in Index : binOf[i] < b}) \in 0..Particles
            /\ Cardinality({i \in Index : binOf[i] < b}) <= Cardinality({i \in Index : binOf[i] < c})
      BY <1>12, <1>13, CountedMonotone
    <2>3. binStart' \in [0..ProductOver(dim) -> 0..Particles]
      <3>1. \A b \in 0..ProductOver(dim) : b <= b
        BY <1>13
      <3>2. \A b \in 0..ProductOver(dim) : Cardinality({i \in Index : binOf[i] < b}) \in 0..Particles
        BY <2>2, <3>1
      <3>3. QED
        BY <2>1, <3>2, Zenon
    <2>4. \A b, c \in 0..ProductOver(dim) : b <= c => binStart'[b] <= binStart'[c]
      BY <2>1, <2>2
    <2>5. /\ binnedIndices' \in [1..Particles -> Index]
          /\ \A p, q \in 1..Particles : binnedIndices'[p] = binnedIndices'[q] => p = q
      BY <1>12, <2>1, SortedType
    <2>6. ProductOver(binDim)' = ProductOver(dim)
      BY <1>6, <2>1 DEF ProductOver, Along
    <2>7. QED
      BY <1>6, <1>7, <2>1, <2>3, <2>4, <2>5, <2>6 DEF BinsInv
  <1>15. QED
    BY <1>5, <1>8, <1>10, <1>14 DEF PreparedInv

-----------------------------------------------------------------------------
(* What a query keeps *)

Entries == [index : Index, delta : Vectors, image : Vectors]

Queries ==
  [pc : {"scan", "returned", "end", "thrown"}, center : Index, at : Vectors, bin : Vectors,
   iter : Nat, cursor : Nat, end : 0..Particles, shift : Vectors, shifted : Vectors,
   found : Seq(Entries)]

\* The bin at an offset of the stencil, and where it is once moved back by m cells
BinAt(t) == [k \in Axes |-> query.bin[k] + stencil[t][k]]
BinIn(t, m) == [k \in Axes |-> BinAt(t)[k] - m[k] * binDim[k]]
FlatAt(t, m) == FlatBin(BinIn(t, m), binDim)

\* The offset t leads m cells away, into a bin of the array.
Crosses(t, m) ==
  /\ \A k \in Axes : FitsByte(m[k])
  /\ \A k \in Axes : m[k] = IF Periodic[k] THEN BinAt(t)[k] \div binDim[k] ELSE 0
  /\ InBox(BinIn(t, m), binDim)

\* The particle at place p lies in that bin.
Visits(t, m, p) ==
  Crosses(t, m) /\ binStart[FlatAt(t, m)] < p /\ p <= binStart[FlatAt(t, m) + 1]

\* What was found was found there.
FoundAt(e, t, m, p) ==
  /\ Visits(t, m, p)
  /\ e.index = binnedIndices[p]
  /\ e.image = Unwrapped(query.center, e.index, m)
  /\ e.delta = [k \in Axes |-> particles[e.index].pos[k] - (query.at[k] - m[k] * Side[k])]

PlacedInv ==
  /\ query.at = particles[query.center].pos
  /\ \A k \in Axes : query.bin[k] \in 0..binDim[k]
  /\ query.iter \in 1..(Len(stencil) + 1) /\ query.cursor <= query.end

\* An open bin is that of the offset before the next.
OpenInv ==
  query.cursor < query.end =>
    /\ query.iter > 1 /\ Crosses(query.iter - 1, query.shift)
    /\ query.shifted = [k \in Axes |-> query.at[k] - query.shift[k] * Side[k]]
    /\ binStart[FlatAt(query.iter - 1, query.shift)] <= query.cursor
    /\ query.end = binStart[FlatAt(query.iter - 1, query.shift) + 1]

FoundInv ==
  \A n \in 1..Len(query.found) : \E t \in 1..(query.iter - 1), m \in Vectors, p \in 1..Particles :
    /\ FoundAt(query.found[n], t, m, p)
    /\ t = query.iter - 1 => p <= query.cursor

QueryInv ==
  \/ query = NoQuery
  \/ prepares > 0 /\ query \in Queries /\ PlacedInv /\ OpenInv /\ FoundInv

FinderInv == PreparedInv /\ QueryInv

LEMMA VectorDifference ==
  ASSUME cell \in Cells, NEW u \in Vectors, NEW v \in Vectors
  PROVE  /\ [k \in Axes |-> u[k] + v[k]] \in Vectors
         /\ [k \in Axes |-> u[k] - v[k] * Side[k]] \in Vectors
  <1>1. \A k \in Axes : u[k] \in Int /\ v[k] \in Int /\ Side[k] \in Int
    BY CellType DEF Vectors
  <1>2. \A k \in Axes : u[k] + v[k] \in Int /\ u[k] - v[k] * Side[k] \in Int
    BY <1>1
  <1>3. QED
    BY <1>2 DEF Vectors

LEMMA BinInType ==
  ASSUME cell \in Cells, query.bin \in Vectors, binDim \in Counts, stencil \in Seq(Vectors),
         NEW t \in 1..Len(stencil), NEW m \in Vectors
  PROVE  BinAt(t) \in Vectors /\ BinIn(t, m) \in Vectors
  <1>1. stencil[t] \in Vectors
    OBVIOUS
  <1>2. \A k \in Axes : query.bin[k] \in Int /\ stencil[t][k] \in Int /\ m[k] \in Int /\ binDim[k] \in Int
    BY <1>1 DEF Vectors, Counts
  <1>3. BinAt(t) \in Vectors
    BY <1>2 DEF BinAt, Vectors
  <1>4. \A k \in Axes : BinAt(t)[k] \in Int /\ m[k] * binDim[k] \in Int
    BY <1>2, <1>3 DEF Vectors
  <1>5. \A k \in Axes : BinAt(t)[k] - m[k] * binDim[k] \in Int
    BY <1>4
  <1>6. QED
    BY <1>3, <1>5 DEF BinIn, Vectors

\* From a bin that is open, a place in the array is read that lies in it.
LEMMA OpenBin ==
  ASSUME PreparedInv, prepares > 0, query \in Queries, PlacedInv, OpenInv, query.cursor < query.end
  PROVE  /\ query.iter - 1 \in 1..Len(stencil)
         /\ Visits(query.iter - 1, query.shift, query.cursor + 1)
         /\ query.cursor + 1 \in 1..Particles
         /\ binnedIndices[query.cursor + 1] \in Index
  <1>1. query.cursor \in Nat /\ query.end \in 0..Particles /\ query.iter \in 1..(Len(stencil) + 1)
    BY DEF Queries, PlacedInv
  <1>2. Len(stencil) \in Nat
    BY DEF PreparedInv, StencilInv
  <1>3. query.cursor + 1 \in 1..Particles
    BY <1>1, LimitsAssumption
  <1>4. query.iter - 1 \in 1..Len(stencil)
    BY <1>1, <1>2 DEF OpenInv
  <1> DEFINE t == query.iter - 1
             f == FlatAt(t, query.shift)
  <1>5. f \in 0..(ProductOver(binDim) - 1) /\ ProductOver(binDim) \in Nat \ {0}
    <2>1. cell \in Cells /\ binDim \in Counts /\ stencil \in Seq(Vectors)
      BY DEF PreparedInv, GivenInv, BinsInv, StencilInv
    <2>2. query.bin \in Vectors /\ query.shift \in Vectors
      BY DEF Queries
    <2>3. BinIn(t, query.shift) \in Vectors
      <3> HIDE DEF t
      <3> QED BY <1>4, <2>1, <2>2, BinInType DEF t
    <2>4. InBox(BinIn(t, query.shift), binDim)
      BY DEF OpenInv, Crosses
    <2>5. QED
      BY <2>1, <2>3, <2>4, FlatInArray DEF FlatAt, Vectors
  <1>6. Crosses(t, query.shift) /\ binStart[f] <= query.cursor /\ query.end = binStart[f + 1]
    BY DEF OpenInv
  <1>7. binStart[f] \in 0..Particles
    <2>1. binStart \in [0..ProductOver(binDim) -> 0..Particles]
      BY DEF PreparedInv, BinsInv
    <2> HIDE DEF f
    <2>2. QED
      BY <1>5, <2>1
  <1>8. Visits(t, query.shift, query.cursor + 1)
    <2>1. binStart[f] < query.cursor + 1 /\ query.cursor + 1 <= binStart[f + 1]
      <3> HIDE DEF f
      <3> QED BY <1>1, <1>6, <1>7
    <2>2. QED
      BY <1>6, <2>1 DEF Visits
  <1>9. binnedIndices[query.cursor + 1] \in Index
    BY <1>3 DEF PreparedInv, BinsInv
  <1>10. QED
    BY <1>3, <1>4, <1>8, <1>9

-----------------------------------------------------------------------------
(* The steps of a query *)

\* A step of a query that leaves it where it stands, with the centre it has
Continues ==
  /\ UNCHANGED <<given, prepares, prepared>>
  /\ query'.center = query.center /\ query'.at = query.at /\ query'.bin = query.bin

LEMMA SameTables ==
  ASSUME UNCHANGED <<given, prepares, prepared>>
  PROVE  /\ Axes' = Axes /\ Side' = Side /\ Periodic' = Periodic /\ ByteMax' = ByteMax
         /\ Vectors' = Vectors /\ Queries' = Queries /\ Counts' = Counts
         /\ PreparedInv <=> PreparedInv'
  <1>1. /\ cell' = cell /\ place' = place /\ prepares' = prepares
        /\ binDim' = binDim /\ stencil' = stencil /\ particles' = particles
        /\ binStart' = binStart /\ binnedIndices' = binnedIndices
    BY DEF given, prepared
  <1>2. /\ Axes' = Axes /\ Side' = Side /\ Periodic' = Periodic /\ ByteMax' = ByteMax
        /\ Spots' = Spots /\ MaxPrepares' = MaxPrepares
    BY <1>1 DEF Axes, Side, Periodic, ByteMax, Spots, MaxPrepares
  <1>3. Vectors' = Vectors /\ Counts' = Counts
    BY <1>2 DEF Vectors, Counts
  <1>4. Queries' = Queries
    BY <1>3 DEF Queries, Entries
  <1>5. GivenInv <=> GivenInv'
    BY <1>1, <1>2 DEF GivenInv
  <1>6. StencilInv <=> StencilInv'
    BY <1>1, <1>2, <1>3 DEF StencilInv
  <1>7. ParticlesInv <=> ParticlesInv'
    <2>1. \A i, k, a : IsMoved(i, k, a)' <=> IsMoved(i, k, a)
      BY <1>1, <1>2 DEF IsMoved, Byte
    <2>2. QED
      BY <1>1, <1>2, <1>3, <2>1 DEF ParticlesInv
  <1>8. BinsInv <=> BinsInv'
    <2>1. ProductOver(binDim)' = ProductOver(binDim)
      BY <1>1, <1>2 DEF ProductOver, Along
    <2>2. QED
      BY <1>1, <1>3, <2>1 DEF BinsInv
  <1>9. QED
    BY <1>2, <1>3, <1>4, <1>5, <1>6, <1>7, <1>8 DEF PreparedInv

LEMMA SameVisits ==
  ASSUME Continues
  PROVE  \A t, m : /\ Crosses(t, m)' <=> Crosses(t, m)
                   /\ FlatAt(t, m)' = FlatAt(t, m)
                   /\ \A e, p : FoundAt(e, t, m, p)' <=> FoundAt(e, t, m, p)
  <1>1. /\ UNCHANGED <<given, prepares, prepared>>
        /\ query'.center = query.center /\ query'.at = query.at /\ query'.bin = query.bin
    BY DEF Continues
  <1>2. /\ binDim' = binDim /\ stencil' = stencil /\ particles' = particles
        /\ binStart' = binStart /\ binnedIndices' = binnedIndices
    BY <1>1 DEF prepared
  <1>3. Axes' = Axes /\ Side' = Side /\ Periodic' = Periodic /\ ByteMax' = ByteMax
    BY <1>1, SameTables
  <1> SUFFICES ASSUME NEW t, NEW m
               PROVE  /\ Crosses(t, m)' <=> Crosses(t, m)
                      /\ FlatAt(t, m)' = FlatAt(t, m)
                      /\ \A e, p : FoundAt(e, t, m, p)' <=> FoundAt(e, t, m, p)
    OBVIOUS
  <1>4. BinAt(t)' = BinAt(t)
    BY <1>1, <1>2, <1>3 DEF BinAt
  <1>5. BinIn(t, m)' = BinIn(t, m)
    BY <1>2, <1>3, <1>4 DEF BinIn
  <1>6. FlatAt(t, m)' = FlatAt(t, m)
    BY <1>2, <1>3, <1>5 DEF FlatAt, FlatBin, Along
  <1>7. Crosses(t, m)' <=> Crosses(t, m)
    <2>1. \A x : FitsByte(x)' <=> FitsByte(x)
      BY <1>3 DEF FitsByte
    <2>2. InBox(BinIn(t, m), binDim)' <=> InBox(BinIn(t, m), binDim)
      BY <1>2, <1>3, <1>5 DEF InBox
    <2>3. QED
      BY <1>2, <1>3, <1>4, <2>1, <2>2 DEF Crosses
  <1>8. \A e, p : FoundAt(e, t, m, p)' <=> FoundAt(e, t, m, p)
    <2> TAKE e, p
    <2>1. Visits(t, m, p)' <=> Visits(t, m, p)
      BY <1>2, <1>6, <1>7 DEF Visits
    <2>2. Unwrapped(query.center, e.index, m)' = Unwrapped(query.center, e.index, m)
      BY <1>1, <1>2, <1>3 DEF Unwrapped, Byte
    <2>3. [k \in Axes |-> particles[e.index].pos[k] - (query.at[k] - m[k] * Side[k])]'
            = [k \in Axes |-> particles[e.index].pos[k] - (query.at[k] - m[k] * Side[k])]
      BY <1>1, <1>2, <1>3
    <2>4. QED
      BY <1>2, <2>1, <2>2, <2>3 DEF FoundAt
  <1>9. QED
    BY <1>6, <1>7, <1>8

LEMMA NewQueryKeeps ==
  ASSUME FinderInv, NEW i \in Index, NewQuery(i)
  PROVE  FinderInv'
  <1>1. UNCHANGED <<given, prepares, prepared>> /\ prepares > 0
    BY DEF NewQuery
  <1>2. PreparedInv' /\ Axes' = Axes /\ Vectors' = Vectors /\ Queries' = Queries
    BY <1>1, SameTables DEF FinderInv
  <1>3. /\ cell \in Cells /\ binDim \in Counts /\ stencil \in Seq(Vectors) /\ Particles \in Nat
        /\ particles \in [Index -> [pos : Vectors, shift : Vectors]]
    <2>1. prepares \in Nat
      BY CellType DEF FinderInv, PreparedInv, GivenInv
    <2>2. QED
      BY <1>1, <2>1, LimitsAssumption
         DEF FinderInv, PreparedInv, GivenInv, StencilInv, ParticlesInv, BinsInv
  <1>4. binDim' = binDim /\ stencil' = stencil /\ particles' = particles /\ prepares' = prepares
    BY <1>1 DEF prepared
  <1> DEFINE at == particles[i].pos
             bin == [k \in Axes |-> CenterBin(k, at[k])]
  <1>5. at \in Vectors
    BY <1>3
  <1>6. \A k \in Axes : CenterBin(k, at[k]) \in 0..binDim[k] /\ CenterBin(k, at[k]) \in Int
    <2> HIDE DEF at
    <2> TAKE k \in Axes
    <2>1. at[k] \in Int /\ binDim[k] \in Nat \ {0} /\ Side[k] \in Nat \ {0}
      BY <1>3, <1>5, CellType DEF Vectors, Counts
    <2> DEFINE y == at[k] * binDim[k]
               b == y \div Side[k]
    <2>2. y \in Int
      BY <2>1
    <2> HIDE DEF y
    <2>3. b \in Int
      BY <2>1, <2>2
    <2>4. CenterBin(k, at[k]) = Max({Min({b, binDim[k]}), 0})
      BY DEF CenterBin, BinAlong, y
    <2> HIDE DEF b
    <2> DEFINE low == Min({b, binDim[k]})
    <2>5. low = IF b <= binDim[k] THEN b ELSE binDim[k]
      BY <2>1, <2>3, MinOfTwo
    <2> HIDE DEF low
    <2>6. Max({low, 0}) = IF low >= 0 THEN low ELSE 0
      BY <2>1, <2>3, <2>5, MaxOfTwo
    <2>7. QED
      BY <2>1, <2>3, <2>4, <2>5, <2>6 DEF low
  <1>7. bin \in Vectors /\ Zero \in Vectors
    BY <1>6 DEF Vectors, Zero
  <1>8. query' = [pc |-> "scan", center |-> i, at |-> at, bin |-> bin,
                  iter |-> 1, cursor |-> 0, end |-> 0,
                  shift |-> Zero, shifted |-> Zero, found |-> <<>>]
    BY DEF NewQuery
  <1>9. query' \in Queries
    <2>1. <<>> \in Seq(Entries) /\ 0 \in 0..Particles /\ 0 \in Nat /\ 1 \in Nat
      BY <1>3
    <2> HIDE DEF at, bin
    <2>2. QED
      BY <1>5, <1>7, <1>8, <2>1 DEF Queries
  <1>10. PlacedInv'
    <2>1. Len(stencil) \in Nat /\ 1 \in 1..(Len(stencil) + 1) /\ 0 <= 0
      BY <1>3
    <2>2. query'.at = particles'[query'.center].pos
      BY <1>4, <1>8
    <2>3. \A k \in Axes : query'.bin[k] \in 0..binDim'[k]
      BY <1>4, <1>6, <1>8
    <2>4. query'.iter = 1 /\ query'.cursor = 0 /\ query'.end = 0
      BY <1>8
    <2>5. QED
      BY <1>2, <1>4, <2>1, <2>2, <2>3, <2>4 DEF PlacedInv
  <1>11. OpenInv' /\ FoundInv'
    <2>1. query'.cursor = 0 /\ query'.end = 0 /\ query'.found = <<>>
      BY <1>8
    <2>2. OpenInv'
      BY <2>1 DEF OpenInv
    <2>3. FoundInv'
      BY <2>1 DEF FoundInv
    <2>4. QED
      BY <2>2, <2>3
  <1>12. QED
    BY <1>1, <1>2, <1>4, <1>9, <1>10, <1>11 DEF FinderInv, QueryInv

\* What an open query starts a step from.
LEMMA QueryOpen ==
  ASSUME FinderInv, query.pc # "none"
  PROVE  /\ PreparedInv /\ prepares > 0 /\ query \in Queries /\ PlacedInv /\ OpenInv /\ FoundInv
         /\ cell \in Cells /\ binDim \in Counts /\ stencil \in Seq(Vectors) /\ Particles \in Nat
         /\ particles \in [Index -> [pos : Vectors, shift : Vectors]]
  <1>1. query # NoQuery
    BY DEF NoQuery
  <1>2. /\ PreparedInv /\ prepares > 0 /\ query \in Queries /\ PlacedInv /\ OpenInv /\ FoundInv
    BY <1>1 DEF FinderInv, QueryInv
  <1>3. prepares \in Nat /\ cell \in Cells
    BY <1>2, CellType DEF PreparedInv, GivenInv
  <1>4. QED
    BY <1>2, <1>3, LimitsAssumption DEF PreparedInv, StencilInv, ParticlesInv, BinsInv

LEMMA UnwrappedType ==
  ASSUME cell \in Cells, particles \in [Index -> [pos : Vectors, shift : Vectors]],
         NEW i \in Index, NEW j \in Index, NEW m \in Vectors
  PROVE  Unwrapped(i, j, m) \in Vectors
  <1>1. particles[i].shift \in Vectors /\ particles[j].shift \in Vectors
    OBVIOUS
  <1>2. \A k \in Axes : m[k] \in Int /\ particles[i].shift[k] \in Int /\ particles[j].shift[k] \in Int
    BY <1>1 DEF Vectors
  <1>3. \A k \in Axes : m[k] - particles[i].shift[k] + particles[j].shift[k] \in Int
    BY <1>2
  <1>4. \A k \in Axes : Byte(m[k] - particles[i].shift[k] + particles[j].shift[k]) \in Int
    <2>1. \A x \in Int : Byte(x) \in Int
      BY CellType, ByteType
    <2>2. QED
      BY <1>3, <2>1
  <1>5. QED
    BY <1>4 DEF Unwrapped, Vectors

\* The entry for the particle that is looked at, and where it is found
LEMMA EntryFound ==
  ASSUME FinderInv, query.pc = "scan", query.cursor < query.end, NEW idx, NEW delta,
         idx = binnedIndices[query.cursor + 1],
         delta = [k \in Axes |-> particles[idx].pos[k] - query.shifted[k]]
  PROVE  LET e == [index |-> idx, delta |-> delta, image |-> Unwrapped(query.center, idx, query.shift)]
         IN e \in Entries /\ FoundAt(e, query.iter - 1, query.shift, query.cursor + 1)
  <1>1. /\ PreparedInv /\ prepares > 0 /\ query \in Queries /\ PlacedInv /\ OpenInv
        /\ cell \in Cells /\ particles \in [Index -> [pos : Vectors, shift : Vectors]]
    BY QueryOpen
  <1>2. Visits(query.iter - 1, query.shift, query.cursor + 1) /\ idx \in Index
    BY <1>1, OpenBin
  <1>3. query.center \in Index /\ query.shift \in Vectors /\ query.shifted \in Vectors
    BY <1>1 DEF Queries
  <1>4. delta \in Vectors
    <2>1. particles[idx].pos \in Vectors
      BY <1>1, <1>2
    <2>2. \A k \in Axes : particles[idx].pos[k] - query.shifted[k] \in Int
      BY <1>3, <2>1 DEF Vectors
    <2>3. QED
      BY <2>2 DEF Vectors
  <1>5. Unwrapped(query.center, idx, query.shift) \in Vectors
    BY <1>1, <1>2, <1>3, UnwrappedType
  <1>6. delta = [k \in Axes |-> particles[idx].pos[k] - (query.at[k] - query.shift[k] * Side[k])]
    <2>1. query.shifted = [k \in Axes |-> query.at[k] - query.shift[k] * Side[k]]
      BY <1>1 DEF OpenInv
    <2>2. \A k \in Axes : query.shifted[k] = query.at[k] - query.shift[k] * Side[k]
      BY <2>1
    <2>3. QED
      BY <2>2
  <1> DEFINE e == [index |-> idx, delta |-> delta, image |-> Unwrapped(query.center, idx, query.shift)]
  <1>7. e.index = idx /\ e.delta = delta /\ e.image = Unwrapped(query.center, idx, query.shift)
    OBVIOUS
  <1>8. e \in Entries
    BY <1>2, <1>4, <1>5 DEF Entries
  <1>9. FoundAt(e, query.iter - 1, query.shift, query.cursor + 1)
    <2> HIDE DEF e
    <2> QED BY <1>2, <1>6, <1>7 DEF FoundAt
  <1>10. QED
    BY <1>8, <1>9

\* Going on, a query keeps what it has found.
LEMMA StillFound ==
  ASSUME FinderInv, query.pc # "none", Continues, query'.found = query.found,
         \/ query'.iter = query.iter /\ query'.cursor >= query.cursor /\ query'.cursor \in Nat
         \/ query'.iter = query.iter + 1
  PROVE  FoundInv'
  <1>1. query \in Queries /\ FoundInv /\ query.iter \in Nat /\ query.cursor \in Nat
    BY QueryOpen DEF Queries
  <1>2. Vectors' = Vectors
    BY SameTables DEF Continues
  <1>3. \A e, t, m, p : FoundAt(e, t, m, p)' <=> FoundAt(e, t, m, p)
    BY SameVisits
  <1>4. ASSUME NEW n \in 1..Len(query.found)
        PROVE  \E t \in 1..(query'.iter - 1), m \in Vectors, p \in 1..Particles :
                 /\ FoundAt(query.found[n], t, m, p)
                 /\ t = query'.iter - 1 => p <= query'.cursor
    <2>1. PICK t \in 1..(query.iter - 1), m \in Vectors, p \in 1..Particles :
            /\ FoundAt(query.found[n], t, m, p)
            /\ t = query.iter - 1 => p <= query.cursor
      BY <1>1 DEF FoundInv
    <2>2. t \in 1..(query'.iter - 1)
      BY <1>1
    <2>3. t = query'.iter - 1 => p <= query'.cursor
      <3>1. p \in Int /\ t \in Int
        BY LimitsAssumption
      <3>2. QED
        BY <1>1, <2>1, <3>1
    <2>4. QED
      BY <2>1, <2>2, <2>3
  <1>5. QED
    BY <1>2, <1>3, <1>4 DEF FoundInv

LEMMA ScanKeeps ==
  ASSUME FinderInv, ScanParticle
  PROVE  FinderInv'
  <1>1. /\ query.pc = "scan" /\ query.cursor < query.end
        /\ UNCHANGED <<given, prepares, prepared>>
    BY DEF ScanParticle
  <1>2. /\ PreparedInv /\ prepares > 0 /\ query \in Queries /\ PlacedInv /\ OpenInv /\ FoundInv
        /\ cell \in Cells /\ stencil \in Seq(Vectors)
    BY <1>1, QueryOpen
  <1> DEFINE idx == binnedIndices[query.cursor + 1]
             delta == [k \in Axes |-> particles[idx].pos[k] - query.shifted[k]]
             e == [index |-> idx, delta |-> delta, image |-> Unwrapped(query.center, idx, query.shift)]
  <1>3. e \in Entries /\ FoundAt(e, query.iter - 1, query.shift, query.cursor + 1)
    BY <1>1, EntryFound
  <1>4. \/ query' = [query EXCEPT !.cursor = @ + 1, !.pc = "returned", !.found = Append(@, e)]
        \/ query' = [query EXCEPT !.cursor = @ + 1]
    BY DEF ScanParticle
  <1> HIDE DEF e
  <1>5. /\ query.cursor \in Nat /\ query.end \in 0..Particles /\ query.found \in Seq(Entries)
        /\ query.iter \in Nat /\ query.shift \in Vectors
    BY <1>2 DEF Queries
  <1>6. /\ query' \in Queries
        /\ query'.center = query.center /\ query'.at = query.at /\ query'.bin = query.bin
        /\ query'.iter = query.iter /\ query'.end = query.end /\ query'.cursor = query.cursor + 1
        /\ query'.shift = query.shift /\ query'.shifted = query.shifted
        /\ query'.found = query.found \/ query'.found = Append(query.found, e)
    <2>1. Append(query.found, e) \in Seq(Entries) /\ query.cursor + 1 \in Nat
      BY <1>3, <1>5
    <2>2. QED
      BY <1>2, <1>4, <2>1 DEF Queries
  <1>7. Continues
    BY <1>1, <1>6 DEF Continues
  <1>8. /\ PreparedInv' /\ Axes' = Axes /\ Vectors' = Vectors /\ Queries' = Queries /\ Side' = Side
        /\ prepares' = prepares
    BY <1>1, <1>2, SameTables
  <1>9. /\ binStart' = binStart /\ binDim' = binDim /\ stencil' = stencil /\ particles' = particles
    BY <1>1 DEF prepared
  <1>10. PlacedInv'
    <2>1. query.cursor + 1 <= query.end
      BY <1>1, <1>5
    <2>2. QED
      BY <1>2, <1>6, <1>8, <1>9, <2>1 DEF PlacedInv
  <1>11. OpenInv'
    <2>1. OpenInv /\ query.cursor < query.end
      BY <1>1, <1>2
    <2> DEFINE t == query.iter - 1
               f == FlatAt(t, query.shift)
    <2>2. Crosses(t, query.shift)' /\ FlatAt(t, query.shift)' = f
      <3>1. Crosses(t, query.shift) /\ (query.iter - 1)' = t /\ query'.shift = query.shift
        BY <1>6, <2>1 DEF OpenInv
      <3> HIDE DEF t
      <3>2. \A u, m : (Crosses(u, m)' <=> Crosses(u, m)) /\ FlatAt(u, m)' = FlatAt(u, m)
        BY <1>7, SameVisits
      <3>3. QED
        BY <3>1, <3>2 DEF t
    <2>3. binStart[f] \in Int
      <3>1. Visits(t, query.shift, query.cursor + 1)
        BY <1>1, <1>2, OpenBin
      <3>2. QED
        <4>1. t \in 1..Len(stencil)
          BY <1>1, <1>2, OpenBin
        <4>2. cell \in Cells /\ binDim \in Counts /\ query.bin \in Vectors
          BY <1>1, QueryOpen DEF Queries
        <4>3. BinIn(t, query.shift) \in Vectors /\ InBox(BinIn(t, query.shift), binDim)
          <5> HIDE DEF t
          <5> QED BY <1>2, <1>5, <3>1, <4>1, <4>2, BinInType DEF Visits, Crosses
        <4>4. f \in 0..(ProductOver(binDim) - 1) /\ ProductOver(binDim) \in Nat
          BY <4>2, <4>3, FlatInArray DEF FlatAt, Vectors
        <4>5. binStart \in [0..ProductOver(binDim) -> 0..Particles]
          BY <1>2 DEF PreparedInv, BinsInv
        <4> HIDE DEF f
        <4>6. QED
          BY <4>4, <4>5
    <2>4. binStart[f] <= query.cursor /\ query.end = binStart[f + 1] /\ query.iter > 1
      BY <2>1 DEF OpenInv
    <2>5. binStart[f] <= query.cursor + 1
      <3> HIDE DEF f
      <3> QED BY <1>5, <2>3, <2>4
    <2>6. query.shifted = [k \in Axes |-> query.at[k] - query.shift[k] * Side[k]]
      BY <2>1 DEF OpenInv
    <2>7. FlatAt(query.iter - 1, query.shift)' = f /\ Crosses(query.iter - 1, query.shift)'
      <3>1. (query.iter - 1)' = t
        BY <1>6
      <3>2. QED
        BY <2>2, <3>1
    <2> HIDE DEF f
    <2>8. QED
      BY <1>6, <1>8, <1>9, <2>4, <2>5, <2>6, <2>7 DEF OpenInv
  <1>12. FoundInv'
    <2>1. CASE query'.found = query.found
      <3>1. query.cursor + 1 >= query.cursor /\ query.cursor + 1 \in Nat
        BY <1>5
      <3>2. QED
        BY <1>1, <1>6, <1>7, <2>1, <3>1, StillFound
    <2>2. CASE query'.found = Append(query.found, e)
      <3>1. \A x, t, m, p : FoundAt(x, t, m, p)' <=> FoundAt(x, t, m, p)
        BY <1>7, SameVisits
      <3>2. query.cursor + 1 \in 1..Particles /\ query.iter - 1 \in 1..Len(stencil)
        BY <1>1, <1>2, OpenBin
      <3>3. ASSUME NEW n \in 1..Len(query'.found)
            PROVE  \E t \in 1..(query.iter - 1), m \in Vectors, p \in 1..Particles :
                     /\ FoundAt(query'.found[n], t, m, p)
                     /\ t = query.iter - 1 => p <= query.cursor + 1
        <4>1. CASE n \in 1..Len(query.found)
          <5>1. query'.found[n] = query.found[n]
            BY <1>3, <1>5, <2>2, <4>1
          <5>2. PICK t \in 1..(query.iter - 1), m \in Vectors, p \in 1..Particles :
                  /\ FoundAt(query.found[n], t, m, p)
                  /\ t = query.iter - 1 => p <= query.cursor
            BY <1>2, <4>1 DEF FoundInv
          <5>3. p \in Int
            BY LimitsAssumption
          <5>4. t = query.iter - 1 => p <= query.cursor + 1
            BY <1>5, <5>2, <5>3
          <5>5. QED
            BY <5>1, <5>2, <5>4
        <4>2. CASE n = Len(query.found) + 1
          <5>1. query'.found[n] = e
            BY <1>3, <1>5, <2>2, <4>2
          <5>2. query.iter - 1 \in 1..(query.iter - 1) /\ query.cursor + 1 <= query.cursor + 1
            BY <1>5, <3>2
          <5>3. QED
            BY <1>3, <1>5, <3>2, <5>1, <5>2
        <4>3. n \in 1..Len(query.found) \/ n = Len(query.found) + 1
          BY <1>3, <1>5, <2>2
        <4>4. QED
          BY <4>1, <4>2, <4>3
      <3>4. QED
        BY <1>6, <1>8, <3>1, <3>3 DEF FoundInv
    <2>3. QED
      BY <1>6, <2>1, <2>2
  <1>13. QED
    BY <1>2, <1>6, <1>8, <1>10, <1>11, <1>12 DEF FinderInv, QueryInv

\* The cells that the code counts are those of Crosses.
LEMMA CellsCounted ==
  ASSUME cell \in Cells, query.bin \in Vectors, binDim \in Counts, stencil \in Seq(Vectors),
         NEW t \in 1..Len(stencil), NEW m,
         m = [k \in Axes |-> IF Periodic[k] THEN CellsCrossed(BinAt(t)[k], binDim[k]) ELSE 0],
         \A k \in Axes : FitsByte(m[k]),
         \A k \in Axes : Periodic[k] \/ BinAt(t)[k] \in 0..(binDim[k] - 1)
  PROVE  m \in Vectors /\ Crosses(t, m) /\ m = [k \in Axes |-> Byte(m[k])]
  <1>1. BinAt(t) \in Vectors
    <2>1. [k \in Axes |-> 0] \in Vectors
      BY DEF Vectors
    <2>2. QED
      BY <2>1, BinInType
  <1>2. \A k \in Axes : BinAt(t)[k] \in Int /\ binDim[k] \in Nat \ {0} /\ Periodic[k] \in BOOLEAN
    BY <1>1, CellType DEF Vectors, Counts
  <1>3. \A k \in Axes : /\ BinAt(t)[k] \div binDim[k] \in Int
                        /\ BinAt(t)[k] % binDim[k] \in 0..(binDim[k] - 1)
                        /\ BinAt(t)[k] = binDim[k] * (BinAt(t)[k] \div binDim[k]) + (BinAt(t)[k] % binDim[k])
    <2> TAKE k \in Axes
    <2> DEFINE b == BinAt(t)[k]
               n == binDim[k]
    <2>1. b \in Int /\ n \in Nat \ {0}
      BY <1>2
    <2> HIDE DEF b, n
    <2>2. b \div n \in Int /\ b % n \in 0..(n - 1) /\ b = n * (b \div n) + (b % n)
      BY <2>1, Quotient
    <2>3. QED
      BY <2>2 DEF b, n
  <1>4. \A k \in Axes : m[k] = IF Periodic[k] THEN BinAt(t)[k] \div binDim[k] ELSE 0
    <2> TAKE k \in Axes
    <2>1. CellsCrossed(BinAt(t)[k], binDim[k]) = BinAt(t)[k] \div binDim[k]
      BY <1>2, CrossedIsQuotient
    <2>2. QED
      BY <2>1
  <1>5. \A k \in Axes : m[k] \in Int
    BY <1>3, <1>4
  <1>6. m \in Vectors
    BY <1>5 DEF Vectors
  <1>7. InBox(BinIn(t, m), binDim)
    <2> SUFFICES ASSUME NEW k \in Axes PROVE BinAt(t)[k] - m[k] * binDim[k] \in 0..(binDim[k] - 1)
      BY DEF InBox, BinIn
    <2> DEFINE b == BinAt(t)[k]
               n == binDim[k]
               q == b \div n
               r == b % n
    <2>1. b \in Int /\ n \in Nat \ {0} /\ q \in Int /\ r \in 0..(n - 1) /\ b = n * q + r
      BY <1>2, <1>3
    <2>2. CASE Periodic[k]
      <3>1. m[k] = q
        BY <1>4, <2>2
      <3> HIDE DEF b, n, q, r
      <3>2. q * n = n * q /\ n * q \in Int
        BY <2>1
      <3>3. b - q * n = r
        <4> DEFINE y == n * q
        <4> HIDE DEF y
        <4> QED BY <2>1, <3>2 DEF y
      <3>4. QED
        BY <2>1, <3>1, <3>3 DEF b, n
    <2>3. CASE ~Periodic[k]
      <3>1. m[k] = 0 /\ b \in 0..(n - 1)
        BY <1>4, <2>3
      <3> HIDE DEF b, n
      <3>2. b - 0 * n = b
        BY <2>1
      <3>3. QED
        BY <3>1, <3>2 DEF b, n
    <2>4. QED
      BY <2>2, <2>3
  <1>8. m = [k \in Axes |-> Byte(m[k])]
    <2>1. \A k \in Axes : Byte(m[k]) = m[k]
      BY CellType, ByteKeeps DEF FitsByte
    <2>2. DOMAIN m = Axes
      OBVIOUS
    <2>3. QED
      BY <1>6, <2>1 DEF Vectors
  <1>9. QED
    BY <1>4, <1>6, <1>7, <1>8 DEF Crosses

\* Where no bin is opened, the query stands as it was, but for its pc and the next offset.
LEMMA StandsStill ==
  ASSUME FinderInv, query.pc # "none", UNCHANGED <<given, prepares, prepared>>,
         query.cursor = query.end \/ query'.iter = query.iter,
         query' \in Queries,
         query'.center = query.center, query'.at = query.at, query'.bin = query.bin,
         query'.cursor = query.cursor, query'.end = query.end,
         query'.shift = query.shift, query'.shifted = query.shifted, query'.found = query.found,
         \/ query'.iter = query.iter
         \/ query'.iter = query.iter + 1 /\ query.iter <= Len(stencil)
  PROVE  FinderInv'
  <1>1. /\ PreparedInv /\ prepares > 0 /\ query \in Queries /\ PlacedInv /\ OpenInv /\ FoundInv
        /\ stencil \in Seq(Vectors)
    BY QueryOpen
  <1>2. /\ PreparedInv' /\ Axes' = Axes /\ Vectors' = Vectors /\ Queries' = Queries /\ Side' = Side
        /\ prepares' = prepares
    BY <1>1, SameTables
  <1>3. /\ binStart' = binStart /\ binDim' = binDim /\ stencil' = stencil /\ particles' = particles
    BY DEF prepared
  <1>4. Continues
    BY DEF Continues
  <1>5. query.cursor \in Nat /\ query.end \in 0..Particles /\ query.iter \in Nat /\ Len(stencil) \in Nat
    BY <1>1 DEF Queries
  <1>6. PlacedInv'
    <2>1. query'.iter \in 1..(Len(stencil) + 1)
      BY <1>1, <1>5 DEF PlacedInv
    <2>2. QED
      BY <1>1, <1>2, <1>3, <2>1 DEF PlacedInv
  <1>7. OpenInv'
    <2>1. CASE query.cursor = query.end
      BY <1>5, <2>1 DEF OpenInv
    <2>2. CASE query'.iter = query.iter
      <3>1. SUFFICES ASSUME query.cursor < query.end PROVE OpenInv'
        BY DEF OpenInv
      <3> DEFINE t == query.iter - 1
                 f == FlatAt(t, query.shift)
      <3>2. (query.iter - 1)' = t /\ query'.shift = query.shift
        BY <2>2
      <3>3. (Crosses(t, query.shift)' <=> Crosses(t, query.shift)) /\ FlatAt(t, query.shift)' = f
        <4> HIDE DEF t
        <4>1. \A u, m : (Crosses(u, m)' <=> Crosses(u, m)) /\ FlatAt(u, m)' = FlatAt(u, m)
          BY <1>4, SameVisits
        <4>2. t' = t
          BY <3>2 DEF t
        <4>3. QED
          BY <3>2, <4>1, <4>2
      <3>4. /\ query.iter > 1 /\ Crosses(t, query.shift)
            /\ query.shifted = [k \in Axes |-> query.at[k] - query.shift[k] * Side[k]]
            /\ binStart[f] <= query.cursor /\ query.end = binStart[f + 1]
        BY <1>1, <3>1 DEF OpenInv
      <3>5. FlatAt(query.iter - 1, query.shift)' = f /\ Crosses(query.iter - 1, query.shift)'
        BY <3>2, <3>3, <3>4
      <3> HIDE DEF f
      <3>6. QED
        BY <1>2, <1>3, <2>2, <3>4, <3>5 DEF OpenInv
    <2>3. QED
      BY <2>1, <2>2
  <1>8. FoundInv'
    <2>1. query'.cursor >= query.cursor /\ query'.cursor \in Nat
      BY <1>5
    <2>2. QED
      BY <1>4, <2>1, StillFound
  <1>9. QED
    BY <1>1, <1>2, <1>6, <1>7, <1>8 DEF FinderInv, QueryInv

LEMMA NextBinKeeps ==
  ASSUME FinderInv, NextBin
  PROVE  FinderInv'
  <1> DEFINE t == query.iter
             bin == [k \in Axes |-> query.bin[k] + stencil[query.iter][k]]
             m == [k \in Axes |-> IF Periodic[k] THEN CellsCrossed(bin[k], binDim[k]) ELSE 0]
             flat == FlatBin([k \in Axes |-> bin[k] - m[k] * binDim[k]], binDim)
  <1>1. /\ query.pc = "scan" /\ query.cursor = query.end /\ query.iter <= Len(stencil)
        /\ UNCHANGED <<given, prepares, prepared>>
    BY DEF NextBin
  <1>2. \/ query' = [query EXCEPT !.pc = "thrown"]
        \/ query' = [query EXCEPT !.iter = @ + 1]
        \/ /\ \A k \in Axes : /\ ~(~Periodic[k] /\ bin[k] \notin 0..(binDim[k] - 1))
                              /\ FitsByte(m[k])
           /\ query' = [query EXCEPT !.iter = @ + 1,
                          !.shift = [k \in Axes |-> Byte(m[k])],
                          !.shifted = [k \in Axes |-> query.at[k] - m[k] * Side[k]],
                          !.cursor = binStart[flat], !.end = binStart[flat + 1]]
    BY DEF NextBin
  <1>3. bin = BinAt(t) /\ [k \in Axes |-> bin[k] - m[k] * binDim[k]] = BinIn(t, m)
    BY Zenon DEF BinAt, BinIn
  <1>4. m = [k \in Axes |-> IF Periodic[k] THEN CellsCrossed(BinAt(t)[k], binDim[k]) ELSE 0]
    BY <1>3
  <1>5. flat = FlatAt(t, m)
    BY <1>3 DEF FlatAt
  <1>6. /\ PreparedInv /\ prepares > 0 /\ query \in Queries /\ PlacedInv /\ OpenInv /\ FoundInv
        /\ cell \in Cells /\ binDim \in Counts /\ stencil \in Seq(Vectors)
    BY <1>1, QueryOpen
  <1> HIDE DEF bin, m, flat
  <1>7. /\ query.iter \in 1..Len(stencil) /\ query.iter \in Nat /\ query.bin \in Vectors
        /\ query.at \in Vectors /\ Len(stencil) \in Nat
    BY <1>1, <1>6 DEF Queries, PlacedInv
  <1>8. CASE query' = [query EXCEPT !.pc = "thrown"]
    <2>1. /\ query' \in Queries
          /\ query'.center = query.center /\ query'.at = query.at /\ query'.bin = query.bin
          /\ query'.cursor = query.cursor /\ query'.end = query.end /\ query'.iter = query.iter
          /\ query'.shift = query.shift /\ query'.shifted = query.shifted /\ query'.found = query.found
      BY <1>6, <1>8 DEF Queries
    <2>2. QED
      BY <1>1, <2>1, StandsStill
  <1>9. CASE query' = [query EXCEPT !.iter = @ + 1]
    <2>1. /\ query' \in Queries
          /\ query'.center = query.center /\ query'.at = query.at /\ query'.bin = query.bin
          /\ query'.cursor = query.cursor /\ query'.end = query.end /\ query'.iter = query.iter + 1
          /\ query'.shift = query.shift /\ query'.shifted = query.shifted /\ query'.found = query.found
      <3>1. query.iter + 1 \in Nat
        BY <1>7
      <3>2. QED
        BY <1>6, <1>9, <3>1 DEF Queries
    <2>2. QED
      BY <1>1, <2>1, StandsStill
  <1>10. ASSUME \A k \in Axes : /\ ~(~Periodic[k] /\ bin[k] \notin 0..(binDim[k] - 1))
                                /\ FitsByte(m[k]),
                query' = [query EXCEPT !.iter = @ + 1,
                            !.shift = [k \in Axes |-> Byte(m[k])],
                            !.shifted = [k \in Axes |-> query.at[k] - m[k] * Side[k]],
                            !.cursor = binStart[flat], !.end = binStart[flat + 1]]
         PROVE  FinderInv'
    <2>1. m \in Vectors /\ Crosses(t, m) /\ m = [k \in Axes |-> Byte(m[k])]
      <3>1. \A k \in Axes : FitsByte(m[k]) /\ (Periodic[k] \/ BinAt(t)[k] \in 0..(binDim[k] - 1))
        <4>1. \A k \in Axes : Periodic[k] \/ bin[k] \in 0..(binDim[k] - 1)
          BY <1>10
        <4>2. QED
          BY <1>3, <1>10, <4>1
      <3>2. QED
        BY <1>4, <1>6, <1>7, <3>1, CellsCounted
    <2>2. BinIn(t, m) \in Vectors /\ InBox(BinIn(t, m), binDim)
      BY <1>6, <1>7, <2>1, BinInType DEF Crosses
    <2>3. flat \in 0..(ProductOver(binDim) - 1) /\ ProductOver(binDim) \in Nat
      BY <1>5, <1>6, <2>2, FlatInArray DEF FlatAt, Vectors
    <2>4. /\ binStart[flat] \in 0..Particles /\ binStart[flat + 1] \in 0..Particles
          /\ binStart[flat] <= binStart[flat + 1]
      <3>1. /\ binStart \in [0..ProductOver(binDim) -> 0..Particles]
            /\ \A b, c \in 0..ProductOver(binDim) : b <= c => binStart[b] <= binStart[c]
        BY <1>6 DEF PreparedInv, BinsInv
      <3>2. flat \in 0..ProductOver(binDim) /\ flat + 1 \in 0..ProductOver(binDim) /\ flat <= flat + 1
        BY <2>3
      <3>3. QED
        BY <3>1, <3>2
    <2> DEFINE shifted == [k \in Axes |-> query.at[k] - m[k] * Side[k]]
    <2>5. shifted \in Vectors
      BY <1>6, <1>7, <2>1, VectorDifference
    <2>6. query' = [query EXCEPT !.iter = @ + 1, !.shift = m, !.shifted = shifted,
                      !.cursor = binStart[flat], !.end = binStart[flat + 1]]
      BY <1>10, <2>1
    <2>7. /\ query' \in Queries
          /\ query'.center = query.center /\ query'.at = query.at /\ query'.bin = query.bin
          /\ query'.cursor = binStart[flat] /\ query'.end = binStart[flat + 1]
          /\ query'.iter = query.iter + 1
          /\ query'.shift = m /\ query'.shifted = shifted /\ query'.found = query.found
      <3> HIDE DEF shifted
      <3>1. query.iter + 1 \in Nat /\ binStart[flat] \in Nat
        BY <1>7, <2>4
      <3>2. QED
        BY <1>6, <2>1, <2>4, <2>5, <2>6, <3>1 DEF Queries
    <2>8. Continues
      BY <1>1, <2>7 DEF Continues
    <2>9. /\ PreparedInv' /\ Axes' = Axes /\ Vectors' = Vectors /\ Queries' = Queries /\ Side' = Side
          /\ prepares' = prepares
      BY <1>1, <1>6, SameTables
    <2>10. /\ binStart' = binStart /\ binDim' = binDim /\ stencil' = stencil /\ particles' = particles
      BY <1>1 DEF prepared
    <2>11. PlacedInv'
      <3>1. query'.iter \in 1..(Len(stencil) + 1)
        BY <1>7, <2>7
      <3>2. QED
        BY <1>6, <2>4, <2>7, <2>9, <2>10, <3>1 DEF PlacedInv
    <2>12. OpenInv'
      <3>1. PICK u : u = query.iter
        OBVIOUS
      <3>2. PICK v : v = m
        OBVIOUS
      <3>3. Crosses(query.iter - 1, query.shift)' /\ FlatAt(query.iter - 1, query.shift)' = flat
        <4>1. (Crosses(u, v)' <=> Crosses(u, v)) /\ FlatAt(u, v)' = FlatAt(u, v)
          BY <2>8, SameVisits
        <4>2. (query.iter - 1)' = u /\ query'.shift = v
          BY <1>7, <2>7, <3>1, <3>2
        <4>3. Crosses(u, v) /\ FlatAt(u, v) = flat
          BY <1>5, <2>1, <3>1, <3>2
        <4>4. QED
          BY <4>1, <4>2, <4>3
      <3>4. query'.iter > 1 /\ binStart[flat] <= binStart[flat]
        BY <1>7, <2>4, <2>7
      <3>5. query'.shifted = [k \in Axes |-> query'.at[k] - query'.shift[k] * Side[k]]
        BY <2>7
      <3> HIDE DEF shifted
      <3>6. QED
        BY <2>7, <2>9, <2>10, <3>3, <3>4, <3>5 DEF OpenInv
    <2>13. FoundInv'
      BY <1>1, <2>7, <2>8, StillFound
    <2>14. QED
      BY <1>6, <2>7, <2>9, <2>11, <2>12, <2>13 DEF FinderInv, QueryInv
  <1>11. QED
    BY <1>2, <1>8, <1>9, <1>10

LEMMA ReturnKeeps ==
  ASSUME FinderInv, ReachEnd \/ CallNext
  PROVE  FinderInv'
  <1>1. /\ query.pc # "none" /\ UNCHANGED <<given, prepares, prepared>>
        /\ \/ query' = [query EXCEPT !.pc = "end"]
           \/ query' = [query EXCEPT !.pc = "scan"]
    BY DEF ReachEnd, CallNext
  <1>2. query \in Queries
    BY <1>1, QueryOpen
  <1>3. /\ query' \in Queries
        /\ query'.center = query.center /\ query'.at = query.at /\ query'.bin = query.bin
        /\ query'.cursor = query.cursor /\ query'.end = query.end /\ query'.iter = query.iter
        /\ query'.shift = query.shift /\ query'.shifted = query.shifted /\ query'.found = query.found
    BY <1>1, <1>2 DEF Queries
  <1>4. QED
    BY <1>1, <1>3, StandsStill

LEMMA FinderInvHolds == Spec => []FinderInv
  <1>1. Init => FinderInv
    BY InitPrepared DEF FinderInv, QueryInv, Init
  <1>2. FinderInv /\ [Next]_vars => FinderInv'
    <2> SUFFICES ASSUME FinderInv, [Next]_vars PROVE FinderInv'
      OBVIOUS
    <2>1. CASE Prepare
      <3>1. PreparedInv'
        BY <2>1, PrepareKeeps DEF FinderInv
      <3>2. query' = NoQuery
        BY <2>1 DEF Prepare
      <3>3. NoQuery' = NoQuery
        BY DEF NoQuery
      <3>4. QED
        BY <3>1, <3>2, <3>3 DEF FinderInv, QueryInv
    <2>2. ASSUME NEW i \in Index, NewQuery(i) PROVE FinderInv'
      BY <2>2, NewQueryKeeps
    <2>3. CASE ScanParticle
      BY <2>3, ScanKeeps
    <2>4. CASE NextBin
      BY <2>4, NextBinKeeps
    <2>5. CASE ReachEnd \/ CallNext
      BY <2>5, ReturnKeeps
    <2>6. CASE UNCHANGED vars
      <3>1. UNCHANGED <<given, prepares, prepared>> /\ query' = query
        BY <2>6 DEF vars
      <3>2. CASE query = NoQuery
        <4>1. PreparedInv'
          BY <3>1, SameTables DEF FinderInv
        <4>2. NoQuery' = NoQuery
          BY DEF NoQuery
        <4>3. QED
          BY <3>1, <3>2, <4>1, <4>2 DEF FinderInv, QueryInv
      <3>3. CASE query # NoQuery
        <4>1. query \in Queries
          BY <3>3 DEF FinderInv, QueryInv
        <4>2. query.pc # "none"
          BY <4>1 DEF Queries
        <4>3. QED
          BY <3>1, <4>1, <4>2, StandsStill
      <3>4. QED
        BY <3>2, <3>3
    <2>7. QED
      BY <2>1, <2>2, <2>3, <2>4, <2>5, <2>6 DEF Next
  <1>3. QED
    BY <1>1, <1>2, PTL DEF Spec

-----------------------------------------------------------------------------
(* What a query returns *)

\* Cursors stay inside the arrays and periodic particles inside the cell, whatever the
\* cell, the cutoff and the positions: the bins that prepare() wraps particles into and
\* those that next() wraps to are bins of the array.
THEOREM TypeCorrect == Spec => []TypeOK
  <1>1. FinderInv => TypeOK
    <2> SUFFICES ASSUME FinderInv PROVE TypeOK
      OBVIOUS
    <2>1. cell \in Cells /\ prepares \in 0..MaxPrepares /\ place \in [Index -> Spots] /\ ParticlesInv
      BY DEF FinderInv, PreparedInv, GivenInv
    <2>2. \A i \in DOMAIN particles, k \in Axes : Periodic[k] => particles[i].pos[k] \in 0..Side[k]
      <3>1. CASE prepares = 0
        <4>1. DOMAIN particles = {}
          BY <2>1, <3>1 DEF ParticlesInv
        <4>2. QED
          BY <4>1
      <3>2. CASE prepares # 0
        <4> SUFFICES ASSUME NEW i \in DOMAIN particles, NEW k \in Axes, Periodic[k]
                     PROVE  particles[i].pos[k] \in 0..Side[k]
          OBVIOUS
        <4>1. i \in Index
          BY <2>1, <3>2 DEF ParticlesInv
        <4>2. PICK a \in Wraps(cell, k, place[i][k]) : IsMoved(i, k, a)
          BY <2>1, <3>2, <4>1 DEF ParticlesInv
        <4>3. place[i][k] + a * Side[k] \in 0..Side[k]
          BY DEF Wraps, Periodic, Side
        <4>4. QED
          BY <4>2, <4>3 DEF IsMoved
      <3>3. QED
        BY <3>1, <3>2
    <2>3. CASE query = NoQuery
      BY <2>1, <2>2, <2>3 DEF TypeOK, Started, NoQuery
    <2>4. CASE query # NoQuery
      <3>1. query \in Queries /\ PlacedInv
        BY <2>4 DEF FinderInv, QueryInv
      <3>2. query.cursor \in 0..query.end
        BY <3>1 DEF Queries, PlacedInv
      <3>3. QED
        BY <2>1, <2>2, <3>1, <3>2 DEF TypeOK, Queries, PlacedInv
    <2>5. QED
      BY <2>3, <2>4
  <1>2. QED
    BY <1>1, FinderInvHolds, PTL

\* The images that a query can tell apart: of one particle, two crossings that fit a byte.
LEMMA ImageTellsCells ==
  ASSUME ByteMax \in Nat, NEW a \in Int, NEW b \in Int, FitsByte(a), FitsByte(b),
         NEW c \in Int, NEW d \in Int, Byte(a - c + d) = Byte(b - c + d)
  PROVE  a = b
  <1> DEFINE w == 2 * (ByteMax + 1)
             x == a - c + d
             y == b - c + d
  <1>1. w \in Nat \ {0} /\ x \in Int /\ y \in Int /\ x - y = a - b
    OBVIOUS
  <1>2. PICK p \in Int : x = Byte(x) + w * p
    BY <1>1, ByteType
  <1>3. PICK q \in Int : y = Byte(y) + w * q
    BY <1>1, ByteType
  <1>4. Byte(x) = Byte(y) /\ Byte(x) \in Int
    BY <1>1, ByteType
  <1> DEFINE r == a + ByteMax + 1
             s == b + ByteMax + 1
  <1>5. r \in 0..(w - 1) /\ s \in 0..(w - 1) /\ r - s = a - b
    BY DEF FitsByte
  <1> HIDE DEF w, x, y, r, s
  <1>6. w * p \in Int /\ w * q \in Int
    BY <1>1
  <1>7. w * q + r = w * p + s
    <2> DEFINE wp == w * p
               wq == w * q
    <2>1. r \in Int /\ s \in Int
      BY <1>1, <1>5
    <2> HIDE DEF wp, wq
    <2>2. QED
      BY <1>1, <1>2, <1>3, <1>4, <1>5, <1>6, <2>1 DEF wp, wq
  <1>8. r = s
    BY <1>1, <1>5, <1>7, QuotientUnique
  <1>9. QED
    BY <1>5, <1>8

\* After one prepare(), a particle is met once for each of its images.
LEMMA VisitsOnce ==
  ASSUME PreparedInv, prepares = 1, query \in Queries,
         NEW t \in 1..Len(stencil), NEW m \in Vectors, NEW p \in 1..Particles, Visits(t, m, p),
         NEW u \in 1..Len(stencil), NEW l \in Vectors, NEW q \in 1..Particles, Visits(u, l, q),
         binnedIndices[p] = binnedIndices[q],
         Unwrapped(query.center, binnedIndices[p], m) = Unwrapped(query.center, binnedIndices[p], l)
  PROVE  t = u /\ p = q
  <1>1. /\ cell \in Cells /\ binDim \in Counts /\ stencil \in Seq(Vectors) /\ ByteMax \in Nat
        /\ query.bin \in Vectors /\ query.center \in Index
        /\ particles \in [Index -> [pos : Vectors, shift : Vectors]]
    BY CellType DEF PreparedInv, GivenInv, StencilInv, ParticlesInv, BinsInv, Queries
  <1>2. /\ binStart \in [0..ProductOver(binDim) -> 0..Particles]
        /\ \A b, c \in 0..ProductOver(binDim) : b <= c => binStart[b] <= binStart[c]
        /\ binnedIndices \in [1..Particles -> Index]
        /\ \A g, h \in 1..Particles : binnedIndices[g] = binnedIndices[h] => g = h
    BY DEF PreparedInv, BinsInv
  <1>3. p = q
    BY <1>2
  <1>4. m = l
    <2> DEFINE j == binnedIndices[p]
    <2>1. j \in Index
      BY <1>2
    <2>2. Unwrapped(query.center, j, m) = Unwrapped(query.center, j, l)
      OBVIOUS
    <2> HIDE DEF j
    <2>3. ASSUME NEW k \in Axes PROVE m[k] = l[k]
      <3> DEFINE c == particles[query.center].shift[k]
                 d == particles[j].shift[k]
      <3>1. c \in Int /\ d \in Int
        <4>1. particles[query.center].shift \in Vectors /\ particles[j].shift \in Vectors
          BY <1>1, <2>1
        <4>2. QED
          BY <4>1 DEF Vectors
      <3>2. Byte(m[k] - c + d) = Byte(l[k] - c + d)
        <4>1. Unwrapped(query.center, j, m)[k] = Unwrapped(query.center, j, l)[k]
          BY <2>2
        <4>2. QED
          BY <4>1 DEF Unwrapped
      <3>3. m[k] \in Int /\ l[k] \in Int /\ FitsByte(m[k]) /\ FitsByte(l[k])
        BY DEF Vectors, Visits, Crosses
      <3> HIDE DEF c, d
      <3>4. QED
        BY <1>1, <3>1, <3>2, <3>3, ImageTellsCells
    <2>4. QED
      BY <2>3 DEF Vectors
  <1> DEFINE f == FlatAt(t, m)
             g == FlatAt(u, l)
             N == ProductOver(binDim)
  <1>5. /\ BinIn(t, m) \in Vectors /\ InBox(BinIn(t, m), binDim)
        /\ BinIn(u, l) \in Vectors /\ InBox(BinIn(u, l), binDim)
    BY <1>1, BinInType DEF Visits, Crosses
  <1>6. f \in 0..(N - 1) /\ g \in 0..(N - 1) /\ N \in Nat
    BY <1>1, <1>5, FlatInArray DEF FlatAt, Vectors
  <1>7. /\ binStart[f] < p /\ p <= binStart[f + 1] /\ binStart[g] < p /\ p <= binStart[g + 1]
    BY <1>3 DEF Visits
  <1>8. f = g
    <2> HIDE DEF f, g, N
    <2>1. \A b \in 0..ProductOver(binDim) : binStart[b] \in Int
      BY <1>2
    <2>2. p \in Int
      BY LimitsAssumption
    <2>3. /\ f \in 0..N /\ g \in 0..N /\ f + 1 \in 0..N /\ g + 1 \in 0..N
      BY <1>6
    <2>4. ~(f < g)
      <3>1. SUFFICES ASSUME f < g PROVE FALSE
        OBVIOUS
      <3>2. f + 1 <= g
        BY <1>6, <3>1
      <3>3. binStart[f + 1] <= binStart[g]
        BY <1>2, <2>3, <3>2 DEF N
      <3>4. QED
        BY <1>7, <2>1, <2>2, <2>3, <3>3 DEF N
    <2>5. ~(g < f)
      <3>1. SUFFICES ASSUME g < f PROVE FALSE
        OBVIOUS
      <3>2. g + 1 <= f
        BY <1>6, <3>1
      <3>3. binStart[g + 1] <= binStart[f]
        BY <1>2, <2>3, <3>2 DEF N
      <3>4. QED
        BY <1>7, <2>1, <2>2, <2>3, <3>3 DEF N
    <2>6. QED
      BY <1>6, <2>4, <2>5
  <1>9. BinIn(t, m) = BinIn(u, m)
    BY <1>1, <1>4, <1>5, <1>8, FlatInjective DEF FlatAt, Vectors
  <1>10. stencil[t] = stencil[u]
    <2>1. stencil[t] \in Vectors /\ stencil[u] \in Vectors
      BY <1>1
    <2>2. ASSUME NEW k \in Axes PROVE stencil[t][k] = stencil[u][k]
      <3> DEFINE x == stencil[t][k]
                 y == stencil[u][k]
                 b == query.bin[k]
                 z == m[k] * binDim[k]
      <3>1. x \in Int /\ y \in Int /\ b \in Int /\ m[k] \in Int /\ binDim[k] \in Int
        BY <1>1, <2>1 DEF Vectors, Counts
      <3>2. z \in Int
        BY <3>1
      <3>3. BinIn(t, m)[k] = b + x - z /\ BinIn(u, m)[k] = b + y - z
        <4>1. BinAt(t)[k] = b + x /\ BinAt(u)[k] = b + y
          BY Zenon DEF BinAt
        <4>2. BinIn(t, m)[k] = BinAt(t)[k] - z /\ BinIn(u, m)[k] = BinAt(u)[k] - z
          BY Zenon DEF BinIn
        <4> HIDE DEF x, y, b, z
        <4>3. QED
          BY <3>1, <3>2, <4>1, <4>2
      <3> HIDE DEF x, y, b, z
      <3>4. x = y
        BY <1>9, <3>1, <3>2, <3>3
      <3>5. QED
        BY <3>4 DEF x, y
    <2>3. QED
      BY <2>1, <2>2 DEF Vectors
  <1>11. QED
    BY <1>3, <1>10 DEF PreparedInv, StencilInv

\* After one prepare() a query returns no particle twice with the same image, for any cell,
\* periodic or not, any bins and any order in which the offsets lead around the sides.
THEOREM FindsOnce == Spec => []FindsEachOnce
  <1>1. Init => FindsEachOnce
    BY DEF Init, FindsEachOnce
  <1>2. FinderInv /\ FindsEachOnce /\ [Next]_vars => FindsEachOnce'
    <2> SUFFICES ASSUME FinderInv, FindsEachOnce, [Next]_vars PROVE FindsEachOnce'
      OBVIOUS
    <2>1. CASE Prepare
      <3>1. query'.pc = "none"
        BY <2>1 DEF Prepare, NoQuery
      <3>2. QED
        BY <3>1 DEF FindsEachOnce, Started
    <2>2. ASSUME NEW i \in Index, NewQuery(i) PROVE FindsEachOnce'
      <3>1. query'.found = <<>>
        BY <2>2 DEF NewQuery
      <3>2. QED
        BY <3>1 DEF FindsEachOnce
    <2>3. CASE NextBin \/ ReachEnd \/ CallNext \/ UNCHANGED vars
      <3>1. prepares' = prepares
        BY <2>3 DEF NextBin, ReachEnd, CallNext, vars
      <3>2. CASE query = NoQuery
        <4>1. query' = query
          BY <2>3, <3>2 DEF NextBin, ReachEnd, CallNext, vars, NoQuery
        <4>2. QED
          BY <3>2, <4>1 DEF FindsEachOnce, Started, NoQuery
      <3>3. CASE query # NoQuery
        <4>1. query \in Queries
          BY <3>3 DEF FinderInv, QueryInv
        <4>2. query.pc # "none"
          BY <4>1 DEF Queries
        <4>3. query'.found = query.found
          BY <2>3, <4>1 DEF NextBin, ReachEnd, CallNext, vars, Queries
        <4>4. QED
          BY <3>1, <4>2, <4>3 DEF FindsEachOnce, Started
      <3>4. QED
        BY <3>2, <3>3
    <2>4. CASE ScanParticle
      <3> SUFFICES ASSUME prepares' = 1 PROVE FindsEachOnce'
        BY DEF FindsEachOnce
      <3>1. /\ query.pc = "scan" /\ query.cursor < query.end /\ prepares = 1
        BY <2>4 DEF ScanParticle
      <3>2. /\ PreparedInv /\ prepares > 0 /\ query \in Queries /\ PlacedInv /\ OpenInv /\ FoundInv
        BY <3>1, QueryOpen
      <3> DEFINE idx == binnedIndices[query.cursor + 1]
                 delta == [k \in Axes |-> particles[idx].pos[k] - query.shifted[k]]
                 e == [index |-> idx, delta |-> delta,
                       image |-> Unwrapped(query.center, idx, query.shift)]
                 old == query.found
      <3>3. e \in Entries /\ FoundAt(e, query.iter - 1, query.shift, query.cursor + 1)
        BY <2>4, <3>1, EntryFound
      <3>4. /\ query.iter - 1 \in 1..Len(stencil) /\ query.cursor + 1 \in 1..Particles
            /\ query.shift \in Vectors /\ query.cursor \in Nat /\ old \in Seq(Entries)
        BY <3>1, <3>2, OpenBin DEF Queries
      <3>5. query'.found = old \/ query'.found = Append(old, e)
        BY <2>4, <3>2 DEF ScanParticle, Queries
      <3>6. \A a, b \in 1..Len(old) : a # b =>
              <<old[a].index, old[a].image>> # <<old[b].index, old[b].image>>
        BY <3>1 DEF FindsEachOnce, Started
      <3> HIDE DEF e, old
      <3>7. ASSUME NEW n \in 1..Len(old), old[n].index = e.index, old[n].image = e.image
            PROVE  FALSE
        <4>1. PICK t \in 1..(query.iter - 1), m \in Vectors, p \in 1..Particles :
                /\ FoundAt(old[n], t, m, p)
                /\ t = query.iter - 1 => p <= query.cursor
          BY <3>2 DEF FoundInv, old
        <4>2. t \in 1..Len(stencil)
          BY <3>2, <3>4 DEF PreparedInv, StencilInv
        <4> DEFINE h == query.iter - 1
                   c == query.cursor + 1
                   l == query.shift
        <4>3. /\ h \in 1..Len(stencil) /\ c \in 1..Particles /\ l \in Vectors
              /\ Visits(h, l, c) /\ e.index = binnedIndices[c]
              /\ e.image = Unwrapped(query.center, e.index, l)
          BY <3>3, <3>4 DEF FoundAt
        <4>4. /\ Visits(t, m, p) /\ e.index = binnedIndices[p]
              /\ e.image = Unwrapped(query.center, e.index, m)
          BY <3>7, <4>1 DEF FoundAt
        <4> HIDE DEF h, c, l
        <4>5. t = h /\ p = c
          BY <3>1, <3>2, <4>2, <4>3, <4>4, VisitsOnce
        <4>6. QED
          BY <3>4, <4>1, <4>5 DEF h, c
      <3>8. \A a, b \in 1..Len(query'.found) : a # b =>
              <<query'.found[a].index, query'.found[a].image>>
                # <<query'.found[b].index, query'.found[b].image>>
        <4>1. CASE query'.found = old
          BY <3>6, <4>1
        <4>2. CASE query'.found = Append(old, e)
          <5> DEFINE new == query'.found
          <5>1. /\ Len(new) = Len(old) + 1 /\ Len(old) \in Nat
                /\ \A n \in 1..Len(old) : new[n] = old[n]
                /\ new[Len(old) + 1] = e
            BY <3>3, <3>4, <4>2
          <5> SUFFICES ASSUME NEW a \in 1..Len(new), NEW b \in 1..Len(new), a # b,
                              new[a].index = new[b].index, new[a].image = new[b].image
                       PROVE  FALSE
            OBVIOUS
          <5> HIDE DEF new
          <5>2. a \in 1..Len(old) \/ a = Len(old) + 1
            BY <5>1
          <5>3. b \in 1..Len(old) \/ b = Len(old) + 1
            BY <5>1
          <5>4. CASE a \in 1..Len(old) /\ b \in 1..Len(old)
            BY <3>6, <5>1, <5>4
          <5>5. CASE a \in 1..Len(old) /\ b = Len(old) + 1
            BY <3>7, <5>1, <5>5
          <5>6. CASE a = Len(old) + 1 /\ b \in 1..Len(old)
            BY <3>7, <5>1, <5>6
          <5>7. QED
            BY <5>2, <5>3, <5>4, <5>5, <5>6
        <4>3. QED
          BY <3>5, <4>1, <4>2
      <3>9. QED
        BY <3>8 DEF FindsEachOnce
    <2>5. QED
      BY <2>1, <2>2, <2>3, <2>4 DEF Next
  <1>3. QED
    BY <1>1, <1>2, FinderInvHolds, PTL DEF Spec

\* The stencil leads no more cells away than it has shells.
LEMMA CellsCrossedBound ==
  ASSUME NEW n \in Nat \ {0}, NEW b \in 0..n, NEW o \in Steps
  PROVE  (b + o) \div n \in (-StencilLimit)..StencilLimit
  <1> DEFINE L == StencilLimit
             x == b + o
             q == x \div n
             r == x % n
  <1>1. L \in Nat /\ o \in Int /\ o <= L - 1 /\ o >= 1 - L /\ x \in Int
    BY LimitsAssumption DEF Steps
  <1>2. q \in Int /\ r \in 0..(n - 1) /\ x = n * q + r
    <2> HIDE DEF x
    <2> QED BY <1>1, Quotient
  <1>3. x <= n + L - 1 /\ x >= 1 - L /\ L >= 1
    BY <1>1
  <1> HIDE DEF x, q, r, L
  <1>4. ~(q >= L + 1)
    <2> SUFFICES ASSUME q >= L + 1 PROVE FALSE
      OBVIOUS
    <2>1. n * q >= n * (L + 1)
      BY <1>1, <1>2
    <2>2. n * (L + 1) = n * L + n /\ n * L >= L /\ n * L \in Int
      BY <1>1, <1>3
    <2>3. n * q \in Int
      BY <1>2
    <2>4. QED
      <3> DEFINE nq == n * q
                 nL == n * L
      <3> HIDE DEF nq, nL
      <3> QED BY <1>1, <1>2, <1>3, <2>1, <2>2, <2>3 DEF nq, nL
  <1>5. ~(q <= -L - 1)
    <2> SUFFICES ASSUME q <= -L - 1 PROVE FALSE
      OBVIOUS
    <2>1. n * (q + 1) <= n * (-L)
      BY <1>1, <1>2
    <2>2. n * (q + 1) = n * q + n /\ n * (-L) = -(n * L) /\ n * L >= L /\ n * L \in Int
      BY <1>1, <1>2, <1>3
    <2>3. n * q \in Int
      BY <1>2
    <2>4. QED
      <3> DEFINE nq == n * q
                 nL == n * L
      <3> HIDE DEF nq, nL
      <3> QED BY <1>1, <1>2, <1>3, <2>1, <2>2, <2>3 DEF nq, nL
  <1>6. QED
    BY <1>1, <1>2, <1>4, <1>5 DEF L, q, x

\* A sum of shifts may be taken from what an int8_t kept of them.
LEMMA ByteOfSum ==
  ASSUME ByteMax \in Nat, NEW m \in Int, NEW a \in Int, NEW b \in Int
  PROVE  Byte(m - Byte(a) + Byte(b)) = Byte(m - a + b)
  <1> DEFINE w == 2 * (ByteMax + 1)
  <1>1. PICK p \in Int : a = Byte(a) + w * p
    BY ByteType
  <1>2. PICK q \in Int : b = Byte(b) + w * q
    BY ByteType
  <1>3. Byte(a) \in Int /\ Byte(b) \in Int /\ w \in Int
    BY ByteType
  <1> DEFINE x == m - Byte(a) + Byte(b)
             y == m - a + b
  <1>4. x \in Int /\ y \in Int /\ p - q \in Int
    BY <1>3
  <1>5. x = y + w * (p - q)
    <2> HIDE DEF w
    <2>1. w * (p - q) = w * p - w * q /\ w * p \in Int /\ w * q \in Int
      BY <1>3
    <2>2. QED
      <3> DEFINE wp == w * p
                 wq == w * q
      <3> HIDE DEF wp, wq
      <3> QED BY <1>1, <1>2, <1>3, <2>1 DEF wp, wq
  <1> HIDE DEF x, y
  <1>6. Byte(x) = Byte(y)
    BY <1>4, <1>5, ByteSame
  <1>7. QED
    BY <1>6 DEF x, y

LEMMA FoundSeparation ==
  ASSUME ImagesFit, FinderInv, query.pc # "none",
         NEW e \in Entries, NEW t \in 1..Len(stencil), NEW m \in Vectors, NEW p, FoundAt(e, t, m, p)
  PROVE  e.delta = Separation(query.center, e.index, e.image)
  <1>1. /\ PreparedInv /\ prepares > 0 /\ query \in Queries /\ PlacedInv
        /\ cell \in Cells /\ binDim \in Counts /\ stencil \in Seq(Vectors) /\ ByteMax \in Nat
        /\ place \in [Index -> Spots]
    BY QueryOpen, CellType DEF PreparedInv, GivenInv
  <1> DEFINE i == query.center
             j == e.index
  <1>2. i \in Index /\ j \in Index
    BY <1>1 DEF Queries, Entries
  <1>3. /\ Crosses(t, m) /\ e.image = Unwrapped(i, j, m)
        /\ e.delta = [k \in Axes |-> particles[j].pos[k] - (query.at[k] - m[k] * Side[k])]
        /\ query.at = particles[i].pos
    BY <1>1 DEF FoundAt, Visits, PlacedInv
  <1>4. \A h \in Index, k \in Axes : \E a \in Wraps(cell, k, place[h][k]) : IsMoved(h, k, a)
    BY <1>1 DEF PreparedInv, ParticlesInv
  <1> HIDE DEF i, j
  <1>5. ASSUME NEW k \in Axes
        PROVE  particles[j].pos[k] - (query.at[k] - m[k] * Side[k])
                 = place[j][k] + e.image[k] * Side[k] - place[i][k]
    <2>1. PICK a \in Wraps(cell, k, place[i][k]) : IsMoved(i, k, a)
      BY <1>2, <1>4
    <2>2. PICK b \in Wraps(cell, k, place[j][k]) : IsMoved(j, k, b)
      BY <1>2, <1>4
    <2>3. place[i] \in Spots /\ place[j] \in Spots
      BY <1>1, <1>2
    <2>4. /\ place[i][k] \in Int /\ place[j][k] \in Int /\ Side[k] \in Nat \ {0}
          /\ m[k] \in Int /\ FitsByte(m[k]) /\ Periodic[k] \in BOOLEAN
      BY <1>1, <1>3, <2>3, CellType DEF Vectors, Crosses
    <2>5. a \in Int /\ b \in Int
      <3>1. place[i][k] \div Side[k] \in Int /\ place[j][k] \div Side[k] \in Int
        BY <2>4
      <3>2. QED
        BY <3>1 DEF Wraps, Side
    <2>6. m[k] \in (-StencilLimit)..StencilLimit
      <3>1. CASE Periodic[k]
        <4>1. m[k] = (query.bin[k] + stencil[t][k]) \div binDim[k]
          BY <1>3, <3>1 DEF Crosses, BinAt
        <4>2. /\ query.bin[k] \in 0..binDim[k] /\ binDim[k] \in Nat \ {0}
              /\ stencil[t][k] \in Steps
          BY <1>1 DEF PlacedInv, Counts, PreparedInv, StencilInv
        <4>3. QED
          BY <4>1, <4>2, CellsCrossedBound
      <3>2. CASE ~Periodic[k]
        BY <1>3, <3>2, LimitsAssumption DEF Crosses
      <3>3. QED
        BY <3>1, <3>2
    <2>7. m[k] - a + b \in (-ByteMax - 1)..ByteMax
      <3>1. \A u \in Wraps(cell, k, place[i][k]), v \in Wraps(cell, k, place[j][k]) :
              \A l \in (-StencilLimit)..StencilLimit :
                l \in (-cell.byteMax - 1)..cell.byteMax => l - u + v \in (-cell.byteMax - 1)..cell.byteMax
        <4>1. k \in DOMAIN cell.side /\ place[i] \in cell.spots /\ place[j] \in cell.spots
          BY <2>3 DEF Axes, Side, Spots
        <4>2. QED
          BY <1>1, <4>1 DEF ImagesFit
      <3>2. QED
        BY <2>1, <2>2, <2>4, <2>6, <3>1 DEF FitsByte, ByteMax
    <2>8. e.image[k] = m[k] - a + b
      <3>1. e.image[k] = Byte(m[k] - Byte(a) + Byte(b))
        BY <1>3, <2>1, <2>2 DEF Unwrapped, IsMoved
      <3>2. QED
        BY <1>1, <2>4, <2>5, <2>7, <3>1, ByteOfSum, ByteKeeps
    <2>9. /\ particles[j].pos[k] = place[j][k] + b * Side[k]
          /\ query.at[k] = place[i][k] + a * Side[k]
      BY <1>3, <2>1, <2>2 DEF IsMoved
    <2> DEFINE s == Side[k]
               x == place[i][k]
               y == place[j][k]
               c == m[k]
    <2>10. (c - a + b) * s = c * s - a * s + b * s /\ c * s \in Int /\ a * s \in Int /\ b * s \in Int
      <3>1. c \in Int /\ s \in Int
        BY <2>4
      <3> HIDE DEF c, s
      <3>2. QED
        BY <2>5, <3>1
    <2>11. y + b * s - (x + a * s - c * s) = y + (c - a + b) * s - x
      <3> DEFINE cs == c * s
                 as == a * s
                 bs == b * s
      <3>1. x \in Int /\ y \in Int
        BY <2>4
      <3> HIDE DEF x, y, cs, as, bs
      <3>2. QED
        BY <2>10, <3>1 DEF cs, as, bs
    <2>12. QED
      <3> DEFINE v == particles[j].pos[k]
                 w == query.at[k]
                 z == e.image[k]
      <3>1. x \in Int /\ y \in Int /\ c \in Int /\ s \in Int
        BY <2>4
      <3>2. v = y + b * s /\ w = x + a * s /\ z = c - a + b
        BY <2>8, <2>9
      <3> HIDE DEF v, w, z, c, s, x, y
      <3>3. v - (w - c * s) = y + z * s - x
        BY <2>5, <2>11, <3>1, <3>2
      <3>4. QED
        BY <3>3 DEF v, w, z, c, s, x, y
  <1>6. Separation(i, j, e.image) = [k \in Axes |-> place[j][k] + e.image[k] * Side[k] - place[i][k]]
    BY DEF Separation
  <1>7. QED
    BY <1>3, <1>5, <1>6 DEF i, j

\* Where no particle lies so far outside the cell that an int8_t cannot hold an image, the
\* separation returned is that of the positions the caller gave, for the image returned.
THEOREM DeltaIsThatOfImage == ImagesFit => (Spec => []DeltaMatchesImage)
  <1> SUFFICES ASSUME ImagesFit PROVE Spec => []DeltaMatchesImage
    OBVIOUS
  <1>1. FinderInv => DeltaMatchesImage
    <2> SUFFICES ASSUME FinderInv, Started, NEW n \in 1..Len(query.found)
                 PROVE  query.found[n].delta
                          = Separation(query.center, query.found[n].index, query.found[n].image)
      BY DEF DeltaMatchesImage
    <2>1. query.pc # "none"
      BY DEF Started
    <2>2. query \in Queries /\ PlacedInv /\ FoundInv /\ PreparedInv
      BY <2>1, QueryOpen
    <2>3. query.found[n] \in Entries
      BY <2>2 DEF Queries
    <2>4. PICK t \in 1..(query.iter - 1), m \in Vectors, p \in 1..Particles :
            FoundAt(query.found[n], t, m, p)
      BY <2>2 DEF FoundInv
    <2>5. t \in 1..Len(stencil)
      BY <2>2 DEF PlacedInv, PreparedInv, StencilInv
    <2>6. QED
      BY <2>1, <2>3, <2>4, <2>5, FoundSeparation
  <1>2. QED
    BY <1>1, FinderInvHolds, PTL

-----------------------------------------------------------------------------
(* Lengths *)

LEMMA SumMonotone ==
  ASSUME cell \in Cells, NEW f \in [Axes -> Int], NEW g \in [Axes -> Int],
         \A k \in Axes : f[k] <= g[k]
  PROVE  /\ SumOver(f) \in Int /\ SumOver(g) \in Int /\ SumOver(f) <= SumOver(g)
         /\ (\E k \in Axes : f[k] < g[k]) => SumOver(f) < SumOver(g)
  <1>1. ASSUME NEW k \in 1..3
        PROVE  /\ Along(f, k, 0) \in Int /\ Along(g, k, 0) \in Int /\ Along(f, k, 0) <= Along(g, k, 0)
               /\ k \in Axes /\ f[k] < g[k] => Along(f, k, 0) < Along(g, k, 0)
    BY DEF Along
  <1> DEFINE f1 == Along(f, 1, 0)
             f2 == Along(f, 2, 0)
             f3 == Along(f, 3, 0)
             g1 == Along(g, 1, 0)
             g2 == Along(g, 2, 0)
             g3 == Along(g, 3, 0)
  <1>2. /\ f1 \in Int /\ f2 \in Int /\ f3 \in Int /\ g1 \in Int /\ g2 \in Int /\ g3 \in Int
        /\ f1 <= g1 /\ f2 <= g2 /\ f3 <= g3
    BY <1>1
  <1>3. SumOver(f) = f1 + f2 + f3 /\ SumOver(g) = g1 + g2 + g3
    BY DEF SumOver
  <1>4. (\E k \in Axes : f[k] < g[k]) => f1 < g1 \/ f2 < g2 \/ f3 < g3
    <2> SUFFICES ASSUME NEW k \in Axes, f[k] < g[k] PROVE f1 < g1 \/ f2 < g2 \/ f3 < g3
      OBVIOUS
    <2>1. k = 1 \/ k = 2 \/ k = 3
      BY CellType
    <2>2. QED
      BY <1>1, <2>1
  <1> HIDE DEF f1, f2, f3, g1, g2, g3
  <1>5. QED
    BY <1>2, <1>3, <1>4

LEMMA SumScaled ==
  ASSUME cell \in Cells, NEW f \in [Axes -> Int], NEW w \in Int
  PROVE  SumOver([k \in Axes |-> w * f[k]]) = w * SumOver(f)
  <1> DEFINE g == [k \in Axes |-> w * f[k]]
  <1>1. \A k \in 1..3 : Along(f, k, 0) \in Int /\ Along(g, k, 0) = w * Along(f, k, 0)
    BY DEF Along
  <1> DEFINE f1 == Along(f, 1, 0)
             f2 == Along(f, 2, 0)
             f3 == Along(f, 3, 0)
  <1>2. f1 \in Int /\ f2 \in Int /\ f3 \in Int
    BY <1>1
  <1>3. SumOver(g) = w * f1 + w * f2 + w * f3 /\ SumOver(f) = f1 + f2 + f3
    BY <1>1 DEF SumOver
  <1> HIDE DEF f1, f2, f3, g
  <1>4. w * (f1 + f2 + f3) = w * f1 + w * f2 + w * f3
    BY <1>2
  <1>5. SumOver(g) = w * SumOver(f)
    BY <1>3, <1>4
  <1>6. QED
    BY <1>5 DEF g

LEMMA SquareMonotone ==
  ASSUME NEW a \in Nat, NEW b \in Nat
  PROVE  /\ a * a \in Nat
         /\ a <= b => a * a <= b * b
         /\ a < b => a * a < b * b
  <1>1. ASSUME a <= b PROVE a * a <= a * b /\ a * b <= b * b
    BY <1>1
  <1>2. ASSUME a < b PROVE a * b < b * b
    BY <1>2
  <1>3. a * a \in Nat /\ a * b \in Nat /\ b * b \in Nat
    OBVIOUS
  <1>4. QED
    <2> DEFINE aa == a * a
               ab == a * b
               bb == b * b
    <2>1. (a <= b => aa <= ab /\ ab <= bb) /\ (a < b => ab < bb) /\ aa \in Nat /\ ab \in Nat /\ bb \in Nat
      BY <1>1, <1>2, <1>3
    <2> HIDE DEF aa, ab, bb
    <2>2. aa \in Nat /\ (a <= b => aa <= bb) /\ (a < b => aa < bb)
      BY <2>1
    <2>3. QED
      BY <2>2 DEF aa, bb

LEMMA AbsType ==
  ASSUME NEW x \in Int
  PROVE  Abs(x) \in Nat /\ (Abs(x) = x \/ Abs(x) = -x) /\ x <= Abs(x) /\ -x <= Abs(x)
         /\ Abs(x) * Abs(x) = x * x
  <1>1. CASE x < 0
    <2>1. (-x) * (-x) = x * x
      OBVIOUS
    <2>2. QED
      BY <1>1, <2>1 DEF Abs
  <1>2. CASE x >= 0
    BY <1>2 DEF Abs
  <1>3. QED
    BY <1>1, <1>2

LEMMA GapType ==
  ASSUME NEW o \in Int
  PROVE  /\ Gap(o) \in Nat
         /\ Gap(o) = IF o >= 2 THEN o - 1 ELSE IF o <= -2 THEN -o - 1 ELSE 0
  <1>1. Abs(o) \in Nat /\ Abs(o) = IF o < 0 THEN -o ELSE o
    BY DEF Abs
  <1>2. Abs(o) - 1 \in Int
    BY <1>1
  <1>3. Gap(o) = IF Abs(o) - 1 >= 0 THEN Abs(o) - 1 ELSE 0
    BY <1>2, MaxOfTwo DEF Gap
  <1>4. QED
    BY <1>1, <1>3

\* Along an axis of n bins and the length s, x lies in the bin b and y in the bin c, which is
\* m cells away at the offset o; and that much at least is between them.
Binned(n, s, x, y, b, c, m, o) ==
  /\ o = c + m * n - b
  /\ o >= 2 => x * n < s * (b + 1) /\ s * c <= y * n
  /\ o <= -2 => s * b <= x * n /\ y * n <= s * (c + 1)
Apart(n, s, y, c, o, d) ==
  /\ Gap(o) * s <= Abs(d) * n
  /\ Gap(o) = 0 \/ Gap(o) * s < Abs(d) * n \/ (o <= -2 /\ y * n = s * (c + 1))

\* Two coordinates are no closer than the bins they are in.
LEMMA AxisGap ==
  ASSUME NEW n \in Nat \ {0}, NEW s \in Nat \ {0}, NEW x \in Int, NEW y \in Int,
         NEW b \in Int, NEW c \in Int, NEW m \in Int, NEW o \in Int, NEW d, d = y + m * s - x,
         Binned(n, s, x, y, b, c, m, o)
  PROVE  Apart(n, s, y, c, o, d)
  <1>0. /\ o = c + m * n - b
        /\ o >= 2 => x * n < s * (b + 1) /\ s * c <= y * n
        /\ o <= -2 => s * b <= x * n /\ y * n <= s * (c + 1)
    BY DEF Binned
  <1> DEFINE sb == s * b
             sc == s * c
             xn == x * n
             yn == y * n
             msn == (m * s) * n
  <1>1. d \in Int /\ m * s \in Int /\ m * n \in Int
    OBVIOUS
  <1>2. sb \in Int /\ sc \in Int /\ xn \in Int /\ yn \in Int /\ msn \in Int
    BY <1>1
  <1>3. d * n = yn + msn - xn
    <2> DEFINE ms == m * s
    <2>1. ms \in Int
      OBVIOUS
    <2> HIDE DEF ms
    <2>2. (y + ms - x) * n = y * n + ms * n - x * n
      BY <2>1
    <2>3. QED
      BY <2>2 DEF ms
  <1>4. s * o = sc + msn - sb
    <2> DEFINE mn == m * n
    <2>1. mn \in Int /\ s * mn = msn
      OBVIOUS
    <2> HIDE DEF mn, msn
    <2>2. s * (c + mn - b) = s * c + s * mn - s * b
      BY <2>1
    <2>3. QED
      BY <1>0, <2>1, <2>2 DEF mn
  <1>5. s * (b + 1) = sb + s /\ s * (c + 1) = sc + s
    OBVIOUS
  <1>6. Abs(d) \in Nat /\ d <= Abs(d) /\ -d <= Abs(d)
    BY <1>1, AbsType
  <1> DEFINE D == Abs(d)
             g == Gap(o)
  <1>7. D * n >= d * n /\ D * n >= -(d * n) /\ D * n \in Nat
    <2>1. D \in Nat /\ d <= D /\ -d <= D /\ d \in Int
      BY <1>1, <1>6
    <2> HIDE DEF D
    <2>2. d * n <= D * n /\ (-d) * n <= D * n /\ (-d) * n = -(d * n)
      BY <2>1
    <2>3. QED
      BY <2>1, <2>2
  <1>8. g \in Nat /\ g = IF o >= 2 THEN o - 1 ELSE IF o <= -2 THEN -o - 1 ELSE 0
    BY GapType
  <1> HIDE DEF D, g
  <1>9. CASE o >= 2
    <2>1. g * s = s * o - s
      <3>1. (o - 1) * s = s * o - s
        OBVIOUS
      <3>2. QED
        BY <1>8, <1>9, <3>1
    <2>2. xn < s * (b + 1) /\ sc <= yn
      BY <1>0, <1>9
    <2> HIDE DEF sb, sc, xn, yn, msn
    <2>3. g * s < D * n
      <3> DEFINE Dn == D * n
                 gs == g * s
                 dn == d * n
                 so == s * o
      <3>1. Dn >= dn /\ Dn \in Nat /\ dn = yn + msn - xn /\ so = sc + msn - sb /\ gs = so - s
        BY <1>0, <1>3, <1>4, <1>7, <2>1
      <3> HIDE DEF Dn, gs, dn, so
      <3>2. gs < Dn
        BY <1>2, <1>5, <2>2, <3>1
      <3>3. QED
        BY <3>2 DEF gs, Dn
    <2>4. QED
      <3> DEFINE Dn == D * n
                 gs == g * s
      <3>1. gs < Dn /\ Dn \in Nat /\ gs \in Nat
        BY <1>7, <1>8, <2>3
      <3> HIDE DEF Dn, gs
      <3>2. gs <= Dn /\ gs < Dn
        BY <3>1
      <3>3. QED
        BY <3>2 DEF Dn, gs, D, g, Apart
  <1>10. CASE o <= -2
    <2>1. g * s = -(s * o) - s
      <3>1. (-o - 1) * s = -(s * o) - s
        OBVIOUS
      <3>2. QED
        BY <1>8, <1>10, <3>1
    <2>2. sb <= xn /\ yn <= s * (c + 1)
      BY <1>0, <1>10
    <2> DEFINE Dn == D * n
               gs == g * s
               dn == d * n
               so == s * o
    <2>3. Dn >= -dn /\ Dn \in Nat /\ dn = yn + msn - xn /\ so = sc + msn - sb /\ gs = -so - s /\ gs \in Nat
      BY <1>0, <1>3, <1>4, <1>7, <1>8, <2>1
    <2> HIDE DEF Dn, gs, dn, so, sb, sc, xn, yn, msn
    <2>4. gs <= Dn /\ (gs < Dn \/ yn = s * (c + 1))
      BY <1>2, <1>5, <2>2, <2>3
    <2>5. QED
      BY <1>10, <2>4 DEF gs, Dn, D, g, yn, Apart
  <1>11. CASE o \in -1..1
    <2>1. g = 0
      BY <1>8, <1>11
    <2>2. g * s = 0
      BY <2>1
    <2>3. 0 <= D * n
      BY <1>7
    <2>4. QED
      BY <2>1, <2>2, <2>3 DEF g, D, Apart
  <1>12. QED
    BY <1>9, <1>10, <1>11

LEMMA WholeBins ==
  ASSUME cell \in Cells, NEW dim \in Counts, NEW k \in Axes
  PROVE  /\ ProductOver(dim) \in Nat \ {0} /\ ProductOver(dim) \div dim[k] \in Nat \ {0}
         /\ dim[k] * (ProductOver(dim) \div dim[k]) = ProductOver(dim)
  <1> DEFINE n1 == Along(dim, 1, 1)
             n2 == Along(dim, 2, 1)
             n3 == Along(dim, 3, 1)
  <1>1. \A j \in 1..3 : Along(dim, j, 1) \in Nat \ {0}
    BY DEF Along, Counts
  <1>2. n1 \in Nat \ {0} /\ n2 \in Nat \ {0} /\ n3 \in Nat \ {0}
    BY <1>1
  <1>3. ProductOver(dim) = n1 * n2 * n3
    BY DEF ProductOver
  <1>4. \/ k = 1 /\ dim[k] = n1
        \/ k = 2 /\ dim[k] = n2
        \/ k = 3 /\ dim[k] = n3
    <2>1. k = 1 \/ k = 2 \/ k = 3
      BY CellType
    <2>2. QED
      BY <2>1 DEF Along
  <1> HIDE DEF n1, n2, n3
  <1>5. ASSUME NEW n \in Nat \ {0}, NEW q \in Nat \ {0}
        PROVE  n * q \in Nat \ {0} /\ (n * q) \div n = q
    <2>1. n * q \in Nat \ {0}
      <3>1. n * q >= q
        BY <1>5
      <3>2. QED
        BY <1>5, <3>1
    <2> DEFINE y == n * q
               p == y \div n
               r == y % n
    <2>2. y \in Int /\ y = n * q + 0 /\ 0 \in 0..(n - 1)
      BY <1>5, <2>1
    <2> HIDE DEF y
    <2>3. p \in Int /\ r \in 0..(n - 1) /\ y = n * p + r
      BY <1>5, <2>2, Quotient
    <2> HIDE DEF p, r
    <2>4. n * p + r = n * q + 0 /\ q \in Int
      BY <1>5, <2>2, <2>3
    <2>5. p = q
      BY <1>5, <2>2, <2>3, <2>4, QuotientUnique
    <2>6. QED
      BY <2>1, <2>5 DEF p, y
  <1>6. \E q \in Nat \ {0} : n1 * n2 * n3 = dim[k] * q /\ dim[k] \in Nat \ {0}
    <2>1. /\ n2 * n3 \in Nat \ {0} /\ n1 * n2 * n3 = n1 * (n2 * n3)
          /\ n1 * n3 \in Nat \ {0} /\ n1 * n2 * n3 = n2 * (n1 * n3)
          /\ n1 * n2 \in Nat \ {0} /\ n1 * n2 * n3 = n3 * (n1 * n2)
      <3>1. n2 * n3 \in Nat \ {0} /\ n1 * n3 \in Nat \ {0} /\ n1 * n2 \in Nat \ {0}
        BY <1>2, <1>5
      <3>2. n1 * n2 * n3 = n1 * (n2 * n3) /\ n1 * n2 * n3 = n2 * (n1 * n3) /\ n1 * n2 * n3 = n3 * (n1 * n2)
        BY <1>2
      <3>3. QED
        BY <3>1, <3>2
    <2>2. QED
      BY <1>2, <1>4, <2>1
  <1>7. PICK q \in Nat \ {0} : n1 * n2 * n3 = dim[k] * q /\ dim[k] \in Nat \ {0}
    BY <1>6
  <1> DEFINE n == dim[k]
             w == n1 * n2 * n3
  <1>8. w = n * q /\ n \in Nat \ {0}
    BY <1>7
  <1> HIDE DEF n, w
  <1>9. n * q \in Nat \ {0} /\ (n * q) \div n = q
    BY <1>5, <1>8
  <1>10. w \in Nat \ {0} /\ w \div n \in Nat \ {0} /\ n * (w \div n) = w
    BY <1>8, <1>9
  <1>11. QED
    BY <1>3, <1>10 DEF n, w

\* Where an offset's gaps are shorter than a vector within the cutoff, its bin is in reach.
LEMMA GapsInReach ==
  ASSUME cell \in Cells, NEW rc \in Nat \ {0}, NEW dim \in Counts,
         NEW o \in [Axes -> Int], NEW d \in [Axes -> Int],
         \A k \in Axes : Gap(o[k]) * Side[k] <= Abs(d[k]) * dim[k],
         SquaredLength(d) <= rc * rc,
         SquaredLength(d) = rc * rc =>
           \A k \in Axes : Gap(o[k]) = 0 \/ Gap(o[k]) * Side[k] < Abs(d[k]) * dim[k]
  PROVE  CanReach(o, dim, rc)
  <1> DEFINE W == ProductOver(dim)
             g == [k \in Axes |-> Gap(o[k]) * Side[k] * (W \div dim[k])]
             G == [k \in Axes |-> g[k] * g[k]]
             D == [k \in Axes |-> d[k] * d[k]]
             H == [k \in Axes |-> (W * W) * D[k]]
  <1>1. W \in Nat \ {0}
    BY CellType, WholeBins
  <1>2. ASSUME NEW k \in Axes
        PROVE  /\ g[k] \in Nat /\ G[k] \in Int /\ H[k] \in Int /\ G[k] <= H[k]
               /\ Gap(o[k]) = 0 => G[k] = 0
               /\ Gap(o[k]) * Side[k] < Abs(d[k]) * dim[k] => G[k] < H[k]
    <2> DEFINE e == W \div dim[k]
               n == dim[k]
               a == Abs(d[k])
               gs == Gap(o[k]) * Side[k]
    <2>1. e \in Nat \ {0} /\ n \in Nat \ {0} /\ n * e = W
      BY WholeBins DEF Counts
    <2>2. a \in Nat /\ a * a = d[k] * d[k]
      BY AbsType
    <2>3. Gap(o[k]) \in Nat /\ Side[k] \in Nat \ {0}
      BY CellType, GapType
    <2>4. gs \in Nat /\ gs <= a * n /\ (Gap(o[k]) = 0 => gs = 0)
      BY <2>3
    <2>5. g[k] = gs * e
      OBVIOUS
    <2>6. (a * n) * e = a * W
      <3>1. (a * n) * e = a * (n * e)
        <4> HIDE DEF a, n, e
        <4> QED BY <2>1, <2>2
      <3>2. QED
        BY <2>1, <3>1
    <2>7. H[k] = (a * W) * (a * W)
      <3>1. H[k] = (W * W) * (a * a)
        BY <2>2
      <3> HIDE DEF a, W
      <3>2. (W * W) * (a * a) = (a * W) * (a * W)
        BY <1>1, <2>2
      <3>3. QED
        BY <3>1, <3>2
    <2>8. /\ gs * e \in Nat /\ gs * e <= (a * n) * e
          /\ gs < a * n => gs * e < (a * n) * e
          /\ gs = 0 => gs * e = 0
      <3> DEFINE an == a * n
      <3>1. an \in Nat /\ gs \in Nat /\ gs <= an
        BY <2>1, <2>2, <2>4
      <3> HIDE DEF an, gs, e
      <3>2. gs * e \in Nat /\ gs * e <= an * e /\ (gs < an => gs * e < an * e) /\ (gs = 0 => gs * e = 0)
        BY <2>1, <3>1
      <3>3. QED
        BY <3>2 DEF an
    <2> DEFINE x == g[k]
               y == a * W
    <2>9. x \in Nat /\ y \in Nat /\ x <= y /\ (gs < a * n => x < y) /\ (gs = 0 => x = 0)
      <3>1. y \in Nat
        BY <1>1, <2>2
      <3>2. QED
        BY <2>5, <2>6, <2>8, <3>1
    <2>10. G[k] = x * x /\ H[k] = y * y
      BY <2>7
    <2> HIDE DEF x, y
    <2>11. x * x \in Nat /\ y * y \in Nat /\ x * x <= y * y /\ (x < y => x * x < y * y)
      BY <2>9, SquareMonotone
    <2>12. g[k] \in Nat
      BY <2>9 DEF x
    <2> HIDE DEF G, H, g, a, gs, n, e
    <2>13. G[k] \in Int /\ H[k] \in Int /\ G[k] <= H[k] /\ (gs = 0 => G[k] = 0) /\ (gs < a * n => G[k] < H[k])
      BY <2>9, <2>10, <2>11
    <2>14. QED
      BY <2>4, <2>12, <2>13 DEF gs, a, n
  <1>3. D \in [Axes -> Int] /\ SquaredLength(d) = SumOver(D)
    BY DEF SquaredLength
  <1>4. SumOver(H) = (W * W) * SumOver(D) /\ SumOver(D) \in Int
    <2>1. W * W \in Int
      BY <1>1
    <2> DEFINE ww == W * W
    <2> HIDE DEF W, D, ww
    <2>2. SumOver([k \in Axes |-> ww * D[k]]) = ww * SumOver(D)
      BY <1>3, <2>1, SumScaled DEF ww
    <2>3. SumOver(D) \in Int
      BY <1>3, SumMonotone
    <2>4. QED
      BY <2>2, <2>3 DEF ww
  <1>5. G \in [Axes -> Int] /\ H \in [Axes -> Int] /\ \A k \in Axes : G[k] <= H[k]
    BY <1>2
  <1>6. CanReach(o, dim, rc) <=> SumOver(G) < rc * rc * W * W
    BY Zenon DEF CanReach, SquaredLength
  <1> HIDE DEF G, H, D, g
  <1>7. /\ SumOver(G) \in Int /\ SumOver(H) \in Int /\ SumOver(G) <= SumOver(H)
        /\ (\E k \in Axes : G[k] < H[k]) => SumOver(G) < SumOver(H)
    BY <1>5, SumMonotone
  <1> DEFINE q == SumOver(D)
             r == rc * rc
             ww == W * W
  <1>8. q \in Int /\ r \in Nat \ {0} /\ ww \in Nat \ {0} /\ q <= r
    <2>1. r \in Nat \ {0} /\ ww \in Nat \ {0}
      <3>1. rc * rc >= rc
        OBVIOUS
      <3> HIDE DEF W
      <3>2. W * W >= W
        BY <1>1
      <3>3. QED
        BY <1>1, <3>1, <3>2
    <2>2. QED
      BY <1>3, <1>4, <2>1
  <1>9. rc * rc * W * W = ww * r
    <2> HIDE DEF W
    <2> QED BY <1>1
  <1> HIDE DEF q, r, ww
  <1>10. CASE q < r
    <2>1. ww * q < ww * r
      BY <1>8, <1>10
    <2>2. SumOver(H) = ww * q
      BY <1>4 DEF ww, q
    <2>3. ww * r \in Int /\ ww * q \in Int
      BY <1>8
    <2>4. SumOver(G) < ww * r
      <3> DEFINE wr == ww * r
                 wq == ww * q
      <3>1. wq < wr /\ SumOver(H) = wq /\ wr \in Int /\ wq \in Int
        BY <2>1, <2>2, <2>3
      <3> HIDE DEF wr, wq
      <3>2. SumOver(G) < wr
        BY <1>7, <3>1
      <3>3. QED
        BY <3>2 DEF wr
    <2>5. QED
      BY <1>6, <1>9, <2>4
  <1>11. CASE q = r
    <2>1. SquaredLength(d) = rc * rc
      BY <1>3, <1>11 DEF q, r
    <2>2. \A k \in Axes : Gap(o[k]) = 0 \/ Gap(o[k]) * Side[k] < Abs(d[k]) * dim[k]
      BY <2>1
    <2>3. SumOver(H) = ww * r
      BY <1>4, <1>11 DEF ww, q
    <2>4. CASE \E k \in Axes : G[k] < H[k]
      BY <1>6, <1>7, <1>9, <2>3, <2>4
    <2>5. CASE \A k \in Axes : ~(G[k] < H[k])
      <3>1. \A k \in Axes : G[k] = 0
        BY <1>2, <2>2, <2>5
      <3>2. SumOver(G) = 0
        <4>1. \A k \in 1..3 : Along(G, k, 0) = 0
          BY <3>1 DEF Along
        <4>2. QED
          BY <4>1 DEF SumOver
      <3>3. 0 < ww * r
        <4>1. ww * r >= r /\ ww * r \in Int
          BY <1>8
        <4> DEFINE wr == ww * r
        <4> HIDE DEF wr
        <4>2. 0 < wr
          BY <1>8, <4>1 DEF wr
        <4>3. QED
          BY <4>2 DEF wr
      <3>4. QED
        BY <1>6, <1>9, <3>2, <3>3
    <2>6. QED
      BY <2>4, <2>5
  <1>12. QED
    BY <1>8, <1>10, <1>11

LEMMA GapMonotone ==
  ASSUME NEW o \in Int, NEW p \in Int, Abs(p) <= Abs(o)
  PROVE  Gap(p) \in Nat /\ Gap(o) \in Nat /\ Gap(p) <= Gap(o)
  <1>1. Abs(o) = (IF o < 0 THEN -o ELSE o) /\ Abs(p) = (IF p < 0 THEN -p ELSE p)
    BY DEF Abs
  <1>2. QED
    BY <1>1, GapType

\* An offset closer on every axis is in reach too.
LEMMA CloserInReach ==
  ASSUME cell \in Cells, NEW rc \in Nat \ {0}, NEW dim \in Counts,
         NEW o \in [Axes -> Int], NEW p \in [Axes -> Int],
         \A k \in Axes : Abs(p[k]) <= Abs(o[k]), CanReach(o, dim, rc)
  PROVE  CanReach(p, dim, rc)
  <1> DEFINE W == ProductOver(dim)
             g == [k \in Axes |-> Gap(o[k]) * Side[k] * (W \div dim[k])]
             h == [k \in Axes |-> Gap(p[k]) * Side[k] * (W \div dim[k])]
             G == [k \in Axes |-> g[k] * g[k]]
             H == [k \in Axes |-> h[k] * h[k]]
  <1>1. ASSUME NEW k \in Axes PROVE G[k] \in Int /\ H[k] \in Int /\ H[k] <= G[k]
    <2> DEFINE e == W \div dim[k]
               a == Gap(o[k])
               b == Gap(p[k])
               s == Side[k]
    <2>1. e \in Nat \ {0} /\ s \in Nat \ {0} /\ a \in Nat /\ b \in Nat /\ b <= a
      BY WholeBins, CellType, GapMonotone
    <2> DEFINE x == (a * s) * e
               y == (b * s) * e
    <2>2. x \in Nat /\ y \in Nat /\ y <= x
      <3> HIDE DEF a, b, s, e
      <3>1. a * s \in Nat /\ b * s \in Nat /\ b * s <= a * s
        BY <2>1
      <3> DEFINE as == a * s
                 bs == b * s
      <3> HIDE DEF as, bs
      <3>2. as * e \in Nat /\ bs * e \in Nat /\ bs * e <= as * e
        BY <2>1, <3>1 DEF as, bs
      <3>3. QED
        BY <3>2 DEF as, bs
    <2>3. G[k] = x * x /\ H[k] = y * y
      OBVIOUS
    <2> HIDE DEF x, y, G, H
    <2>4. x * x \in Nat /\ y * y \in Nat /\ y * y <= x * x
      BY <2>2, SquareMonotone
    <2>5. QED
      BY <2>3, <2>4
  <1>2. G \in [Axes -> Int] /\ H \in [Axes -> Int] /\ \A k \in Axes : H[k] <= G[k]
    BY <1>1
  <1>3. /\ CanReach(o, dim, rc) <=> SumOver(G) < rc * rc * W * W
        /\ CanReach(p, dim, rc) <=> SumOver(H) < rc * rc * W * W
    BY Zenon DEF CanReach, SquaredLength
  <1>4. rc * rc * W * W \in Int
    <2>1. W \in Nat
      BY CellType, WholeBins
    <2> HIDE DEF W
    <2>2. QED
      BY <2>1
  <1> HIDE DEF G, H, g, h, W
  <1>5. SumOver(G) \in Int /\ SumOver(H) \in Int /\ SumOver(H) <= SumOver(G)
    BY <1>2, SumMonotone
  <1> DEFINE z == rc * rc * W * W
  <1> HIDE DEF z
  <1>6. SumOver(G) < z => SumOver(H) < z
    BY <1>4, <1>5 DEF z
  <1>7. QED
    BY <1>3, <1>6 DEF z

\* Every offset in reach is in a shell that is tried, if the limit is not met before.
LEMMA ReachedInOffsets ==
  ASSUME cell \in Cells, NEW rc \in Nat \ {0}, NEW dim \in Counts, NEW o \in [Axes -> Int],
         CanReach(o, dim, rc), \A k \in Axes : Abs(o[k]) <= StencilLimit - 1
  PROVE  o \in Offsets(dim, rc)
  <1> DEFINE f == [k \in Axes |-> Abs(o[k])]
             r == Max({f[k] : k \in Axes})
  <1>1. f \in [Axes -> Int] /\ \A k \in Axes : f[k] \in Nat
    BY AbsType
  <1>2. r \in Int /\ (\A k \in Axes : f[k] <= r) /\ \E k \in Axes : f[k] = r
    <2> HIDE DEF f
    <2> QED BY <1>1, CellType, MaxOverAxes
  <1> HIDE DEF r
  <1>3. r \in 0..(StencilLimit - 1)
    BY <1>1, <1>2, LimitsAssumption
  <1>4. (\A k \in Axes : Abs(o[k]) <= r) /\ \E k \in Axes : Abs(o[k]) = r
    BY <1>2
  <1> HIDE DEF f
  <1>5. o \in Shell(r, dim, rc)
    <2>1. \A k \in Axes : o[k] \in (-r)..r
      <3> TAKE k \in Axes
      <3>1. o[k] \in Int /\ o[k] <= Abs(o[k]) /\ -o[k] <= Abs(o[k]) /\ Abs(o[k]) \in Nat
        BY AbsType
      <3>2. QED
        BY <1>3, <1>4, <3>1
    <2>2. o \in [Axes -> (-r)..r]
      BY <2>1
    <2>3. QED
      BY <1>4, <2>2 DEF Shell
  <1>6. ASSUME NEW s \in 0..(r - 1) PROVE Shell(s, dim, rc) # {}
    <2> DEFINE p == [k \in Axes |-> IF o[k] > s THEN s ELSE IF o[k] < -s THEN -s ELSE o[k]]
    <2>1. s \in Nat /\ s < r
      BY <1>3
    <2>2. ASSUME NEW k \in Axes
          PROVE  /\ p[k] \in (-s)..s /\ p[k] \in Int /\ Abs(p[k]) <= Abs(o[k])
                 /\ Abs(o[k]) = r => Abs(p[k]) = s
      <3>1. Abs(o[k]) = (IF o[k] < 0 THEN -o[k] ELSE o[k]) /\ Abs(p[k]) = (IF p[k] < 0 THEN -p[k] ELSE p[k])
        BY DEF Abs
      <3>2. p[k] = IF o[k] > s THEN s ELSE IF o[k] < -s THEN -s ELSE o[k]
        OBVIOUS
      <3> DEFINE a == o[k]
                 b == p[k]
                 A == Abs(a)
                 B == Abs(b)
      <3>3. a \in Int
        OBVIOUS
      <3> HIDE DEF a, b, p, A, B
      <3>4. b \in (-s)..s /\ b \in Int /\ B <= A /\ (A = r => B = s)
        <4>1. A = (IF a < 0 THEN -a ELSE a) /\ B = (IF b < 0 THEN -b ELSE b)
          BY <3>1 DEF a, b, A, B
        <4>2. b = IF a > s THEN s ELSE IF a < -s THEN -s ELSE a
          BY <3>2 DEF a, b
        <4>3. QED
          BY <1>3, <2>1, <3>3, <4>1, <4>2
      <3>5. QED
        BY <3>4 DEF a, b, A, B
    <2>3. p \in [Axes -> (-s)..s] /\ p \in [Axes -> Int]
      BY <2>2
    <2>4. \E k \in Axes : Abs(p[k]) = s
      BY <1>4, <2>2
    <2> HIDE DEF p
    <2>5. CanReach(p, dim, rc)
      BY <2>2, <2>3, CloserInReach
    <2>6. p \in Shell(s, dim, rc)
      BY <2>3, <2>4, <2>5 DEF Shell
    <2>7. QED
      BY <2>6
  <1>7. QED
    BY <1>3, <1>5, <1>6 DEF Offsets

\* An offset in reach is closer than the limit on the radii, but along the axes whose cell
\* is many times shorter than the cutoff.
LEMMA ReachedBelowLimit ==
  ASSUME cell \in Cells, NEW rc \in Cutoffs, NEW dim \in Dims(rc), NEW o \in [Axes -> Int],
         CanReach(o, dim, rc), NEW k \in Axes, StencilLimit >= 2,
         dim[k] = 1 => Gap(o[k]) = 0 \/ rc <= (StencilLimit - 1) * Side[k]
  PROVE  Abs(o[k]) <= StencilLimit - 1
  <1> DEFINE W == ProductOver(dim)
             e == W \div dim[k]
             n == dim[k]
             s == Side[k]
             gap == Gap(o[k])
             g == [j \in Axes |-> Gap(o[j]) * Side[j] * (W \div dim[j])]
             G == [j \in Axes |-> g[j] * g[j]]
  <1>1. dim \in Counts /\ rc \in Nat \ {0}
    BY DimsType, CellType
  <1>2. /\ W \in Nat \ {0} /\ e \in Nat \ {0} /\ n \in Nat \ {0} /\ s \in Nat \ {0} /\ n * e = W
        /\ gap \in Nat /\ gap = IF o[k] >= 2 THEN o[k] - 1 ELSE IF o[k] <= -2 THEN -o[k] - 1 ELSE 0
    BY <1>1, WholeBins, CellType, GapType DEF Counts
  <1>3. \A j \in Axes : g[j] \in Nat /\ G[j] \in Nat
    <2> TAKE j \in Axes
    <2>1. Gap(o[j]) \in Nat /\ Side[j] \in Nat /\ W \div dim[j] \in Nat
      BY <1>1, WholeBins, CellType, GapType
    <2> DEFINE a == Gap(o[j])
               b == Side[j]
               c == W \div dim[j]
    <2>2. g[j] = a * b * c
      OBVIOUS
    <2>3. a * b * c \in Nat
      <3> HIDE DEF a, b, c
      <3> QED BY <2>1 DEF a, b, c
    <2>4. g[j] \in Nat
      BY <2>2, <2>3
    <2>5. QED
      BY <2>4, SquareMonotone
  <1>4. G[k] <= SumOver(G)
    <2> DEFINE Z == [j \in Axes |-> IF j = k THEN G[k] ELSE 0]
    <2>1. G \in [Axes -> Int] /\ Z \in [Axes -> Int] /\ \A j \in Axes : Z[j] <= G[j]
      BY <1>3
    <2>2. SumOver(Z) = G[k]
      <3>1. k = 1 \/ k = 2 \/ k = 3
        BY CellType
      <3> DEFINE y == G[k]
      <3>2. y \in Int
        BY <1>3
      <3>3. \A j \in 1..3 : Along(Z, j, 0) = IF j = k THEN y ELSE 0
        BY DEF Along
      <3> HIDE DEF y, Z
      <3>4. SumOver(Z) = y
        <4>1. SumOver(Z) = Along(Z, 1, 0) + Along(Z, 2, 0) + Along(Z, 3, 0)
          BY DEF SumOver
        <4>2. QED
          BY <3>1, <3>2, <3>3, <4>1
      <3>5. QED
        BY <3>4 DEF y
    <2> HIDE DEF Z, G
    <2>3. QED
      BY <2>1, <2>2, SumMonotone
  <1>5. SumOver(G) < rc * rc * W * W
    BY Zenon DEF CanReach, SquaredLength
  <1>6. G[k] = g[k] * g[k] /\ g[k] = (gap * s) * e /\ G \in [Axes -> Int]
    BY <1>3
  <1> DEFINE x == g[k]
             y == rc * W
  <1>7. x * x < y * y
    <2>1. rc * rc * W * W = y * y
      <3> HIDE DEF W
      <3> QED BY <1>1, <1>2
    <2>2. SumOver(G) \in Int /\ G[k] \in Int /\ y * y \in Int
      <3>1. SumOver(G) \in Int
        <4> HIDE DEF G
        <4> QED BY <1>6, SumMonotone
      <3>2. y \in Int
        BY <1>1, <1>2
      <3>3. QED
        BY <1>3, <3>1, <3>2
    <2>3. G[k] = x * x
      BY <1>6
    <2> DEFINE yy == y * y
               xx == x * x
    <2> HIDE DEF G, yy, xx
    <2>4. xx < yy
      BY <1>4, <1>5, <2>1, <2>2, <2>3 DEF xx, yy
    <2>5. QED
      BY <2>4 DEF xx, yy
  <1>8. x \in Nat /\ y \in Nat
    BY <1>1, <1>2, <1>3
  <1>9. x < y
    <2> HIDE DEF x, y
    <2>1. SUFFICES ASSUME y <= x PROVE FALSE
      BY <1>8
    <2>2. y * y <= x * x /\ x * x \in Nat /\ y * y \in Nat
      BY <1>8, <2>1, SquareMonotone
    <2> DEFINE yy == y * y
               xx == x * x
    <2> HIDE DEF yy, xx
    <2>3. QED
      BY <1>7, <2>2 DEF xx, yy
  <1>10. gap * s < rc * n
    <2>1. x = e * (gap * s) /\ y = e * (rc * n)
      <3>1. x = (gap * s) * e
        BY <1>6
      <3>2. y = rc * (n * e)
        BY <1>2
      <3> HIDE DEF x, y, gap, s, e, n
      <3>3. (gap * s) * e = e * (gap * s) /\ rc * (n * e) = e * (rc * n)
        BY <1>1, <1>2
      <3>4. QED
        BY <3>1, <3>2, <3>3
    <2> DEFINE a == gap * s
               b == rc * n
    <2>2. a \in Int /\ b \in Int
      BY <1>1, <1>2
    <2>3. e * a < e * b
      BY <1>9, <2>1
    <2> HIDE DEF a, b, e
    <2>4. a < b
      BY <1>2, <2>2, <2>3, CancelLess
    <2>5. QED
      BY <2>4 DEF a, b
  <1> HIDE DEF G, g, x, y
  <1>11. n > 1 => n * rc <= s
    <2>1. n <= FullDims(rc)[k]
      <3>1. CASE dim = FullDims(rc)
        <4>1. n = FullDims(rc)[k]
          BY <3>1
        <4> HIDE DEF n
        <4>2. QED
          BY <1>2, <4>1
      <3>2. CASE \A j \in Axes : dim[j] \in Coarser(FullDims(rc)[j], ProductOver(FullDims(rc)))
        <4> DEFINE m == FullDims(rc)[k]
                   c == ProductOver(FullDims(rc))
        <4>1. m \in Nat \ {0}
          BY FullDimsType, <1>2 DEF Counts
        <4>2. n \in Coarser(m, c)
          BY <1>2, <3>2
        <4> HIDE DEF n, m, c
        <4>3. n <= m
          BY <4>1, <4>2, CoarserBelow
        <4>4. QED
          BY <4>3 DEF m
      <3>3. QED
        BY <3>1, <3>2 DEF Dims
    <2>2. FullDims(rc)[k] = AtLeastOne(s \div rc)
      BY DEF FullDims
    <2> DEFINE q == s \div rc
               t == s % rc
    <2>3. q \in Int /\ t \in 0..(rc - 1) /\ s = rc * q + t
      <3>1. s \in Int /\ rc \in Nat \ {0}
        BY <1>1, <1>2
      <3> HIDE DEF s
      <3>2. s \div rc \in Int /\ s % rc \in 0..(rc - 1) /\ s = rc * (s \div rc) + (s % rc)
        BY <3>1, Quotient
      <3>3. QED
        BY <3>2
    <2>4. AtLeastOne(q) = IF q >= 1 THEN q ELSE 1
      BY <2>3, MaxOfTwo DEF AtLeastOne
    <2> HIDE DEF q, t, n, s
    <2>5. n > 1 => n <= q
      BY <1>2, <2>1, <2>2, <2>3, <2>4 DEF q
    <2>6. ASSUME n > 1 PROVE n * rc <= s
      <3>1. n * rc <= q * rc /\ q * rc = rc * q /\ n * rc \in Int /\ rc * q \in Int
        BY <1>1, <1>2, <2>3, <2>5, <2>6
      <3> DEFINE nr == n * rc
                 rq == rc * q
      <3> HIDE DEF nr, rq
      <3>2. nr <= s
        BY <1>1, <1>2, <2>3, <3>1 DEF nr, rq
      <3>3. QED
        BY <3>2 DEF nr
    <2>7. QED
      BY <2>6
  <1> DEFINE L == StencilLimit
  <1>12. gap <= L - 2
    <2>1. L \in Nat /\ L >= 2 /\ rc \in Nat
      BY <1>1, LimitsAssumption
    <2>2. CASE n > 1
      <3>1. gap * s < s
        <4>1. rc * n = n * rc /\ n * rc \in Int /\ gap * s \in Int
          BY <1>1, <1>2
        <4> DEFINE gs == gap * s
                   nr == n * rc
        <4> HIDE DEF gs, nr, s
        <4>2. gs < s
          BY <1>2, <1>10, <1>11, <2>2, <4>1 DEF gs, nr
        <4>3. QED
          BY <4>2 DEF gs
      <3>2. gap = 0
        <4>1. SUFFICES ASSUME gap >= 1 PROVE FALSE
          BY <1>2
        <4> HIDE DEF gap, s
        <4>2. gap * s >= s /\ gap * s \in Int
          BY <1>2, <4>1
        <4> DEFINE gs == gap * s
        <4> HIDE DEF gs
        <4>3. QED
          BY <1>2, <3>1, <4>2 DEF gs
      <3>3. QED
        BY <2>1, <3>2
    <2>3. CASE n = 1
      <3>1. CASE gap = 0
        BY <2>1, <3>1
      <3>2. CASE rc <= (L - 1) * s
        <4>1. rc * n = rc
          BY <1>1, <2>3
        <4> HIDE DEF L, gap, s
        <4>2. s * gap < s * (L - 1)
          <5>1. gap * s = s * gap /\ (L - 1) * s = s * (L - 1) /\ gap * s \in Int /\ (L - 1) * s \in Int
            BY <1>2, <2>1
          <5> DEFINE gs == gap * s
                     ls == (L - 1) * s
          <5>2. gs < ls
            <6>1. gs < rc /\ rc <= ls /\ gs \in Int /\ ls \in Int
              BY <1>10, <3>2, <4>1, <5>1
            <6> HIDE DEF gs, ls
            <6>2. QED
              BY <2>1, <6>1
          <5>3. QED
            BY <5>1, <5>2
        <4>3. gap < L - 1
          BY <1>2, <2>1, <4>2, CancelLess
        <4>4. QED
          BY <1>2, <2>1, <4>3
      <3>3. QED
        BY <2>3, <3>1, <3>2
    <2>4. QED
      BY <1>2, <2>2, <2>3
  <1>13. Abs(o[k]) = IF o[k] < 0 THEN -o[k] ELSE o[k]
    BY DEF Abs
  <1>14. o[k] \in Int /\ L \in Nat /\ L >= 2
    BY LimitsAssumption
  <1> DEFINE a == o[k]
             A == Abs(o[k])
  <1> HIDE DEF a, A, gap, L
  <1>15. A <= L - 1
    BY <1>2, <1>12, <1>13, <1>14 DEF a, A
  <1>16. QED
    BY <1>15 DEF A, L

-----------------------------------------------------------------------------
(* The bin that a particle is put into *)

\* The coordinate x lies in the bin b of n along axis k.  Along a closed axis, the outermost
\* bins also hold what lies outside; one rounded onto a periodic face is on the bin's face.
LiesIn(k, x, b, n) ==
  /\ b \in 0..(n - 1)
  /\ (Periodic[k] \/ b >= 1) => Side[k] * b <= x * n
  /\ (Periodic[k] \/ b <= n - 2) =>
       x * n < Side[k] * (b + 1) \/ (Periodic[k] /\ x = Side[k] /\ x * n = Side[k] * (b + 1))

LEMMA BinHolds ==
  ASSUME NEW x \in Int, NEW n \in Nat \ {0}, NEW len \in Nat \ {0}, NEW b, b = (x * n) \div len
  PROVE  b \in Int /\ len * b <= x * n /\ x * n < len * (b + 1)
  <1> DEFINE y == x * n
             r == y % len
  <1>1. y \in Int
    OBVIOUS
  <1> HIDE DEF y
  <1>2. b \in Int /\ r \in 0..(len - 1) /\ y = len * b + r
    BY <1>1, Quotient DEF y
  <1> HIDE DEF r
  <1>3. len * (b + 1) = len * b + len /\ len * b \in Int
    BY <1>2
  <1>4. len * b <= y /\ y < len * (b + 1)
    <2> DEFINE lb == len * b
    <2> HIDE DEF lb
    <2> QED BY <1>2, <1>3 DEF lb
  <1>5. QED
    BY <1>2, <1>4 DEF y

LEMMA PlacedLies ==
  ASSUME cell \in Cells, NEW k \in Axes, NEW x \in Int, NEW dim \in Counts, NEW hair \in BOOLEAN,
         hair => Periodic[k] /\ x % Side[k] = 0
  PROVE  LiesIn(k, Placed(k, x, dim, hair).pos, Placed(k, x, dim, hair).bin, dim[k])
  <1> DEFINE n == dim[k]
             len == Side[k]
             b == (x * n) \div len
             q == x \div len
  <1>1. n \in Nat \ {0} /\ len \in Nat \ {0} /\ Periodic[k] \in BOOLEAN
    BY CellType DEF Counts
  <1>2. b \in Int /\ len * b <= x * n /\ x * n < len * (b + 1)
    <2> HIDE DEF n, len
    <2> QED BY <1>1, BinHolds
  <1>3. q \in Int /\ b \div n = q /\ b % n \in 0..(n - 1) /\ b = n * q + (b % n)
    <2> HIDE DEF n, len
    <2>1. b \div n = q
      BY <1>1, CellOfBin
    <2>2. b \in Int
      BY <1>2
    <2> HIDE DEF b
    <2>3. QED
      BY <1>1, <2>1, <2>2, Quotient
  <1>4. BinAlong(k, x, dim) = b
    BY DEF BinAlong
  <1>5. WrapShift(b, n) = -q
    <2> HIDE DEF b, n
    <2> QED BY <1>1, <1>2, <1>3, ShiftIsQuotient
  <1> HIDE DEF n, len, b, q
  <1>6. CASE ~Periodic[k]
    <2> DEFINE c == Min({Max({b, 0}), n - 1})
    <2>1. Placed(k, x, dim, hair) = [pos |-> x, shift |-> 0, bin |-> c]
      BY <1>4, <1>6 DEF Placed, n
    <2>2. Max({b, 0}) = IF b >= 0 THEN b ELSE 0
      BY <1>2, MaxOfTwo
    <2>3. c = IF b < 0 THEN 0 ELSE IF b <= n - 1 THEN b ELSE n - 1
      <3> DEFINE m == Max({b, 0})
      <3>1. m \in Nat
        BY <1>2, <2>2
      <3> HIDE DEF m
      <3>2. Min({m, n - 1}) = IF m <= n - 1 THEN m ELSE n - 1
        BY <1>1, <3>1, MinOfTwo
      <3>3. QED
        BY <1>1, <1>2, <2>2, <3>2 DEF m
    <2> HIDE DEF c
    <2>4. c \in 0..(n - 1)
      BY <1>1, <1>2, <2>3
    <2>5. c >= 1 => len * c <= x * n
      <3> SUFFICES ASSUME c >= 1 PROVE len * c <= x * n
        OBVIOUS
      <3>1. c <= b
        BY <1>1, <1>2, <2>3
      <3>2. len * c <= len * b
        BY <1>1, <1>2, <2>4, <3>1
      <3>3. len * c \in Int /\ len * b \in Int /\ x * n \in Int
        BY <1>1, <1>2, <2>4
      <3> DEFINE lc == len * c
                 lb == len * b
                 xn == x * n
      <3> HIDE DEF lc, lb, xn
      <3>4. QED
        BY <1>2, <3>2, <3>3 DEF lc, lb, xn
    <2>6. c <= n - 2 => x * n < len * (c + 1)
      <3> SUFFICES ASSUME c <= n - 2 PROVE x * n < len * (c + 1)
        OBVIOUS
      <3>1. b <= c
        BY <1>1, <1>2, <2>3
      <3>2. len * (b + 1) <= len * (c + 1)
        BY <1>1, <1>2, <2>4, <3>1
      <3>3. len * (c + 1) \in Int /\ len * (b + 1) \in Int /\ x * n \in Int
        BY <1>1, <1>2, <2>4
      <3> DEFINE lc == len * (c + 1)
                 lb == len * (b + 1)
                 xn == x * n
      <3> HIDE DEF lc, lb, xn
      <3>4. QED
        BY <1>2, <3>2, <3>3 DEF lc, lb, xn
    <2>7. QED
      BY <1>6, <2>1, <2>4, <2>5, <2>6 DEF LiesIn, n, len
  <1>7. CASE hair
    <2>1. Placed(k, x, dim, hair) = [pos |-> len, shift |-> Byte(1 - q), bin |-> n - 1]
      BY <1>7 DEF Placed, n, len, q
    <2>2. len * n = len * ((n - 1) + 1) /\ len * (n - 1) <= len * n /\ n - 1 \in 0..(n - 1)
      BY <1>1
    <2>3. LiesIn(k, len, n - 1, n)
      BY <1>7, <2>2 DEF LiesIn, len
    <2>4. QED
      BY <2>1, <2>3 DEF n
  <1>8. CASE Periodic[k] /\ ~hair /\ b \in 0..(n - 1)
    <2>1. Placed(k, x, dim, hair) = [pos |-> x, shift |-> 0, bin |-> b]
      BY <1>4, <1>8 DEF Placed, n
    <2>2. QED
      BY <1>2, <1>8, <2>1 DEF LiesIn, n, len
  <1>9. CASE Periodic[k] /\ ~hair /\ b \notin 0..(n - 1)
    <2> DEFINE y == x + (-q) * len
               c == b % n
    <2>1. Placed(k, x, dim, hair) = [pos |-> y, shift |-> Byte(-q), bin |-> c]
      BY <1>4, <1>5, <1>9 DEF Placed, n, len
    <2>2. c \in 0..(n - 1) /\ b = n * q + c
      BY <1>3
    <2> HIDE DEF c
    <2> DEFINE z == (q * len) * n
    <2>3. y * n = x * n - z /\ len * c = len * b - z /\ len * (c + 1) = len * (b + 1) - z /\ z \in Int
      <3>1. q * len \in Int
        BY <1>1, <1>3
      <3>2. z \in Int
        BY <1>1, <3>1
      <3>3. y * n = x * n - z
        <4> DEFINE w == q * len
        <4>1. w \in Int /\ (-q) * len = -w
          BY <1>1, <1>3
        <4> HIDE DEF w
        <4>2. (x + (-w)) * n = x * n - w * n
          BY <1>1, <4>1
        <4>3. QED
          BY <4>1, <4>2 DEF w
      <3>4. len * (n * q) = z
        BY <1>1, <1>3
      <3>5. len * b = len * (n * q) + len * c /\ len * (n * q) \in Int /\ len * c \in Int
        BY <1>1, <1>3, <2>2
      <3>6. len * (b + 1) = len * b + len /\ len * (c + 1) = len * c + len
        BY <1>1, <1>2, <2>2
      <3> HIDE DEF y, z
      <3> DEFINE lb == len * b
                 lc == len * c
                 lnq == len * (n * q)
                 lb1 == len * (b + 1)
                 lc1 == len * (c + 1)
      <3>7. lb \in Int /\ lc \in Int /\ lnq = z /\ lb = lnq + lc /\ lb1 = lb + len /\ lc1 = lc + len
        BY <1>1, <1>2, <3>4, <3>5, <3>6
      <3> HIDE DEF lb, lc, lnq, lb1, lc1
      <3>8. lc = lb - z /\ lc1 = lb1 - z
        BY <1>1, <3>2, <3>7
      <3>9. QED
        BY <3>2, <3>3, <3>8 DEF lb, lc, lb1, lc1
    <2> HIDE DEF y, z
    <2>4. len * c <= y * n /\ y * n < len * (c + 1)
      <3> DEFINE lb == len * b
                 lb1 == len * (b + 1)
                 xn == x * n
      <3>1. lb \in Int /\ lb1 \in Int /\ xn \in Int
        BY <1>1, <1>2
      <3> HIDE DEF lb, lb1, xn
      <3>2. lb - z <= xn - z /\ xn - z < lb1 - z
        BY <1>2, <2>3, <3>1 DEF lb, lb1, xn
      <3>3. QED
        BY <2>3, <3>2 DEF lb, lb1, xn
    <2>5. QED
      BY <1>9, <2>1, <2>2, <2>4 DEF LiesIn, n, len
  <1>10. QED
    BY <1>1, <1>6, <1>7, <1>8, <1>9

-----------------------------------------------------------------------------
(* What a query relies on to miss nothing *)

\* Particle j is at place p of the sorted array, in the bin b, which holds its position.
BinnedAt(j, p, b) ==
  /\ binnedIndices[p] = j
  /\ \A k \in Axes : LiesIn(k, particles[j].pos[k], b[k], binDim[k])
  /\ binStart[FlatBin(b, binDim)] < p /\ p <= binStart[FlatBin(b, binDim) + 1]

TablesInv ==
  prepares > 0 =>
    /\ cutoff \in Cutoffs /\ binDim \in Dims(cutoff)
    /\ \A o \in Offsets(binDim, cutoff) : \E t \in 1..Len(stencil) : stencil[t] = o
    /\ \A j \in Index : \E p \in 1..Particles, b \in Vectors : BinnedAt(j, p, b)

LEMMA PrepareTables == PreparedInv /\ Prepare => TablesInv'
  <1> SUFFICES ASSUME PreparedInv, Prepare PROVE TablesInv'
    OBVIOUS
  <1>1. PICK rc \in Cutoffs : \E dim \in Dims(rc) : \E below \in SUBSET OnFaces : Prepares(rc, dim, below)
    BY DEF Prepare, Prepares
  <1>2. PICK dim \in Dims(rc) : \E below \in SUBSET OnFaces : Prepares(rc, dim, below)
    BY <1>1
  <1>3. PICK below \in SUBSET OnFaces : Prepares(rc, dim, below)
    BY <1>2
  <1> DEFINE put == [i \in Index |-> [k \in Axes |-> Placed(k, place[i][k], dim, <<i, k>> \in below)]]
             bin == [i \in Index |-> [k \in Axes |-> put[i][k].bin]]
             binOf == [i \in Index |-> FlatBin(bin[i], dim)]
  <1>4. cell \in Cells /\ place \in [Index -> Spots] /\ cell' = cell /\ stencil \in Seq(Vectors)
    BY DEF PreparedInv, GivenInv, StencilInv, Prepare, given
  <1>5. /\ Axes' = Axes /\ Side' = Side /\ Periodic' = Periodic /\ Vectors' = Vectors
        /\ Cutoffs' = Cutoffs /\ BinCountLimit' = BinCountLimit
    BY <1>4 DEF Axes, Side, Periodic, Vectors, Cutoffs, BinCountLimit
  <1>6. dim \in Counts
    BY <1>4, DimsType
  <1>7. cutoff' = rc /\ binDim' = dim /\ stencil' = stencil \o StencilOf(dim, rc)
    BY <1>3 DEF Prepares
  <1>8. ASSUME NEW i \in Index, NEW k \in Axes
        PROVE  put[i][k].bin \in 0..(dim[k] - 1) /\ LiesIn(k, put[i][k].pos, put[i][k].bin, dim[k])
    <2> DEFINE x == place[i][k]
               hair == <<i, k>> \in below
    <2>1. x \in Int
      BY <1>4, CellType
    <2>2. hair \in BOOLEAN /\ (hair => Periodic[k] /\ x % Side[k] = 0)
      BY DEF OnFaces
    <2>3. put[i][k] = Placed(k, x, dim, hair)
      OBVIOUS
    <2> HIDE DEF x, hair, put
    <2>4. LiesIn(k, Placed(k, x, dim, hair).pos, Placed(k, x, dim, hair).bin, dim[k])
      BY <1>4, <1>6, <2>1, <2>2, PlacedLies
    <2>5. QED
      BY <2>3, <2>4 DEF LiesIn
  <1> HIDE DEF put
  <1>9. \A i \in Index : bin[i] \in [Axes -> Int] /\ InBox(bin[i], dim)
    <2> TAKE i \in Index
    <2>1. \A k \in Axes : put[i][k].bin \in 0..(dim[k] - 1) /\ put[i][k].bin \in Int
      BY <1>6, <1>8 DEF Counts
    <2>2. QED
      BY <2>1 DEF InBox
  <1>10. \A i \in Index, k \in Axes : particles'[i].pos[k] = put[i][k].pos /\ bin[i][k] = put[i][k].bin
    <2>1. particles' = [i \in Index |-> [pos   |-> [k \in Axes |-> put[i][k].pos],
                                         shift |-> [k \in Axes |-> put[i][k].shift]]]
      BY <1>3 DEF Prepares, put
    <2>2. QED
      BY <2>1
  <1>11. /\ binnedIndices' = SortedInto(binOf)
         /\ binStart' = [b \in 0..ProductOver(dim) |-> Cardinality({i \in Index : binOf[i] < b})]
    BY <1>3 DEF Prepares, put
  <1> HIDE DEF bin
  <1>12. /\ binOf \in [Index -> Int] /\ \A i \in Index : binOf[i] = FlatBin(bin[i], dim)
         /\ \A i \in Index : binOf[i] \in 0..(ProductOver(dim) - 1) /\ ProductOver(dim) \in Nat
    <2>1. \A i \in Index : FlatBin(bin[i], dim) \in 0..(ProductOver(dim) - 1) /\ ProductOver(dim) \in Nat
      BY <1>4, <1>6, <1>9, FlatInArray
    <2>2. QED
      BY <2>1
  <1> HIDE DEF binOf
  <1>13. ASSUME NEW j \in Index
         PROVE  (\E p \in 1..Particles, b \in Vectors : BinnedAt(j, p, b))'
    <2> DEFINE b == bin[j]
               f == binOf[j]
    <2>1. PICK p \in 1..Particles :
            /\ SortedInto(binOf)[p] = j
            /\ Cardinality({i \in Index : binOf[i] < f}) < p
            /\ p <= Cardinality({i \in Index : binOf[i] < f + 1})
      BY <1>12, SortedType
    <2>2. f \in 0..ProductOver(dim) /\ f + 1 \in 0..ProductOver(dim)
      BY <1>12
    <2>3. binStart'[f] < p /\ p <= binStart'[f + 1] /\ binnedIndices'[p] = j
      <3> HIDE DEF f
      <3> QED BY <1>11, <2>1, <2>2
    <2>4. f = FlatBin(b, dim) /\ b \in Vectors
      BY <1>9, <1>12 DEF Vectors
    <2>5. \A k \in Axes : LiesIn(k, particles'[j].pos[k], b[k], dim[k])
      BY <1>8, <1>10
    <2>6. PICK c : c = b
      OBVIOUS
    <2> HIDE DEF b, f
    <2>7. FlatBin(c, binDim)' = FlatBin(c, dim)
      BY <1>5, <1>7 DEF FlatBin, Along
    <2>8. BinnedAt(j, p, c)'
      <3>1. \A k \in Axes : LiesIn(k, particles[j].pos[k], c[k], binDim[k])'
        BY <1>5, <1>7, <2>5, <2>6 DEF LiesIn
      <3>2. QED
        BY <1>5, <2>3, <2>4, <2>6, <2>7, <3>1 DEF BinnedAt
    <2>9. QED
      BY <1>5, <2>4, <2>6, <2>8
  <1>14. (\A o \in Offsets(binDim, cutoff) : \E t \in 1..Len(stencil) : stencil[t] = o)'
    <2> DEFINE new == StencilOf(dim, rc)
    <2>1. new \in Seq(Vectors) /\ \A o \in Offsets(dim, rc) : \E s \in 1..Len(new) : new[s] = o
      BY <1>4, StencilType DEF Vectors
    <2>2. Offsets(binDim, cutoff)' = Offsets(dim, rc)
      BY <1>5, <1>7 DEF Offsets, Shell, CanReach, SquaredLength, SumOver, ProductOver, Along
    <2> HIDE DEF new
    <2>3. Len(stencil') = Len(stencil) + Len(new) /\ Len(stencil) \in Nat /\ Len(new) \in Nat
      BY <1>4, <1>7, <2>1 DEF new
    <2>4. \A s \in 1..Len(new) : Len(stencil) + s \in 1..Len(stencil') /\ stencil'[Len(stencil) + s] = new[s]
      BY <1>4, <1>7, <2>1, <2>3 DEF new
    <2>5. QED
      BY <2>1, <2>2, <2>4
  <1>15. (cutoff \in Cutoffs /\ binDim \in Dims(cutoff))'
    <2>1. Dims(cutoff)' = Dims(rc)
      BY <1>5, <1>7 DEF Dims, Coarser, FullDims, ProductOver, Along
    <2>2. QED
      BY <1>5, <1>7, <2>1
  <1>16. Index' = Index
    BY DEF Index
  <1>17. QED
    BY <1>13, <1>14, <1>15, <1>16 DEF TablesInv

-----------------------------------------------------------------------------
(* What a query has missed by now: nothing *)

\* The offset t leads m cells away, whether or not an int8_t holds them.
Leads(t, m) ==
  /\ \A k \in Axes : m[k] = IF Periodic[k] THEN BinAt(t)[k] \div binDim[k] ELSE 0
  /\ InBox(BinIn(t, m), binDim)

\* Particle j, m cells away, is one that next() returns at.
Hits(m, j) ==
  /\ SquaredLength([k \in Axes |-> particles[j].pos[k] - (query.at[k] - m[k] * Side[k])]) <= cutoff * cutoff
  /\ j # query.center \/ m # Zero

CenteredInv == \A k \in Axes : query.bin[k] = CenterBin(k, query.at[k])

\* No offset that was passed leads too far for an int8_t: the query would have thrown.
PassedInv ==
  \A t \in 1..(query.iter - 1), m \in Vectors : Leads(t, m) => \A k \in Axes : FitsByte(m[k])

\* The bin of the last offset reaches to the end of the open part.
LastInv ==
  \A m \in Vectors, p \in 1..Particles :
    query.iter > 1 /\ Visits(query.iter - 1, m, p) => p <= query.end

\* Whatever was passed within the cutoff was returned.
SeenInv ==
  \A t \in 1..(query.iter - 1), m \in Vectors, p \in 1..Particles :
    /\ Visits(t, m, p) /\ Hits(m, binnedIndices[p])
    /\ t = query.iter - 1 => p <= query.cursor
    => \E n \in 1..Len(query.found) : FoundAt(query.found[n], t, m, p)

\* What was returned is within the cutoff, and is not the centre itself.
TakenInv ==
  \A n \in 1..Len(query.found) :
    /\ SquaredLength(query.found[n].delta) <= cutoff * cutoff
    /\ query.found[n].index # query.center \/ query.found[n].image # Zero

EndInv == query.pc = "end" => query.cursor = query.end /\ query.iter = Len(stencil) + 1

SearchInv ==
  query.pc # "none" => CenteredInv /\ PassedInv /\ LastInv /\ SeenInv /\ TakenInv /\ EndInv

LEMMA SameSearch ==
  ASSUME Continues
  PROVE  /\ \A t, m : /\ Leads(t, m)' <=> Leads(t, m)
                      /\ \A p : Visits(t, m, p)' <=> Visits(t, m, p)
         /\ \A m, j : Hits(m, j)' <=> Hits(m, j)
         /\ \A x : FitsByte(x)' <=> FitsByte(x)
         /\ \A v : SquaredLength(v)' = SquaredLength(v)
         /\ cutoff' = cutoff /\ Zero' = Zero /\ stencil' = stencil /\ Axes' = Axes /\ Vectors' = Vectors
         /\ CenteredInv <=> CenteredInv'
  <1>1. /\ UNCHANGED <<given, prepares, prepared>>
        /\ query'.center = query.center /\ query'.at = query.at /\ query'.bin = query.bin
    BY DEF Continues
  <1>2. /\ binDim' = binDim /\ stencil' = stencil /\ particles' = particles /\ cutoff' = cutoff
        /\ binStart' = binStart /\ binnedIndices' = binnedIndices
    BY <1>1 DEF prepared
  <1>3. Axes' = Axes /\ Side' = Side /\ Periodic' = Periodic /\ ByteMax' = ByteMax /\ Vectors' = Vectors
    BY <1>1, SameTables
  <1>4. Zero' = Zero /\ \A x : FitsByte(x)' <=> FitsByte(x)
    BY <1>3 DEF Zero, FitsByte
  <1>5. \A v : SquaredLength(v)' = SquaredLength(v)
    BY <1>3 DEF SquaredLength, SumOver, Along
  <1>6. ASSUME NEW t, NEW m
        PROVE  /\ Leads(t, m)' <=> Leads(t, m)
               /\ \A p : Visits(t, m, p)' <=> Visits(t, m, p)
    <2>1. BinAt(t)' = BinAt(t)
      BY <1>1, <1>2, <1>3 DEF BinAt
    <2>2. BinIn(t, m)' = BinIn(t, m)
      BY <1>2, <1>3, <2>1 DEF BinIn
    <2>3. InBox(BinIn(t, m), binDim)' <=> InBox(BinIn(t, m), binDim)
      BY <1>2, <1>3, <2>2 DEF InBox
    <2>4. Leads(t, m)' <=> Leads(t, m)
      BY <1>2, <1>3, <2>1, <2>3 DEF Leads
    <2>5. (Crosses(t, m)' <=> Crosses(t, m)) /\ FlatAt(t, m)' = FlatAt(t, m)
      BY SameVisits
    <2>6. QED
      BY <1>2, <2>4, <2>5 DEF Visits
  <1>7. ASSUME NEW m, NEW j PROVE Hits(m, j)' <=> Hits(m, j)
    <2> DEFINE v == [k \in Axes |-> particles[j].pos[k] - (query.at[k] - m[k] * Side[k])]
    <2>1. v' = v
      BY <1>1, <1>2, <1>3
    <2>2. SquaredLength(v)' = SquaredLength(v)
      BY <1>3, <2>1 DEF SquaredLength, SumOver, Along
    <2> HIDE DEF v
    <2>3. QED
      BY <1>1, <1>2, <1>4, <2>2 DEF Hits, v
  <1>8. CenteredInv <=> CenteredInv'
    <2>1. \A k, x : CenterBin(k, x)' = CenterBin(k, x)
      BY <1>2, <1>3 DEF CenterBin, BinAlong
    <2>2. QED
      BY <1>1, <1>3, <2>1 DEF CenteredInv
  <1>9. QED
    BY <1>2, <1>3, <1>4, <1>5, <1>6, <1>7, <1>8

\* A particle in the bin that an offset leads to is visited, unless the query throws there.
LEMMA CrossesIsLeads ==
  ASSUME NEW t, NEW m
  PROVE  Crosses(t, m) <=> Leads(t, m) /\ \A k \in Axes : FitsByte(m[k])
  BY DEF Crosses, Leads

LEMMA LeadsOneWay ==
  ASSUME NEW t, NEW m \in Vectors, NEW l \in Vectors, Leads(t, m), Leads(t, l)
  PROVE  m = l
  <1>1. \A k \in Axes : m[k] = l[k]
    BY DEF Leads
  <1>2. QED
    BY <1>1 DEF Vectors

LEMMA SearchStill ==
  ASSUME FinderInv, SearchInv, query.pc # "none", Continues, query'.pc = "end" => EndInv',
         query'.iter = query.iter, query'.cursor = query.cursor, query'.end = query.end,
         query'.found = query.found
  PROVE  SearchInv'
  <1>1. CenteredInv /\ PassedInv /\ LastInv /\ SeenInv /\ TakenInv
    BY DEF SearchInv
  <1>2. /\ \A t, m : /\ Leads(t, m)' <=> Leads(t, m)
                     /\ \A p : Visits(t, m, p)' <=> Visits(t, m, p)
                     /\ \A e, p : FoundAt(e, t, m, p)' <=> FoundAt(e, t, m, p)
        /\ \A m, j : Hits(m, j)' <=> Hits(m, j)
        /\ \A x : FitsByte(x)' <=> FitsByte(x)
        /\ \A v : SquaredLength(v)' = SquaredLength(v)
        /\ cutoff' = cutoff /\ Zero' = Zero /\ stencil' = stencil /\ Axes' = Axes /\ Vectors' = Vectors
        /\ CenteredInv'
    BY <1>1, SameSearch, SameVisits
  <1>3. binnedIndices' = binnedIndices /\ query'.center = query.center
    BY DEF Continues, prepared
  <1>4. PassedInv'
    BY <1>1, <1>2 DEF PassedInv
  <1>5. LastInv'
    BY <1>1, <1>2 DEF LastInv
  <1>6. SeenInv'
    BY <1>1, <1>2, <1>3 DEF SeenInv
  <1>7. TakenInv'
    BY <1>1, <1>2, <1>3 DEF TakenInv
  <1>8. EndInv'
    BY DEF EndInv
  <1>9. QED
    BY <1>2, <1>4, <1>5, <1>6, <1>7, <1>8 DEF SearchInv

\* An offset is passed whose bin, if there is one, is the open part of the array.
LEMMA SearchAdvances ==
  ASSUME FinderInv, SearchInv, query.pc # "none", query'.pc # "end", Continues,
         query.cursor = query.end, query'.iter = query.iter + 1, query'.found = query.found,
         \A m \in Vectors : Leads(query.iter, m) => \A k \in Axes : FitsByte(m[k]),
         \A m \in Vectors, p \in 1..Particles :
           Visits(query.iter, m, p) => ~(p <= query'.cursor) /\ p <= query'.end
  PROVE  SearchInv'
  <1>1. CenteredInv /\ PassedInv /\ LastInv /\ SeenInv /\ TakenInv
    BY DEF SearchInv
  <1>2. /\ \A t, m : /\ Leads(t, m)' <=> Leads(t, m)
                     /\ \A p : Visits(t, m, p)' <=> Visits(t, m, p)
                     /\ \A e, p : FoundAt(e, t, m, p)' <=> FoundAt(e, t, m, p)
        /\ \A m, j : Hits(m, j)' <=> Hits(m, j)
        /\ \A x : FitsByte(x)' <=> FitsByte(x)
        /\ \A v : SquaredLength(v)' = SquaredLength(v)
        /\ cutoff' = cutoff /\ Zero' = Zero /\ stencil' = stencil /\ Axes' = Axes /\ Vectors' = Vectors
        /\ CenteredInv'
    BY <1>1, SameSearch, SameVisits
  <1>3. binnedIndices' = binnedIndices /\ query'.center = query.center
    BY DEF Continues, prepared
  <1>4. PICK u : u = query.iter
    OBVIOUS
  <1>5. u \in Nat /\ u >= 1 /\ query'.iter = u + 1 /\ query.iter = u
    BY <1>4, QueryOpen DEF Queries, PlacedInv
  <1>6. PassedInv'
    <2>1. \A t \in 1..u, m \in Vectors : Leads(t, m) => \A k \in Axes : FitsByte(m[k])
      <3> TAKE t \in 1..u
      <3>1. CASE t = u
        BY <1>5, <3>1
      <3>2. CASE t # u
        <4>1. t \in 1..(u - 1)
          BY <1>5, <3>2
        <4>2. QED
          BY <1>1, <1>5, <4>1 DEF PassedInv
      <3>3. QED
        BY <3>1, <3>2
    <2>2. query'.iter - 1 = u
      BY <1>5
    <2>3. QED
      BY <1>2, <2>1, <2>2 DEF PassedInv
  <1>7. LastInv'
    <2>1. query'.iter - 1 = u
      BY <1>5
    <2>2. \A m \in Vectors, p \in 1..Particles : Visits(u, m, p) => p <= query'.end
      BY <1>5
    <2>3. QED
      BY <1>2, <2>1, <2>2 DEF LastInv
  <1>8. SeenInv'
    <2>1. ASSUME NEW t \in 1..u, NEW m \in Vectors, NEW p \in 1..Particles,
                 Visits(t, m, p), Hits(m, binnedIndices[p]), t = u => p <= query'.cursor
          PROVE  \E n \in 1..Len(query.found) : FoundAt(query.found[n], t, m, p)
      <3>1. t # u
        BY <1>5, <2>1
      <3>2. t \in 1..(u - 1)
        BY <1>5, <3>1
      <3>3. t = u - 1 => p <= query.cursor
        <4>1. SUFFICES ASSUME t = u - 1 PROVE p <= query.end
          OBVIOUS
        <4>2. query.iter > 1
          BY <1>5, <3>2, <4>1
        <4>3. QED
          BY <1>1, <1>5, <2>1, <4>1, <4>2 DEF LastInv
      <3>4. QED
        BY <1>1, <1>5, <2>1, <3>2, <3>3 DEF SeenInv
    <2>2. query'.iter - 1 = u
      BY <1>5
    <2>3. QED
      BY <1>2, <1>3, <2>1, <2>2 DEF SeenInv
  <1>9. TakenInv'
    BY <1>1, <1>2, <1>3 DEF TakenInv
  <1>10. EndInv'
    BY DEF EndInv
  <1>11. QED
    BY <1>2, <1>6, <1>7, <1>8, <1>9, <1>10 DEF SearchInv

LEMMA SearchNextBin ==
  ASSUME FinderInv, SearchInv, NextBin
  PROVE  SearchInv'
  <1> DEFINE t == query.iter
             bin == [k \in Axes |-> query.bin[k] + stencil[query.iter][k]]
             m == [k \in Axes |-> IF Periodic[k] THEN CellsCrossed(bin[k], binDim[k]) ELSE 0]
             flat == FlatBin([k \in Axes |-> bin[k] - m[k] * binDim[k]], binDim)
             Skips(k) == ~Periodic[k] /\ bin[k] \notin 0..(binDim[k] - 1)
             Throws == \E k \in Axes : ~FitsByte(m[k]) /\ ~\E j \in Axes : j < k /\ Skips(j)
  <1>1. /\ query.pc = "scan" /\ query.cursor = query.end /\ query.iter <= Len(stencil)
        /\ UNCHANGED <<given, prepares, prepared>>
    BY DEF NextBin
  <1>2. \/ query' = [query EXCEPT !.pc = "thrown"]
        \/ /\ \E k \in Axes : Skips(k)
           /\ query' = [query EXCEPT !.iter = @ + 1]
        \/ /\ \A k \in Axes : ~Skips(k) /\ FitsByte(m[k])
           /\ query' = [query EXCEPT !.iter = @ + 1,
                          !.shift = [k \in Axes |-> Byte(m[k])],
                          !.shifted = [k \in Axes |-> query.at[k] - m[k] * Side[k]],
                          !.cursor = binStart[flat], !.end = binStart[flat + 1]]
    BY DEF NextBin
  <1>3. bin = BinAt(t) /\ [k \in Axes |-> bin[k] - m[k] * binDim[k]] = BinIn(t, m)
    BY Zenon DEF BinAt, BinIn
  <1>4. m = [k \in Axes |-> IF Periodic[k] THEN CellsCrossed(BinAt(t)[k], binDim[k]) ELSE 0]
    BY <1>3
  <1>5. flat = FlatAt(t, m)
    BY <1>3 DEF FlatAt
  <1>6. /\ PreparedInv /\ prepares > 0 /\ query \in Queries /\ PlacedInv
        /\ cell \in Cells /\ binDim \in Counts /\ stencil \in Seq(Vectors)
    BY <1>1, QueryOpen
  <1> HIDE DEF m, flat
  <1>7. /\ query.iter \in 1..Len(stencil) /\ query.iter \in Nat /\ query.bin \in Vectors
        /\ Len(stencil) \in Nat
    BY <1>1, <1>6 DEF Queries, PlacedInv
  <1>8. CASE query' = [query EXCEPT !.pc = "thrown"]
    <2>1. /\ query'.center = query.center /\ query'.at = query.at /\ query'.bin = query.bin
          /\ query'.cursor = query.cursor /\ query'.end = query.end /\ query'.iter = query.iter
          /\ query'.found = query.found /\ query'.pc = "thrown"
      BY <1>6, <1>8 DEF Queries
    <2>2. Continues
      BY <1>1, <2>1 DEF Continues
    <2>3. QED
      BY <1>1, <2>1, <2>2, SearchStill
  <1>9. ASSUME NEW k \in Axes, Skips(k), query' = [query EXCEPT !.iter = @ + 1]
        PROVE  SearchInv'
    <2>1. /\ query'.center = query.center /\ query'.at = query.at /\ query'.bin = query.bin
          /\ query'.cursor = query.cursor /\ query'.end = query.end /\ query'.iter = query.iter + 1
          /\ query'.found = query.found /\ query'.pc = "scan"
      BY <1>1, <1>6, <1>9 DEF Queries
    <2>2. Continues
      BY <1>1, <2>1 DEF Continues
    <2>3. ASSUME NEW l \in Vectors, Leads(t, l) PROVE FALSE
      <3> DEFINE b == BinAt(t)[k]
                 n == binDim[k]
      <3>1. l[k] = 0 /\ b - l[k] * n \in 0..(n - 1)
        BY <1>9, <2>3 DEF Leads, InBox, BinIn
      <3>2. b \in Int /\ n \in Int /\ b \notin 0..(n - 1)
        <4>1. BinAt(t) \in Vectors
          BY <1>6, <1>7, <2>3, BinInType
        <4>2. QED
          BY <1>3, <1>6, <1>9, <4>1 DEF Vectors, Counts
      <3> HIDE DEF b, n
      <3>3. QED
        BY <3>1, <3>2
    <2>4. \A l \in Vectors : ~Leads(query.iter, l)
      BY <2>3
    <2>5. \A p : \A l \in Vectors : ~Visits(query.iter, l, p)
      BY <2>4, CrossesIsLeads DEF Visits
    <2>6. QED
      BY <1>1, <2>1, <2>2, <2>4, <2>5, SearchAdvances
  <1>10. ASSUME \A k \in Axes : ~Skips(k) /\ FitsByte(m[k]),
                query' = [query EXCEPT !.iter = @ + 1,
                            !.shift = [k \in Axes |-> Byte(m[k])],
                            !.shifted = [k \in Axes |-> query.at[k] - m[k] * Side[k]],
                            !.cursor = binStart[flat], !.end = binStart[flat + 1]]
         PROVE  SearchInv'
    <2>1. m \in Vectors /\ Crosses(t, m)
      <3>1. \A k \in Axes : FitsByte(m[k]) /\ (Periodic[k] \/ BinAt(t)[k] \in 0..(binDim[k] - 1))
        <4>1. \A k \in Axes : Periodic[k] \/ bin[k] \in 0..(binDim[k] - 1)
          BY <1>10
        <4>2. QED
          BY <1>3, <1>10, <4>1
      <3> HIDE DEF t, bin
      <3>2. QED
        BY <1>4, <1>6, <1>7, <3>1, CellsCounted DEF t
    <2>2. BinIn(t, m) \in Vectors /\ InBox(BinIn(t, m), binDim)
      BY <1>6, <1>7, <2>1, BinInType DEF Crosses
    <2>3. flat \in 0..(ProductOver(binDim) - 1) /\ ProductOver(binDim) \in Nat
      BY <1>5, <1>6, <2>2, FlatInArray DEF FlatAt, Vectors
    <2>4. binStart[flat] \in 0..Particles /\ binStart[flat + 1] \in 0..Particles
      <3>1. binStart \in [0..ProductOver(binDim) -> 0..Particles]
        BY <1>6 DEF PreparedInv, BinsInv
      <3>2. flat \in 0..ProductOver(binDim) /\ flat + 1 \in 0..ProductOver(binDim)
        BY <2>3
      <3>3. QED
        BY <3>1, <3>2
    <2>5. /\ query'.center = query.center /\ query'.at = query.at /\ query'.bin = query.bin
          /\ query'.cursor = binStart[flat] /\ query'.end = binStart[flat + 1]
          /\ query'.iter = query.iter + 1 /\ query'.found = query.found /\ query'.pc = "scan"
      BY <1>1, <1>6, <1>10 DEF Queries
    <2>6. Continues
      BY <1>1, <2>5 DEF Continues
    <2>7. Leads(t, m)
      BY <2>1, CrossesIsLeads
    <2>8. \A l \in Vectors : Leads(query.iter, l) => l = m
      BY <2>1, <2>7, LeadsOneWay
    <2>9. \A l \in Vectors : Leads(query.iter, l) => \A k \in Axes : FitsByte(l[k])
      BY <1>10, <2>8
    <2>10. ASSUME NEW l \in Vectors, NEW p \in 1..Particles, Visits(query.iter, l, p)
           PROVE  ~(p <= query'.cursor) /\ p <= query'.end
      <3>1. l = m
        BY <2>8, <2>10, CrossesIsLeads DEF Visits
      <3>2. binStart[flat] < p /\ p <= binStart[flat + 1]
        BY <1>5, <2>10, <3>1 DEF Visits
      <3>3. QED
        BY <2>4, <2>5, <3>2
    <2>11. QED
      BY <1>1, <2>5, <2>6, <2>9, <2>10, SearchAdvances
  <1>11. QED
    BY <1>2, <1>8, <1>9, <1>10

LEMMA SearchScan ==
  ASSUME FinderInv, SearchInv, ScanParticle
  PROVE  SearchInv'
  <1> DEFINE idx == binnedIndices[query.cursor + 1]
             delta == [k \in Axes |-> particles[idx].pos[k] - query.shifted[k]]
             e == [index |-> idx, delta |-> delta, image |-> Unwrapped(query.center, idx, query.shift)]
             old == query.found
  <1>1. /\ query.pc = "scan" /\ query.cursor < query.end
        /\ UNCHANGED <<given, prepares, prepared>>
    BY DEF ScanParticle
  <1>2. /\ PreparedInv /\ prepares > 0 /\ query \in Queries /\ PlacedInv /\ OpenInv
        /\ cell \in Cells /\ stencil \in Seq(Vectors)
        /\ particles \in [Index -> [pos : Vectors, shift : Vectors]]
    BY <1>1, QueryOpen
  <1>3. CenteredInv /\ PassedInv /\ LastInv /\ SeenInv /\ TakenInv
    BY <1>1 DEF SearchInv
  <1>4. e \in Entries /\ FoundAt(e, query.iter - 1, query.shift, query.cursor + 1)
    BY <1>1, EntryFound
  <1>5. /\ query.iter - 1 \in 1..Len(stencil) /\ Visits(query.iter - 1, query.shift, query.cursor + 1)
        /\ query.cursor + 1 \in 1..Particles /\ idx \in Index
    BY <1>1, <1>2, OpenBin
  <1>6. /\ query.cursor \in Nat /\ query.iter \in Nat /\ query.shift \in Vectors /\ old \in Seq(Entries)
        /\ query.center \in Index /\ query.shifted = [k \in Axes |-> query.at[k] - query.shift[k] * Side[k]]
    BY <1>1, <1>2 DEF Queries, OpenInv
  <1>7. \/ /\ IsNeighbor(idx, delta)
           /\ query' = [query EXCEPT !.cursor = @ + 1, !.pc = "returned", !.found = Append(@, e)]
        \/ /\ ~IsNeighbor(idx, delta)
           /\ query' = [query EXCEPT !.cursor = @ + 1]
    BY DEF ScanParticle
  <1>8. delta = [k \in Axes |-> particles[idx].pos[k] - (query.at[k] - query.shift[k] * Side[k])]
    <2>1. \A k \in Axes : query.shifted[k] = query.at[k] - query.shift[k] * Side[k]
      BY <1>6
    <2>2. QED
      BY <2>1
  <1>9. e.index = idx /\ e.delta = delta /\ e.image = Unwrapped(query.center, idx, query.shift)
    OBVIOUS
  <1> HIDE DEF delta, e, idx, old
  <1>10. IsNeighbor(idx, delta) <=> Hits(query.shift, idx)
    BY <1>8 DEF IsNeighbor, Hits
  <1>11. /\ query'.center = query.center /\ query'.at = query.at /\ query'.bin = query.bin
         /\ query'.iter = query.iter /\ query'.end = query.end /\ query'.cursor = query.cursor + 1
         /\ query'.pc # "none" /\ query'.pc # "end"
         /\ \/ IsNeighbor(idx, delta) /\ query'.found = Append(old, e)
            \/ ~IsNeighbor(idx, delta) /\ query'.found = old
    BY <1>1, <1>2, <1>7 DEF Queries, old
  <1>12. Continues
    BY <1>1, <1>11 DEF Continues
  <1>13. /\ \A t, m : /\ Leads(t, m)' <=> Leads(t, m)
                      /\ \A p : Visits(t, m, p)' <=> Visits(t, m, p)
                      /\ \A f, p : FoundAt(f, t, m, p)' <=> FoundAt(f, t, m, p)
         /\ \A m, j : Hits(m, j)' <=> Hits(m, j)
         /\ \A x : FitsByte(x)' <=> FitsByte(x)
         /\ \A v : SquaredLength(v)' = SquaredLength(v)
         /\ cutoff' = cutoff /\ Zero' = Zero /\ stencil' = stencil /\ Axes' = Axes /\ Vectors' = Vectors
         /\ CenteredInv'
    BY <1>3, <1>12, SameSearch, SameVisits
  <1>14. binnedIndices' = binnedIndices
    BY <1>1 DEF prepared
  <1>15. PassedInv' /\ LastInv'
    BY <1>3, <1>11, <1>13 DEF PassedInv, LastInv
  <1>16. /\ \A n \in 1..Len(old) : n \in 1..Len(query'.found) /\ query'.found[n] = old[n]
         /\ IsNeighbor(idx, delta) => \E n \in 1..Len(query'.found) : query'.found[n] = e
         /\ \A n \in 1..Len(query'.found) :
              n \in 1..Len(old) \/ (IsNeighbor(idx, delta) /\ query'.found[n] = e)
    <2>1. CASE query'.found = old /\ ~IsNeighbor(idx, delta)
      BY <2>1
    <2>2. CASE query'.found = Append(old, e) /\ IsNeighbor(idx, delta)
      <3>1. /\ Len(Append(old, e)) = Len(old) + 1 /\ Len(old) \in Nat
            /\ \A n \in 1..Len(old) : Append(old, e)[n] = old[n]
            /\ Append(old, e)[Len(old) + 1] = e
        BY <1>4, <1>6
      <3>2. QED
        BY <2>2, <3>1
    <2>3. QED
      BY <1>11, <2>1, <2>2
  <1>17. SeenInv'
    <2>1. ASSUME NEW t \in 1..(query.iter - 1), NEW m \in Vectors, NEW p \in 1..Particles,
                 Visits(t, m, p), Hits(m, binnedIndices[p]),
                 t = query.iter - 1 => p <= query.cursor + 1
          PROVE  \E n \in 1..Len(query'.found) : FoundAt(query'.found[n], t, m, p)
      <3>1. CASE t = query.iter - 1 => p <= query.cursor
        <4>1. PICK n \in 1..Len(old) : FoundAt(old[n], t, m, p)
          BY <1>3, <2>1, <3>1 DEF SeenInv, old
        <4>2. QED
          BY <1>16, <4>1
      <3>2. CASE t = query.iter - 1 /\ ~(p <= query.cursor)
        <4>1. p = query.cursor + 1
          BY <1>6, <2>1, <3>2, LimitsAssumption
        <4>2. m = query.shift
          <5>1. Leads(t, m) /\ Leads(t, query.shift)
            BY <1>5, <2>1, <3>2, CrossesIsLeads DEF Visits
          <5>2. QED
            BY <1>6, <5>1, LeadsOneWay
        <4>3. IsNeighbor(idx, delta)
          BY <1>10, <2>1, <4>1, <4>2 DEF idx
        <4>4. QED
          BY <1>4, <1>16, <3>2, <4>1, <4>2, <4>3
      <3>3. QED
        BY <3>1, <3>2
    <2>2. query'.iter - 1 = query.iter - 1 /\ query'.cursor = query.cursor + 1
      BY <1>11
    <2>3. QED
      BY <1>13, <1>14, <2>1, <2>2 DEF SeenInv
  <1>18. TakenInv'
    <2>1. \A n \in 1..Len(old) :
            /\ SquaredLength(old[n].delta) <= cutoff * cutoff
            /\ old[n].index # query.center \/ old[n].image # Zero
      BY <1>3 DEF TakenInv, old
    <2>2. ASSUME IsNeighbor(idx, delta)
          PROVE  /\ SquaredLength(e.delta) <= cutoff * cutoff
                 /\ e.index # query.center \/ e.image # Zero
      <3>1. SquaredLength(e.delta) <= cutoff * cutoff
        BY <1>9, <2>2 DEF IsNeighbor
      <3>2. CASE idx # query.center
        BY <1>9, <3>1, <3>2
      <3>3. CASE idx = query.center
        <4>1. query.shift # Zero
          BY <2>2, <3>3 DEF IsNeighbor
        <4>2. PICK k \in Axes : query.shift[k] # 0
          BY <1>6, <4>1 DEF Vectors, Zero
        <4>3. query.shift[k] \in Int /\ FitsByte(query.shift[k]) /\ particles[idx].shift[k] \in Int
          <5>1. particles[idx].shift \in Vectors
            BY <1>2, <1>5
          <5>2. QED
            BY <1>5, <1>6, <5>1 DEF Vectors, Visits, Crosses
        <4>4. e.image[k] = Byte(query.shift[k] - particles[idx].shift[k] + particles[idx].shift[k])
          BY <1>9, <3>3 DEF Unwrapped
        <4>5. query.shift[k] - particles[idx].shift[k] + particles[idx].shift[k] = query.shift[k]
          BY <4>3
        <4>6. e.image[k] = query.shift[k]
          BY <1>2, <4>3, <4>4, <4>5, CellType, ByteKeeps DEF FitsByte
        <4>7. e.image # Zero
          BY <4>2, <4>6 DEF Zero
        <4>8. QED
          BY <3>1, <4>7
      <3>4. QED
        BY <3>1, <3>2, <3>3
    <2>3. \A n \in 1..Len(query'.found) :
            /\ SquaredLength(query'.found[n].delta) <= cutoff * cutoff
            /\ query'.found[n].index # query.center \/ query'.found[n].image # Zero
      BY <1>16, <2>1, <2>2
    <2>4. QED
      BY <1>11, <1>13, <2>3 DEF TakenInv
  <1>19. EndInv'
    BY <1>11 DEF EndInv
  <1>20. QED
    BY <1>13, <1>15, <1>17, <1>18, <1>19 DEF SearchInv

LEMMA SearchReturns ==
  ASSUME FinderInv, SearchInv, ReachEnd \/ CallNext
  PROVE  SearchInv'
  <1>1. /\ query.pc # "none" /\ UNCHANGED <<given, prepares, prepared>>
        /\ \/ /\ query.cursor = query.end /\ query.iter > Len(stencil)
              /\ query' = [query EXCEPT !.pc = "end"]
           \/ query' = [query EXCEPT !.pc = "scan"]
    BY DEF ReachEnd, CallNext
  <1>2. query \in Queries /\ PlacedInv /\ stencil \in Seq(Vectors)
    BY <1>1, QueryOpen
  <1>3. /\ query'.center = query.center /\ query'.at = query.at /\ query'.bin = query.bin
        /\ query'.cursor = query.cursor /\ query'.end = query.end /\ query'.iter = query.iter
        /\ query'.found = query.found /\ stencil' = stencil
        /\ query'.pc = "end" => query.cursor = query.end /\ query.iter > Len(stencil)
    BY <1>1, <1>2 DEF Queries, prepared
  <1>4. query.iter > Len(stencil) => query.iter = Len(stencil) + 1
    BY <1>2 DEF PlacedInv
  <1>5. query'.pc = "end" => EndInv'
    BY <1>3, <1>4 DEF EndInv
  <1>6. Continues
    BY <1>1, <1>3 DEF Continues
  <1>7. QED
    BY <1>1, <1>3, <1>5, <1>6, SearchStill

LEMMA SearchNewQuery ==
  ASSUME FinderInv, NEW i \in Index, NewQuery(i)
  PROVE  SearchInv'
  <1>1. UNCHANGED <<given, prepares, prepared>>
    BY DEF NewQuery
  <1>2. /\ query'.pc = "scan" /\ query'.iter = 1 /\ query'.found = <<>>
        /\ query'.at = particles[i].pos
        /\ query'.bin = [k \in Axes |-> CenterBin(k, particles[i].pos[k])]
    BY DEF NewQuery
  <1>3. binDim' = binDim /\ Axes' = Axes /\ Side' = Side
    BY <1>1, SameTables DEF prepared
  <1>4. \A k, x : CenterBin(k, x)' = CenterBin(k, x)
    BY <1>3 DEF CenterBin, BinAlong
  <1>5. CenteredInv'
    BY <1>2, <1>3, <1>4 DEF CenteredInv
  <1>6. PassedInv' /\ LastInv' /\ SeenInv'
    BY <1>2 DEF PassedInv, LastInv, SeenInv
  <1>7. TakenInv' /\ EndInv'
    BY <1>2 DEF TakenInv, EndInv
  <1>8. QED
    BY <1>5, <1>6, <1>7 DEF SearchInv

\* All that a query relies on and keeps, to miss nothing
ThoroughInv == FinderInv /\ TablesInv /\ SearchInv

LEMMA SameBinned ==
  ASSUME UNCHANGED <<given, prepares, prepared>>, TablesInv
  PROVE  TablesInv'
  <1>1. /\ cell' = cell /\ prepares' = prepares /\ cutoff' = cutoff
        /\ binDim' = binDim /\ stencil' = stencil /\ particles' = particles
        /\ binStart' = binStart /\ binnedIndices' = binnedIndices
    BY DEF given, prepared
  <1>2. /\ Axes' = Axes /\ Side' = Side /\ Periodic' = Periodic /\ Vectors' = Vectors /\ Index' = Index
        /\ Cutoffs' = Cutoffs /\ BinCountLimit' = BinCountLimit
    BY <1>1 DEF Axes, Side, Periodic, Vectors, Index, Cutoffs, BinCountLimit
  <1>3. \A j, p, b : BinnedAt(j, p, b)' <=> BinnedAt(j, p, b)
    <2>1. \A b : FlatBin(b, binDim)' = FlatBin(b, binDim)
      BY <1>1, <1>2 DEF FlatBin, Along
    <2>2. \A k, x, b, n : LiesIn(k, x, b, n)' <=> LiesIn(k, x, b, n)
      BY <1>2 DEF LiesIn
    <2>3. QED
      BY <1>1, <1>2, <2>1, <2>2 DEF BinnedAt
  <1>4. Offsets(binDim, cutoff)' = Offsets(binDim, cutoff)
    BY <1>1, <1>2 DEF Offsets, Shell, CanReach, SquaredLength, SumOver, ProductOver, Along
  <1>5. Dims(cutoff)' = Dims(cutoff)
    BY <1>1, <1>2 DEF Dims, Coarser, FullDims, ProductOver, Along
  <1>6. QED
    BY <1>1, <1>2, <1>3, <1>4, <1>5 DEF TablesInv

LEMMA ThoroughInvHolds == Spec => []ThoroughInv
  <1>1. Init => TablesInv /\ SearchInv
    BY DEF Init, TablesInv, SearchInv, NoQuery
  <1>2. FinderInv /\ TablesInv /\ SearchInv /\ [Next]_vars => TablesInv' /\ SearchInv'
    <2> SUFFICES ASSUME FinderInv, TablesInv, SearchInv, [Next]_vars PROVE TablesInv' /\ SearchInv'
      OBVIOUS
    <2>1. CASE Prepare
      <3>1. TablesInv'
        BY <2>1, PrepareTables DEF FinderInv
      <3>2. query'.pc = "none"
        BY <2>1 DEF Prepare, NoQuery
      <3>3. QED
        BY <3>1, <3>2 DEF SearchInv
    <2>2. ASSUME NEW i \in Index, NewQuery(i) PROVE TablesInv' /\ SearchInv'
      <3>1. UNCHANGED <<given, prepares, prepared>>
        BY <2>2 DEF NewQuery
      <3>2. QED
        BY <2>2, <3>1, SameBinned, SearchNewQuery
    <2>3. CASE ScanParticle
      <3>1. UNCHANGED <<given, prepares, prepared>>
        BY <2>3 DEF ScanParticle
      <3>2. QED
        BY <2>3, <3>1, SameBinned, SearchScan
    <2>4. CASE NextBin
      <3>1. UNCHANGED <<given, prepares, prepared>>
        BY <2>4 DEF NextBin
      <3>2. QED
        BY <2>4, <3>1, SameBinned, SearchNextBin
    <2>5. CASE ReachEnd \/ CallNext
      <3>1. UNCHANGED <<given, prepares, prepared>>
        BY <2>5 DEF ReachEnd, CallNext
      <3>2. QED
        BY <2>5, <3>1, SameBinned, SearchReturns
    <2>6. CASE UNCHANGED vars
      <3>1. UNCHANGED <<given, prepares, prepared>> /\ query' = query
        BY <2>6 DEF vars
      <3>2. SearchInv'
        <4>1. CASE query.pc = "none"
          BY <3>1, <4>1 DEF SearchInv
        <4>2. CASE query.pc # "none"
          <5>1. stencil' = stencil /\ EndInv
            BY <3>1, <4>2 DEF prepared, SearchInv
          <5>2. EndInv'
            BY <3>1, <5>1 DEF EndInv
          <5>3. Continues
            BY <3>1 DEF Continues
          <5>4. QED
            BY <3>1, <4>2, <5>2, <5>3, SearchStill
        <4>3. QED
          BY <4>1, <4>2
      <3>3. QED
        BY <3>1, <3>2, SameBinned
    <2>7. QED
      BY <2>1, <2>2, <2>3, <2>4, <2>5, <2>6 DEF Next
  <1>3. QED
    BY <1>1, <1>2, FinderInvHolds, PTL DEF Spec, ThoroughInv

-----------------------------------------------------------------------------
(* Every image within the cutoff is visited *)

LEMMA ImageType ==
  ASSUME NEW m \in Images
  PROVE  m \in Vectors
  <1>1. m \in [Axes -> (-Farthest)..Farthest]
    BY DEF Images
  <1>2. (-Farthest)..Farthest \subseteq Int
    OBVIOUS
  <1>3. QED
    BY <1>1, <1>2 DEF Vectors

LEMMA CenterHolds ==
  ASSUME cell \in Cells, binDim \in Counts, NEW k \in Axes, NEW x \in Int
  PROVE  LET b == CenterBin(k, x)
         IN /\ b \in 0..binDim[k]
            /\ b >= 1 => Side[k] * b <= x * binDim[k]
            /\ b <= binDim[k] - 1 => x * binDim[k] < Side[k] * (b + 1)
  <1> DEFINE n == binDim[k]
             len == Side[k]
             b == (x * n) \div len
             c == CenterBin(k, x)
  <1>1. n \in Nat \ {0} /\ len \in Nat \ {0}
    BY CellType DEF Counts
  <1>2. b \in Int /\ len * b <= x * n /\ x * n < len * (b + 1)
    <2> HIDE DEF n, len
    <2> QED BY <1>1, BinHolds
  <1>3. c = Max({Min({b, n}), 0})
    BY DEF CenterBin, BinAlong
  <1> HIDE DEF n, len, b, c
  <1> DEFINE low == Min({b, n})
  <1>4. low = IF b <= n THEN b ELSE n
    BY <1>1, <1>2, MinOfTwo
  <1> HIDE DEF low
  <1>5. Max({low, 0}) = IF low >= 0 THEN low ELSE 0
    BY <1>1, <1>2, <1>4, MaxOfTwo
  <1>6. c = IF b < 0 THEN 0 ELSE IF b <= n THEN b ELSE n
    BY <1>1, <1>2, <1>3, <1>4, <1>5 DEF low
  <1>7. c \in 0..n
    BY <1>1, <1>2, <1>6
  <1>8. c >= 1 => len * c <= x * n
    <2> SUFFICES ASSUME c >= 1 PROVE len * c <= x * n
      OBVIOUS
    <2>1. c <= b
      BY <1>1, <1>2, <1>6
    <2>2. len * c <= len * b
      BY <1>1, <1>2, <1>7, <2>1
    <2>3. len * c \in Int /\ len * b \in Int /\ x * n \in Int
      BY <1>1, <1>2, <1>7
    <2> DEFINE lc == len * c
               lb == len * b
               xn == x * n
    <2> HIDE DEF lc, lb, xn
    <2>4. QED
      BY <1>2, <2>2, <2>3 DEF lc, lb, xn
  <1>9. c <= n - 1 => x * n < len * (c + 1)
    <2> SUFFICES ASSUME c <= n - 1 PROVE x * n < len * (c + 1)
      OBVIOUS
    <2>1. b <= c
      BY <1>1, <1>2, <1>6
    <2>2. len * (b + 1) <= len * (c + 1)
      BY <1>1, <1>2, <1>7, <2>1
    <2>3. len * (c + 1) \in Int /\ len * (b + 1) \in Int /\ x * n \in Int
      BY <1>1, <1>2, <1>7
    <2> DEFINE lc == len * (c + 1)
               lb == len * (b + 1)
               xn == x * n
    <2> HIDE DEF lc, lb, xn
    <2>4. QED
      BY <1>2, <2>2, <2>3 DEF lc, lb, xn
  <1>10. QED
    BY <1>7, <1>8, <1>9 DEF c, n, len

\* Along an axis, an image of y lies no closer to the centre x than the bins between them;
\* exactly as close only if y was rounded onto a face.
LEMMA AxisInReach ==
  ASSUME cell \in Cells, binDim \in Counts, NEW k \in Axes, NEW x \in Int, NEW y \in Int,
         NEW c \in Int, LiesIn(k, y, c, binDim[k]), NEW m \in Int,
         Periodic[k] => x \in 0..Side[k], ~Periodic[k] => m = 0,
         NEW o, o = c + m * binDim[k] - CenterBin(k, x)
  PROVE  LET d == y + m * Side[k] - x
         IN /\ o \in Int
            /\ Gap(o) * Side[k] <= Abs(d) * binDim[k]
            /\ \/ Gap(o) = 0 \/ Gap(o) * Side[k] < Abs(d) * binDim[k]
               \/ Periodic[k] /\ y = Side[k]
            /\ ~Periodic[k] /\ binDim[k] = 1 => Gap(o) = 0
  <1> DEFINE n == binDim[k]
             s == Side[k]
             b == CenterBin(k, x)
  <1>1. n \in Nat \ {0} /\ s \in Nat \ {0} /\ Periodic[k] \in BOOLEAN
    BY CellType DEF Counts
  <1>2. b \in 0..n /\ (b >= 1 => s * b <= x * n) /\ (b <= n - 1 => x * n < s * (b + 1))
    BY CenterHolds
  <1>3. /\ c \in 0..(n - 1)
        /\ (Periodic[k] \/ c >= 1) => s * c <= y * n
        /\ (Periodic[k] \/ c <= n - 2) =>
             y * n < s * (c + 1) \/ (Periodic[k] /\ y = s /\ y * n = s * (c + 1))
    BY DEF LiesIn
  <1>4. o = c + m * n - b
    OBVIOUS
  <1> HIDE DEF n, b, s
  <1>5. o \in Int
    <2>1. m * n \in Int
      BY <1>1
    <2>2. QED
      BY <1>2, <1>4, <2>1
  <1>6. Periodic[k] => s * b <= x * n /\ x * n < s * (b + 1)
    <2> SUFFICES ASSUME Periodic[k] PROVE s * b <= x * n /\ x * n < s * (b + 1)
      OBVIOUS
    <2>1. x >= 0 /\ x <= s
      BY DEF s
    <2>2. x * n >= 0 /\ x * n <= s * n /\ s * n < s * (n + 1) /\ s * 0 = 0
      BY <1>1, <2>1
    <2>3. x * n \in Int /\ s * n \in Int /\ s * (n + 1) \in Int
      BY <1>1
    <2>4. x * n < s * (n + 1)
      <3> DEFINE xn == x * n
                 sn == s * n
                 sn1 == s * (n + 1)
      <3> HIDE DEF xn, sn, sn1
      <3> QED BY <2>2, <2>3 DEF xn, sn, sn1
    <2>5. b = 0 \/ b >= 1
      BY <1>2
    <2>6. b = n \/ b <= n - 1
      BY <1>1, <1>2
    <2>7. s * b <= x * n
      BY <1>2, <2>2, <2>5
    <2>8. x * n < s * (b + 1)
      BY <1>2, <2>4, <2>6
    <2>9. QED
      BY <2>7, <2>8
  <1>7. ~Periodic[k] => o = c - b
    <2>1. 0 * n = 0
      BY <1>1
    <2>2. QED
      BY <1>2, <1>3, <1>4, <2>1
  <1>8. o >= 2 => x * n < s * (b + 1) /\ s * c <= y * n
    <2>1. ~Periodic[k] /\ o >= 2 => b <= n - 1 /\ c >= 1
      BY <1>1, <1>2, <1>3, <1>7
    <2>2. QED
      BY <1>1, <1>2, <1>3, <1>6, <2>1
  <1>9. o <= -2 => /\ s * b <= x * n
                   /\ y * n < s * (c + 1) \/ (Periodic[k] /\ y = s /\ y * n = s * (c + 1))
    <2>1. ~Periodic[k] /\ o <= -2 => b >= 1 /\ c <= n - 2
      BY <1>1, <1>2, <1>3, <1>7
    <2>2. QED
      BY <1>1, <1>2, <1>3, <1>6, <2>1
  <1>10. y * n \in Int /\ s * (c + 1) \in Int
    BY <1>1
  <1>11. o <= -2 => /\ s * b <= x * n /\ y * n <= s * (c + 1)
                    /\ y * n = s * (c + 1) => Periodic[k] /\ y = s
    <2> DEFINE yn == y * n
               sc == s * (c + 1)
    <2> HIDE DEF yn, sc
    <2>1. yn \in Int /\ sc \in Int
      BY <1>10 DEF yn, sc
    <2>2. o <= -2 => yn < sc \/ (Periodic[k] /\ y = s /\ yn = sc)
      BY <1>9 DEF yn, sc
    <2>3. o <= -2 => yn <= sc /\ (yn = sc => Periodic[k] /\ y = s)
      BY <2>1, <2>2
    <2>4. QED
      BY <1>9, <2>3 DEF yn, sc
  <1> DEFINE d == y + m * s - x
  <1>12. /\ Gap(o) * s <= Abs(d) * n
         /\ Gap(o) = 0 \/ Gap(o) * s < Abs(d) * n \/ (o <= -2 /\ y * n = s * (c + 1))
    <2>1. b \in Int
      BY <1>2
    <2>2. o >= 2 => x * n < s * (b + 1) /\ s * c <= y * n
      BY <1>8
    <2>3. o <= -2 => s * b <= x * n /\ y * n <= s * (c + 1)
      BY <1>11
    <2>4. Binned(n, s, x, y, b, c, m, o)
      BY <1>4, <2>2, <2>3 DEF Binned
    <2>5. Apart(n, s, y, c, o, d)
      BY <1>1, <1>5, <2>1, <2>4, AxisGap
    <2>6. QED
      BY <2>5 DEF Apart
  <1>13. ~Periodic[k] /\ n = 1 => Gap(o) = 0
    <2>1. ~Periodic[k] /\ n = 1 => o = 0 \/ o = -1
      BY <1>2, <1>3, <1>7
    <2>2. QED
      BY <1>5, <2>1, GapType
  <1> HIDE DEF d
  <1>14. QED
    BY <1>5, <1>11, <1>12, <1>13 DEF d, n, s, b

\* What is asked of the centre, of a particle and of one of its images, once the query ended
Wanted(j, l) ==
  /\ query.pc = "end"
  /\ j \in Index /\ l \in Images
  /\ Near(query.center, j, l) /\ ~Undecided(query.center, j, l)

\* The sides that prepare() moved particle i by along axis k
Moved(i, k) == CHOOSE a \in Wraps(cell, k, place[i][k]) : IsMoved(i, k, a)

LEMMA MovedType ==
  ASSUME cell \in Cells, place \in [Index -> Spots], ParticlesInv, prepares # 0,
         NEW i \in Index, NEW k \in Axes
  PROVE  /\ Moved(i, k) \in Wraps(cell, k, place[i][k]) /\ IsMoved(i, k, Moved(i, k))
         /\ Moved(i, k) \in Int /\ place[i][k] \in Int
         /\ Periodic[k] => particles[i].pos[k] \in 0..Side[k]
         /\ ~Periodic[k] => Moved(i, k) = 0
  <1>1. \E a \in Wraps(cell, k, place[i][k]) : IsMoved(i, k, a)
    BY DEF ParticlesInv
  <1>2. Moved(i, k) \in Wraps(cell, k, place[i][k]) /\ IsMoved(i, k, Moved(i, k))
    BY <1>1 DEF Moved
  <1>3. place[i][k] \in Int /\ Side[k] \in Nat \ {0} /\ Periodic[k] \in BOOLEAN
    <2>1. place[i] \in Spots
      OBVIOUS
    <2>2. QED
      BY <2>1, CellType
  <1>4. \A a \in Wraps(cell, k, place[i][k]) :
          /\ a \in Int
          /\ Periodic[k] => place[i][k] + a * Side[k] \in 0..Side[k]
          /\ ~Periodic[k] => a = 0
    <2>1. place[i][k] \div Side[k] \in Int
      BY <1>3
    <2>2. QED
      BY <2>1 DEF Wraps, Side, Periodic
  <1>5. QED
    BY <1>2, <1>3, <1>4 DEF IsMoved

\* The image, counted in cells from where prepare() put the two particles
CellsTo(i, j, l) == [k \in Axes |-> l[k] + Moved(i, k) - Moved(j, k)]

LEMMA CellsToType ==
  ASSUME FinderInv, query.pc # "none", NEW j \in Index, NEW l \in Vectors,
         Near(query.center, j, l)
  PROVE  LET i == query.center
             m == CellsTo(i, j, l)
         IN /\ m \in Vectors
            /\ \A k \in Axes : ~Periodic[k] => m[k] = 0
            /\ j # i \/ m # Zero
            /\ Separation(i, j, l) = [k \in Axes |-> particles[j].pos[k] + m[k] * Side[k] - particles[i].pos[k]]
  <1> DEFINE i == query.center
             m == CellsTo(i, j, l)
  <1>1. /\ PreparedInv /\ prepares > 0 /\ query \in Queries /\ cell \in Cells
        /\ particles \in [Index -> [pos : Vectors, shift : Vectors]]
    BY QueryOpen
  <1>2. /\ i \in Index /\ place \in [Index -> Spots] /\ ParticlesInv /\ prepares # 0
    BY <1>1 DEF Queries, PreparedInv, GivenInv
  <1> HIDE DEF i
  <1>3. \A k \in Axes : /\ IsMoved(i, k, Moved(i, k)) /\ IsMoved(j, k, Moved(j, k))
                        /\ Moved(i, k) \in Int /\ Moved(j, k) \in Int /\ l[k] \in Int
                        /\ place[i][k] \in Int /\ place[j][k] \in Int /\ Side[k] \in Int
                        /\ ~Periodic[k] => Moved(i, k) = 0 /\ Moved(j, k) = 0
    BY <1>1, <1>2, MovedType, CellType DEF Vectors
  <1>4. m \in Vectors /\ \A k \in Axes : m[k] = l[k] + Moved(i, k) - Moved(j, k)
    <2>1. \A k \in Axes : l[k] + Moved(i, k) - Moved(j, k) \in Int
      BY <1>3
    <2>2. QED
      BY <2>1 DEF CellsTo, Vectors
  <1>5. /\ \A k \in Axes : Periodic[k] \/ l[k] = 0
        /\ <<j, l>> # <<i, Zero>>
    BY DEF Near, i
  <1> HIDE DEF m
  <1>6. \A k \in Axes : ~Periodic[k] => m[k] = 0
    <2> SUFFICES ASSUME NEW k \in Axes, ~Periodic[k] PROVE m[k] = 0
      OBVIOUS
    <2>1. Moved(i, k) = 0 /\ Moved(j, k) = 0
      BY <1>3
    <2>2. l[k] = 0
      BY <1>5
    <2>3. m[k] = 0 + 0 - 0
      BY <1>4, <2>1, <2>2
    <2>4. QED
      BY <2>3
  <1>7. j # i \/ m # Zero
    <2> SUFFICES ASSUME j = i, m = Zero PROVE FALSE
      OBVIOUS
    <2>1. \A k \in Axes : l[k] = 0
      BY <1>3, <1>4 DEF Zero
    <2>2. l = Zero
      BY <2>1 DEF Vectors, Zero
    <2>3. QED
      BY <1>5, <2>2
  <1>8. \A k \in Axes : place[j][k] + l[k] * Side[k] - place[i][k]
                          = particles[j].pos[k] + m[k] * Side[k] - particles[i].pos[k]
    <2> TAKE k \in Axes
    <2> DEFINE s == Side[k]
               a == Moved(i, k)
               b == Moved(j, k)
               c == l[k]
               x == place[i][k]
               y == place[j][k]
    <2>1. /\ s \in Int /\ a \in Int /\ b \in Int /\ c \in Int /\ x \in Int /\ y \in Int
          /\ m[k] = c + a - b /\ particles[i].pos[k] = x + a * s /\ particles[j].pos[k] = y + b * s
      BY <1>3, <1>4 DEF IsMoved
    <2> HIDE DEF s, a, b, c, x, y
    <2>2. y + c * s - x = (y + b * s) + (c + a - b) * s - (x + a * s)
      BY <2>1
    <2>3. QED
      BY <2>1, <2>2 DEF s, c, x, y
  <1>9. Separation(i, j, l) = [k \in Axes |-> particles[j].pos[k] + m[k] * Side[k] - particles[i].pos[k]]
    BY <1>8 DEF Separation
  <1>10. QED
    BY <1>4, <1>6, <1>7, <1>9 DEF m, i

\* The offset from the centre's bin to the bin b, m cells away
OffsetTo(b, m) == [k \in Axes |-> b[k] + m[k] * binDim[k] - query.bin[k]]

LEMMA OffsetInStencil ==
  ASSUME ThoroughInv, StencilReaches(cell), NEW j, NEW l, Wanted(j, l),
         NEW p, NEW b \in Vectors, BinnedAt(j, p, b)
  PROVE  \E t \in 1..Len(stencil) : stencil[t] = OffsetTo(b, CellsTo(query.center, j, l))
  <1> DEFINE i == query.center
             m == CellsTo(query.center, j, l)
             o == OffsetTo(b, m)
             d == [k \in Axes |-> particles[j].pos[k] + m[k] * Side[k] - particles[i].pos[k]]
  <1>1. query.pc = "end" /\ j \in Index /\ l \in Vectors /\ Near(i, j, l) /\ ~Undecided(i, j, l)
    BY ImageType DEF Wanted
  <1>2. /\ FinderInv /\ query.pc # "none" /\ PreparedInv /\ prepares > 0 /\ query \in Queries /\ PlacedInv
        /\ cell \in Cells /\ binDim \in Counts
        /\ particles \in [Index -> [pos : Vectors, shift : Vectors]]
    BY <1>1, QueryOpen DEF ThoroughInv
  <1>3. /\ m \in Vectors /\ \A k \in Axes : ~Periodic[k] => m[k] = 0
        /\ Separation(i, j, l) = d
    BY <1>1, <1>2, CellsToType
  <1>4. /\ i \in Index /\ place \in [Index -> Spots] /\ ParticlesInv /\ prepares # 0
        /\ query.at = particles[i].pos
    BY <1>2 DEF Queries, PreparedInv, GivenInv, PlacedInv
  <1>5. /\ CenteredInv
        /\ \A f \in Offsets(binDim, cutoff) : \E t \in 1..Len(stencil) : stencil[t] = f
        /\ cutoff \in Cutoffs /\ binDim \in Dims(cutoff)
    BY <1>1, <1>2 DEF ThoroughInv, SearchInv, TablesInv
  <1> HIDE DEF i, m
  <1>6. ASSUME NEW k \in Axes
        PROVE  /\ o[k] \in Int /\ d[k] \in Int
               /\ Gap(o[k]) * Side[k] <= Abs(d[k]) * binDim[k]
               /\ \/ Gap(o[k]) = 0 \/ Gap(o[k]) * Side[k] < Abs(d[k]) * binDim[k]
                  \/ Periodic[k] /\ particles[j].pos[k] = Side[k]
               /\ ~Periodic[k] /\ binDim[k] = 1 => Gap(o[k]) = 0
    <2> DEFINE x == particles[i].pos[k]
               y == particles[j].pos[k]
               c == b[k]
               h == m[k]
               e == y + h * Side[k] - x
               q == c + h * binDim[k] - CenterBin(k, x)
    <2>1. x \in Int /\ y \in Int /\ c \in Int /\ h \in Int /\ Side[k] \in Int
      <3>1. particles[i].pos \in Vectors /\ particles[j].pos \in Vectors
        BY <1>1, <1>2, <1>4
      <3>2. QED
        BY <1>2, <1>3, <3>1, CellType DEF Vectors
    <2>2. Periodic[k] => x \in 0..Side[k]
      BY <1>2, <1>4, MovedType
    <2>3. ~Periodic[k] => h = 0
      BY <1>3
    <2>4. LiesIn(k, y, c, binDim[k])
      BY DEF BinnedAt
    <2>5. o[k] = q /\ d[k] = e
      <3>1. query.bin[k] = CenterBin(k, x)
        BY <1>4, <1>5 DEF CenteredInv
      <3>2. QED
        BY <3>1 DEF OffsetTo
    <2>6. e \in Int
      <3> HIDE DEF x, y, h
      <3>1. h * Side[k] \in Int
        BY <2>1
      <3>2. QED
        BY <2>1, <3>1
    <2> HIDE DEF q, x, y, c, h
    <2>7. /\ q \in Int
          /\ Gap(q) * Side[k] <= Abs(e) * binDim[k]
          /\ \/ Gap(q) = 0 \/ Gap(q) * Side[k] < Abs(e) * binDim[k]
             \/ Periodic[k] /\ y = Side[k]
          /\ ~Periodic[k] /\ binDim[k] = 1 => Gap(q) = 0
      BY <1>2, <2>1, <2>2, <2>3, <2>4, AxisInReach DEF q
    <2> HIDE DEF e
    <2>8. QED
      BY <2>5, <2>6, <2>7 DEF y
  <1> HIDE DEF d
  <1>7. o \in [Axes -> Int] /\ d \in [Axes -> Int]
    BY <1>6 DEF OffsetTo, d
  <1>8. SquaredLength(d) <= cutoff * cutoff
    BY <1>1, <1>3 DEF Near
  <1>9. SquaredLength(d) = cutoff * cutoff =>
          \A k \in Axes : Gap(o[k]) = 0 \/ Gap(o[k]) * Side[k] < Abs(d[k]) * binDim[k]
    <2> SUFFICES ASSUME SquaredLength(d) = cutoff * cutoff, NEW k \in Axes
                 PROVE  Gap(o[k]) = 0 \/ Gap(o[k]) * Side[k] < Abs(d[k]) * binDim[k]
      OBVIOUS
    <2>1. ~Rounded(j)
      BY <1>1, <1>3 DEF Undecided
    <2>2. ~(Periodic[k] /\ particles[j].pos[k] = Side[k])
      BY <2>1 DEF Rounded
    <2>3. QED
      BY <1>6, <2>2
  <1> HIDE DEF o
  <1>10. cutoff \in Nat \ {0}
    BY <1>2, <1>5, CellType
  <1>11. CanReach(o, binDim, cutoff)
    <2>1. \A k \in Axes : Gap(o[k]) * Side[k] <= Abs(d[k]) * binDim[k]
      BY <1>6
    <2>2. QED
      BY <1>2, <1>7, <1>8, <1>9, <1>10, <2>1, GapsInReach
  <1>12. \A k \in Axes : Abs(o[k]) <= StencilLimit - 1
    <2> TAKE k \in Axes
    <2>1. /\ StencilLimit >= 2
          /\ Periodic[k] => cutoff <= (StencilLimit - 1) * Side[k]
      BY <1>5 DEF StencilReaches, Axes, Side, Periodic, Cutoffs
    <2>2. binDim[k] = 1 => Gap(o[k]) = 0 \/ cutoff <= (StencilLimit - 1) * Side[k]
      BY <1>6, <2>1
    <2>3. QED
      BY <1>2, <1>5, <1>7, <1>11, <2>1, <2>2, ReachedBelowLimit
  <1>13. o \in Offsets(binDim, cutoff)
    BY <1>2, <1>7, <1>10, <1>11, <1>12, ReachedInOffsets
  <1>14. QED
    BY <1>5, <1>13 DEF o, m

\* From there the offset leads m cells away, into the bin b.
LEMMA OffsetLeads ==
  ASSUME cell \in Cells, query.bin \in Vectors, binDim \in Counts, stencil \in Seq(Vectors),
         NEW t \in 1..Len(stencil), NEW b \in Vectors, NEW m \in Vectors,
         InBox(b, binDim), \A k \in Axes : ~Periodic[k] => m[k] = 0, stencil[t] = OffsetTo(b, m)
  PROVE  Leads(t, m) /\ BinIn(t, m) = b
  <1>1. ASSUME NEW k \in Axes
        PROVE  /\ BinAt(t)[k] = b[k] + m[k] * binDim[k]
               /\ BinIn(t, m)[k] = b[k]
               /\ Periodic[k] => m[k] = BinAt(t)[k] \div binDim[k]
    <2> DEFINE n == binDim[k]
               c == b[k]
               h == m[k]
               g == query.bin[k]
               hn == h * n
    <2>1. n \in Nat \ {0} /\ c \in 0..(n - 1) /\ h \in Int /\ g \in Int
      BY DEF Vectors, Counts, InBox
    <2>2. BinAt(t)[k] = g + (c + hn - g)
      BY DEF BinAt, OffsetTo
    <2>3. BinIn(t, m)[k] = BinAt(t)[k] - hn
      BY Zenon DEF BinIn
    <2> HIDE DEF n, c, h, g
    <2>4. hn \in Int /\ hn = n * h
      BY <2>1
    <2> HIDE DEF hn
    <2>5. BinAt(t)[k] = c + hn /\ BinIn(t, m)[k] = c
      BY <2>1, <2>2, <2>3, <2>4
    <2> DEFINE v == c + hn
               q == v \div n
               r == v % n
    <2>6. v \in Int /\ v = n * h + c
      BY <2>1, <2>4
    <2> HIDE DEF v
    <2>7. q \in Int /\ r \in 0..(n - 1) /\ v = n * q + r
      BY <2>1, <2>6, Quotient
    <2> HIDE DEF q, r
    <2>8. n * q + r = n * h + c
      BY <2>6, <2>7
    <2>9. q = h
      BY <2>1, <2>7, <2>8, QuotientUnique
    <2>10. QED
      BY <2>5, <2>9 DEF q, v, hn, h, n, c
  <1>2. BinIn(t, m) = b
    <2>1. BinIn(t, m) \in Vectors
      BY BinInType
    <2>2. QED
      BY <1>1, <2>1 DEF Vectors
  <1>3. \A k \in Axes : m[k] = IF Periodic[k] THEN BinAt(t)[k] \div binDim[k] ELSE 0
    BY <1>1
  <1>4. QED
    BY <1>2, <1>3 DEF Leads

\* What a query returns for it is the image itself.
LEMMA ImageReturned ==
  ASSUME ImagesFit, FinderInv, query.pc # "none", NEW j \in Index, NEW l \in Vectors,
         NEW t \in 1..Len(stencil), Crosses(t, CellsTo(query.center, j, l)),
         CellsTo(query.center, j, l) \in Vectors
  PROVE  Unwrapped(query.center, j, CellsTo(query.center, j, l)) = l
  <1> DEFINE i == query.center
             m == CellsTo(i, j, l)
  <1>1. /\ PreparedInv /\ prepares > 0 /\ query \in Queries /\ PlacedInv /\ cell \in Cells
        /\ binDim \in Counts /\ stencil \in Seq(Vectors) /\ ByteMax \in Nat
    BY QueryOpen, CellType
  <1>2. i \in Index /\ place \in [Index -> Spots] /\ ParticlesInv /\ prepares # 0
    BY <1>1 DEF Queries, PreparedInv, GivenInv
  <1>3. Crosses(t, m) /\ m \in Vectors /\ \A k \in Axes : m[k] = l[k] + Moved(i, k) - Moved(j, k)
    BY DEF CellsTo
  <1> HIDE DEF i, m
  <1>4. ASSUME NEW k \in Axes PROVE Byte(m[k] - particles[i].shift[k] + particles[j].shift[k]) = l[k]
    <2> DEFINE a == Moved(i, k)
               b == Moved(j, k)
    <2>1. /\ a \in Wraps(cell, k, place[i][k]) /\ IsMoved(i, k, a) /\ a \in Int
          /\ b \in Wraps(cell, k, place[j][k]) /\ IsMoved(j, k, b) /\ b \in Int
      BY <1>1, <1>2, MovedType
    <2>2. l[k] \in Int /\ m[k] \in Int /\ m[k] = l[k] + a - b /\ FitsByte(m[k])
      BY <1>3 DEF Vectors, Crosses
    <2> HIDE DEF a, b
    <2>3. m[k] \in (-StencilLimit)..StencilLimit
      <3>1. CASE Periodic[k]
        <4>1. m[k] = (query.bin[k] + stencil[t][k]) \div binDim[k]
          BY <1>3, <3>1 DEF Crosses, BinAt
        <4>2. /\ query.bin[k] \in 0..binDim[k] /\ binDim[k] \in Nat \ {0}
              /\ stencil[t][k] \in Steps
          BY <1>1 DEF PlacedInv, Counts, PreparedInv, StencilInv
        <4>3. QED
          BY <4>1, <4>2, CellsCrossedBound
      <3>2. CASE ~Periodic[k]
        BY <1>3, <3>2, LimitsAssumption DEF Crosses
      <3>3. QED
        BY <3>1, <3>2
    <2>4. m[k] - a + b \in (-ByteMax - 1)..ByteMax
      <3>1. place[i] \in Spots /\ place[j] \in Spots
        BY <1>2
      <3>2. k \in DOMAIN cell.side /\ place[i] \in cell.spots /\ place[j] \in cell.spots
        BY <3>1 DEF Axes, Side, Spots
      <3>3. \A u \in Wraps(cell, k, place[i][k]), v \in Wraps(cell, k, place[j][k]) :
              \A h \in (-StencilLimit)..StencilLimit :
                h \in (-cell.byteMax - 1)..cell.byteMax => h - u + v \in (-cell.byteMax - 1)..cell.byteMax
        BY <1>1, <3>2 DEF ImagesFit
      <3>4. QED
        BY <2>1, <2>2, <2>3, <3>3 DEF FitsByte, ByteMax
    <2>5. m[k] - a + b = l[k]
      BY <2>1, <2>2
    <2>6. Byte(m[k] - Byte(a) + Byte(b)) = Byte(m[k] - a + b)
      BY <1>1, <2>1, <2>2, ByteOfSum
    <2>7. Byte(m[k] - a + b) = l[k]
      BY <1>1, <2>4, <2>5, ByteKeeps
    <2>8. QED
      BY <2>1, <2>6, <2>7 DEF IsMoved
  <1>5. Unwrapped(i, j, m) = [k \in Axes |-> l[k]]
    BY <1>4 DEF Unwrapped
  <1>6. QED
    BY <1>5 DEF i, m, Vectors

LEMMA WantedIsFound ==
  ASSUME ImagesFit, ThoroughInv, StencilReaches(cell), NEW j, NEW l, Wanted(j, l)
  PROVE  <<j, l>> \in Found
  <1> DEFINE i == query.center
             m == CellsTo(query.center, j, l)
  <1>1. query.pc = "end" /\ j \in Index /\ l \in Vectors /\ Near(i, j, l)
    BY ImageType DEF Wanted
  <1>2. /\ FinderInv /\ query.pc # "none" /\ PreparedInv /\ prepares > 0 /\ query \in Queries /\ PlacedInv
        /\ cell \in Cells /\ binDim \in Counts /\ stencil \in Seq(Vectors)
        /\ particles \in [Index -> [pos : Vectors, shift : Vectors]]
    BY <1>1, QueryOpen DEF ThoroughInv
  <1>3. /\ m \in Vectors /\ \A k \in Axes : ~Periodic[k] => m[k] = 0
        /\ j # i \/ m # Zero
        /\ Separation(i, j, l) = [k \in Axes |-> particles[j].pos[k] + m[k] * Side[k] - particles[i].pos[k]]
    BY <1>1, <1>2, CellsToType
  <1>4. PICK p \in 1..Particles, b \in Vectors : BinnedAt(j, p, b)
    BY <1>1, <1>2 DEF ThoroughInv, TablesInv
  <1>5. PICK t \in 1..Len(stencil) : stencil[t] = OffsetTo(b, m)
    BY <1>4, OffsetInStencil
  <1> HIDE DEF i, m
  <1>6. InBox(b, binDim)
    BY <1>4 DEF BinnedAt, LiesIn, InBox
  <1>7. Leads(t, m) /\ BinIn(t, m) = b
    <2>1. query.bin \in Vectors
      BY <1>2 DEF Queries
    <2>2. QED
      BY <1>2, <1>3, <1>5, <1>6, <2>1, OffsetLeads
  <1>8. /\ PassedInv /\ LastInv /\ SeenInv /\ query.cursor = query.end /\ query.iter = Len(stencil) + 1
        /\ Len(stencil) \in Nat
    BY <1>1, <1>2 DEF ThoroughInv, SearchInv, EndInv
  <1>9. t \in 1..(query.iter - 1)
    BY <1>8
  <1>10. Crosses(t, m)
    BY <1>3, <1>7, <1>8, <1>9, CrossesIsLeads DEF PassedInv
  <1>11. Visits(t, m, p)
    BY <1>4, <1>7, <1>10 DEF Visits, FlatAt, BinnedAt
  <1>12. binnedIndices[p] = j
    BY <1>4 DEF BinnedAt
  <1>13. Hits(m, j)
    <2>1. query.at = particles[i].pos
      BY <1>2 DEF PlacedInv, i
    <2>2. \A k \in Axes : particles[j].pos[k] - (query.at[k] - m[k] * Side[k])
                            = particles[j].pos[k] + m[k] * Side[k] - particles[i].pos[k]
      <3> TAKE k \in Axes
      <3> DEFINE x == particles[i].pos[k]
                 y == particles[j].pos[k]
                 z == m[k] * Side[k]
      <3>1. x \in Int /\ y \in Int /\ m[k] \in Int /\ Side[k] \in Int
        <4>1. i \in Index
          BY <1>2 DEF Queries, i
        <4>2. particles[i].pos \in Vectors /\ particles[j].pos \in Vectors
          BY <1>1, <1>2, <4>1
        <4>3. x \in Int /\ y \in Int /\ m[k] \in Int
          BY <1>3, <4>2 DEF Vectors
        <4>4. Side[k] \in Int
          BY <1>2, CellType
        <4>5. QED
          BY <4>3, <4>4
      <3>2. z \in Int
        BY <3>1
      <3> HIDE DEF x, y, z
      <3>3. y - (x - z) = y + z - x
        BY <3>1, <3>2
      <3>4. QED
        BY <2>1, <3>3 DEF x, y, z
    <2>3. [k \in Axes |-> particles[j].pos[k] - (query.at[k] - m[k] * Side[k])] = Separation(i, j, l)
      BY <1>3, <2>2
    <2>4. SquaredLength(Separation(i, j, l)) <= cutoff * cutoff
      BY <1>1 DEF Near
    <2>5. QED
      BY <1>3, <2>3, <2>4 DEF Hits, i
  <1>14. t = query.iter - 1 => p <= query.cursor
    <2> SUFFICES ASSUME t = query.iter - 1 PROVE p <= query.cursor
      OBVIOUS
    <2>1. query.iter > 1
      BY <1>8, <1>9
    <2>2. QED
      BY <1>3, <1>8, <1>11, <2>1 DEF LastInv
  <1>15. PICK n \in 1..Len(query.found) : FoundAt(query.found[n], t, m, p)
    BY <1>3, <1>8, <1>9, <1>11, <1>12, <1>13, <1>14 DEF SeenInv
  <1>16. query.found[n].index = j /\ query.found[n].image = l
    <2>1. query.found[n].index = j /\ query.found[n].image = Unwrapped(i, j, m)
      BY <1>12, <1>15 DEF FoundAt, i
    <2>2. Unwrapped(i, j, m) = l
      BY <1>1, <1>2, <1>3, <1>10, ImageReturned DEF i, m
    <2>3. QED
      BY <2>1, <2>2
  <1>17. QED
    BY <1>16 DEF Found

\* And nothing else is returned.
LEMMA FoundIsNear ==
  ASSUME ImagesFit, ThoroughInv, query.pc = "end", NEW n \in 1..Len(query.found)
  PROVE  Near(query.center, query.found[n].index, query.found[n].image)
  <1> DEFINE i == query.center
             e == query.found[n]
  <1>1. FinderInv /\ query.pc # "none"
    BY DEF ThoroughInv
  <1>2. /\ query \in Queries /\ PlacedInv /\ FoundInv /\ PreparedInv /\ cell \in Cells /\ prepares > 0
        /\ stencil \in Seq(Vectors)
    BY <1>1, QueryOpen
  <1>3. e \in Entries /\ i \in Index
    BY <1>2 DEF Queries
  <1>4. PICK t \in 1..(query.iter - 1), m \in Vectors, p \in 1..Particles : FoundAt(e, t, m, p)
    BY <1>2 DEF FoundInv
  <1>5. t \in 1..Len(stencil)
    BY <1>2 DEF PlacedInv
  <1>6. e.delta = Separation(i, e.index, e.image)
    BY <1>1, <1>3, <1>4, <1>5, FoundSeparation
  <1>7. SquaredLength(e.delta) <= cutoff * cutoff /\ (e.index # i \/ e.image # Zero)
    BY <1>1 DEF ThoroughInv, SearchInv, TakenInv
  <1>8. ASSUME NEW k \in Axes, ~Periodic[k] PROVE e.image[k] = 0
    <2>1. e.index \in Index
      BY <1>3 DEF Entries
    <2>2. m[k] = 0
      BY <1>4, <1>8 DEF FoundAt, Visits, Crosses
    <2>3. e.image[k] = Byte(m[k] - particles[i].shift[k] + particles[e.index].shift[k])
      BY <1>4 DEF FoundAt, Unwrapped
    <2>4. Byte(0) = 0
      BY <1>2, CellType, ByteKeeps
    <2>5. \A h \in Index : particles[h].shift[k] = 0
      <3> TAKE h \in Index
      <3>1. IsMoved(h, k, Moved(h, k)) /\ Moved(h, k) = 0
        BY <1>2, <1>8, MovedType DEF PreparedInv, GivenInv
      <3>2. QED
        BY <2>4, <3>1 DEF IsMoved
    <2>6. QED
      BY <1>3, <2>1, <2>2, <2>3, <2>4, <2>5
  <1> HIDE DEF e, i
  <1>9. Near(i, e.index, e.image)
    BY <1>6, <1>7, <1>8 DEF Near
  <1>10. QED
    BY <1>9 DEF e, i

\* A query that runs to its end has returned every particle and periodic image within the
\* cutoff of the centre, and nothing else: for any cells of up to three axes, periodic or not
\* and smaller or larger than the cutoff, any cutoffs and particles, wherever they lie.  It
\* takes that the images can be counted in an int8_t, and that no cutoff is so long that the
\* stencil ends with the last radius prepare() tries.
THEOREM FindsAll ==
  ImagesFit /\ (\A c \in Cells : StencilReaches(c)) => (Spec => []FindsAllNeighbors)
  <1> SUFFICES ASSUME ImagesFit, \A c \in Cells : StencilReaches(c) PROVE Spec => []FindsAllNeighbors
    OBVIOUS
  <1>1. ThoroughInv => FindsAllNeighbors
    <2> SUFFICES ASSUME ThoroughInv, query.pc = "end"
                 PROVE  MissesNone /\ \A w \in Found : Near(query.center, w[1], w[2])
      BY DEF FindsAllNeighbors
    <2>1. StencilReaches(cell)
      BY DEF ThoroughInv, FinderInv, PreparedInv, GivenInv
    <2>2. MissesNone
      BY <2>1, WantedIsFound DEF MissesNone, Wanted
    <2>3. ASSUME NEW w \in Found PROVE Near(query.center, w[1], w[2])
      <3>1. PICK n \in 1..Len(query.found) : w = <<query.found[n].index, query.found[n].image>>
        BY DEF Found
      <3>2. QED
        BY <3>1, FoundIsNear
    <2>4. QED
      BY <2>2, <2>3
  <1>2. QED
    BY <1>1, ThoroughInvHolds, PTL
=============================================================================
