--------------------------- MODULE CutoffNeighbors ---------------------------
(***************************************************************************)
(* CutoffNeighborFinder (src/analysis/cutoff_neighbor_finder.cpp):         *)
(* prepare() sorts the particles into bins at least a cutoff wide and      *)
(* collects the stencil of bin offsets that can hold a neighbour; a Query  *)
(* walks the stencil around a particle and returns at each neighbour.      *)
(*                                                                         *)
(* The cell is a box with integer sides and positions are integers, so     *)
(* that every comparison of the code is exact.  What rounding can still do *)
(* to a particle is a choice: one a hair below a periodic face is wrapped  *)
(* onto the opposite face itself.                                          *)
(***************************************************************************)
EXTENDS Selection, FiniteSetsExt

CONSTANTS Cells,         \* the simulation cells to try, see CellAssumption
          Particles,     \* how many particles there are
          StencilLimit   \* stencil radii tried, 100

\* A cell has a length and a pbcFlag per axis.  With it go the positions particles may
\* have, the cutoffs prepare() may be called with, binCountLimit, int8_t's maximum, and
\* the bound on the calls of prepare().
ASSUME CellAssumption ==
  \A c \in Cells :
    /\ c.side \in Seq(Nat \ {0}) /\ Len(c.side) \in 1..3
    /\ c.periodic \in [DOMAIN c.side -> BOOLEAN]
    /\ c.spots \subseteq [DOMAIN c.side -> Int]
    /\ c.cutoffs \subseteq Nat \ {0}
    /\ c.bins \in Nat \ {0} /\ c.byteMax \in Nat /\ c.prepares \in Nat
ASSUME LimitsAssumption == StencilLimit \in Nat /\ Particles \in Nat

VARIABLES cell,       \* the cell and the limits in force
          place,      \* the positions property
          prepares,   \* how often prepare() has run
          cutoff, binDim, stencil, particles, binStart, binnedIndices,
          query       \* the open Query, its pc among its fields

given    == <<cell, place>>
prepared == <<cutoff, binDim, stencil, particles, binStart, binnedIndices>>
vars == <<given, prepares, prepared, query>>

Side          == cell.side
Axes          == DOMAIN Side
Periodic      == cell.periodic
Spots         == cell.spots
Cutoffs       == cell.cutoffs
BinCountLimit == cell.bins
ByteMax       == cell.byteMax
MaxPrepares   == cell.prepares

Index == 1..Particles
Zero  == [k \in Axes |-> 0]
Along(f, k, none) == IF k \in Axes THEN f[k] ELSE none   \* a cell may have fewer than three axes
SumOver(f)     == Along(f, 1, 0) + Along(f, 2, 0) + Along(f, 3, 0)
ProductOver(f) == Along(f, 1, 1) * Along(f, 2, 1) * Along(f, 3, 1)
SquaredLength(v) == SumOver([k \in Axes |-> v[k] * v[k]])

\* C++ division truncates, and int8_t keeps eight bits.
Divide(a, b) == IF a >= 0 THEN a \div b ELSE -((-a) \div b)
Byte(x) == ((x + ByteMax + 1) % (2 * (ByteMax + 1))) - (ByteMax + 1)

-----------------------------------------------------------------------------
(* prepare(): bins and stencil *)

Abs(x) == IF x < 0 THEN -x ELSE x
AtLeastOne(n) == Max({n, 1})

\* Bins a cutoff wide or wider.  Their number is assumed to fit an int.
FullDims(rc) == [k \in Axes |-> AtLeastOne(Side[k] \div rc)]

\* n bins along an axis, times the cube root of binCountLimit / count, truncated.  Where
\* that is a whole number, rounding may take it to the one below.
Coarser(n, count) ==
  {AtLeastOne(m) : m \in {i \in 0..n : /\ i^3 * count <= n^3 * BinCountLimit
                                      /\ n^3 * BinCountLimit <= (i + 1)^3 * count}}

\* Too many bins are made coarser along every axis, by the same factor; with fewer than
\* three axes to divide, there may still be more than binCountLimit.
Dims(rc) ==
  LET full  == FullDims(rc)
      count == ProductOver(full)
  IN IF count <= BinCountLimit THEN {full}
     ELSE {d \in [Axes -> 1..Max({full[k] : k \in Axes})] :
             \A k \in Axes : d[k] \in Coarser(full[k], count)}

\* mutant: the gap between bins is counted from their lower corners
CanReachCorner(offset, dim, rc) ==
  LET W == ProductOver(dim)
  IN SquaredLength([k \in Axes |-> Abs(offset[k]) * Side[k] * (W \div dim[k])]) < rc * rc * W * W

\* shortestCellCellDistance() over the neighbouring corners, in a box: whether the bin at
\* this offset comes closer than the cutoff.  Lengths are scaled to be integers.
Gap(o) == Max({Abs(o) - 1, 0})
CanReach(offset, dim, rc) ==
  LET W == ProductOver(dim)
  IN SquaredLength([k \in Axes |-> Gap(offset[k]) * Side[k] * (W \div dim[k])]) < rc * rc * W * W

\* The offsets of radius r, the inner ones skipped
Shell(r, dim, rc) ==
  {o \in [Axes -> (-r)..r] : (\E k \in Axes : Abs(o[k]) = r) /\ CanReach(o, dim, rc)}

\* Shells are added until one is empty, or until the last radius that is tried.
Offsets(dim, rc) ==
  LET Tried == {r \in 0..(StencilLimit - 1) : \A s \in 0..(r - 1) : Shell(s, dim, rc) # {}}
  IN UNION {Shell(r, dim, rc) : r \in Tried}

Radius(o) == Max({Abs(o[k]) : k \in Axes})

\* The loops' order: by radius, then by the first axis on which two offsets differ
Earlier(o, p) ==
  \/ Radius(o) < Radius(p)
  \/ /\ Radius(o) = Radius(p)
     /\ \E k \in Axes : o[k] < p[k] /\ \A j \in Axes : j < k => o[j] = p[j]

\* mutant: the innermost offset is added again with every shell
StencilOfFilled(dim, rc) ==
  LET S == Offsets(dim, rc)
  IN Ranked(S, {w \in S \X S : Earlier(w[1], w[2])}) \o <<Zero>>

StencilOf(dim, rc) ==
  LET S == Offsets(dim, rc)
  IN Ranked(S, {w \in S \X S : Earlier(w[1], w[2])})

-----------------------------------------------------------------------------
(* prepare(): particles *)

BinAlong(k, x, dim) == (x * dim[k]) \div Side[k]

\* mutant: the cell next to the one below is taken for it
WrapShiftOff(bin, n) == IF bin < 0 THEN Divide(-(bin + 1), n) ELSE Divide(-bin, n)

\* How often a particle is moved by the cell's side, from the bin it falls in.
WrapShift(bin, n) == IF bin < 0 THEN Divide(-(bin + 1), n) + 1 ELSE Divide(-bin, n)

\* What prepare() makes of a coordinate: where it is put, the shift it keeps, its bin.
\* A coordinate a hair below a periodic face is rounded onto the opposite one.
Placed(k, x, dim, hairBelow) ==
  LET bin == BinAlong(k, x, dim)
      shift == WrapShift(bin, dim[k])
  IN IF ~Periodic[k]
     THEN [pos |-> x, shift |-> 0, bin |-> Min({Max({bin, 0}), dim[k] - 1})]
     ELSE IF hairBelow
     THEN [pos |-> Side[k], shift |-> Byte(1 - x \div Side[k]), bin |-> dim[k] - 1]
     ELSE IF bin \in 0..(dim[k] - 1) THEN [pos |-> x, shift |-> 0, bin |-> bin]
     ELSE [pos |-> x + shift * Side[k], shift |-> Byte(shift), bin |-> bin % dim[k]]

OnFaces == {w \in Index \X Axes : Periodic[w[2]] /\ place[w[1]][w[2]] % Side[w[2]] = 0}

\* The index of a bin in the flat arrays, the first axis fastest.
FlatBin(bin, dim) ==
  Along(bin, 1, 0) + Along(bin, 2, 0) * Along(dim, 1, 1)
                   + Along(bin, 3, 0) * Along(dim, 1, 1) * Along(dim, 2, 1)

\* The counting sort: the particles by bin, in each bin the last one first
SortedInto(binOf) ==
  Ranked(Index, {w \in Index \X Index :
                   \/ binOf[w[1]] < binOf[w[2]]
                   \/ binOf[w[1]] = binOf[w[2]] /\ w[1] > w[2]})

NoQuery == [pc |-> "none"]

Init ==
  /\ cell \in Cells
  /\ place \in [Index -> Spots]
  /\ prepares = 0
  /\ cutoff = 0 /\ binDim = <<>> /\ stencil = <<>> /\ particles = <<>>
  /\ binStart = <<>> /\ binnedIndices = <<>>
  /\ query = NoQuery

\* prepare() resets everything but the stencil, to which it adds.
Prepare ==
  /\ query.pc \in {"none", "end", "thrown"} /\ prepares < MaxPrepares
  /\ prepares' = prepares + 1
  /\ \E rc \in Cutoffs : \E dim \in Dims(rc) :
       /\ cutoff' = rc /\ binDim' = dim
       /\ stencil' = stencil \o StencilOf(dim, rc)
       /\ \E below \in SUBSET OnFaces :
            LET put == [i \in Index |-> [k \in Axes |-> Placed(k, place[i][k], dim, <<i, k>> \in below)]]
                binOf == [i \in Index |-> FlatBin([k \in Axes |-> put[i][k].bin], dim)]
                start == [b \in 0..ProductOver(dim) |-> Cardinality({i \in Index : binOf[i] < b})]
            IN /\ particles' = [i \in Index |-> [pos   |-> [k \in Axes |-> put[i][k].pos],
                                                 shift |-> [k \in Axes |-> put[i][k].shift]]]
               /\ binStart' = start
               /\ binnedIndices' = SortedInto(binOf)
  /\ query' = NoQuery
  /\ UNCHANGED given

-----------------------------------------------------------------------------
(* Query *)

\* The centre's bin, clamped; from above it is clamped to one past the last bin.
CenterBin(k, x) ==
  LET bin == BinAlong(k, x, binDim) IN Max({Min({bin, binDim[k]}), 0})

\* Query(i), up to the first call of next()
NewQuery(i) ==
  /\ prepares > 0 /\ query.pc = "none"
  /\ query' = [pc |-> "scan", center |-> i, at |-> particles[i].pos,
               bin |-> [k \in Axes |-> CenterBin(k, particles[i].pos[k])],
               iter |-> 1, cursor |-> 0, end |-> 0,
               shift |-> Zero, shifted |-> Zero, found |-> <<>>]
  /\ UNCHANGED <<given, prepares, prepared>>

IsNeighbor(idx, delta) ==
  /\ SquaredLength(delta) <= cutoff * cutoff
  /\ idx # query.center \/ query.shift # Zero

\* mutant: the two particles' own shifts are swapped
UnwrappedSwapped(center, idx, shift) ==
  [k \in Axes |-> Byte(shift[k] + particles[center].shift[k] - particles[idx].shift[k])]

\* unwrappedPbcShift()
Unwrapped(center, idx, shift) ==
  [k \in Axes |-> Byte(shift[k] - particles[center].shift[k] + particles[idx].shift[k])]

\* The next particle of the bin: next() returns at a neighbour, and goes on otherwise.
ScanParticle ==
  /\ query.pc = "scan" /\ query.cursor < query.end
  /\ LET idx == binnedIndices[query.cursor + 1]
         delta == [k \in Axes |-> particles[idx].pos[k] - query.shifted[k]]
     IN query' = IF IsNeighbor(idx, delta)
                 THEN [query EXCEPT !.cursor = @ + 1, !.pc = "returned",
                         !.found = Append(@, [index |-> idx, delta |-> delta,
                                              image |-> Unwrapped(query.center, idx, query.shift)])]
                 ELSE [query EXCEPT !.cursor = @ + 1]
  /\ UNCHANGED <<given, prepares, prepared>>

\* How many cells a bin lies away
CellsCrossed(bin, n) ==
  IF bin >= n THEN Divide(bin, n) ELSE IF bin < 0 THEN Divide(bin - n + 1, n) ELSE 0

FitsByte(cells) == cells \in (-ByteMax - 1)..ByteMax

\* The next offset of the stencil: outside a closed side it is skipped, across a periodic
\* one the bin is wrapped and the centre moved the other way.
NextBin ==
  /\ query.pc = "scan" /\ query.cursor = query.end /\ query.iter <= Len(stencil)
  /\ LET bin == [k \in Axes |-> query.bin[k] + stencil[query.iter][k]]
         cells == [k \in Axes |-> IF Periodic[k] THEN CellsCrossed(bin[k], binDim[k]) ELSE 0]
         flat == FlatBin([k \in Axes |-> bin[k] - cells[k] * binDim[k]], binDim)
         Skips(k) == ~Periodic[k] /\ bin[k] \notin 0..(binDim[k] - 1)
         Throws == \E k \in Axes : ~FitsByte(cells[k]) /\ ~\E j \in Axes : j < k /\ Skips(j)
     IN \/ /\ Throws
           /\ query' = [query EXCEPT !.pc = "thrown"]
        \/ /\ ~Throws /\ \E k \in Axes : Skips(k)
           /\ query' = [query EXCEPT !.iter = @ + 1]
        \/ /\ \A k \in Axes : ~Skips(k) /\ FitsByte(cells[k])
           /\ query' = [query EXCEPT !.iter = @ + 1,
                          !.shift = [k \in Axes |-> Byte(cells[k])],
                          !.shifted = [k \in Axes |-> query.at[k] - cells[k] * Side[k]],
                          !.cursor = binStart[flat], !.end = binStart[flat + 1]]
  /\ UNCHANGED <<given, prepares, prepared>>

\* The stencil is exhausted
ReachEnd ==
  /\ query.pc = "scan" /\ query.cursor = query.end /\ query.iter > Len(stencil)
  /\ query' = [query EXCEPT !.pc = "end"]
  /\ UNCHANGED <<given, prepares, prepared>>

\* The caller asks for the next neighbour
CallNext ==
  /\ query.pc = "returned"
  /\ query' = [query EXCEPT !.pc = "scan"]
  /\ UNCHANGED <<given, prepares, prepared>>

Next ==
  \/ Prepare
  \/ \E i \in Index : NewQuery(i)
  \/ ScanParticle \/ NextBin \/ ReachEnd \/ CallNext

Spec == Init /\ [][Next]_vars

-----------------------------------------------------------------------------
(* Properties *)

Started == query.pc # "none"

\* Types: cursors stay inside the arrays, and periodic particles inside the cell.
TypeOK ==
  /\ prepares \in 0..MaxPrepares
  /\ \A i \in DOMAIN particles, k \in Axes :
       Periodic[k] => particles[i].pos[k] \in 0..Side[k]
  /\ query.pc \in {"none", "scan", "returned", "end", "thrown"}
  /\ Started => /\ query.center \in Index
                /\ query.cursor \in 0..query.end /\ query.end \in 0..Particles
                /\ query.iter \in 1..(Len(stencil) + 1)

Separation(i, j, image) == [k \in Axes |-> place[j][k] + image[k] * Side[k] - place[i][k]]

\* How many cells away an image within the largest cutoff could be, and those images
Reach(k) == IF Periodic[k]
            THEN Max(Cutoffs) \div Side[k] + 1 + Max({Abs(s[k] - t[k]) : s, t \in Spots}) \div Side[k] + 1
            ELSE 0
Farthest == Max({Reach(k) : k \in Axes})
Images == {m \in [Axes -> (-Farthest)..Farthest] : \A k \in Axes : Abs(m[k]) <= Reach(k)}

\* The image m of particle j is a neighbour of particle i.
Near(i, j, m) ==
  /\ \A k \in Axes : Periodic[k] \/ m[k] = 0
  /\ SquaredLength(Separation(i, j, m)) <= cutoff * cutoff
  /\ <<j, m>> # <<i, Zero>>

\* A particle rounded onto a face is in the last bin still.  Where it lies exactly a cutoff
\* away, that bin need not be in the stencil: a hair decides.
Rounded(j) == \E k \in Axes : Periodic[k] /\ particles[j].pos[k] = Side[k]
Undecided(i, j, m) ==
  SquaredLength(Separation(i, j, m)) = cutoff * cutoff /\ Rounded(j)

Found == {<<query.found[n].index, query.found[n].image>> : n \in 1..Len(query.found)}

MissesNone ==
  \A j \in Index, m \in Images :
    Near(query.center, j, m) /\ ~Undecided(query.center, j, m) => <<j, m>> \in Found

\* The shifts that can bring a coordinate into a periodic cell, two of them on a face
Wraps(c, k, x) ==
  IF c.periodic[k]
  THEN {a \in {-(x \div c.side[k]), 1 - x \div c.side[k]} : x + a * c.side[k] \in 0..c.side[k]}
  ELSE {0}

\* No particle lies so far outside that an image reached by the stencil overflows an int8_t.
ImagesFit ==
  \A c \in Cells : \A k \in DOMAIN c.side, s, t \in c.spots :
    \A a \in Wraps(c, k, s[k]), b \in Wraps(c, k, t[k]) :
      \A m \in (-StencilLimit)..StencilLimit :
        m \in (-c.byteMax - 1)..c.byteMax => m - a + b \in (-c.byteMax - 1)..c.byteMax

\* No cutoff is so many periodic cells long that its stencil ends with the last radius tried.
StencilReaches(c) ==
  /\ StencilLimit >= 2
  /\ \A k \in DOMAIN c.side, rc \in c.cutoffs : c.periodic[k] => rc <= (StencilLimit - 1) * c.side[k]

\* A query that runs to its end has returned every particle and periodic image within the
\* cutoff of the centre and nothing else, wherever particles lie: on faces of bins and of
\* the cell, outside it, or with a cell smaller than the cutoff.
FindsAllNeighbors ==
  query.pc = "end" => MissesNone /\ \A w \in Found : Near(query.center, w[1], w[2])

\* After one prepare() no neighbour is returned twice: no bin is visited twice for the
\* same image, by whatever way the stencil leads around a periodic side.
FindsEachOnce ==
  prepares = 1 /\ Started =>
    \A m, n \in 1..Len(query.found) :
      m # n => <<query.found[m].index, query.found[m].image>>
                 # <<query.found[n].index, query.found[n].image>>

\* The separation a query returns is that of the positions the caller gave, once the image
\* it returns with it is applied: what wrapping did to the two particles cancels.
DeltaMatchesImage ==
  Started => \A n \in 1..Len(query.found) :
    query.found[n].delta = Separation(query.center, query.found[n].index, query.found[n].image)

\* "Periodic simulation cell is too small or cutoff radius is too large to generate
\* neighbor lists": a query that does not throw has returned all the images within the
\* cutoff, never a part of them.
RefusesSmallCell == query.pc = "end" => MissesNone
=============================================================================
