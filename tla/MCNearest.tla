----------------------------- MODULE MCNearest -----------------------------
(***************************************************************************)
(* Instances of NearestNeighbors: plane cells with four or five atoms on a *)
(* coarse lattice, some outside the cell, two of them in one place.        *)
(***************************************************************************)
EXTENDS NearestNeighbors

MCPoint(x, y) == <<16 * x, 16 * y>>

MCWorlds == {
  \* periodic both ways, an atom outside the cell, two in one place
  [side |-> MCPoint(4, 6), periodic |-> <<TRUE, TRUE>>,
   at |-> <<MCPoint(0, 0), MCPoint(3, 5), MCPoint(5, -1), MCPoint(0, 0)>>],
  \* open along one side, with atoms far beyond both faces
  [side |-> MCPoint(4, 2), periodic |-> <<TRUE, FALSE>>,
   at |-> <<MCPoint(1, 0), MCPoint(2, 1), MCPoint(3, 7), MCPoint(0, -3), MCPoint(1, 1)>>],
  \* open both ways
  [side |-> MCPoint(2, 2), periodic |-> <<FALSE, FALSE>>,
   at |-> <<MCPoint(0, 0), MCPoint(1, 1), MCPoint(-2, 1), MCPoint(1, 5)>>],
  \* flat: prepare() throws
  [side |-> MCPoint(4, 0), periodic |-> <<TRUE, TRUE>>, at |-> <<MCPoint(1, 0)>>]}

\* a site, a point off the lattice, a face, and a point outside
MCProbes == {MCPoint(0, 0), <<40, 24>>, MCPoint(4, 2), MCPoint(7, 3)}
=============================================================================
