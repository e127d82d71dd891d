------------------------------- MODULE MCCutoff -------------------------------
(***************************************************************************)
(* A line of length 7, whose bins are 7/2 or 7/3 wide for the cutoffs 3    *)
(* and 2 and which is smaller than the cutoff 8, with positions up to a    *)
(* side outside; an open line of length 9 prepared twice, whose four bins  *)
(* are made three though binCountLimit is two; a plane of 3 by 4 with at   *)
(* most six bins, periodic along one side only; and a line much shorter    *)
(* than the cutoff, with an int8_t that counts to 3 only.                  *)
(***************************************************************************)
EXTENDS CutoffNeighbors

Positions(axes, coordinates) == [axes -> coordinates]

Line == [side |-> <<7>>, periodic |-> <<TRUE>>, spots |-> Positions(1..1, (-9)..9),
         cutoffs |-> {2, 3, 8}, bins |-> 2097152, byteMax |-> 127, prepares |-> 1]
Open == [Line EXCEPT !.side = <<9>>, !.periodic = <<FALSE>>,
                     !.spots = Positions(1..1, {-2, 0, 3, 7, 9, 11}),
                     !.cutoffs = {2, 8}, !.bins = 2, !.prepares = 2]
Plane == [side |-> <<3, 4>>, periodic |-> <<TRUE, FALSE>>, spots |-> Positions(1..2, {-1, 0, 2, 4}),
          cutoffs |-> {1, 2}, bins |-> 6, byteMax |-> 127, prepares |-> 1]
Short == [Line EXCEPT !.side = <<3>>, !.spots = Positions(1..1, {1, 2}),
                      !.cutoffs = {6, 12}, !.byteMax = 3]
Unit  == [Line EXCEPT !.side = <<1>>, !.spots = Positions(1..1, {0}), !.cutoffs = {101}]

MCCells  == {Line, Open, Plane, Short}
MCSmall  == {Unit}

\* What the theorems suppose of the cells; the small one is left out of the second.
ASSUME CellsAssumption   == ImagesFit
ASSUME StencilAssumption == \A c \in MCCells : StencilReaches(c)
===============================================================================
