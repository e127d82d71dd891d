------------------------------ MODULE RowTable ------------------------------
(***************************************************************************)
(* What a columnar writer promises its caller: rows written one at a time, *)
(* each giving a value to some of the fields.  A field takes the type of   *)
(* the first value ever written to it; a cell holds what its own row wrote *)
(* there, converted to that type, and Null when its row wrote nothing.     *)
(***************************************************************************)
EXTENDS FieldValues, Sequences

CONSTANT MaxRows    \* bound: rows written

VARIABLES rows,     \* the finished rows
          row,      \* the open one
          typeOf    \* the type each field has taken, or "none"

Blank == [n \in Fields |-> Null]

Init ==
  /\ rows = <<>>
  /\ row = Blank
  /\ typeOf = [n \in Fields |-> "none"]

Field(n, value) ==
  /\ row[n] = Null
  /\ typeOf' = [typeOf EXCEPT ![n] = IF typeOf[n] = "none" THEN value.type ELSE typeOf[n]]
  /\ row' = [row EXCEPT ![n] = Coerce(typeOf'[n], value)]
  /\ UNCHANGED rows

FinishRow ==
  /\ Len(rows) < MaxRows
  /\ rows' = Append(rows, row)
  /\ row' = Blank
  /\ UNCHANGED typeOf

Next == (\E n \in Fields, value \in Value : Field(n, value)) \/ FinishRow

Spec == Init /\ [][Next]_<<rows, row, typeOf>>
=============================================================================
