------------------------------ MODULE MCColumns ------------------------------
(***************************************************************************)
(* Two fields and a reserved name, the payload 3 (three halves as a        *)
(* double, so that truncation shows), three rows.                          *)
(***************************************************************************)
EXTENDS ColumnTable, TLC

CONSTANTS a, b, id, null   \* model values

MCNames == {a, b, id}
MCReserved == {id}
==============================================================================
