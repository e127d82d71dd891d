------------------------------- MODULE MCExport -------------------------------
(***************************************************************************)
(* Rows through a buffer of two; a plain field, one that DuckDB does not   *)
(* tell from the fixed column id, and a reserved name.                     *)
(***************************************************************************)
EXTENDS ParquetExport, TLC

CONSTANT null   \* model value

MCNames    == {"energy", "ID", "id"}
MCReserved == {"id"}
MCFold     == [n \in MCNames |-> IF n = "ID" THEN "id" ELSE n]
MCInputs   == {[type |-> "int", data |-> 3], [type |-> "string", data |-> 3]}
MCCalls    == {[layout |-> "atoms", structure |-> TRUE,  resolver |-> FALSE],
               [layout |-> "atoms", structure |-> TRUE,  resolver |-> TRUE],
               [layout |-> "atoms", structure |-> FALSE, resolver |-> FALSE],
               [layout |-> "bonds", structure |-> FALSE, resolver |-> FALSE],
               [layout |-> "lines", structure |-> FALSE, resolver |-> FALSE]}
===============================================================================
