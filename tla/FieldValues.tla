----------------------------- MODULE FieldValues -----------------------------
(***************************************************************************)
(* The values that field() of the columnar writers takes, and what becomes *)
(* of one in a column that already has a type.                             *)
(***************************************************************************)
EXTENDS Integers

CONSTANTS Names,       \* the names callers pass to field()
          Reserved,    \* those isReserved() keeps for the fixed columns
          Data,        \* payloads callers pass; a double counts in halves
          Null         \* a NULL cell

Types  == {"int", "double", "string", "list"}
Fields == Names \ Reserved
Value  == [type : Types, data : Data]
Cell   == [type : Types, data : Nat]

ASSUME DataAssumption     == Data \subseteq Nat
ASSUME NullAssumption     == Null \notin Cell
ASSUME ReservedAssumption == Reserved \subseteq Names

\* appendDouble and appendInt64 convert a number to the numeric type of its column, a
\* double by truncation; appendString and appendList store the value as it is.
Coerce(type, value) ==
  CASE type = "int" /\ value.type = "double" -> [type |-> "int", data |-> value.data \div 2]
    [] type = "double" /\ value.type = "int" -> [type |-> "double", data |-> value.data * 2]
    [] OTHER -> value
==============================================================================
