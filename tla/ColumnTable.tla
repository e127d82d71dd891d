----------------------------- MODULE ColumnTable -----------------------------
(***************************************************************************)
(* ColumnarAtomWriter::Impl (src/utilities/parquet_atom_writer.cpp), which *)
(* the bond and line writers repeat: dynamic columns that appear when a    *)
(* row first writes to them, and the rows that a callback fills through    *)
(* field() before finishRow().                                             *)
(*                                                                         *)
(* index and columns are one function here, from the name of a column to   *)
(* the column.  repeats only counts, for the properties, how often a row   *)
(* wrote a column it had already written: the code does not look.          *)
(***************************************************************************)
EXTENDS FieldValues, Sequences

CONSTANTS OncePerRow,   \* TRUE: callbacks write a field at most once per row
          MaxRows,      \* bound: rows written
          MaxRepeats    \* bound: repeated writes of one column

ASSUME BoundsAssumption == MaxRows \in Nat /\ MaxRepeats \in Nat
ASSUME FlagAssumption   == OncePerRow \in BOOLEAN

VARIABLES columns, rowsCompleted, repeats

vars == <<columns, rowsCompleted, repeats>>

Known == DOMAIN columns

Init ==
  /\ columns = <<>>
  /\ rowsCompleted = 0
  /\ repeats = [n \in Fields |-> 0]

Touched(n) == n \in Known /\ columns[n].touched

\* mutant: a column that appears late starts with the open row
EnsureNoBackfill(n, type) ==
  IF n \in Known THEN columns[n] ELSE [type |-> type, values |-> <<>>, touched |-> FALSE]

\* ensure(): a column that appears late has a NULL for every row already completed.
Ensure(n, type) ==
  IF n \in Known THEN columns[n]
  ELSE [type |-> type, values |-> [r \in 1..rowsCompleted |-> Null], touched |-> FALSE]

\* The column after appendDouble, appendInt64, appendString or appendList.
Written(col, value) ==
  [type |-> col.type, values |-> Append(col.values, Coerce(col.type, value)), touched |-> TRUE]

Field(n, value) ==
  /\ Touched(n) => ~OncePerRow /\ repeats[n] < MaxRepeats
  /\ columns' = [m \in Known \cup {n} |->
                   IF m = n THEN Written(Ensure(n, value.type), value) ELSE columns[m]]
  /\ repeats' = [repeats EXCEPT ![n] = IF Touched(n) THEN repeats[n] + 1 ELSE repeats[n]]
  /\ UNCHANGED rowsCompleted

\* mutant: a reserved name is not looked for, and makes a column
DropReservedKept(n) ==
  /\ n \in Reserved \ Known
  /\ columns' = [m \in Known \cup {n} |->
                   IF m = n THEN [type |-> "int", values |-> <<>>, touched |-> FALSE] ELSE columns[m]]
  /\ UNCHANGED <<rowsCompleted, repeats>>

\* isReserved(): the value is dropped without a word.
DropReserved(n) == n \in Reserved /\ UNCHANGED vars

\* mutant: every column is padded, written or not
PaddedAlways(col) ==
  [type |-> col.type, values |-> Append(col.values, Null), touched |-> FALSE]

Padded(col) ==
  [type |-> col.type,
   values |-> IF col.touched THEN col.values ELSE Append(col.values, Null),
   touched |-> FALSE]

FinishRow ==
  /\ rowsCompleted < MaxRows
  /\ columns' = [n \in Known |-> Padded(columns[n])]
  /\ rowsCompleted' = rowsCompleted + 1
  /\ UNCHANGED repeats

Next ==
  \/ \E n \in Fields, value \in Value : Field(n, value)
  \/ \E n \in Names : DropReserved(n)
  \/ FinishRow

Spec == Init /\ [][Next]_vars

-----------------------------------------------------------------------------
(* Properties *)

Column == [type : Types, values : Seq(Cell \cup {Null}), touched : BOOLEAN]

\* Types: columns of cells under unreserved names only.
TypeOK ==
  /\ Known \subseteq Fields
  /\ columns \in [Known -> Column]
  /\ rowsCompleted \in 0..MaxRows
  /\ repeats \in [Fields -> 0..MaxRepeats]

\* Every column has one cell per completed row, one more while the open row has written
\* it, and one more for good each time a row wrote it twice: no other column moves.  So
\* the export's values[i] is in range for every completed row, and it is row i's cell as
\* long as callbacks keep to one write per row.
Aligned ==
  \A n \in Known :
    Len(columns[n].values) = rowsCompleted + repeats[n] + (IF columns[n].touched THEN 1 ELSE 0)

LastCell(n) == columns[n].values[Len(columns[n].values)]

CellAt(n, r) == IF n \in Known THEN columns[n].values[r] ELSE Null

RowsMap == [r \in 1..rowsCompleted |-> [n \in Fields |-> CellAt(n, r)]]
RowMap  == [n \in Fields |-> IF Touched(n) THEN LastCell(n) ELSE Null]
TypeMap == [n \in Fields |-> IF n \in Known THEN columns[n].type ELSE "none"]

Rows == INSTANCE RowTable WITH rows <- RowsMap, row <- RowMap, typeOf <- TypeMap

\* Read by rows, as the export reads them, the columns are the table the callers wrote:
\* a cell belongs to the row that wrote it and has the type of its column.
ImplementsRowTable == Rows!Spec
==============================================================================
