---------------------------- MODULE ParquetExport ----------------------------
(***************************************************************************)
(* streamAtomsToParquet, streamBondsToParquet and streamLinesToParquet:    *)
(* collect the rows into a ColumnTable, stage them in an in-memory DuckDB  *)
(* table through an Appender, COPY the table to the output file.  The      *)
(* three differ in their fixed columns and in the names they reserve.      *)
(*                                                                         *)
(* The Appender is the one of compat/wasm/duckdb.hpp, which sends what it  *)
(* has buffered when the buffer is full and on Close.  A callback, the     *)
(* engine and the removal of a half-written file may each fail.            *)
(***************************************************************************)
EXTENDS ColumnTable, FiniteSets

CONSTANTS Calls,             \* the calls to try: layout, includeStructureColumns, and
                             \* whether a structure-id resolver is given
          Buckets,           \* what the bucket resolver returns
          StructureIds,      \* what the structure-id resolver returns
          Inputs,            \* the values callbacks pass to field()
          Fold,              \* a name as DuckDB compares it, without case
          RowCount,          \* natoms, bonds.size(), lineCount
          FlushRows          \* rows that fill the buffer (kFlushBytes)

ASSUME CallsAssumption ==
  Calls \subseteq [layout : {"atoms", "bonds", "lines"}, structure : BOOLEAN, resolver : BOOLEAN]
ASSUME InputsAssumption == Inputs \subseteq Value
ASSUME RowCountAssumption == RowCount \in 0..MaxRows /\ FlushRows \in Nat \ {0}

VARIABLES call,       \* the arguments of the call
          phase,      \* where the function is
          inRow,      \* between the fixed columns and finishRow() of a row
          buckets, structureIds, bucketId,
          next,       \* rows the load loop has handed to the Appender
          csv,        \* rows in the Appender's buffer
          table,      \* rows in the staged table
          file        \* what is at the output path

fixed   == <<call, buckets, structureIds, bucketId>>
staging == <<next, csv, table>>
exportVars == <<vars, phase, inRow, fixed, staging, file>>

Layout           == call.layout
IncludeStructure == call.structure
HasResolver      == call.resolver

Phases == {"collect", "load", "copy", "remove", "done", "thrown"}

-----------------------------------------------------------------------------
(* The fixed columns, and the names isReserved() drops *)

AtomReserved == {"atom_index", "id", "x", "y", "z", "bucket", "structure_id", "structure_name"}
BondReserved == {"id", "points", "atom_a", "atom_b",
                 "pbc_shift_x", "pbc_shift_y", "pbc_shift_z", "distance"}
LineReserved == {"id", "points"}

AtomColumns == {"atom_index", "id", "x", "y", "z", "bucket"}
                 \cup IF IncludeStructure THEN {"structure_id", "structure_name"} ELSE {}
BondColumns == {"id", "points", "atom_a", "atom_b",
                "pbc_shift_x", "pbc_shift_y", "pbc_shift_z", "distance"}
LineColumns == {"id", "points"}

FixedColumns ==
  CASE Layout = "atoms" -> AtomColumns
    [] Layout = "bonds" -> BondColumns
    [] Layout = "lines" -> LineColumns

ReservedNames(layout) ==
  CASE layout = "atoms" -> AtomReserved
    [] layout = "bonds" -> BondReserved
    [] layout = "lines" -> LineReserved

ASSUME ReservedMatchesLayout == \A c \in Calls : Reserved = Names \cap ReservedNames(c.layout)

\* What the load loop hands over for row i: the fixed columns that tell rows apart, and
\* every dynamic column's values[i].
Cells(i) == [n \in Known |-> columns[n].values[i]]

AtomRow(i) == [index |-> i - 1, bucket |-> buckets[i], cells |-> Cells(i),
               structure |-> IF IncludeStructure THEN structureIds[i] ELSE Null]
BondRow(i) == [index |-> i - 1, cells |-> Cells(i)]
LineRow(i) == [index |-> i - 1, cells |-> Cells(i)]

RowOf(i) ==
  CASE Layout = "atoms" -> AtomRow(i)
    [] Layout = "bonds" -> BondRow(i)
    [] Layout = "lines" -> LineRow(i)

\* CREATE TABLE refuses two columns whose names DuckDB cannot tell apart.
ColumnsClash ==
  \/ \E n \in Known : Fold[n] \in FixedColumns
  \/ \E m, n \in Known : m # n /\ Fold[m] = Fold[n]

-----------------------------------------------------------------------------

ExportInit ==
  /\ Init
  /\ call \in Calls
  /\ phase = "collect" /\ inRow = FALSE
  /\ buckets = <<>> /\ structureIds = <<>> /\ bucketId = <<>>
  /\ next = 0 /\ csv = <<>> /\ table = <<>>
  /\ file \in {[state |-> "absent", rows |-> <<>>], [state |-> "old", rows |-> <<>>]}

(* Collecting *)

\* idForBucket(): ids are handed out in the order buckets are first seen.
BucketIds(bucket) ==
  IF bucket \in DOMAIN bucketId THEN bucketId
  ELSE [b \in DOMAIN bucketId \cup {bucket} |->
          IF b = bucket THEN Cardinality(DOMAIN bucketId) ELSE bucketId[b]]

\* mutant: the id of a bucket is the row it was last seen in
ResolveRowForgetsIds ==
  /\ phase = "collect" /\ ~inRow /\ rowsCompleted < RowCount
  /\ inRow' = TRUE
  /\ \E bucket \in Buckets :
       /\ buckets' = Append(buckets, bucket)
       /\ bucketId' = [b \in DOMAIN bucketId \cup {bucket} |->
                         IF b = bucket THEN Cardinality(DOMAIN bucketId) ELSE bucketId[b]]
       /\ structureIds' = Append(structureIds, bucketId'[bucket])
  /\ UNCHANGED <<vars, call, phase, staging, file>>

\* mutant: a structure id is pushed only for a bucket that has none yet
ResolveRowNewOnly ==
  /\ phase = "collect" /\ ~inRow /\ rowsCompleted < RowCount
  /\ inRow' = TRUE
  /\ \E bucket \in Buckets :
       /\ buckets' = Append(buckets, bucket)
       /\ bucketId' = BucketIds(bucket)
       /\ structureIds' = IF bucket \in DOMAIN bucketId THEN structureIds
                          ELSE Append(structureIds, bucketId'[bucket])
  /\ UNCHANGED <<vars, call, phase, staging, file>>

\* The fixed columns of the next row; only atoms have a bucket.
ResolveRow ==
  /\ phase = "collect" /\ ~inRow /\ rowsCompleted < RowCount
  /\ inRow' = TRUE
  /\ IF Layout = "atoms"
     THEN \E bucket \in Buckets :
            /\ buckets' = Append(buckets, bucket)
            /\ IF HasResolver
               THEN /\ \E sid \in StructureIds : structureIds' = Append(structureIds, sid)
                    /\ UNCHANGED <<call, bucketId>>
               ELSE /\ bucketId' = BucketIds(bucket)
                    /\ structureIds' = Append(structureIds, bucketId'[bucket])
                    /\ UNCHANGED call
     ELSE UNCHANGED fixed
  /\ UNCHANGED <<vars, phase, staging, file>>

\* The caller's per-row callback, through field().
WriteField ==
  /\ phase = "collect" /\ inRow
  /\ \/ \E n \in Fields, value \in Inputs : Field(n, value)
     \/ \E n \in Names : DropReserved(n)
  /\ UNCHANGED <<phase, inRow, fixed, staging, file>>

FinishCollectedRow ==
  /\ phase = "collect" /\ inRow
  /\ FinishRow
  /\ inRow' = FALSE
  /\ UNCHANGED <<phase, fixed, staging, file>>

\* A resolver or the per-row callback throws.
CallbackThrows ==
  /\ phase = "collect" /\ rowsCompleted < RowCount
  /\ phase' = "thrown"
  /\ UNCHANGED <<vars, inRow, fixed, staging, file>>

-----------------------------------------------------------------------------
(* Staging and copying *)

\* CREATE TABLE, with one column per dynamic column
StageTable ==
  /\ phase = "collect" /\ ~inRow /\ rowsCompleted = RowCount
  /\ \/ ~ColumnsClash /\ phase' = "load"
     \/ phase' = "thrown"
  /\ UNCHANGED <<vars, inRow, fixed, staging, file>>

\* Appender::Flush of a buffer: it is cleared before the reply is looked at, and the
\* engine inserts all of it or nothing.
Flush(buffer) ==
  /\ csv' = <<>>
  /\ \/ table' = table \o buffer /\ UNCHANGED phase
     \/ buffer # <<>> /\ phase' = "thrown" /\ UNCHANGED table

\* mutant: the buffer is sent when it is full, and the row that filled it is left out
LoadRowDropsFilling ==
  /\ phase = "load" /\ next < RowCount
  /\ next' = next + 1
  /\ IF Len(csv) + 1 >= FlushRows THEN Flush(csv)
     ELSE csv' = Append(csv, RowOf(next')) /\ UNCHANGED <<table, phase>>
  /\ UNCHANGED <<vars, inRow, fixed, file>>

\* BeginRow, the Appends and EndRow of one row
LoadRow ==
  /\ phase = "load" /\ next < RowCount
  /\ next' = next + 1
  /\ LET buffer == Append(csv, RowOf(next'))
     IN IF Len(buffer) >= FlushRows THEN Flush(buffer)
        ELSE csv' = buffer /\ UNCHANGED <<table, phase>>
  /\ UNCHANGED <<vars, inRow, fixed, file>>

\* mutant: the rows still buffered are not sent on Close
CloseAppenderUnsent ==
  /\ phase = "load" /\ next = RowCount
  /\ csv' = <<>> /\ phase' = "copy"
  /\ UNCHANGED <<vars, inRow, fixed, next, table, file>>

\* appender.Close() after the last row
CloseAppender ==
  /\ phase = "load" /\ next = RowCount
  /\ csv' = <<>>
  /\ \/ table' = table \o csv /\ phase' = "copy"
     \/ csv # <<>> /\ phase' = "thrown" /\ UNCHANGED table
  /\ UNCHANGED <<vars, inRow, fixed, next, file>>

\* mutant: a failed COPY is thrown as it is
CopyTableKeepsPartial ==
  /\ phase = "copy"
  /\ \/ file' = [state |-> "table", rows |-> table] /\ phase' = "done"
     \/ file' = [state |-> "partial", rows |-> <<>>] /\ phase' = "thrown"
  /\ UNCHANGED <<vars, inRow, fixed, staging>>

\* COPY table TO the output path; a failure may come before or after the file was opened
CopyTable ==
  /\ phase = "copy"
  /\ \/ file' = [state |-> "table", rows |-> table] /\ phase' = "done"
     \/ file' = [state |-> "partial", rows |-> <<>>] /\ phase' = "remove"
     \/ UNCHANGED file /\ phase' = "remove"
  /\ UNCHANGED <<vars, inRow, fixed, staging>>

\* std::filesystem::remove, its error discarded, and the throw
RemoveOutput ==
  /\ phase = "remove"
  /\ phase' = "thrown"
  /\ \/ file' = [state |-> "absent", rows |-> <<>>]
     \/ file.state = "partial" /\ file' = [state |-> "stuck", rows |-> <<>>]
     \/ file.state # "partial" /\ UNCHANGED file
  /\ UNCHANGED <<vars, inRow, fixed, staging>>

ExportNext ==
  \/ ResolveRow \/ WriteField \/ FinishCollectedRow \/ CallbackThrows
  \/ StageTable \/ LoadRow \/ CloseAppender \/ CopyTable \/ RemoveOutput

ExportSpec == ExportInit /\ [][ExportNext]_exportVars

-----------------------------------------------------------------------------
(* Properties *)

\* Types, and that the fixed columns are as long as the rows.
ExportTypeOK ==
  /\ TypeOK
  /\ phase \in Phases /\ inRow \in BOOLEAN
  /\ next \in 0..RowCount
  /\ file.state \in {"absent", "old", "partial", "stuck", "table"}
  /\ Layout = "atoms" =>
       /\ Len(buckets) = rowsCompleted + (IF inRow THEN 1 ELSE 0)
       /\ Len(structureIds) = Len(buckets)

\* While rows are loaded, the staged table followed by the buffer is the rows handed over
\* so far, each once and in order, whatever the buffer's size; no row is lost between
\* EndRow, Flush and Close.
LoadedInOrder ==
  phase \in {"load", "copy", "done"} => table \o csv = [i \in 1..next |-> RowOf(i)]

\* A file that the function reports as written holds every row in order, with its fixed
\* columns and the cell of every dynamic column (ImplementsRowTable says that this cell is
\* what the row's own callback wrote), and no other file is reported as written.
FileIsComplete ==
  /\ phase = "done" <=> file.state = "table"
  /\ phase = "done" => file.rows = [i \in 1..RowCount |-> RowOf(i)]

\* A function that throws never leaves a half-written file behind, unless removing it
\* failed; and it touches the output path only once everything is staged.
ThrowLeavesNoPartial ==
  /\ phase = "thrown" => file.state # "partial"
  /\ file.state \in {"partial", "stuck", "table"} => table = [i \in 1..RowCount |-> RowOf(i)]

\* Without a resolver, two rows have the same structure id exactly when they have the same
\* bucket, and the ids are 0, 1, 2... in the order buckets appear.
BucketIdsDense ==
  Layout = "atoms" /\ ~HasResolver =>
    \A i, j \in 1..Len(buckets) :
      /\ structureIds[i] = structureIds[j] <=> buckets[i] = buckets[j]
      /\ structureIds[i] = Cardinality({buckets[k] : k \in 1..(i - 1)})
           \/ \E k \in 1..(i - 1) : buckets[k] = buckets[i]
=============================================================================
