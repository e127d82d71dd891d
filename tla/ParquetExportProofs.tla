-------------------------- MODULE ParquetExportProofs --------------------------
(***************************************************************************)
(* A streamed Parquet file holds every row once and in order, or the       *)
(* caller hears of it and no partial file stays: for any columns, number   *)
(* of rows and size of the Appender's buffer, and whatever fails.          *)
(*                                                                         *)
(* StagingInv follows the rows from the columns through the buffer to the  *)
(* table, FileInv says what may be at the output path in each phase.       *)
(* First comes what holds of the columns by themselves: ColumnTable is     *)
(* aligned and implements RowTable.                                        *)
(***************************************************************************)
EXTENDS ParquetExport, SequenceTheorems, FiniteSetTheorems, TLAPS

-----------------------------------------------------------------------------
(* The columns: the operators *)

LEMMA CoerceType ==
  ASSUME NEW value \in Value, NEW type \in Types
  PROVE  Coerce(type, value) \in Cell
  BY DataAssumption DEF Value, Cell, Coerce, Types

\* The column that field() starts from.
LEMMA EnsureColumn ==
  ASSUME TypeOK, NEW n \in Fields, NEW type \in Types
  PROVE  /\ Ensure(n, type) \in Column
         /\ n \notin Known => Len(Ensure(n, type).values) = rowsCompleted
         /\ n \notin Known => Ensure(n, type).touched = FALSE
         /\ n \notin Known => \A r \in 1..rowsCompleted : Ensure(n, type).values[r] = Null
  <1>1. CASE n \in Known
    BY <1>1 DEF TypeOK, Ensure
  <1>2. CASE n \notin Known
    <2> DEFINE nulls == [r \in 1..rowsCompleted |-> Null]
    <2>1. rowsCompleted \in Nat
      BY BoundsAssumption DEF TypeOK
    <2>2. /\ nulls \in Seq(Cell \cup {Null}) /\ Len(nulls) = rowsCompleted
          /\ \A r \in 1..rowsCompleted : nulls[r] = Null
      BY <2>1
    <2>3. Ensure(n, type) = [type |-> type, values |-> nulls, touched |-> FALSE]
      BY <1>2 DEF Ensure
    <2>4. QED
      <3> HIDE DEF nulls
      <3> QED BY <1>2, <2>2, <2>3 DEF Column
  <1>3. QED
    BY <1>1, <1>2

\* Writing a value to a column: one cell more, the last one, and the others stay.
LEMMA WrittenColumn ==
  ASSUME NEW col \in Column, NEW value \in Value
  PROVE  /\ Written(col, value) \in Column
         /\ Written(col, value).type = col.type
         /\ Written(col, value).touched = TRUE
         /\ Len(Written(col, value).values) = Len(col.values) + 1
         /\ Written(col, value).values[Len(col.values) + 1] = Coerce(col.type, value)
         /\ \A r \in 1..Len(col.values) : Written(col, value).values[r] = col.values[r]
  <1> DEFINE cell == Coerce(col.type, value)
             Held == Cell \cup {Null}
  <1>1. col.values \in Seq(Held) /\ col.type \in Types /\ cell \in Held
    BY CoerceType DEF Column
  <1>2. /\ Append(col.values, cell) \in Seq(Held)
        /\ Len(Append(col.values, cell)) = Len(col.values) + 1
        /\ Append(col.values, cell)[Len(col.values) + 1] = cell
        /\ \A r \in 1..Len(col.values) : Append(col.values, cell)[r] = col.values[r]
    <2> HIDE DEF cell, Held
    <2> QED BY <1>1
  <1>3. Written(col, value) =
          [type |-> col.type, values |-> Append(col.values, cell), touched |-> TRUE]
    BY DEF Written
  <1>4. QED
    BY <1>1, <1>2, <1>3 DEF Column

\* finishRow() on a column: a NULL more unless the row wrote it.
LEMMA PaddedColumn ==
  ASSUME NEW col \in Column
  PROVE  /\ Padded(col) \in Column
         /\ Padded(col).type = col.type
         /\ Padded(col).touched = FALSE
         /\ Len(Padded(col).values) = Len(col.values) + (IF col.touched THEN 0 ELSE 1)
         /\ ~col.touched => Padded(col).values[Len(col.values) + 1] = Null
         /\ \A r \in 1..Len(col.values) : Padded(col).values[r] = col.values[r]
  <1> DEFINE Held == Cell \cup {Null}
             longer == Append(col.values, Null)
  <1>1. col.values \in Seq(Held) /\ Null \in Held /\ col.touched \in BOOLEAN
    BY DEF Column
  <1>2. /\ longer \in Seq(Held) /\ Len(longer) = Len(col.values) + 1
        /\ longer[Len(col.values) + 1] = Null
        /\ \A r \in 1..Len(col.values) : longer[r] = col.values[r]
    <2> HIDE DEF Held
    <2> QED BY <1>1
  <1>3. Padded(col) = [type |-> col.type, touched |-> FALSE,
                       values |-> IF col.touched THEN col.values ELSE longer]
    BY DEF Padded
  <1>4. QED
    <2> HIDE DEF longer
    <2> QED BY <1>1, <1>2, <1>3 DEF Column

-----------------------------------------------------------------------------
(* The columns: types and alignment *)

\* A name without a column has never been written, let alone twice.
NoneRepeatedUnknown == \A n \in Fields \ Known : repeats[n] = 0

AlignInv == Aligned /\ NoneRepeatedUnknown

LEMMA InitAligned == Init => TypeOK /\ AlignInv
  BY BoundsAssumption DEF Init, TypeOK, AlignInv, Aligned, NoneRepeatedUnknown, Known

\* What field() does to the columns.
LEMMA FieldEffect ==
  ASSUME TypeOK, NEW n \in Fields, NEW value \in Value, Field(n, value)
  PROVE  /\ Known' = Known \cup {n}
         /\ columns'[n] = Written(Ensure(n, value.type), value)
         /\ \A m \in Known \ {n} : columns'[m] = columns[m]
         /\ Ensure(n, value.type) \in Column
         /\ columns'[n] \in Column
  <1>1. value.type \in Types
    BY DEF Value
  <1>2. Ensure(n, value.type) \in Column
    BY <1>1, EnsureColumn
  <1>3. QED
    BY <1>2, WrittenColumn DEF Field, Known

LEMMA NextType == TypeOK /\ [Next]_vars => TypeOK'
  <1> SUFFICES ASSUME TypeOK, [Next]_vars PROVE TypeOK'
    OBVIOUS
  <1>1. ASSUME NEW n \in Fields, NEW value \in Value, Field(n, value) PROVE TypeOK'
    <2>1. /\ Known' = Known \cup {n} /\ columns'[n] \in Column
          /\ \A m \in Known \ {n} : columns'[m] = columns[m]
      BY <1>1, FieldEffect
    <2>2. columns' \in [Known' -> Column]
      <3> HIDE DEF Column
      <3> QED BY <1>1, <2>1 DEF Field, TypeOK
    <2>3. repeats' \in [Fields -> 0..MaxRepeats]
      BY <1>1, BoundsAssumption DEF Field, TypeOK
    <2>4. QED
      BY <1>1, <2>1, <2>2, <2>3 DEF Field, TypeOK
  <1>2. CASE FinishRow
    <2>1. Known' = Known
      BY <1>2 DEF FinishRow, Known
    <2>2. columns' \in [Known' -> Column]
      BY <1>2, <2>1, PaddedColumn DEF FinishRow, TypeOK
    <2>3. QED
      BY <1>2, <2>1, <2>2, BoundsAssumption DEF FinishRow, TypeOK
  <1>3. CASE UNCHANGED vars
    BY <1>3 DEF vars, TypeOK, Known
  <1>4. QED
    BY <1>1, <1>2, <1>3 DEF Next, DropReserved

LEMMA NextAligned == TypeOK /\ AlignInv /\ [Next]_vars => AlignInv'
  <1> SUFFICES ASSUME TypeOK, AlignInv, [Next]_vars PROVE AlignInv'
    OBVIOUS
  <1>a. /\ rowsCompleted \in Nat /\ \A n \in Fields : repeats[n] \in Nat
        /\ Known \subseteq Fields /\ \A n \in Known : columns[n] \in Column
    BY BoundsAssumption DEF TypeOK
  <1>1. ASSUME NEW n \in Fields, NEW value \in Value, Field(n, value) PROVE AlignInv'
    <2> DEFINE before == Ensure(n, value.type)
               after  == columns'[n]
    <2>1. /\ Known' = Known \cup {n} /\ after = Written(before, value)
          /\ before \in Column /\ \A m \in Known \ {n} : columns'[m] = columns[m]
      BY <1>1, FieldEffect
    <2>2. /\ after.touched = TRUE
          /\ Len(after.values) = Len(before.values) + 1
      <3> HIDE DEF before, after
      <3> QED BY <2>1, WrittenColumn
    <2>3. /\ n \in Known => before = columns[n]
          /\ n \notin Known => Len(before.values) = rowsCompleted
      BY EnsureColumn DEF Ensure, Value
    <2>4. /\ rowsCompleted' = rowsCompleted
          /\ repeats'[n] = IF Touched(n) THEN repeats[n] + 1 ELSE repeats[n]
          /\ \A m \in Fields \ {n} : repeats'[m] = repeats[m]
      BY <1>1 DEF Field, TypeOK
    <2>5. Len(after.values) = rowsCompleted' + repeats'[n] + 1
      <3>1. CASE n \in Known
        <4>1. Len(before.values) = rowsCompleted + repeats[n] + (IF Touched(n) THEN 1 ELSE 0)
          BY <2>3, <3>1 DEF AlignInv, Aligned, Touched
        <4>2. QED
          <5> HIDE DEF before, after
          <5> QED BY <1>a, <2>2, <2>4, <4>1
      <3>2. CASE n \notin Known
        <4>1. repeats[n] = 0 /\ ~Touched(n)
          BY <3>2 DEF Touched, AlignInv, NoneRepeatedUnknown
        <4>2. QED
          <5> HIDE DEF before, after
          <5> QED BY <1>a, <2>2, <2>3, <2>4, <3>2, <4>1
      <3>3. QED
        BY <3>1, <3>2
    <2>6. ASSUME NEW m \in Known'
          PROVE  Len(columns'[m].values) =
                   rowsCompleted' + repeats'[m] + (IF columns'[m].touched THEN 1 ELSE 0)
      <3>1. CASE m = n
        BY <2>2, <2>5, <3>1
      <3>2. CASE m # n
        <4>1. /\ m \in Known /\ m \in Fields /\ columns'[m] = columns[m]
              /\ repeats'[m] = repeats[m] /\ rowsCompleted' = rowsCompleted
          <5> HIDE DEF before, after
          <5> QED BY <1>a, <2>1, <2>4, <2>6, <3>2
        <4>2. QED
          BY <4>1 DEF AlignInv, Aligned
      <3>3. QED
        BY <3>1, <3>2
    <2>7. NoneRepeatedUnknown'
      <3> HIDE DEF before, after
      <3> QED BY <2>1, <2>4 DEF AlignInv, NoneRepeatedUnknown
    <2>8. QED
      BY <2>6, <2>7 DEF AlignInv, Aligned
  <1>2. CASE FinishRow
    <2>1. /\ Known' = Known /\ rowsCompleted' = rowsCompleted + 1 /\ repeats' = repeats
          /\ \A n \in Known : columns'[n] = Padded(columns[n])
      BY <1>2 DEF FinishRow, Known
    <2>2. \A n \in Known :
            /\ columns'[n].touched = FALSE
            /\ Len(columns'[n].values) =
                 Len(columns[n].values) + (IF columns[n].touched THEN 0 ELSE 1)
      <3> SUFFICES ASSUME NEW n \in Known
                   PROVE  /\ columns'[n].touched = FALSE
                          /\ Len(columns'[n].values) =
                               Len(columns[n].values) + (IF columns[n].touched THEN 0 ELSE 1)
        OBVIOUS
      <3>1. columns[n] \in Column
        BY <1>a
      <3>2. QED
        BY <2>1, <3>1, PaddedColumn
    <2>3. ASSUME NEW n \in Known
          PROVE  Len(columns'[n].values) =
                   rowsCompleted' + repeats'[n] + (IF columns'[n].touched THEN 1 ELSE 0)
      <3>1. Len(columns[n].values) =
              rowsCompleted + repeats[n] + (IF columns[n].touched THEN 1 ELSE 0)
        BY DEF AlignInv, Aligned
      <3>2. repeats[n] \in Nat /\ columns[n].touched \in BOOLEAN
        BY <1>a DEF Column
      <3>3. /\ Len(columns'[n].values) =
                 Len(columns[n].values) + (IF columns[n].touched THEN 0 ELSE 1)
            /\ columns'[n].touched = FALSE
            /\ rowsCompleted' = rowsCompleted + 1 /\ repeats'[n] = repeats[n]
        BY <2>1, <2>2
      <3>4. CASE columns[n].touched
        BY <1>a, <3>1, <3>2, <3>3, <3>4
      <3>5. CASE ~columns[n].touched
        BY <1>a, <3>1, <3>2, <3>3, <3>5
      <3>6. QED
        BY <3>4, <3>5
    <2>4. NoneRepeatedUnknown'
      BY <2>1 DEF AlignInv, NoneRepeatedUnknown
    <2>5. QED
      BY <2>1, <2>3, <2>4 DEF AlignInv, Aligned
  <1>3. CASE UNCHANGED vars
    BY <1>3 DEF vars, AlignInv, Aligned, NoneRepeatedUnknown, Known
  <1>4. QED
    BY <1>1, <1>2, <1>3 DEF Next, DropReserved

\* The columns keep their types, for any names, payloads and callbacks.
THEOREM TypeCorrect == Spec => []TypeOK
  BY InitAligned, NextType, PTL DEF Spec

\* Every column has a cell per row, and is off by exactly the repeated writes it got.
THEOREM ColumnsAligned == Spec => []Aligned
  <1>1. AlignInv => Aligned
    BY DEF AlignInv
  <1>2. QED
    BY <1>1, InitAligned, NextType, NextAligned, PTL DEF Spec

-----------------------------------------------------------------------------
(* ColumnTable implements RowTable *)

\* The values mean the same on both sides.
LEMMA SameValues ==
  /\ Rows!Fields = Fields /\ Rows!Value = Value
  /\ \A type, value : Rows!Coerce(type, value) = Coerce(type, value)
  BY DEF Fields, Value, Types, Coerce, Rows!Fields, Rows!Value, Rows!Types, Rows!Coerce

NeverRepeated == \A n \in Fields : repeats[n] = 0

RefineInv == TypeOK /\ AlignInv /\ NeverRepeated

LEMMA RefineInvariant == OncePerRow => (Spec => []RefineInv)
  <1>1. OncePerRow /\ Init => NeverRepeated
    BY DEF Init, NeverRepeated
  <1>2. OncePerRow /\ TypeOK /\ NeverRepeated /\ [Next]_vars => NeverRepeated'
    BY DEF NeverRepeated, TypeOK, Next, Field, DropReserved, FinishRow, vars
  <1>3. OncePerRow /\ Init => RefineInv
    BY <1>1, InitAligned DEF RefineInv
  <1>4. OncePerRow /\ RefineInv /\ [Next]_vars => RefineInv'
    BY <1>2, NextType, NextAligned DEF RefineInv
  <1>5. ASSUME OncePerRow PROVE Init => RefineInv
    BY <1>3, <1>5
  <1>6. ASSUME OncePerRow PROVE RefineInv /\ [Next]_vars => RefineInv'
    BY <1>4, <1>6
  <1>7. ASSUME OncePerRow PROVE Spec => []RefineInv
    BY <1>5, <1>6, <1>7, PTL DEF Spec
  <1>8. QED
    BY <1>7

\* What the invariant says of a column: it is as long as the table, plus the open row.
LEMMA ColumnLength ==
  ASSUME RefineInv, NEW n \in Known
  PROVE  /\ columns[n] \in Column /\ n \in Fields
         /\ rowsCompleted \in Nat /\ Len(columns[n].values) \in Nat
         /\ Touched(n) => Len(columns[n].values) = rowsCompleted + 1
         /\ ~Touched(n) => Len(columns[n].values) = rowsCompleted
  <1>1. /\ columns[n] \in Column /\ n \in Fields /\ rowsCompleted \in Nat /\ repeats[n] = 0
    BY BoundsAssumption DEF RefineInv, TypeOK, NeverRepeated
  <1>2. Len(columns[n].values) = rowsCompleted + repeats[n] + (IF columns[n].touched THEN 1 ELSE 0)
    BY DEF RefineInv, AlignInv, Aligned
  <1>3. columns[n].values \in Seq(Cell \cup {Null})
    BY <1>1 DEF Column
  <1>4. QED
    BY <1>1, <1>2, <1>3 DEF Touched

LEMMA InitRefines == Init => Rows!Init
  <1> SUFFICES ASSUME Init PROVE Rows!Init
    OBVIOUS
  <1>1. Known = {} /\ rowsCompleted = 0
    BY DEF Init, Known
  <1>2. RowsMap = <<>>
    BY <1>1 DEF RowsMap
  <1>3. RowMap = Rows!Blank
    BY <1>1, SameValues DEF RowMap, Rows!Blank, Touched
  <1>4. TypeMap = [n \in Fields |-> "none"]
    BY <1>1 DEF TypeMap
  <1>5. QED
    BY <1>2, <1>3, <1>4, SameValues DEF Rows!Init

LEMMA FieldRefines ==
  ASSUME OncePerRow, RefineInv, NEW n \in Fields, NEW value \in Value, Field(n, value)
  PROVE  Rows!Field(n, value)
  <1> DEFINE before == Ensure(n, value.type)
             after  == columns'[n]
  <1>1. /\ Known' = Known \cup {n} /\ after = Written(before, value) /\ before \in Column
        /\ \A m \in Known \ {n} : columns'[m] = columns[m]
        /\ ~Touched(n) /\ rowsCompleted' = rowsCompleted /\ rowsCompleted \in Nat
    <2>1. TypeOK
      BY DEF RefineInv
    <2>2. /\ Known' = Known \cup {n} /\ after = Written(before, value) /\ before \in Column
          /\ \A m \in Known \ {n} : columns'[m] = columns[m]
      BY <2>1, FieldEffect
    <2>3. ~Touched(n) /\ rowsCompleted' = rowsCompleted /\ rowsCompleted \in Nat
      BY <2>1, BoundsAssumption DEF Field, TypeOK
    <2>4. QED
      BY <2>2, <2>3
  <1>2. /\ n \in Known => before = columns[n]
        /\ n \notin Known => /\ before.type = value.type
                             /\ \A r \in 1..rowsCompleted : before.values[r] = Null
        /\ Len(before.values) = rowsCompleted
    <2>1. value.type \in Types
      BY DEF Value
    <2>2. CASE n \in Known
      BY <1>1, <2>2, ColumnLength DEF Ensure
    <2>3. CASE n \notin Known
      BY <2>1, <2>3, EnsureColumn DEF RefineInv, Ensure
    <2>4. QED
      BY <2>2, <2>3
  <1>3. /\ after.type = before.type /\ after.touched = TRUE
        /\ Len(after.values) = rowsCompleted + 1
        /\ after.values[rowsCompleted + 1] = Coerce(before.type, value)
        /\ \A r \in 1..rowsCompleted : after.values[r] = before.values[r]
    <2> HIDE DEF before, after
    <2> QED BY <1>1, <1>2, WrittenColumn
  <1>4. RowMap[n] = Null
    BY <1>1 DEF RowMap
  <1>5. before.type # "none" /\ (n \in Known => columns[n].type # "none")
    BY <1>1, <1>2 DEF Column, Types
  <1> HIDE DEF before, after
  <1>6. TypeMap' = [TypeMap EXCEPT ![n] = IF TypeMap[n] = "none" THEN value.type ELSE TypeMap[n]]
    <2>1. columns'[n].type = before.type
      BY <1>3 DEF after
    <2>2. TypeMap'[n] = before.type
      BY <1>1, <2>1 DEF TypeMap
    <2>3. (IF TypeMap[n] = "none" THEN value.type ELSE TypeMap[n]) = before.type
      BY <1>2, <1>5 DEF TypeMap
    <2>4. \A m \in Fields \ {n} : TypeMap'[m] = TypeMap[m]
      BY <1>1 DEF TypeMap
    <2>5. QED
      BY <2>2, <2>3, <2>4 DEF TypeMap
  <1>7. TypeMap'[n] = before.type
    BY <1>1, <1>3 DEF TypeMap, after
  <1>8. RowMap' = [RowMap EXCEPT ![n] = Coerce(TypeMap'[n], value)]
    <2>1. Touched(n)' /\ LastCell(n)' = Coerce(before.type, value)
      BY <1>1, <1>3 DEF Touched, LastCell, after
    <2>2. RowMap'[n] = Coerce(before.type, value)
      BY <2>1 DEF RowMap
    <2>3. \A m \in Fields \ {n} : RowMap'[m] = RowMap[m]
      BY <1>1 DEF RowMap, Touched, LastCell
    <2>4. QED
      BY <1>7, <2>2, <2>3 DEF RowMap
  <1>9. RowsMap' = RowsMap
    <2>1. ASSUME NEW r \in 1..rowsCompleted, NEW m \in Fields
          PROVE  CellAt(m, r)' = CellAt(m, r)
      <3>1. CASE m = n
        BY <1>1, <1>2, <1>3, <3>1 DEF CellAt, after
      <3>2. CASE m # n
        BY <1>1, <3>2 DEF CellAt
      <3>3. QED
        BY <3>1, <3>2
    <2>2. QED
      BY <1>1, <2>1 DEF RowsMap
  <1>10. QED
    BY <1>4, <1>6, <1>8, <1>9, SameValues DEF Rows!Field

LEMMA FinishRowRefines ==
  ASSUME RefineInv, FinishRow
  PROVE  Rows!FinishRow
  <1>1. /\ Known' = Known /\ rowsCompleted' = rowsCompleted + 1
        /\ \A n \in Known : columns'[n] = Padded(columns[n])
        /\ rowsCompleted \in Nat /\ rowsCompleted < MaxRows
    BY BoundsAssumption DEF FinishRow, Known, RefineInv, TypeOK
  <1>2. ASSUME NEW n \in Known
        PROVE  /\ columns'[n].touched = FALSE /\ columns'[n].type = columns[n].type
               /\ \A r \in 1..rowsCompleted : columns'[n].values[r] = columns[n].values[r]
               /\ columns'[n].values[rowsCompleted + 1] =
                    IF Touched(n) THEN columns[n].values[rowsCompleted + 1] ELSE Null
    <2>1. columns[n] \in Column /\ columns'[n] = Padded(columns[n])
      BY <1>1, ColumnLength
    <2>2. /\ columns'[n].touched = FALSE /\ columns'[n].type = columns[n].type
          /\ ~columns[n].touched =>
               columns'[n].values[Len(columns[n].values) + 1] = Null
          /\ \A r \in 1..Len(columns[n].values) : columns'[n].values[r] = columns[n].values[r]
      BY <2>1, PaddedColumn
    <2>3. CASE Touched(n)
      BY <1>1, <2>2, <2>3, ColumnLength
    <2>4. CASE ~Touched(n)
      BY <1>1, <2>2, <2>4, ColumnLength DEF Touched
    <2>5. QED
      BY <2>3, <2>4
  <1>3. Len(RowsMap) = rowsCompleted
    BY <1>1 DEF RowsMap
  <1>4. RowsMap' = Append(RowsMap, RowMap)
    <2>1. ASSUME NEW r \in 1..rowsCompleted, NEW n \in Fields
          PROVE  CellAt(n, r)' = CellAt(n, r)
      BY <1>1, <1>2 DEF CellAt
    <2>2. ASSUME NEW r, r = rowsCompleted + 1, NEW n \in Fields
          PROVE  CellAt(n, r)' = RowMap[n]
      <3>1. CASE n \in Known
        BY <1>1, <1>2, <2>2, <3>1, ColumnLength DEF CellAt, RowMap, LastCell
      <3>2. CASE n \notin Known
        BY <1>1, <2>2, <3>2 DEF CellAt, RowMap, Touched
      <3>3. QED
        BY <3>1, <3>2
    <2>3. ASSUME NEW r \in 1..(rowsCompleted + 1)
          PROVE  RowsMap'[r] = IF r <= rowsCompleted THEN RowsMap[r] ELSE RowMap
      <3>1. RowsMap'[r] = [n \in Fields |-> CellAt(n, r)']
        BY <1>1 DEF RowsMap
      <3>2. CASE r <= rowsCompleted
        BY <1>1, <2>1, <3>1, <3>2 DEF RowsMap
      <3>3. CASE r = rowsCompleted + 1
        BY <1>1, <2>2, <3>1, <3>3 DEF RowMap
      <3>4. QED
        BY <1>1, <3>2, <3>3
    <2>4. /\ RowsMap' = [r \in 1..(rowsCompleted + 1) |-> RowsMap'[r]]
          /\ RowsMap = [r \in 1..rowsCompleted |-> RowsMap[r]]
      BY <1>1 DEF RowsMap
    <2> DEFINE old  == RowsMap
               new  == RowsMap'
               last == RowMap
               Rws  == {old[r] : r \in 1..rowsCompleted} \cup {last}
    <2>5. /\ old \in [1..rowsCompleted -> Rws] /\ last \in Rws
          /\ new \in [1..(rowsCompleted + 1) -> Rws]
      BY <1>1, <2>3, <2>4
    <2> HIDE DEF old, new, last, Rws
    <2>6. /\ old \in Seq(Rws) /\ Len(old) = rowsCompleted
          /\ new \in Seq(Rws) /\ Len(new) = rowsCompleted + 1
      <3>1. old \in Seq(Rws) /\ new \in Seq(Rws)
        BY <1>1, <2>5, SeqDef
      <3>2. QED
        BY <1>1, <2>5, <3>1, LenProperties
    <2>7. /\ Append(old, last) \in Seq(Rws) /\ Len(Append(old, last)) = rowsCompleted + 1
          /\ \A r \in 1..(rowsCompleted + 1) :
               Append(old, last)[r] = IF r <= rowsCompleted THEN old[r] ELSE last
      BY <1>1, <2>5, <2>6, AppendProperties
    <2>8. \A r \in 1..(rowsCompleted + 1) :
            new[r] = IF r <= rowsCompleted THEN old[r] ELSE last
      BY <2>3 DEF old, new, last
    <2>9. new = Append(old, last)
      BY <1>1, <2>6, <2>7, <2>8, SeqEqual
    <2>10. QED
      BY <2>9 DEF old, new, last
  <1>5. RowMap' = Rows!Blank
    BY <1>1, <1>2, SameValues DEF RowMap, Rows!Blank, Touched
  <1>6. TypeMap' = TypeMap
    BY <1>1, <1>2 DEF TypeMap
  <1>7. QED
    BY <1>1, <1>3, <1>4, <1>5, <1>6 DEF Rows!FinishRow

\* Read by rows, the columns are the table the callers wrote, for any names, payloads
\* and number of rows, if a row writes a field at most once.
THEOREM Refinement == OncePerRow => (Spec => ImplementsRowTable)
  <1> DEFINE rowVars == <<RowsMap, RowMap, TypeMap>>
  <1>1. ASSUME OncePerRow, RefineInv, [Next]_vars PROVE [Rows!Next]_rowVars
    <2>1. ASSUME NEW n \in Fields, NEW value \in Value, Field(n, value) PROVE Rows!Next
      BY <1>1, <2>1, FieldRefines, SameValues DEF Rows!Next
    <2>2. CASE FinishRow
      BY <1>1, <2>2, FinishRowRefines DEF Rows!Next
    <2>3. CASE UNCHANGED vars
      BY <2>3 DEF vars, RowsMap, RowMap, TypeMap, CellAt, LastCell, Touched, Known
    <2>4. QED
      BY <1>1, <2>1, <2>2, <2>3 DEF Next, DropReserved
  <1>2. ASSUME OncePerRow PROVE Spec => Rows!Spec
    <2>1. Spec => []RefineInv
      BY <1>2, RefineInvariant
    <2>2. RefineInv /\ [Next]_vars => [Rows!Next]_rowVars
      BY <1>1, <1>2
    <2>3. QED
      BY <2>1, <2>2, InitRefines, PTL DEF Spec, Rows!Spec
  <1>3. QED
    BY <1>2 DEF ImplementsRowTable

-----------------------------------------------------------------------------
(* The export *)

RowSet == {RowOf(i) : i \in 1..RowCount}
Handed == [i \in 1..next |-> RowOf(i)]
Whole  == [i \in 1..RowCount |-> RowOf(i)]

StagingInv ==
  /\ phase \in Phases /\ next \in 0..RowCount
  /\ table \in Seq(RowSet) /\ csv \in Seq(RowSet)
  /\ phase = "collect" => next = 0 /\ csv = <<>> /\ table = <<>>
  /\ phase \in {"load", "copy", "done"} => table \o csv = Handed
  /\ phase \in {"copy", "remove", "done"} => table = Whole

FileInv ==
  /\ phase \in {"collect", "load", "copy"} => file.state \in {"absent", "old"}
  /\ phase = "remove" => file.state \in {"absent", "old", "partial"}
  /\ phase = "thrown" => file.state \in {"absent", "old"} \/ (file.state = "stuck" /\ table = Whole)
  /\ phase = "done" => file = [state |-> "table", rows |-> table]

ExportInv == StagingInv /\ FileInv

-----------------------------------------------------------------------------
(* Rows and sequences *)

\* Once collecting is over, the rows stay what they are.
LEMMA RowsKept ==
  ASSUME UNCHANGED <<vars, fixed>>
  PROVE  RowSet' = RowSet /\ Whole' = Whole /\ Handed' = [i \in 1..next' |-> RowOf(i)]
  <1>1. columns' = columns /\ call' = call /\ buckets' = buckets /\ structureIds' = structureIds
    BY DEF vars, fixed
  <1>2. QED
    BY <1>1 DEF RowSet, Whole, Handed, RowOf, AtomRow, BondRow, LineRow, Cells, Known, Layout, IncludeStructure

LEMMA RowCountType == RowCount \in Nat
  BY RowCountAssumption, BoundsAssumption

LEMMA AppendToConcat ==
  ASSUME NEW S, NEW s \in Seq(S), NEW t \in Seq(S), NEW x \in S
  PROVE  Append(t, x) \in Seq(S) /\ s \o Append(t, x) = Append(s \o t, x)
  <1>1. Append(t, x) = t \o <<x>> /\ <<x>> \in Seq(S)
    OBVIOUS
  <1>2. Append(s \o t, x) = (s \o t) \o <<x>> /\ s \o t \in Seq(S)
    OBVIOUS
  <1>3. QED
    BY <1>1, <1>2, ConcatAssociative

\* One row more has been handed to the Appender.
LEMMA HandedGrows ==
  ASSUME NEW n \in Nat
  PROVE  Append([i \in 1..n |-> RowOf(i)], RowOf(n + 1)) = [i \in 1..n + 1 |-> RowOf(i)]
  <1> DEFINE S == {RowOf(i) : i \in 1..n + 1}
             s == [i \in 1..n |-> RowOf(i)]
             t == [i \in 1..n + 1 |-> RowOf(i)]
  <1>1. s \in Seq(S) /\ t \in Seq(S) /\ RowOf(n + 1) \in S /\ Len(s) = n /\ Len(t) = n + 1
    OBVIOUS
  <1>2. /\ Append(s, RowOf(n + 1)) \in Seq(S) /\ Len(Append(s, RowOf(n + 1))) = n + 1
        /\ \A i \in 1..n + 1 : Append(s, RowOf(n + 1))[i] = t[i]
    BY <1>1
  <1> HIDE DEF s, t, S
  <1>3. Append(s, RowOf(n + 1)) = t
    BY <1>1, <1>2, SeqEqual
  <1>4. QED
    BY <1>3 DEF s, t

-----------------------------------------------------------------------------
(* The steps *)

LEMMA CollectingKeeps ==
  ASSUME ExportInv, ResolveRow \/ WriteField \/ FinishCollectedRow \/ CallbackThrows \/ StageTable
  PROVE  ExportInv'
  <1>1. /\ phase = "collect" /\ phase' \in {"collect", "load", "thrown"}
        /\ UNCHANGED <<next, csv, table, file>>
    BY DEF ResolveRow, WriteField, FinishCollectedRow, CallbackThrows, StageTable, staging
  <1>2. next = 0 /\ csv = <<>> /\ table = <<>> /\ file.state \in {"absent", "old"}
    BY <1>1 DEF ExportInv, StagingInv, FileInv
  <1>3. Handed' = <<>>
    BY <1>1, <1>2 DEF Handed
  <1>4. <<>> \o <<>> = <<>> /\ <<>> \in Seq(RowSet')
    OBVIOUS
  <1>5. QED
    BY <1>1, <1>2, <1>3, <1>4, RowCountType DEF ExportInv, StagingInv, FileInv, Phases

LEMMA LoadRowKeeps == ExportInv /\ LoadRow => ExportInv'
  <1> SUFFICES ASSUME ExportInv, LoadRow PROVE ExportInv'
    OBVIOUS
  <1> DEFINE row == RowOf(next + 1)
             buffer == Append(csv, row)
  <1>1. /\ phase = "load" /\ next \in Nat /\ next < RowCount /\ next' = next + 1
        /\ table \in Seq(RowSet) /\ csv \in Seq(RowSet) /\ table \o csv = Handed
        /\ file' = file /\ file.state \in {"absent", "old"}
    BY RowCountType DEF LoadRow, ExportInv, StagingInv, FileInv
  <1>2. \/ table' = table \o buffer /\ csv' = <<>> /\ phase' = phase
        \/ table' = table /\ csv' = <<>> /\ phase' = "thrown"
        \/ table' = table /\ csv' = buffer /\ phase' = phase
    BY <1>1 DEF LoadRow, Flush
  <1>3. RowSet' = RowSet /\ Handed' = [i \in 1..next + 1 |-> RowOf(i)]
    BY <1>1, RowsKept DEF LoadRow, fixed
  <1>4. row \in RowSet /\ buffer \in Seq(RowSet) /\ table \o buffer = Append(Handed, row)
    <2>1. row \in RowSet
      <3>1. next + 1 \in 1..RowCount
        BY <1>1, RowCountType
      <3>2. QED
        BY <3>1 DEF RowSet
    <2>2. QED
      BY <1>1, <2>1, AppendToConcat
  <1>5. table \o buffer = Handed' /\ table \o buffer \in Seq(RowSet)
    <2>1. Append(Handed, row) = [i \in 1..next + 1 |-> RowOf(i)]
      BY <1>1, HandedGrows DEF Handed
    <2>2. QED
      BY <1>1, <1>3, <1>4, <2>1, ConcatProperties
  <1>6. phase' = "load" => table' \o csv' = Handed'
    BY <1>1, <1>2, <1>5, ConcatEmptySeq
  <1>7. table' \in Seq(RowSet') /\ csv' \in Seq(RowSet')
    <2>1. <<>> \in Seq(RowSet)
      OBVIOUS
    <2>2. table' \in Seq(RowSet) /\ csv' \in Seq(RowSet)
      <3> HIDE DEF buffer
      <3> QED BY <1>1, <1>2, <1>4, <1>5, <2>1
    <2>3. QED
      BY <1>3, <2>2
  <1>8. next' \in 0..RowCount
    BY <1>1, RowCountType
  <1>9. QED
    BY <1>1, <1>2, <1>6, <1>7, <1>8 DEF ExportInv, StagingInv, FileInv, Phases

LEMMA CloseAppenderKeeps == ExportInv /\ CloseAppender => ExportInv'
  <1> SUFFICES ASSUME ExportInv, CloseAppender PROVE ExportInv'
    OBVIOUS
  <1>1. /\ phase = "load" /\ next = RowCount /\ next' = next /\ csv' = <<>>
        /\ table \in Seq(RowSet) /\ csv \in Seq(RowSet) /\ table \o csv = Handed
        /\ file' = file /\ file.state \in {"absent", "old"}
        /\ \/ table' = table \o csv /\ phase' = "copy"
           \/ table' = table /\ phase' = "thrown"
    BY DEF CloseAppender, ExportInv, StagingInv, FileInv
  <1>2. RowSet' = RowSet /\ Whole' = Whole /\ Handed' = Handed
    BY <1>1, RowsKept DEF CloseAppender, fixed, Handed
  <1>3. table' \in Seq(RowSet') /\ csv' \in Seq(RowSet') /\ next' \in 0..RowCount
    <2>1. <<>> \in Seq(RowSet) /\ table \o csv \in Seq(RowSet)
      <3>1. table \in Seq(RowSet) /\ csv \in Seq(RowSet)
        BY <1>1
      <3>2. QED
        BY <3>1
    <2>2. table' \in Seq(RowSet) /\ csv' \in Seq(RowSet)
      BY <1>1, <2>1
    <2>3. QED
      BY <1>1, <1>2, <2>2, RowCountType
  <1>4. phase' = "copy" => table' \o csv' = Handed' /\ table' = Whole'
    BY <1>1, <1>2, ConcatEmptySeq, ConcatProperties DEF Handed, Whole
  <1>5. QED
    BY <1>1, <1>3, <1>4 DEF ExportInv, StagingInv, FileInv, Phases

LEMMA CopyingKeeps == ExportInv /\ (CopyTable \/ RemoveOutput) => ExportInv'
  <1> SUFFICES ASSUME ExportInv, CopyTable \/ RemoveOutput PROVE ExportInv'
    OBVIOUS
  <1>1. /\ phase \in {"copy", "remove"} /\ phase' \in {"remove", "done", "thrown"}
        /\ next' = next /\ csv' = csv /\ table' = table /\ table = Whole
        /\ phase' = "done" => phase = "copy"
    BY DEF CopyTable, RemoveOutput, staging, ExportInv, StagingInv
  <1>2. RowSet' = RowSet /\ Whole' = Whole /\ Handed' = Handed
    BY <1>1, RowsKept DEF CopyTable, RemoveOutput, Handed
  <1>3. StagingInv'
    BY <1>1, <1>2 DEF ExportInv, StagingInv, Phases
  <1>4. FileInv'
    <2>1. CASE CopyTable
      <3>1. file.state \in {"absent", "old"}
        BY <2>1 DEF CopyTable, ExportInv, FileInv
      <3>2. \/ phase' = "done" /\ file' = [state |-> "table", rows |-> table]
            \/ phase' = "remove" /\ file' = [state |-> "partial", rows |-> <<>>]
            \/ phase' = "remove" /\ file' = file
        BY <2>1 DEF CopyTable
      <3>3. phase' = "remove" => file'.state \in {"absent", "old", "partial"}
        BY <3>1, <3>2
      <3>4. QED
        BY <1>1, <3>2, <3>3 DEF FileInv
    <2>2. CASE RemoveOutput
      <3>1. file.state \in {"absent", "old", "partial"}
        BY <2>2 DEF RemoveOutput, ExportInv, FileInv
      <3>2. \/ file' = [state |-> "absent", rows |-> <<>>]
            \/ file' = [state |-> "stuck", rows |-> <<>>]
            \/ file.state # "partial" /\ file' = file
        BY <2>2 DEF RemoveOutput
      <3>3. phase' = "thrown" /\ file'.state \in {"absent", "old", "stuck"}
        BY <2>2, <3>1, <3>2 DEF RemoveOutput
      <3>4. QED
        BY <1>1, <1>2, <3>3 DEF FileInv
    <2>3. QED
      BY <2>1, <2>2
  <1>5. QED
    BY <1>3, <1>4 DEF ExportInv

LEMMA ExportInvHolds == ExportSpec => []ExportInv
  <1>1. ExportInit => ExportInv
    BY RowCountType DEF ExportInit, ExportInv, StagingInv, FileInv, Phases
  <1>2. ExportInv /\ [ExportNext]_exportVars => ExportInv'
    <2> SUFFICES ASSUME ExportInv, [ExportNext]_exportVars PROVE ExportInv'
      OBVIOUS
    <2>1. CASE UNCHANGED exportVars
      <3>1. /\ UNCHANGED <<vars, fixed>>
            /\ phase' = phase /\ next' = next /\ csv' = csv /\ table' = table /\ file' = file
        BY <2>1 DEF exportVars, staging
      <3>2. RowSet' = RowSet /\ Whole' = Whole /\ Handed' = Handed
        BY <3>1, RowsKept DEF Handed
      <3>3. QED
        BY <3>1, <3>2 DEF ExportInv, StagingInv, FileInv
    <2>2. QED
      BY <2>1, CollectingKeeps, LoadRowKeeps, CloseAppenderKeeps, CopyingKeeps DEF ExportNext
  <1>3. QED
    BY <1>1, <1>2, PTL DEF ExportSpec

-----------------------------------------------------------------------------
(* Theorems *)

(* The staged table and the Appender's buffer together are the rows handed over so far,   *)
(* wherever the buffer happened to be flushed: for any number of rows and size of buffer. *)
THEOREM RowsInOrder == ExportSpec => []LoadedInOrder
  <1>1. ExportInv => LoadedInOrder
    BY DEF ExportInv, StagingInv, LoadedInOrder, Handed
  <1>2. QED
    BY <1>1, ExportInvHolds, PTL

(* A function that returns has written every row, in order; and only then is the file    *)
(* taken for a finished one.                                                             *)
THEOREM FilesAreComplete == ExportSpec => []FileIsComplete
  <1>1. ExportInv => FileIsComplete
    <2> SUFFICES ASSUME ExportInv PROVE FileIsComplete
      OBVIOUS
    <2>1. phase = "done" => file.state = "table" /\ file.rows = table /\ table = Whole
      BY DEF ExportInv, StagingInv, FileInv
    <2>2. phase # "done" => file.state # "table"
      BY DEF ExportInv, StagingInv, FileInv, Phases
    <2>3. QED
      BY <2>1, <2>2 DEF FileIsComplete, Whole
  <1>2. QED
    BY <1>1, ExportInvHolds, PTL

(* A function that throws leaves no half-written file unless removing it failed too, and *)
(* nothing is written before everything is staged.                                       *)
THEOREM NoPartialAfterThrow == ExportSpec => []ThrowLeavesNoPartial
  <1>1. ExportInv => ThrowLeavesNoPartial
    BY DEF ExportInv, StagingInv, FileInv, ThrowLeavesNoPartial, Whole, Phases
  <1>2. QED
    BY <1>1, ExportInvHolds, PTL

(* An export uses its columns as ColumnTable says: what is proved of the columns, their  *)
(* alignment and the table of rows that they implement, holds in every export.           *)
THEOREM ExportUsesColumns == ExportSpec => Spec
  <1>1. ExportInit => Init
    BY DEF ExportInit
  <1>2. [ExportNext]_exportVars => [Next]_vars
    <2> SUFFICES ASSUME [ExportNext]_exportVars PROVE [Next]_vars
      OBVIOUS
    <2>1. CASE WriteField
      BY <2>1, InputsAssumption DEF WriteField, Next
    <2>2. CASE FinishCollectedRow
      BY <2>2 DEF FinishCollectedRow, Next
    <2>3. CASE ResolveRow \/ CallbackThrows \/ StageTable
      BY <2>3 DEF ResolveRow, CallbackThrows, StageTable
    <2>4. CASE LoadRow \/ CloseAppender \/ CopyTable \/ RemoveOutput
      BY <2>4 DEF LoadRow, CloseAppender, CopyTable, RemoveOutput
    <2>5. CASE UNCHANGED exportVars
      BY <2>5 DEF exportVars
    <2>6. QED
      BY <2>1, <2>2, <2>3, <2>4, <2>5 DEF ExportNext
  <1>3. QED
    BY <1>1, <1>2, PTL DEF ExportSpec, Spec

-----------------------------------------------------------------------------
(* Bucket ids *)

SeenIn(s, n) == {s[k] : k \in 1..n}

\* The ids given so far are a numbering of the buckets seen so far.
NumberingInv ==
  Layout = "atoms" /\ ~HasResolver =>
    /\ buckets \in Seq(Buckets) /\ structureIds \in Seq(Nat) /\ Len(structureIds) = Len(buckets)
    /\ DOMAIN bucketId = SeenIn(buckets, Len(buckets)) /\ IsFiniteSet(DOMAIN bucketId)
    /\ \A b \in DOMAIN bucketId : bucketId[b] \in Nat /\ bucketId[b] < Cardinality(DOMAIN bucketId)
    /\ \A b, c \in DOMAIN bucketId : bucketId[b] = bucketId[c] => b = c
    /\ \A i \in 1..Len(buckets) :
         /\ structureIds[i] = bucketId[buckets[i]]
         /\ structureIds[i] = Cardinality(SeenIn(buckets, i - 1))
              \/ \E k \in 1..(i - 1) : buckets[k] = buckets[i]

LEMMA SameElements ==
  ASSUME NEW s, NEW t, NEW n \in Int, \A k \in 1..n : s[k] = t[k]
  PROVE  SeenIn(s, n) = SeenIn(t, n)
  BY DEF SeenIn

LEMMA SeenGrows ==
  ASSUME NEW S, NEW s \in Seq(S), NEW x \in S
  PROVE  SeenIn(Append(s, x), Len(s) + 1) = SeenIn(s, Len(s)) \cup {x}
  <1>1. /\ Len(s) \in Nat /\ Append(s, x)[Len(s) + 1] = x
        /\ \A k \in 1..Len(s) : Append(s, x)[k] = s[k]
    OBVIOUS
  <1>2. \A k \in 1..Len(s) + 1 : k = Len(s) + 1 \/ k \in 1..Len(s)
    BY <1>1
  <1>3. QED
    BY <1>1, <1>2 DEF SeenIn

\* A bucket seen for the first time gets the number of those seen before it.
LEMMA NumberingGrows ==
  ASSUME NumberingInv, ResolveRow, Layout = "atoms", ~HasResolver
  PROVE  NumberingInv'
  <1>1. PICK bucket \in Buckets :
          /\ buckets' = Append(buckets, bucket) /\ bucketId' = BucketIds(bucket)
          /\ structureIds' = Append(structureIds, bucketId'[bucket])
    BY DEF ResolveRow
  <1> DEFINE n == Len(buckets)
             D == DOMAIN bucketId
             id == bucketId'[bucket]
  <1>2. /\ buckets \in Seq(Buckets) /\ structureIds \in Seq(Nat) /\ Len(structureIds) = n /\ n \in Nat
        /\ D = SeenIn(buckets, n) /\ IsFiniteSet(D)
        /\ \A b \in D : bucketId[b] \in Nat /\ bucketId[b] < Cardinality(D)
        /\ \A b, c \in D : bucketId[b] = bucketId[c] => b = c
    BY DEF NumberingInv
  <1>3. Cardinality(D) \in Nat
    BY <1>2, FS_CardinalityType
  <1>4. /\ DOMAIN bucketId' = D \cup {bucket}
        /\ \A b \in D : bucketId'[b] = bucketId[b]
        /\ bucket \notin D => id = Cardinality(D)
    BY <1>1 DEF BucketIds
  <1>5. /\ IsFiniteSet(DOMAIN bucketId')
        /\ Cardinality(DOMAIN bucketId') = IF bucket \in D THEN Cardinality(D) ELSE Cardinality(D) + 1
    <2>1. /\ IsFiniteSet(D \cup {bucket})
          /\ Cardinality(D \cup {bucket}) = IF bucket \in D THEN Cardinality(D) ELSE Cardinality(D) + 1
      BY <1>2, FS_AddElement
    <2>2. QED
      BY <1>4, <2>1, Zenon
  <1>6. /\ \A b \in DOMAIN bucketId' : bucketId'[b] \in Nat /\ bucketId'[b] < Cardinality(DOMAIN bucketId')
        /\ \A b, c \in DOMAIN bucketId' : bucketId'[b] = bucketId'[c] => b = c
    BY <1>2, <1>3, <1>4, <1>5
  <1>7. id \in Nat
    BY <1>4, <1>6
  <1>8. /\ buckets' \in Seq(Buckets) /\ Len(buckets') = n + 1 /\ buckets'[n + 1] = bucket
        /\ \A i \in 1..n : buckets'[i] = buckets[i] /\ buckets[i] \in D
    <2>1. \A i \in 1..n : buckets[i] \in D
      BY <1>2 DEF SeenIn
    <2>2. QED
      BY <1>1, <1>2, <2>1
  <1>9. /\ structureIds' \in Seq(Nat) /\ Len(structureIds') = n + 1 /\ structureIds'[n + 1] = id
        /\ \A i \in 1..n : structureIds'[i] = structureIds[i]
    <2> HIDE DEF id
    <2>1. structureIds' = Append(structureIds, id)
      BY <1>1 DEF id
    <2>2. QED
      BY <1>2, <1>7, <2>1
  <1>10. DOMAIN bucketId' = SeenIn(buckets', n + 1)
    BY <1>1, <1>2, <1>4, SeenGrows
  <1>11. ASSUME NEW i \in 1..n + 1
         PROVE  /\ structureIds'[i] = bucketId'[buckets'[i]]
                /\ structureIds'[i] = Cardinality(SeenIn(buckets', i - 1))
                     \/ \E k \in 1..(i - 1) : buckets'[k] = buckets'[i]
    <2>1. SeenIn(buckets', i - 1) = SeenIn(buckets, i - 1)
      <3>1. i - 1 \in Int /\ \A k \in 1..(i - 1) : k \in 1..n
        BY <1>2
      <3>2. \A k \in 1..(i - 1) : buckets'[k] = buckets[k]
        BY <1>8, <3>1
      <3>3. QED
        BY <3>1, <3>2, SameElements
    <2>2. CASE i \in 1..n
      <3>1. /\ structureIds[i] = bucketId[buckets[i]]
            /\ structureIds[i] = Cardinality(SeenIn(buckets, i - 1))
                 \/ \E k \in 1..(i - 1) : buckets[k] = buckets[i]
        BY <2>2 DEF NumberingInv
      <3>2. QED
        BY <1>2, <1>4, <1>8, <1>9, <2>1, <2>2, <3>1
    <2>3. CASE i = n + 1
      <3>1. structureIds'[i] = id /\ buckets'[i] = bucket
        BY <1>8, <1>9, <2>3
      <3>2. CASE bucket \in D
        <4>1. PICK k \in 1..n : buckets[k] = bucket
          BY <1>2, <3>2 DEF SeenIn
        <4>2. QED
          BY <1>2, <1>8, <2>3, <3>1, <4>1
      <3>3. CASE bucket \notin D
        BY <1>2, <1>4, <2>1, <2>3, <3>1, <3>3
      <3>4. QED
        BY <3>2, <3>3
    <2>4. QED
      BY <1>2, <2>2, <2>3
  <1>12. QED
    BY <1>5, <1>6, <1>8, <1>9, <1>10, <1>11 DEF NumberingInv

LEMMA NumberingHolds == ExportSpec => []NumberingInv
  <1>1. ExportInit => NumberingInv
    <2> SUFFICES ASSUME ExportInit PROVE NumberingInv
      OBVIOUS
    <2>1. buckets = <<>> /\ structureIds = <<>> /\ bucketId = <<>>
      BY DEF ExportInit
    <2>2. SeenIn(<<>>, 0) = {} /\ DOMAIN bucketId = {} /\ IsFiniteSet({})
      BY <2>1, FS_EmptySet DEF SeenIn
    <2>3. QED
      BY <2>1, <2>2 DEF NumberingInv
  <1>2. NumberingInv /\ [ExportNext]_exportVars => NumberingInv'
    <2> SUFFICES ASSUME NumberingInv, [ExportNext]_exportVars PROVE NumberingInv'
      OBVIOUS
    <2>1. ASSUME UNCHANGED fixed PROVE NumberingInv'
      <3>1. call' = call /\ buckets' = buckets /\ structureIds' = structureIds /\ bucketId' = bucketId
        BY <2>1 DEF fixed
      <3>2. QED
        BY <3>1 DEF NumberingInv, Layout, HasResolver
    <2>2. CASE ResolveRow
      <3>1. call' = call
        BY <2>2 DEF ResolveRow, fixed
      <3>2. CASE Layout = "atoms" /\ ~HasResolver
        BY <2>2, <3>2, NumberingGrows
      <3>3. CASE ~(Layout = "atoms" /\ ~HasResolver)
        BY <3>1, <3>3 DEF NumberingInv, Layout, HasResolver
      <3>4. QED
        BY <3>2, <3>3
    <2>3. CASE WriteField \/ FinishCollectedRow \/ CallbackThrows \/ StageTable
      BY <2>1, <2>3 DEF WriteField, FinishCollectedRow, CallbackThrows, StageTable
    <2>4. CASE LoadRow \/ CloseAppender \/ CopyTable \/ RemoveOutput
      BY <2>1, <2>4 DEF LoadRow, CloseAppender, CopyTable, RemoveOutput
    <2>5. CASE UNCHANGED exportVars
      BY <2>1, <2>5 DEF exportVars
    <2>6. QED
      BY <2>2, <2>3, <2>4, <2>5 DEF ExportNext
  <1>3. QED
    BY <1>1, <1>2, PTL DEF ExportSpec

(* Without a resolver, structure ids are 0, 1, 2... in the order in which the buckets      *)
(* first appear, one to one, for any number of atoms and buckets.                          *)
THEOREM BucketIdsAreDense == ExportSpec => []BucketIdsDense
  <1>1. NumberingInv => BucketIdsDense
    <2> SUFFICES ASSUME NumberingInv, Layout = "atoms", ~HasResolver,
                        NEW i \in 1..Len(buckets), NEW j \in 1..Len(buckets)
                 PROVE  /\ structureIds[i] = structureIds[j] <=> buckets[i] = buckets[j]
                        /\ structureIds[i] = Cardinality({buckets[k] : k \in 1..(i - 1)})
                             \/ \E k \in 1..(i - 1) : buckets[k] = buckets[i]
      BY DEF BucketIdsDense
    <2>1. buckets[i] \in DOMAIN bucketId /\ buckets[j] \in DOMAIN bucketId
      BY DEF NumberingInv, SeenIn
    <2>2. structureIds[i] = bucketId[buckets[i]] /\ structureIds[j] = bucketId[buckets[j]]
      BY DEF NumberingInv
    <2>3. structureIds[i] = structureIds[j] <=> buckets[i] = buckets[j]
      BY <2>1, <2>2 DEF NumberingInv
    <2>4. QED
      BY <2>3 DEF NumberingInv, SeenIn
  <1>2. QED
    BY <1>1, NumberingHolds, PTL

-----------------------------------------------------------------------------
(* Types *)

\* The fixed columns of atoms are as long as the rows: one more while a row is open.
LengthInv ==
  /\ inRow \in BOOLEAN
  /\ Layout = "atoms" =>
       /\ buckets \in Seq(Buckets)
       /\ Len(buckets) = rowsCompleted + (IF inRow THEN 1 ELSE 0)
       /\ HasResolver => structureIds \in Seq(StructureIds) /\ Len(structureIds) = Len(buckets)

LEMMA LengthsKept ==
  ASSUME LengthInv, TypeOK, [ExportNext]_exportVars
  PROVE  LengthInv'
  <1>1. rowsCompleted \in Nat
    BY BoundsAssumption DEF TypeOK
  <1>2. ASSUME UNCHANGED <<rowsCompleted, inRow, fixed>> PROVE LengthInv'
    <2>1. call' = call /\ buckets' = buckets /\ structureIds' = structureIds
      BY <1>2 DEF fixed
    <2>2. QED
      BY <1>2, <2>1 DEF LengthInv, Layout, HasResolver
  <1>3. CASE ResolveRow
    <2>1. ~inRow /\ inRow' = TRUE /\ call' = call /\ rowsCompleted' = rowsCompleted
      BY <1>3 DEF ResolveRow, fixed, vars
    <2>2. CASE Layout # "atoms"
      BY <2>1, <2>2 DEF LengthInv, Layout
    <2>3. CASE Layout = "atoms"
      <3>1. PICK bucket \in Buckets :
              /\ buckets' = Append(buckets, bucket)
              /\ HasResolver => \E sid \in StructureIds : structureIds' = Append(structureIds, sid)
        BY <1>3, <2>3 DEF ResolveRow
      <3>2. /\ buckets \in Seq(Buckets) /\ Len(buckets) = rowsCompleted
            /\ HasResolver => structureIds \in Seq(StructureIds) /\ Len(structureIds) = Len(buckets)
        BY <1>1, <2>1, <2>3 DEF LengthInv
      <3>3. buckets' \in Seq(Buckets) /\ Len(buckets') = rowsCompleted + 1
        BY <3>1, <3>2
      <3>4. HasResolver => structureIds' \in Seq(StructureIds) /\ Len(structureIds') = Len(buckets')
        <4>1. SUFFICES ASSUME HasResolver
                       PROVE  structureIds' \in Seq(StructureIds) /\ Len(structureIds') = Len(buckets')
          OBVIOUS
        <4>2. PICK sid \in StructureIds : structureIds' = Append(structureIds, sid)
          BY <3>1, <4>1
        <4>3. QED
          BY <3>2, <3>3, <4>1, <4>2
      <3>5. QED
        BY <2>1, <3>3, <3>4 DEF LengthInv, Layout, HasResolver
    <2>4. QED
      BY <2>2, <2>3
  <1>4. CASE FinishCollectedRow
    <2>1. /\ inRow /\ inRow' = FALSE /\ rowsCompleted' = rowsCompleted + 1
          /\ call' = call /\ buckets' = buckets /\ structureIds' = structureIds
      BY <1>4 DEF FinishCollectedRow, FinishRow, fixed
    <2>2. (IF inRow THEN 1 ELSE 0) = 1 /\ (IF inRow' THEN 1 ELSE 0) = 0
      BY <2>1
    <2>3. Layout = "atoms" => Len(buckets') = rowsCompleted' + 0
      BY <1>1, <2>1, <2>2 DEF LengthInv
    <2>4. QED
      BY <2>1, <2>2, <2>3 DEF LengthInv, Layout, HasResolver
  <1>5. CASE WriteField
    BY <1>2, <1>5 DEF WriteField, Field, DropReserved, vars
  <1>6. CASE CallbackThrows \/ StageTable \/ LoadRow \/ CloseAppender \/ CopyTable \/ RemoveOutput
    BY <1>2, <1>6 DEF CallbackThrows, StageTable, LoadRow, CloseAppender, CopyTable, RemoveOutput, vars
  <1>7. CASE UNCHANGED exportVars
    BY <1>2, <1>7 DEF exportVars, vars
  <1>8. QED
    BY <1>3, <1>4, <1>5, <1>6, <1>7 DEF ExportNext

(* Types; and of atoms there are as many buckets and structure ids as rows, one more while *)
(* a row is open, so that the load loop's buckets[i] and structureIds[i] are in range.     *)
THEOREM ExportTypesHold == ExportSpec => []ExportTypeOK
  <1>1. ExportInit => LengthInv
    <2> SUFFICES ASSUME ExportInit PROVE LengthInv
      OBVIOUS
    <2>1. inRow = FALSE /\ buckets = <<>> /\ structureIds = <<>> /\ rowsCompleted = 0
      BY DEF ExportInit, Init
    <2>2. (IF inRow THEN 1 ELSE 0) = 0
      BY <2>1
    <2>3. /\ inRow \in BOOLEAN
          /\ buckets \in Seq(Buckets) /\ Len(buckets) = rowsCompleted + 0
          /\ structureIds \in Seq(StructureIds) /\ Len(structureIds) = Len(buckets)
      <3>1. inRow \in BOOLEAN
        BY <2>1, Zenon
      <3>2. buckets \in Seq(Buckets) /\ structureIds \in Seq(StructureIds)
        BY <2>1
      <3>3. Len(buckets) = 0 /\ Len(structureIds) = 0
        BY <2>1
      <3>4. QED
        BY <2>1, <3>1, <3>2, <3>3
    <2>4. QED
      BY <2>2, <2>3, Zenon DEF LengthInv
  <1>2. LengthInv /\ TypeOK /\ [ExportNext]_exportVars => LengthInv'
    BY LengthsKept
  <1>3. TypeOK /\ ExportInv /\ NumberingInv /\ LengthInv => ExportTypeOK
    <2> SUFFICES ASSUME TypeOK, ExportInv, NumberingInv, LengthInv PROVE ExportTypeOK
      OBVIOUS
    <2>1. phase \in Phases /\ next \in 0..RowCount
      BY DEF ExportInv, StagingInv
    <2>2. file.state \in {"absent", "old", "partial", "stuck", "table"}
      BY <2>1 DEF ExportInv, FileInv, Phases
    <2>3. Layout = "atoms" => Len(structureIds) = Len(buckets)
      <3>1. CASE HasResolver
        BY <3>1 DEF LengthInv
      <3>2. CASE ~HasResolver
        BY <3>2 DEF NumberingInv
      <3>3. QED
        BY <3>1, <3>2
    <2>4. QED
      BY <2>1, <2>2, <2>3 DEF ExportTypeOK, LengthInv
  <1>4. QED
    BY <1>1, <1>2, <1>3, ExportUsesColumns, TypeCorrect, ExportInvHolds, NumberingHolds, PTL
       DEF ExportSpec
================================================================================
