---------------------------- MODULE DumpTransform ----------------------------
(***************************************************************************)
(* volt-dump-transform (tools/dump_transform.cpp) on LammpsParser: a run   *)
(* parses a dump, keeps the atoms that a plane or an expression selects or *)
(* merges the columns of a Parquet file by atom identifier, and writes a   *)
(* dump, which may be the next run's input.                                *)
(*                                                                         *)
(* The position of an atom is the number of the atom, so that a dump says  *)
(* which atom a line is about.  The name x stands for all the names that   *)
(* come from the position (x y z xs ys zs) and for type.                   *)
(*                                                                         *)
(* A line of a dump is there or not: one that has lost its end is taken    *)
(* for lost.  That holds if the reader (lammpsio, which is not part of     *)
(* this repository) refuses a last line without its newline; nothing in    *)
(* toFrame() would notice a number that has lost digits.                   *)
(***************************************************************************)
EXTENDS Selection

CONSTANTS IdOf,          \* identifiers of the atoms 1..Len(IdOf)
          Order,         \* columns of the first dump
          Names,         \* property columns, of dumps and of Parquet files
          Unsupported,   \* those that no DataType holds
          Tables,        \* [hasId, ids, names]: the Parquet files
          Overwrites,    \* overwriteExistingColumns; runMerge() passes TRUE
          MaxRuns        \* bound: runs of the tool

Positional == {"id", "x"}

ASSUME NamesAssumption == Names \cap Positional = {}
ASSUME OrderAssumption == Order \in Seq(Names \cup Positional) /\ "x" \in Range(Order)
ASSUME IdAssumption ==
  IdOf \in Seq(Int) /\ \A i, j \in DOMAIN IdOf : IdOf[i] = IdOf[j] => i = j
ASSUME TablesAssumption ==
  \A t \in Tables : t.hasId \in BOOLEAN /\ t.ids \in Seq(Int) /\ t.names \in Seq(Names \cup Positional)
ASSUME OverwritesAssumption == Overwrites \subseteq BOOLEAN
ASSUME RunsAssumption == MaxRuns \in Nat

VARIABLES input, output,   \* dumps on disk
          frame,           \* the parsed or compacted LammpsParser::Frame
          job,             \* the operation and its argument
          rows,            \* propertyRowsByAtomIndex, 0 for -1
          broken,          \* the output stream has failed
          pc,
          run

vars == <<input, output, frame, job, rows, broken, pc, run>>

Jobs == [kind : {"keep"}, atoms : SUBSET DOMAIN IdOf]
          \cup [kind : {"merge"}, table : Tables, overwrite : Overwrites]

(* What AtomTable sees of an operation: no columns that are not supported or come from   *)
(* the position, and none that the dump has if they are not to be overwritten.           *)
Seen(j, columns) ==
  IF j.kind = "keep" THEN j
  ELSE [kind |-> "merge", ids |-> Range(j.table.ids),
        names |-> (Range(j.table.names) \cap Names)
                    \ (Unsupported \cup IF j.overwrite THEN {} ELSE columns)]

AllSeen == {Seen(j, columns) : j \in Jobs, columns \in SUBSET Names}

Whole(dump) == dump.header /\ Len(dump.rows) = dump.natoms

(* The lines of a dump as a table of atoms *)
Lines(dump) ==
  [k \in DOMAIN dump.rows |->
    [atom  |-> dump.rows[k]["x"],
     cells |-> [c \in Range(dump.order) \cap Names |-> dump.rows[k][c]]]]

Outcome == IF pc = "failed" THEN "failed"
           ELSE IF pc # "ok" THEN "pending"
           ELSE IF Whole(output) THEN "ok" ELSE "lost"

T == INSTANCE AtomTable WITH
       OwnNames <- Range(Order) \cap Names,
       Operations <- AllSeen,
       table <- Lines(input),
       operation <- Seen(job, Range(input.order)),
       outcome <- Outcome,
       cut <- ~Whole(input)

-----------------------------------------------------------------------------
(* Frames.  A dump declares natoms in its header, if that is all there,    *)
(* and has one row, a function of its columns, for each; a frame holds the *)
(* same by column.                                                         *)

FirstDump ==
  [header |-> TRUE, order |-> Order, natoms |-> Len(IdOf),
   rows |-> [k \in DOMAIN IdOf |->
              [c \in Range(Order) |->
                 IF c = "x" THEN k ELSE IF c = "id" THEN IdOf[k] ELSE T!Value(0, IdOf[k])]]]

Column(dump, c) == [k \in DOMAIN dump.rows |-> dump.rows[k][c]]

(* toFrame() *)
ToFrame(dump) ==
  [order |-> dump.order,
   positions |-> Column(dump, "x"),
   ids   |-> IF "id" \in Range(dump.order) THEN Column(dump, "id") ELSE <<>>,
   properties |-> [c \in Range(dump.order) \ Positional |-> Column(dump, c)]]

\* mutant: the identifiers of the frame are not used
ResolveAtomIdOrder(f, k) == k

\* resolveAtomId(): without an id column atoms are numbered in order
ResolveAtomId(f, k) == IF k \in DOMAIN f.ids THEN f.ids[k] ELSE k

(* mutant: columns that are not positional are copied, not compacted *)
CompactFrameSharing(f, atoms) ==
  LET kept == InOrder({k \in DOMAIN f.positions : f.positions[k] \in atoms})
      Pick(s) == AtPlaces(s, kept)
  IN [order |-> f.order,
      positions |-> Pick(f.positions),
      ids   |-> Pick(f.ids),
      properties |-> f.properties]

(* compactFrame(): "kept" are the indices with keep[i] set, in order *)
CompactFrame(f, atoms) ==
  LET kept == InOrder({k \in DOMAIN f.positions : f.positions[k] \in atoms})
      Pick(s) == AtPlaces(s, kept)
  IN [order |-> f.order,
      positions |-> Pick(f.positions),
      ids   |-> [j \in DOMAIN kept |-> ResolveAtomId(f, kept[j])],
      properties |-> [c \in DOMAIN f.properties |-> Pick(f.properties[c])]]

-----------------------------------------------------------------------------
(* Extra columns of a merge *)

(* The columns of the Parquet file that runMerge() passes on *)
Extras ==
  IF job.kind # "merge" THEN <<>>
  ELSE Selected(job.table.names, (Names \cup Positional) \ ({"id"} \cup Unsupported))

GivenIds == IF job.kind = "merge" THEN job.table.ids ELSE <<>>

(* Without identifiers the extra rows are those of the frame, in order *)
PropertyIds ==
  IF Extras # <<>> /\ GivenIds = <<>>
  THEN [k \in DOMAIN frame.positions |-> ResolveAtomId(frame, k)]
  ELSE GivenIds

(* expandExtraColumns(): data() of an empty vector is null *)
Expandable == Extras # <<>> => (GivenIds # <<>> /\ Len(GivenIds) = Len(PropertyIds))

\* mutant: emplace's answer is not looked at
UniqueIdsUnchecked == TRUE

UniqueIds == \A i, j \in DOMAIN PropertyIds : PropertyIds[i] = PropertyIds[j] => i = j

RowOf(id) ==
  IF id \in Range(PropertyIds)
  THEN CHOOSE r \in DOMAIN PropertyIds : PropertyIds[r] = id
  ELSE 0

-----------------------------------------------------------------------------
(* writeMergedDump() *)

ColumnOrder ==
  LET order == IF frame.order = <<>> THEN <<"id", "x">> ELSE frame.order
  IN order \o Selected(Extras, Range(Extras) \ Range(order))

(* The columns that the Parquet file gives, where the frame has them too *)
FromExtras(c) ==
  /\ c \in Range(Extras)
  /\ job.overwrite \/ c \notin DOMAIN frame.properties

Cell(k, c) ==
  CASE c = "id" -> ResolveAtomId(frame, k)
    [] c = "x"  -> frame.positions[k]
    [] c \notin Positional /\ FromExtras(c) ->
         IF rows[k] = 0 THEN T!Zero ELSE T!Value(run + 1, PropertyIds[rows[k]])
    [] c \notin Positional /\ ~FromExtras(c) ->
         IF c \in DOMAIN frame.properties /\ k \in DOMAIN frame.properties[c]
         THEN frame.properties[c][k] ELSE T!Zero

-----------------------------------------------------------------------------

Init ==
  /\ input = FirstDump
  /\ output = [header |-> FALSE, order |-> <<>>, natoms |-> 0, rows |-> <<>>]
  /\ frame = ToFrame(input)
  /\ job \in Jobs
  /\ rows = <<>> /\ broken = FALSE
  /\ pc = "parse" /\ run = 0

Goto(from, to) == pc = from /\ pc' = to

(* parseFile(): the reader, or toFrame(), refuses a dump whose header is not complete or   *)
(* that has fewer rows than declared *)
Parse ==
  /\ IF Whole(input)
     THEN Goto("parse", job.kind) /\ frame' = ToFrame(input)
     ELSE Goto("parse", "failed") /\ UNCHANGED frame
  /\ UNCHANGED <<input, output, job, rows, broken, run>>

(* runSlice(), runSelect() *)
KeepSelected ==
  /\ Goto("keep", "map")
  /\ frame' = CompactFrame(frame, job.atoms)
  /\ UNCHANGED <<input, output, job, rows, broken, run>>

(* A plane or an expression that is refused, a Parquet file that DuckDB cannot read *)
RefuseArgument ==
  /\ pc \in {"keep", "merge"} /\ pc' = "failed"
  /\ UNCHANGED <<input, output, frame, job, rows, broken, run>>

(* runMerge(), up to the columns *)
ReadTable ==
  /\ Goto("merge", IF job.table.hasId THEN "map" ELSE "failed")
  /\ UNCHANGED <<input, output, frame, job, rows, broken, run>>

(* writeFileMergedWithExtraColumns(): the row of each atom, before the file is opened *)
MapRows ==
  /\ IF Expandable /\ UniqueIds
     THEN /\ Goto("map", "open")
          /\ rows' = [k \in DOMAIN frame.positions |-> RowOf(ResolveAtomId(frame, k))]
     ELSE Goto("map", "failed") /\ UNCHANGED rows
  /\ UNCHANGED <<input, output, frame, job, broken, run>>

(* The stream is opened, which truncates the file, and the header written *)
OpenOutput ==
  /\ \/ /\ Goto("open", "write")
        /\ output' = [header |-> TRUE, order |-> ColumnOrder, natoms |-> Len(frame.positions), rows |-> <<>>]
        /\ broken' \in BOOLEAN
     \/ /\ Goto("open", "failed")
        /\ UNCHANGED <<output, broken>>
  /\ UNCHANGED <<input, frame, job, rows, run>>

(* One line, which the disk may refuse; nothing is written after that *)
WriteRow ==
  /\ pc = "write" /\ Len(output.rows) < Len(frame.positions) /\ ~broken
  /\ \/ /\ LET k == Len(output.rows) + 1
           IN output' = [output EXCEPT !.rows = Append(@, [c \in Range(output.order) |-> Cell(k, c)])]
        /\ UNCHANGED broken
     \/ broken' = TRUE /\ UNCHANGED output
  /\ UNCHANGED <<input, frame, job, rows, pc, run>>

(* The result, bool(out), is taken before the stream's destructor writes what it buffers: *)
(* of a dump small enough, everything up to some byte of the header.                      *)
Close ==
  /\ pc = "write" /\ (broken \/ Len(output.rows) = Len(frame.positions))
  /\ pc' = IF broken THEN "failed" ELSE "ok"
  /\ \/ UNCHANGED output
     \/ /\ ~broken
        /\ \/ \E n \in 0..Len(output.rows) : output' = [output EXCEPT !.rows = SubSeq(@, 1, n)]
           \/ output' = [output EXCEPT !.header = FALSE, !.rows = <<>>]
  /\ UNCHANGED <<input, frame, job, rows, broken, run>>

(* The caller goes on from the new dump if the run said it succeeded *)
NextRun ==
  /\ pc \in {"ok", "failed"} /\ run < MaxRuns
  /\ pc' = "parse" /\ run' = run + 1
  /\ input' = IF pc = "ok" THEN output ELSE input
  /\ job' \in Jobs
  /\ broken' = FALSE /\ rows' = <<>>
  /\ UNCHANGED <<output, frame>>

Next ==
  \/ Parse \/ KeepSelected \/ RefuseArgument \/ ReadTable
  \/ MapRows \/ OpenOutput \/ WriteRow \/ Close \/ NextRun

Spec == Init /\ [][Next]_vars

-----------------------------------------------------------------------------
(* Properties *)

(* Types: a frame's arrays are as long as its positions, an output is never longer than *)
(* the frame. *)
TypeOK ==
  /\ pc \in {"parse", "keep", "merge", "map", "open", "write", "ok", "failed"}
  /\ run \in 0..MaxRuns /\ broken \in BOOLEAN
  /\ Len(frame.ids) \in {0, Len(frame.positions)}
  /\ \A c \in DOMAIN frame.properties : Len(frame.properties[c]) = Len(frame.positions)
  /\ pc \in {"open", "write"} => Len(rows) = Len(frame.positions)
  /\ Len(output.rows) <= output.natoms

(* A chain of runs is a chain of operations on the table of atoms: whatever was sliced   *)
(* and merged before, each atom keeps the values that are its own, gets those that the   *)
(* merged table has under its identifier and zero where it has none; a failed run        *)
(* changes nothing, and a dump whose end was lost on closing it is never taken for a     *)
(* smaller one.                                                                          *)
ImplementsAtomTable == T!Spec

(* The previous output is given up only for a merge that can be carried out: never for a *)
(* table without identifiers, without rows, or with an identifier twice.                 *)
RefusedMergeKeepsOutput ==
  [][job.kind = "merge" /\ output' # output =>
       /\ job.table.hasId
       /\ Cardinality(Range(job.table.ids)) = Len(job.table.ids)
       /\ Range(job.table.names) \subseteq {"id"} \cup Unsupported \/ job.table.ids # <<>>]_vars

==============================================================================
