------------------------------ MODULE PluginRun ------------------------------
(***************************************************************************)
(* One invocation of a plugin (include/volt/plugin/plugin_main.h and       *)
(* include/volt/cli/common.h): the command line, the budget of threads and *)
(* memory, the frames, the analysis, and the exit code.                    *)
(*                                                                         *)
(* The analysis is the plugin's, modelled from what the toolkit gives it:  *)
(* FrameAdapter's input check, properties, memory pools, and the summary,  *)
(* atom and mesh writers.  It may throw anywhere.                          *)
(*                                                                         *)
(* A word of the command line is a string that is looked at only where the *)
(* code does: Number is what std::stoi makes of it, Lists what             *)
(* splitFrameList does, and Dumps the frame LammpsParser reads from it.    *)
(***************************************************************************)
EXTENDS PropertyStorage, MemoryPool, SequencesExt

CONSTANTS Invocations,  \* what the program may be, be told and be asked
          Number, Lists, Dumps,
          Machine,      \* its cores, numa nodes, and bytes of memory; the process id
          Widths,       \* of size_t and int, and the MiB constants of the budget, to scale
          MaxSteps      \* bounds on what an analysis does with properties and with a pool

\* A token is a word, a word with one dash, an option, or an option with its value assigned.
ASSUME InvocationsAssumption ==
  \A v \in Invocations :
    /\ v.argv \in Seq([kind : {"word", "dashed", "option", "assigned"}, text : STRING, value : STRING])
    /\ {v.needsReference, v.multiFrame} \subseteq BOOLEAN /\ v.memoryMb \in Int
    /\ v.outputs \in Seq({"summary", "atoms", "vertices", "facets"}) /\ IsInjective(v.outputs)
    /\ v.uses \in {"properties", "pool", "nothing"}
    /\ {v.declares, v.requires, v.reads} \subseteq SUBSET STRING
ASSUME DumpsAssumption ==
  \A d \in DOMAIN Dumps : Dumps[d] \in [natoms : Nat, rows : Nat, cellIsValid : BOOLEAN]
ASSUME WordsAssumption ==
  /\ \A w \in DOMAIN Number : Number[w] \in Int
  /\ \A raw \in DOMAIN Lists : Lists[raw] \in Seq(STRING)
ASSUME PositionsAssumption == "positions" \in DOMAIN Columns
ASSUME MachineAssumption ==
  /\ {Machine.cores, Machine.nodes, Machine.pid, Machine.memory} \subseteq Nat
  /\ {Widths.size, Widths.int, Widths.mebi, Widths.scanMib, Widths.capMib, Widths.assumedMib} \subseteq Nat \ {0}
  /\ MaxSteps \in [{"properties", "pool"} -> Nat]

VARIABLES invocation,
          phase,         \* how far pluginMain() is
          opts, filename, outputBase,
          workers,       \* g_workers
          arena,         \* the numa node of g_numaArena
          frames, refFrame, primaryIndex,  \* refFrame: a sequence of at most one
          steps,
          written,       \* how many of the outputs asked for are written
          files,         \* what is at the path of each output
          result,        \* the json of the analysis, or that it threw
          failures,      \* what has gone wrong so far; no counterpart
          reported,      \* whether the user was told: the usage or an error
          exitCode

arguments == <<opts, filename, outputBase>>
budget    == <<workers, arena>>
input     == <<frames, refFrame, primaryIndex>>
analysis  == <<storageVars, poolVars, steps>>
outputs   == <<written, files>>
outcome   == <<result, failures, reported, exitCode>>
vars == <<invocation, phase, arguments, budget, input, analysis, outputs, outcome>>

Unset   == ""
Aborted == 134

-----------------------------------------------------------------------------
(* The command line *)

(* parseArgs(): an option takes the next token unless that begins with a dash *)
TakesNext(argv, i) ==
  /\ argv[i].kind = "option" /\ i < Len(argv)
  /\ argv[i + 1].kind \notin {"dashed", "option", "assigned"}

ParseToken(argv, parsed, i) ==
  LET token == argv[i]
      set(value) == [parsed EXCEPT !.opts = (token.text :> value) @@ @]
  IN CASE i = parsed.taken          -> parsed
       [] token.kind = "assigned"   -> set(token.value)
       [] TakesNext(argv, i)        -> [set(argv[i + 1].text) EXCEPT !.taken = i + 1]
       [] token.kind = "option"     -> set("true")
       [] parsed.filename = Unset   -> [parsed EXCEPT !.filename = token.text]
       [] parsed.outputBase = Unset -> [parsed EXCEPT !.outputBase = token.text]
       [] OTHER                     -> parsed

ParseArgs(argv) ==
  FoldLeftDomain(LAMBDA parsed, i : ParseToken(argv, parsed, i),
                 [opts |-> <<>>, filename |-> Unset, outputBase |-> Unset, taken |-> 0], argv)

Has(key)                == key \in DOMAIN opts
GetString(key, default) == IF Has(key) THEN opts[key] ELSE default
GetInt(key, default) ==
  IF Has(key) /\ opts[key] \in DOMAIN Number THEN Number[opts[key]] ELSE default

DeriveOutputBase == IF outputBase = Unset THEN filename ELSE outputBase

Exit(code, failed) ==
  /\ phase' = "ended" /\ exitCode' = code
  /\ failures' = failures \cup failed
  /\ reported' = (reported \/ failed # {})

Rest == <<invocation, budget, input, analysis, outputs, result>>

Start ==
  /\ phase = "start" /\ UNCHANGED Rest
  /\ IF invocation.argv = <<>> THEN Exit(1, {"usage"}) /\ UNCHANGED arguments
     ELSE LET parsed == ParseArgs(invocation.argv)
          IN /\ opts' = parsed.opts /\ filename' = parsed.filename /\ outputBase' = parsed.outputBase
             /\ phase' = "introspection" /\ UNCHANGED <<failures, reported, exitCode>>

Continue(next) == phase' = next /\ UNCHANGED <<failures, reported, exitCode>>

(* handleIntrospection() *)
HandleIntrospection ==
  /\ phase = "introspection" /\ UNCHANGED <<Rest, arguments>>
  /\ IF Has("--describe") THEN Exit(0, {})
     ELSE IF filename = Unset THEN Exit(1, {"usage"})
     ELSE IF Has("--help") THEN Exit(0, {})
     ELSE Continue("budget")

-----------------------------------------------------------------------------
(* The budget: size_t and int keep their widths *)

AsSize(n) == n % Widths.size
AsInt(n)  == ((n + Widths.int \div 2) % Widths.int) - Widths.int \div 2
Greatest(a, b) == IF a < b THEN b ELSE a

(* positiveEnv() of the override *)
MemoryOverride == Greatest(0, invocation.memoryMb)

DuckdbMemoryLimit ==
  IF MemoryOverride # 0 THEN AsSize(MemoryOverride * Widths.mebi)
  ELSE Least(IF Machine.memory > 0 THEN Machine.memory \div 4 ELSE Widths.assumedMib * Widths.mebi,
             Widths.capMib * Widths.mebi)

MemoryThreads == Greatest(1, (DuckdbMemoryLimit \div Widths.mebi) \div Widths.scanMib)
DuckdbThreads == Least(Greatest(1, workers), AsInt(MemoryThreads))

NoArena == -1

ThreadBudget(requested) == IF requested > 0 THEN requested ELSE Greatest(1, Machine.cores)
BoundNode == IF Machine.nodes <= 1 THEN NoArena ELSE Machine.pid % Machine.nodes

ApplyResourceBudget ==
  /\ phase = "budget" /\ Continue("frame")
  /\ workers' = ThreadBudget(Greatest(1, GetInt("--threads", Greatest(1, Machine.cores))))
  /\ arena' = IF GetString("--numa", "off") = "auto" THEN BoundNode ELSE NoArena
  /\ UNCHANGED <<invocation, arguments, input, analysis, outputs, result>>

-----------------------------------------------------------------------------
(* The frames *)

Split(raw) == IF raw \in DOMAIN Lists THEN Lists[raw] ELSE IF raw = Unset THEN <<>> ELSE <<raw>>

FrameFiles ==
  IF invocation.multiFrame /\ Split(GetString("--frames", Unset)) # <<>>
  THEN Split(GetString("--frames", Unset)) ELSE <<filename>>

Unread == <<invocation, arguments, budget, analysis, outputs, result>>

ParseFrame ==
  /\ phase = "frame" /\ Len(frames) < Len(FrameFiles)
  /\ UNCHANGED <<Unread, refFrame, primaryIndex>>
  /\ LET file == FrameFiles[Len(frames) + 1]
     IN IF file \in DOMAIN Dumps
        THEN frames' = Append(frames, Dumps[file]) /\ Continue("frame")
        ELSE Exit(1, {"frame"}) /\ UNCHANGED frames

AllRead == phase = "frame" /\ Len(frames) = Len(FrameFiles)

ReferenceFile == GetString("--reference", Unset)
ReferenceAsked == ~invocation.multiFrame /\ invocation.needsReference /\ ReferenceFile # Unset

\* mutant: atoms are not counted
ReferenceFitsAnyway(reference) == TRUE

ReferenceFits(reference) == reference.natoms = frames[1].natoms

ReadReference ==
  /\ AllRead /\ ReferenceAsked /\ refFrame = <<>>
  /\ UNCHANGED <<Unread, frames, primaryIndex>>
  /\ IF ReferenceFile \in DOMAIN Dumps /\ ReferenceFits(Dumps[ReferenceFile])
     THEN refFrame' = <<Dumps[ReferenceFile]>> /\ Continue("frame")
     ELSE Exit(1, {"reference"}) /\ UNCHANGED refFrame

\* Frames count from one here.
PrimaryOf(n) ==
  LET wanted == Greatest(0, GetInt("--primary", 0)) + 1
  IN IF invocation.multiFrame /\ wanted <= n THEN wanted ELSE 1

FramesReady ==
  /\ AllRead /\ (ReferenceAsked => refFrame # <<>>)
  /\ primaryIndex' = PrimaryOf(Len(frames))
  /\ outputBase' = DeriveOutputBase
  /\ FrameLoaded([c \in DOMAIN Columns |-> frames[primaryIndex'].rows])
  /\ Continue("options")
  /\ UNCHANGED <<invocation, opts, filename, budget, frames, refFrame, poolVars, steps, outputs, result>>

-----------------------------------------------------------------------------
(* The analysis, within the arena and the try block *)

Given == <<invocation, arguments, budget, input, failures, reported, exitCode>>
Frame == frames[primaryIndex]

Returns(value, failed) ==
  /\ result' = value /\ phase' = "unwinding"
  /\ failures' = failures \cup failed
  /\ UNCHANGED <<invocation, arguments, budget, input, reported, exitCode>>

(* effectiveOptions() *)
Declared ==
  invocation.declares \cup {"--threads", "--numa"}
    \cup (IF invocation.needsReference THEN {"--reference"} ELSE {})
    \cup (IF invocation.multiFrame THEN {"--frames", "--primary"} ELSE {})

(* requireOptions() returns a failure; an OptionReader throws at an option nobody declared. *)
ReadOptions ==
  /\ phase = "options" /\ UNCHANGED <<analysis, outputs>>
  /\ IF ~(invocation.requires \subseteq DOMAIN opts) THEN Returns("failed", {"options"})
     ELSE IF ~(invocation.reads \subseteq Declared) THEN Returns("threw", {"options"})
     ELSE phase' = "input" /\ UNCHANGED <<Given, result>>

(* prepareAnalysisInput(), which lends the analysis the frame's positions *)
InputIsValid == Frame.natoms > 0 /\ Frame.rows > 0 /\ Frame.cellIsValid /\ Frame.rows >= Frame.natoms

PrepareAnalysisInput ==
  /\ phase = "input" /\ UNCHANGED <<poolVars, steps, outputs>>
  /\ IF InputIsValid
     THEN \E x \in Properties : Bind(x, "positions", Frame.natoms) /\ phase' = "analysis" /\ UNCHANGED <<Given, result>>
     ELSE Returns("failed", {"input"}) /\ UNCHANGED storageVars

Analysing(use) ==
  /\ phase = "analysis" /\ invocation.uses = use /\ steps < MaxSteps[use]
  /\ steps' = steps + 1

(* requireColumn(), and what the toolkit builds from a column *)
HasColumn(c) == c \in DOMAIN Columns /\ Len(column[c]) > 0 /\ Frame.rows = Frame.natoms

FromFrame(x, c) ==
  /\ HasColumn(c)
  /\ \/ c # "id" /\ Bind(x, c, Frame.natoms)
     \/ c \in {"positions", "id"} /\ FillFrom(x, c)

UseProperties ==
  /\ Analysing("properties") /\ phase' = phase
  /\ \E x \in Properties :
       \/ \E n \in Counts, c \in DOMAIN Columns : NewProperty(x, n, Columns[c].type, Columns[c].comps, 0)
       \/ \E y \in Properties \ {x} : CopyProperty(x, y)
       \/ \E n \in Counts, preserveData \in BOOLEAN : Resize(x, n, preserveData)
       \/ \E c \in DOMAIN Columns : FromFrame(x, c)
       \/ \E row \in Components(props[x]) : Put(x, row[1], row[2])
  /\ UNCHANGED <<Given, poolVars, outputs, result>>

UsePool ==
  /\ Analysing("pool") /\ phase' = phase
  /\ Construct \/ \E keepFirstPage \in BOOLEAN : ClearPool(keepFirstPage)
  /\ UNCHANGED <<Given, storageVars, outputs, result>>

\* A binding that is refused, or a pool that cannot construct, throws out of the analysis.
Fails ==
  /\ \/ Analysing("properties") /\ UNCHANGED poolVars /\ \E x \in Properties, n \in Counts : BindRefused(x, "Void", n, 0)
     \/ Analysing("pool") /\ UNCHANGED storageVars /\ ConstructFails
  /\ Returns("threw", {"analysis"})
  /\ UNCHANGED outputs

BeginOutputs ==
  /\ phase = "analysis" /\ phase' = "outputs"
  /\ UNCHANGED <<Given, analysis, outputs, result>>

Asked == invocation.outputs

(* writeJsonToParquet(), streamAtomsToParquet() and streamMeshTablesToParquet(), each for *)
(* its next file: the COPY succeeds, or fails and the file is removed, if it can be.      *)
WriteOutput ==
  /\ phase = "outputs" /\ written < Len(Asked)
  /\ written' = written + 1
  /\ files' = [files EXCEPT ![Asked[written + 1]] = "new"]
  /\ UNCHANGED <<Given, phase, analysis, result>>

\* mutant: the result is returned as if the file were written
CopyFailsUnnoticed(left) ==
  /\ phase = "outputs" /\ written < Len(Asked)
  /\ files' = [files EXCEPT ![Asked[written + 1]] = left]
  /\ Returns("object", {}) /\ UNCHANGED <<analysis, written>>

CopyFails(left) ==
  /\ phase = "outputs" /\ written < Len(Asked)
  /\ files' = [files EXCEPT ![Asked[written + 1]] = left]
  /\ Returns("threw", {"output"}) /\ UNCHANGED <<analysis, written>>

\* Staging a table fails before a file is touched.  The mesh tables are staged together.
StagingFails ==
  /\ phase = "outputs" /\ written < Len(Asked) /\ Asked[written + 1] # "facets"
  /\ Returns("threw", {"output"}) /\ UNCHANGED <<analysis, outputs>>

\* The analysis may also return that it failed, or what value() cannot read: no json
\* object, or one whose is_failed or error has another type.
Return ==
  /\ phase = "outputs" /\ written = Len(Asked)
  /\ \/ Returns("object", {}) \/ Returns("failed", {"analysis"}) \/ Returns("malformed", {"result"})
  /\ UNCHANGED <<analysis, outputs>>

-----------------------------------------------------------------------------
(* The end *)

\* What the analysis built is destroyed before anyone looks at its result.
Unwind ==
  /\ phase = "unwinding" /\ phase' = "report"
  /\ ClearPool(FALSE)
  /\ props' = [x \in Properties |-> Empty]
  /\ put' = [b \in DOMAIN put |-> IF b \in Properties THEN <<>> ELSE put[b]]
  /\ UNCHANGED <<Given, column, puts, steps, outputs, result>>

\* mutant: only a returned failure is one
FailureOfObject == result = "failed"

(* runReportingFailures() makes an object with is_failed of what it caught *)
Failure == result \in {"failed", "threw"}

(* reportFailure(): value() throws at a malformed result, outside of the try block *)
ReportFailure ==
  /\ phase = "report"
  /\ phase' = "ended"
  /\ exitCode' = IF result = "malformed" THEN Aborted ELSE IF Failure THEN 1 ELSE 0
  /\ reported' = Failure
  /\ UNCHANGED <<invocation, arguments, budget, input, analysis, outputs, result, failures>>

Ended == phase = "ended" /\ UNCHANGED vars

Init ==
  /\ invocation \in Invocations
  /\ phase = "start" /\ opts = <<>> /\ filename = Unset /\ outputBase = Unset
  /\ workers = 0 /\ arena = NoArena
  /\ frames = <<>> /\ refFrame = <<>> /\ primaryIndex = 1
  /\ StorageInit /\ PoolInit /\ steps = 0
  /\ written = 0
  /\ \E before \in {"none", "old"} : files = [f \in Range(Asked) |-> before]
  /\ result = "none" /\ failures = {} /\ reported = FALSE /\ exitCode = 0

Next ==
  \/ Start \/ HandleIntrospection \/ ApplyResourceBudget
  \/ ParseFrame \/ ReadReference \/ FramesReady
  \/ ReadOptions \/ PrepareAnalysisInput \/ UseProperties \/ UsePool \/ Fails \/ BeginOutputs
  \/ WriteOutput \/ StagingFails \/ Return
  \/ \E left \in {"none", "partial"} : CopyFails(left)
  \/ Unwind \/ ReportFailure \/ Ended

Spec == Init /\ [][Next]_vars

-----------------------------------------------------------------------------
(* Properties *)

Phases == {"start", "introspection", "budget", "frame", "options", "input", "analysis", "outputs",
           "unwinding", "report", "ended"}

\* Types, those of the properties and the pool included
TypeOK ==
  /\ StorageTypeOK /\ PoolTypeOK
  /\ invocation \in Invocations /\ phase \in Phases
  /\ arena \in NoArena..Machine.nodes - 1 /\ workers \in Nat
  /\ frames \in Seq(Range(Dumps)) /\ refFrame \in Seq(Range(Dumps))
  /\ steps \in Nat /\ written \in 0..Len(Asked)
  /\ exitCode \in {0, 1, Aborted}

(* The exit code is zero exactly if nothing that was asked for has gone wrong, whatever  *)
(* went wrong and wherever; and the user has been told what did, but for a malformed     *)
(* result, which ends the program at once.                                               *)
ExitAgrees ==
  phase = "ended" =>
    /\ exitCode = 0 <=> failures = {}
    /\ exitCode = 1 <=> reported
    /\ exitCode = Aborted => failures = {"result"}

(* The files of a result are written one after the other.  A run that ends well has      *)
(* written each; after a failure those written are the first ones asked for, at most one *)
(* further file has gone or is damaged, and the others are as an earlier run left them.  *)
OutputsComplete ==
  /\ phase = "ended" /\ exitCode = 0 /\ result = "object" => written = Len(Asked)
  /\ \A n \in DOMAIN Asked :
       /\ files[Asked[n]] = "new" <=> n <= written
       /\ files[Asked[n]] = "partial" => n = written + 1 /\ (phase = "ended" => exitCode # 0)

Listed == Split(GetString("--frames", Unset))

(* The budget stays within its types as long as nobody overrides it beyond them. *)
BudgetInBounds ==
  invocation.memoryMb * Widths.mebi < Widths.size /\ MemoryThreads < Widths.int \div 2 =>
    DuckdbThreads \in 1..workers

(* When the analysis begins, its frames are those of the files listed, in their order;   *)
(* the primary frame is the one asked for if there is such a frame; a reference asked    *)
(* for is there and has as many atoms; some property has a row for each atom; and the    *)
(* threads are within the budget.                                                        *)
RunSeesWhatWasAsked ==
  phase \in {"analysis", "outputs"} =>
    /\ frames = [n \in DOMAIN FrameFiles |-> Dumps[FrameFiles[n]]]
    /\ invocation.multiFrame /\ GetInt("--primary", 0) \in 0..Len(frames) - 1
         => primaryIndex = GetInt("--primary", 0) + 1
    /\ ReferenceAsked => refFrame # <<>> /\ refFrame[1].natoms = Frame.natoms
    /\ ~ReferenceAsked => refFrame = <<>>
    /\ steps = 0 => \E x \in Properties : props[x].n = Frame.natoms /\ props[x].ext = "positions"
    /\ arena # NoArena => GetString("--numa", "off") = "auto" /\ arena < Machine.nodes
    /\ BudgetInBounds
===============================================================================
