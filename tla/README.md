# CoreToolkit in TLA+

A verification development for VoltLabs CoreToolkit, the C++ library that the Volt
analysis plugins are built on: it reads LAMMPS dumps, keeps per-particle properties,
finds neighbours, evaluates selection expressions, and exports results to Parquet.
Specifications describe the code as written; TLC checks them on small instances and
TLAPS proves the main results for every value of the constants.

## 1. Inventory

| Component | Source | State | Operations | What is hard | What makes it correct |
|---|---|---|---|---|---|
| Progress reporter | `include/volt/core/progress.h` | atomics `done_`, `nextMark_`, `lastLine_` | `advance`, `update`, `report` | relaxed atomics from parallel bodies | one line per step, none before the interval, the mark never goes back |
| Columnar writers | `src/utilities/parquet_{atom,bond,line,mesh}_writer.cpp`, `include/volt/utilities/duckdb_parquet.h` | columns by name, row count, in-memory DuckDB, output file | `beginRow`, `field`, `finishRow`, stream, `COPY` | columns discovered late, missing fields, a failing `COPY` | every column is aligned with the rows; a cell is what its row wrote; no partial file stays |
| Result serializer | `include/volt/plugin/output_serializer.h` | output files | summary, then atoms | one step of several failing | which files are left after a failure |
| Wasm DuckDB shim | `compat/wasm/duckdb.hpp`, `duckdb-host.js` | CSV buffer, handles | `Append`, `EndRow`, `Flush`, `Close`, connect | flush fails half way, destructor swallows | rows arrive once and in order, or the caller hears of it |
| Properties and frames | `src/core/property_base.cpp`, `particle_property.cpp`, `frame_adapter.cpp` | owned or external storage | resize, bind, copy, adapt a frame | aliasing of the frame's vectors | the bytes behind a property are alive and those meant |
| Clusters | `include/volt/structures/cluster.h` | sorted transition list, spin mutex | insert, remove, find | parallel insertions | list sorted and complete |
| LAMMPS parser and dump writer | `src/core/lammps_parser.cpp`, `tools/dump_transform.cpp` | frame, output stream | parse, write, merge columns | stream failure after the buffer, ids that do not match | success means the file is there; each atom keeps its own columns |
| Neighbour finders | `src/analysis/{cutoff,nearest}_neighbor_finder.cpp` | bins, stencil, tree, images | prepare, query | periodic images, boundaries of bins, second prepare | each neighbour within the cutoff is reported once |
| Bounded priority queue | `include/volt/utilities/bounded_priority_queue.h` | heap of at most k | insert, sort, top | eviction at capacity | keeps the k best of all inserted |
| Memory pool | `include/volt/utilities/memory_pool.h` | pages | construct, clear | constructor throws | every slot constructed once is destroyed once |
| Plugin entry and CLI | `include/volt/plugin/plugin_main.h`, `cli/common.h`, `plugin/option_*.h` | exit code, status output | parse args, run, report failure | exceptions, several frames | every failure reported, exit code agrees |
| Expressions | `src/analysis/expression.cpp` | tokens, tree, atoms kept so far | scan, parse, evaluate a selection | precedence, short circuit | exactly the formulas of the grammar, with the right tree; skipped operands cannot fail |
| Runtime budget | `src/core/runtime_budget.cpp` | none | threads and memory from the environment | overflow | a budget of at least one thread |
| Linear algebra, cell geometry | `include/volt/math/*`, `simulation_cell.h`, `affine_decomposition.cpp` | values | arithmetic on doubles | rounding | not a question for TLC |
| Vendored code, build scripts | `dependencies/*`, `scripts`, `cmake`, `.github`, `docker` | - | - | - | not the program's own logic |

Interactions: a plugin entry parses its options, reads a frame with the LAMMPS parser,
wraps the frame's vectors as properties (`FrameAdapter`), runs an analysis on TBB
threads (neighbour finders, clusters, progress reporter) and hands its per-atom fields
to a columnar writer, which goes through DuckDB (native or the wasm shim) to a Parquet
file. The transforms read frames and write dumps with extra columns matched by atom id.

## 2. Plan

Modelled in this order, the parts where interleaving, partial failure or a long chain of
calls decides the result first.

| Step | Modules | State |
|---|---|---|
| 1 | `ProgressReporter`, `ProgressReporterProofs` | done, proved |
| 2 | `FieldValues`, `RowTable` (abstract), `ColumnTable` | done, refinement proved in `ParquetExportProofs` |
| 3 | `ParquetExport` (extends `ColumnTable`), `ParquetExportProofs` | done, proved |
| 4 | `CutoffNeighbors`, `CutoffNeighborsProofs` | done, proved |
| 5 | `Selection`, `AtomTable` (abstract), `DumpTransform`, `DumpTransformProofs` | done, refinement proved; plain writers and `mergeHeaders` open |
| 6 | `TransitionList` (abstract), `ClusterTransitions`, `ClusterTransitionsProofs` | done, refinement proved |
| 7 | `PropertyStorage`, `PropertyStorageProofs`: own and external storage of a property, frame adapter | done, proved |
| 8 | `PluginRun` (extends `PropertyStorage` and `MemoryPool`), `PluginRunProofs`: command line, budget, frames, analysis, output files and exit code | done, all its properties proved |
| 9 | `MemoryPool` (proved in `PluginRunProofs`); `BoundedQueue`; `NearestNeighbors` (extends `BoundedQueue`), `NearestNeighborsProofs` | done, proved |
| 10 | `ExpressionParser`, `Expressions` | done, checked |
| 11 | runtime budget with its widths | done, in `PluginRun` |
| 12 | wasm shim: handles, replies of the host; plain dump writers and `mergeHeaders` | open |

Every safety property of the runs is proved but those of `Expressions`, whose operators are
recursive. A component added later brings its theorems along; the first would be the plain
dump writers with `mergeHeaders`. New components share
a run where they can, through a variable that ranges over set-ups, as `ParquetExport`
(`call`) and `CutoffNeighbors` (`cell`) do.

## 3. The modules

### ProgressReporter

| Model | Code |
|---|---|
| `done`, `marks`, `lastLines` | `done_`, `nextMark_`, `lastLine_`; the last two as modification orders |
| `viewMark`, `viewLine` | how far into each order a thread has seen: a relaxed load returns anything from there on |
| `mine`, `mark`, `now` | parameter and locals of `report()` |
| `Advance`, `Update` | the read-modify-write or store of `done_` |
| `CheckMark`, `LoadMark`, `ClaimMark`, `LoseMark` | the two loads of the mark and the compare-exchange |
| `ReadClock`, `CheckInterval`, `StoreLine`, `LogLine` | the interval check and the line |

A read-modify-write acts on the last value of the order, so only plain loads can be stale.
`Serial` allows `update()`, which the code reserves for serial loops whose counts grow.

### ColumnTable, RowTable, ParquetExport

`columns` is the pair `index`/`columns` of `Impl`: a function from names to a type, the
cells and `touchedThisRow`. `Field` is one `append*` with `ensure()`, `DropReserved` the
early return on a reserved name, `FinishRow` the padding of untouched columns. The
variable `repeats` has no counterpart: the code does not notice that a row writes a field
twice, the properties count it. `RowTable` is what the header promises: each row has the
cells it wrote. The bond and line writers repeat the class line by line and differ in
their reserved names.

`ParquetExport` runs one call of `streamAtomsToParquet`, `streamBondsToParquet` or
`streamLinesToParquet`, chosen by `call`: rows are collected, staged through the Appender
of the wasm shim (the one whose source is here) and copied to the output path. Every
callback, engine call and the removal of a half-written file may fail. `file` is what is
at the output path. When the `COPY` fails before it opened the file, the file that an
earlier run left there is removed as well; the model keeps that.

### CutoffNeighbors

`Prepare` is the whole of `prepare()`: dimensions of the grid, the stencil by growing
shells, wrapping, the bin of each particle and the counting sort. A `Query` is a record;
`NextBin`, `ScanParticle` and `ReachEnd` are the stretches of `next()` between returns.
The cell is a box with integer sides and positions are integers, so all comparisons are
exact; what rounding can do is a choice in one place (a particle a hair below a periodic
face is wrapped onto the opposite face). A neighbour so wrapped, at a distance of exactly the
cutoff, is left undecided (`Undecided`). Bins over the limit are made coarser by the cube root
(`Coarser`), after which there may still be more than the limit, as in the code; the product
of the bin counts, an `int`, is assumed not to overflow. `int8_t` has a width (`byteMax`). The order of the loops over
the stencil and of the counting sort is said by `Selection`'s `Ranked`: a set listed by an
order, each member at the place that counts those before it.

### DumpTransform, AtomTable

A run of `volt-dump-transform`: `Parse`, then `KeepSelected` (slice, select) or
`ReadTable` (merge), `MapRows` (row of each atom, before the file is opened),
`OpenOutput`, `WriteRow`, `Close`. The output may become the input of the next run. The
position of an atom serves as its name, so a line tells which atom it is about, and a cell
is a pair of a run and an identifier. `Selection` says what a loop that skips some
elements leaves, as the ascending list of the places it keeps. `AtomTable` is the promise: a chain of operations on
a table of atoms, where a failed run changes nothing and a lost end is noticed by the next
run. A dump is mapped to such a table by `Lines`; the abstract `outcome` (`Outcome`) is
known when a run ends. `Close` takes `bool(out)` before the last buffer is written: the model
lets the end be lost while the run reports success, as the code does, from the last row
back to the header. Bytes are not modelled: a buffer may be torn inside a row, and a row torn
inside its last value can still have as many numbers as the dump has columns. The model
takes the reader (`lammpsio`, whose source is not in the repository) to refuse a dump whose
last line has no newline, as one with a row too few; what is claimed of a lost end rests on
that.

### ClusterTransitions, TransitionList

`transitions` and `next` are the pointers; each thread has a `pc` and the locals `prev`
and `iter` of the walk. `Lock`, `Step`, `LinkNew`, `Publish`, `RemoveHead`, `Unlink`,
`Detach`, `Found`, `Unlock` each read or write one pointer. `TransitionList` is a sorted
sequence on which every call takes effect at one moment; `call` and `answer` are the same
variables in both, `list` is the chain read from the head (`List`: the one sequence that
`Reads` from the pointers). An insertion goes before the first element that is not nearer,
a removal takes one element out (`Insert`, `Withdraw`). `fate` states what callers must
see to (insert only what is out, remove only what is in).

### ExpressionParser, Expressions

`ExpressionParser` is `tokenize()` and `Parser` as recursive operators: `Tokens`,
`ParseExpression` with its loop `Climb`, `ParseUnary`, `ParsePrimary`. An error is a kind
of token or node; another kind stands for the exception of `std::stod`, which
`runSelect()` does not catch (phase `aborted`). `Expressions` is one selection: `Scan`,
`Parse`, then `EvaluateAtom` for one atom after the other, where the first error loses the
whole selection. Doubles are fractions.

The properties are stated without the code's algorithms. `LexemesAt` says which stretches
of characters are lexemes, and a token has to be the longest one; `Trees` builds every
tree that the grammar gives a range of tokens, and the parser has to find the only one;
`TypeOf` is a type system in which well-typed formulas without a division do not fail;
`DeMorgan` compares the two short circuits with each other.

### BoundedQueue, NearestNeighbors

`heap` is `_data[0.._count-1]`, counted from one. An insertion is `Insert`, which opens the
hole (at the end, or at the root of a full queue whose top is larger), then `SiftDown` or
`SiftUp` for each assignment in the loops of `insert()`, then `Place`. The slot of the hole
holds a stale value until then, which the invariant has to allow for. `offered` is a
ghost: what was inserted since `clear()`.

`prepare()` is `Prepare` (the images, which the code appends to those of an earlier
preparation, and the root's box with its extension along open axes), `SplitEmpty` (the first
split along each axis), `InsertAtom` for one atom after the other, and `Prepared`. A finder whose
preparation threw has the new cell and is otherwise as before: it may be prepared again, and
is not asked anything until then. `tree` is a
function from paths to nodes; the list of a leaf is a set, so its atoms are visited in any
order. `image`, `stack` and `bin` are the position of
`findNeighbors()` in its loop, in the recursion of `visitNode()` and in the list of a leaf.
The farther child is put under everything below the nearer one and tested when its turn
comes (`Skip`), against the worst neighbour held then, as in the code. `FindsNearest`
compares the answer with all atoms of all images, without tree and queue, and the images
with all cells two deep around.

### MemoryPool, PropertyStorage, PluginRun

`pages` and `lastPageSize` are `_pages` and `_lastPageSize`; a slot is raw, an object, or
abandoned by a constructor that threw. `construct()` fails in three ways: the
constructor throws (the slot is counted already), there is no memory for a page, or none
to remember the page in (`leaked`).

In `PropertyStorage` memory is a sequence of words that know their value and their part of
it (an int is one word, a double and an int64 are two), so a value cut in two, shifted or
read with another type shows. `props` are the `PropertyBase` objects, with their own
buffer or bound to a `column` of a frame; `put` is a ghost that holds what each element
was set to last. `Resize`, `CopyProperty`, `Bind`, `BindRefused`, `Put` are the operations
of the same names; `FillFrom` is what `FrameAdapter` does where positions or identifiers
are copied into a property of their own.

`PluginRun` is `pluginMain()` and `pluginMainMultiFrame()`; `phase` is the place in it:

| Action | Code |
|---|---|
| `Start`, `HandleIntrospection` | `parseArgs()`, the usage, `--describe`, `--help` |
| `ApplyResourceBudget` | `applyResourceBudget()`: threads and numa node; the memory limit and the threads of DuckDB are operators that keep `size_t` and `int` at their (scaled) widths |
| `ParseFrame`, `ReadReference`, `FramesReady` | the frames of `--frames`, the reference, the primary frame |
| `ReadOptions`, `PrepareAnalysisInput` | `requireOptions()`, `OptionReader`, `prepareAnalysisInput()` |
| `UseProperties`, `UsePool`, `Fails` | the analysis, which is the plugin's own: anything that the toolkit's properties and pool allow, and an exception anywhere |
| `WriteOutput`, `CopyFails`, `StagingFails`, `Return` | the summary, atom and mesh files, one after the other, and the returned value |
| `Unwind`, `ReportFailure` | destructors, the `catch` of `runReportingFailures()`, and the look at `is_failed` outside of the `try` block |

`failures` is a ghost: what really went wrong, independently of what the code returns,
and `files` says for each output whether it is absent, from an earlier run, new or damaged.

## 4. Runs

| Run | Instance | Shows |
|---|---|---|
| `progress_threads` | 3 threads, all of 5 items in steps of 34% (marks 2 and 4, then never), relaxed loads | one line per step, no early and no final line, the mark moves forward, the strengthened invariant, calls return |
| `progress_serial` | 1 thread, 12 items in steps of 10% | lines keep the interval and no step is skipped in a serial loop |
| `progress_pace` (violation) | 2 threads, sequentially consistent | two lines closer than `minInterval` |
| `columns_refine` | 3 names, 1 reserved, 3 rows, all types | alignment and refinement of `RowTable` |
| `export_calls` | 5 calls, 3 rows, buffer of 2 | completeness of the file, nothing half-written after a throw, dense bucket ids |
| `cutoff_cells` | 2 particles, 4 cells, bins made coarser in two of them | every neighbour image once, with the right separation |
| `cutoff_small` (violation) | cutoff of 101 cell lengths, real limits | the promised exception is out of reach |
| `dump_chain` | 3 atoms, 3 runs, 8 kinds of tables | refinement of `AtomTable`; a refused merge keeps the output |
| `clusters_threads` | 2 threads, 3 transitions, 5 calls | linearizable sorted list, assertions hold, the mutex is released |
| `expressions_formulas` | 4,683 texts of up to 4 characters, 30,781 lists of words, 968 pairs of conditions, 2 atoms | longest match, one tree per formula, well-typed formulas select, short circuit |
| `neighbors_nearest` | queue of 3, buckets of 1, depth 4, 4 cells of 4 or 5 atoms, prepared up to twice, 4 points | the queue keeps the smallest; the pruned search finds the nearest of all images |
| `plugin_run` | 95 invocations, 6 dumps, pages of 2 slots, 2 properties, widths scaled down | exit code, output files, what the analysis is given, property data, destructors |

Why the bounds are enough: three threads are the least with one that wins a mark, one that
loses it and one that is late from the step before, and two marks are the least for two
claims at a time; the loop is run to its last item, so that a mark can be won by the call that
finishes it (`done >= total_`), and `progress_serial` goes past the total. Three rows give a
late column both a row before and a row after it, and a buffer of two is once filled and once
left over. Two particles make every pair; the
cells have axes of one to several bins, particles inside, on and beyond the faces, and
both kinds of boundary. A chain of three runs has a merge after a slice after a merge.
Three transitions, two of them equal, let an insertion go to the head, between and to the
end while another thread removes a neighbour. Four characters hold a number with a sign in
its exponent and a string with an escape; six words hold two operators with a sign on an
operand, and five every pair of levels. The two atoms differ in every column, so a
condition skips its right operand for one of them only.
A queue of three has a root with two children, the least at which `LargerChild` chooses;
buckets of one split leaves down to the depth limit, where the two atoms in one place
end up together. Eight operations on pages of two fill three pages and clear them with and
without the kept one; four on two properties bind, write, resize and copy in every order.
The 63 overrides of the memory limit cross the width of `size_t` (32 MiB of it) and, divided
by the scan size, that of `int`; four files make a failure at each position, before and
inside a `COPY`.

Deadlock is not checked where the system may stop: loops end, exports finish, calls run
out (`MaxDone`, `MaxTime`, `MaxRows`, `MaxRepeats`, `RowCount`, `MaxRuns`, `MaxCalls`,
`prepares`, `Atoms`, `Prepares`, `DepthLimit`, `MaxSteps`, `MaxPages`, `MaxPuts` are the
bounds; `Counts`, `Data`, `Inputs`, `Tables`, `Calls`, `Cells`,
`Formulas`, `Columns`, `Worlds`, `Probes`, `Invocations`, `Dumps` the inputs).

Fairness: `progress_threads` assumes that a thread inside `advance()` keeps being
scheduled, and nothing about whether it is called again. `clusters_threads` assumes that
the thread inside the mutex keeps running; `spin_mutex` is not fair to those who wait, so
nothing is claimed of a waiting thread.

## 5. Findings

- `progress_pace`: the class comment promises one line per `minInterval` and calls from
  parallel bodies; the interval is read and stored in two steps, and two winners of
  successive marks both pass. Each line still belongs to a step of its own.
- `cutoff_small`: the error message says that a cell too small for its cutoff is refused;
  the stencil loop ends at radius 99, the `int8_t` limit of 127 is never met, and the
  query returns normally without the farther images.

Met while modelling and described in the modules or the hazards: a second `prepare()`
keeps the old stencil and duplicates neighbours (`FindsEachOnce` asks for a single one); a
failed `COPY` also removes an older output; a field name that differs from a fixed column
by case only is refused by DuckDB after all rows are collected; the end of a dump can be
lost while the tool exits with 0; a dump without an id column loses the identity of its
atoms in a slice; a negative 64-bit integer is printed as unsigned.

From the nearest-neighbour finder: a second `prepare()` keeps the images of the first, so
the same copy of an atom can take several of the k places (`FindsNearest` counts them as
candidates of their own); a point outside the cell is not wrapped and is answered from the
images around the cell only. From the plugin entry: `parseArgs()` never takes a value that
starts with a dash, so `--threads -1` sets `--threads` to "true" and leaves `-1` as a file
name; a result that is not a JSON object, or whose `is_failed` or `error` has another type,
makes `value()` throw outside of the `try` block and the program abort, without a word to the user; a large override of the memory limit
wraps (the property states the range where it does not). From the storage: resizing a
property bound to a frame drops the frame's data although preservation was asked for;
`clear()` of a pool destroys an object whose constructor threw.

## 6. Proofs

`ProgressReporterProofs`, for any set of threads, total, step and interval, and with or
without stale loads, from the named assumptions of `ProgressReporter`:

- `TypeCorrect`. Types, and that views stay inside the modification orders.
- `ReachedMarkLaterStep`. The arithmetic of `markAfter()`: whoever reaches a mark that
  count d set is in a later step than d. Needs care with two integer divisions.
- `ClaimsAreDistinct`. `OneLinePerStep` is not inductive: a line is printed several steps
  after its mark was won. `ClaimInv` says that every thread between its compare-exchange
  and its line holds a step that nobody else holds and no line has, and that the mark has
  passed it. A new winner compared its own count with the last mark, so by
  `ReachedMarkLaterStep` its step is new.
- `LinesInDistinctSteps`, `LinesWaitForInterval`, `MarkIsMonotone` follow from it.
- `SerialLoopIsPaced`, `SerialLoopClaimsItsSteps`, for `Serial` (at most one thread, which
  `update()` is reserved for). `SerialInv`: the only thread has seen all there is, so its
  loads are not stale, every line is at least as old as the stored time, and the mark is ahead
  of the count unless the thread is about to move it. With two threads both can fail (`progress_pace`).

`ParquetExportProofs`, its part on the columns, for any names, values and number of rows:

- `TypeCorrect`, `ColumnsAligned`. The inductive invariant adds to `Aligned` that a
  column nobody has written has no repeats.
- `Refinement`. If callbacks write a field once per row, the columns implement `RowTable`:
  `RefineInv` (types, alignment, no repeats) makes every read of a cell well defined, and
  each action maps to the action of the same name or to a stutter.

`ParquetExportProofs`, on exports, for any columns, number of rows and size of the buffer, and
any failure:

- `RowsInOrder`, `FilesAreComplete`, `NoPartialAfterThrow`. `StagingInv` follows the rows
  from the columns through the buffer to the table, `FileInv` says what may be at the output
  path in each phase. The rows cannot change after they were collected (`RowsKept`), so
  flushing at any place leaves the concatenation of table and buffer as it was.
- `BucketIdsAreDense`. `NumberingInv`: the ids given so far number the buckets seen so far,
  and a new bucket gets the cardinality of those.
- `ExportTypesHold`. `LengthInv`: the id vectors of the atom writer grow with the rows, the
  structure ids only if there is a resolver.
- `ExportUsesColumns`. An export implements `ColumnTable`, so its theorems hold in exports.

`CutoffNeighborsProofs`, for any cells of up to three axes, cutoffs, particles and stencils:

- `QuotientUnique` and what follows from it: the truncating divisions of the code are rounded
  quotients (`ShiftIsQuotient`, `CrossedIsQuotient`), counting cells in bins or in lengths
  comes to the same (`CellOfBin`), bins have their own places in the flat array
  (`FlatInjective`), and a byte tells crossings apart (`ImageTellsCells`).
- `TypeCorrect`. `PreparedInv`: particles are moved by whole sides into the cell, the bins
  follow each other in the array, each particle is in it once, each offset of a preparation
  once in the stencil.
- `FindsOnce` is not inductive: the images found say nothing of where the query stands.
  `FoundInv` gives for each the offset and the place at which it was found, before the cursor.
  Particle, image and place determine the offset, so a repeat would be at the cursor.
- `DeltaIsThatOfImage`. Delta and image are two computations from the shifts of the two
  particles and the cells crossed. The image is one of an `int8_t`: the hypothesis `ImagesFit`
  says that none overflows, which the code does not check; TLC evaluates it for the cells of
  the runs. With 100 shells particles may lie up to 13 cells outside.
- `FindsAll`. That a query misses nothing is about what its cursors have passed. `TablesInv`:
  every particle is in a bin that holds its position (within the cell, or clamped to the
  edge along an open axis), and every offset in reach is in the stencil. `AxisGap` and
  `GapsInReach`: two coordinates are no closer than the gap between their bins, so an image
  within the cutoff has an offset in reach. `SearchInv`: whatever lies behind the cursors and
  within the cutoff was returned (`SeenInv`, `PassedInv`, `LastInv`), and nothing else was
  (`TakenInv`). Its hypotheses are `ImagesFit` and `StencilReaches`: no cutoff is so many cells
  long that the loop over radii ends with the last one it tries (`ReachedBelowLimit`). TLC
  evaluates both for the cells of `cutoff_cells`; the second fails in `cutoff_small`.

`NearestNeighborsProofs`, its part on the queue, for any capacity:

- `QueueTypeCorrect`, `HoldsSmallest`. Between insertions the queue is a heap of the
  smallest elements offered; within one it is neither, since one slot is stale. `HoleInv`
  carries it across: heap order away from the hole, what is above the hole no smaller than
  what is below it, and the new element fitting on the side the hole comes from.
  `SettledInv` says that what the queue will hold once the hole is filled is the smallest
  of what was offered, and moving the hole leaves that set alone.
- `TopIsLargest`. The least index with an element larger than the root's would have a
  parent that is larger too: an argument by minimal counterexample instead of induction
  over a parameter. An eviction is right because of it.

`NearestNeighborsProofs`, on the finder, for any cells of up to three axes, atoms, points asked
about, bucket sizes and depths, prepared any number of times, from `WorldsAssumption`
(integer boxes whose sides split exactly) and `LimitsAssumption`:

- `RankedLists`, `SortedImages`, `ImagesOfWorld`. A list sorted by length keeps its members, and
  the images of a cell have the steps to all cells around it.
- `TypeCorrect`. `TreeInv` of the tree while atoms come in: it is binary, the box of a node holds
  every atom that the way to it lets through, and an atom is in the leaf its way leads to and
  nowhere else. A way leads to one leaf: that there is one follows from a longest path
  (`LeafIsThere`), that it is the only one from the first place where two differ (`LeafIsOne`).
  Adding an atom and splitting a leaf keep it (`AddKeeps`, `SplitKeeps`).
- `SearchHoldsSmallest`. Every step of the finder is a step of the queue or leaves it alone,
  so what was proved of the queue by itself holds in each search.
- `FindsNearestHolds`. `FindsNearest` speaks of the end; `SearchInv` says of each copy of an atom
  in the images passed that it was offered, is still below the stack or in the open leaf, or
  is beaten: as many as the queue holds were offered and none is farther. Skipping a subtree keeps it:
  its box holds its atoms, the distance to the box is a lower bound (`BoxIsNear`), and the
  worst neighbour held is the queue's root. `Once` (no atom is met twice) and `Distinct` (no
  element has two places) make a full heap count as many. Of a copy two cells away, the
  distance is at least the side (`TwoAwayIsFar`), so the listed images are enough in the range the property names.

`ClusterTransitionsProofs`, for any number of threads, calls and clusters and any finite set
of transitions with their distances:

- `ClusterInvariant`. That the holder of the mutex is alone between `Lock` and `Unlock` is
  not enough: `ListInv` names the sequence that the pointers spell, sorted and without
  repeats, which stays apart from what an insertion has linked but not published;
  `Walk` says where in it a thread stands and what it has passed; `ClaimInv` that no two
  calls insert or remove one transition.
- `TypeCorrect` (with mutual exclusion), `Assertions` (both asserts of `cluster.h`).
- `Linearizable`. `Publish`, `RemoveHead`, `Unlink` and the last look of a search are the
  moments at which a call takes effect; all other steps leave the sequence and the
  answers alone.

`PropertyStorageProofs`, for any columns, counts and properties: `Layout` says that a buffer
has, in the words that the accessors compute, the value last put into each component.
A new buffer, a copy, a resize that keeps the words of the elements that remain, a write and a
binding each keep it, by lemmas on one buffer; the arithmetic in them is that two
components never share a word. The results are stated for a run, in `PluginRunProofs`.

`PluginRunProofs`, for any invocation, dumps, machine and widths:

- `PoolTypeCorrect`, `DestroysOnce`, for the pool by itself and any page size; they are
  inductive together.
- `ExitCodeAgrees`. The exit code is decided two phases after a failure happens;
  `ControlInv` keeps the returned value in agreement with `failures` in between.
- `OutputsInOrder`. `FilesInv` ties the files to the number written and to the exception;
  with `ControlInv`, a damaged file means a nonzero exit code. It needs that no output is
  asked for twice (`InvocationsAssumption`; the file names of the writers differ).
- `PoolOfRun`, `RunDestroysOnce`. Every step of a run is a step of the pool or leaves it
  alone, so what is proved of the pool holds in every run.
- `RunReadsItsData`. `StoredInv` carries the storage invariant through the phases: until the
  frames are read there is no column, from then on every column has as many rows as the
  primary frame, so a bound property cannot read beyond it. The assumptions name the columns:
  they have a type and a number of components (`ColumnsAssumption`), the positions are one
  of them (`PositionsAssumption`), and no property is called like one (`NamesAssumption`).
- `SeesWhatWasAsked`. `FramesInv` (the frames read are those listed, in their order; the
  reference comes last and has as many atoms), `BudgetInv` (threads and node) and `LentInv`
  (the positions are there until the analysis has acted) together give what the analysis is
  handed. The arithmetic of the memory limit and of the threads derived from it is proved for
  every width, in the range of overrides that the property states.
- `TypeCorrect`. The types of run, properties and pool, from all of the above.

`DumpTransformProofs`, for any atoms with distinct identifiers, any columns, selections and
tables and any number of runs, wherever the disk fails:

- `Enumeration`, `SelectedMembers`. A finite set of numbers has an ascending list, and
  a selection has exactly the members that pass; everything about compacted frames
  rests on these two.
- `TypeCorrect`. `ChainInv` gives frame, rows and output of each phase as functions of the
  input and the job, and says that every line of a dump is about an atom.
- `RefusalIsHarmless`. The file is opened only after the rows were looked up, which
  `ChainInv` remembers (`RowsInv`).
- `ChainImplementsAtomTable`. The lines of an output that was written are those of the
  abstract operation on the lines of the input (`KeptIsWritten`, `MergeIsWritten`), so a run that
  ends well maps to an operation, one whose tail was lost to a cut. Its hypothesis
  `HasIds`, that the first dump has an id column, is needed: without one `compactFrame()`
  keeps the old numbers in memory and the next run counts anew.

Model-checked only: the four properties of `Expressions` (recursive operators throughout),
and the liveness properties `CallsReturn` and `MutexIsReleased`. Liveness under fairness and
facts about recursive definitions over all data are outside what the proof system can do
here and stay with TLC. Nothing in the finder's proofs needs induction over a recursive
definition: the tree is built one atom at a time by an action, and a way through it is
said by the nodes above (`Leads`).

## 7. Not modelled

- Arithmetic on doubles: linear algebra, affine decomposition, skewed cells. The finders
  are modelled on boxes with integer lengths. An overflow of the `int` that counts the bins of
  the cutoff finder (`cutoff_neighbor_finder.cpp:32`) is undefined and left out.
- The bytes of a dump: where in a line a lost buffer ends (see `Close`).
- Formatting and logging, the `lammpsio` reader, JSON conversion, crystal structure tables.
- The wasm shim's handles and the replies of its host; the plain dump writers and
  `mergeHeaders`; what `--describe` and `--help` print; moving and swapping pools, which
  nothing in the repository does; explicit strides of properties.
- Vendored libraries and packaging. Of the roughly 53,700 lines counted as implementation,
  more than 42,000 are geogram, mwm_csp and fast_float under `src/dependencies`, which the
  toolkit only calls; its own code has about 10,000 lines, many of them declarations and
  formatting. The models map the part of these that keeps state or decides something.

Hazards that no property covers say in `PROJECT.json` why.
