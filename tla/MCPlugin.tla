------------------------------ MODULE MCPlugin ------------------------------
(***************************************************************************)
(* Instances of PluginRun: command lines of one plugin or another, in any  *)
(* of the ways the parser tells apart, over a few files.                   *)
(***************************************************************************)
EXTENDS PluginRun

MCToken(kind, text, value) == [kind |-> kind, text |-> text, value |-> value]
MCWord(text)          == MCToken("word", text, "")
MCDashed(text)        == MCToken("dashed", text, "")
MCOption(text)        == MCToken("option", text, "")
MCSet(text, value)    == MCToken("assigned", text, value)

MCDumps ==
  "in" :> [natoms |-> 2, rows |-> 2, cellIsValid |-> TRUE] @@
  "other" :> [natoms |-> 2, rows |-> 2, cellIsValid |-> TRUE] @@
  "fewer" :> [natoms |-> 1, rows |-> 1, cellIsValid |-> TRUE] @@
  "flat" :> [natoms |-> 2, rows |-> 2, cellIsValid |-> FALSE] @@
  "bare" :> [natoms |-> 2, rows |-> 0, cellIsValid |-> TRUE] @@
  "empty" :> [natoms |-> 0, rows |-> 0, cellIsValid |-> TRUE]

MCNumber == "0" :> 0 @@ "1" :> 1 @@ "2" :> 2 @@ "-1" :> -1
MCLists  == "in,other" :> <<"in", "other">> @@ "fewer in" :> <<"fewer", "in">> @@ "," :> <<>> @@
            "in,lost" :> <<"in", "lost">>

MCSingle(argv, needsReference) ==
  [argv |-> argv, needsReference |-> needsReference, multiFrame |-> FALSE, memoryMb |-> 0,
   outputs |-> <<>>, uses |-> "nothing",
   declares |-> {"--cutoff"}, requires |-> {}, reads |-> {"--cutoff", "--threads"}]
MCMulti(argv) == [MCSingle(argv, FALSE) EXCEPT !.multiFrame = TRUE]

MCCommandLines == {
  MCSingle(<<>>, FALSE),
  MCSingle(<<MCOption("--describe")>>, FALSE),
  MCSingle(<<MCOption("--help")>>, FALSE),
  MCSingle(<<MCOption("--help"), MCWord("in")>>, FALSE),
  MCSingle(<<MCWord("in"), MCOption("--help")>>, FALSE),
  MCSingle(<<MCWord("lost")>>, FALSE),
  MCSingle(<<MCWord("flat"), MCWord("out")>>, FALSE),
  MCSingle(<<MCWord("bare")>>, FALSE),
  MCSingle(<<MCWord("empty")>>, FALSE),
  MCSingle(<<MCWord("in"), MCDashed("-1"), MCWord("more")>>, FALSE),
  MCSingle(<<MCOption("--threads"), MCDashed("-1"), MCWord("in")>>, FALSE),
  MCSingle(<<MCWord("in"), MCSet("--threads", "-1"), MCSet("--numa", "auto")>>, FALSE),
  MCSingle(<<MCWord("in"), MCOption("--reference"), MCWord("other")>>, TRUE),
  MCSingle(<<MCSet("--reference", "fewer"), MCWord("in")>>, TRUE),
  MCSingle(<<MCOption("--reference"), MCOption("--numa"), MCWord("in")>>, TRUE),
  MCSingle(<<MCSet("--reference", ""), MCWord("in")>>, TRUE),
  MCSingle(<<MCOption("--reference"), MCWord("fewer"), MCWord("in")>>, FALSE),
  MCMulti(<<MCWord("in"), MCSet("--frames", "fewer in"), MCOption("--primary"), MCWord("1")>>),
  MCMulti(<<MCWord("in"), MCSet("--frames", "in,other"), MCSet("--primary", "2")>>),
  MCMulti(<<MCWord("in"), MCSet("--frames", "in,other"), MCOption("--primary"), MCDashed("-1")>>),
  MCMulti(<<MCWord("fewer"), MCSet("--frames", ","), MCSet("--primary", "-1")>>),
  MCMulti(<<MCWord("in"), MCOption("--frames"), MCWord("in,lost")>>)}

\* any override of the memory limit that size_t can hold scaled down, and beyond
MCBudgets == {[MCSingle(<<MCWord("in"), MCSet("--threads", "2")>>, FALSE) EXCEPT !.memoryMb = m] : m \in 1..63}

MCFull == MCSingle(<<MCWord("in")>>, FALSE)
MCOptions ==
  {[MCFull EXCEPT !.requires = {"--cutoff"}],
   [MCSingle(<<MCOption("--cutoff"), MCDashed("-1"), MCWord("in")>>, FALSE) EXCEPT !.requires = {"--cutoff"}],
   [MCSingle(<<MCWord("in"), MCOption("--cutoff")>>, FALSE) EXCEPT !.requires = {"--cutoff"}],
   [MCFull EXCEPT !.reads = {"--lattice"}], [MCFull EXCEPT !.reads = {"--reference"}]}
MCInvocations ==
  MCCommandLines \cup MCBudgets \cup MCOptions \cup
  {[MCFull EXCEPT !.outputs = o] :
     o \in {<<"summary">>, <<"summary", "atoms">>, <<"summary", "atoms", "vertices", "facets">>}} \cup
  {[MCFull EXCEPT !.uses = u] : u \in {"properties", "pool"}}

MCColumns ==
  [positions |-> [type |-> "Double", comps |-> 2], id |-> [type |-> "Int", comps |-> 1],
   type |-> [type |-> "Int", comps |-> 1]]
MCSteps   == [properties |-> 4, pool |-> 8]
MCMachine == [cores |-> 3, nodes |-> 2, pid |-> 7, memory |-> 64]
MCWidths  == [size |-> 128, int |-> 16, mebi |-> 4, scanMib |-> 2, capMib |-> 8, assumedMib |-> 4]
=============================================================================
