------------------------------ MODULE AtomTable ------------------------------
(***************************************************************************)
(* What a chain of slices, selections and merges promises: a table of      *)
(* atoms in their first order, where every value in the row of an atom is  *)
(* the atom's own, or the one that the last merge of its column had under  *)
(* the atom's identifier.  A run may fail, and then changes nothing, or    *)
(* lose the end of the table without saying so; every later run then       *)
(* fails.                                                                  *)
(***************************************************************************)
EXTENDS Selection

CONSTANTS IdOf,       \* the identifiers of the atoms 1..Len(IdOf)
          OwnNames,   \* property columns of the first dump
          Operations, \* [kind, atoms] to keep atoms, [kind, names, ids] to attach columns
          MaxRuns     \* bound: runs of the tool

VARIABLES table,
          operation,  \* of the run under way
          outcome,    \* of that run: pending, ok, failed or lost
          cut,        \* the end of the table has been lost
          run

Value(n, id) == [run |-> n, of |-> id]   \* what run n says of id
Zero == Value(0, 0)                       \* printed when there is none

Init ==
  /\ table = [k \in DOMAIN IdOf |->
               [atom |-> k, cells |-> [c \in OwnNames |-> Value(0, IdOf[k])]]]
  /\ operation \in Operations
  /\ outcome = "pending"
  /\ cut = FALSE
  /\ run = 0

Kept(atoms) == AtPlaces(table, InOrder({k \in DOMAIN table : table[k].atom \in atoms}))

(* Columns "names" with a value for each identifier of "ids" *)
Attached(names, ids) ==
  LET New(atom) == IF IdOf[atom] \in ids THEN Value(run + 1, IdOf[atom]) ELSE Zero
      With(line) == [c \in names \cup DOMAIN line.cells |->
                       IF c \in names THEN New(line.atom) ELSE line.cells[c]]
  IN [k \in DOMAIN table |-> [table[k] EXCEPT !.cells = With(table[k])]]

Result == IF operation.kind = "keep" THEN Kept(operation.atoms)
          ELSE Attached(operation.names, operation.ids)

End ==
  /\ outcome = "pending"
  /\ outcome' \in {"failed"} \cup IF cut THEN {} ELSE {"ok", "lost"}
  /\ UNCHANGED <<table, operation, cut, run>>

Begin ==
  /\ outcome # "pending" /\ run < MaxRuns
  /\ \/ outcome = "ok" /\ table' = Result /\ UNCHANGED cut
     \/ outcome = "failed" /\ UNCHANGED <<table, cut>>
     \/ /\ outcome = "lost" /\ cut' = TRUE
        /\ \E n \in {0} \cup 0..(Len(Result) - 1) : table' = SubSeq(Result, 1, n)
  /\ operation' \in Operations
  /\ outcome' = "pending"
  /\ run' = run + 1

Spec == Init /\ [][End \/ Begin]_<<table, operation, outcome, cut, run>>
==============================================================================
