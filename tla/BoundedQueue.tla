----------------------------- MODULE BoundedQueue -----------------------------
(***************************************************************************)
(* BoundedPriorityQueue (include/volt/utilities/bounded_priority_queue.h): *)
(* a heap that keeps the MaxSize smallest elements, the largest of them at *)
(* the root.  An insertion opens a hole and moves it, one level a step, to *)
(* where the new element belongs.                                          *)
(*                                                                         *)
(* "heap" is _data[0.._count-1]; the slot of the hole holds a value that   *)
(* nobody reads.  "offered" has no counterpart: all that was inserted.     *)
(***************************************************************************)
EXTENDS Integers, Sequences

CONSTANT MaxSize   \* _maxSize

ASSUME MaxSizeAssumption == MaxSize \in Nat \ {0}

VARIABLES heap,
          mode,      \* of the queue: idle, in insert() with the hole going down or up, sorted
          hole,
          entering,  \* the argument of insert()
          offered

queueVars == <<heap, mode, hole, entering, offered>>

\* NearestNeighborFinder::Neighbor, the only element type in use.  The delta follows from the
\* other fields and the query; "image" has no counterpart: it tells the copies of an atom apart.
Elements  == [distanceSq : Int, index : Nat, image : Nat]
NoElement == [distanceSq |-> 0, index |-> 0, image |-> 0]

Kept == {heap[i] : i \in DOMAIN heap}

(* _comp *)
Less(a, b) == a.distanceSq < b.distanceSq

Full == Len(heap) = MaxSize

\* mutant: the last child of a heap of even size is never compared with its sibling
LargerChildOffByOne(j) ==
  IF 2 * j + 1 < Len(heap) /\ Less(heap[2 * j], heap[2 * j + 1]) THEN 2 * j + 1 ELSE 2 * j

LargerChild(j) ==
  IF 2 * j < Len(heap) /\ Less(heap[2 * j], heap[2 * j + 1]) THEN 2 * j + 1 ELSE 2 * j

Parent(j) == j \div 2

-----------------------------------------------------------------------------

QueueInit ==
  /\ heap = <<>> /\ mode = "idle" /\ offered = {}
  /\ hole = 1 /\ entering = NoElement

Clear ==
  /\ mode \in {"idle", "sorted"}
  /\ heap' = <<>> /\ offered' = {} /\ mode' = "idle"
  /\ UNCHANGED <<hole, entering>>

\* mutant: a full queue is not treated as one
InsertUnbounded(x) ==
  /\ mode = "idle"
  /\ offered' = offered \cup {x}
  /\ entering' = x
  /\ heap' = Append(heap, x) /\ hole' = Len(heap) + 1 /\ mode' = "up"

(* insert(), up to its loop: a full queue gives up its root for a smaller element *)
Insert(x) ==
  /\ mode = "idle"
  /\ offered' = offered \cup {x}
  /\ \/ /\ Full /\ Less(x, heap[1])
        /\ entering' = x /\ hole' = 1 /\ mode' = "down"
        /\ UNCHANGED heap
     \/ /\ Full /\ ~Less(x, heap[1])
        /\ UNCHANGED <<heap, mode, hole, entering>>
     \/ /\ ~Full
        /\ entering' = x /\ heap' = Append(heap, x) /\ hole' = Len(heap) + 1 /\ mode' = "up"

Sinks == 2 * hole <= Len(heap) /\ ~Less(heap[LargerChild(hole)], entering)
Rises == hole >= 2 /\ ~Less(entering, heap[Parent(hole)])

MoveHole(j) ==
  /\ heap' = [heap EXCEPT ![hole] = heap[j]]
  /\ hole' = j
  /\ UNCHANGED <<mode, entering, offered>>

SiftDown == mode = "down" /\ Sinks /\ MoveHole(LargerChild(hole))
SiftUp   == mode = "up" /\ Rises /\ MoveHole(Parent(hole))

Place ==
  /\ (mode = "down" /\ ~Sinks) \/ (mode = "up" /\ ~Rises)
  /\ heap' = [heap EXCEPT ![hole] = entering]
  /\ mode' = "idle"
  /\ UNCHANGED <<hole, entering, offered>>

Ascending(s)    == \A i, j \in DOMAIN s : i < j => ~Less(s[j], s[i])
Reorderings(n) == {p \in [1..n -> 1..n] : \A j \in 1..n : \E i \in 1..n : p[i] = j}

(* sort(): elements as large as each other come in any order.  The array is no heap then, *)
(* and callers clear the queue before the next insertion.                                 *)
Sort ==
  /\ mode = "idle"
  /\ mode' = "sorted"
  /\ \E p \in Reorderings(Len(heap)) : heap' = [i \in 1..Len(heap) |-> heap[p[i]]]
  /\ Ascending(heap')
  /\ UNCHANGED <<hole, entering, offered>>

QueueNext ==
  \/ Clear \/ SiftDown \/ SiftUp \/ Place \/ Sort
  \/ \E x \in Elements : Insert(x)

QueueSpec == QueueInit /\ [][QueueNext]_queueVars

-----------------------------------------------------------------------------
(* Properties *)

(* Types, the bound, and a hole inside the array *)
QueueTypeOK ==
  /\ heap \in Seq(Elements) /\ Len(heap) <= MaxSize
  /\ mode \in {"idle", "down", "up", "sorted"}
  /\ hole \in Nat \ {0} /\ entering \in Elements
  /\ offered \subseteq Elements
  /\ mode \in {"down", "up"} => hole <= Len(heap)

(* Between insertions, and after sort(), the queue holds the smallest of what it was     *)
(* offered: nothing is given up before the queue is full, and then nothing that is       *)
(* smaller than what stays.                                                              *)
KeepsSmallest ==
  mode \in {"idle", "sorted"} =>
    /\ Kept \subseteq offered
    /\ \A x \in offered \ Kept : Full /\ \A y \in Kept : ~Less(x, y)

(* No element is larger than its parent: top() is the largest, as those who prune by it rely on *)
HeapOrdered ==
  mode = "idle" => \A i \in DOMAIN heap : i >= 2 => ~Less(heap[Parent(i)], heap[i])

(* Both: an insertion into a heap of any size evicts the right element, and leaves a heap *)
HeapHoldsSmallest == KeepsSmallest /\ HeapOrdered
===============================================================================
