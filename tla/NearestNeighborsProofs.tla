------------------------ MODULE NearestNeighborsProofs ------------------------
(***************************************************************************)
(* A query finds the nearest atoms although it skips far subtrees, for any *)
(* cells of up to three axes, atoms, bucket sizes and depths; and the      *)
(* bounded queue it fills keeps the smallest of what it is offered.        *)
(*                                                                         *)
(* The queue: HeapHoldsSmallest speaks of it between insertions.  HoleInv  *)
(* says what holds while the hole moves: everything off the hole is in     *)
(* heap order, what is above the hole is no smaller than what is below it, *)
(* and the new element fits on the side the hole comes from.  Settled is   *)
(* what the queue will hold when the hole is filled; moving it changes     *)
(* nothing in that set.  Distinct: no element takes two places.            *)
(*                                                                         *)
(* The finder: TreeInv says that the tree is binary, that the box of a     *)
(* node holds every atom the way to it lets through, and that the leaves   *)
(* divide the atoms inserted among them.  SearchInv says of each copy of   *)
(* an atom in the images passed that it was offered, is still to come, or  *)
(* is beaten by as many as the queue can hold.                             *)
(***************************************************************************)
EXTENDS NearestNeighbors, FiniteSetTheorems, TLAPS

Leq(a, b) == a.distanceSq <= b.distanceSq

Sifting == mode \in {"down", "up"}

Settled == {heap[i] : i \in DOMAIN heap \ {hole}} \cup {entering}

HoleInv ==
  Sifting =>
    /\ \A i \in DOMAIN heap : i >= 2 /\ i # hole /\ Parent(i) # hole => Leq(heap[i], heap[Parent(i)])
    /\ \A i \in DOMAIN heap : i >= 2 /\ Parent(i) = hole /\ hole >= 2 => Leq(heap[i], heap[Parent(hole)])
    /\ mode = "down" /\ hole >= 2 => Leq(entering, heap[Parent(hole)])
    /\ mode = "up" => \A i \in DOMAIN heap : i >= 2 /\ Parent(i) = hole => Leq(heap[i], entering)

SettledInv ==
  Sifting =>
    /\ Settled \subseteq offered
    /\ \A x \in offered \ Settled : Full /\ \A y \in Settled : Leq(y, x)

QueueInv == QueueTypeOK /\ HeapHoldsSmallest /\ HoleInv /\ SettledInv

-----------------------------------------------------------------------------
(* Elements and places *)

LEMMA ElementsType == NoElement \in Elements /\ \A e \in Elements : e.distanceSq \in Int
  BY DEF Elements, NoElement

LEMMA LessIsTotal ==
  ASSUME NEW a \in Elements, NEW b \in Elements
  PROVE  (~Less(a, b) <=> Leq(b, a)) /\ (Less(a, b) => Leq(a, b))
  BY ElementsType DEF Less, Leq

LEMMA LeqTransitive ==
  ASSUME NEW a \in Elements, NEW b \in Elements, NEW c \in Elements, Leq(a, b), Leq(b, c)
  PROVE  Leq(a, c)
  BY ElementsType DEF Leq

LEMMA ParentPlace ==
  ASSUME NEW j \in Nat, j >= 2
  PROVE  /\ Parent(j) \in Nat \ {0} /\ Parent(j) < j
         /\ j = 2 * Parent(j) \/ j = 2 * Parent(j) + 1
  BY DEF Parent

LEMMA ChildPlace ==
  ASSUME NEW h \in Nat \ {0}
  PROVE  Parent(2 * h) = h /\ Parent(2 * h + 1) = h
  BY DEF Parent

LEMMA HeapElements ==
  ASSUME QueueTypeOK
  PROVE  /\ heap \in Seq(Elements) /\ Len(heap) \in Nat /\ DOMAIN heap = 1..Len(heap)
         /\ \A i \in DOMAIN heap : heap[i] \in Elements
         /\ entering \in Elements /\ hole \in Nat \ {0}
         /\ Sifting => hole \in DOMAIN heap
  BY DEF QueueTypeOK, Sifting

LEMMA SameValues ==
  ASSUME NEW f, NEW g, NEW S,
         \A i \in S : \E j \in S : f[i] = g[j],
         \A j \in S : \E i \in S : f[i] = g[j]
  PROVE  {f[i] : i \in S} = {g[j] : j \in S}
  OBVIOUS

\* The root is the largest: the first place that held something larger would have a parent
\* that is larger too.
LEMMA RootIsLargest ==
  ASSUME QueueTypeOK, HeapOrdered, mode = "idle", NEW n \in DOMAIN heap
  PROVE  Leq(heap[n], heap[1])
  <1> DEFINE T == {i \in DOMAIN heap : ~Leq(heap[i], heap[1])}
  <1>1. SUFFICES ASSUME T # {} PROVE FALSE
    OBVIOUS
  <1>2. T \subseteq Nat /\ 1 \in DOMAIN heap
    BY HeapElements
  <1>3. PICK m \in T : \A k \in T : ~(<<k, m>> \in OpToRel(<, Nat))
    <2> HIDE DEF T
    <2> QED BY <1>1, <1>2, NatLessThanWellFounded, WFMin
  <1>4. \A k \in T : ~(k < m)
    BY <1>2, <1>3 DEF OpToRel
  <1>5. m \in Nat /\ m >= 2
    BY HeapElements, ElementsType DEF Leq
  <1>6. Parent(m) \in DOMAIN heap /\ Parent(m) < m
    BY <1>5, ParentPlace, HeapElements
  <1>7. Leq(heap[Parent(m)], heap[1])
    BY <1>4, <1>6
  <1>8. Leq(heap[m], heap[Parent(m)])
    BY <1>5, <1>6, HeapElements, LessIsTotal DEF HeapOrdered
  <1>9. QED
    BY <1>2, <1>6, <1>7, <1>8, HeapElements, LeqTransitive

\* The child the hole may move to is in the heap, and no smaller than its sibling.
LEMMA LargerChildPlace ==
  ASSUME QueueTypeOK, NEW h \in Nat \ {0}, 2 * h <= Len(heap)
  PROVE  /\ LargerChild(h) \in DOMAIN heap /\ LargerChild(h) \in {2 * h, 2 * h + 1}
         /\ Parent(LargerChild(h)) = h
         /\ \A i \in DOMAIN heap : i >= 2 /\ Parent(i) = h => Leq(heap[i], heap[LargerChild(h)])
  <1>1. LargerChild(h) \in {2 * h, 2 * h + 1} /\ LargerChild(h) \in DOMAIN heap
    BY HeapElements DEF LargerChild
  <1>2. Parent(LargerChild(h)) = h
    BY <1>1, ChildPlace
  <1>3. ASSUME NEW i \in DOMAIN heap, i >= 2, Parent(i) = h
        PROVE  Leq(heap[i], heap[LargerChild(h)])
    <2>1. i = 2 * h \/ i = 2 * h + 1
      <3>1. i \in Nat
        BY HeapElements
      <3>2. QED
        BY <1>3, <3>1, ParentPlace
    <2>2. heap[2 * h] \in Elements /\ (2 * h < Len(heap) => heap[2 * h + 1] \in Elements)
      BY HeapElements
    <2>3. QED
      BY <2>1, <2>2, HeapElements, LessIsTotal, ElementsType DEF LargerChild, Leq
  <1>4. QED
    BY <1>1, <1>2, <1>3

-----------------------------------------------------------------------------
(* The hole moves *)

\* Whatever place next to it the hole moves to, the same elements are left.
LEMMA MoveKeepsSettled ==
  ASSUME QueueInv, Sifting, NEW j \in DOMAIN heap, j # hole, MoveHole(j)
  PROVE  QueueTypeOK' /\ SettledInv' /\ HeapHoldsSmallest'
  <1>1. /\ heap \in Seq(Elements) /\ hole \in DOMAIN heap /\ DOMAIN heap = 1..Len(heap)
        /\ heap[j] \in Elements /\ j \in Nat \ {0}
    BY HeapElements DEF QueueInv
  <1>2. /\ heap' = [heap EXCEPT ![hole] = heap[j]] /\ hole' = j
        /\ mode' = mode /\ entering' = entering /\ offered' = offered
    BY DEF MoveHole
  <1>3. heap' \in Seq(Elements) /\ Len(heap') = Len(heap) /\ DOMAIN heap' = DOMAIN heap
    BY <1>1, <1>2
  <1>4. QueueTypeOK'
    BY <1>1, <1>2, <1>3 DEF QueueInv, QueueTypeOK, Sifting
  <1>5. Settled' = Settled
    <2>1. \A i \in DOMAIN heap' \ {hole'} :
            \E k \in DOMAIN heap \ {hole} : heap'[i] = heap[k]
      BY <1>1, <1>2, <1>3
    <2>2. \A k \in DOMAIN heap \ {hole} :
            \E i \in DOMAIN heap' \ {hole'} : heap'[i] = heap[k]
      <3> TAKE k \in DOMAIN heap \ {hole}
      <3>1. CASE k = j
        <4>1. hole \in DOMAIN heap' \ {hole'} /\ heap'[hole] = heap[k]
          BY <3>1, <1>1, <1>2, <1>3
        <4>2. QED
          BY <4>1
      <3>2. CASE k # j
        <4>1. k \in DOMAIN heap' \ {hole'} /\ heap'[k] = heap[k]
          BY <3>2, <1>1, <1>2, <1>3
        <4>2. QED
          BY <4>1
      <3>3. QED
        BY <3>1, <3>2
    <2>3. {heap'[i] : i \in DOMAIN heap' \ {hole'}} = {heap[k] : k \in DOMAIN heap \ {hole}}
      BY <2>1, <2>2
    <2>4. QED
      BY <2>3, <1>2 DEF Settled
  <1>6. SettledInv'
    BY <1>2, <1>3, <1>5 DEF QueueInv, SettledInv, Sifting, Full
  <1>7. HeapHoldsSmallest'
    BY <1>2 DEF Sifting, HeapHoldsSmallest, KeepsSmallest, HeapOrdered
  <1>8. QED
    BY <1>4, <1>6, <1>7

LEMMA SiftDownKeeps ==
  ASSUME QueueInv, SiftDown
  PROVE  QueueInv'
  <1> DEFINE j == LargerChild(hole)
  <1>1. /\ mode = "down" /\ Sifting /\ 2 * hole <= Len(heap) /\ ~Less(heap[j], entering) /\ MoveHole(j)
    BY DEF SiftDown, Sinks, Sifting
  <1>2. /\ heap \in Seq(Elements) /\ hole \in DOMAIN heap /\ DOMAIN heap = 1..Len(heap) /\ Len(heap) \in Nat
        /\ \A i \in DOMAIN heap : heap[i] \in Elements
        /\ entering \in Elements /\ hole \in Nat \ {0}
    BY <1>1, HeapElements DEF QueueInv
  <1>3. /\ j \in DOMAIN heap /\ j \in {2 * hole, 2 * hole + 1} /\ Parent(j) = hole
        /\ \A i \in DOMAIN heap : i >= 2 /\ Parent(i) = hole => Leq(heap[i], heap[j])
    BY <1>1, <1>2, LargerChildPlace DEF QueueInv
  <1>4. j # hole /\ j \in Nat /\ j >= 2
    BY <1>2, <1>3
  <1>5. /\ heap' = [heap EXCEPT ![hole] = heap[j]] /\ hole' = j
        /\ mode' = "down" /\ entering' = entering
    BY <1>1 DEF MoveHole
  <1>6. QueueTypeOK' /\ SettledInv' /\ HeapHoldsSmallest'
    <2> HIDE DEF j
    <2> QED BY <1>1, <1>3, <1>4, MoveKeepsSettled
  <1>7. /\ DOMAIN heap' = DOMAIN heap /\ heap'[hole] = heap[j]
        /\ \A i \in DOMAIN heap : i # hole => heap'[i] = heap[i]
    BY <1>2, <1>5
  <1>8. Leq(entering, heap[j])
    BY <1>1, <1>2, <1>3, LessIsTotal
  <1> HIDE DEF j
  <1>9. ASSUME NEW i \in DOMAIN heap', i >= 2, i # hole', Parent(i) # hole'
        PROVE  Leq(heap'[i], heap'[Parent(i)])
    <2>1. i \in DOMAIN heap /\ i \in Nat /\ i # j /\ Parent(i) # j
      BY <1>2, <1>5, <1>7, <1>9
    <2>2. Parent(i) \in DOMAIN heap /\ Parent(i) < i
      BY <1>2, <1>9, <2>1, ParentPlace
    <2>3. CASE i = hole
      BY <1>1, <1>3, <1>4, <1>7, <1>9, <2>2, <2>3 DEF QueueInv, HoleInv
    <2>4. CASE i # hole /\ Parent(i) = hole
      BY <1>3, <1>7, <1>9, <2>1, <2>4
    <2>5. CASE i # hole /\ Parent(i) # hole
      BY <1>1, <1>7, <1>9, <2>1, <2>2, <2>5 DEF QueueInv, HoleInv
    <2>6. QED
      BY <2>3, <2>4, <2>5
  <1>10. ASSUME NEW i \in DOMAIN heap', i >= 2, Parent(i) = hole'
         PROVE  Leq(heap'[i], heap'[Parent(hole')])
    <2>1. i \in DOMAIN heap /\ i \in Nat /\ Parent(i) = j
      BY <1>2, <1>5, <1>7, <1>10
    <2>2. i > j /\ i # hole /\ Parent(i) # hole
      BY <1>2, <1>3, <1>4, <1>10, <2>1, ParentPlace
    <2>3. Leq(heap[i], heap[j])
      BY <1>1, <1>10, <2>1, <2>2 DEF QueueInv, HoleInv
    <2>4. heap'[i] = heap[i] /\ heap'[Parent(hole')] = heap[j]
      BY <1>3, <1>5, <1>7, <2>1, <2>2
    <2>5. QED
      BY <2>3, <2>4
  <1>11. Leq(entering', heap'[Parent(hole')])
    BY <1>3, <1>5, <1>7, <1>8
  <1>12. HoleInv'
    BY <1>5, <1>9, <1>10, <1>11 DEF HoleInv
  <1>13. QED
    BY <1>6, <1>12 DEF QueueInv

LEMMA SiftUpKeeps ==
  ASSUME QueueInv, SiftUp
  PROVE  QueueInv'
  <1> DEFINE j == Parent(hole)
  <1>1. mode = "up" /\ Sifting /\ hole >= 2 /\ ~Less(entering, heap[j]) /\ MoveHole(j)
    BY DEF SiftUp, Rises, Sifting
  <1>2. /\ heap \in Seq(Elements) /\ hole \in DOMAIN heap /\ DOMAIN heap = 1..Len(heap) /\ Len(heap) \in Nat
        /\ \A i \in DOMAIN heap : heap[i] \in Elements
        /\ entering \in Elements /\ hole \in Nat \ {0}
    BY <1>1, HeapElements DEF QueueInv
  <1>3. j \in Nat \ {0} /\ j < hole /\ j \in DOMAIN heap
    BY <1>1, <1>2, ParentPlace
  <1>5. /\ heap' = [heap EXCEPT ![hole] = heap[j]] /\ hole' = j
        /\ mode' = "up" /\ entering' = entering
    BY <1>1 DEF MoveHole
  <1>6. QueueTypeOK' /\ SettledInv' /\ HeapHoldsSmallest'
    <2> HIDE DEF j
    <2> QED BY <1>1, <1>3, MoveKeepsSettled
  <1>7. /\ DOMAIN heap' = DOMAIN heap /\ heap'[hole] = heap[j]
        /\ \A i \in DOMAIN heap : i # hole => heap'[i] = heap[i]
    BY <1>2, <1>5
  <1>8. Leq(heap[j], entering)
    BY <1>1, <1>2, <1>3, LessIsTotal
  <1>9. Parent(hole) = j
    OBVIOUS
  <1> HIDE DEF j
  <1>10. ASSUME NEW i \in DOMAIN heap', i >= 2, i # hole', Parent(i) # hole'
         PROVE  Leq(heap'[i], heap'[Parent(i)])
    <2>1. i \in DOMAIN heap /\ i \in Nat /\ i # j /\ Parent(i) # j
      BY <1>2, <1>5, <1>7, <1>10
    <2>2. Parent(i) \in DOMAIN heap /\ Parent(i) < i /\ i # hole
      BY <1>2, <1>9, <1>10, <2>1, ParentPlace
    <2>3. CASE Parent(i) = hole
      <3>1. Leq(heap[i], heap[j])
        BY <1>1, <1>9, <1>10, <2>1, <2>3 DEF QueueInv, HoleInv
      <3>2. QED
        BY <1>7, <2>1, <2>2, <2>3, <3>1
    <2>4. CASE Parent(i) # hole
      BY <1>1, <1>7, <1>10, <2>1, <2>2, <2>4 DEF QueueInv, HoleInv
    <2>5. QED
      BY <2>3, <2>4
  <1>11. ASSUME NEW i \in DOMAIN heap', i >= 2, Parent(i) = hole'
         PROVE  /\ Leq(heap'[i], entering')
                /\ hole' >= 2 => Leq(heap'[i], heap'[Parent(hole')])
    <2>1. i \in DOMAIN heap /\ i \in Nat /\ Parent(i) = j
      BY <1>2, <1>5, <1>7, <1>11
    <2>2. Leq(heap'[i], heap[j])
      <3>1. CASE i = hole
        BY <1>2, <1>3, <1>7, <3>1, ElementsType DEF Leq
      <3>2. CASE i # hole
        BY <1>1, <1>3, <1>7, <1>11, <2>1, <3>2 DEF QueueInv, HoleInv
      <3>3. QED
        BY <3>1, <3>2
    <2>3. heap'[i] \in Elements
      BY <1>2, <1>3, <1>7, <2>1
    <2>4. Leq(heap'[i], entering')
      BY <1>2, <1>3, <1>5, <1>8, <2>2, <2>3, LeqTransitive
    <2>5. ASSUME hole' >= 2
          PROVE  Leq(heap'[i], heap'[Parent(hole')])
      <3>1. Parent(j) \in DOMAIN heap /\ Parent(j) < j /\ j >= 2 /\ Parent(j) # hole
        BY <1>2, <1>3, <1>5, <2>5, ParentPlace
      <3>2. Leq(heap[j], heap[Parent(j)])
        BY <1>1, <1>2, <1>3, <3>1 DEF QueueInv, HoleInv
      <3>3. heap'[Parent(hole')] = heap[Parent(j)]
        BY <1>2, <1>3, <1>5, <1>7, <3>1
      <3>4. QED
        BY <1>2, <1>3, <2>2, <2>3, <3>1, <3>2, <3>3, LeqTransitive
    <2>6. QED
      BY <2>4, <2>5
  <1>12. HoleInv'
    BY <1>5, <1>10, <1>11 DEF HoleInv
  <1>13. QED
    BY <1>6, <1>12 DEF QueueInv

\* Filling the hole where neither side objects leaves a heap of what was settled.
LEMMA PlaceKeeps ==
  ASSUME QueueInv, Place
  PROVE  QueueInv'
  <1>1. /\ Sifting /\ heap' = [heap EXCEPT ![hole] = entering] /\ mode' = "idle"
        /\ hole' = hole /\ entering' = entering /\ offered' = offered
    BY DEF Place, Sifting
  <1>2. /\ heap \in Seq(Elements) /\ hole \in DOMAIN heap /\ DOMAIN heap = 1..Len(heap) /\ Len(heap) \in Nat
        /\ \A i \in DOMAIN heap : heap[i] \in Elements
        /\ entering \in Elements /\ hole \in Nat \ {0}
    BY <1>1, HeapElements DEF QueueInv
  <1>3. /\ heap' \in Seq(Elements) /\ Len(heap') = Len(heap) /\ DOMAIN heap' = DOMAIN heap
        /\ heap'[hole] = entering
        /\ \A i \in DOMAIN heap : i # hole => heap'[i] = heap[i]
    BY <1>1, <1>2
  <1>4. QueueTypeOK'
    BY <1>1, <1>2, <1>3 DEF QueueInv, QueueTypeOK
  <1>5. \A i \in DOMAIN heap : i >= 2 /\ Parent(i) = hole => Leq(heap[i], entering)
    <2>1. CASE mode = "up"
      BY <1>1, <2>1 DEF QueueInv, HoleInv
    <2>2. CASE mode = "down"
      <3> SUFFICES ASSUME NEW i \in DOMAIN heap, i >= 2, Parent(i) = hole
                   PROVE  Leq(heap[i], entering)
        OBVIOUS
      <3>1. 2 * hole <= Len(heap)
        BY <1>2, ParentPlace
      <3>2. LargerChild(hole) \in DOMAIN heap /\ Leq(heap[i], heap[LargerChild(hole)])
        BY <1>2, <3>1, LargerChildPlace DEF QueueInv
      <3>3. Less(heap[LargerChild(hole)], entering)
        BY <2>2, <3>1 DEF Place, Sinks
      <3>4. QED
        BY <1>2, <3>2, <3>3, LessIsTotal, LeqTransitive
    <2>3. QED
      BY <1>1, <2>1, <2>2 DEF Sifting
  <1>6. hole >= 2 => Leq(entering, heap[Parent(hole)])
    <2> SUFFICES ASSUME hole >= 2 PROVE Leq(entering, heap[Parent(hole)])
      OBVIOUS
    <2>1. CASE mode = "down"
      BY <1>1, <2>1 DEF QueueInv, HoleInv
    <2>2. CASE mode = "up"
      <3>1. Less(entering, heap[Parent(hole)])
        BY <2>2 DEF Place, Rises
      <3>2. Parent(hole) \in DOMAIN heap
        BY <1>2, ParentPlace
      <3>3. QED
        BY <1>2, <3>1, <3>2, LessIsTotal
    <2>3. QED
      BY <1>1, <2>1, <2>2 DEF Sifting
  <1>7. HeapOrdered'
    <2> SUFFICES ASSUME NEW i \in DOMAIN heap', i >= 2
                 PROVE  ~Less(heap'[Parent(i)], heap'[i])
      BY DEF HeapOrdered
    <2>1. i \in DOMAIN heap /\ i \in Nat /\ Parent(i) \in DOMAIN heap /\ Parent(i) < i
      BY <1>2, <1>3, ParentPlace
    <2>2. heap'[i] \in Elements /\ heap'[Parent(i)] \in Elements
      BY <1>2, <1>3, <2>1
    <2>3. Leq(heap'[i], heap'[Parent(i)])
      <3>1. CASE i = hole
        BY <1>3, <1>6, <2>1, <3>1
      <3>2. CASE Parent(i) = hole
        BY <1>3, <1>5, <2>1, <3>2
      <3>3. CASE i # hole /\ Parent(i) # hole
        BY <1>1, <1>3, <2>1, <3>3 DEF QueueInv, HoleInv
      <3>4. QED
        BY <3>1, <3>2, <3>3
    <2>4. QED
      BY <2>2, <2>3, LessIsTotal
  <1>8. Kept' = Settled
    <2>1. Kept' = {heap'[i] : i \in DOMAIN heap}
      BY <1>3 DEF Kept
    <2>2. QED
      BY <1>2, <1>3, <2>1 DEF Settled
  <1>9. KeepsSmallest'
    <2>1. Settled \subseteq Elements
      BY <1>2 DEF Settled
    <2>2. offered \subseteq Elements
      BY DEF QueueInv, QueueTypeOK
    <2>3. Kept' \subseteq offered'
      BY <1>1, <1>8 DEF QueueInv, SettledInv
    <2>4. ASSUME NEW x \in offered' \ Kept'
          PROVE  Full' /\ \A y \in Kept' : ~Less(x, y)
      <3>1. x \in offered \ Settled
        BY <1>1, <1>8
      <3>2. Full /\ \A y \in Settled : Leq(y, x)
        BY <1>1, <3>1 DEF QueueInv, SettledInv
      <3>3. QED
        BY <1>3, <1>8, <2>1, <2>2, <3>1, <3>2, LessIsTotal DEF Full
    <2>5. QED
      BY <2>3, <2>4 DEF KeepsSmallest
  <1>10. HoleInv' /\ SettledInv'
    BY <1>1 DEF HoleInv, SettledInv, Sifting
  <1>11. QED
    BY <1>4, <1>7, <1>9, <1>10 DEF QueueInv, HeapHoldsSmallest

-----------------------------------------------------------------------------
(* The other operations *)

LEMMA ClearKeeps ==
  ASSUME QueueInv, Clear
  PROVE  QueueInv'
  <1>1. heap' = <<>> /\ offered' = {} /\ mode' = "idle" /\ hole' = hole /\ entering' = entering
    BY DEF Clear
  <1>2. heap' \in Seq(Elements) /\ Len(heap') = 0 /\ DOMAIN heap' = {}
    BY <1>1
  <1>3. QueueTypeOK'
    BY <1>1, <1>2, MaxSizeAssumption DEF QueueInv, QueueTypeOK
  <1>4. HeapHoldsSmallest'
    BY <1>1, <1>2 DEF HeapHoldsSmallest, KeepsSmallest, HeapOrdered, Kept
  <1>5. HoleInv' /\ SettledInv'
    BY <1>1 DEF HoleInv, SettledInv, Sifting
  <1>6. QED
    BY <1>3, <1>4, <1>5 DEF QueueInv

\* A full queue gives up its root, which nothing it keeps exceeds.
LEMMA InsertDownKeeps ==
  ASSUME QueueInv, NEW x \in Elements, mode = "idle", Full, Less(x, heap[1]),
         offered' = offered \cup {x}, entering' = x, hole' = 1, mode' = "down", heap' = heap
  PROVE  QueueInv'
  <1>1. /\ heap \in Seq(Elements) /\ DOMAIN heap = 1..Len(heap) /\ Len(heap) \in Nat
        /\ \A i \in DOMAIN heap : heap[i] \in Elements
        /\ Len(heap) = MaxSize /\ 1 \in DOMAIN heap
    BY HeapElements, MaxSizeAssumption DEF QueueInv, Full
  <1>2. QueueTypeOK'
    BY <1>1, MaxSizeAssumption DEF QueueInv, QueueTypeOK
  <1>3. HeapHoldsSmallest'
    BY DEF HeapHoldsSmallest, KeepsSmallest, HeapOrdered
  <1>4. Sifting' /\ Full'
    BY <1>1 DEF Sifting, Full
  <1>5. HoleInv'
    <2>1. ASSUME NEW i \in DOMAIN heap', i >= 2, i # hole', Parent(i) # hole'
          PROVE  Leq(heap'[i], heap'[Parent(i)])
      <3>1. i \in DOMAIN heap /\ i \in Nat /\ Parent(i) \in DOMAIN heap
        BY <1>1, <2>1, ParentPlace
      <3>2. ~Less(heap[Parent(i)], heap[i])
        BY <2>1, <3>1 DEF QueueInv, HeapHoldsSmallest, HeapOrdered
      <3>3. QED
        BY <1>1, <3>1, <3>2, LessIsTotal
    <2>2. QED
      BY <2>1 DEF HoleInv
  <1>6. SettledInv'
    <2> DEFINE Others == {heap[i] : i \in DOMAIN heap \ {1}}
    <2>1. Settled' = Others \cup {x} /\ Kept = Others \cup {heap[1]}
      BY <1>1 DEF Settled, Kept
    <2>2. \A y \in Kept : y \in Elements /\ Leq(y, heap[1])
      BY <1>1, RootIsLargest DEF Kept, QueueInv, HeapHoldsSmallest
    <2>3. /\ Kept \subseteq offered /\ offered \subseteq Elements
          /\ \A z \in offered \ Kept : \A y \in Kept : ~Less(z, y)
      BY DEF QueueInv, QueueTypeOK, HeapHoldsSmallest, KeepsSmallest
    <2> HIDE DEF Others
    <2>4. Settled' \subseteq offered'
      BY <2>1, <2>3
    <2>5. ASSUME NEW z \in offered' \ Settled', NEW y \in Settled'
          PROVE  Leq(y, z)
      <3>1. z \in offered /\ z \in Elements /\ z \notin Others
        BY <2>1, <2>3
      <3>2. Leq(heap[1], z)
        <4>1. CASE z \in Kept
          <5>1. z = heap[1]
            BY <2>1, <3>1, <4>1
          <5>2. QED
            BY <1>1, <5>1, RootIsLargest DEF QueueInv, HeapHoldsSmallest
        <4>2. CASE z \notin Kept
          <5>1. ~Less(z, heap[1])
            BY <2>1, <2>3, <3>1, <4>2
          <5>2. QED
            BY <1>1, <3>1, <5>1, LessIsTotal
        <4>3. QED
          BY <4>1, <4>2
      <3>3. y \in Elements /\ Leq(y, heap[1])
        BY <1>1, <2>1, <2>2, LessIsTotal
      <3>4. QED
        BY <1>1, <3>1, <3>2, <3>3, LeqTransitive
    <2>6. QED
      BY <1>4, <2>4, <2>5 DEF SettledInv
  <1>7. QED
    BY <1>2, <1>3, <1>5, <1>6 DEF QueueInv

\* A queue that is not full has given up nothing, and takes the element in at the end.
LEMMA InsertUpKeeps ==
  ASSUME QueueInv, NEW x \in Elements, mode = "idle", ~Full,
         offered' = offered \cup {x}, entering' = x, hole' = Len(heap) + 1, mode' = "up",
         heap' = Append(heap, x)
  PROVE  QueueInv'
  <1>1. /\ heap \in Seq(Elements) /\ DOMAIN heap = 1..Len(heap) /\ Len(heap) \in Nat
        /\ \A i \in DOMAIN heap : heap[i] \in Elements
        /\ Len(heap) < MaxSize
    BY HeapElements, MaxSizeAssumption DEF QueueInv, QueueTypeOK, Full
  <1>2. /\ heap' \in Seq(Elements) /\ Len(heap') = Len(heap) + 1 /\ DOMAIN heap' = 1..(Len(heap) + 1)
        /\ \A i \in DOMAIN heap : heap'[i] = heap[i]
    BY <1>1
  <1>3. QueueTypeOK'
    BY <1>1, <1>2, MaxSizeAssumption DEF QueueInv, QueueTypeOK
  <1>4. HeapHoldsSmallest'
    BY DEF HeapHoldsSmallest, KeepsSmallest, HeapOrdered
  <1>5. \A i \in DOMAIN heap' : i >= 2 => Parent(i) # hole' /\ Parent(i) \in DOMAIN heap /\ i \in Nat
    BY <1>1, <1>2, ParentPlace
  <1>6. HoleInv'
    <2>1. ASSUME NEW i \in DOMAIN heap', i >= 2, i # hole', Parent(i) # hole'
          PROVE  Leq(heap'[i], heap'[Parent(i)])
      <3>1. i \in DOMAIN heap /\ Parent(i) \in DOMAIN heap
        BY <1>1, <1>2, <1>5, <2>1
      <3>2. ~Less(heap[Parent(i)], heap[i])
        BY <2>1, <3>1 DEF QueueInv, HeapHoldsSmallest, HeapOrdered
      <3>3. QED
        BY <1>1, <1>2, <3>1, <3>2, LessIsTotal
    <2>2. QED
      BY <1>5, <2>1 DEF HoleInv
  <1>7. SettledInv'
    <2>1. Settled' = Kept \cup {x}
      BY <1>1, <1>2 DEF Settled, Kept
    <2>2. Kept \subseteq offered /\ offered \subseteq Kept
      BY DEF QueueInv, HeapHoldsSmallest, KeepsSmallest
    <2>3. Settled' = offered'
      BY <2>1, <2>2
    <2>4. QED
      BY <2>3 DEF SettledInv
  <1>8. QED
    BY <1>3, <1>4, <1>6, <1>7 DEF QueueInv

\* What a full queue turns down is no smaller than its root, and so than all it keeps.
LEMMA InsertRefusedKeeps ==
  ASSUME QueueInv, NEW x \in Elements, mode = "idle", Full, ~Less(x, heap[1]),
         offered' = offered \cup {x}, UNCHANGED <<heap, mode, hole, entering>>
  PROVE  QueueInv'
  <1>1. /\ \A i \in DOMAIN heap : heap[i] \in Elements
        /\ 1 \in DOMAIN heap
    BY HeapElements, MaxSizeAssumption DEF QueueInv, Full
  <1>2. QueueTypeOK'
    BY DEF QueueInv, QueueTypeOK
  <1>3. HoleInv' /\ SettledInv'
    BY DEF HoleInv, SettledInv, Sifting
  <1>4. HeapOrdered'
    BY DEF QueueInv, HeapHoldsSmallest, HeapOrdered
  <1>5. \A y \in Kept : ~Less(x, y)
    <2> SUFFICES ASSUME NEW i \in DOMAIN heap PROVE ~Less(x, heap[i])
      BY DEF Kept
    <2>1. Leq(heap[i], heap[1]) /\ Leq(heap[1], x)
      BY <1>1, RootIsLargest, LessIsTotal DEF QueueInv, HeapHoldsSmallest
    <2>2. Leq(heap[i], x)
      BY <1>1, <2>1, LeqTransitive
    <2>3. QED
      BY <1>1, <2>2, LessIsTotal
  <1>6. KeepsSmallest'
    <2>1. Kept' = Kept /\ Full'
      BY DEF Kept, Full
    <2>2. QED
      BY <1>5, <2>1 DEF QueueInv, HeapHoldsSmallest, KeepsSmallest
  <1>7. QED
    BY <1>2, <1>3, <1>4, <1>6 DEF QueueInv, HeapHoldsSmallest

LEMMA InsertKeeps ==
  ASSUME QueueInv, NEW x \in Elements, Insert(x)
  PROVE  QueueInv'
  <1>1. CASE Full /\ Less(x, heap[1])
    BY <1>1, InsertDownKeeps DEF Insert
  <1>2. CASE Full /\ ~Less(x, heap[1])
    BY <1>2, InsertRefusedKeeps DEF Insert
  <1>3. CASE ~Full
    BY <1>3, InsertUpKeeps DEF Insert
  <1>4. QED
    BY <1>1, <1>2, <1>3

LEMMA SortKeeps ==
  ASSUME QueueInv, Sort
  PROVE  QueueInv'
  <1>1. PICK p \in Reorderings(Len(heap)) : heap' = [i \in 1..Len(heap) |-> heap[p[i]]]
    BY DEF Sort
  <1>2. mode = "idle" /\ mode' = "sorted" /\ hole' = hole /\ entering' = entering /\ offered' = offered
    BY DEF Sort
  <1>3. /\ heap \in Seq(Elements) /\ DOMAIN heap = 1..Len(heap) /\ Len(heap) \in Nat
        /\ \A i \in DOMAIN heap : heap[i] \in Elements
    BY HeapElements DEF QueueInv
  <1>4. p \in [1..Len(heap) -> 1..Len(heap)] /\ \A j \in 1..Len(heap) : \E i \in 1..Len(heap) : p[i] = j
    BY DEF Reorderings
  <1>5. heap' \in [1..Len(heap) -> Elements]
    BY <1>1, <1>3, <1>4
  <1>6. heap' \in Seq(Elements) /\ Len(heap') = Len(heap) /\ DOMAIN heap' = DOMAIN heap
    BY <1>3, <1>5
  <1>7. Kept' = Kept
    <2>1. \A i \in DOMAIN heap : heap'[i] = heap[p[i]] /\ p[i] \in DOMAIN heap
      BY <1>1, <1>3, <1>4
    <2>2. \A j \in DOMAIN heap : \E i \in DOMAIN heap : heap'[i] = heap[j]
      <3> TAKE j \in DOMAIN heap
      <3>1. PICK i \in 1..Len(heap) : p[i] = j
        BY <1>3, <1>4
      <3>2. i \in DOMAIN heap /\ heap'[i] = heap[j]
        BY <1>3, <2>1, <3>1
      <3>3. QED
        BY <3>2
    <2>3. \A i \in DOMAIN heap : \E j \in DOMAIN heap : heap'[i] = heap[j]
      BY <2>1
    <2>4. {heap'[i] : i \in DOMAIN heap} = {heap[j] : j \in DOMAIN heap}
      <3> DEFINE D == DOMAIN heap
      <3>1. (\A i \in D : \E j \in D : heap'[i] = heap[j]) /\ (\A j \in D : \E i \in D : heap'[i] = heap[j])
        BY <2>2, <2>3
      <3> HIDE DEF D
      <3>2. {heap'[i] : i \in D} = {heap[j] : j \in D}
        BY <3>1, SameValues
      <3>3. QED
        BY <3>2 DEF D
    <2>5. Kept' = {heap'[i] : i \in DOMAIN heap}
      BY <1>6 DEF Kept
    <2>6. Kept = {heap[j] : j \in DOMAIN heap}
      BY DEF Kept
    <2>7. QED
      BY <2>4, <2>5, <2>6
  <1>8. QueueTypeOK'
    <2>1. /\ Len(heap) <= MaxSize /\ hole \in Nat \ {0}
          /\ entering \in Elements /\ offered \subseteq Elements
      BY DEF QueueInv, QueueTypeOK
    <2>2. heap' \in Seq(Elements) /\ Len(heap') <= MaxSize
      BY <1>6, <2>1
    <2>3. mode' \in {"idle", "down", "up", "sorted"} /\ mode' \notin {"down", "up"}
      BY <1>2
    <2>4. QED
      BY <1>2, <2>1, <2>2, <2>3 DEF QueueTypeOK
  <1>9. HeapHoldsSmallest'
    <2>1. Full' <=> Full
      BY <1>6 DEF Full
    <2>2. KeepsSmallest'
      BY <1>2, <1>7, <2>1 DEF QueueInv, HeapHoldsSmallest, KeepsSmallest
    <2>3. HeapOrdered'
      BY <1>2 DEF HeapOrdered
    <2>4. QED
      BY <2>2, <2>3 DEF HeapHoldsSmallest
  <1>10. HoleInv' /\ SettledInv'
    BY <1>2 DEF HoleInv, SettledInv, Sifting
  <1>11. QED
    BY <1>8, <1>9, <1>10 DEF QueueInv

LEMMA QueueInvInductive == QueueInv /\ [QueueNext]_queueVars => QueueInv'
  <1> SUFFICES ASSUME QueueInv, [QueueNext]_queueVars PROVE QueueInv'
    OBVIOUS
  <1>1. CASE Clear
    BY <1>1, ClearKeeps
  <1>2. CASE SiftDown
    BY <1>2, SiftDownKeeps
  <1>3. CASE SiftUp
    BY <1>3, SiftUpKeeps
  <1>4. CASE Place
    BY <1>4, PlaceKeeps
  <1>5. CASE Sort
    BY <1>5, SortKeeps
  <1>6. CASE \E x \in Elements : Insert(x)
    BY <1>6, InsertKeeps
  <1>7. CASE UNCHANGED queueVars
    BY <1>7 DEF queueVars, QueueInv, QueueTypeOK, HeapHoldsSmallest, KeepsSmallest, HeapOrdered, Kept, Full,
                HoleInv, SettledInv, Settled, Sifting
  <1>8. QED
    BY <1>1, <1>2, <1>3, <1>4, <1>5, <1>6, <1>7 DEF QueueNext

LEMMA QueueInvInitially == QueueInit => QueueInv
  <1> SUFFICES ASSUME QueueInit PROVE QueueInv
    OBVIOUS
  <1>1. heap = <<>> /\ mode = "idle" /\ offered = {} /\ hole = 1 /\ entering \in Elements
    BY ElementsType DEF QueueInit
  <1>2. heap \in Seq(Elements) /\ Len(heap) = 0 /\ DOMAIN heap = {}
    BY <1>1
  <1>3. QueueTypeOK
    BY <1>1, <1>2, MaxSizeAssumption DEF QueueTypeOK
  <1>4. HeapHoldsSmallest /\ HoleInv /\ SettledInv
    BY <1>1, <1>2 DEF HeapHoldsSmallest, KeepsSmallest, HeapOrdered, Kept, HoleInv, SettledInv, Sifting
  <1>5. QED
    BY <1>3, <1>4 DEF QueueInv

LEMMA QueueInvHolds == QueueSpec => []QueueInv
  BY QueueInvInitially, QueueInvInductive, PTL DEF QueueSpec

-----------------------------------------------------------------------------

(* Types; the heap never outgrows the queue, and the hole stays inside it. *)
THEOREM QueueTypeCorrect == QueueSpec => []QueueTypeOK
  BY QueueInvHolds, PTL DEF QueueInv

(* For any elements and any size: after any number of insertions the queue is a heap of   *)
(* the smallest of what insert() was given, and sort() keeps them.                        *)
THEOREM HoldsSmallest == QueueSpec => []HeapHoldsSmallest
  BY QueueInvHolds, PTL DEF QueueInv

(* In a heap the root is the largest, for any size: who looks at top() sees the worst of  *)
(* what the queue keeps, as the pruning of the neighbour search needs.                    *)
THEOREM TopIsLargest == QueueSpec => [](mode = "idle" => \A n \in DOMAIN heap : Leq(heap[n], heap[1]))
  <1>1. QueueInv => (mode = "idle" => \A n \in DOMAIN heap : Leq(heap[n], heap[1]))
    BY RootIsLargest DEF QueueInv, HeapHoldsSmallest
  <1>2. QED
    BY <1>1, QueueInvHolds, PTL

-----------------------------------------------------------------------------
(* No element twice *)

\* No two places hold the same element, the hole counted as what will fill it.
Distinct ==
  /\ \A i, j \in DOMAIN heap : i # j /\ (Sifting => i # hole /\ j # hole) => heap[i] # heap[j]
  /\ Sifting => \A i \in DOMAIN heap : i # hole => heap[i] # entering

LEMMA MoveKeepsDistinct ==
  ASSUME QueueTypeOK, Distinct, Sifting, NEW j \in DOMAIN heap, j # hole, MoveHole(j)
  PROVE  Distinct'
  <1>1. /\ heap' = [heap EXCEPT ![hole] = heap[j]] /\ hole' = j
        /\ mode' = mode /\ entering' = entering
    BY DEF MoveHole
  <1>2. /\ DOMAIN heap' = DOMAIN heap /\ hole \in DOMAIN heap
        /\ heap'[hole] = heap[j] /\ \A i \in DOMAIN heap : i # hole => heap'[i] = heap[i]
    BY <1>1, HeapElements
  <1>3. \A i, k \in DOMAIN heap : i # k /\ i # hole /\ k # hole => heap[i] # heap[k]
    BY DEF Distinct
  <1>4. \A i \in DOMAIN heap : i # hole => heap[i] # entering
    BY DEF Distinct
  <1>5. \A i, k \in DOMAIN heap' : i # k /\ i # hole' /\ k # hole' => heap'[i] # heap'[k]
    BY <1>1, <1>2, <1>3
  <1>6. \A i \in DOMAIN heap' : i # hole' => heap'[i] # entering'
    BY <1>1, <1>2, <1>4
  <1>7. QED
    BY <1>1, <1>5, <1>6 DEF Distinct, Sifting

LEMMA PlaceKeepsDistinct ==
  ASSUME QueueTypeOK, Distinct, Place
  PROVE  Distinct'
  <1>1. Sifting /\ heap' = [heap EXCEPT ![hole] = entering] /\ mode' = "idle"
    BY DEF Place, Sifting
  <1>2. /\ DOMAIN heap' = DOMAIN heap /\ hole \in DOMAIN heap
        /\ heap'[hole] = entering /\ \A i \in DOMAIN heap : i # hole => heap'[i] = heap[i]
    BY <1>1, HeapElements
  <1>3. \A i, k \in DOMAIN heap : i # k /\ i # hole /\ k # hole => heap[i] # heap[k]
    BY <1>1 DEF Distinct
  <1>4. \A i \in DOMAIN heap : i # hole => heap[i] # entering
    BY <1>1 DEF Distinct
  <1>5. \A i, k \in DOMAIN heap' : i # k => heap'[i] # heap'[k]
    BY <1>2, <1>3, <1>4
  <1>6. QED
    BY <1>1, <1>5 DEF Distinct, Sifting

LEMMA SiftingKeepsDistinct ==
  ASSUME QueueInv, Distinct, SiftDown \/ SiftUp \/ Place
  PROVE  Distinct'
  <1>1. QueueTypeOK
    BY DEF QueueInv
  <1>2. CASE SiftDown
    <2> DEFINE j == LargerChild(hole)
    <2>1. mode = "down" /\ 2 * hole <= Len(heap) /\ MoveHole(j)
      BY <1>2 DEF SiftDown, Sinks
    <2>2. j \in DOMAIN heap /\ j \in {2 * hole, 2 * hole + 1} /\ hole \in Nat \ {0}
      BY <1>1, <2>1, LargerChildPlace, HeapElements
    <2> HIDE DEF j
    <2>3. QED
      BY <1>1, <2>1, <2>2, MoveKeepsDistinct DEF Sifting
  <1>3. CASE SiftUp
    <2> DEFINE j == Parent(hole)
    <2>1. mode = "up" /\ hole >= 2 /\ MoveHole(j) /\ Sifting
      BY <1>3 DEF SiftUp, Rises, Sifting
    <2>2. hole \in Nat /\ hole \in DOMAIN heap /\ DOMAIN heap = 1..Len(heap) /\ Len(heap) \in Nat
      BY <1>1, <2>1, HeapElements
    <2>3. j \in Nat \ {0} /\ j < hole
      BY <2>1, <2>2, ParentPlace
    <2> HIDE DEF j
    <2>4. j \in DOMAIN heap /\ j # hole
      BY <2>2, <2>3
    <2>5. QED
      BY <1>1, <2>1, <2>4, MoveKeepsDistinct
  <1>4. CASE Place
    BY <1>1, <1>4, PlaceKeepsDistinct
  <1>5. QED
    BY <1>2, <1>3, <1>4

\* What was never offered is not in the queue, so taking it in repeats nothing.
LEMMA InsertKeepsDistinct ==
  ASSUME QueueInv, Distinct, NEW x \in Elements, x \notin offered, Insert(x)
  PROVE  Distinct'
  <1>1. /\ mode = "idle" /\ heap \in Seq(Elements) /\ Len(heap) \in Nat /\ DOMAIN heap = 1..Len(heap)
        /\ \A i, k \in DOMAIN heap : i # k => heap[i] # heap[k]
    BY HeapElements DEF Insert, QueueInv, Distinct, Sifting
  <1>2. \A i \in DOMAIN heap : heap[i] # x
    BY <1>1 DEF QueueInv, HeapHoldsSmallest, KeepsSmallest, Kept
  <1>3. CASE Full /\ Less(x, heap[1])
    <2>1. entering' = x /\ heap' = heap
      BY <1>3 DEF Insert
    <2>2. QED
      BY <1>1, <1>2, <2>1 DEF Distinct
  <1>4. CASE Full /\ ~Less(x, heap[1])
    <2>1. heap' = heap /\ mode' = mode
      BY <1>4 DEF Insert
    <2>2. QED
      BY <1>1, <2>1 DEF Distinct, Sifting
  <1>5. CASE ~Full
    <2>1. entering' = x /\ heap' = Append(heap, x) /\ hole' = Len(heap) + 1 /\ mode' = "up"
      BY <1>5 DEF Insert
    <2>2. /\ DOMAIN heap' = 1..(Len(heap) + 1)
          /\ \A i \in DOMAIN heap : heap'[i] = heap[i]
      BY <1>1, <2>1
    <2>3. \A i \in DOMAIN heap' : i # hole' => i \in DOMAIN heap
      BY <1>1, <2>1, <2>2
    <2>4. QED
      BY <1>1, <1>2, <2>1, <2>2, <2>3 DEF Distinct, Sifting
  <1>6. QED
    BY <1>3, <1>4, <1>5

\* A reordering of a finite set of places meets no place twice.
LEMMA SortKeepsDistinct ==
  ASSUME QueueInv, Distinct, Sort
  PROVE  Distinct'
  <1>1. /\ mode = "idle" /\ heap \in Seq(Elements) /\ Len(heap) \in Nat /\ DOMAIN heap = 1..Len(heap)
        /\ \A i, k \in DOMAIN heap : i # k => heap[i] # heap[k]
    BY HeapElements DEF Sort, QueueInv, Distinct, Sifting
  <1>2. PICK p \in Reorderings(Len(heap)) : heap' = [i \in 1..Len(heap) |-> heap[p[i]]]
    BY DEF Sort
  <1> DEFINE D == 1..Len(heap)
  <1>3. p \in [D -> D] /\ \A j \in D : \E i \in D : p[i] = j
    BY DEF Reorderings
  <1>4. p \in Surjection(D, D)
    BY <1>3 DEF Surjection
  <1>5. IsFiniteSet(D)
    BY <1>1, FS_Interval
  <1>6. \A i, k \in D : p[i] = p[k] => i = k
    <2> HIDE DEF D
    <2>1. p \in Injection(D, D)
      BY <1>4, <1>5, FS_Surjection
    <2>2. QED
      BY <2>1 DEF Injection, IsInjective
  <1>7. DOMAIN heap' = D /\ \A i \in D : heap'[i] = heap[p[i]]
    BY <1>2
  <1>8. \A i, k \in DOMAIN heap' : i # k => heap'[i] # heap'[k]
    BY <1>1, <1>3, <1>6, <1>7
  <1>9. mode' = "sorted"
    BY DEF Sort
  <1>10. QED
    BY <1>8, <1>9 DEF Distinct, Sifting

LEMMA ClearMakesDistinct == Clear => Distinct'
  <1> SUFFICES ASSUME Clear PROVE Distinct'
    OBVIOUS
  <1>1. heap' = <<>> /\ mode' = "idle"
    BY DEF Clear
  <1>2. DOMAIN heap' = {}
    BY <1>1
  <1>3. QED
    BY <1>1, <1>2 DEF Distinct, Sifting

-----------------------------------------------------------------------------
(* Numbers *)

LEMMA LeastNumber ==
  ASSUME NEW T \in SUBSET Nat, T # {}
  PROVE  \E m \in T : \A k \in T : m <= k
  <1>1. PICK m \in T : \A k \in T : ~(<<k, m>> \in OpToRel(<, Nat))
    BY NatLessThanWellFounded, WFMin
  <1>2. \A k \in T : ~(k < m)
    BY <1>1 DEF OpToRel
  <1>3. QED
    BY <1>2

LEMMA MaxOfBounded ==
  ASSUME NEW S \in SUBSET Int, S # {}, NEW b \in Int, \A x \in S : x <= b
  PROVE  Max(S) \in S /\ \A x \in S : x <= Max(S)
  <1> DEFINE T == {b - x : x \in S}
  <1>1. T \in SUBSET Nat /\ T # {}
    <2>1. \A x \in S : b - x \in Nat
      OBVIOUS
    <2>2. QED
      BY <2>1
  <1>2. PICK m \in T : \A k \in T : m <= k
    <2> HIDE DEF T
    <2> QED BY <1>1, LeastNumber
  <1>3. PICK y \in S : m = b - y
    OBVIOUS
  <1>4. \A x \in S : b - x \in T
    OBVIOUS
  <1>5. \A x \in S : y >= x
    <2> HIDE DEF T
    <2> QED BY <1>2, <1>3, <1>4
  <1>6. Max(S) \in S /\ \A x \in S : Max(S) >= x
    BY <1>5 DEF Max
  <1>7. QED
    BY <1>6

LEMMA MinOfBounded ==
  ASSUME NEW S \in SUBSET Int, S # {}, NEW b \in Int, \A x \in S : b <= x
  PROVE  Min(S) \in S /\ \A x \in S : Min(S) <= x
  <1> DEFINE T == {x - b : x \in S}
  <1>1. T \in SUBSET Nat /\ T # {}
    <2>1. \A x \in S : x - b \in Nat
      OBVIOUS
    <2>2. QED
      BY <2>1
  <1>2. PICK m \in T : \A k \in T : m <= k
    <2> HIDE DEF T
    <2> QED BY <1>1, LeastNumber
  <1>3. PICK y \in S : m = y - b
    OBVIOUS
  <1>4. \A x \in S : x - b \in T
    OBVIOUS
  <1>5. \A x \in S : y <= x
    <2> HIDE DEF T
    <2> QED BY <1>2, <1>3, <1>4
  <1>6. QED
    BY <1>5 DEF Min

\* Finitely many numbers are bounded: the first that was not would be bounded by the larger
\* of itself and the bound of those before it.
LEMMA FiniteBound ==
  ASSUME NEW n \in Nat, NEW f, \A i \in 1..n : f[i] \in Int
  PROVE  \E b \in Nat : \A i \in 1..n : -b <= f[i] /\ f[i] <= b
  <1> DEFINE Bounds(b, m) == \A i \in 1..m : -b <= f[i] /\ f[i] <= b
             T == {m \in 0..n : ~\E b \in Nat : Bounds(b, m)}
  <1>1. SUFFICES ASSUME T # {} PROVE FALSE
    <2>1. n \in 0..n /\ (n \notin T => \E b \in Nat : Bounds(b, n))
      OBVIOUS
    <2>2. QED
      BY <2>1
  <1>2. PICK m \in T : \A k \in T : m <= k
    <2>1. T \in SUBSET Nat
      OBVIOUS
    <2> HIDE DEF T
    <2>2. QED
      BY <1>1, <2>1, LeastNumber
  <1>3. m \in 1..n
    <2>1. Bounds(0, 0)
      OBVIOUS
    <2>2. QED
      BY <2>1
  <1>4. PICK b \in Nat : Bounds(b, m - 1)
    <2>1. m - 1 \in 0..n /\ m - 1 \notin T
      <3> HIDE DEF T
      <3> QED BY <1>2, <1>3
    <2>2. QED
      BY <2>1
  <1> DEFINE a == IF f[m] < 0 THEN -f[m] ELSE f[m]
             c == IF a > b THEN a ELSE b
  <1>5. f[m] \in Int /\ a \in Nat /\ -a <= f[m] /\ f[m] <= a
    BY <1>3
  <1>6. c \in Nat /\ a <= c /\ b <= c
    BY <1>5
  <1>7. Bounds(c, m)
    <2> SUFFICES ASSUME NEW i \in 1..m PROVE -c <= f[i] /\ f[i] <= c
      OBVIOUS
    <2> HIDE DEF a, c
    <2>1. CASE i = m
      BY <1>5, <1>6, <2>1
    <2>2. CASE i # m
      <3>1. i \in 1..(m - 1) /\ f[i] \in Int
        BY <1>3, <2>2
      <3>2. -b <= f[i] /\ f[i] <= b
        BY <1>4, <3>1
      <3>3. QED
        BY <1>6, <3>1, <3>2
    <2>3. QED
      BY <2>1, <2>2
  <1>8. QED
    BY <1>2, <1>6, <1>7

-----------------------------------------------------------------------------
(* Cells *)

LEMMA WorldType ==
  ASSUME NEW w \in Worlds
  PROVE  /\ Len(w.side) \in 1..3 /\ Axes(w) = 1..Len(w.side) /\ Axes(w) \in SUBSET (1..3) /\ Axes(w) # {}
         /\ \A k \in Axes(w) : w.side[k] \in Nat /\ w.periodic[k] \in BOOLEAN
         /\ Len(w.at) \in Nat /\ DOMAIN w.at = 1..Len(w.at)
         /\ \A i \in DOMAIN w.at : w.at[i] \in [Axes(w) -> Int]
         /\ \A v \in Worlds : Axes(v) = Axes(w)
         /\ Probes \subseteq [Axes(w) -> Int]
  <1>1. /\ \A v \in Worlds : DOMAIN v.side = DOMAIN w.side
        /\ w.side \in Seq(Nat) /\ Len(w.side) \in 1..3
        /\ w.periodic \in [DOMAIN w.side -> BOOLEAN]
        /\ w.at \in Seq([DOMAIN w.side -> Int])
        /\ Probes \subseteq [DOMAIN w.side -> Int]
    BY WorldsAssumption
  <1>2. Axes(w) = 1..Len(w.side) /\ Axes(w) \in SUBSET (1..3) /\ Axes(w) # {}
    <2> DEFINE s == w.side
    <2>1. s \in Seq(Nat) /\ Len(s) \in 1..3
      BY <1>1
    <2> HIDE DEF s
    <2>2. DOMAIN s = 1..Len(s) /\ 1 \in DOMAIN s /\ DOMAIN s \in SUBSET (1..3)
      BY <2>1
    <2>3. QED
      BY <2>2 DEF s, Axes
  <1>3. /\ Len(w.at) \in Nat /\ DOMAIN w.at = 1..Len(w.at)
        /\ \A i \in DOMAIN w.at : w.at[i] \in [Axes(w) -> Int]
    <2> DEFINE a == w.at
    <2>1. a \in Seq([Axes(w) -> Int])
      BY <1>1 DEF Axes
    <2> HIDE DEF a
    <2>2. Len(a) \in Nat /\ DOMAIN a = 1..Len(a) /\ \A i \in DOMAIN a : a[i] \in [Axes(w) -> Int]
      BY <2>1
    <2>3. QED
      BY <2>2 DEF a
  <1>4. \A k \in Axes(w) : w.side[k] \in Nat /\ w.periodic[k] \in BOOLEAN
    BY <1>1 DEF Axes
  <1>5. QED
    BY <1>1, <1>2, <1>3, <1>4 DEF Axes

\* The coordinates of a point that is moved into the cell
LEMMA WrappedType ==
  ASSUME NEW w \in Worlds, ~Degenerate(w), NEW i \in DOMAIN w.at
  PROVE  /\ Wrapped(w, i) \in [Axes(w) -> Int]
         /\ \A k \in Axes(w) :
              IF w.periodic[k] THEN Wrapped(w, i)[k] \in 0..(w.side[k] - 1)
              ELSE Wrapped(w, i)[k] = w.at[i][k]
  <1>1. \A k \in Axes(w) : w.side[k] \in Nat \ {0} /\ w.at[i][k] \in Int /\ w.periodic[k] \in BOOLEAN
    BY WorldType DEF Degenerate
  <1>2. \A k \in Axes(w) : w.at[i][k] % w.side[k] \in 0..(w.side[k] - 1)
    BY <1>1
  <1>3. DOMAIN Wrapped(w, i) = Axes(w) /\ Wrapped(w, i) = [k \in Axes(w) |-> Wrapped(w, i)[k]]
    BY DEF Wrapped
  <1>4. \A k \in Axes(w) :
          Wrapped(w, i)[k] = IF w.periodic[k] THEN w.at[i][k] % w.side[k] ELSE w.at[i][k]
    BY DEF Wrapped
  <1>5. QED
    BY <1>1, <1>2, <1>3, <1>4

\* A point within a box, its upper faces included
Within(p, box) == \A k \in DOMAIN p : box.minc[k] <= p[k] /\ p[k] <= box.maxc[k]

Boxes(A) == [minc : [A -> Int], maxc : [A -> Int]]

LEMMA BoundingBoxHolds ==
  ASSUME NEW w \in Worlds, ~Degenerate(w)
  PROVE  /\ BoundingBox(w) \in Boxes(Axes(w))
         /\ \A i \in DOMAIN w.at : Within(Wrapped(w, i), BoundingBox(w))
  <1> DEFINE A == Axes(w)
             along(k) == IF w.periodic[k] THEN {} ELSE {w.at[i][k] : i \in DOMAIN w.at}
             lo(k) == Min({0} \cup along(k))
             hi(k) == Max({w.side[k]} \cup along(k))
  <1>1. BoundingBox(w) = [minc |-> [k \in A |-> lo(k)], maxc |-> [k \in A |-> hi(k)]]
    BY Zenon DEF BoundingBox
  <1>2. ASSUME NEW k \in A
        PROVE  /\ lo(k) \in Int /\ hi(k) \in Int /\ lo(k) <= 0 /\ w.side[k] <= hi(k)
               /\ ~w.periodic[k] => \A i \in DOMAIN w.at : lo(k) <= w.at[i][k] /\ w.at[i][k] <= hi(k)
    <2>1. /\ w.side[k] \in Nat /\ Len(w.at) \in Nat /\ DOMAIN w.at = 1..Len(w.at)
          /\ \A i \in 1..Len(w.at) : w.at[i][k] \in Int
      BY WorldType
    <2> DEFINE f == [i \in 1..Len(w.at) |-> w.at[i][k]]
    <2>2. PICK b \in Nat : \A i \in 1..Len(w.at) : -b <= f[i] /\ f[i] <= b
      <3>1. \A i \in 1..Len(w.at) : f[i] \in Int
        BY <2>1
      <3> HIDE DEF f
      <3>2. QED
        BY <2>1, <3>1, FiniteBound
    <2>3. along(k) \in SUBSET Int /\ \A x \in along(k) : -b <= x /\ x <= b
      BY <2>1, <2>2
    <2>4. ~w.periodic[k] => \A i \in DOMAIN w.at : w.at[i][k] \in along(k)
      OBVIOUS
    <2> DEFINE V == along(k)
    <2> HIDE DEF along, f
    <2>5. /\ {0} \cup V \in SUBSET Int /\ {0} \cup V # {} /\ \A x \in {0} \cup V : -b <= x
          /\ {w.side[k]} \cup V \in SUBSET Int /\ {w.side[k]} \cup V # {}
          /\ \A x \in {w.side[k]} \cup V : x <= b + w.side[k]
          /\ -b \in Int /\ b + w.side[k] \in Int
      BY <2>1, <2>2, <2>3
    <2>6. lo(k) \in {0} \cup V /\ \A x \in {0} \cup V : lo(k) <= x
      BY <2>5, MinOfBounded
    <2>7. hi(k) \in {w.side[k]} \cup V /\ \A x \in {w.side[k]} \cup V : x <= hi(k)
      BY <2>5, MaxOfBounded
    <2>8. V \in SUBSET Int /\ (~w.periodic[k] => \A i \in DOMAIN w.at : w.at[i][k] \in V)
      BY <2>3, <2>4
    <2> HIDE DEF lo, hi, V
    <2>9. lo(k) \in Int /\ hi(k) \in Int /\ lo(k) <= 0 /\ w.side[k] <= hi(k)
      <3>1. 0 \in {0} \cup V /\ w.side[k] \in {w.side[k]} \cup V
        OBVIOUS
      <3>2. lo(k) <= 0 /\ w.side[k] <= hi(k)
        BY <2>6, <2>7, <3>1
      <3>3. lo(k) \in Int
        BY Zenon, <2>5, <2>6
      <3>4. hi(k) \in Int
        BY Zenon, <2>5, <2>7
      <3>5. QED
        BY <3>2, <3>3, <3>4
    <2>10. QED
      BY <2>6, <2>7, <2>8, <2>9
  <1>3. BoundingBox(w) \in Boxes(A)
    <2> HIDE DEF lo, hi
    <2> QED BY <1>1, <1>2 DEF Boxes
  <1>4. ASSUME NEW i \in DOMAIN w.at, NEW k \in A
        PROVE  lo(k) <= Wrapped(w, i)[k] /\ Wrapped(w, i)[k] <= hi(k)
    <2> HIDE DEF lo, hi
    <2>1. lo(k) \in Int /\ hi(k) \in Int /\ lo(k) <= 0 /\ w.side[k] <= hi(k) /\ w.side[k] \in Nat
      BY <1>2, WorldType
    <2>2. CASE w.periodic[k]
      BY <2>1, <2>2, WrappedType
    <2>3. CASE ~w.periodic[k]
      BY <1>2, <2>3, WrappedType
    <2>4. QED
      BY <2>2, <2>3
  <1>5. ASSUME NEW i \in DOMAIN w.at
        PROVE  Within(Wrapped(w, i), BoundingBox(w))
    <2> HIDE DEF lo, hi
    <2>1. DOMAIN Wrapped(w, i) = A
      BY WrappedType
    <2>2. \A k \in A : BoundingBox(w).minc[k] = lo(k) /\ BoundingBox(w).maxc[k] = hi(k)
      BY <1>1
    <2>3. QED
      BY <1>4, <2>1, <2>2 DEF Within
  <1>6. QED
    BY <1>3, <1>5

-----------------------------------------------------------------------------
(* Lengths *)

LEMMA Square ==
  ASSUME NEW x \in Int
  PROVE  x * x \in Nat /\ (x * x = 0 => x = 0)
  OBVIOUS

LEMMA SquareGrows ==
  ASSUME NEW a \in Nat, NEW x \in Int, a <= x \/ a <= -x
  PROVE  a * a <= x * x
  <1> DEFINE y == IF x < 0 THEN -x ELSE x
  <1>1. y \in Nat /\ a <= y /\ x * x = y * y
    OBVIOUS
  <1> HIDE DEF y
  <1>2. a * a <= y * y
    BY <1>1
  <1>3. QED
    BY <1>1, <1>2

LEMMA LengthType ==
  ASSUME NEW A \in SUBSET (1..3), NEW v \in [A -> Int]
  PROVE  SquaredLength(v) \in Nat /\ \A k \in A : v[k] * v[k] <= SquaredLength(v)
  <1> DEFINE sq(k) == Along(v, k) * Along(v, k)
  <1>1. \A k \in 1..3 : Along(v, k) \in Int
    BY DEF Along
  <1>2. \A k \in 1..3 : sq(k) \in Nat
    BY <1>1, Square
  <1>3. \A k \in A : v[k] * v[k] = sq(k) /\ k \in 1..3
    BY DEF Along
  <1>4. SquaredLength(v) = sq(1) + sq(2) + sq(3)
    BY DEF SquaredLength
  <1> HIDE DEF sq
  <1>5. sq(1) \in Nat /\ sq(2) \in Nat /\ sq(3) \in Nat
    BY <1>2
  <1>6. SquaredLength(v) \in Nat /\ \A k \in 1..3 : sq(k) <= SquaredLength(v)
    BY <1>4, <1>5
  <1>7. QED
    BY <1>3, <1>6

LEMMA DifferenceType ==
  ASSUME NEW A, NEW u \in [A -> Int], NEW v \in [A -> Int]
  PROVE  /\ Minus(u, v) \in [A -> Int] /\ \A k \in A : Minus(u, v)[k] = u[k] - v[k]
         /\ Plus(u, v) \in [A -> Int] /\ \A k \in A : Plus(u, v)[k] = u[k] + v[k]
  BY DEF Minus, Plus

\* No point of a box is nearer than the box: what pruning relies on.
LEMMA BoxIsNear ==
  ASSUME NEW A \in SUBSET (1..3), NEW p \in [A -> Int], NEW q \in [A -> Int],
         NEW box \in Boxes(A), Within(p, box)
  PROVE  /\ MinimumDistance(box, q) \in Nat
         /\ MinimumDistance(box, q) <= SquaredLength(Minus(p, q))
  <1> DEFINE below(k) == box.minc[k] - q[k]
             beyond(k) == q[k] - box.maxc[k]
             outside == UNION {{below(k), beyond(k)} : k \in DOMAIN q}
             O == {0} \cup outside
  <1>1. DOMAIN q = A /\ \A k \in A : /\ box.minc[k] \in Int /\ box.maxc[k] \in Int /\ k \in 1..3
                                     /\ q[k] \in Int /\ p[k] \in Int
    BY DEF Boxes
  <1>2. \A k \in A : below(k) \in Int /\ beyond(k) \in Int
    BY <1>1
  <1>3. \A x \in O : x = 0 \/ \E k \in A : x = below(k) \/ x = beyond(k)
    BY <1>1
  <1>4. PICK b \in Nat : \A k \in A : below(k) <= b /\ beyond(k) <= b
    <2> DEFINE g == [i \in 1..3 |-> IF i \in A THEN beyond(i) ELSE 0]
               h == [i \in 1..3 |-> IF i \in A THEN below(i) ELSE 0]
    <2>1. (\A i \in 1..3 : g[i] \in Int) /\ (\A i \in 1..3 : h[i] \in Int)
      BY <1>2
    <2>2. \A k \in A : g[k] = beyond(k) /\ h[k] = below(k) /\ k \in 1..3
      OBVIOUS
    <2> HIDE DEF g, h, below, beyond
    <2>3. PICK c \in Nat : \A i \in 1..3 : -c <= g[i] /\ g[i] <= c
      BY <2>1, FiniteBound
    <2>4. PICK d \in Nat : \A i \in 1..3 : -d <= h[i] /\ h[i] <= d
      BY <2>1, FiniteBound
    <2>5. \A k \in A : below(k) <= c + d /\ beyond(k) <= c + d
      <3> TAKE k \in A
      <3>1. g[k] <= c /\ h[k] <= d /\ g[k] = beyond(k) /\ h[k] = below(k)
        BY <2>2, <2>3, <2>4
      <3>2. QED
        BY <1>2, <2>3, <2>4, <3>1
    <2>6. QED
      BY <2>5, <2>3, <2>4
  <1> DEFINE m == Max(O)
  <1>5. m \in O /\ 0 <= m
    <2> HIDE DEF below, beyond
    <2>1. O \in SUBSET Int
      BY <1>2, <1>3
    <2>2. \A x \in O : x <= b
      BY <1>3, <1>4
    <2>3. 0 \in O /\ O # {}
      OBVIOUS
    <2> HIDE DEF O
    <2>4. Max(O) \in O /\ \A x \in O : x <= Max(O)
      <3>1. b \in Int
        OBVIOUS
      <3>2. QED
        BY <3>1, <2>1, <2>2, <2>3, MaxOfBounded
    <2>5. QED
      BY <2>3, <2>4
  <1>6. MinimumDistance(box, q) = m * m
    BY Zenon DEF MinimumDistance
  <1> HIDE DEF m, O, outside
  <1>7. \A k \in A : Minus(p, q)[k] = p[k] - q[k] /\ box.minc[k] <= p[k] /\ p[k] <= box.maxc[k]
    <2>1. DOMAIN p = A
      OBVIOUS
    <2>2. \A k \in A : Minus(p, q)[k] = p[k] - q[k]
      BY <2>1 DEF Minus
    <2>3. QED
      BY <2>1, <2>2 DEF Within
  <1> DEFINE v == Minus(p, q)
  <1>8. v \in [A -> Int]
    BY DifferenceType
  <1>9. SquaredLength(v) \in Nat /\ \A k \in A : v[k] * v[k] <= SquaredLength(v)
    BY <1>8, LengthType
  <1>10. CASE m = 0
    BY <1>6, <1>9, <1>10
  <1>11. CASE m # 0
    <2>1. PICK k \in A : m = below(k) \/ m = beyond(k)
      BY <1>3, <1>5, <1>11
    <2>2. m \in Nat /\ (m <= v[k] \/ m <= -v[k]) /\ v[k] \in Int
      <3>1. /\ box.minc[k] \in Int /\ box.maxc[k] \in Int /\ q[k] \in Int /\ p[k] \in Int
            /\ box.minc[k] <= p[k] /\ p[k] <= box.maxc[k] /\ v[k] = p[k] - q[k]
        BY <1>1, <1>7
      <3>2. m = box.minc[k] - q[k] \/ m = q[k] - box.maxc[k]
        BY <2>1
      <3> HIDE DEF v
      <3>3. QED
        BY <1>5, <3>1, <3>2
    <2> DEFINE x == v[k]
    <2>3. m * m <= x * x /\ x * x <= SquaredLength(v)
      <3>1. x * x <= SquaredLength(v)
        BY <1>9
      <3>2. m * m <= x * x
        <4> HIDE DEF x
        <4> QED BY <2>2, SquareGrows DEF x
      <3>3. QED
        BY <3>1, <3>2
    <2> HIDE DEF x, v
    <2>4. m * m \in Nat /\ x * x \in Nat
      BY <2>2, Square DEF x
    <2>5. QED
      <3> DEFINE mm == m * m
                 xx == x * x
      <3> HIDE DEF mm, xx
      <3> QED BY <1>6, <1>9, <2>3, <2>4 DEF mm, xx, v
  <1>12. QED
    BY <1>10, <1>11

-----------------------------------------------------------------------------
(* Images *)

\* The members of S before x
Preceding(S, R, x) == {y \in S : <<y, x>> \in R}

\* A finite set in a strict order has each member at a place of its own.
LEMMA RankedLists ==
  ASSUME NEW S, IsFiniteSet(S), NEW R,
         \A x \in S : <<x, x>> \notin R,
         \A x, y \in S : x # y => <<x, y>> \in R \/ <<y, x>> \in R,
         \A x, y, z \in S : <<x, y>> \in R /\ <<y, z>> \in R => <<x, z>> \in R
  PROVE  /\ Cardinality(S) \in Nat
         /\ Ranked(S, R) \in [1..Cardinality(S) -> S]
         /\ \A p, q \in 1..Cardinality(S) : Ranked(S, R)[p] = Ranked(S, R)[q] => p = q
         /\ \A x \in S : \E p \in 1..Cardinality(S) :
              Ranked(S, R)[p] = x /\ p = Cardinality(Preceding(S, R, x)) + 1
  <1> DEFINE n == Cardinality(S)
             Before(x) == {y \in S : <<y, x>> \in R}
             rank == [x \in S |-> Cardinality(Before(x)) + 1]
             Places == {<<Cardinality(Before(x)) + 1, x>> : x \in S}
  <1>1. n \in Nat /\ IsFiniteSet(1..n) /\ Cardinality(1..n) = n
    <2>1. n \in Nat
      BY FS_CardinalityType
    <2>2. QED
      BY <2>1, FS_Interval
  <1>2. \A x \in S : IsFiniteSet(Before(x)) /\ Cardinality(Before(x)) \in 0..(n - 1)
    <2> TAKE x \in S
    <2>1. Before(x) \in SUBSET S /\ Before(x) # S
      OBVIOUS
    <2>2. /\ IsFiniteSet(Before(x)) /\ Cardinality(Before(x)) \in Nat
          /\ Cardinality(Before(x)) <= n /\ Cardinality(Before(x)) # n
      BY <2>1, FS_Subset, FS_CardinalityType
    <2>3. QED
      BY <1>1, <2>2
  <1>3. rank \in [S -> 1..n]
    <2> HIDE DEF Before, n
    <2> QED BY <1>1, <1>2
  <1>4. \A x, y \in S : <<x, y>> \in R => rank[x] # rank[y]
    <2> SUFFICES ASSUME NEW x \in S, NEW y \in S, <<x, y>> \in R PROVE rank[x] # rank[y]
      OBVIOUS
    <2>1. Before(x) \in SUBSET Before(y) /\ x \in Before(y) /\ x \notin Before(x)
      OBVIOUS
    <2>2. Before(x) # Before(y)
      BY <2>1
    <2>3. Cardinality(Before(x)) # Cardinality(Before(y))
      BY <1>2, <2>1, <2>2, FS_Subset
    <2> HIDE DEF Before
    <2>4. QED
      BY <1>1, <1>2, <2>3
  <1>5. rank \in Surjection(S, 1..n)
    <2>1. \A x, y \in S : rank[x] = rank[y] => x = y
      <3> HIDE DEF rank
      <3> QED BY <1>4
    <2>2. rank \in Injection(S, 1..n)
      BY <1>3, <2>1 DEF Injection, IsInjective
    <2> HIDE DEF rank
    <2>3. QED
      BY <1>1, <2>2, FS_Injection
  <1>6. \A p \in 1..n : \E x \in S : <<p, x>> \in Places
    <2> TAKE p \in 1..n
    <2>1. PICK x \in S : rank[x] = p
      BY <1>5 DEF Surjection
    <2>2. <<p, x>> = <<Cardinality(Before(x)) + 1, x>>
      BY <2>1
    <2>3. QED
      BY <2>2
  <1>7. Ranked(S, R) = [p \in 1..n |-> CHOOSE x \in S : <<p, x>> \in Places]
    BY DEF Ranked
  <1> DEFINE e == Ranked(S, R)
  <1>8. e \in [1..n -> S] /\ \A p \in 1..n : <<p, e[p]>> \in Places
    <2>1. \A p \in 1..n : e[p] = CHOOSE x \in S : <<p, x>> \in Places
      BY <1>7
    <2> HIDE DEF Places, e
    <2>2. \A p \in 1..n : e[p] \in S /\ <<p, e[p]>> \in Places
      BY <1>6, <2>1
    <2>3. QED
      BY <1>7, <2>2 DEF e
  <1>9. \A p \in 1..n : p = Cardinality(Before(e[p])) + 1
    <2> HIDE DEF Before, e
    <2> QED BY <1>8
  <1>10. \A x \in S : \E p \in 1..n : e[p] = x /\ p = Cardinality(Preceding(S, R, x)) + 1
    <2> HIDE DEF e, n, Before, Places
    <2> TAKE x \in S
    <2>1. rank[x] \in 1..n /\ rank[x] = Cardinality(Before(x)) + 1
      BY <1>3
    <2> DEFINE p == rank[x]
    <2>2. e[p] \in S /\ rank[e[p]] = p
      <3> HIDE DEF p
      <3>1. e[p] \in S /\ p = Cardinality(Before(e[p])) + 1
        BY <1>8, <1>9, <2>1 DEF p
      <3>2. QED
        BY <3>1
    <2> HIDE DEF rank
    <2>3. e[p] = x
      BY <1>4, <2>2
    <2>4. Before(x) = Preceding(S, R, x)
      BY Zenon DEF Before, Preceding
    <2>5. QED
      BY <2>1, <2>3, <2>4
  <1>11. QED
    <2> HIDE DEF e, n
    <2>1. \A p, q \in 1..n : e[p] = e[q] => p = q
      <3> HIDE DEF Before
      <3> QED BY <1>9
    <2>2. QED
      BY <1>1, <1>8, <1>10, <2>1 DEF e, n

\* Sorting leaves what was there.
LEMMA SortedImages ==
  ASSUME NEW S, NEW s \in Seq(S), NEW flip \in BOOLEAN,
         \A i \in DOMAIN s : SquaredLength(s[i]) \in Nat
  PROVE  /\ SortedByLength(s, flip) \in Seq(S) /\ Len(SortedByLength(s, flip)) = Len(s)
         /\ \A i \in DOMAIN s : \E p \in DOMAIN s : SortedByLength(s, flip)[p] = s[i]
  <1> DEFINE D == DOMAIN s
             len(i) == SquaredLength(s[i])
             shorter(i, j) == SquaredLength(s[i]) < SquaredLength(s[j])
             before(i, j) == shorter(i, j) \/ (~shorter(j, i) /\ IF flip THEN i > j ELSE i < j)
             R == {w \in D \X D : before(w[1], w[2])}
             e == Ranked(D, R)
  <1>1. Len(s) \in Nat /\ D = 1..Len(s) /\ IsFiniteSet(D) /\ Cardinality(D) = Len(s)
    <2>1. Len(s) \in Nat /\ D = 1..Len(s)
      OBVIOUS
    <2>2. QED
      BY <2>1, FS_Interval
  <1>2. \A i, j \in D : <<i, j>> \in R <=> before(i, j)
    OBVIOUS
  <1>3. \A i \in D : len(i) \in Nat /\ i \in Nat
    BY <1>1
  <1>4. /\ e \in [1..Len(s) -> D]
        /\ \A x \in D : \E p \in 1..Len(s) : e[p] = x
    <2>1. \A i, j \in D : before(i, j) <=>
            (len(i) < len(j) \/ (len(i) = len(j) /\ IF flip THEN i > j ELSE i < j))
      <3> TAKE i \in D, j \in D
      <3>1. len(i) \in Nat /\ len(j) \in Nat
        BY <1>3
      <3>2. QED
        BY <3>1
    <2> HIDE DEF before, len, R, D
    <2>2. \A i \in D : <<i, i>> \notin R
      BY <1>2, <1>3, <2>1
    <2>3. \A i, j \in D : i # j => <<i, j>> \in R \/ <<j, i>> \in R
      BY <1>2, <1>3, <2>1
    <2>4. \A i, j, k \in D : <<i, j>> \in R /\ <<j, k>> \in R => <<i, k>> \in R
      <3> TAKE i \in D, j \in D, k \in D
      <3>1. /\ len(i) \in Nat /\ len(j) \in Nat /\ len(k) \in Nat
            /\ i \in Nat /\ j \in Nat /\ k \in Nat
        BY <1>3
      <3>2. QED
        BY <1>2, <2>1, <3>1
    <2>5. /\ e \in [1..Cardinality(D) -> D]
          /\ \A x \in D : \E p \in 1..Cardinality(D) : e[p] = x /\ p = Cardinality(Preceding(D, R, x)) + 1
      BY <1>1, <2>2, <2>3, <2>4, RankedLists
    <2>6. QED
      BY <1>1, <2>5
  <1>5. SortedByLength(s, flip) = AtPlaces(s, e)
    BY Zenon DEF SortedByLength
  <1> HIDE DEF e, R, before, len
  <1>6. AtPlaces(s, e) = [p \in 1..Len(s) |-> s[e[p]]]
    BY <1>4 DEF AtPlaces
  <1>7. \A p \in 1..Len(s) : s[e[p]] \in S
    BY <1>1, <1>4
  <1>8. QED
    BY <1>1, <1>4, <1>5, <1>6, <1>7

\* The step taken to an image
StepTo(w, n) == [k \in Axes(w) |-> n[k] * w.side[k]]

Near(w) == {n \in [Axes(w) -> -1..1] : \A k \in Axes(w) : w.periodic[k] \/ n[k] = 0}

\* The list has whole steps along the axes, and all those to the cells next to this one.
LEMMA ImagesOfWorld ==
  ASSUME NEW w \in Worlds
  PROVE  /\ ImagesOf(w) \in Seq([Axes(w) -> Int])
         /\ \A n \in Near(w) : \E j \in DOMAIN ImagesOf(w) : ImagesOf(w)[j] = StepTo(w, n)
  <1> DEFINE A == Axes(w)
             width(k) == IF k \in Axes(w) /\ w.periodic[k] THEN 3 ELSE 1
             before(k) == IF k = 1 THEN 1 ELSE IF k = 2 THEN width(1) ELSE width(1) * width(2)
             step(n, k) == ((n \div before(k)) % width(k)) - (width(k) \div 2)
             total == width(1) * width(2) * width(3)
  <1>1. ImagesOf(w) = [n \in 1..total |-> [k \in A |-> step(n - 1, k) * w.side[k]]]
    BY Zenon DEF ImagesOf
  <1>2. A \in SUBSET (1..3) /\ \A k \in A : w.side[k] \in Nat /\ w.periodic[k] \in BOOLEAN
    BY WorldType
  <1>3. \A k \in 1..3 : width(k) = 1 \/ width(k) = 3
    OBVIOUS
  <1>4. \A n \in Nat, k \in 1..3 : step(n, k) \in Int
    <2>1. \A k \in 1..3 : before(k) \in Nat \ {0}
      OBVIOUS
    <2> HIDE DEF before
    <2>2. \A n \in Nat, k \in 1..3 : n \div before(k) \in Int
      BY <2>1
    <2>3. QED
      BY <1>3, <2>2
  <1>5. total \in Nat
    BY <1>3
  <1>6. ASSUME NEW a \in 0..(width(1) - 1), NEW b \in 0..(width(2) - 1), NEW c \in 0..(width(3) - 1)
        PROVE  LET n == a + width(1) * b + width(1) * width(2) * c
               IN  /\ n \in 0..(total - 1)
                   /\ step(n, 1) = a - (width(1) \div 2) /\ step(n, 2) = b - (width(2) \div 2)
                   /\ step(n, 3) = c - (width(3) \div 2)
    <2> DEFINE w1 == width(1)
               w2 == width(2)
               w3 == width(3)
               n == a + w1 * b + w1 * w2 * c
    <2>1. /\ step(n, 1) = ((n \div 1) % w1) - (w1 \div 2)
          /\ step(n, 2) = ((n \div w1) % w2) - (w2 \div 2)
          /\ step(n, 3) = ((n \div (w1 * w2)) % w3) - (w3 \div 2)
          /\ total = w1 * w2 * w3
      OBVIOUS
    <2>2. /\ w1 = 1 \/ w1 = 3
          /\ w2 = 1 \/ w2 = 3
          /\ w3 = 1 \/ w3 = 3
          /\ a \in 0..(w1 - 1) /\ b \in 0..(w2 - 1) /\ c \in 0..(w3 - 1)
      OBVIOUS
    <2> HIDE DEF w1, w2, w3, step, total
    <2>3. n \in 0..(total - 1) /\ (n \div 1) % w1 = a /\ (n \div w1) % w2 = b
          /\ (n \div (w1 * w2)) % w3 = c
      <3>1. CASE w1 = 1 /\ w2 = 1
        BY <2>1, <2>2, <3>1
      <3>2. CASE w1 = 1 /\ w2 = 3
        BY <2>1, <2>2, <3>2
      <3>3. CASE w1 = 3 /\ w2 = 1
        BY <2>1, <2>2, <3>3
      <3>4. CASE w1 = 3 /\ w2 = 3
        BY <2>1, <2>2, <3>4
      <3>5. QED
        BY <2>2, <3>1, <3>2, <3>3, <3>4
    <2>4. QED
      BY <2>1, <2>3 DEF w1, w2, w3
  <1> HIDE DEF step, total
  <1>7. ImagesOf(w) \in Seq([A -> Int])
    <2>1. \A n \in 1..total, k \in A : step(n - 1, k) * w.side[k] \in Int
      <3> TAKE n \in 1..total, k \in A
      <3>1. n - 1 \in Nat /\ k \in 1..3
        BY <1>2, <1>5
      <3>2. step(n - 1, k) \in Int /\ w.side[k] \in Int
        BY <1>2, <1>4, <3>1
      <3>3. QED
        BY <3>2
    <2>2. ImagesOf(w) \in [1..total -> [A -> Int]]
      BY <1>1, <2>1
    <2>3. QED
      BY <1>5, <2>2
  <1>8. ASSUME NEW n \in Near(w)
        PROVE  \E j \in DOMAIN ImagesOf(w) : ImagesOf(w)[j] = StepTo(w, n)
    <2> DEFINE digit(k) == (IF k \in A THEN n[k] ELSE 0) + (width(k) \div 2)
               m == digit(1) + width(1) * digit(2) + width(1) * width(2) * digit(3)
    <2>1. \A k \in A : n[k] \in -1..1 /\ (w.periodic[k] \/ n[k] = 0)
      BY DEF Near
    <2>2. \A k \in 1..3 : digit(k) \in 0..(width(k) - 1)
      BY <1>2, <2>1
    <2>3. \A k \in A : digit(k) - (width(k) \div 2) = n[k]
      BY <1>3, <2>1
    <2> HIDE DEF digit, width
    <2>4. /\ m \in 0..(total - 1)
          /\ step(m, 1) = digit(1) - (width(1) \div 2) /\ step(m, 2) = digit(2) - (width(2) \div 2)
          /\ step(m, 3) = digit(3) - (width(3) \div 2)
      BY <1>6, <2>2
    <2> HIDE DEF m
    <2>5. \A k \in A : step(m, k) = n[k]
      <3> TAKE k \in A
      <3>1. k = 1 \/ k = 2 \/ k = 3
        BY <1>2
      <3>2. QED
        BY <2>3, <2>4, <3>1
    <2>6. m + 1 \in 1..total /\ (m + 1) - 1 = m
      BY <1>5, <2>4
    <2>7. m + 1 \in DOMAIN ImagesOf(w) /\ ImagesOf(w)[m + 1] = [k \in A |-> step(m, k) * w.side[k]]
      BY <1>1, <2>6
    <2>8. [k \in A |-> step(m, k) * w.side[k]] = StepTo(w, n)
      BY <2>5 DEF StepTo
    <2>9. QED
      BY <2>7, <2>8
  <1>9. QED
    BY <1>7, <1>8

-----------------------------------------------------------------------------
(* Paths *)

Paths == Seq({1, 2})
Prefix(p, m) == [k \in 1..m |-> p[k]]

LEMMA PathType ==
  ASSUME NEW p \in Paths
  PROVE  /\ Len(p) \in Nat /\ DOMAIN p = 1..Len(p) /\ p \in [1..Len(p) -> {1, 2}]
         /\ \A c \in {1, 2} : /\ Append(p, c) \in Paths /\ Len(Append(p, c)) = Len(p) + 1
                              /\ DOMAIN Append(p, c) = 1..(Len(p) + 1)
                              /\ Append(p, c)[Len(p) + 1] = c
                              /\ \A k \in 1..Len(p) : Append(p, c)[k] = p[k]
  BY DEF Paths

LEMMA SamePath ==
  ASSUME NEW p \in Paths, NEW q \in Paths, Len(p) = Len(q), \A k \in 1..Len(p) : p[k] = q[k]
  PROVE  p = q
  <1>1. p \in [1..Len(p) -> {1, 2}] /\ q \in [1..Len(p) -> {1, 2}]
    BY PathType
  <1>2. QED
    BY <1>1

LEMMA PrefixType ==
  ASSUME NEW p \in Paths, NEW m \in 0..Len(p)
  PROVE  Prefix(p, m) \in Paths /\ Len(Prefix(p, m)) = m /\ \A k \in 1..m : Prefix(p, m)[k] = p[k]
  <1>1. Len(p) \in Nat /\ p \in [1..Len(p) -> {1, 2}]
    BY PathType
  <1>2. \A k \in 1..m : p[k] \in {1, 2}
    BY <1>1
  <1>3. QED
    BY <1>1, <1>2 DEF Prefix, Paths

LEMMA AboveIsPrefix ==
  ASSUME NEW q \in Paths, NEW p \in Paths
  PROVE  Above(q, p) <=> Len(q) < Len(p) /\ q = Prefix(p, Len(q))
  <1>1. Len(q) \in Nat /\ Len(p) \in Nat /\ DOMAIN q = 1..Len(q)
    BY PathType
  <1>2. ASSUME Above(q, p) PROVE Len(q) < Len(p) /\ q = Prefix(p, Len(q))
    <2>1. Len(q) < Len(p) /\ \A k \in 1..Len(q) : q[k] = p[k]
      BY <1>1, <1>2 DEF Above
    <2>2. Prefix(p, Len(q)) \in Paths /\ Len(Prefix(p, Len(q))) = Len(q)
          /\ \A k \in 1..Len(q) : Prefix(p, Len(q))[k] = p[k]
      BY <1>1, <2>1, PrefixType
    <2>3. QED
      BY <2>1, <2>2, SamePath
  <1>3. ASSUME Len(q) < Len(p), q = Prefix(p, Len(q)) PROVE Above(q, p)
    <2>1. \A k \in 1..Len(q) : Prefix(p, Len(q))[k] = p[k]
      BY <1>1, <1>3, PrefixType
    <2>2. QED
      BY <1>1, <1>3, <2>1 DEF Above
  <1>4. QED
    BY <1>2, <1>3

\* What is above a child is its parent and what is above that.
LEMMA AboveChild ==
  ASSUME NEW q \in Paths, NEW p \in Paths, NEW c \in {1, 2}
  PROVE  Above(q, Append(p, c)) <=> (q = p \/ Above(q, p))
  <1>1. /\ Len(q) \in Nat /\ Len(p) \in Nat /\ DOMAIN q = 1..Len(q)
        /\ Len(Append(p, c)) = Len(p) + 1 /\ \A k \in 1..Len(p) : Append(p, c)[k] = p[k]
    BY PathType
  <1>2. ASSUME Above(q, Append(p, c)) PROVE q = p \/ Above(q, p)
    <2>1. Len(q) <= Len(p) /\ \A k \in 1..Len(q) : q[k] = p[k]
      BY <1>1, <1>2 DEF Above
    <2>2. CASE Len(q) = Len(p)
      BY <2>1, <2>2, SamePath
    <2>3. CASE Len(q) # Len(p)
      BY <1>1, <2>1, <2>3 DEF Above
    <2>4. QED
      BY <2>2, <2>3
  <1>3. ASSUME q = p \/ Above(q, p) PROVE Above(q, Append(p, c))
    BY <1>1, <1>3 DEF Above
  <1>4. QED
    BY <1>2, <1>3

LEMMA ChildIsOne == \A node, x : ChildFor(node, x) \in {1, 2}
  BY DEF ChildFor

\* The way to a child goes through its parent and takes the child's turn there.
LEMMA LeadsToChild ==
  ASSUME NEW t, DOMAIN t \subseteq Paths, NEW p \in DOMAIN t, NEW c \in {1, 2}, NEW x
  PROVE  Leads(t, Append(p, c), x) <=> (Leads(t, p, x) /\ c = ChildFor(t[p], x))
  <1>1. /\ p \in Paths /\ Len(p) \in Nat
        /\ Append(p, c)[Len(p) + 1] = c /\ \A k \in 1..Len(p) : Append(p, c)[k] = p[k]
    BY PathType
  <1>2. \A q \in DOMAIN t : Above(q, p) => Append(p, c)[Len(q) + 1] = p[Len(q) + 1]
    <2> SUFFICES ASSUME NEW q \in DOMAIN t, Above(q, p)
                 PROVE  Append(p, c)[Len(q) + 1] = p[Len(q) + 1]
      OBVIOUS
    <2>1. Len(q) \in Nat /\ Len(q) < Len(p)
      BY PathType DEF Above
    <2>2. QED
      BY <1>1, <2>1
  <1>3. \A q \in DOMAIN t : Above(q, Append(p, c)) <=> (q = p \/ Above(q, p))
    BY <1>1, AboveChild
  <1>4. QED
    BY <1>1, <1>2, <1>3 DEF Leads

-----------------------------------------------------------------------------
(* The tree *)

Nodes(w, n) ==
  [splitDim : {0} \cup Axes(w), splitPos : Int, atoms : SUBSET (1..n), numAtoms : Nat,
   bounds : Boxes(Axes(w))]

\* A binary tree: the nodes above a node are there and are split, and a split node has its children.
TreeShape(w, t, n) ==
  /\ DOMAIN t \subseteq Paths /\ <<>> \in DOMAIN t
  /\ \A p \in DOMAIN t : t[p] \in Nodes(w, n) /\ Len(p) <= DepthLimit + 3
  /\ \A p \in DOMAIN t : ~IsLeaf(t[p]) => Append(p, 1) \in DOMAIN t /\ Append(p, 2) \in DOMAIN t
  /\ \A p \in DOMAIN t : \A m \in 0..(Len(p) - 1) :
       Prefix(p, m) \in DOMAIN t /\ ~IsLeaf(t[Prefix(p, m)])

\* The box of a node holds the atoms that the way to it lets through, inserted or not.
TreeBounds(w, t) ==
  \A p \in DOMAIN t : \A i \in DOMAIN w.at :
    Leads(t, p, Wrapped(w, i)) => Within(Wrapped(w, i), t[p].bounds)

\* The first n atoms are in the leaves that the way leads them to, and nowhere else.
TreeSorts(w, t, n) ==
  \A p \in DOMAIN t : \A i \in 1..n :
    i \in t[p].atoms <=> (IsLeaf(t[p]) /\ Leads(t, p, Wrapped(w, i)))

TreeInv(w, t, n) == TreeShape(w, t, n) /\ TreeBounds(w, t) /\ TreeSorts(w, t, n)

LEMMA NothingBelowLeaf ==
  ASSUME NEW w, NEW n, NEW t, TreeShape(w, t, n), NEW p \in DOMAIN t, IsLeaf(t[p])
  PROVE  \A q \in DOMAIN t : ~Above(p, q)
  <1> SUFFICES ASSUME NEW q \in DOMAIN t, Above(p, q) PROVE FALSE
    OBVIOUS
  <1>1. p \in Paths /\ q \in Paths
    BY DEF TreeShape
  <1>2. Len(p) \in Nat /\ Len(q) \in Nat
    BY <1>1, PathType
  <1>3. Len(p) < Len(q) /\ p = Prefix(q, Len(p))
    BY <1>1, AboveIsPrefix
  <1>4. Len(p) \in 0..(Len(q) - 1)
    BY <1>2, <1>3
  <1>5. ~IsLeaf(t[Prefix(q, Len(p))])
    BY <1>4 DEF TreeShape
  <1>6. QED
    BY <1>3, <1>5

\* The longest way that leads a point down ends at a leaf.
LEMMA LeafIsThere ==
  ASSUME NEW w, NEW n, NEW t, TreeShape(w, t, n), NEW x
  PROVE  \E p \in DOMAIN t : IsLeaf(t[p]) /\ Leads(t, p, x)
  <1> DEFINE L == DepthLimit + 3
             Led == {p \in DOMAIN t : Leads(t, p, x)}
             T == {L - Len(p) : p \in Led}
  <1>1. /\ DOMAIN t \subseteq Paths /\ <<>> \in DOMAIN t
        /\ \A p \in DOMAIN t : Len(p) <= L
        /\ \A p \in DOMAIN t : ~IsLeaf(t[p]) => Append(p, 1) \in DOMAIN t /\ Append(p, 2) \in DOMAIN t
    BY DEF TreeShape
  <1>2. L \in Nat
    BY LimitsAssumption
  <1>3. \A p \in Led : L - Len(p) \in Nat /\ L - Len(p) \in T
    <2> TAKE p \in Led
    <2>1. Len(p) \in Nat /\ Len(p) <= L
      BY <1>1, PathType
    <2>2. QED
      BY <1>2, <2>1
  <1>4. <<>> \in Led
    <2>1. \A q \in DOMAIN t : ~Above(q, <<>>)
      <3> TAKE q \in DOMAIN t
      <3>1. Len(q) \in Nat
        BY <1>1, PathType
      <3>2. QED
        BY <3>1 DEF Above
    <2>2. QED
      BY <1>1, <2>1 DEF Leads
  <1>5. T \in SUBSET Nat /\ T # {}
    BY <1>3, <1>4
  <1>6. PICK m \in T : \A k \in T : m <= k
    <2> HIDE DEF T
    <2> QED BY <1>5, LeastNumber
  <1>7. PICK p \in Led : m = L - Len(p)
    OBVIOUS
  <1> HIDE DEF T, L
  <1>8. CASE ~IsLeaf(t[p])
    <2> DEFINE c == ChildFor(t[p], x)
    <2>1. c \in {1, 2}
      BY ChildIsOne
    <2>2. Append(p, c) \in DOMAIN t
      BY <1>1, <1>8, <2>1
    <2>3. Leads(t, Append(p, c), x)
      BY <1>1, <2>1, LeadsToChild
    <2>4. Len(Append(p, c)) = Len(p) + 1 /\ Len(p) \in Nat
      BY <1>1, <2>1, PathType
    <2> HIDE DEF c
    <2>5. L - Len(Append(p, c)) \in T
      BY <1>3, <2>2, <2>3
    <2>6. m <= L - (Len(p) + 1)
      BY <1>6, <2>4, <2>5
    <2>7. QED
      BY <1>2, <1>7, <2>4, <2>6
  <1>9. QED
    BY <1>8

\* Two ways that lead one point down do not part: where they first would, they take the same turn.
LEMMA LeafIsOne ==
  ASSUME NEW w, NEW n, NEW t, TreeShape(w, t, n), NEW x,
         NEW p \in DOMAIN t, IsLeaf(t[p]), Leads(t, p, x),
         NEW q \in DOMAIN t, IsLeaf(t[q]), Leads(t, q, x)
  PROVE  p = q
  <1>1. /\ p \in Paths /\ q \in Paths
        /\ \A m \in 0..(Len(p) - 1) : Prefix(p, m) \in DOMAIN t
    BY DEF TreeShape
  <1>2. Len(p) \in Nat /\ Len(q) \in Nat /\ DOMAIN p = 1..Len(p) /\ DOMAIN q = 1..Len(q)
    BY <1>1, PathType
  <1>3. ~Above(p, q) /\ ~Above(q, p)
    BY NothingBelowLeaf
  <1> DEFINE T == {k \in 1..Len(p) : k <= Len(q) /\ p[k] # q[k]}
  <1>4. CASE T = {}
    <2>1. \A k \in 1..Len(p) : k <= Len(q) => p[k] = q[k]
      BY <1>4
    <2>2. Len(p) = Len(q)
      <3>1. CASE Len(p) < Len(q)
        <4>1. \A k \in DOMAIN p : p[k] = q[k]
          BY <1>2, <2>1, <3>1
        <4>2. QED
          BY <1>3, <3>1, <4>1 DEF Above
      <3>2. CASE Len(q) < Len(p)
        <4>1. \A k \in DOMAIN q : q[k] = p[k]
          BY <1>2, <2>1, <3>2
        <4>2. QED
          BY <1>3, <3>2, <4>1 DEF Above
      <3>3. Len(p) < Len(q) \/ Len(q) < Len(p) \/ Len(p) = Len(q)
        <4> DEFINE a == Len(p)
                   b == Len(q)
        <4>1. a \in Nat /\ b \in Nat
          BY <1>2
        <4> HIDE DEF a, b
        <4>2. a < b \/ b < a \/ a = b
          BY <4>1
        <4>3. QED
          BY <4>2 DEF a, b
      <3>4. QED
        BY <3>1, <3>2, <3>3
    <2>3. QED
      BY <1>1, <1>2, <2>1, <2>2, SamePath
  <1>5. CASE T # {}
    <2>1. PICK k \in T : \A j \in T : k <= j
      <3>1. T \in SUBSET Nat
        BY <1>2
      <3> HIDE DEF T
      <3>2. QED
        BY <1>5, <3>1, LeastNumber
    <2>2. k \in 1..Len(p) /\ k <= Len(q) /\ p[k] # q[k]
      OBVIOUS
    <2>3. \A j \in 1..(k - 1) : p[j] = q[j]
      <3> TAKE j \in 1..(k - 1)
      <3>1. j \in 1..Len(p) /\ j <= Len(q) /\ ~(k <= j)
        BY <1>2, <2>2
      <3>2. j \notin T
        BY <2>1, <3>1
      <3>3. QED
        BY <3>1, <3>2
    <2> DEFINE r == Prefix(p, k - 1)
    <2>4. r \in DOMAIN t /\ r \in Paths /\ Len(r) = k - 1 /\ \A j \in 1..(k - 1) : r[j] = p[j]
      <3>1. k - 1 \in 0..(Len(p) - 1) /\ k - 1 \in 0..Len(p)
        BY <1>2, <2>2
      <3>2. QED
        BY <1>1, <3>1, PrefixType
    <2> HIDE DEF r, T
    <2>5. DOMAIN r = 1..(k - 1)
      BY <2>4, PathType
    <2>6. Above(r, p) /\ Above(r, q)
      BY <1>2, <2>2, <2>3, <2>4, <2>5 DEF Above
    <2>7. Len(r) + 1 = k
      BY <2>2, <2>4
    <2>8. p[k] = ChildFor(t[r], x) /\ q[k] = ChildFor(t[r], x)
      BY <2>4, <2>6, <2>7 DEF Leads
    <2>9. QED
      BY <2>2, <2>8
  <1>6. QED
    BY <1>4, <1>5

LEMMA LeafForPoint ==
  ASSUME NEW w, NEW n, NEW t, TreeShape(w, t, n), NEW x
  PROVE  /\ LeafFor(t, x) \in DOMAIN t /\ IsLeaf(t[LeafFor(t, x)]) /\ Leads(t, LeafFor(t, x), x)
         /\ \A p \in DOMAIN t : IsLeaf(t[p]) /\ Leads(t, p, x) => p = LeafFor(t, x)
  <1>1. \E p \in DOMAIN t : IsLeaf(t[p]) /\ Leads(t, p, x)
    BY LeafIsThere
  <1>2. /\ LeafFor(t, x) \in DOMAIN t /\ IsLeaf(t[LeafFor(t, x)]) /\ Leads(t, LeafFor(t, x), x)
    BY <1>1 DEF LeafFor
  <1>3. QED
    BY <1>2, LeafIsOne

\* Splitting a leaf: its atoms go to the sides that the turn at its middle sends them to.
LEMMA SplitKeeps ==
  ASSUME NEW w \in Worlds, ~Degenerate(w), NEW n \in 0..Len(w.at), NEW t, TreeInv(w, t, n),
         NEW path \in DOMAIN t, IsLeaf(t[path]), Len(path) < DepthLimit + 3, NEW dim \in Axes(w)
  PROVE  TreeInv(w, SplitLeafNode(w, t, path, dim), n)
  <1> DEFINE A == Axes(w)
             D == DOMAIN t
             u == SplitLeafNode(w, t, path, dim)
             node == t[path]
             mid  == (node.bounds.minc[dim] + node.bounds.maxc[dim]) \div 2
             lowBox  == [node.bounds EXCEPT !.maxc[dim] = mid]
             highBox == [node.bounds EXCEPT !.minc[dim] = mid]
             low  == [Leaf(lowBox) EXCEPT !.atoms = {i \in node.atoms : Wrapped(w, i)[dim] < mid}]
             high == [Leaf(highBox) EXCEPT !.atoms = {i \in node.atoms : ~(Wrapped(w, i)[dim] < mid)}]
             split == [node EXCEPT !.splitDim = dim, !.splitPos = mid, !.atoms = {}]
             l == Append(path, 1)
             h == Append(path, 2)
  <1>1. u = [p \in D \cup {l, h} |->
               CASE p = path -> split
                 [] p = l -> low
                 [] p = h -> high
                 [] OTHER -> t[p]]
    BY Zenon DEF SplitLeafNode
  <1>2. /\ D \subseteq Paths /\ <<>> \in D /\ path \in Paths
        /\ \A p \in D : t[p] \in Nodes(w, n) /\ Len(p) <= DepthLimit + 3
        /\ \A p \in D : ~IsLeaf(t[p]) => Append(p, 1) \in D /\ Append(p, 2) \in D
        /\ \A p \in D : \A m \in 0..(Len(p) - 1) : Prefix(p, m) \in D /\ ~IsLeaf(t[Prefix(p, m)])
    BY DEF TreeInv, TreeShape
  <1>3. /\ Len(path) \in Nat /\ l \in Paths /\ h \in Paths /\ l # h /\ l # path /\ h # path
        /\ Len(l) = Len(path) + 1 /\ Len(h) = Len(path) + 1
    <2>1. /\ Len(path) \in Nat /\ l \in Paths /\ h \in Paths
          /\ Len(l) = Len(path) + 1 /\ Len(h) = Len(path) + 1
          /\ l[Len(path) + 1] = 1 /\ h[Len(path) + 1] = 2
      BY <1>2, PathType
    <2> HIDE DEF l, h
    <2>2. QED
      BY <2>1
  <1>4. \A q \in D : ~Above(path, q)
    BY NothingBelowLeaf DEF TreeInv
  <1>5. Above(path, l) /\ Above(path, h)
    BY <1>2, AboveChild
  <1>6. l \notin D /\ h \notin D
    BY <1>4, <1>5
  <1>7. \A q \in D : ~Above(l, q) /\ ~Above(h, q)
    <2> SUFFICES ASSUME NEW q \in D, Above(l, q) \/ Above(h, q) PROVE FALSE
      OBVIOUS
    <2>1. Above(path, q)
      <3> DEFINE c == IF Above(l, q) THEN l ELSE h
      <3>1. /\ Above(c, q) /\ c \in Paths /\ Len(c) = Len(path) + 1 /\ q \in Paths
            /\ Above(path, c)
        BY <1>2, <1>3, <1>5
      <3> HIDE DEF c
      <3>2. DOMAIN c = 1..Len(c) /\ DOMAIN path = 1..Len(path) /\ Len(q) \in Nat
        BY <1>2, <3>1, PathType
      <3>3. /\ \A k \in DOMAIN path : path[k] = c[k]
            /\ \A k \in DOMAIN c : c[k] = q[k]
            /\ Len(c) < Len(q)
        BY <3>1 DEF Above
      <3>4. Len(path) < Len(q) /\ \A k \in DOMAIN path : path[k] = q[k]
        <4>1. 1..Len(path) \subseteq 1..(Len(path) + 1)
          BY <1>3
        <4>2. DOMAIN path \subseteq DOMAIN c
          BY <3>1, <3>2, <4>1
        <4>3. Len(path) < Len(q)
          <5> DEFINE m == Len(path)
                     k == Len(q)
          <5>1. m + 1 < k /\ m \in Nat /\ k \in Nat
            BY <1>3, <3>1, <3>2, <3>3
          <5> HIDE DEF m, k
          <5>2. m < k
            BY <5>1
          <5>3. QED
            BY <5>2 DEF m, k
        <4>4. QED
          BY <3>3, <4>2, <4>3
      <3>5. QED
        BY <3>4 DEF Above
    <2>2. QED
      BY <1>4, <2>1
  <1> HIDE DEF l, h
  <1>8. /\ DOMAIN u = D \cup {l, h}
        /\ u[path] = split /\ u[l] = low /\ u[h] = high
        /\ \A p \in D : p # path => u[p] = t[p]
    <2> HIDE DEF split, low, high, u
    <2> QED BY <1>1, <1>3, <1>6
  <1>9. /\ node \in Nodes(w, n) /\ node.splitDim = 0 /\ node.bounds \in Boxes(A)
        /\ node.atoms \in SUBSET (1..n)
    BY <1>2 DEF Nodes, IsLeaf
  <1>10. /\ mid \in Int /\ dim \in A /\ dim \in 1..3
         /\ \A k \in A : node.bounds.minc[k] \in Int /\ node.bounds.maxc[k] \in Int
    BY <1>9, WorldType DEF Boxes
  <1> HIDE DEF mid, node
  <1>11. lowBox \in Boxes(A) /\ highBox \in Boxes(A)
    BY <1>9, <1>10 DEF Boxes
  <1>12. /\ lowBox.minc = node.bounds.minc /\ highBox.maxc = node.bounds.maxc
         /\ \A k \in A : lowBox.maxc[k] = IF k = dim THEN mid ELSE node.bounds.maxc[k]
         /\ \A k \in A : highBox.minc[k] = IF k = dim THEN mid ELSE node.bounds.minc[k]
    BY <1>9, <1>10 DEF Boxes
  <1> HIDE DEF lowBox, highBox
  <1>13. /\ split \in Nodes(w, n) /\ low \in Nodes(w, n) /\ high \in Nodes(w, n)
         /\ ~IsLeaf(split) /\ IsLeaf(low) /\ IsLeaf(high)
         /\ split.splitDim = dim /\ split.splitPos = mid /\ split.atoms = {}
         /\ split.bounds = node.bounds /\ low.bounds = lowBox /\ high.bounds = highBox
         /\ low.atoms = {i \in node.atoms : Wrapped(w, i)[dim] < mid}
         /\ high.atoms = {i \in node.atoms : ~(Wrapped(w, i)[dim] < mid)}
    <2>1. \A S \in SUBSET node.atoms : S \in SUBSET (1..n)
      BY <1>9
    <2>2. split \in Nodes(w, n)
      BY <1>9, <1>10 DEF Nodes
    <2>3. low \in Nodes(w, n) /\ high \in Nodes(w, n)
      BY <1>9, <1>11 DEF Nodes, Leaf
    <2>4. /\ split.splitDim = dim /\ split.splitPos = mid /\ split.atoms = {}
          /\ split.bounds = node.bounds
      BY <1>9 DEF Nodes
    <2>5. /\ low.splitDim = 0 /\ high.splitDim = 0 /\ low.bounds = lowBox /\ high.bounds = highBox
          /\ low.atoms = {i \in node.atoms : Wrapped(w, i)[dim] < mid}
          /\ high.atoms = {i \in node.atoms : ~(Wrapped(w, i)[dim] < mid)}
      BY DEF Leaf
    <2>6. dim # 0
      BY <1>10
    <2>7. QED
      BY <2>2, <2>3, <2>4, <2>5, <2>6 DEF IsLeaf
  <1> HIDE DEF split, low, high, u
  <1>14. TreeShape(w, u, n)
    <2>1. DOMAIN u \subseteq Paths /\ <<>> \in DOMAIN u
      BY <1>2, <1>3, <1>8
    <2>2. \A p \in DOMAIN u : u[p] \in Nodes(w, n) /\ Len(p) <= DepthLimit + 3
      <3> TAKE p \in DOMAIN u
      <3>1. CASE p \in D
        BY <1>2, <1>8, <1>13, <3>1
      <3>2. CASE p \in {l, h}
        BY <1>3, <1>8, <1>13, <3>2, LimitsAssumption
      <3>3. QED
        BY <1>8, <3>1, <3>2
    <2>3. \A p \in DOMAIN u : ~IsLeaf(u[p]) => Append(p, 1) \in DOMAIN u /\ Append(p, 2) \in DOMAIN u
      <3> SUFFICES ASSUME NEW p \in DOMAIN u, ~IsLeaf(u[p])
                   PROVE  Append(p, 1) \in DOMAIN u /\ Append(p, 2) \in DOMAIN u
        OBVIOUS
      <3>1. p \in D
        BY <1>8, <1>13
      <3>2. CASE p = path
        BY <1>8, <3>2 DEF l, h
      <3>3. CASE p # path
        BY <1>2, <1>8, <3>1, <3>3
      <3>4. QED
        BY <3>2, <3>3
    <2>4. ASSUME NEW p \in DOMAIN u, NEW m \in 0..(Len(p) - 1)
          PROVE  Prefix(p, m) \in DOMAIN u /\ ~IsLeaf(u[Prefix(p, m)])
      <3>1. \A q \in D : ~IsLeaf(t[q]) => ~IsLeaf(u[q])
        BY <1>8, <1>13
      <3>2. CASE p \in D
        <4>1. Prefix(p, m) \in D /\ ~IsLeaf(t[Prefix(p, m)])
          BY <1>2, <3>2
        <4>2. QED
          BY <1>8, <3>1, <4>1
      <3>3. CASE p \in {l, h}
        <4>1. PICK c \in {1, 2} : p = Append(path, c)
          BY <3>3 DEF l, h
        <4>2. /\ p \in Paths /\ Len(p) = Len(path) + 1
              /\ \A k \in 1..Len(path) : p[k] = path[k]
          BY <1>2, <4>1, PathType
        <4>3. m \in 0..Len(path) /\ m \in 0..Len(p)
          BY <1>3, <4>2
        <4>4. Prefix(p, m) = Prefix(path, m)
          BY <1>3, <4>2, <4>3 DEF Prefix
        <4>5. CASE m = Len(path)
          <5>1. Prefix(path, m) = path
            <6>1. Prefix(path, m) \in Paths /\ Len(Prefix(path, m)) = m
                  /\ \A k \in 1..m : Prefix(path, m)[k] = path[k]
              BY <1>2, <4>3, PrefixType
            <6>2. QED
              BY <1>2, <4>5, <6>1, SamePath
          <5>2. QED
            BY <1>8, <1>13, <4>4, <5>1
        <4>6. CASE m # Len(path)
          <5>1. m \in 0..(Len(path) - 1)
            BY <1>3, <4>3, <4>6
          <5>2. Prefix(path, m) \in D /\ ~IsLeaf(t[Prefix(path, m)])
            BY <1>2, <5>1
          <5>3. QED
            BY <1>8, <3>1, <4>4, <5>2
        <4>7. QED
          BY <4>5, <4>6
      <3>4. QED
        BY <1>8, <3>2, <3>3
    <2>5. QED
      BY <2>1, <2>2, <2>3, <2>4 DEF TreeShape
  <1>15. \A x : \A p \in D : Leads(u, p, x) <=> Leads(t, p, x)
    <2> TAKE x
    <2> TAKE p \in D
    <2>1. \A q \in D : Above(q, p) => u[q] = t[q]
      BY <1>4, <1>8
    <2>2. QED
      BY <1>7, <1>8, <2>1 DEF Leads
  <1>16. \A x : /\ Leads(u, l, x) <=> (Leads(t, path, x) /\ x[dim] < mid)
                /\ Leads(u, h, x) <=> (Leads(t, path, x) /\ ~(x[dim] < mid))
    <2> TAKE x
    <2>1. DOMAIN u \subseteq Paths /\ path \in DOMAIN u
      BY <1>8, <1>14 DEF TreeShape
    <2>2. ChildFor(u[path], x) = IF x[dim] < mid THEN 1 ELSE 2
      BY <1>8, <1>13 DEF ChildFor
    <2>3. /\ Leads(u, l, x) <=> (Leads(u, path, x) /\ 1 = ChildFor(u[path], x))
          /\ Leads(u, h, x) <=> (Leads(u, path, x) /\ 2 = ChildFor(u[path], x))
      BY <2>1, LeadsToChild DEF l, h
    <2>4. QED
      BY <1>15, <2>2, <2>3
  <1>17. TreeBounds(w, u)
    <2> SUFFICES ASSUME NEW p \in DOMAIN u, NEW i \in DOMAIN w.at, Leads(u, p, Wrapped(w, i))
                 PROVE  Within(Wrapped(w, i), u[p].bounds)
      BY DEF TreeBounds
    <2> DEFINE x == Wrapped(w, i)
    <2>1. x \in [A -> Int] /\ DOMAIN x = A
      BY WrappedType
    <2>2. \A q \in D : Leads(t, q, x) => Within(x, t[q].bounds)
      BY DEF TreeInv, TreeBounds
    <2> HIDE DEF x
    <2>3. CASE p \in D
      <3>1. Within(x, t[p].bounds)
        BY <1>15, <2>2, <2>3 DEF x
      <3>2. u[p].bounds = t[p].bounds
        BY <1>8, <1>13, <2>3 DEF node
      <3>3. QED
        BY <3>1, <3>2 DEF x
    <2>4. CASE p = l
      <3>1. Leads(t, path, x) /\ x[dim] < mid
        BY <1>16, <2>4 DEF x
      <3>2. Within(x, node.bounds)
        BY <2>2, <3>1 DEF node
      <3>3. Within(x, lowBox)
        BY <1>10, <1>12, <2>1, <3>1, <3>2 DEF Within
      <3>4. QED
        BY <1>8, <1>13, <2>4, <3>3 DEF x
    <2>5. CASE p = h
      <3>1. Leads(t, path, x) /\ ~(x[dim] < mid)
        BY <1>16, <2>5 DEF x
      <3>2. Within(x, node.bounds)
        BY <2>2, <3>1 DEF node
      <3>3. x[dim] \in Int
        BY <1>10, <2>1
      <3>4. Within(x, highBox)
        BY <1>10, <1>12, <2>1, <3>1, <3>2, <3>3 DEF Within
      <3>5. QED
        BY <1>8, <1>13, <2>5, <3>4 DEF x
    <2>6. QED
      BY <1>8, <2>3, <2>4, <2>5
  <1>18. TreeSorts(w, u, n)
    <2> SUFFICES ASSUME NEW p \in DOMAIN u, NEW i \in 1..n
                 PROVE  i \in u[p].atoms <=> (IsLeaf(u[p]) /\ Leads(u, p, Wrapped(w, i)))
      BY DEF TreeSorts
    <2> DEFINE x == Wrapped(w, i)
    <2>1. \A q \in D : i \in t[q].atoms <=> (IsLeaf(t[q]) /\ Leads(t, q, x))
      BY DEF TreeInv, TreeSorts
    <2>2. CASE p \in D /\ p # path
      BY <1>8, <1>15, <2>1, <2>2
    <2>3. CASE p = path
      BY <1>8, <1>13, <2>3
    <2>4. i \in node.atoms <=> Leads(t, path, x)
      BY <2>1 DEF node
    <2>5. CASE p = l
      <3>1. i \in u[p].atoms <=> (i \in node.atoms /\ x[dim] < mid)
        BY <1>8, <1>13, <2>5
      <3>2. QED
        BY <1>8, <1>13, <1>16, <2>4, <2>5, <3>1
    <2>6. CASE p = h
      <3>1. i \in u[p].atoms <=> (i \in node.atoms /\ ~(x[dim] < mid))
        BY <1>8, <1>13, <2>6
      <3>2. QED
        BY <1>8, <1>13, <1>16, <2>4, <2>6, <3>1
    <2>7. QED
      BY <1>8, <2>2, <2>3, <2>5, <2>6
  <1>19. QED
    BY <1>14, <1>17, <1>18 DEF TreeInv, u

LEMMA SplitDirectionType ==
  ASSUME NEW w \in Worlds, NEW n, NEW node \in Nodes(w, n)
  PROVE  SplitDirection(w, node) \in Axes(w)
  <1> DEFINE A == Axes(w)
             size(k) == node.bounds.maxc[k] - node.bounds.minc[k]
             S == {size(k) : k \in A}
             K == {k \in A : \A j \in A : size(j) <= size(k)}
             f == [i \in 1..3 |-> IF i \in A THEN size(i) ELSE 0]
  <1>1. A \in SUBSET (1..3) /\ A # {}
    BY WorldType
  <1>2. \A k \in A : size(k) \in Int
    BY DEF Nodes, Boxes
  <1>3. SplitDirection(w, node) = Min(K)
    BY Zenon DEF SplitDirection
  <1> HIDE DEF size
  <1>4. PICK b \in Nat : \A i \in 1..3 : -b <= f[i] /\ f[i] <= b
    <2>1. \A i \in 1..3 : f[i] \in Int
      BY <1>2
    <2> HIDE DEF f
    <2>2. QED
      BY <2>1, FiniteBound
  <1>5. S \in SUBSET Int /\ S # {} /\ \A x \in S : x <= b
    BY <1>1, <1>2, <1>4
  <1>6. Max(S) \in S /\ \A x \in S : x <= Max(S)
    <2> HIDE DEF S
    <2>1. b \in Int
      OBVIOUS
    <2>2. QED
      BY <1>5, <2>1, MaxOfBounded
  <1>7. PICK k \in A : Max(S) = size(k)
    <2> DEFINE m == Max(S)
    <2>1. m \in S
      BY <1>6
    <2> HIDE DEF m
    <2>2. QED
      BY <2>1 DEF m
  <1>8. \A j \in A : size(j) <= size(k)
    BY <1>6, <1>7
  <1>9. K \in SUBSET Int /\ K # {} /\ \A j \in K : 0 <= j
    BY <1>1, <1>8
  <1>10. Min(K) \in K
    <2> HIDE DEF K
    <2>1. 0 \in Int
      OBVIOUS
    <2>2. QED
      BY <1>9, <2>1, MinOfBounded
  <1>11. QED
    BY <1>3, <1>10

\* An atom is added to the leaf that the way leads it to.
Holding(node, i) == [node EXCEPT !.atoms = @ \cup {i}, !.numAtoms = @ + 1]
Grown(t, path, i) == [t EXCEPT ![path] = Holding(t[path], i)]

LEMMA AddKeeps ==
  ASSUME NEW w \in Worlds, ~Degenerate(w), NEW n \in Nat, n < Len(w.at), NEW t, TreeInv(w, t, n),
         NEW path, path = LeafFor(t, Wrapped(w, n + 1))
  PROVE  /\ TreeInv(w, Grown(t, path, n + 1), n + 1)
         /\ path \in DOMAIN Grown(t, path, n + 1)
         /\ Grown(t, path, n + 1)[path] = Holding(t[path], n + 1)
         /\ IsLeaf(Holding(t[path], n + 1)) /\ Holding(t[path], n + 1) \in Nodes(w, n + 1)
         /\ Len(path) \in Nat
  <1> DEFINE node  == Holding(t[path], n + 1)
             grown == Grown(t, path, n + 1)
  <1>0. /\ node = [t[path] EXCEPT !.atoms = @ \cup {n + 1}, !.numAtoms = @ + 1]
        /\ grown = [t EXCEPT ![path] = node]
    BY DEF Holding, Grown
  <1> HIDE DEF node, grown
  <1>1. TreeShape(w, t, n)
    BY DEF TreeInv
  <1>2. /\ path \in DOMAIN t /\ IsLeaf(t[path]) /\ Leads(t, path, Wrapped(w, n + 1))
        /\ \A p \in DOMAIN t : IsLeaf(t[p]) /\ Leads(t, p, Wrapped(w, n + 1)) => p = path
    BY <1>1, LeafForPoint
  <1>3. \A p \in DOMAIN t : t[p] \in Nodes(w, n)
    BY <1>1 DEF TreeShape
  <1>4. 1..n \subseteq 1..(n + 1) /\ n + 1 \in 1..(n + 1) /\ 1..(n + 1) = 1..n \cup {n + 1}
    OBVIOUS
  <1>5. Nodes(w, n) \subseteq Nodes(w, n + 1)
    BY <1>4 DEF Nodes
  <1>6. /\ node \in Nodes(w, n + 1) /\ node.splitDim = t[path].splitDim
        /\ node.splitPos = t[path].splitPos /\ node.bounds = t[path].bounds
        /\ node.atoms = t[path].atoms \cup {n + 1}
    <2>1. t[path] \in Nodes(w, n)
      BY <1>2, <1>3
    <2>2. t[path].atoms \cup {n + 1} \in SUBSET (1..(n + 1)) /\ t[path].numAtoms + 1 \in Nat
      BY <2>1, <1>4 DEF Nodes
    <2>3. QED
      BY <1>0, <2>1, <2>2 DEF Nodes
  <1>7. /\ DOMAIN grown = DOMAIN t /\ grown[path] = node
        /\ \A p \in DOMAIN t : p # path => grown[p] = t[p]
    BY <1>0, <1>2
  <1>8. \A p \in DOMAIN t : /\ grown[p].splitDim = t[p].splitDim /\ grown[p].splitPos = t[p].splitPos
                            /\ grown[p].bounds = t[p].bounds /\ grown[p] \in Nodes(w, n + 1)
    BY <1>3, <1>5, <1>6, <1>7
  <1>9. \A p \in DOMAIN t : IsLeaf(grown[p]) <=> IsLeaf(t[p])
    BY <1>8 DEF IsLeaf
  <1>10. \A p, x : Leads(grown, p, x) <=> Leads(t, p, x)
    BY <1>7, <1>8 DEF Leads, ChildFor
  <1>11. TreeShape(w, grown, n + 1)
    BY <1>1, <1>7, <1>8, <1>9 DEF TreeShape
  <1>12. TreeBounds(w, grown)
    BY <1>7, <1>8, <1>10 DEF TreeInv, TreeBounds
  <1>13. TreeSorts(w, grown, n + 1)
    <2> SUFFICES ASSUME NEW p \in DOMAIN t, NEW i \in 1..(n + 1)
                 PROVE  i \in grown[p].atoms <=> (IsLeaf(grown[p]) /\ Leads(grown, p, Wrapped(w, i)))
      BY <1>7 DEF TreeSorts
    <2>1. CASE i = n + 1
      <3>1. n + 1 \notin 1..n
        OBVIOUS
      <3>2. n + 1 \notin t[p].atoms
        BY <1>3, <3>1 DEF Nodes
      <3>3. n + 1 \in grown[p].atoms <=> p = path
        BY <1>6, <1>7, <3>2
      <3>4. (IsLeaf(t[p]) /\ Leads(t, p, Wrapped(w, n + 1))) <=> p = path
        BY <1>2
      <3>5. QED
        BY <1>9, <1>10, <2>1, <3>3, <3>4
    <2>2. CASE i # n + 1
      <3>1. i \in 1..n
        BY <2>2
      <3>2. i \in t[p].atoms <=> (IsLeaf(t[p]) /\ Leads(t, p, Wrapped(w, i)))
        BY <3>1 DEF TreeInv, TreeSorts
      <3>3. i \in grown[p].atoms <=> i \in t[p].atoms
        BY <1>6, <1>7, <2>2
      <3>4. QED
        BY <1>9, <1>10, <3>2, <3>3
    <2>3. QED
      BY <2>1, <2>2
  <1>14. Len(path) \in Nat
    BY <1>1, <1>2, PathType DEF TreeShape
  <1>15. QED
    BY <1>2, <1>6, <1>7, <1>11, <1>12, <1>13, <1>14 DEF TreeInv, IsLeaf, node, grown

LEMMA InsertParticleKeeps ==
  ASSUME NEW w \in Worlds, ~Degenerate(w), NEW n \in Nat, n < Len(w.at), NEW t, TreeInv(w, t, n)
  PROVE  TreeInv(w, InsertParticle(w, t, n + 1), n + 1)
  <1> DEFINE path  == LeafFor(t, Wrapped(w, n + 1))
             node  == Holding(t[path], n + 1)
             grown == Grown(t, path, n + 1)
             splits == node.numAtoms > BucketSize /\ Len(path) < DepthLimit
  <1>1. InsertParticle(w, t, n + 1) =
          IF splits THEN SplitLeafNode(w, grown, path, SplitDirection(w, node)) ELSE grown
    BY Zenon DEF InsertParticle, Holding, Grown
  <1>2. /\ TreeInv(w, grown, n + 1)
        /\ path \in DOMAIN grown /\ grown[path] = node /\ IsLeaf(node) /\ node \in Nodes(w, n + 1)
        /\ Len(path) \in Nat
    <2>1. path = LeafFor(t, Wrapped(w, n + 1))
      OBVIOUS
    <2> HIDE DEF path
    <2>2. QED
      BY <2>1, AddKeeps
  <1>3. SplitDirection(w, node) \in Axes(w)
    <2> HIDE DEF node
    <2> QED BY <1>2, SplitDirectionType
  <1>4. splits => Len(path) < DepthLimit + 3
    <2> HIDE DEF path
    <2> QED BY <1>2, LimitsAssumption
  <1> HIDE DEF path, node, grown
  <1>5. n + 1 \in 0..Len(w.at)
    BY WorldType
  <1>6. splits => TreeInv(w, SplitLeafNode(w, grown, path, SplitDirection(w, node)), n + 1)
    BY <1>2, <1>3, <1>4, <1>5, SplitKeeps
  <1> HIDE DEF splits
  <1>7. QED
    BY <1>1, <1>2, <1>6

LEMMA RootIsTree ==
  ASSUME NEW w \in Worlds, ~Degenerate(w)
  PROVE  TreeInv(w, [path \in {<<>>} |-> Leaf(BoundingBox(w))], 0)
  <1> DEFINE t == [path \in {<<>>} |-> Leaf(BoundingBox(w))]
  <1>1. /\ BoundingBox(w) \in Boxes(Axes(w))
        /\ \A i \in DOMAIN w.at : Within(Wrapped(w, i), BoundingBox(w))
    BY BoundingBoxHolds
  <1>2. DOMAIN t = {<<>>} /\ t[<<>>] = Leaf(BoundingBox(w))
    OBVIOUS
  <1> HIDE DEF t
  <1>3. /\ Leaf(BoundingBox(w)) \in Nodes(w, 0) /\ IsLeaf(Leaf(BoundingBox(w)))
        /\ Leaf(BoundingBox(w)).bounds = BoundingBox(w)
    BY <1>1 DEF Nodes, Leaf, IsLeaf
  <1>4. <<>> \in Paths /\ Len(<<>>) = 0
    BY DEF Paths
  <1>5. TreeShape(w, t, 0)
    <2>1. 0 <= DepthLimit + 3 /\ 0..(0 - 1) = {}
      BY LimitsAssumption
    <2>2. QED
      BY <1>2, <1>3, <1>4, <2>1 DEF TreeShape
  <1>6. TreeBounds(w, t)
    BY <1>1, <1>2, <1>3 DEF TreeBounds
  <1>7. TreeSorts(w, t, 0)
    BY DEF TreeSorts
  <1>8. QED
    BY <1>5, <1>6, <1>7 DEF TreeInv, t

-----------------------------------------------------------------------------
(* Preparing *)

Standing == phase \in {"preparing", "ready", "searching", "answered"}

\* The tree is one over the atoms inserted so far, and the list has the images next to the cell.
FinderInv ==
  /\ phase \in {"new", "preparing", "ready", "searching", "answered", "thrown"}
  /\ cell \in Worlds /\ prepares \in 0..Prepares /\ inserted \in 0..Len(cell.at)
  /\ phase \in {"ready", "searching", "answered"} => inserted = Len(cell.at)
  /\ phase \in {"new", "thrown"} => inserted = 0
  /\ pbcImages \in Seq([Axes(cell) -> Int])
  /\ Standing =>
       /\ ~Degenerate(cell) /\ TreeInv(cell, tree, inserted)
       /\ \A n \in Near(cell) : \E j \in DOMAIN pbcImages : pbcImages[j] = StepTo(cell, n)

\* Where a query stands, outside its search too
QueryInv ==
  /\ query \in [point : [Axes(cell) -> Int], includeSelf : BOOLEAN]
  /\ image \in 0..Len(pbcImages)
  /\ phase # "searching" => stack = <<>> /\ bin = {} /\ mode \in {"idle", "sorted"}
  /\ phase = "searching" => mode # "sorted"
  /\ phase = "answered" => mode = "sorted" /\ Ascending(heap) /\ image = Len(pbcImages)

LEMMA PrepareKeepsFinder ==
  ASSUME FinderInv, QueryInv, NEW w \in Worlds, Prepare(w)
  PROVE  FinderInv' /\ QueryInv'
  <1>1. Axes(w) = Axes(cell) /\ 0 \in 0..Len(w.at)
    BY WorldType DEF FinderInv
  <1>2. prepares' \in 0..Prepares /\ cell' = w /\ inserted' = 0 /\ w \in Worlds
    BY LimitsAssumption DEF FinderInv, Prepare
  <1>3. phase \in {"new", "ready", "answered", "thrown"} /\ UNCHANGED search /\ UNCHANGED queueVars
    BY DEF Prepare
  <1>4. CASE Degenerate(w)
    <2>1. phase' = "thrown" /\ UNCHANGED pbcImages
      BY <1>4 DEF Prepare
    <2>2. FinderInv'
      BY <1>1, <1>2, <2>1 DEF FinderInv, Standing
    <2>3. QueryInv'
      BY <1>1, <1>2, <1>3, <2>1 DEF QueryInv, search, queueVars
    <2>4. QED
      BY <2>2, <2>3
  <1>5. CASE ~Degenerate(w)
    <2>1. PICK flip \in BOOLEAN : pbcImages' = SortedByLength(pbcImages \o ImagesOf(w), flip)
      BY <1>5 DEF Prepare
    <2>2. /\ phase' = "preparing"
          /\ tree' = [path \in {<<>>} |-> Leaf(BoundingBox(w))]
      BY <1>5 DEF Prepare
    <2> DEFINE s == pbcImages \o ImagesOf(w)
               I == [Axes(w) -> Int]
    <2>3. ImagesOf(w) \in Seq(I) /\ pbcImages \in Seq(I)
      BY <1>1, ImagesOfWorld DEF FinderInv
    <2>4. /\ s \in Seq(I) /\ Len(s) = Len(pbcImages) + Len(ImagesOf(w))
          /\ \A j \in DOMAIN ImagesOf(w) : /\ j + Len(pbcImages) \in DOMAIN s
                                           /\ s[j + Len(pbcImages)] = ImagesOf(w)[j]
      BY <2>3
    <2>5. \A i \in DOMAIN s : SquaredLength(s[i]) \in Nat
      <3>1. \A i \in DOMAIN s : s[i] \in I
        BY <2>4
      <3>2. QED
        BY <3>1, WorldType, LengthType
    <2> HIDE DEF s
    <2>6. /\ pbcImages' \in Seq(I) /\ Len(pbcImages') = Len(s)
          /\ \A i \in DOMAIN s : \E p \in DOMAIN s : pbcImages'[p] = s[i]
      <3> HIDE DEF I
      <3>1. pbcImages' = SortedByLength(s, flip)
        BY <2>1 DEF s
      <3>2. QED
        BY <3>1, <2>4, <2>5, SortedImages
    <2>7. DOMAIN pbcImages' = DOMAIN s /\ Len(pbcImages) <= Len(pbcImages')
      BY <2>3, <2>4, <2>6
    <2>8. \A n \in Near(w) : \E j \in DOMAIN pbcImages' : pbcImages'[j] = StepTo(w, n)
      <3> SUFFICES ASSUME NEW n \in Near(w)
                   PROVE  \E j \in DOMAIN pbcImages' : pbcImages'[j] = StepTo(w, n)
        OBVIOUS
      <3>1. PICK j \in DOMAIN ImagesOf(w) : ImagesOf(w)[j] = StepTo(w, n)
        BY ImagesOfWorld
      <3>2. QED
        BY <2>4, <2>6, <2>7, <3>1
    <2>9. TreeInv(w, tree', 0)
      BY <1>5, <2>2, RootIsTree
    <2>10. FinderInv'
      BY <1>1, <1>2, <1>5, <2>2, <2>6, <2>8, <2>9 DEF FinderInv, Standing
    <2>11. image \in 0..Len(pbcImages')
      BY <2>3, <2>6, <2>7 DEF QueryInv
    <2>12. QueryInv'
      BY <1>1, <1>2, <1>3, <2>2, <2>11 DEF QueryInv, search, queueVars
    <2>13. QED
      BY <2>10, <2>12
  <1>6. QED
    BY <1>4, <1>5

LEMMA SplitEmptyKeepsFinder ==
  ASSUME FinderInv, QueryInv, SplitEmpty
  PROVE  FinderInv' /\ QueryInv'
  <1>1. PICK path \in Shallow : tree' = SplitLeafNode(cell, tree, path, Len(path) + 1)
    BY DEF SplitEmpty
  <1>2. /\ phase = "preparing" /\ Standing /\ UNCHANGED <<phase, cell, prepares, inserted, pbcImages>>
        /\ UNCHANGED search /\ UNCHANGED queueVars
    BY DEF SplitEmpty, Standing
  <1>3. TreeInv(cell, tree, inserted) /\ ~Degenerate(cell) /\ cell \in Worlds /\ inserted \in 0..Len(cell.at)
    BY <1>2 DEF FinderInv
  <1>4. path \in DOMAIN tree /\ IsLeaf(tree[path]) /\ Len(path) < Len(cell.side)
    BY DEF Shallow
  <1>5. Len(path) \in Nat
    BY <1>3, <1>4, PathType DEF TreeInv, TreeShape
  <1>6. Len(path) + 1 \in Axes(cell) /\ Len(path) < DepthLimit + 3
    <2>1. Len(cell.side) \in 1..3 /\ Axes(cell) = 1..Len(cell.side)
      BY <1>3, WorldType
    <2> DEFINE m == Len(path)
               l == Len(cell.side)
    <2> HIDE DEF m, l
    <2>2. m \in Nat /\ l \in 1..3 /\ m < l /\ DepthLimit \in Nat
      BY <1>4, <1>5, <2>1, LimitsAssumption DEF m, l
    <2>3. m + 1 \in 1..l /\ m < DepthLimit + 3
      BY <2>2
    <2>4. QED
      BY <2>1, <2>3 DEF m, l
  <1>7. TreeInv(cell, tree', inserted)
    BY <1>1, <1>3, <1>4, <1>6, SplitKeeps
  <1>8. FinderInv'
    BY <1>2, <1>7 DEF FinderInv, Standing
  <1>9. QueryInv'
    BY <1>2 DEF QueryInv, search, queueVars
  <1>10. QED
    BY <1>8, <1>9

LEMMA InsertAtomKeepsFinder ==
  ASSUME FinderInv, QueryInv, InsertAtom
  PROVE  FinderInv' /\ QueryInv'
  <1>1. /\ phase = "preparing" /\ Standing /\ UNCHANGED <<phase, cell, prepares, pbcImages>>
        /\ UNCHANGED search /\ UNCHANGED queueVars
        /\ inserted < Len(cell.at) /\ inserted' = inserted + 1
        /\ tree' = InsertParticle(cell, tree, inserted + 1)
    BY DEF InsertAtom, Standing
  <1>2. TreeInv(cell, tree, inserted) /\ ~Degenerate(cell) /\ cell \in Worlds /\ inserted \in Nat
    BY <1>1, WorldType DEF FinderInv
  <1>3. TreeInv(cell, tree', inserted')
    BY <1>1, <1>2, InsertParticleKeeps
  <1>4. inserted' \in 0..Len(cell.at)
    BY <1>1, <1>2, WorldType
  <1>5. FinderInv'
    BY <1>1, <1>3, <1>4 DEF FinderInv, Standing
  <1>6. QueryInv'
    BY <1>1 DEF QueryInv, search, queueVars
  <1>7. QED
    BY <1>5, <1>6

\* The steps that leave what was prepared alone
LEMMA FinderKept ==
  ASSUME FinderInv, UNCHANGED finder, phase' \in {"ready", "searching", "answered"},
         phase \in {"ready", "searching", "answered"} \/ (phase = "preparing" /\ inserted = Len(cell.at))
  PROVE  FinderInv'
  BY DEF FinderInv, finder, Standing

-----------------------------------------------------------------------------
(* What a search has covered *)

\* As many as the queue can hold, and none farther, have been offered.
Beaten(O, x) == \E S \in SUBSET O : IsFiniteSet(S) /\ Cardinality(S) = MaxSize /\ \A y \in S : Leq(y, x)
Known(O, x)  == x \in O \/ Beaten(O, x)

LEMMA KnownGrows ==
  ASSUME NEW O, NEW P, O \subseteq P, NEW x, Known(O, x)
  PROVE  Known(P, x)
  BY DEF Known, Beaten

\* Distinct elements count as many as there are.
LEMMA HeapCounts ==
  ASSUME QueueTypeOK, Distinct, ~Sifting
  PROVE  IsFiniteSet(Kept) /\ Cardinality(Kept) = Len(heap) /\ Len(heap) \in Nat /\ IsInjective(heap)
  <1>1. Len(heap) \in Nat /\ DOMAIN heap = 1..Len(heap)
    BY HeapElements
  <1>2. IsInjective(heap)
    BY DEF Distinct, IsInjective
  <1> DEFINE n == Len(heap)
             f == [j \in 1..n |-> heap[j]]
  <1>3. f \in [1..n -> Kept]
    BY <1>1 DEF Kept
  <1>4. \A i, j \in 1..n : f[i] = f[j] => i = j
    BY <1>1, <1>2 DEF IsInjective
  <1>5. \A y \in Kept : \E i \in 1..n : f[i] = y
    BY <1>1 DEF Kept
  <1>6. ExistsBijection(1..n, Kept)
    <2> HIDE DEF f
    <2> QED BY <1>3, <1>4, <1>5 DEF ExistsBijection, Bijection, Injection, Surjection, IsInjective
  <1>7. QED
    BY <1>1, <1>2, <1>6, FS_CountingElements, FS_NatBijection

\* A full queue's root is what the rest has to beat.
LEMMA FullBeats ==
  ASSUME QueueInv, Distinct, mode = "idle", Full, NEW x \in Elements, Leq(heap[1], x)
  PROVE  Beaten(offered, x)
  <1>1. /\ QueueTypeOK /\ HeapOrdered /\ Kept \subseteq offered
        /\ \A n \in DOMAIN heap : heap[n] \in Elements
        /\ DOMAIN heap = 1..MaxSize /\ MaxSize \in Nat \ {0}
    BY MaxSizeAssumption, HeapElements DEF QueueInv, HeapHoldsSmallest, KeepsSmallest, Full
  <1>2. \A y \in Kept : Leq(y, x)
    <2>1. \A n \in DOMAIN heap : Leq(heap[n], heap[1])
      BY <1>1, RootIsLargest
    <2>2. 1 \in DOMAIN heap
      BY <1>1
    <2>3. \A n \in DOMAIN heap : Leq(heap[n], x)
      BY <1>1, <2>1, <2>2, LeqTransitive
    <2>4. QED
      BY <2>3 DEF Kept
  <1>3. IsFiniteSet(Kept) /\ Cardinality(Kept) = MaxSize
    BY <1>1, HeapCounts DEF Sifting, Full
  <1>4. QED
    BY <1>1, <1>2, <1>3 DEF Beaten

-----------------------------------------------------------------------------
(* The subtrees still to be visited *)

Visits(t) == [path : DOMAIN t, far : BOOLEAN]

\* An atom is below the node of a visit, or of some visit in the stack.
Meets(w, t, v, i)  == Leads(t, v.path, Wrapped(w, i))
Ahead(w, t, st, i) == \E k \in DOMAIN st : Meets(w, t, st[k], i)

\* No atom is met twice.
Once(w, t, st, bn) ==
  \A i \in DOMAIN w.at : \A k \in DOMAIN st : Meets(w, t, st[k], i) =>
    i \notin bn /\ \A l \in DOMAIN st : Meets(w, t, st[l], i) => k = l

LEMMA PoppedStack ==
  ASSUME NEW w, NEW t, NEW S, NEW st \in Seq(S), st # <<>>
  PROVE  /\ Head(st) \in S /\ Tail(st) \in Seq(S)
         /\ \A i : Ahead(w, t, st, i) <=> (Meets(w, t, Head(st), i) \/ Ahead(w, t, Tail(st), i))
         /\ \A bn : Once(w, t, st, bn) =>
              /\ Once(w, t, Tail(st), bn)
              /\ \A i \in DOMAIN w.at : Meets(w, t, Head(st), i) => i \notin bn /\ ~Ahead(w, t, Tail(st), i)
  <1> DEFINE n == Len(st)
             rest == Tail(st)
  <1>1. n \in Nat \ {0} /\ DOMAIN st = 1..n /\ Head(st) = st[1]
    BY DEF n
  <1>2. rest \in Seq(S) /\ Len(rest) = n - 1 /\ \A k \in 1..(n - 1) : rest[k] = st[k + 1]
    BY <1>1
  <1>3. Head(st) \in S
    BY <1>1
  <1>4. DOMAIN rest = 1..(n - 1)
    BY <1>2
  <1> HIDE DEF n, rest
  <1>5. 1 \in 1..n /\ \A k \in 1..(n - 1) : k + 1 \in 1..n /\ k + 1 # 1
    BY <1>1
  <1>6. \A k \in 1..n : k = 1 \/ \E l \in 1..(n - 1) : k = l + 1
    <2> SUFFICES ASSUME NEW k \in 1..n, k # 1
                 PROVE  \E l \in 1..(n - 1) : k = l + 1
      OBVIOUS
    <2>1. k - 1 \in 1..(n - 1) /\ k = (k - 1) + 1
      BY <1>1
    <2>2. QED
      BY <2>1
  <1>7. \A i : Ahead(w, t, st, i) <=> (Meets(w, t, Head(st), i) \/ Ahead(w, t, rest, i))
    <2> SUFFICES ASSUME NEW i
                 PROVE  (\E k \in 1..n : Meets(w, t, st[k], i)) <=>
                          (Meets(w, t, st[1], i) \/ \E l \in 1..(n - 1) : Meets(w, t, rest[l], i))
      BY <1>1, <1>4 DEF Ahead
    <2>1. \A l \in 1..(n - 1) : Meets(w, t, rest[l], i) <=> Meets(w, t, st[l + 1], i)
      BY <1>2
    <2>2. ASSUME NEW k \in 1..n, Meets(w, t, st[k], i)
          PROVE  Meets(w, t, st[1], i) \/ \E l \in 1..(n - 1) : Meets(w, t, rest[l], i)
      <3>1. CASE k = 1
        BY <2>2, <3>1
      <3>2. CASE k # 1
        <4>1. PICK l \in 1..(n - 1) : k = l + 1
          BY <1>6, <3>2
        <4>2. QED
          BY <2>1, <2>2, <4>1
      <3>3. QED
        BY <3>1, <3>2
    <2>3. QED
      BY <1>5, <2>1, <2>2
  <1>8. ASSUME NEW bn, Once(w, t, st, bn)
        PROVE  /\ Once(w, t, rest, bn)
               /\ \A i \in DOMAIN w.at : Meets(w, t, Head(st), i) => i \notin bn /\ ~Ahead(w, t, rest, i)
    <2>1. Once(w, t, rest, bn)
      <3> SUFFICES ASSUME NEW i \in DOMAIN w.at, NEW k \in 1..(n - 1), Meets(w, t, rest[k], i)
                   PROVE  i \notin bn /\ \A l \in 1..(n - 1) : Meets(w, t, rest[l], i) => k = l
        BY <1>4 DEF Once
      <3>1. Meets(w, t, st[k + 1], i) /\ k + 1 \in DOMAIN st
        BY <1>1, <1>2, <1>5
      <3>2. i \notin bn /\ \A l \in DOMAIN st : Meets(w, t, st[l], i) => k + 1 = l
        BY <1>8, <3>1 DEF Once
      <3>3. \A l \in 1..(n - 1) : Meets(w, t, rest[l], i) => k + 1 = l + 1
        BY <1>1, <1>2, <1>5, <3>2
      <3>4. \A l \in 1..(n - 1) : k + 1 = l + 1 => k = l
        BY <1>1
      <3>5. QED
        BY <3>2, <3>3, <3>4
    <2>2. \A i \in DOMAIN w.at : Meets(w, t, Head(st), i) => i \notin bn /\ ~Ahead(w, t, rest, i)
      <3> SUFFICES ASSUME NEW i \in DOMAIN w.at, Meets(w, t, st[1], i)
                   PROVE  i \notin bn /\ ~Ahead(w, t, rest, i)
        BY <1>1
      <3>1. i \notin bn /\ \A l \in 1..n : Meets(w, t, st[l], i) => 1 = l
        BY <1>1, <1>5, <1>8 DEF Once
      <3>2. ASSUME NEW k \in 1..(n - 1), Meets(w, t, rest[k], i)
            PROVE  FALSE
        <4>1. Meets(w, t, st[k + 1], i)
          BY <1>2, <3>2
        <4>2. k + 1 \in 1..n /\ k + 1 # 1
          BY <1>5
        <4>3. QED
          BY <3>1, <4>1, <4>2
      <3>3. QED
        BY <1>4, <3>1, <3>2 DEF Ahead
    <2>3. QED
      BY <2>1, <2>2
  <1>9. QED
    BY <1>2, <1>3, <1>7, <1>8 DEF rest

LEMMA PushedStack ==
  ASSUME NEW w, NEW t, NEW S, NEW st \in Seq(S), NEW a \in S, NEW b \in S
  PROVE  /\ <<a, b>> \o st \in Seq(S)
         /\ \A i : Ahead(w, t, <<a, b>> \o st, i) <=>
                     (Meets(w, t, a, i) \/ Meets(w, t, b, i) \/ Ahead(w, t, st, i))
         /\ \A bn : /\ Once(w, t, st, bn)
                    /\ \A i \in DOMAIN w.at : ~(Meets(w, t, a, i) /\ Meets(w, t, b, i))
                    /\ \A i \in DOMAIN w.at : Meets(w, t, a, i) \/ Meets(w, t, b, i) =>
                         i \notin bn /\ ~Ahead(w, t, st, i)
                    => Once(w, t, <<a, b>> \o st, bn)
  <1> DEFINE n == Len(st)
             more == <<a, b>> \o st
  <1>1. n \in Nat /\ DOMAIN st = 1..n
    BY DEF n
  <1>2. /\ more \in Seq(S) /\ Len(more) = n + 2 /\ more[1] = a /\ more[2] = b
        /\ \A k \in 1..n : more[k + 2] = st[k]
    <2>1. <<a, b>> \in Seq(S) /\ Len(<<a, b>>) = 2 /\ <<a, b>>[1] = a /\ <<a, b>>[2] = b
      OBVIOUS
    <2>2. QED
      BY <1>1, <2>1
  <1>3. DOMAIN more = 1..(n + 2)
    BY <1>2
  <1> HIDE DEF n, more
  <1>4. 1 \in 1..(n + 2) /\ 2 \in 1..(n + 2) /\ \A k \in 1..n : k + 2 \in 1..(n + 2)
    BY <1>1
  <1>5. \A k \in 1..(n + 2) : k = 1 \/ k = 2 \/ \E l \in 1..n : k = l + 2
    <2> SUFFICES ASSUME NEW k \in 1..(n + 2), k # 1, k # 2
                 PROVE  \E l \in 1..n : k = l + 2
      OBVIOUS
    <2>1. k - 2 \in 1..n /\ k = (k - 2) + 2
      BY <1>1
    <2>2. QED
      BY <2>1
  <1>6. \A i : Ahead(w, t, more, i) <=> (Meets(w, t, a, i) \/ Meets(w, t, b, i) \/ Ahead(w, t, st, i))
    <2> SUFFICES ASSUME NEW i
                 PROVE  (\E k \in 1..(n + 2) : Meets(w, t, more[k], i)) <=>
                          (Meets(w, t, a, i) \/ Meets(w, t, b, i) \/ \E l \in 1..n : Meets(w, t, st[l], i))
      BY <1>1, <1>3 DEF Ahead
    <2>1. \A l \in 1..n : Meets(w, t, st[l], i) <=> Meets(w, t, more[l + 2], i)
      BY <1>2
    <2>2. (Meets(w, t, a, i) <=> Meets(w, t, more[1], i)) /\ (Meets(w, t, b, i) <=> Meets(w, t, more[2], i))
      BY <1>2
    <2>3. ASSUME NEW k \in 1..(n + 2), Meets(w, t, more[k], i)
          PROVE  Meets(w, t, a, i) \/ Meets(w, t, b, i) \/ \E l \in 1..n : Meets(w, t, st[l], i)
      <3>1. CASE k = 1 \/ k = 2
        BY <2>2, <2>3, <3>1
      <3>2. CASE k # 1 /\ k # 2
        <4>1. PICK l \in 1..n : k = l + 2
          BY <1>5, <3>2
        <4>2. QED
          BY <2>1, <2>3, <4>1
      <3>3. QED
        BY <3>1, <3>2
    <2>4. QED
      BY <1>4, <2>1, <2>2, <2>3
  <1>7. ASSUME NEW bn, Once(w, t, st, bn),
               \A i \in DOMAIN w.at : ~(Meets(w, t, a, i) /\ Meets(w, t, b, i)),
               \A i \in DOMAIN w.at : Meets(w, t, a, i) \/ Meets(w, t, b, i) =>
                 i \notin bn /\ ~Ahead(w, t, st, i)
        PROVE  Once(w, t, more, bn)
    <2> SUFFICES ASSUME NEW i \in DOMAIN w.at, NEW k \in 1..(n + 2), Meets(w, t, more[k], i)
                 PROVE  i \notin bn /\ \A l \in 1..(n + 2) : Meets(w, t, more[l], i) => k = l
      BY <1>3 DEF Once
    <2>1. CASE Meets(w, t, a, i)
      <3>1. ~Meets(w, t, b, i) /\ i \notin bn /\ ~\E m \in 1..n : Meets(w, t, st[m], i)
        BY <1>1, <1>7, <2>1 DEF Ahead
      <3>2. \A l \in 1..(n + 2) : Meets(w, t, more[l], i) => l = 1
        <4> SUFFICES ASSUME NEW l \in 1..(n + 2), Meets(w, t, more[l], i), l # 1
                     PROVE  FALSE
          OBVIOUS
        <4>1. l # 2
          BY <1>2, <3>1
        <4>2. PICK m \in 1..n : l = m + 2
          BY <1>5, <4>1
        <4>3. QED
          BY <1>2, <3>1, <4>2
      <3>3. QED
        BY <3>1, <3>2
    <2>2. CASE Meets(w, t, b, i)
      <3>1. ~Meets(w, t, a, i) /\ i \notin bn /\ ~\E m \in 1..n : Meets(w, t, st[m], i)
        BY <1>1, <1>7, <2>2 DEF Ahead
      <3>2. \A l \in 1..(n + 2) : Meets(w, t, more[l], i) => l = 2
        <4> SUFFICES ASSUME NEW l \in 1..(n + 2), Meets(w, t, more[l], i), l # 2
                     PROVE  FALSE
          OBVIOUS
        <4>1. l # 1
          BY <1>2, <3>1
        <4>2. PICK m \in 1..n : l = m + 2
          BY <1>5, <4>1
        <4>3. QED
          BY <1>2, <3>1, <4>2
      <3>3. QED
        BY <3>1, <3>2
    <2>3. CASE ~Meets(w, t, a, i) /\ ~Meets(w, t, b, i)
      <3>1. \A l \in 1..(n + 2) : Meets(w, t, more[l], i) =>
              \E m \in 1..n : l = m + 2 /\ Meets(w, t, st[m], i)
        <4> SUFFICES ASSUME NEW l \in 1..(n + 2), Meets(w, t, more[l], i)
                     PROVE  \E m \in 1..n : l = m + 2 /\ Meets(w, t, st[m], i)
          OBVIOUS
        <4>1. l # 1 /\ l # 2
          BY <1>2, <2>3
        <4>2. PICK m \in 1..n : l = m + 2
          BY <1>5, <4>1
        <4>3. QED
          BY <1>2, <4>2
      <3>2. PICK m \in 1..n : k = m + 2 /\ Meets(w, t, st[m], i)
        BY <3>1
      <3>3. i \notin bn /\ \A l \in 1..n : Meets(w, t, st[l], i) => m = l
        BY <1>1, <1>7, <3>2 DEF Once
      <3>4. QED
        BY <3>1, <3>2, <3>3
    <2>4. QED
      BY <2>1, <2>2, <2>3
  <1>8. QED
    BY <1>2, <1>6, <1>7 DEF more

\* Every atom is below the root; below a split node, it is below one child; below a leaf, in it.
LEMMA RootMeets ==
  ASSUME NEW w, NEW t, DOMAIN t \subseteq Paths, NEW v, v.path = <<>>
  PROVE  \A i : Meets(w, t, v, i)
  <1>1. \A q \in DOMAIN t : ~Above(q, <<>>)
    <2> SUFFICES ASSUME NEW q \in DOMAIN t
                 PROVE  ~(Len(q) < Len(<<>>))
      BY DEF Above
    <2>1. Len(q) \in Nat /\ Len(<<>>) = 0
      BY PathType
    <2>2. QED
      BY <2>1
  <1>2. QED
    BY <1>1 DEF Meets, Leads

LEMMA ChildrenMeet ==
  ASSUME NEW w, NEW n, NEW t, TreeShape(w, t, n), NEW v \in Visits(t), ~IsLeaf(t[v.path]),
         NEW near \in {1, 2},
         NEW a, a.path = Append(v.path, near), NEW b, b.path = Append(v.path, 3 - near)
  PROVE  /\ a.path \in DOMAIN t /\ b.path \in DOMAIN t
         /\ \A i : Meets(w, t, v, i) <=> (Meets(w, t, a, i) \/ Meets(w, t, b, i))
         /\ \A i : ~(Meets(w, t, a, i) /\ Meets(w, t, b, i))
  <1>1. v.path \in DOMAIN t /\ DOMAIN t \subseteq Paths
    BY DEF Visits, TreeShape
  <1>2. Append(v.path, 1) \in DOMAIN t /\ Append(v.path, 2) \in DOMAIN t
    BY <1>1 DEF TreeShape
  <1>3. 3 - near \in {1, 2} /\ 3 - near # near /\ (\A c \in {1, 2} : c = near \/ c = 3 - near)
    OBVIOUS
  <1>4. a.path \in DOMAIN t /\ b.path \in DOMAIN t
    BY <1>2, <1>3
  <1>5. \A i : Meets(w, t, a, i) <=> (Meets(w, t, v, i) /\ near = ChildFor(t[v.path], Wrapped(w, i)))
    BY <1>1, LeadsToChild DEF Meets
  <1>6. \A i : Meets(w, t, b, i) <=> (Meets(w, t, v, i) /\ 3 - near = ChildFor(t[v.path], Wrapped(w, i)))
    BY <1>1, <1>3, LeadsToChild DEF Meets
  <1>7. \A i : ChildFor(t[v.path], Wrapped(w, i)) \in {1, 2}
    BY ChildIsOne
  <1>8. \A i : /\ near = ChildFor(t[v.path], Wrapped(w, i)) \/ 3 - near = ChildFor(t[v.path], Wrapped(w, i))
               /\ ~(near = ChildFor(t[v.path], Wrapped(w, i)) /\ 3 - near = ChildFor(t[v.path], Wrapped(w, i)))
    BY <1>3, <1>7
  <1>9. (\A i : Meets(w, t, v, i) <=> (Meets(w, t, a, i) \/ Meets(w, t, b, i)))
          /\ (\A i : ~(Meets(w, t, a, i) /\ Meets(w, t, b, i)))
    BY <1>5, <1>6, <1>8
  <1>10. QED
    BY <1>4, <1>9

-----------------------------------------------------------------------------
(* The search *)

Pending(i) == i \in bin \/ Ahead(cell, tree, stack, i)

\* What was offered are wanted copies of atoms in the images passed, none twice; and each wanted
\* copy there was offered, is beaten, or is still to come.
SearchInv ==
  phase \in {"searching", "answered"} =>
    /\ stack \in Seq(Visits(tree)) /\ bin \subseteq DOMAIN cell.at
    /\ Once(cell, tree, stack, bin)
    /\ image = 0 => stack = <<>> /\ bin = {}
    /\ \A x \in offered :
         Wanted(x) /\ \E i \in DOMAIN cell.at : \E n \in 1..image : x = NeighborOf(i, n)
    /\ \A i \in DOMAIN cell.at : Pending(i) => NeighborOf(i, image) \notin offered
    /\ \A i \in DOMAIN cell.at : \A n \in 1..image :
         Wanted(NeighborOf(i, n)) => Known(offered, NeighborOf(i, n)) \/ (n = image /\ Pending(i))

Inv == QueueInv /\ Distinct /\ FinderInv /\ QueryInv /\ SearchInv

LEMMA NeighborType ==
  ASSUME FinderInv, QueryInv, Standing, NEW i \in DOMAIN cell.at, NEW n \in DOMAIN pbcImages
  PROVE  /\ NeighborOf(i, n) \in Elements
         /\ NeighborOf(i, n).index = i /\ NeighborOf(i, n).image = n
         /\ Delta(i, n) \in [Axes(cell) -> Int]
         /\ \A k \in Axes(cell) : Delta(i, n)[k] = Wrapped(cell, i)[k] - query.point[k] + pbcImages[n][k]
         /\ NeighborOf(i, n).distanceSq = SquaredLength(Delta(i, n))
         /\ NeighborOf(i, n).distanceSq =
              SquaredLength(Minus(Wrapped(cell, i), Minus(query.point, pbcImages[n])))
         /\ Minus(query.point, pbcImages[n]) \in [Axes(cell) -> Int]
  <1> DEFINE A == Axes(cell)
             q == query.point
             s == pbcImages[n]
             a == Wrapped(cell, i)
  <1>1. /\ a \in [A -> Int] /\ q \in [A -> Int] /\ s \in [A -> Int]
        /\ i \in Nat /\ n \in Nat
    <2>1. cell \in Worlds /\ ~Degenerate(cell)
      BY DEF FinderInv
    <2>2. a \in [A -> Int]
      BY <2>1, WrappedType
    <2>3. q \in [A -> Int]
      BY DEF QueryInv
    <2>4. s \in [A -> Int] /\ n \in Nat
      BY DEF FinderInv
    <2>5. i \in Nat
      BY <2>1, WorldType
    <2>6. QED
      BY <2>2, <2>3, <2>4, <2>5
  <1>2. Delta(i, n) = Plus(Minus(a, q), s)
    BY DEF Delta
  <1>3. A \in SUBSET (1..3)
    BY WorldType DEF FinderInv
  <1> HIDE DEF A, q, s, a
  <1>4. Minus(a, q) \in [A -> Int] /\ \A k \in A : Minus(a, q)[k] = a[k] - q[k]
    BY <1>1, DifferenceType
  <1>5. Delta(i, n) \in [A -> Int] /\ \A k \in A : Delta(i, n)[k] = a[k] - q[k] + s[k]
    BY <1>1, <1>2, <1>4, DifferenceType
  <1>6. Minus(q, s) \in [A -> Int] /\ \A k \in A : Minus(q, s)[k] = q[k] - s[k]
    BY <1>1, DifferenceType
  <1>7. Minus(a, Minus(q, s)) \in [A -> Int]
          /\ \A k \in A : Minus(a, Minus(q, s))[k] = a[k] - (q[k] - s[k])
    BY <1>1, <1>6, DifferenceType
  <1>8. Minus(a, Minus(q, s)) = Delta(i, n)
    <2>1. \A k \in A : a[k] \in Int /\ q[k] \in Int /\ s[k] \in Int
      BY <1>1
    <2>2. \A k \in A : Minus(a, Minus(q, s))[k] = Delta(i, n)[k]
      BY <1>5, <1>7, <2>1
    <2>3. QED
      BY <1>5, <1>7, <2>2
  <1>9. SquaredLength(Delta(i, n)) \in Nat
    BY <1>3, <1>5, LengthType
  <1>10. NeighborOf(i, n) \in Elements
    BY <1>1, <1>9 DEF NeighborOf, Elements
  <1>11. QED
    BY <1>5, <1>6, <1>8, <1>10 DEF NeighborOf, A, q, s, a

\* A subtree that is not worth visiting has only copies that are beaten.
LEMMA PruningLosesNothing ==
  ASSUME QueueInv, Distinct, FinderInv, QueryInv, Standing, inserted = Len(cell.at), mode = "idle",
         NEW n \in DOMAIN pbcImages, NEW v \in Visits(tree),
         ~WorthVisiting(v.path, Minus(query.point, pbcImages[n])),
         NEW i \in DOMAIN cell.at, Meets(cell, tree, v, i)
  PROVE  Known(offered, NeighborOf(i, n))
  <1> DEFINE q == Minus(query.point, pbcImages[n])
             box == tree[v.path].bounds
             x == NeighborOf(i, n)
             m == MinimumDistance(box, q)
             d == SquaredLength(Minus(Wrapped(cell, i), q))
  <1>1. Full /\ ~(heap[1].distanceSq > m)
    BY DEF WorthVisiting
  <1>2. x \in Elements /\ x.distanceSq = d /\ q \in [Axes(cell) -> Int]
    BY NeighborType
  <1>3. v.path \in DOMAIN tree
    BY DEF Visits
  <1>4. cell \in Worlds /\ ~Degenerate(cell) /\ TreeInv(cell, tree, inserted)
    BY DEF FinderInv
  <1>5. Wrapped(cell, i) \in [Axes(cell) -> Int] /\ Axes(cell) \in SUBSET (1..3)
    BY <1>4, WorldType, WrappedType
  <1>6. Within(Wrapped(cell, i), box)
    BY <1>3, <1>4 DEF TreeInv, TreeBounds, Meets
  <1>7. box \in Boxes(Axes(cell))
    <2>1. tree[v.path] \in Nodes(cell, inserted)
      BY <1>3, <1>4 DEF TreeInv, TreeShape
    <2>2. QED
      BY <2>1 DEF Nodes
  <1> HIDE DEF q, box, x
  <1>8. m \in Nat /\ m <= d
    BY <1>2, <1>5, <1>6, <1>7, BoxIsNear
  <1>9. d \in Nat
    BY <1>2, <1>5, DifferenceType, LengthType
  <1>10. heap[1] \in Elements
    BY <1>1, HeapElements, MaxSizeAssumption DEF QueueInv, Full
  <1>11. heap[1].distanceSq \in Int
    BY <1>10, ElementsType
  <1>12. Leq(heap[1], x)
    <2> HIDE DEF m, d
    <2>1. heap[1].distanceSq <= d
      BY <1>1, <1>8, <1>9, <1>11
    <2>2. QED
      BY <1>2, <2>1 DEF Leq
  <1>13. Known(offered, x)
    BY <1>1, <1>2, <1>12, FullBeats DEF Known
  <1>14. QED
    BY <1>13 DEF x

LEMMA SameNeighbors ==
  ASSUME UNCHANGED <<cell, query, pbcImages>>
  PROVE  /\ \A i, n : NeighborOf(i, n)' = NeighborOf(i, n)
         /\ \A x : Wanted(x)' <=> Wanted(x)
  BY DEF NeighborOf, Delta, Wanted

\* What a step has to show
LEMMA SearchStep ==
  ASSUME UNCHANGED <<cell, tree, pbcImages, query>>,
         stack' \in Seq(Visits(tree)), bin' \subseteq DOMAIN cell.at,
         Once(cell, tree, stack', bin'), image' = 0 => stack' = <<>> /\ bin' = {},
         \A x \in offered' :
           Wanted(x) /\ \E i \in DOMAIN cell.at : \E n \in 1..image' : x = NeighborOf(i, n),
         \A i \in DOMAIN cell.at :
           i \in bin' \/ Ahead(cell, tree, stack', i) => NeighborOf(i, image') \notin offered',
         \A i \in DOMAIN cell.at : \A n \in 1..image' :
           Wanted(NeighborOf(i, n)) =>
             \/ Known(offered', NeighborOf(i, n))
             \/ n = image' /\ (i \in bin' \/ Ahead(cell, tree, stack', i))
  PROVE  SearchInv'
  <1>1. /\ \A i, n : NeighborOf(i, n)' = NeighborOf(i, n)
        /\ \A x : Wanted(x)' <=> Wanted(x)
    BY SameNeighbors
  <1>2. \A i : Pending(i)' <=> (i \in bin' \/ Ahead(cell, tree, stack', i))
    BY DEF Pending
  <1>3. QED
    BY <1>1, <1>2 DEF SearchInv

LEMMA QueueKept ==
  ASSUME QueueInv, Distinct, UNCHANGED queueVars
  PROVE  QueueInv' /\ Distinct'
  <1>1. QueueInv'
    BY QueueInvInductive
  <1>2. Distinct'
    BY DEF Distinct, Sifting, queueVars
  <1>3. QED
    BY <1>1, <1>2

\* The wait for an answer: nothing has been covered yet, and nothing is pending.
LEMMA NotSearching ==
  ASSUME phase' \in {"new", "preparing", "ready", "thrown"}
  PROVE  SearchInv'
  BY DEF SearchInv

LEMMA BeginQueryKeeps ==
  ASSUME Inv, NEW p \in [Axes(cell) -> Int], NEW includeSelf \in BOOLEAN, BeginQuery(p, includeSelf)
  PROVE  Inv'
  <1>1. /\ phase \in {"ready", "answered"} /\ phase' = "searching" /\ Clear /\ UNCHANGED finder
        /\ query' = [point |-> p, includeSelf |-> includeSelf]
        /\ image' = 0 /\ stack' = <<>> /\ bin' = {}
    BY DEF BeginQuery
  <1>2. QueueInv' /\ Distinct'
    BY <1>1, ClearKeeps, ClearMakesDistinct DEF Inv
  <1>3. FinderInv'
    BY <1>1, FinderKept DEF Inv
  <1>4. mode' = "idle" /\ offered' = {}
    BY <1>1 DEF Clear
  <1>5. pbcImages' = pbcImages /\ cell' = cell /\ tree' = tree
    BY <1>1 DEF finder
  <1>6. QueryInv'
    <2>1. Len(pbcImages) \in Nat
      BY DEF Inv, FinderInv
    <2>2. image' \in 0..Len(pbcImages')
      BY <1>1, <1>5, <2>1
    <2>3. QED
      BY <1>1, <1>4, <1>5, <2>2 DEF QueryInv
  <1>7. SearchInv'
    <2>1. stack' \in Seq(Visits(tree')) /\ bin' \subseteq DOMAIN cell'.at
      BY <1>1
    <2>2. Once(cell', tree', stack', bin')
      BY <1>1 DEF Once
    <2>3. 1..0 = {}
      OBVIOUS
    <2>4. QED
      BY <1>1, <1>4, <2>1, <2>2, <2>3 DEF SearchInv
  <1>8. QED
    BY <1>2, <1>3, <1>6, <1>7 DEF Inv

\* What holds in a search between insertions
LEMMA Searches ==
  ASSUME Inv, Searching
  PROVE  /\ QueueInv /\ Distinct /\ FinderInv /\ QueryInv /\ SearchInv
         /\ phase = "searching" /\ mode = "idle" /\ Standing /\ inserted = Len(cell.at)
         /\ DOMAIN pbcImages = 1..Len(pbcImages) /\ Len(pbcImages) \in Nat /\ image \in 0..Len(pbcImages)
         /\ cell \in Worlds /\ ~Degenerate(cell) /\ TreeInv(cell, tree, inserted)
         /\ TreeShape(cell, tree, inserted) /\ DOMAIN cell.at = 1..inserted
         /\ stack \in Seq(Visits(tree)) /\ bin \subseteq DOMAIN cell.at
         /\ Once(cell, tree, stack, bin)
         /\ (stack # <<>> => image \in DOMAIN pbcImages) /\ (bin # {} => image \in DOMAIN pbcImages)
  <1>1. phase = "searching" /\ mode = "idle" /\ Standing
    BY DEF Searching, Standing
  <1>2. QueueInv /\ Distinct /\ FinderInv /\ QueryInv /\ SearchInv
    BY DEF Inv
  <1>3. /\ inserted = Len(cell.at) /\ cell \in Worlds /\ ~Degenerate(cell) /\ TreeInv(cell, tree, inserted)
        /\ TreeShape(cell, tree, inserted)
    BY <1>1, <1>2 DEF FinderInv, TreeInv
  <1>4. DOMAIN cell.at = 1..inserted
    BY <1>3, WorldType
  <1>5. DOMAIN pbcImages = 1..Len(pbcImages) /\ Len(pbcImages) \in Nat /\ image \in 0..Len(pbcImages)
    BY <1>2 DEF FinderInv, QueryInv
  <1>6. /\ stack \in Seq(Visits(tree)) /\ bin \subseteq DOMAIN cell.at
        /\ Once(cell, tree, stack, bin) /\ (image = 0 => stack = <<>> /\ bin = {})
    BY <1>1, <1>2 DEF SearchInv
  <1>7. image # 0 => image \in DOMAIN pbcImages
    BY <1>5
  <1>8. QED
    BY <1>1, <1>2, <1>3, <1>4, <1>5, <1>6, <1>7

\* A step that moves the search on and leaves the queue alone
LEMMA QuietStep ==
  ASSUME Inv, Searching, UNCHANGED <<phase, finder, query, queueVars>>,
         image' \in 0..Len(pbcImages), SearchInv'
  PROVE  Inv'
  <1>1. QueueInv' /\ Distinct'
    BY QueueKept DEF Inv
  <1>2. FinderInv'
    BY Searches, FinderKept
  <1>3. phase' = "searching" /\ mode' = "idle" /\ pbcImages' = pbcImages /\ cell' = cell
    BY DEF Searching, finder, queueVars
  <1>4. QueryInv'
    BY <1>3 DEF Inv, QueryInv
  <1>5. QED
    BY <1>1, <1>2, <1>4 DEF Inv

LEMMA NextImageKeeps ==
  ASSUME Inv, NextImage
  PROVE  Inv'
  <1> DEFINE q == Minus(query.point, pbcImages[image + 1])
             root == Visit(<<>>, FALSE)
  <1>1. /\ Searching /\ stack = <<>> /\ bin = {} /\ image < Len(pbcImages) /\ image' = image + 1
        /\ UNCHANGED <<phase, finder, query, queueVars>> /\ bin' = {} /\ offered' = offered
        /\ stack' = IF WorthVisiting(<<>>, q) THEN <<root>> ELSE <<>>
    BY DEF NextImage, Resting, queueVars
  <1>2. /\ QueueInv /\ Distinct /\ FinderInv /\ QueryInv /\ SearchInv
        /\ phase = "searching" /\ mode = "idle" /\ Standing /\ inserted = Len(cell.at)
        /\ TreeShape(cell, tree, inserted) /\ image \in Nat /\ Len(pbcImages) \in Nat
        /\ DOMAIN pbcImages = 1..Len(pbcImages)
    BY <1>1, Searches
  <1>3. image + 1 \in DOMAIN pbcImages /\ image' \in 0..Len(pbcImages) /\ image' # 0
    BY <1>1, <1>2
  <1>4. 1..image \subseteq 1..(image + 1) /\ image + 1 \notin 1..image
        /\ (\A n \in 1..(image + 1) : n \in 1..image \/ n = image + 1)
    BY <1>2
  <1>5. root \in Visits(tree) /\ root.path = <<>> /\ DOMAIN tree \subseteq Paths
    BY <1>2 DEF TreeShape, Visits, Visit
  <1>6. \A i : Meets(cell, tree, root, i)
    BY <1>5, RootMeets
  <1>7. \A i \in DOMAIN cell.at : NeighborOf(i, image + 1) \notin offered
    <2>1. \A x \in offered : \E i \in DOMAIN cell.at : \E n \in 1..image : x = NeighborOf(i, n)
      BY <1>2 DEF SearchInv
    <2>2. \A i, n : NeighborOf(i, n).image = n
      BY DEF NeighborOf
    <2>3. QED
      BY <1>4, <2>1, <2>2
  <1>8. \A i \in DOMAIN cell.at : \A n \in 1..image :
          Wanted(NeighborOf(i, n)) => Known(offered, NeighborOf(i, n))
    <2>1. \A i : ~Pending(i)
      BY <1>1 DEF Pending, Ahead
    <2>2. QED
      BY <1>2, <2>1 DEF SearchInv
  <1>9. \A x \in offered' :
          Wanted(x) /\ \E i \in DOMAIN cell.at : \E n \in 1..image' : x = NeighborOf(i, n)
    BY <1>1, <1>2, <1>4 DEF SearchInv
  <1>10. /\ stack' \in Seq(Visits(tree)) /\ Once(cell, tree, stack', bin')
         /\ WorthVisiting(<<>>, q) => \A i : Ahead(cell, tree, stack', i)
    <2> HIDE DEF root, q
    <2>1. CASE WorthVisiting(<<>>, q)
      <3>1. stack' = <<root>>
        BY <1>1, <2>1
      <3>2. stack' \in Seq(Visits(tree)) /\ DOMAIN stack' = {1} /\ stack'[1] = root
        BY <1>5, <3>1
      <3>3. \A i : Ahead(cell, tree, stack', i)
        BY <1>6, <3>2 DEF Ahead
      <3>4. Once(cell, tree, stack', bin')
        BY <1>1, <3>2 DEF Once
      <3>5. QED
        BY <3>2, <3>3, <3>4
    <2>2. CASE ~WorthVisiting(<<>>, q)
      <3>1. stack' = <<>>
        BY <1>1, <2>2
      <3>2. stack' \in Seq(Visits(tree)) /\ DOMAIN stack' = {}
        BY <3>1
      <3>3. QED
        BY <2>2, <3>2 DEF Once
    <2>3. QED
      BY <2>1, <2>2
  <1>11. \A i \in DOMAIN cell.at : Wanted(NeighborOf(i, image + 1)) =>
           Known(offered, NeighborOf(i, image + 1)) \/ Ahead(cell, tree, stack', i)
    <2>1. CASE WorthVisiting(<<>>, q)
      BY <1>10, <2>1
    <2>2. CASE ~WorthVisiting(<<>>, q)
      <3>1. ~WorthVisiting(root.path, q)
        BY <1>5, <2>2
      <3> HIDE DEF root
      <3>2. \A i \in DOMAIN cell.at : Known(offered, NeighborOf(i, image + 1))
        BY <1>2, <1>3, <1>5, <1>6, <3>1, PruningLosesNothing
      <3>3. QED
        BY <3>2
    <2>3. QED
      BY <2>1, <2>2
  <1>12. SearchInv'
    <2> HIDE DEF root, q
    <2>1. UNCHANGED <<cell, tree, pbcImages, query>>
      BY <1>1 DEF finder
    <2>2. \A i \in DOMAIN cell.at :
            i \in bin' \/ Ahead(cell, tree, stack', i) => NeighborOf(i, image') \notin offered'
      BY <1>1, <1>7
    <2>3. \A i \in DOMAIN cell.at : \A n \in 1..image' :
            Wanted(NeighborOf(i, n)) =>
              \/ Known(offered', NeighborOf(i, n))
              \/ n = image' /\ (i \in bin' \/ Ahead(cell, tree, stack', i))
      BY <1>1, <1>4, <1>8, <1>11
    <2>4. bin' \subseteq DOMAIN cell.at
      BY <1>1
    <2>5. QED
      BY <1>3, <1>9, <1>10, <2>1, <2>2, <2>3, <2>4, SearchStep
  <1>13. QED
    BY <1>1, <1>3, <1>12, QuietStep

\* Moves within one image: nothing is offered, and what is dropped from the stack is known.
LEMMA StackStep ==
  ASSUME Inv, Searching, UNCHANGED <<phase, finder, query, image, queueVars>>,
         image \in DOMAIN pbcImages,
         stack' \in Seq(Visits(tree)), bin' \subseteq DOMAIN cell.at, Once(cell, tree, stack', bin'),
         \A i \in DOMAIN cell.at : i \in bin' \/ Ahead(cell, tree, stack', i) => Pending(i),
         \A i \in DOMAIN cell.at : Pending(i) =>
           i \in bin' \/ Ahead(cell, tree, stack', i) \/ Known(offered, NeighborOf(i, image))
  PROVE  Inv'
  <1>1. SearchInv /\ phase = "searching" /\ image \in 0..Len(pbcImages) /\ image # 0
    BY Searches
  <1>2. UNCHANGED <<cell, tree, pbcImages, query, image, offered>>
    BY DEF finder, queueVars
  <1>3. /\ \A x \in offered :
             Wanted(x) /\ \E i \in DOMAIN cell.at : \E n \in 1..image : x = NeighborOf(i, n)
        /\ \A i \in DOMAIN cell.at : Pending(i) => NeighborOf(i, image) \notin offered
        /\ \A i \in DOMAIN cell.at : \A n \in 1..image :
             Wanted(NeighborOf(i, n)) => Known(offered, NeighborOf(i, n)) \/ (n = image /\ Pending(i))
    BY <1>1 DEF SearchInv
  <1>4. \A i \in DOMAIN cell.at :
          i \in bin' \/ Ahead(cell, tree, stack', i) => NeighborOf(i, image') \notin offered'
    BY <1>2, <1>3
  <1>5. \A i \in DOMAIN cell.at : \A n \in 1..image' :
          Wanted(NeighborOf(i, n)) =>
            \/ Known(offered', NeighborOf(i, n))
            \/ n = image' /\ (i \in bin' \/ Ahead(cell, tree, stack', i))
    BY <1>2, <1>3
  <1>6. /\ \A x \in offered' :
             Wanted(x) /\ \E i \in DOMAIN cell.at : \E n \in 1..image' : x = NeighborOf(i, n)
        /\ image' # 0
    BY <1>1, <1>2, <1>3
  <1>7. SearchInv'
    BY <1>2, <1>4, <1>5, <1>6, SearchStep
  <1>8. image' \in 0..Len(pbcImages)
    BY <1>1, <1>2
  <1>9. QED
    BY <1>7, <1>8, QuietStep

LEMMA SkipKeeps ==
  ASSUME Inv, Skip
  PROVE  Inv'
  <1> DEFINE v == Head(stack)
             rest == Tail(stack)
  <1>1. /\ Searching /\ bin = {} /\ stack # <<>> /\ stack' = rest /\ bin' = bin
        /\ UNCHANGED <<phase, finder, query, image, queueVars>>
        /\ ~WorthVisiting(v.path, Minus(query.point, pbcImages[image]))
    BY DEF Skip, Pruned, Shifted
  <1>2. /\ QueueInv /\ Distinct /\ FinderInv /\ QueryInv
        /\ mode = "idle" /\ Standing /\ inserted = Len(cell.at)
        /\ image \in DOMAIN pbcImages /\ stack \in Seq(Visits(tree)) /\ bin \subseteq DOMAIN cell.at
        /\ Once(cell, tree, stack, bin)
    BY <1>1, Searches
  <1>3. /\ v \in Visits(tree) /\ rest \in Seq(Visits(tree)) /\ Once(cell, tree, rest, bin)
        /\ \A i : Ahead(cell, tree, stack, i) <=> (Meets(cell, tree, v, i) \/ Ahead(cell, tree, rest, i))
    BY <1>1, <1>2, PoppedStack
  <1> HIDE DEF v, rest
  <1>4. \A i \in DOMAIN cell.at : Meets(cell, tree, v, i) => Known(offered, NeighborOf(i, image))
    BY <1>1, <1>2, <1>3, PruningLosesNothing
  <1>5. /\ \A i \in DOMAIN cell.at : i \in bin' \/ Ahead(cell, tree, stack', i) => Pending(i)
        /\ \A i \in DOMAIN cell.at : Pending(i) =>
             i \in bin' \/ Ahead(cell, tree, stack', i) \/ Known(offered, NeighborOf(i, image))
    BY <1>1, <1>3, <1>4 DEF Pending
  <1>6. stack' \in Seq(Visits(tree)) /\ bin' \subseteq DOMAIN cell.at /\ Once(cell, tree, stack', bin')
    BY <1>1, <1>2, <1>3
  <1>7. QED
    BY <1>1, <1>2, <1>5, <1>6, StackStep

LEMMA VisitNodeKeeps ==
  ASSUME Inv, VisitNode
  PROVE  Inv'
  <1> DEFINE v == Head(stack)
             rest == Tail(stack)
             near == ChildFor(tree[v.path], Shifted)
             a == Visit(Append(v.path, near), FALSE)
             b == Visit(Append(v.path, 3 - near), TRUE)
  <1>1. /\ Searching /\ bin = {} /\ stack # <<>>
        /\ UNCHANGED <<phase, finder, query, image, queueVars>>
        /\ IF IsLeaf(tree[v.path]) THEN bin' = tree[v.path].atoms /\ stack' = rest
           ELSE stack' = <<a, b>> \o rest /\ bin' = bin
    BY Zenon DEF VisitNode
  <1>2. /\ image \in DOMAIN pbcImages /\ stack \in Seq(Visits(tree))
        /\ Once(cell, tree, stack, bin) /\ TreeShape(cell, tree, inserted)
        /\ TreeInv(cell, tree, inserted) /\ DOMAIN cell.at = 1..inserted
    BY <1>1, Searches
  <1>3. /\ v \in Visits(tree) /\ rest \in Seq(Visits(tree))
        /\ \A i : Ahead(cell, tree, stack, i) <=> (Meets(cell, tree, v, i) \/ Ahead(cell, tree, rest, i))
        /\ Once(cell, tree, rest, bin)
        /\ \A i \in DOMAIN cell.at : Meets(cell, tree, v, i) => i \notin bin /\ ~Ahead(cell, tree, rest, i)
    BY <1>1, <1>2, PoppedStack
  <1>4. v.path \in DOMAIN tree
    BY <1>3 DEF Visits
  <1> HIDE DEF v, rest
  <1>5. CASE IsLeaf(tree[v.path])
    <2>1. bin' = tree[v.path].atoms /\ stack' = rest
      BY <1>1, <1>5
    <2>2. bin' \subseteq DOMAIN cell.at
      <3>1. tree[v.path] \in Nodes(cell, inserted)
        BY <1>2, <1>4 DEF TreeShape
      <3>2. QED
        BY <1>2, <2>1, <3>1 DEF Nodes
    <2>3. \A i \in DOMAIN cell.at : i \in bin' <=> Meets(cell, tree, v, i)
      BY <1>2, <1>4, <1>5, <2>1 DEF TreeInv, TreeSorts, Meets
    <2>4. Once(cell, tree, rest, bin')
      BY <1>3, <2>3 DEF Once, Ahead
    <2>5. /\ \A i \in DOMAIN cell.at : i \in bin' \/ Ahead(cell, tree, stack', i) => Pending(i)
          /\ \A i \in DOMAIN cell.at : Pending(i) => i \in bin' \/ Ahead(cell, tree, stack', i)
      BY <1>1, <1>3, <2>1, <2>3 DEF Pending
    <2>6. QED
      BY <1>1, <1>2, <1>3, <2>1, <2>2, <2>4, <2>5, StackStep
  <1>6. CASE ~IsLeaf(tree[v.path])
    <2>1. stack' = <<a, b>> \o rest /\ bin' = bin
      BY <1>1, <1>6
    <2>2. near \in {1, 2}
      BY ChildIsOne
    <2>3. /\ a.path = Append(v.path, near) /\ b.path = Append(v.path, 3 - near)
          /\ \A t : a.path \in DOMAIN t => a \in Visits(t)
          /\ \A t : b.path \in DOMAIN t => b \in Visits(t)
      BY DEF Visit, Visits
    <2> HIDE DEF near, a, b
    <2>4. /\ a.path \in DOMAIN tree /\ b.path \in DOMAIN tree
          /\ \A i : Meets(cell, tree, v, i) <=> (Meets(cell, tree, a, i) \/ Meets(cell, tree, b, i))
          /\ \A i : ~(Meets(cell, tree, a, i) /\ Meets(cell, tree, b, i))
      BY <1>2, <1>3, <1>6, <2>2, <2>3, ChildrenMeet
    <2>5. /\ <<a, b>> \o rest \in Seq(Visits(tree))
          /\ \A i : Ahead(cell, tree, <<a, b>> \o rest, i) <=>
                      (Meets(cell, tree, a, i) \/ Meets(cell, tree, b, i) \/ Ahead(cell, tree, rest, i))
          /\ Once(cell, tree, <<a, b>> \o rest, bin)
      <3>1. a \in Visits(tree) /\ b \in Visits(tree)
        BY <2>3, <2>4
      <3>2. \A i \in DOMAIN cell.at : ~(Meets(cell, tree, a, i) /\ Meets(cell, tree, b, i))
        BY <2>4
      <3>3. \A i \in DOMAIN cell.at : Meets(cell, tree, a, i) \/ Meets(cell, tree, b, i) =>
              i \notin bin /\ ~Ahead(cell, tree, rest, i)
        BY <1>3, <2>4
      <3>4. rest \in Seq(Visits(tree)) /\ Once(cell, tree, rest, bin)
        BY <1>3
      <3>5. QED
        BY <3>1, <3>2, <3>3, <3>4, PushedStack
    <2>6. /\ \A i \in DOMAIN cell.at : i \in bin' \/ Ahead(cell, tree, stack', i) => Pending(i)
          /\ \A i \in DOMAIN cell.at : Pending(i) => i \in bin' \/ Ahead(cell, tree, stack', i)
      BY <1>3, <2>1, <2>4, <2>5 DEF Pending
    <2>7. bin' \subseteq DOMAIN cell.at
      BY <1>1, <2>1
    <2>8. stack' \in Seq(Visits(tree)) /\ Once(cell, tree, stack', bin')
      BY <2>1, <2>5
    <2>9. QED
      BY <1>1, <1>2, <2>6, <2>7, <2>8, StackStep
  <1>7. QED
    BY <1>5, <1>6

LEMMA VisitAtomKeeps ==
  ASSUME Inv, VisitAtom
  PROVE  Inv'
  <1>1. Searching /\ UNCHANGED <<phase, finder, query, image, stack>>
    BY DEF VisitAtom
  <1>2. PICK i \in bin : /\ bin' = bin \ {i}
                         /\ IF Wanted(NeighborOf(i, image)) THEN Insert(NeighborOf(i, image))
                            ELSE UNCHANGED queueVars
    BY Zenon DEF VisitAtom
  <1>3. /\ QueueInv /\ Distinct /\ FinderInv /\ QueryInv /\ SearchInv
        /\ phase = "searching" /\ mode = "idle" /\ Standing
        /\ image \in DOMAIN pbcImages /\ image \in 0..Len(pbcImages) /\ image # 0 /\ image \in 1..image
        /\ stack \in Seq(Visits(tree)) /\ bin \subseteq DOMAIN cell.at
        /\ Once(cell, tree, stack, bin)
    <2>1. bin # {}
      OBVIOUS
    <2>2. QED
      BY <1>1, <2>1, Searches
  <1> DEFINE x == NeighborOf(i, image)
  <1>4. i \in DOMAIN cell.at /\ Pending(i) /\ ~Ahead(cell, tree, stack, i)
    BY <1>3 DEF Pending, Once, Ahead
  <1>5. x \in Elements /\ x \notin offered
    BY <1>3, <1>4, NeighborType DEF SearchInv
  <1>6. \A j \in DOMAIN cell.at : j # i => NeighborOf(j, image) # x
    BY DEF NeighborOf
  <1>7. UNCHANGED <<cell, tree, pbcImages, query, image, stack, phase>>
    BY <1>1 DEF finder
  <1>8. /\ \A j \in DOMAIN cell.at : j \in bin' \/ Ahead(cell, tree, stack', j) => Pending(j) /\ j # i
        /\ \A j \in DOMAIN cell.at : Pending(j) => j = i \/ j \in bin' \/ Ahead(cell, tree, stack', j)
    BY <1>2, <1>4, <1>7 DEF Pending
  <1>9. /\ QueueInv' /\ Distinct' /\ offered \subseteq offered' /\ offered' \subseteq offered \cup {x}
        /\ (x \in offered' => Wanted(x)) /\ (Wanted(x) => x \in offered') /\ mode' # "sorted"
    <2>1. CASE Wanted(x)
      <3>1. Insert(x)
        BY <1>2, <2>1
      <3>2. offered' = offered \cup {x} /\ mode' # "sorted"
        BY <3>1 DEF Insert
      <3>3. QED
        BY <1>3, <1>5, <2>1, <3>1, <3>2, InsertKeeps, InsertKeepsDistinct
    <2>2. CASE ~Wanted(x)
      <3>1. UNCHANGED queueVars
        BY <1>2, <2>2
      <3>2. offered' = offered /\ mode' = mode
        BY <3>1 DEF queueVars
      <3>3. QED
        BY <1>3, <1>5, <2>2, <3>1, <3>2, QueueKept
    <2>3. QED
      BY <2>1, <2>2
  <1>10. /\ \A y \in offered :
              Wanted(y) /\ \E j \in DOMAIN cell.at : \E n \in 1..image : y = NeighborOf(j, n)
         /\ \A j \in DOMAIN cell.at : Pending(j) => NeighborOf(j, image) \notin offered
         /\ \A j \in DOMAIN cell.at : \A n \in 1..image :
              Wanted(NeighborOf(j, n)) => Known(offered, NeighborOf(j, n)) \/ (n = image /\ Pending(j))
    BY <1>3 DEF SearchInv
  <1>11. SearchInv'
    <2>1. \A y \in offered' :
            Wanted(y) /\ \E j \in DOMAIN cell.at : \E n \in 1..image' : y = NeighborOf(j, n)
      <3> SUFFICES ASSUME NEW y \in offered'
                   PROVE  Wanted(y) /\ \E j \in DOMAIN cell.at : \E n \in 1..image : y = NeighborOf(j, n)
        BY <1>7
      <3>1. CASE y \in offered
        BY <1>10, <3>1
      <3>2. CASE y = x
        BY <1>3, <1>4, <1>9, <3>2
      <3>3. QED
        BY <1>9, <3>1, <3>2
    <2>2. \A j \in DOMAIN cell.at :
            j \in bin' \/ Ahead(cell, tree, stack', j) => NeighborOf(j, image') \notin offered'
      <3> HIDE DEF x
      <3> QED BY <1>6, <1>7, <1>8, <1>9, <1>10
    <2>3. \A j \in DOMAIN cell.at : \A n \in 1..image' :
            Wanted(NeighborOf(j, n)) =>
              \/ Known(offered', NeighborOf(j, n))
              \/ n = image' /\ (j \in bin' \/ Ahead(cell, tree, stack', j))
      <3> SUFFICES ASSUME NEW j \in DOMAIN cell.at, NEW n \in 1..image, Wanted(NeighborOf(j, n)),
                          ~(n = image /\ (j \in bin' \/ Ahead(cell, tree, stack', j)))
                   PROVE  Known(offered', NeighborOf(j, n))
        BY <1>7
      <3>1. CASE Known(offered, NeighborOf(j, n))
        BY <1>9, <3>1, KnownGrows
      <3>2. CASE n = image /\ j = i
        BY <1>9, <3>2 DEF Known
      <3>3. QED
        BY <1>8, <1>10, <3>1, <3>2
    <2>4. bin' \subseteq DOMAIN cell.at /\ stack' \in Seq(Visits(tree)) /\ image' # 0
      BY <1>2, <1>3, <1>7
    <2>5. Once(cell, tree, stack', bin')
      BY <1>2, <1>3, <1>7 DEF Once
    <2> HIDE DEF x
    <2>6. QED
      BY <1>7, <2>1, <2>2, <2>3, <2>4, <2>5, SearchStep
  <1>12. FinderInv'
    BY <1>1, <1>3, FinderKept
  <1>13. QueryInv'
    BY <1>3, <1>7, <1>9 DEF QueryInv
  <1>14. QED
    BY <1>9, <1>11, <1>12, <1>13 DEF Inv

\* The search stands still while the queue moves.
LEMMA SearchKept ==
  ASSUME SearchInv, phase \in {"searching", "answered"},
         UNCHANGED <<finder, search, offered>>
  PROVE  SearchInv'
  <1>1. UNCHANGED <<cell, tree, pbcImages, query, stack, bin, image, offered>>
    BY DEF finder, search
  <1>2. /\ stack \in Seq(Visits(tree)) /\ bin \subseteq DOMAIN cell.at
        /\ Once(cell, tree, stack, bin)
        /\ image = 0 => stack = <<>> /\ bin = {}
        /\ \A x \in offered :
             Wanted(x) /\ \E i \in DOMAIN cell.at : \E n \in 1..image : x = NeighborOf(i, n)
        /\ \A i \in DOMAIN cell.at : Pending(i) => NeighborOf(i, image) \notin offered
        /\ \A i \in DOMAIN cell.at : \A n \in 1..image :
             Wanted(NeighborOf(i, n)) => Known(offered, NeighborOf(i, n)) \/ (n = image /\ Pending(i))
    BY DEF SearchInv
  <1>3. \A i : Pending(i) <=> (i \in bin' \/ Ahead(cell, tree, stack', i))
    BY <1>1 DEF Pending
  <1>4. QED
    BY <1>1, <1>2, <1>3, SearchStep

LEMMA SiftKeeps ==
  ASSUME Inv, Sift
  PROVE  Inv'
  <1>1. phase = "searching" /\ (SiftDown \/ SiftUp \/ Place) /\ UNCHANGED <<phase, finder, search>>
    BY DEF Sift
  <1>2. offered' = offered /\ mode' # "sorted"
    BY <1>1 DEF SiftDown, SiftUp, Place, MoveHole
  <1>3. QueueInv' /\ Distinct'
    <2>1. QueueNext
      BY <1>1 DEF QueueNext
    <2>2. QED
      BY <1>1, <2>1, QueueInvInductive, SiftingKeepsDistinct DEF Inv
  <1>4. SearchInv'
    BY <1>1, <1>2, SearchKept DEF Inv
  <1>5. FinderInv'
    BY <1>1, FinderKept DEF Inv
  <1>6. QueryInv'
    BY <1>1, <1>2 DEF Inv, QueryInv, finder, search
  <1>7. QED
    BY <1>3, <1>4, <1>5, <1>6 DEF Inv

LEMMA FinishKeeps ==
  ASSUME Inv, Finish
  PROVE  Inv'
  <1>1. /\ phase = "searching" /\ stack = <<>> /\ bin = {} /\ image = Len(pbcImages) /\ Sort
        /\ phase' = "answered" /\ UNCHANGED <<finder, search>>
    BY DEF Finish, Resting, Searching
  <1>2. offered' = offered /\ mode' = "sorted" /\ Ascending(heap')
    BY <1>1 DEF Sort
  <1>3. QueueInv' /\ Distinct'
    BY <1>1, SortKeeps, SortKeepsDistinct DEF Inv
  <1>4. SearchInv'
    <2>1. UNCHANGED <<cell, tree, pbcImages, query, stack, bin, image, offered>>
      BY <1>1, <1>2 DEF finder, search
    <2>2. SearchInv
      BY DEF Inv
    <2>3. QED
      BY <1>1, <1>2, <2>2, SearchKept
  <1>5. FinderInv'
    BY <1>1, FinderKept DEF Inv
  <1>6. QueryInv'
    <2>1. UNCHANGED <<cell, tree, pbcImages, query, stack, bin, image>>
      BY <1>1 DEF finder, search
    <2>2. Ascending(heap)'
      BY <1>2 DEF Ascending, Less
    <2>3. QED
      BY <1>1, <1>2, <2>1, <2>2 DEF Inv, QueryInv
  <1>7. QED
    BY <1>3, <1>4, <1>5, <1>6 DEF Inv

LEMMA PreparationKeeps ==
  ASSUME Inv, (\E w \in Worlds : Prepare(w)) \/ SplitEmpty \/ InsertAtom
  PROVE  Inv'
  <1>1. UNCHANGED queueVars /\ phase' \in {"preparing", "thrown"}
    BY DEF Prepare, SplitEmpty, InsertAtom
  <1>2. QueueInv' /\ Distinct'
    BY <1>1, QueueKept DEF Inv
  <1>3. FinderInv' /\ QueryInv'
    BY PrepareKeepsFinder, SplitEmptyKeepsFinder, InsertAtomKeepsFinder DEF Inv
  <1>4. SearchInv'
    BY <1>1, NotSearching
  <1>5. QED
    BY <1>2, <1>3, <1>4 DEF Inv

LEMMA PreparedKeeps ==
  ASSUME Inv, Prepared
  PROVE  Inv'
  <1>1. /\ phase = "preparing" /\ inserted = Len(cell.at) /\ phase' = "ready"
        /\ UNCHANGED <<finder, search, queueVars>>
    BY DEF Prepared
  <1>2. QueueInv' /\ Distinct'
    BY <1>1, QueueKept DEF Inv
  <1>3. FinderInv'
    BY <1>1, FinderKept DEF Inv
  <1>4. QueryInv'
    BY <1>1 DEF Inv, QueryInv, finder, search, queueVars
  <1>5. SearchInv'
    BY <1>1, NotSearching
  <1>6. QED
    BY <1>2, <1>3, <1>4, <1>5 DEF Inv

LEMMA QueriesKeep ==
  ASSUME Inv,
         \E includeSelf \in BOOLEAN :
           \/ \E p \in Probes : BeginQuery(p, includeSelf)
           \/ \E i \in DOMAIN cell.at : FindNeighborsOfParticle(i, includeSelf)
  PROVE  Inv'
  <1>1. PICK includeSelf \in BOOLEAN :
          \/ \E p \in Probes : BeginQuery(p, includeSelf)
          \/ \E i \in DOMAIN cell.at : FindNeighborsOfParticle(i, includeSelf)
    OBVIOUS
  <1>2. cell \in Worlds
    BY DEF Inv, FinderInv
  <1>3. CASE \E p \in Probes : BeginQuery(p, includeSelf)
    <2>1. PICK p \in Probes : BeginQuery(p, includeSelf)
      BY <1>3
    <2>2. p \in [Axes(cell) -> Int]
      BY <1>2, WorldType
    <2>3. QED
      BY <2>1, <2>2, BeginQueryKeeps
  <1>4. CASE \E i \in DOMAIN cell.at : FindNeighborsOfParticle(i, includeSelf)
    <2>1. PICK i \in DOMAIN cell.at : BeginQuery(Wrapped(cell, i), includeSelf)
      BY <1>4 DEF FindNeighborsOfParticle
    <2>2. ~Degenerate(cell)
      BY <2>1 DEF BeginQuery, Inv, FinderInv, Standing
    <2>3. Wrapped(cell, i) \in [Axes(cell) -> Int]
      BY <1>2, <2>2, WrappedType
    <2>4. QED
      BY <2>1, <2>3, BeginQueryKeeps
  <1>5. QED
    BY <1>1, <1>3, <1>4

LEMMA InvKept ==
  ASSUME Inv, UNCHANGED vars
  PROVE  Inv'
  <1>1. /\ UNCHANGED <<phase, finder, search, queueVars>>
        /\ UNCHANGED <<cell, prepares, inserted, pbcImages, tree, query, image, stack, bin>>
        /\ UNCHANGED <<heap, mode, hole, entering, offered>>
    BY DEF vars, finder, search, queueVars
  <1>2. QueueInv' /\ Distinct'
    BY <1>1, QueueKept DEF Inv
  <1>3. FinderInv'
    BY <1>1 DEF Inv, FinderInv, Standing
  <1>4. QueryInv'
    <2>1. Ascending(heap)' <=> Ascending(heap)
      BY <1>1 DEF Ascending, Less
    <2>2. QED
      BY <1>1, <2>1 DEF Inv, QueryInv
  <1>5. SearchInv'
    <2>1. CASE phase \in {"searching", "answered"}
      BY <1>1, <2>1, SearchKept DEF Inv
    <2>2. CASE phase \notin {"searching", "answered"}
      BY <1>1, <2>2 DEF SearchInv
    <2>3. QED
      BY <2>1, <2>2
  <1>6. QED
    BY <1>2, <1>3, <1>4, <1>5 DEF Inv

LEMMA InvInitially == Init => Inv
  <1> SUFFICES ASSUME Init
               PROVE  Inv
    OBVIOUS
  <1>1. /\ phase = "new" /\ cell \in Worlds /\ prepares = 0 /\ inserted = 0
        /\ pbcImages = <<>> /\ image = 0 /\ stack = <<>> /\ bin = {} /\ QueueInit
        /\ query = [point |-> [k \in Axes(cell) |-> 0], includeSelf |-> FALSE]
    BY DEF Init
  <1>2. QueueInv
    BY <1>1, QueueInvInitially
  <1>3. heap = <<>> /\ mode = "idle"
    BY <1>1 DEF QueueInit
  <1>4. Distinct
    BY <1>3 DEF Distinct, Sifting
  <1>5. FinderInv
    BY <1>1, WorldType, LimitsAssumption DEF FinderInv, Standing
  <1>6. QueryInv
    BY <1>1, <1>3 DEF QueryInv
  <1>7. SearchInv
    BY <1>1 DEF SearchInv
  <1>8. QED
    BY <1>2, <1>4, <1>5, <1>6, <1>7 DEF Inv

LEMMA InvInductive == Inv /\ [Next]_vars => Inv'
  <1> SUFFICES ASSUME Inv, [Next]_vars
               PROVE  Inv'
    OBVIOUS
  <1>1. CASE (\E w \in Worlds : Prepare(w)) \/ SplitEmpty \/ InsertAtom
    BY <1>1, PreparationKeeps
  <1>2. CASE Prepared
    BY <1>2, PreparedKeeps
  <1>3. CASE \E includeSelf \in BOOLEAN :
               \/ \E p \in Probes : BeginQuery(p, includeSelf)
               \/ \E i \in DOMAIN cell.at : FindNeighborsOfParticle(i, includeSelf)
    BY <1>3, QueriesKeep
  <1>4. CASE NextImage
    BY <1>4, NextImageKeeps
  <1>5. CASE Skip
    BY <1>5, SkipKeeps
  <1>6. CASE VisitNode
    BY <1>6, VisitNodeKeeps
  <1>7. CASE VisitAtom
    BY <1>7, VisitAtomKeeps
  <1>8. CASE Sift
    BY <1>8, SiftKeeps
  <1>9. CASE Finish
    BY <1>9, FinishKeeps
  <1>10. CASE Thrown \/ UNCHANGED vars
    BY <1>10, InvKept DEF Thrown
  <1>11. QED
    BY <1>1, <1>2, <1>3, <1>4, <1>5, <1>6, <1>7, <1>8, <1>9, <1>10 DEF Next

LEMMA InvHolds == Spec => []Inv
  <1>1. Init => Inv
    BY InvInitially
  <1>2. Inv /\ [Next]_vars => Inv'
    BY InvInductive
  <1>3. QED
    BY <1>1, <1>2, PTL DEF Spec

-----------------------------------------------------------------------------
(* The properties *)

LEMMA InvTypes == Inv => TypeOK
  <1> SUFFICES ASSUME Inv
               PROVE  TypeOK
    OBVIOUS
  <1>1. /\ QueueTypeOK /\ FinderInv /\ QueryInv /\ SearchInv
    BY DEF Inv, QueueInv
  <1>2. /\ phase \in {"new", "preparing", "ready", "searching", "answered", "thrown"}
        /\ cell \in Worlds /\ prepares \in 0..Prepares /\ inserted \in 0..Len(cell.at)
        /\ phase \in {"ready", "searching", "answered"} => inserted = Len(cell.at)
        /\ image \in 0..Len(pbcImages)
    BY <1>1 DEF FinderInv, QueryInv
  <1>3. (\A n \in DOMAIN stack : stack[n].path \in DOMAIN tree) /\ bin \subseteq 1..inserted
    <2>1. CASE phase = "searching"
      <3>1. stack \in Seq(Visits(tree)) /\ bin \subseteq DOMAIN cell.at
        BY <1>1, <2>1 DEF SearchInv
      <3>2. DOMAIN cell.at = 1..inserted
        BY <1>2, <2>1, WorldType
      <3>3. \A n \in DOMAIN stack : stack[n] \in Visits(tree)
        BY <3>1
      <3>4. QED
        BY <3>1, <3>2, <3>3 DEF Visits
    <2>2. CASE phase # "searching"
      BY <1>1, <2>2 DEF QueryInv
    <2>3. QED
      BY <2>1, <2>2
  <1>4. \A i \in 1..inserted :
          {path \in DOMAIN tree : i \in tree[path].atoms} = {LeafFor(tree, Wrapped(cell, i))}
    <2>1. CASE Standing
      <3>1. TreeShape(cell, tree, inserted) /\ TreeSorts(cell, tree, inserted)
        BY <1>1, <2>1 DEF FinderInv, TreeInv
      <3> SUFFICES ASSUME NEW i \in 1..inserted
                   PROVE  {path \in DOMAIN tree : i \in tree[path].atoms} = {LeafFor(tree, Wrapped(cell, i))}
        OBVIOUS
      <3> DEFINE leaf == LeafFor(tree, Wrapped(cell, i))
      <3>2. /\ leaf \in DOMAIN tree /\ IsLeaf(tree[leaf]) /\ Leads(tree, leaf, Wrapped(cell, i))
            /\ \A p \in DOMAIN tree : IsLeaf(tree[p]) /\ Leads(tree, p, Wrapped(cell, i)) => p = leaf
        BY <3>1, LeafForPoint
      <3>3. \A p \in DOMAIN tree :
              i \in tree[p].atoms <=> (IsLeaf(tree[p]) /\ Leads(tree, p, Wrapped(cell, i)))
        BY <3>1 DEF TreeSorts
      <3> HIDE DEF leaf
      <3>4. {path \in DOMAIN tree : i \in tree[path].atoms} = {leaf}
        BY <3>2, <3>3
      <3>5. QED
        BY <3>4 DEF leaf
    <2>2. CASE ~Standing
      <3>1. inserted = 0
        BY <1>1, <2>2 DEF FinderInv, Standing
      <3>2. 1..inserted = {}
        BY <3>1
      <3>3. QED
        BY <3>2
    <2>3. QED
      BY <2>1, <2>2
  <1>5. QED
    BY <1>1, <1>2, <1>3, <1>4 DEF TypeOK

\* What an answered query has
LEMMA Answered ==
  ASSUME Inv, phase = "answered"
  PROVE  /\ QueueInv /\ Distinct /\ FinderInv /\ QueryInv /\ Standing
         /\ mode = "sorted" /\ Ascending(heap) /\ DOMAIN pbcImages = 1..Len(pbcImages)
         /\ Kept \subseteq offered /\ offered \subseteq Candidates
         /\ \A x \in Candidates : Known(offered, x)
         /\ \A x \in Candidates : x \in Elements
         /\ \A i \in DOMAIN cell.at : \A n \in DOMAIN pbcImages :
              Wanted(NeighborOf(i, n)) => NeighborOf(i, n) \in Candidates
  <1>1. QueueInv /\ Distinct /\ FinderInv /\ QueryInv /\ SearchInv /\ Standing
    BY DEF Inv, Standing
  <1>2. /\ mode = "sorted" /\ Ascending(heap) /\ DOMAIN pbcImages = 1..Len(pbcImages)
        /\ image = Len(pbcImages) /\ stack = <<>> /\ bin = {}
    BY <1>1 DEF QueryInv, FinderInv
  <1>3. Kept \subseteq offered
    BY <1>1, <1>2 DEF QueueInv, HeapHoldsSmallest, KeepsSmallest
  <1>4. \A i : ~Pending(i)
    BY <1>2 DEF Pending, Ahead
  <1>5. /\ \A x \in offered :
             Wanted(x) /\ \E i \in DOMAIN cell.at : \E n \in DOMAIN pbcImages : x = NeighborOf(i, n)
        /\ \A i \in DOMAIN cell.at : \A n \in DOMAIN pbcImages :
             Wanted(NeighborOf(i, n)) => Known(offered, NeighborOf(i, n))
    BY <1>1, <1>2, <1>4 DEF SearchInv
  <1>6. \A i \in DOMAIN cell.at : \A n \in DOMAIN pbcImages :
          Wanted(NeighborOf(i, n)) => NeighborOf(i, n) \in Candidates
    <2> SUFFICES ASSUME NEW i \in DOMAIN cell.at, NEW n \in DOMAIN pbcImages, Wanted(NeighborOf(i, n))
                 PROVE  NeighborOf(i, n) \in Candidates
      OBVIOUS
    <2>1. <<i, n>> \in (DOMAIN cell.at) \X (DOMAIN pbcImages)
      OBVIOUS
    <2>2. NeighborOf(i, n) = NeighborOf(<<i, n>>[1], <<i, n>>[2])
      OBVIOUS
    <2>3. QED
      BY <2>1, <2>2 DEF Candidates
  <1>7. \A x \in Candidates : /\ Wanted(x)
                              /\ \E i \in DOMAIN cell.at : \E n \in DOMAIN pbcImages : x = NeighborOf(i, n)
    BY DEF Candidates
  <1>8. \A x \in Candidates : x \in Elements /\ Known(offered, x)
    BY <1>1, <1>5, <1>7, NeighborType
  <1>9. offered \subseteq Candidates
    BY <1>5, <1>6
  <1>10. QED
    BY <1>1, <1>2, <1>3, <1>6, <1>8, <1>9

LEMMA CandidatesFinite ==
  ASSUME FinderInv
  PROVE  IsFiniteSet(Candidates) /\ Cardinality(Candidates) \in Nat
  <1> DEFINE P == (DOMAIN cell.at) \X (DOMAIN pbcImages)
             T == {NeighborOf(w[1], w[2]) : w \in P}
             f == [w \in P |-> NeighborOf(w[1], w[2])]
  <1>1. IsFiniteSet(P)
    <2>1. /\ DOMAIN cell.at = 1..Len(cell.at) /\ Len(cell.at) \in Nat
          /\ DOMAIN pbcImages = 1..Len(pbcImages) /\ Len(pbcImages) \in Nat
      BY WorldType DEF FinderInv
    <2>2. IsFiniteSet(DOMAIN cell.at) /\ IsFiniteSet(DOMAIN pbcImages)
      BY <2>1, FS_Interval
    <2>3. QED
      BY <2>2, FS_Product
  <1>2. f \in Surjection(P, T)
    BY DEF Surjection
  <1>3. IsFiniteSet(T)
    <2> HIDE DEF P, T, f
    <2> QED BY <1>1, <1>2, FS_Surjection
  <1>4. Candidates \in SUBSET T
    BY DEF Candidates
  <1>5. QED
    <2> HIDE DEF P, T, f
    <2> QED BY <1>3, <1>4, FS_Subset, FS_CardinalityType

LEMMA FindsNearestInList ==
  ASSUME Inv, phase = "answered"
  PROVE  IsNearestOf(heap, Candidates)
  <1>1. /\ QueueInv /\ Distinct /\ FinderInv /\ mode = "sorted" /\ Ascending(heap)
        /\ Kept \subseteq offered /\ offered \subseteq Candidates
        /\ \A x \in Candidates : Known(offered, x)
        /\ \A x \in Candidates : x \in Elements
    BY Answered
  <1>2. /\ IsFiniteSet(Kept) /\ Cardinality(Kept) = Len(heap) /\ Len(heap) \in Nat /\ IsInjective(heap)
        /\ Len(heap) <= MaxSize /\ MaxSize \in Nat \ {0}
    BY <1>1, HeapCounts, MaxSizeAssumption DEF QueueInv, QueueTypeOK, Sifting
  <1>3. IsFiniteSet(Candidates) /\ Cardinality(Candidates) \in Nat
    BY <1>1, CandidatesFinite
  <1>4. \A x \in offered \ Kept : Full /\ \A y \in Kept : ~Less(x, y)
    BY <1>1 DEF QueueInv, HeapHoldsSmallest, KeepsSmallest
  <1>5. Range(heap) = Kept
    BY DEF Range, Kept
  <1>6. ASSUME NEW x \in Candidates \ Kept
        PROVE  Full /\ \A y \in Kept : ~Less(x, y)
    <2>1. CASE x \in offered
      BY <1>4, <1>6, <2>1
    <2>2. CASE x \notin offered
      <3>1. PICK S \in SUBSET offered : /\ IsFiniteSet(S) /\ Cardinality(S) = MaxSize
                                        /\ \A y \in S : Leq(y, x)
        BY <1>1, <1>6, <2>2 DEF Known, Beaten
      <3>2. Full
        <4>1. CASE S \subseteq Kept
          <5>1. Cardinality(S) <= Cardinality(Kept)
            BY <1>2, <4>1, FS_Subset
          <5>2. QED
            BY <1>2, <3>1, <5>1 DEF Full
        <4>2. CASE ~(S \subseteq Kept)
          BY <1>4, <4>2
        <4>3. QED
          BY <4>1, <4>2
      <3>3. ASSUME NEW y \in Kept, Less(x, y)
            PROVE  FALSE
        <4>1. Len(heap) = MaxSize
          BY <3>2 DEF Full
        <4>2. IsFiniteSet(Kept \ {y}) /\ Cardinality(Kept \ {y}) = MaxSize - 1
          BY <1>2, <3>3, <4>1, FS_RemoveElement
        <4>3. ~(S \subseteq Kept \ {y})
          <5>1. S \subseteq Kept \ {y} => Cardinality(S) <= MaxSize - 1
            BY <4>2, FS_Subset
          <5>2. QED
            BY <1>2, <3>1, <5>1
        <4>4. PICK s \in S : s \notin Kept \ {y}
          BY <4>3
        <4>5. x \in Elements /\ y \in Elements /\ s \in Elements
          BY <1>1, <1>6
        <4>6. Less(s, y)
          <5>1. x.distanceSq \in Int /\ y.distanceSq \in Int /\ s.distanceSq \in Int
            BY <4>5, ElementsType
          <5>2. s.distanceSq <= x.distanceSq /\ x.distanceSq < y.distanceSq
            BY <3>1, <3>3 DEF Leq, Less
          <5>3. QED
            BY <5>1, <5>2 DEF Less
        <4>7. ~Less(y, y)
          BY <4>5, ElementsType DEF Less
        <4>8. s \in offered \ Kept
          BY <4>4, <4>6, <4>7
        <4>9. QED
          BY <1>4, <3>3, <4>6, <4>8
      <3>4. QED
        BY <3>2, <3>3
    <2>3. QED
      BY <2>1, <2>2
  <1>7. Len(heap) = Min({MaxSize, Cardinality(Candidates)})
    <2> DEFINE c == Cardinality(Candidates)
               M == {MaxSize, c}
    <2>1. Len(heap) <= c
      <3>1. Kept \in SUBSET Candidates
        BY <1>1
      <3>2. QED
        BY <1>2, <1>3, <3>1, FS_Subset
    <2>2. Len(heap) = MaxSize \/ Len(heap) = c
      <3>1. CASE Candidates = Kept
        BY <1>2, <3>1
      <3>2. CASE Candidates # Kept
        <4>1. Kept \subseteq Candidates
          BY <1>1
        <4>2. PICK x \in Candidates : x \notin Kept
          BY <3>2, <4>1
        <4>3. Full
          BY <1>6, <4>2
        <4>4. QED
          BY <4>3 DEF Full
      <3>3. QED
        BY <3>1, <3>2
    <2>3. M \in SUBSET Int /\ M # {} /\ 0 \in Int /\ \A x \in M : 0 <= x
      BY <1>2, <1>3
    <2>4. MaxSize \in M /\ c \in M /\ \A x \in M : x = MaxSize \/ x = c
      OBVIOUS
    <2>5. c \in Nat
      BY <1>3
    <2> HIDE DEF M, c
    <2>6. Min(M) \in M /\ \A x \in M : Min(M) <= x
      BY <2>3, MinOfBounded
    <2>7. Len(heap) = Min(M)
      <3> DEFINE m == Min(M)
                 l == Len(heap)
      <3> HIDE DEF m, l
      <3>1. /\ (m = MaxSize \/ m = c) /\ m <= MaxSize /\ m <= c
            /\ l <= MaxSize /\ l <= c /\ (l = MaxSize \/ l = c)
            /\ l \in Nat /\ MaxSize \in Nat /\ c \in Nat
        BY <1>2, <2>1, <2>2, <2>4, <2>5, <2>6 DEF m, l
      <3>2. m = l
        BY <3>1
      <3>3. QED
        BY <3>2 DEF m, l
    <2>8. QED
      BY <2>7 DEF M, c
  <1>8. QED
    BY <1>1, <1>2, <1>5, <1>6, <1>7 DEF IsNearestOf

\* A copy two cells away is farther than the shortest period.
LEMMA TwoAwayIsFar ==
  ASSUME NEW a \in Int, NEW b \in Int, NEW l \in Nat, 0 <= a, a < l, 0 <= b, b < l,
         NEW m \in -2..2, m \notin -1..1
  PROVE  /\ a - b + m * l \in Int
         /\ l <= a - b + m * l \/ l <= -(a - b + m * l)
  <1>1. m = 2 \/ m = -2
    BY SMT
  <1>2. CASE m = 2
    BY <1>2
  <1>3. CASE m = -2
    BY <1>3
  <1>4. QED
    BY <1>1, <1>2, <1>3

LEMMA NearCopiesAreListed ==
  ASSUME Inv, phase = "answered", Full, InsideCell(query.point), PeriodsReach(heap[MaxSize].distanceSq),
         NEW x \in Copies, Less(x, heap[MaxSize])
  PROVE  \E y \in Range(heap) : y.index = x.index /\ Delta(y.index, y.image) = x.delta
  <1>1. /\ FinderInv /\ QueryInv /\ Standing /\ QueueInv
        /\ \A i \in DOMAIN cell.at : \A n \in DOMAIN pbcImages :
             Wanted(NeighborOf(i, n)) => NeighborOf(i, n) \in Candidates
    BY Answered
  <1>2. IsNearestOf(heap, Candidates)
    BY FindsNearestInList
  <1>3. PICK i \in DOMAIN cell.at, n \in CellsAround : x = CopyIn(i, n) /\ Wanted(x)
    BY DEF Copies
  <1> DEFINE A == Axes(cell)
             a(k) == Wrapped(cell, i)[k]
             b(k) == query.point[k]
             side(k) == cell.side[k]
             d(k) == a(k) - b(k) + n[k] * side(k)
             far == heap[MaxSize]
  <1>4. /\ cell \in Worlds /\ ~Degenerate(cell) /\ A \in SUBSET (1..3)
        /\ \A k \in A : side(k) \in Nat /\ cell.periodic[k] \in BOOLEAN
    BY <1>1, WorldType DEF FinderInv
  <1>5. /\ \A k \in A : a(k) \in Int
        /\ \A k \in A : cell.periodic[k] => a(k) \in 0..(side(k) - 1)
    BY <1>4, WrappedType
  <1>6. /\ \A k \in A : b(k) \in Int
        /\ \A k \in A : cell.periodic[k] => 0 <= b(k) /\ b(k) < side(k)
    <2>1. DOMAIN query.point = A
      BY <1>1 DEF QueryInv
    <2>2. \A k \in A : b(k) \in Int
      BY <1>1 DEF QueryInv
    <2>3. QED
      BY <2>2 DEF InsideCell
  <1>7. n \in [A -> -2..2] /\ \A k \in A : cell.periodic[k] \/ n[k] = 0
    BY DEF CellsAround
  <1>8. /\ x.index = i /\ x.delta = [k \in A |-> d(k)] /\ x.distanceSq = SquaredLength(x.delta)
    BY <1>3 DEF CopyIn
  <1>9. \A k \in A : n[k] * side(k) \in Int
    <2> SUFFICES ASSUME NEW k \in A
                 PROVE  n[k] * side(k) \in Int
      OBVIOUS
    <2>1. n[k] \in Int /\ side(k) \in Int
      BY <1>4, <1>7
    <2> HIDE DEF side
    <2>2. QED
      BY <2>1
  <1>10. \A k \in A : d(k) \in Int
    <2> HIDE DEF a, b, side
    <2>1. \A k \in A : a(k) \in Int /\ b(k) \in Int /\ n[k] * side(k) \in Int
      BY <1>5, <1>6, <1>9
    <2> SUFFICES ASSUME NEW k \in A
                 PROVE  a(k) - b(k) + n[k] * side(k) \in Int
      OBVIOUS
    <2> DEFINE m == n[k] * side(k)
    <2>2. a(k) \in Int /\ b(k) \in Int /\ m \in Int
      BY <2>1
    <2> HIDE DEF m
    <2>3. a(k) - b(k) + m \in Int
      BY <2>2
    <2>4. QED
      BY <2>3 DEF m
  <1> HIDE DEF a, b, side, d
  <1>11. x.delta \in [A -> Int] /\ \A k \in A : x.delta[k] = d(k)
    BY <1>8, <1>10
  <1>12. x.distanceSq \in Nat /\ \A k \in A : d(k) * d(k) <= x.distanceSq
    BY <1>4, <1>8, <1>11, LengthType
  <1>13. far \in Elements /\ far.distanceSq \in Int /\ MaxSize \in DOMAIN heap
    <2>1. heap \in Seq(Elements) /\ Len(heap) = MaxSize /\ MaxSize \in Nat \ {0}
      BY <1>1, MaxSizeAssumption DEF QueueInv, QueueTypeOK, Full
    <2>2. MaxSize \in DOMAIN heap /\ heap[MaxSize] \in Elements
      BY <2>1
    <2>3. QED
      BY <2>2, ElementsType
  <1>14. \A k \in A : n[k] \in -1..1
    <2> SUFFICES ASSUME NEW k \in A, n[k] \notin -1..1
                 PROVE  FALSE
      OBVIOUS
    <2>1. cell.periodic[k]
      BY <1>7
    <2>2. far.distanceSq <= side(k) * side(k)
      BY <1>4, <2>1 DEF PeriodsReach, side, far
    <2>3. side(k) <= d(k) \/ side(k) <= -d(k)
      <3>1. /\ a(k) \in Int /\ b(k) \in Int /\ side(k) \in Nat /\ n[k] \in -2..2
            /\ 0 <= a(k) /\ a(k) < side(k) /\ 0 <= b(k) /\ b(k) < side(k)
        BY <1>4, <1>5, <1>6, <1>7, <2>1 DEF side
      <3>2. QED
        BY <3>1, TwoAwayIsFar DEF d
    <2>4. side(k) * side(k) <= d(k) * d(k)
      <3>1. side(k) \in Nat /\ d(k) \in Int
        BY <1>4, <1>10 DEF side
      <3>2. QED
        BY <2>3, <3>1, SquareGrows
    <2>5. x.distanceSq < far.distanceSq
      BY DEF Less
    <2> DEFINE s == side(k) * side(k)
               e == d(k) * d(k)
    <2>6. s \in Int /\ e \in Int
      <3>1. side(k) \in Int /\ d(k) \in Int
        BY <1>4, <1>10 DEF side
      <3>2. QED
        BY <3>1, Square
    <2>7. e <= x.distanceSq /\ far.distanceSq <= s /\ s <= e
      BY <1>12, <2>2, <2>4
    <2> HIDE DEF s, e, far
    <2>8. QED
      BY <1>12, <1>13, <2>5, <2>6, <2>7 DEF far
  <1>15. n \in Near(cell)
    BY <1>7, <1>14 DEF Near
  <1>16. PICK j \in DOMAIN pbcImages : pbcImages[j] = StepTo(cell, n)
    BY <1>1, <1>15 DEF FinderInv
  <1> DEFINE y == NeighborOf(i, j)
  <1>17. /\ y.index = i /\ y.image = j /\ y.distanceSq = SquaredLength(Delta(i, j))
         /\ Delta(i, j) \in [A -> Int]
         /\ \A k \in A : Delta(i, j)[k] = Wrapped(cell, i)[k] - query.point[k] + pbcImages[j][k]
    BY <1>1, NeighborType
  <1>18. Delta(i, j) = x.delta
    <2>1. \A k \in A : Delta(i, j)[k] = d(k)
      BY <1>16, <1>17 DEF StepTo, d, a, b, side
    <2>2. QED
      BY <1>11, <1>17, <2>1
  <1> HIDE DEF y
  <1>19. y.distanceSq = x.distanceSq
    BY <1>8, <1>17, <1>18
  <1>20. y \in Candidates
    BY <1>1, <1>3, <1>19 DEF Wanted, y
  <1>21. y \in Range(heap)
    <2>1. Less(y, far) /\ far \in Range(heap)
      BY <1>13, <1>19 DEF Less, Range
    <2>2. QED
      BY <1>2, <1>20, <2>1 DEF IsNearestOf
  <1>22. QED
    BY <1>8, <1>17, <1>18, <1>21

(* The types of the finder and its search hold at every step, for all cells, bucket sizes   *)
(* and depths.  With them: while prepare() inserts the atoms and after, each atom is in one *)
(* leaf of the tree, the one its coordinates lead to, and in no other node.                 *)
THEOREM TypeCorrect == Spec => []TypeOK
  BY InvHolds, InvTypes, PTL

(* In the finder's use of it too, the queue holds the smallest of what a search has offered *)
(* it and its root is the largest of them: no prepare() or query leaves it otherwise.       *)
THEOREM SearchHoldsSmallest == Spec => []HeapHoldsSmallest
  <1>1. Inv => HeapHoldsSmallest
    BY DEF Inv, QueueInv
  <1>2. QED
    BY <1>1, InvHolds, PTL

(* A query's answer is what findNeighbors() promises: the MaxSize nearest of all copies of  *)
(* atoms in the listed images, sorted, each once, though the search skips the far subtrees  *)
(* and images; and within the shortest period the images listed are enough.                 *)
THEOREM FindsNearestHolds == Spec => []FindsNearest
  <1>1. Inv => FindsNearest
    BY FindsNearestInList, NearCopiesAreListed DEF FindsNearest
  <1>2. QED
    BY <1>1, InvHolds, PTL
================================================================================
