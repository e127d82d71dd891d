-------------------------- MODULE NearestNeighbors --------------------------
(***************************************************************************)
(* NearestNeighborFinder (src/analysis/nearest_neighbor_finder.cpp):       *)
(* prepare() lists the periodic images and sorts the atoms into a k-d      *)
(* tree, one after the other; a Query searches the tree once per image,    *)
(* nearer subtree first, skips what cannot beat the farthest of the        *)
(* neighbours it holds, and leaves the nearest ones, sorted, in a bounded  *)
(* priority queue.                                                         *)
(*                                                                         *)
(* The cell is a box with its corner at zero.  Lengths are integers, and   *)
(* multiples of 2^DepthLimit, so that every split is exact; reduced        *)
(* coordinates are the absolute ones over the side.  An image stands for   *)
(* the matrix times its three integers.  A two-dimensional cell has two    *)
(* axes: the third, flattened by the code, splits no atoms.  The list of   *)
(* a leaf is a set: the order in which its atoms are visited is left open. *)
(***************************************************************************)
EXTENDS BoundedQueue, Selection, FiniteSetsExt

CONSTANTS Worlds,      \* cells, each with a positions property
          Probes,      \* what findNeighbors() may be asked about besides particles
          BucketSize,  \* bucketSize
          DepthLimit,  \* TREE_DEPTH_LIMIT
          Prepares     \* bound on the calls of prepare()

ASSUME WorldsAssumption ==
  \A w \in Worlds :
    /\ \A v \in Worlds : DOMAIN v.side = DOMAIN w.side
    /\ w.side \in Seq(Nat) /\ Len(w.side) \in 1..3
    /\ w.periodic \in [DOMAIN w.side -> BOOLEAN]
    /\ w.at \in Seq([DOMAIN w.side -> Int])
    /\ \A k \in DOMAIN w.side : w.side[k] % 2^DepthLimit = 0
    /\ Probes \subseteq [DOMAIN w.side -> Int]
ASSUME LimitsAssumption == BucketSize \in Nat \ {0} /\ DepthLimit \in Nat /\ Prepares \in Nat

VARIABLES phase,      \* new, preparing, ready, searching, answered, thrown
          cell,       \* simCell and the positions property
          prepares,
          inserted,   \* how many atoms are in the tree
          pbcImages,
          tree,       \* the nodes, by their path from the root: the children taken, 1 or 2
          query,      \* [point, includeSelf]: the arguments of findNeighbors()
          image,      \* how far the loop over pbcImages has come
          stack,      \* subtrees visitNode() has still to visit, the next one first
          bin         \* the atoms of the leaf being visited that are still to be looked at

finder == <<cell, prepares, inserted, pbcImages, tree>>
search == <<query, image, stack, bin>>
vars   == <<phase, finder, search, queueVars>>

Along(f, k) == IF k \in DOMAIN f THEN f[k] ELSE 0   \* a cell may have fewer than three axes
SquaredLength(v) == Along(v, 1) * Along(v, 1) + Along(v, 2) * Along(v, 2) + Along(v, 3) * Along(v, 3)
Plus(u, v)  == [k \in DOMAIN u |-> u[k] + v[k]]
Minus(u, v) == [k \in DOMAIN u |-> u[k] - v[k]]

-----------------------------------------------------------------------------
(* prepare(): images *)

Axes(w) == DOMAIN w.side

\* One cell to each side along the periodic axes, the first axis fastest
ImagesOf(w) ==
  LET width(k) == IF k \in Axes(w) /\ w.periodic[k] THEN 3 ELSE 1
      before(k) == IF k = 1 THEN 1 ELSE IF k = 2 THEN width(1) ELSE width(1) * width(2)
      step(n, k) == ((n \div before(k)) % width(k)) - (width(k) \div 2)
  IN [n \in 1..(width(1) * width(2) * width(3)) |->
        [k \in Axes(w) |-> step(n - 1, k) * w.side[k]]]

\* std::sort() by length; of the orders it may leave images of one length in, two are tried.
SortedByLength(s, flip) ==
  LET shorter(i, j) == SquaredLength(s[i]) < SquaredLength(s[j])
      before(i, j)  == shorter(i, j) \/ (~shorter(j, i) /\ IF flip THEN i > j ELSE i < j)
  IN AtPlaces(s, Ranked(DOMAIN s, {w \in (DOMAIN s) \X (DOMAIN s) : before(w[1], w[2])}))

-----------------------------------------------------------------------------
(* prepare(): the tree *)

\* The cell, extended along its open axes to the particles outside it
BoundingBox(w) ==
  LET along(k) == IF w.periodic[k] THEN {} ELSE {w.at[i][k] : i \in DOMAIN w.at}
  IN [minc |-> [k \in Axes(w) |-> Min({0} \cup along(k))],
      maxc |-> [k \in Axes(w) |-> Max({w.side[k]} \cup along(k))]]

Leaf(box) == [splitDim |-> 0, splitPos |-> 0, atoms |-> {}, numAtoms |-> 0, bounds |-> box]
IsLeaf(node) == node.splitDim = 0

\* Along the periodic axes an atom is moved into the cell.
Wrapped(w, i) == [k \in Axes(w) |-> IF w.periodic[k] THEN w.at[i][k] % w.side[k] ELSE w.at[i][k]]

(* splitLeafNode(): each half takes the atoms on its side; numAtoms stays zero *)
SplitLeafNode(w, t, path, dim) ==
  LET node == t[path]
      mid  == (node.bounds.minc[dim] + node.bounds.maxc[dim]) \div 2
      low  == [Leaf([node.bounds EXCEPT !.maxc[dim] = mid])
                 EXCEPT !.atoms = {i \in node.atoms : Wrapped(w, i)[dim] < mid}]
      high == [Leaf([node.bounds EXCEPT !.minc[dim] = mid])
                 EXCEPT !.atoms = {i \in node.atoms : ~(Wrapped(w, i)[dim] < mid)}]
  IN [p \in DOMAIN t \cup {Append(path, 1), Append(path, 2)} |->
        CASE p = path -> [node EXCEPT !.splitDim = dim, !.splitPos = mid, !.atoms = {}]
          [] p = Append(path, 1) -> low
          [] p = Append(path, 2) -> high
          [] OTHER -> t[p]]

(* determineSplitDirection(): the first of the axes along which the node is longest *)
SplitDirection(w, node) ==
  LET size(k) == node.bounds.maxc[k] - node.bounds.minc[k]
  IN Min({k \in Axes(w) : \A j \in Axes(w) : size(j) <= size(k)})

ChildFor(node, p) == IF p[node.splitDim] < node.splitPos THEN 1 ELSE 2

\* The way from the root to a point p leads through this node.
Above(q, path) == Len(q) < Len(path) /\ \A k \in DOMAIN q : q[k] = path[k]
Leads(t, path, p) == \A q \in DOMAIN t : Above(q, path) => path[Len(q) + 1] = ChildFor(t[q], p)

\* The leaf insertParticle() comes down to
LeafFor(t, p) == CHOOSE path \in DOMAIN t : IsLeaf(t[path]) /\ Leads(t, path, p)

InsertParticle(w, t, i) ==
  LET path  == LeafFor(t, Wrapped(w, i))
      node  == [t[path] EXCEPT !.atoms = @ \cup {i}, !.numAtoms = @ + 1]
      grown == [t EXCEPT ![path] = node]
  IN IF node.numAtoms > BucketSize /\ Len(path) < DepthLimit
     THEN SplitLeafNode(w, grown, path, SplitDirection(w, node)) ELSE grown

Degenerate(w) == \E k \in Axes(w) : w.side[k] = 0

\* The images of an earlier preparation stay in the list.  An exception leaves the finder
\* as it was but for simCell.
Prepare(w) ==
  /\ phase \in {"new", "ready", "answered", "thrown"} /\ prepares < Prepares
  /\ prepares' = prepares + 1
  /\ cell' = w /\ inserted' = 0
  /\ \/ /\ Degenerate(w)
        /\ phase' = "thrown" /\ UNCHANGED <<pbcImages, tree>>
     \/ /\ ~Degenerate(w)
        /\ phase' = "preparing"
        /\ \E flip \in BOOLEAN :
             pbcImages' = SortedByLength(pbcImages \o ImagesOf(w), flip)
        /\ tree' = [path \in {<<>>} |-> Leaf(BoundingBox(w))]
  /\ UNCHANGED <<search, queueVars>>

\* The root is split along every axis in turn before any atom comes.
Shallow == {path \in DOMAIN tree : IsLeaf(tree[path]) /\ Len(path) < Len(cell.side)}

SplitEmpty ==
  /\ phase = "preparing"
  /\ \E path \in Shallow : tree' = SplitLeafNode(cell, tree, path, Len(path) + 1)
  /\ UNCHANGED <<phase, cell, prepares, inserted, pbcImages, search, queueVars>>

InsertAtom ==
  /\ phase = "preparing" /\ Shallow = {} /\ inserted < Len(cell.at)
  /\ inserted' = inserted + 1
  /\ tree' = InsertParticle(cell, tree, inserted')
  /\ UNCHANGED <<phase, cell, prepares, pbcImages, search, queueVars>>

Prepared ==
  /\ phase = "preparing" /\ Shallow = {} /\ inserted = Len(cell.at)
  /\ phase' = "ready"
  /\ UNCHANGED <<finder, search, queueVars>>

-----------------------------------------------------------------------------
(* Query *)

BeginQuery(p, includeSelf) ==
  /\ phase \in {"ready", "answered"} /\ Clear
  /\ query' = [point |-> p, includeSelf |-> includeSelf]
  /\ image' = 0 /\ stack' = <<>> /\ bin' = {}
  /\ phase' = "searching"
  /\ UNCHANGED finder

FindNeighborsOfParticle(i, includeSelf) == BeginQuery(Wrapped(cell, i), includeSelf)

\* "q": the point asked about, seen from the image being searched
Shifted == Minus(query.point, pbcImages[image])

\* mutant: a point is compared with the wrong face of the box
MinimumDistanceSwapped(bounds, q) ==
  LET outside == UNION {{bounds.minc[k] - q[k], bounds.maxc[k] - q[k]} : k \in DOMAIN q}
  IN Max({0} \cup outside) * Max({0} \cup outside)

MinimumDistance(bounds, q) ==
  LET outside == UNION {{bounds.minc[k] - q[k], q[k] - bounds.maxc[k]} : k \in DOMAIN q}
  IN Max({0} \cup outside) * Max({0} \cup outside)

WorthVisiting(path, q) == ~Full \/ heap[1].distanceSq > MinimumDistance(tree[path].bounds, q)

Searching == phase = "searching" /\ mode = "idle"
Resting   == Searching /\ stack = <<>> /\ bin = {}

\* What is still to be visited: the root and nearer children at once, the farther child of a
\* node after all below the nearer one, and then only if it may still hold a nearer atom.
Visit(path, far) == [path |-> path, far |-> far]

NextImage ==
  /\ Resting /\ image < Len(pbcImages)
  /\ image' = image + 1
  /\ stack' = IF WorthVisiting(<<>>, Minus(query.point, pbcImages[image']))
              THEN <<Visit(<<>>, FALSE)>> ELSE <<>>
  /\ UNCHANGED <<phase, finder, query, bin, queueVars>>

Pruned(visit) == visit.far /\ ~WorthVisiting(visit.path, Shifted)

Skip ==
  /\ Searching /\ bin = {} /\ stack # <<>>
  /\ Pruned(Head(stack))
  /\ stack' = Tail(stack)
  /\ UNCHANGED <<phase, finder, query, image, bin, queueVars>>

VisitNode ==
  /\ Searching /\ bin = {} /\ stack # <<>>
  /\ ~Pruned(Head(stack))
  /\ LET path == Head(stack).path
         near == ChildFor(tree[path], Shifted)
     IN IF IsLeaf(tree[path]) THEN bin' = tree[path].atoms /\ stack' = Tail(stack)
        ELSE /\ stack' = <<Visit(Append(path, near), FALSE), Visit(Append(path, 3 - near), TRUE)>>
                           \o Tail(stack)
             /\ UNCHANGED bin
  /\ UNCHANGED <<phase, finder, query, image, queueVars>>

Delta(i, n) == Plus(Minus(Wrapped(cell, i), query.point), pbcImages[n])
NeighborOf(i, n) == [distanceSq |-> SquaredLength(Delta(i, n)), index |-> i, image |-> n]

Wanted(x) == query.includeSelf \/ x.distanceSq # 0

VisitAtom ==
  /\ Searching
  /\ \E i \in bin :
       /\ bin' = bin \ {i}
       /\ LET x == NeighborOf(i, image)
          IN IF Wanted(x) THEN Insert(x) ELSE UNCHANGED queueVars
  /\ UNCHANGED <<phase, finder, query, image, stack>>

Sift ==
  /\ phase = "searching"
  /\ SiftDown \/ SiftUp \/ Place
  /\ UNCHANGED <<phase, finder, search>>

Finish ==
  /\ Resting /\ image = Len(pbcImages)
  /\ Sort
  /\ phase' = "answered"
  /\ UNCHANGED <<finder, search>>

\* Nobody asks a finder whose preparation threw; it may be prepared again.
Thrown == phase = "thrown" /\ UNCHANGED vars

Init ==
  /\ phase = "new" /\ cell \in Worlds /\ prepares = 0 /\ inserted = 0
  /\ pbcImages = <<>> /\ tree = [path \in {} |-> Leaf(BoundingBox(cell))]
  /\ query = [point |-> [k \in Axes(cell) |-> 0], includeSelf |-> FALSE]
  /\ image = 0 /\ stack = <<>> /\ bin = {}
  /\ QueueInit

Next ==
  \/ \E w \in Worlds : Prepare(w)
  \/ SplitEmpty \/ InsertAtom \/ Prepared
  \/ \E includeSelf \in BOOLEAN :
       \/ \E p \in Probes : BeginQuery(p, includeSelf)
       \/ \E i \in DOMAIN cell.at : FindNeighborsOfParticle(i, includeSelf)
  \/ NextImage \/ Skip \/ VisitNode \/ VisitAtom \/ Sift \/ Finish \/ Thrown

Spec == Init /\ [][Next]_vars

-----------------------------------------------------------------------------
(* Properties *)

(* Types; each atom is in one leaf, the one whose half-open box holds it, while the tree  *)
(* is built and after; a search stands at nodes of the tree.                              *)
TypeOK ==
  /\ QueueTypeOK
  /\ phase \in {"new", "preparing", "ready", "searching", "answered", "thrown"}
  /\ cell \in Worlds /\ prepares \in 0..Prepares
  /\ inserted \in 0..Len(cell.at)
  /\ phase \in {"ready", "searching", "answered"} => inserted = Len(cell.at)
  /\ image \in 0..Len(pbcImages)
  /\ \A n \in DOMAIN stack : stack[n].path \in DOMAIN tree
  /\ bin \subseteq 1..inserted
  /\ \A i \in 1..inserted :
       {path \in DOMAIN tree : i \in tree[path].atoms} = {LeafFor(tree, Wrapped(cell, i))}

\* What a query that looked at each atom in each image of the list could find
Candidates ==
  {x \in {NeighborOf(w[1], w[2]) : w \in (DOMAIN cell.at) \X (DOMAIN pbcImages)} : Wanted(x)}

\* Sorted, each copy once, and nothing nearer left out: pruning loses nothing
IsNearestOf(found, all) ==
  /\ Range(found) \subseteq all /\ IsInjective(found) /\ Ascending(found)
  /\ Len(found) = Min({MaxSize, Cardinality(all)})
  /\ \A x \in all \ Range(found) : \A y \in Range(found) : ~Less(x, y)

\* The wanted copies of the atoms in the cells around, two deep along the periodic axes
CellsAround == {n \in [Axes(cell) -> -2..2] : \A k \in Axes(cell) : cell.periodic[k] \/ n[k] = 0}
CopyIn(i, n) ==
  LET delta == [k \in Axes(cell) |-> Wrapped(cell, i)[k] - query.point[k] + n[k] * cell.side[k]]
  IN [index |-> i, delta |-> delta, distanceSq |-> SquaredLength(delta)]
Copies == {x \in {CopyIn(w[1], w[2]) : w \in (DOMAIN cell.at) \X CellsAround} : Wanted(x)}

InsideCell(p) == \A k \in Axes(cell) : cell.periodic[k] => p[k] >= 0 /\ p[k] < cell.side[k]
PeriodsReach(d) == \A k \in Axes(cell) : cell.periodic[k] => d <= cell.side[k] * cell.side[k]

(* findNeighbors() answers with the nearest atoms over its list of images.  And for a    *)
(* point inside the cell the images next to it are enough as long as the farthest answer *)
(* is within the shortest period: then no copy from further out is nearer.               *)
FindsNearest ==
  phase = "answered" =>
    /\ IsNearestOf(heap, Candidates)
    /\ Full /\ InsideCell(query.point) /\ PeriodsReach(heap[MaxSize].distanceSq) =>
         \A x \in Copies : Less(x, heap[MaxSize]) =>
           \E y \in Range(heap) : y.index = x.index /\ Delta(y.index, y.image) = x.delta
=============================================================================
