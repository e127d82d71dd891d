----------------------- MODULE ClusterTransitionsProofs -----------------------
(***************************************************************************)
(* Calls on a cluster's transitions take effect one at a time on a sorted  *)
(* list, for any number of threads, transitions and calls.                 *)
(*                                                                         *)
(* ListInv says what the pointers look like between two steps of any       *)
(* thread: read from the head they are the sequence s, sorted, which holds *)
(* exactly the transitions whose insertion is published and whose removal  *)
(* has not reached them.  Walk says where in s a thread stands and what it *)
(* has passed.                                                             *)
(***************************************************************************)
EXTENDS ClusterTransitions, SequenceTheorems, FiniteSetTheorems, WellFoundedInduction, TLAPS

Places == {"idle", "lock", "head", "walk", "publish", "detach", "unlock"}
Pointers == Transitions \cup {Nobody}

LocalsInv ==
  /\ TypeOK
  /\ pc \in [Threads -> Places]
  /\ call \in [Threads -> PossibleCalls \cup {NoCall}]
  /\ prev \in [Threads -> Pointers]
  /\ answer \in [Threads -> Pointers \cup {"pending", "done", "yes", "no"}]

Updates(t) == Is(t, "insert") \/ Is(t, "remove")

(* What a thread is doing, by its place *)
PhaseInv ==
  \A t \in Threads :
    /\ pc[t] = "idle" <=> Is(t, "none")
    /\ pc[t] = "publish" => Is(t, "insert")
    /\ pc[t] \in {"head", "detach"} => Is(t, "remove")
    /\ answer[t] = "pending" <=> pc[t] \notin {"detach", "unlock"}
    /\ Updates(t) /\ pc[t] \in {"detach", "unlock"} => answer[t] = "done"

(* No two calls insert or remove one transition *)
ClaimInv ==
  /\ \A t \in Threads : (Is(t, "insert") => fate[Arg(t)] = "inserting")
                     /\ (Is(t, "remove") => fate[Arg(t)] = "removing")
  /\ \A t, u \in Threads : Updates(t) /\ Updates(u) /\ Arg(t) = Arg(u) => t = u

Sorted(s) == \A i, j \in DOMAIN s : i < j => Distance[s[i]] <= Distance[s[j]]

Has(s, x) == \E i \in DOMAIN s : s[i] = x

(* Which transitions are in the list *)
Membership(s) ==
  /\ \A x \in Transitions : (fate[x] = "in" => Has(s, x)) /\ (fate[x] = "out" => ~Has(s, x))
  /\ \A t \in Threads :
       /\ Is(t, "insert") => (Has(s, Arg(t)) <=> pc[t] = "unlock")
       /\ Is(t, "remove") => (Has(s, Arg(t)) <=> pc[t] \in {"lock", "head", "walk"})

(* What a walk goes past *)
Passes(t, x) ==
  CASE Is(t, "insert") -> Distance[x] < Distance[Arg(t)]
    [] Is(t, "find")   -> Target[x] # Arg(t)
    [] OTHER           -> x # Arg(t)

Between(t, s, k) ==
  /\ prev[t] = At(s, k) /\ iter[t] = At(s, k + 1)
  /\ \A i \in 1..k : Passes(t, s[i])

Walk(t, s, k) ==
  /\ pc[t] = "head" => prev[t] = Nobody /\ iter[t] = transitions
  /\ pc[t] = "walk" => Between(t, s, k) /\ (Is(t, "remove") => iter[t] # Arg(t))
  /\ pc[t] = "publish" =>
       /\ Between(t, s, k)
       /\ next[Arg(t)] = iter[t]
       /\ iter[t] # Nobody => Distance[iter[t]] >= Distance[Arg(t)]
  /\ pc[t] = "unlock" /\ Is(t, "insert") /\ prev[t] # Nobody => Distance[prev[t]] < Distance[Arg(t)]

ListInv(s) ==
  /\ Reads(s, transitions, next)
  /\ Sorted(s)
  /\ Membership(s)
  /\ \A t \in Threads : \E k \in 0..Len(s) : Walk(t, s, k)

ThreadsInv == LocalsInv /\ PhaseInv /\ ClaimInv

ClusterInv == ThreadsInv /\ \E s \in Lists : ListInv(s)

-----------------------------------------------------------------------------
(* Sequences of transitions, each at most once *)

LEMMA ListShape ==
  ASSUME NEW s \in Lists
  PROVE  /\ s \in Seq(Transitions) /\ Len(s) \in Nat /\ DOMAIN s = 1..Len(s)
         /\ \A i \in 1..Len(s) : s[i] \in Transitions /\ s[i] # Nobody
         /\ \A i, j \in 1..Len(s) : s[i] = s[j] => i = j
  <1>1. PICK n \in 0..Cardinality(Transitions) : s \in [1..n -> Transitions]
    BY DEF Lists, BoundedSeq, SeqOf
  <1>2. n \in Nat
    BY <1>1, FiniteAssumption, FS_CardinalityType
  <1>3. s \in Seq(Transitions) /\ Len(s) = n
    BY <1>1, <1>2
  <1>4. QED
    BY <1>1, <1>2, <1>3, NobodyAssumption DEF Lists, IsInjective

LEMMA OnceEachIsList ==
  ASSUME NEW s \in Seq(Transitions), \A i, j \in 1..Len(s) : s[i] = s[j] => i = j
  PROVE  s \in Lists
  <1>1. Len(s) \in Nat /\ s \in [1..Len(s) -> Transitions] /\ DOMAIN s = 1..Len(s)
    BY LenProperties
  <1>2. IsInjective(s)
    BY <1>1 DEF IsInjective
  <1>3. s \in Injection(1..Len(s), Transitions)
    BY <1>1, <1>2 DEF Injection
  <1>4. Cardinality(1..Len(s)) <= Cardinality(Transitions)
    BY <1>3, FS_Injection, FiniteAssumption
  <1>5. Cardinality(1..Len(s)) = Len(s)
    BY <1>1, FS_Interval
  <1>6. Cardinality(Transitions) \in Nat
    BY FiniteAssumption, FS_CardinalityType
  <1>7. Len(s) \in 0..Cardinality(Transitions)
    BY <1>1, <1>4, <1>5, <1>6
  <1>8. QED
    BY <1>1, <1>2, <1>7 DEF Lists, BoundedSeq, SeqOf

LEMMA AtPlace ==
  ASSUME NEW s \in Lists, NEW i \in Nat
  PROVE  /\ i \in 1..Len(s) => At(s, i) = s[i] /\ At(s, i) \in Transitions /\ At(s, i) # Nobody
         /\ i \notin 1..Len(s) => At(s, i) = Nobody
  BY ListShape DEF At

(* A new element at place i *)
LEMMA InsertedList ==
  ASSUME NEW s \in Lists, NEW x \in Transitions, ~Has(s, x), NEW i \in 1..Len(s) + 1
  PROVE  /\ InsertAt(s, i, x) \in Lists
         /\ Len(InsertAt(s, i, x)) = Len(s) + 1
         /\ \A j \in 1..Len(s) + 1 :
              InsertAt(s, i, x)[j] = IF j < i THEN s[j] ELSE IF j = i THEN x ELSE s[j - 1]
  <1> DEFINE a == SubSeq(s, 1, i - 1)
             b == SubSeq(s, i, Len(s))
             r == InsertAt(s, i, x)
  <1>1. s \in Seq(Transitions) /\ Len(s) \in Nat /\ i \in Nat /\ i >= 1 /\ i <= Len(s) + 1
    BY ListShape
  <1>2. a \in Seq(Transitions) /\ Len(a) = i - 1 /\ \A j \in 1..i - 1 : a[j] = s[j]
    <2>1. \A j \in 1..i - 1 : s[j] \in Transitions
      BY <1>1, ListShape
    <2>2. 1 \in Int /\ i - 1 \in Int
      BY <1>1
    <2>3. QED
      BY <1>1, <2>1, <2>2, SubSeqProperties
  <1>3. b \in Seq(Transitions) /\ Len(b) = Len(s) - i + 1 /\ \A j \in 1..Len(s) - i + 1 : b[j] = s[i + j - 1]
    <2>1. \A j \in i..Len(s) : s[j] \in Transitions
      BY <1>1, ListShape
    <2>2. i \in Int /\ Len(s) \in Int
      BY <1>1
    <2>3. QED
      BY <1>1, <2>1, <2>2, SubSeqProperties
  <1>4. r = (a \o <<x>>) \o b
    BY DEF InsertAt
  <1> HIDE DEF a, b, r
  <1>5. <<x>> \in Seq(Transitions) /\ Len(<<x>>) = 1 /\ <<x>>[1] = x
    OBVIOUS
  <1>6. /\ a \o <<x>> \in Seq(Transitions) /\ Len(a \o <<x>>) = i
        /\ \A j \in 1..i : (a \o <<x>>)[j] = IF j < i THEN s[j] ELSE x
    BY <1>1, <1>2, <1>5, ConcatProperties
  <1>7. /\ r \in Seq(Transitions) /\ Len(r) = Len(s) + 1
        /\ \A j \in 1..Len(s) + 1 : r[j] = IF j < i THEN s[j] ELSE IF j = i THEN x ELSE s[j - 1]
    <2>1. /\ r \in Seq(Transitions) /\ Len(r) = i + (Len(s) - i + 1)
          /\ \A j \in 1..i + (Len(s) - i + 1) : r[j] = IF j <= i THEN (a \o <<x>>)[j] ELSE b[j - i]
      BY <1>3, <1>4, <1>6, ConcatProperties
    <2>2. ASSUME NEW j \in 1..Len(s) + 1
          PROVE  r[j] = IF j < i THEN s[j] ELSE IF j = i THEN x ELSE s[j - 1]
      <3>1. CASE j <= i
        BY <1>1, <1>6, <2>1, <3>1
      <3>2. CASE j > i
        <4>1. j - i \in 1..Len(s) - i + 1 /\ i + (j - i) - 1 = j - 1
          BY <1>1, <3>2
        <4>2. QED
          BY <1>1, <1>3, <2>1, <3>2, <4>1
      <3>3. QED
        BY <1>1, <3>1, <3>2
    <2>3. QED
      BY <1>1, <2>1, <2>2
  <1>8. ASSUME NEW j \in 1..Len(r), NEW k \in 1..Len(r), r[j] = r[k]
        PROVE  j = k
    <2>1. \A n \in 1..Len(s) : s[n] # x
      BY ListShape DEF Has
    <2>2. \A m, n \in 1..Len(s) : s[m] = s[n] => m = n
      BY ListShape
    <2> DEFINE from(n) == IF n < i THEN n ELSE n - 1
    <2>3. \A n \in 1..Len(r) : n # i => from(n) \in 1..Len(s) /\ r[n] = s[from(n)]
      BY <1>1, <1>7
    <2>4. r[i] = x /\ i \in 1..Len(r)
      BY <1>1, <1>7
    <2>5. CASE j = i \/ k = i
      <3> HIDE DEF from
      <3> QED BY <1>8, <2>1, <2>3, <2>4, <2>5
    <2>6. CASE j # i /\ k # i
      <3>1. from(j) = from(k)
        <4> HIDE DEF from
        <4> QED BY <1>8, <2>2, <2>3, <2>6
      <3>2. j \in Nat /\ k \in Nat
        BY <1>1, <1>7
      <3>3. QED
        BY <1>1, <2>6, <3>1, <3>2
    <2>7. QED
      BY <2>5, <2>6
  <1>9. r \in Lists
    BY <1>7, <1>8, OnceEachIsList
  <1>10. QED
    BY <1>7, <1>9 DEF r

(* The element at place i taken out *)
LEMMA RemovedList ==
  ASSUME NEW s \in Lists, NEW i \in 1..Len(s)
  PROVE  /\ RemoveAt(s, i) \in Lists
         /\ Len(RemoveAt(s, i)) = Len(s) - 1
         /\ \A j \in 1..Len(s) - 1 : RemoveAt(s, i)[j] = IF j < i THEN s[j] ELSE s[j + 1]
  <1> DEFINE a == SubSeq(s, 1, i - 1)
             b == SubSeq(s, i + 1, Len(s))
             r == RemoveAt(s, i)
  <1>1. s \in Seq(Transitions) /\ Len(s) \in Nat /\ i \in Nat /\ i >= 1 /\ i <= Len(s)
    BY ListShape
  <1>2. a \in Seq(Transitions) /\ Len(a) = i - 1 /\ \A j \in 1..i - 1 : a[j] = s[j]
    <2>1. \A j \in 1..i - 1 : s[j] \in Transitions
      BY <1>1, ListShape
    <2>2. 1 \in Int /\ i - 1 \in Int
      BY <1>1
    <2>3. QED
      BY <1>1, <2>1, <2>2, SubSeqProperties
  <1>3. b \in Seq(Transitions) /\ Len(b) = Len(s) - i /\ \A j \in 1..Len(s) - i : b[j] = s[i + j]
    <2>1. \A j \in i + 1..Len(s) : s[j] \in Transitions
      BY <1>1, ListShape
    <2>2. i + 1 \in Int /\ Len(s) \in Int
      BY <1>1
    <2>3. /\ b \in Seq(Transitions)
          /\ Len(b) = IF i + 1 <= Len(s) THEN Len(s) - (i + 1) + 1 ELSE 0
          /\ \A j \in 1..Len(s) - (i + 1) + 1 : b[j] = s[(i + 1) + j - 1]
      BY <2>1, <2>2, SubSeqProperties
    <2>4. \A j \in 1..Len(s) - i : b[j] = s[i + j]
      <3>1. ASSUME NEW j \in 1..Len(s) - i
            PROVE  (i + 1) + j - 1 = i + j /\ j \in 1..Len(s) - (i + 1) + 1
        BY <1>1
      <3>2. QED
        BY <2>3, <3>1
    <2>5. QED
      BY <1>1, <2>3, <2>4
  <1>4. r = a \o b
    BY DEF RemoveAt
  <1> HIDE DEF a, b, r
  <1>5. /\ r \in Seq(Transitions) /\ Len(r) = (i - 1) + (Len(s) - i)
        /\ \A j \in 1..(i - 1) + (Len(s) - i) : r[j] = IF j <= i - 1 THEN a[j] ELSE b[j - (i - 1)]
    <2>1. /\ r \in Seq(Transitions) /\ Len(r) = Len(a) + Len(b)
          /\ \A j \in 1..Len(a) + Len(b) : r[j] = IF j <= Len(a) THEN a[j] ELSE b[j - Len(a)]
      BY <1>2, <1>3, <1>4, ConcatProperties
    <2>2. Len(a) = i - 1 /\ Len(b) = Len(s) - i
      BY <1>2, <1>3
    <2>3. QED
      BY <2>1, <2>2
  <1>6. ASSUME NEW j \in 1..Len(s) - 1
        PROVE  r[j] = IF j < i THEN s[j] ELSE s[j + 1]
    <2>1. CASE j < i
      BY <1>1, <1>2, <1>5, <2>1
    <2>2. CASE j >= i
      <3>1. j - (i - 1) \in 1..Len(s) - i /\ i + (j - (i - 1)) = j + 1 /\ j \in 1..(i - 1) + (Len(s) - i)
        BY <1>1, <2>2
      <3>2. ~(j <= i - 1)
        BY <1>1, <2>2
      <3>3. r[j] = b[j - (i - 1)]
        BY <1>5, <3>1, <3>2
      <3>4. QED
        BY <1>1, <1>3, <2>2, <3>1, <3>3
    <2>3. QED
      BY <1>1, <2>1, <2>2
  <1>7. Len(r) = Len(s) - 1
    BY <1>1, <1>5
  <1>8. ASSUME NEW j \in 1..Len(r), NEW k \in 1..Len(r), r[j] = r[k]
        PROVE  j = k
    <2> DEFINE from(n) == IF n < i THEN n ELSE n + 1
    <2>1. \A n \in 1..Len(r) : from(n) \in 1..Len(s) /\ r[n] = s[from(n)]
      BY <1>1, <1>6, <1>7
    <2>2. \A m, n \in 1..Len(s) : s[m] = s[n] => m = n
      BY ListShape
    <2>3. from(j) = from(k)
      <3> HIDE DEF from
      <3> QED BY <1>8, <2>1, <2>2
    <2>4. j \in Nat /\ k \in Nat
      BY <1>1, <1>7
    <2>5. QED
      BY <1>1, <2>3, <2>4
  <1>9. r \in Lists
    BY <1>5, <1>8, OnceEachIsList
  <1>10. QED
    BY <1>6, <1>7, <1>9 DEF r

-----------------------------------------------------------------------------
(* What the pointers read as *)

(* The pointers read as one list at most. *)
LEMMA ReadsOneList ==
  ASSUME NEW head, NEW links, NEW s \in Lists, NEW r \in Lists,
         Reads(s, head, links), Reads(r, head, links)
  PROVE  s = r
  <1> DEFINE D == {i \in Nat : At(s, i + 1) # At(r, i + 1)}
  <1>1. D = {}
    <2>1. SUFFICES ASSUME D # {} PROVE FALSE
      OBVIOUS
    <2>2. PICK m \in D : \A k \in D : ~(<<k, m>> \in OpToRel(<, Nat))
      <3>1. D \subseteq Nat
        OBVIOUS
      <3> HIDE DEF D
      <3> QED BY <2>1, <3>1, NatLessThanWellFounded, WFMin
    <2>3. m \in Nat /\ At(s, m + 1) # At(r, m + 1)
      OBVIOUS
    <2>4. m # 0
      BY <2>3 DEF Reads
    <2>5. m - 1 \in Nat /\ (m - 1) + 1 = m
      BY <2>3, <2>4
    <2>6. At(s, m) = At(r, m)
      <3>1. D \subseteq Nat
        OBVIOUS
      <3>2. \A k \in D : ~(k < m)
        <4> HIDE DEF D
        <4> QED BY <2>2, <2>3, <3>1 DEF OpToRel
      <3>3. m - 1 \notin D
        BY <2>3, <3>2
      <3>4. QED
        BY <2>5, <3>3
    <2>7. CASE m \in 1..Len(s)
      <3>1. m \in 1..Len(r)
        BY <2>3, <2>6, <2>7, AtPlace
      <3>2. links[s[m]] = At(s, m + 1) /\ links[r[m]] = At(r, m + 1) /\ s[m] = r[m]
        BY <2>3, <2>6, <2>7, <3>1, AtPlace, ListShape DEF Reads
      <3>3. QED
        BY <2>3, <3>2
    <2>8. CASE m \notin 1..Len(s)
      <3>1. m \notin 1..Len(r)
        BY <2>3, <2>6, <2>8, AtPlace
      <3>2. m + 1 \in Nat /\ m + 1 \notin 1..Len(s) /\ m + 1 \notin 1..Len(r)
        BY <2>3, <2>4, <2>8, <3>1, ListShape
      <3>3. QED
        BY <2>3, <3>2, AtPlace
    <2>9. QED
      BY <2>7, <2>8
  <1>2. \A i \in Nat : At(s, i + 1) = At(r, i + 1)
    BY <1>1
  <1> HIDE DEF D
  <1>3. \A i \in Nat : i >= 1 => At(s, i) = At(r, i)
    <2>1. ASSUME NEW i \in Nat, i >= 1 PROVE At(s, i) = At(r, i)
      <3>1. i - 1 \in Nat /\ (i - 1) + 1 = i
        BY <2>1
      <3>2. QED
        BY <1>2, <3>1
    <2>2. QED
      BY <2>1
  <1>4. \A i \in Nat : i \in 1..Len(s) <=> i \in 1..Len(r)
    BY <1>3, AtPlace
  <1>5. Len(s) = Len(r)
    BY <1>4, ListShape
  <1>6. \A i \in 1..Len(s) : s[i] = r[i]
    BY <1>3, <1>4, AtPlace
  <1>7. QED
    BY <1>5, <1>6, ListShape, SeqEqual

LEMMA ListIs ==
  ASSUME NEW head, NEW links, NEW s \in Lists, Reads(s, head, links)
  PROVE  ListFrom(head, links) = s
  <1>1. ListFrom(head, links) \in Lists /\ Reads(ListFrom(head, links), head, links)
    BY DEF ListFrom
  <1>2. QED
    BY <1>1, ReadsOneList

(* The next of an element outside the list says nothing about it. *)
LEMMA ReadsPastOthers ==
  ASSUME NEW head, NEW links \in [Transitions -> Pointers], NEW s \in Lists, Reads(s, head, links),
         NEW x \in Transitions, ~Has(s, x), NEW v
  PROVE  Reads(s, head, [links EXCEPT ![x] = v])
  BY ListShape DEF Reads, Has

(* The pointer after place k leads to the new element. *)
LEMMA ReadsInserted ==
  ASSUME NEW head, NEW links \in [Transitions -> Pointers], NEW s \in Lists, Reads(s, head, links),
         NEW x \in Transitions, ~Has(s, x), NEW k \in 0..Len(s), links[x] = At(s, k + 1)
  PROVE  Reads(InsertAt(s, k + 1, x), IF k = 0 THEN x ELSE head,
               IF k = 0 THEN links ELSE [links EXCEPT ![s[k]] = x])
  <1> DEFINE r == InsertAt(s, k + 1, x)
             l == IF k = 0 THEN links ELSE [links EXCEPT ![s[k]] = x]
  <1>1. k \in Nat /\ Len(s) \in Nat /\ k <= Len(s) /\ k + 1 \in 1..Len(s) + 1
    BY ListShape
  <1>2. /\ r \in Lists /\ Len(r) = Len(s) + 1 /\ DOMAIN r = 1..Len(s) + 1
        /\ \A j \in 1..Len(s) + 1 : r[j] = IF j < k + 1 THEN s[j] ELSE IF j = k + 1 THEN x ELSE s[j - 1]
    BY <1>1, InsertedList, ListShape
  <1>3. \A j \in 1..Len(s) : s[j] # x /\ s[j] \in Transitions /\ links[s[j]] = At(s, j + 1)
    BY ListShape DEF Has, Reads
  <1>4. links[x] = At(s, k + 1)
    OBVIOUS
  <1>5. \A i, j \in 1..Len(s) : s[i] = s[j] => i = j
    BY ListShape
  <1>6. /\ k = 0 => l = links
        /\ k # 0 => l[s[k]] = x /\ \A y \in Transitions : y # s[k] => l[y] = links[y]
    BY <1>1, <1>3
  <1> HIDE DEF r, l
  <1>7. ASSUME NEW j \in 1..Len(s) + 1
        PROVE  l[r[j]] = At(r, j + 1)
    <2>1. CASE j < k
      <3>1. r[j] = s[j] /\ r[j + 1] = s[j + 1] /\ s[j] # s[k] /\ j \in 1..Len(s) /\ k # 0
            /\ j + 1 \in 1..Len(s) /\ j + 1 \in 1..Len(s) + 1 /\ k \in 1..Len(s) /\ j + 1 \in Nat
        BY <1>1, <1>2, <1>5, <2>1
      <3>2. l[r[j]] = At(s, j + 1)
        BY <1>3, <1>6, <3>1
      <3>3. QED
        BY <1>2, <3>1, <3>2, AtPlace
    <2>2. CASE j = k
      <3>1. r[j] = s[k] /\ r[j + 1] = x /\ k # 0 /\ j + 1 \in 1..Len(s) + 1 /\ j + 1 \in Nat
        BY <1>1, <1>2, <2>2
      <3>2. QED
        BY <1>2, <1>6, <3>1, AtPlace
    <2>3. CASE j = k + 1
      <3>1. r[j] = x /\ l[x] = At(s, j)
        <4>1. k # 0 => s[k] # x
          BY <1>1, <1>3
        <4>2. QED
          BY <1>1, <1>2, <1>4, <1>6, <2>3, <4>1
      <3>2. CASE j <= Len(s)
        <4>1. r[j + 1] = s[j] /\ j + 1 \in 1..Len(s) + 1 /\ j \in 1..Len(s) /\ j \in Nat /\ j + 1 \in Nat
          BY <1>1, <1>2, <2>3, <3>2
        <4>2. QED
          BY <1>2, <3>1, <4>1, AtPlace
      <3>3. CASE j > Len(s)
        <4>1. j + 1 \notin 1..Len(s) + 1 /\ j \notin 1..Len(s) /\ j \in Nat /\ j + 1 \in Nat
          BY <1>1, <2>3, <3>3
        <4>2. QED
          BY <1>2, <3>1, <4>1, AtPlace
      <3>4. QED
        BY <1>1, <2>3, <3>2, <3>3
    <2>4. CASE j > k + 1
      <3>1. /\ r[j] = s[j - 1] /\ j - 1 \in 1..Len(s) /\ (j - 1) + 1 = j
            /\ j \in Nat /\ j + 1 \in Nat /\ j - 1 # k
            /\ k # 0 => k \in 1..Len(s)
        BY <1>1, <1>2, <2>4
      <3>2. k # 0 => s[j - 1] # s[k]
        BY <1>5, <3>1
      <3>3. l[r[j]] = At(s, j)
        <4>1. links[s[j - 1]] = At(s, j) /\ s[j - 1] \in Transitions
          BY <1>3, <3>1
        <4>2. QED
          BY <1>6, <3>1, <3>2, <4>1
      <3>4. CASE j <= Len(s)
        <4>1. r[j + 1] = s[j] /\ j + 1 \in 1..Len(s) + 1 /\ j \in 1..Len(s)
          BY <1>1, <1>2, <2>4, <3>4
        <4>2. QED
          BY <1>2, <3>1, <3>3, <4>1, AtPlace
      <3>5. CASE j > Len(s)
        <4>1. j + 1 \notin 1..Len(s) + 1 /\ j \notin 1..Len(s)
          BY <1>1, <3>5
        <4>2. QED
          BY <1>2, <3>1, <3>3, <4>1, AtPlace
      <3>6. QED
        BY <1>1, <3>4, <3>5
    <2>5. QED
      BY <1>1, <2>1, <2>2, <2>3, <2>4
  <1>8. (IF k = 0 THEN x ELSE head) = At(r, 1)
    <2>1. 1 \in 1..Len(s) + 1 /\ 1 \in Nat
      BY <1>1
    <2>2. At(r, 1) = r[1]
      BY <1>2, <2>1, AtPlace
    <2>3. CASE k = 0
      BY <1>2, <2>1, <2>2, <2>3
    <2>4. CASE k # 0
      <3>1. r[1] = s[1] /\ 1 \in 1..Len(s)
        BY <1>1, <1>2, <2>1, <2>4
      <3>2. QED
        BY <2>1, <2>2, <2>4, <3>1, AtPlace DEF Reads
    <2>5. QED
      BY <2>3, <2>4
  <1>9. QED
    BY <1>2, <1>7, <1>8 DEF Reads, r, l

(* The pointer to place k leads past it. *)
LEMMA ReadsRemoved ==
  ASSUME NEW head, NEW links \in [Transitions -> Pointers], NEW s \in Lists, Reads(s, head, links),
         NEW k \in 1..Len(s)
  PROVE  Reads(RemoveAt(s, k), IF k = 1 THEN links[s[1]] ELSE head,
               IF k = 1 THEN links ELSE [links EXCEPT ![s[k - 1]] = links[s[k]]])
  <1> DEFINE r == RemoveAt(s, k)
             l == IF k = 1 THEN links ELSE [links EXCEPT ![s[k - 1]] = links[s[k]]]
  <1>1. k \in Nat /\ Len(s) \in Nat /\ 1 <= k /\ k <= Len(s)
    BY ListShape
  <1>2. /\ r \in Lists /\ Len(r) = Len(s) - 1 /\ DOMAIN r = 1..Len(s) - 1
        /\ \A j \in 1..Len(s) - 1 : r[j] = IF j < k THEN s[j] ELSE s[j + 1]
    BY <1>1, RemovedList, ListShape
  <1>3. \A j \in 1..Len(s) : s[j] \in Transitions /\ links[s[j]] = At(s, j + 1)
    BY ListShape DEF Reads
  <1>4. \A i, j \in 1..Len(s) : s[i] = s[j] => i = j
    BY ListShape
  <1>5. /\ k = 1 => l = links
        /\ k # 1 => l[s[k - 1]] = links[s[k]] /\ \A y \in Transitions : y # s[k - 1] => l[y] = links[y]
    BY <1>1, <1>3
  <1> HIDE DEF r, l
  <1>6. ASSUME NEW j \in 1..Len(s) - 1
        PROVE  /\ j + 1 < k => At(r, j + 1) = At(s, j + 1)
               /\ j + 1 >= k => At(r, j + 1) = At(s, j + 2)
    <2>1. j \in Nat /\ j + 1 \in Nat /\ j + 2 \in Nat /\ j + 1 \in 1..Len(s)
      BY <1>1
    <2>2. CASE j + 1 <= Len(s) - 1
      <3>1. j + 1 \in 1..Len(s) - 1 /\ j + 2 \in 1..Len(s) /\ (j + 1) + 1 = j + 2
        BY <1>1, <2>1, <2>2
      <3>2. At(r, j + 1) = r[j + 1] /\ At(s, j + 1) = s[j + 1] /\ At(s, j + 2) = s[j + 2]
        BY <1>2, <2>1, <3>1, AtPlace
      <3>3. r[j + 1] = IF j + 1 < k THEN s[j + 1] ELSE s[j + 2]
        BY <1>2, <3>1
      <3>4. QED
        BY <1>1, <2>1, <3>2, <3>3
    <2>3. CASE j + 1 > Len(s) - 1
      <3>1. j + 1 \notin 1..Len(s) - 1 /\ j + 2 \notin 1..Len(s) /\ j + 1 >= k
        BY <1>1, <2>1, <2>3
      <3>2. At(r, j + 1) = Nobody /\ At(s, j + 2) = Nobody
        BY <1>2, <2>1, <3>1, AtPlace
      <3>3. QED
        BY <1>1, <2>1, <3>1, <3>2
    <2>4. QED
      BY <1>1, <2>1, <2>2, <2>3
  <1>7. ASSUME NEW j \in 1..Len(s) - 1
        PROVE  l[r[j]] = At(r, j + 1)
    <2>1. CASE j + 1 < k
      <3>1. r[j] = s[j] /\ j \in 1..Len(s) /\ k - 1 \in 1..Len(s) /\ j # k - 1 /\ k # 1
        BY <1>1, <1>2, <2>1
      <3>2. s[j] # s[k - 1]
        BY <1>4, <3>1
      <3>3. l[r[j]] = At(s, j + 1)
        BY <1>3, <1>5, <3>1, <3>2
      <3>4. QED
        BY <1>6, <2>1, <3>3
    <2>2. CASE j + 1 = k
      <3>1. r[j] = s[k - 1] /\ k # 1 /\ k + 1 = j + 2 /\ j + 1 >= k
        BY <1>1, <1>2, <2>2
      <3>2. l[r[j]] = At(s, k + 1)
        BY <1>3, <1>5, <3>1
      <3>3. QED
        BY <1>6, <3>1, <3>2
    <2>3. CASE j + 1 > k
      <3>1. /\ r[j] = s[j + 1] /\ j + 1 \in 1..Len(s) /\ (j + 1) + 1 = j + 2 /\ j + 1 >= k
            /\ k # 1 => k - 1 \in 1..Len(s) /\ j + 1 # k - 1
        BY <1>1, <1>2, <2>3
      <3>2. k # 1 => s[j + 1] # s[k - 1]
        BY <1>4, <3>1
      <3>3. links[s[j + 1]] = At(s, j + 2) /\ s[j + 1] \in Transitions
        BY <1>3, <3>1
      <3>4. l[r[j]] = At(s, j + 2)
        BY <1>5, <3>1, <3>2, <3>3
      <3>5. QED
        BY <1>6, <3>1, <3>4
    <2>4. QED
      BY <1>1, <2>1, <2>2, <2>3
  <1>8. (IF k = 1 THEN links[s[1]] ELSE head) = At(r, 1)
    <2>1. 1 \in Nat /\ 2 \in Nat /\ 1 \in 1..Len(s) /\ 1 + 1 = 2
      BY <1>1
    <2>2. links[s[1]] = At(s, 2) /\ head = s[1]
      BY <1>3, <2>1, AtPlace DEF Reads
    <2>3. CASE Len(s) = 1
      <3>1. k = 1 /\ 1 \notin 1..Len(s) - 1 /\ 2 \notin 1..Len(s)
        BY <1>1, <2>3
      <3>2. QED
        BY <1>2, <2>1, <2>2, <3>1, AtPlace
    <2>4. CASE Len(s) > 1
      <3>1. 1 \in 1..Len(s) - 1 /\ 2 \in 1..Len(s)
        BY <1>1, <2>4
      <3>2. r[1] = (IF 1 < k THEN s[1] ELSE s[2]) /\ At(r, 1) = r[1] /\ At(s, 2) = s[2]
        BY <1>2, <2>1, <3>1, AtPlace
      <3>3. QED
        BY <1>1, <2>2, <3>2
    <2>5. QED
      <3> DEFINE n == Len(s)
      <3>1. n \in Nat /\ n >= 1
        BY <1>1
      <3> HIDE DEF n
      <3>2. n = 1 \/ n > 1
        BY <3>1
      <3>3. QED
        BY <2>3, <2>4, <3>2 DEF n
  <1>9. QED
    BY <1>2, <1>7, <1>8 DEF Reads, r, l

-----------------------------------------------------------------------------
(* Threads, calls and claims *)

LEMMA CallShape ==
  ASSUME LocalsInv, NEW t \in Threads
  PROVE  /\ call[t].op \in {"insert", "remove", "has", "find", "none"}
         /\ Is(t, "insert") \/ Is(t, "remove") \/ Is(t, "has") => Arg(t) \in Transitions
         /\ Is(t, "none") <=> call[t] = NoCall
  <1>1. call[t] \in PossibleCalls \/ call[t] = NoCall
    BY DEF LocalsInv
  <1>2. QED
    BY <1>1 DEF PossibleCalls, NoCall, Is, Arg

LEMMA ThreadsInvStart ==
  ASSUME ThreadsInv, NEW t \in Threads, Start(t)
  PROVE  ThreadsInv'
  <1>1. PICK c \in PossibleCalls : MayCall(c) /\ call' = [call EXCEPT ![t] = c] /\ fate' = Claimed(c)
    BY DEF Start
  <1>2. /\ pc[t] = "idle" /\ pc' = [pc EXCEPT ![t] = "lock"]
        /\ UNCHANGED <<transitions, next, holder, prev, iter, answer>>
    BY DEF Start, Goto, memory
  <1>3. /\ c.op \in {"insert", "remove", "has", "find"}
        /\ c.op \in {"insert", "remove", "has"} => c.arg \in Transitions
    BY DEF PossibleCalls
  <1>4. LocalsInv'
    <2>1. fate' \in [Transitions -> {"out", "inserting", "in", "removing"}]
      BY <1>1, <1>3 DEF ThreadsInv, LocalsInv, TypeOK, Claimed
    <2>2. call' \in [Threads -> PossibleCalls \cup {NoCall}]
      BY <1>1 DEF ThreadsInv, LocalsInv
    <2>3. pc' \in [Threads -> Places]
      BY <1>2 DEF ThreadsInv, LocalsInv, Places
    <2>4. \A u \in Threads : pc'[u] \notin {"idle", "lock"} => holder' = u
      BY <1>2 DEF ThreadsInv, LocalsInv, TypeOK
    <2>5. QED
      BY <1>2, <2>1, <2>2, <2>3, <2>4 DEF ThreadsInv, LocalsInv, TypeOK
  <1>5. call'[t] = c /\ \A u \in Threads : u # t => call'[u] = call[u]
    BY <1>1 DEF ThreadsInv, LocalsInv
  <1>6. pc'[t] = "lock" /\ \A u \in Threads : u # t => pc'[u] = pc[u]
    BY <1>2 DEF ThreadsInv, LocalsInv
  <1>7. PhaseInv'
    BY <1>2, <1>3, <1>5, <1>6 DEF ThreadsInv, PhaseInv, Is, Updates
  <1>8. ClaimInv'
    <2>1. \A u \in Threads : Updates(u) /\ u # t => Arg(u) \in Transitions
      BY CallShape DEF ThreadsInv, Updates
    <2>2. /\ c.op = "insert" => fate[c.arg] = "out" /\ fate'[c.arg] = "inserting"
          /\ c.op = "remove" => fate[c.arg] = "in" /\ fate'[c.arg] = "removing"
          /\ \A x \in Transitions : c.op \notin {"insert", "remove"} \/ x # c.arg => fate'[x] = fate[x]
      BY <1>1, <1>3 DEF MayCall, Claimed, ThreadsInv, LocalsInv, TypeOK
    <2>3. \A u \in Threads : Updates(u) /\ u # t /\ c.op \in {"insert", "remove"} => Arg(u) # c.arg
      BY <2>2 DEF ThreadsInv, ClaimInv, Updates
    <2>4. /\ \A u \in Threads : u # t => Arg(u)' = Arg(u) /\ (Updates(u)' <=> Updates(u))
                  /\ (Is(u, "insert")' <=> Is(u, "insert")) /\ (Is(u, "remove")' <=> Is(u, "remove"))
          /\ Arg(t)' = c.arg /\ (Is(t, "insert")' <=> c.op = "insert") /\ (Is(t, "remove")' <=> c.op = "remove")
      BY <1>5 DEF Arg, Is, Updates
    <2>5. ASSUME NEW u \in Threads
          PROVE  (Is(u, "insert")' => fate'[Arg(u)'] = "inserting")
              /\ (Is(u, "remove")' => fate'[Arg(u)'] = "removing")
      <3>1. CASE u = t
        BY <2>2, <2>4, <3>1
      <3>2. CASE u # t
        BY <2>1, <2>2, <2>3, <2>4, <3>2 DEF ThreadsInv, ClaimInv, Updates
      <3>3. QED
        BY <3>1, <3>2
    <2>6. ASSUME NEW u \in Threads, NEW w \in Threads, Updates(u)', Updates(w)', Arg(u)' = Arg(w)'
          PROVE  u = w
      BY <2>3, <2>4, <2>6 DEF ThreadsInv, ClaimInv, Updates
    <2>7. QED
      BY <2>5, <2>6 DEF ClaimInv
  <1>9. QED
    BY <1>4, <1>7, <1>8 DEF ThreadsInv

(* A step of a call that claims and returns nothing keeps every claim. *)
LEMMA ClaimsKept ==
  ASSUME ThreadsInv, UNCHANGED <<call, fate>>
  PROVE  ClaimInv'
  BY DEF ThreadsInv, ClaimInv, Is, Arg, Updates

LEMMA ThreadsInvLock ==
  ASSUME ThreadsInv, NEW t \in Threads, Lock(t)
  PROVE  ThreadsInv'
  <1>1. LocalsInv'
    <2>1. \A u \in Threads : pc'[u] \notin {"idle", "lock"} => holder' = u
      BY NobodyAssumption DEF Lock, Goto, ThreadsInv, LocalsInv, TypeOK
    <2>2. pc' \in [Threads -> Places]
      BY DEF Lock, Goto, ThreadsInv, LocalsInv, Places
    <2>3. QED
      BY <2>1, <2>2 DEF Lock, memory, ThreadsInv, LocalsInv, TypeOK, Pointers
  <1>2. PhaseInv'
    BY DEF Lock, Goto, ThreadsInv, LocalsInv, PhaseInv, Is, Updates
  <1>3. QED
    BY <1>1, <1>2, ClaimsKept DEF Lock, ThreadsInv

LEMMA ThreadsInvStep ==
  ASSUME ThreadsInv, NEW t \in Threads, Step(t)
  PROVE  ThreadsInv'
  <1>1. iter[t] \in Transitions
    BY DEF Step, Stops, ThreadsInv, LocalsInv, TypeOK
  <1>2. LocalsInv'
    BY <1>1 DEF Step, memory, ThreadsInv, LocalsInv, TypeOK, Pointers
  <1>3. PhaseInv'
    BY DEF Step, ThreadsInv, PhaseInv, Is, Updates
  <1>4. QED
    BY <1>2, <1>3, ClaimsKept DEF Step, ThreadsInv

LEMMA ThreadsInvLinkNew ==
  ASSUME ThreadsInv, NEW t \in Threads, LinkNew(t)
  PROVE  ThreadsInv'
  <1>1. Arg(t) \in Transitions /\ prev[t] \in Pointers /\ (prev[t] # Nobody => prev[t] \in Transitions)
    BY CallShape DEF LinkNew, ThreadsInv, LocalsInv, Pointers
  <1>2. next' \in [Transitions -> Pointers]
    BY <1>1 DEF LinkNew, ThreadsInv, LocalsInv, TypeOK, Pointers
  <1>3. pc' \in [Threads -> Places]
    BY DEF LinkNew, Goto, ThreadsInv, LocalsInv, Places
  <1>4. \A u \in Threads : pc'[u] \notin {"idle", "lock"} => holder' = u
    BY DEF LinkNew, Goto, ThreadsInv, LocalsInv, TypeOK
  <1>5. LocalsInv'
    BY <1>2, <1>3, <1>4 DEF LinkNew, locals, ThreadsInv, LocalsInv, TypeOK, Pointers
  <1>6. PhaseInv'
    BY DEF LinkNew, Goto, locals, ThreadsInv, LocalsInv, PhaseInv, Is, Updates
  <1>7. QED
    BY <1>5, <1>6, ClaimsKept DEF LinkNew, locals, ThreadsInv

LEMMA ThreadsInvPublish ==
  ASSUME ThreadsInv, NEW t \in Threads, Publish(t)
  PROVE  ThreadsInv'
  <1>1. Arg(t) \in Transitions
    BY CallShape DEF Publish, Goto, ThreadsInv, PhaseInv
  <1>2. transitions' \in Pointers /\ next' \in [Transitions -> Pointers]
    BY <1>1 DEF Publish, ThreadsInv, LocalsInv, TypeOK, Pointers
  <1>3. pc' \in [Threads -> Places]
    BY DEF Publish, Goto, ThreadsInv, LocalsInv, Places
  <1>4. \A u \in Threads : pc'[u] \notin {"idle", "lock"} => holder' = u
    BY DEF Publish, Goto, ThreadsInv, LocalsInv, TypeOK
  <1>5. answer' \in [Threads -> Pointers \cup {"pending", "done", "yes", "no"}]
    BY DEF Publish, Answer, ThreadsInv, LocalsInv
  <1>6. LocalsInv'
    BY <1>2, <1>3, <1>4, <1>5 DEF Publish, ThreadsInv, LocalsInv, TypeOK, Pointers
  <1>7. PhaseInv'
    BY DEF Publish, Goto, Answer, ThreadsInv, LocalsInv, PhaseInv, Is, Updates
  <1>8. QED
    BY <1>6, <1>7, ClaimsKept DEF Publish, ThreadsInv

LEMMA ThreadsInvRemoveHead ==
  ASSUME ThreadsInv, NEW t \in Threads, RemoveHead(t)
  PROVE  ThreadsInv'
  <1>1. Arg(t) \in Transitions
    BY CallShape DEF RemoveHead, Goto, ThreadsInv, PhaseInv
  <1>2. transitions' \in Pointers
    BY <1>1 DEF RemoveHead, ThreadsInv, LocalsInv, TypeOK, Pointers
  <1>3. pc' \in [Threads -> Places]
    BY DEF RemoveHead, Goto, ThreadsInv, LocalsInv, Places
  <1>4. \A u \in Threads : pc'[u] \notin {"idle", "lock"} => holder' = u
    BY DEF RemoveHead, Goto, ThreadsInv, LocalsInv, TypeOK
  <1>5. answer' \in [Threads -> Pointers \cup {"pending", "done", "yes", "no"}]
    BY DEF RemoveHead, Answer, ThreadsInv, LocalsInv
  <1>6. LocalsInv'
    BY <1>2, <1>3, <1>4, <1>5 DEF RemoveHead, ThreadsInv, LocalsInv, TypeOK, Pointers
  <1>7. PhaseInv'
    BY DEF RemoveHead, Goto, Answer, ThreadsInv, LocalsInv, PhaseInv, Is, Updates
  <1>8. QED
    BY <1>6, <1>7, ClaimsKept DEF RemoveHead, ThreadsInv

LEMMA ThreadsInvUnlink ==
  ASSUME ThreadsInv, NEW t \in Threads, Unlink(t)
  PROVE  ThreadsInv'
  <1>1. Arg(t) \in Transitions
    BY CallShape DEF Unlink, ThreadsInv
  <1>2. next' \in [Transitions -> Pointers]
    BY <1>1 DEF Unlink, ThreadsInv, LocalsInv, TypeOK, Pointers
  <1>3. pc' \in [Threads -> Places]
    BY DEF Unlink, Goto, ThreadsInv, LocalsInv, Places
  <1>4. \A u \in Threads : pc'[u] \notin {"idle", "lock"} => holder' = u
    BY DEF Unlink, Goto, ThreadsInv, LocalsInv, TypeOK
  <1>5. answer' \in [Threads -> Pointers \cup {"pending", "done", "yes", "no"}]
    BY DEF Unlink, Answer, ThreadsInv, LocalsInv
  <1>6. LocalsInv'
    BY <1>2, <1>3, <1>4, <1>5 DEF Unlink, ThreadsInv, LocalsInv, TypeOK, Pointers
  <1>7. PhaseInv'
    BY DEF Unlink, Goto, Answer, ThreadsInv, LocalsInv, PhaseInv, Is, Updates
  <1>8. QED
    BY <1>6, <1>7, ClaimsKept DEF Unlink, ThreadsInv

LEMMA ThreadsInvDetach ==
  ASSUME ThreadsInv, NEW t \in Threads, Detach(t)
  PROVE  ThreadsInv'
  <1>1. next' \in [Transitions -> Pointers]
    BY DEF Detach, ThreadsInv, LocalsInv, TypeOK, Pointers
  <1>2. pc' \in [Threads -> Places]
    BY DEF Detach, Goto, ThreadsInv, LocalsInv, Places
  <1>3. \A u \in Threads : pc'[u] \notin {"idle", "lock"} => holder' = u
    BY DEF Detach, Goto, ThreadsInv, LocalsInv, TypeOK
  <1>4. LocalsInv'
    BY <1>1, <1>2, <1>3 DEF Detach, locals, ThreadsInv, LocalsInv, TypeOK, Pointers
  <1>5. PhaseInv'
    BY DEF Detach, Goto, locals, ThreadsInv, LocalsInv, PhaseInv, Is, Updates
  <1>6. QED
    BY <1>4, <1>5, ClaimsKept DEF Detach, locals, ThreadsInv

LEMMA ThreadsInvFound ==
  ASSUME ThreadsInv, NEW t \in Threads, Found(t)
  PROVE  ThreadsInv'
  <1>1. pc' \in [Threads -> Places]
    BY DEF Found, Goto, ThreadsInv, LocalsInv, Places
  <1>2. \A u \in Threads : pc'[u] \notin {"idle", "lock"} => holder' = u
    BY DEF Found, Goto, ThreadsInv, LocalsInv, TypeOK
  <1>3. /\ answer' \in [Threads -> Pointers \cup {"pending", "done", "yes", "no"}]
        /\ answer'[t] # "pending" /\ \A u \in Threads : u # t => answer'[u] = answer[u]
    BY PendingAssumption DEF Found, Answer, ThreadsInv, LocalsInv, TypeOK, Pointers
  <1>4. LocalsInv'
    BY <1>1, <1>2, <1>3 DEF Found, memory, ThreadsInv, LocalsInv, TypeOK, Pointers
  <1>5. PhaseInv'
    BY <1>3 DEF Found, Goto, ThreadsInv, LocalsInv, PhaseInv, Is, Updates
  <1>6. QED
    BY <1>4, <1>5, ClaimsKept DEF Found, ThreadsInv

LEMMA ThreadsInvUnlock ==
  ASSUME ThreadsInv, NEW t \in Threads, Unlock(t)
  PROVE  ThreadsInv'
  <1>1. /\ pc[t] = "unlock" /\ pc' = [pc EXCEPT ![t] = "idle"] /\ holder' = Nobody
        /\ call' = [call EXCEPT ![t] = NoCall] /\ answer' = [answer EXCEPT ![t] = "pending"]
        /\ UNCHANGED <<transitions, next, prev, iter>>
    BY DEF Unlock, Goto, Answer, memory
  <1>2. Updates(t) => Arg(t) \in Transitions
    BY CallShape DEF ThreadsInv, Updates
  <1>3. /\ fate' \in [Transitions -> {"out", "inserting", "in", "removing"}]
        /\ \A x \in Transitions : (Updates(t) /\ x = Arg(t)) \/ fate'[x] = fate[x]
    BY <1>2 DEF Unlock, ThreadsInv, LocalsInv, TypeOK, Updates, Is
  <1>4. LocalsInv'
    <2>1. pc' \in [Threads -> Places]
      BY <1>1 DEF ThreadsInv, LocalsInv, Places
    <2>2. \A u \in Threads : pc'[u] \in {"idle", "lock"}
      BY <1>1 DEF ThreadsInv, LocalsInv, TypeOK
    <2>3. QED
      BY <1>1, <1>3, <2>1, <2>2 DEF ThreadsInv, LocalsInv, TypeOK
  <1>5. call'[t] = NoCall /\ \A u \in Threads : u # t => call'[u] = call[u]
    BY <1>1 DEF ThreadsInv, LocalsInv
  <1>6. PhaseInv'
    BY <1>1, <1>5 DEF ThreadsInv, LocalsInv, PhaseInv, Is, Updates, NoCall
  <1>7. ClaimInv'
    <2>1. /\ ~Updates(t)' /\ ~Is(t, "insert")' /\ ~Is(t, "remove")'
          /\ \A u \in Threads : u # t => Arg(u)' = Arg(u) /\ (Updates(u)' <=> Updates(u))
               /\ (Is(u, "insert")' <=> Is(u, "insert")) /\ (Is(u, "remove")' <=> Is(u, "remove"))
      BY <1>5 DEF Is, Arg, Updates, NoCall
    <2>2. \A u \in Threads : Updates(u) => Arg(u) \in Transitions
      BY CallShape DEF ThreadsInv, Updates
    <2>3. \A u \in Threads : Updates(u) /\ u # t => fate'[Arg(u)] = fate[Arg(u)]
      BY <1>3, <2>2 DEF ThreadsInv, ClaimInv
    <2>4. QED
      BY <2>1, <2>3 DEF ThreadsInv, ClaimInv, Updates
  <1>8. QED
    BY <1>4, <1>6, <1>7 DEF ThreadsInv

-----------------------------------------------------------------------------
(* The list *)

LEMMA HasInserted ==
  ASSUME NEW s \in Lists, NEW x \in Transitions, ~Has(s, x), NEW i \in 1..Len(s) + 1, NEW y
  PROVE  Has(InsertAt(s, i, x), y) <=> Has(s, y) \/ y = x
  <1> DEFINE r == InsertAt(s, i, x)
  <1>1. Len(s) \in Nat /\ DOMAIN s = 1..Len(s) /\ i \in Nat /\ i >= 1 /\ i <= Len(s) + 1
    BY ListShape
  <1>2. /\ DOMAIN r = 1..Len(s) + 1
        /\ \A j \in 1..Len(s) + 1 : r[j] = IF j < i THEN s[j] ELSE IF j = i THEN x ELSE s[j - 1]
    BY <1>1, InsertedList, ListShape
  <1> HIDE DEF r
  <1>3. r[i] = x
    BY <1>1, <1>2
  <1>4. ASSUME NEW j \in 1..Len(s) PROVE \E k \in DOMAIN r : r[k] = s[j]
    <2>1. CASE j < i
      BY <1>1, <1>2, <2>1
    <2>2. CASE j >= i
      <3>1. j + 1 \in 1..Len(s) + 1 /\ r[j + 1] = s[j]
        BY <1>1, <1>2, <2>2
      <3>2. QED
        BY <1>2, <3>1
    <2>3. QED
      BY <1>1, <2>1, <2>2
  <1>5. ASSUME NEW j \in 1..Len(s) + 1, r[j] # x PROVE \E k \in DOMAIN s : s[k] = r[j]
    <2>1. CASE j < i
      BY <1>1, <1>2, <2>1
    <2>2. CASE j > i
      <3>1. j - 1 \in 1..Len(s) /\ r[j] = s[j - 1]
        BY <1>1, <1>2, <2>2
      <3>2. QED
        BY <1>1, <3>1
    <2>3. QED
      BY <1>1, <1>3, <1>5, <2>1, <2>2
  <1>6. i \in DOMAIN r
    BY <1>1, <1>2
  <1>7. Has(r, y) <=> Has(s, y) \/ y = x
    BY <1>1, <1>2, <1>3, <1>4, <1>5, <1>6 DEF Has
  <1>8. QED
    BY <1>7 DEF r

LEMMA HasRemoved ==
  ASSUME NEW s \in Lists, NEW i \in 1..Len(s), NEW y
  PROVE  Has(RemoveAt(s, i), y) <=> Has(s, y) /\ y # s[i]
  <1> DEFINE r == RemoveAt(s, i)
  <1>1. /\ Len(s) \in Nat /\ DOMAIN s = 1..Len(s) /\ i \in Nat /\ i >= 1 /\ i <= Len(s)
        /\ \A j, k \in 1..Len(s) : s[j] = s[k] => j = k
    BY ListShape
  <1>2. /\ DOMAIN r = 1..Len(s) - 1
        /\ \A j \in 1..Len(s) - 1 : r[j] = IF j < i THEN s[j] ELSE s[j + 1]
    BY <1>1, RemovedList, ListShape
  <1> HIDE DEF r
  <1>3. ASSUME NEW j \in 1..Len(s), j # i PROVE \E k \in DOMAIN r : r[k] = s[j]
    <2>1. CASE j < i
      BY <1>1, <1>2, <2>1
    <2>2. CASE j > i
      <3>1. j - 1 \in 1..Len(s) - 1 /\ ~(j - 1 < i) /\ (j - 1) + 1 = j
        BY <1>1, <2>2
      <3>2. QED
        BY <1>2, <3>1
    <2>3. QED
      BY <1>1, <1>3, <2>1, <2>2
  <1>4. ASSUME NEW j \in 1..Len(s) - 1 PROVE \E k \in DOMAIN s : k # i /\ s[k] = r[j]
    <2>1. CASE j < i
      BY <1>1, <1>2, <2>1
    <2>2. CASE j >= i
      <3>1. j + 1 \in 1..Len(s) /\ j + 1 # i /\ r[j] = s[j + 1]
        BY <1>1, <1>2, <2>2
      <3>2. QED
        BY <1>1, <3>1
    <2>3. QED
      BY <1>1, <2>1, <2>2
  <1>5. Has(r, y) <=> Has(s, y) /\ y # s[i]
    <2>1. ASSUME Has(r, y) PROVE Has(s, y) /\ y # s[i]
      <3>1. PICK j \in 1..Len(s) - 1 : r[j] = y
        BY <1>2, <2>1 DEF Has
      <3>2. PICK k \in 1..Len(s) : k # i /\ s[k] = y
        BY <1>1, <1>4, <3>1
      <3>3. QED
        BY <1>1, <3>2 DEF Has
    <2>2. ASSUME Has(s, y), y # s[i] PROVE Has(r, y)
      BY <1>1, <1>3, <2>2 DEF Has
    <2>3. QED
      BY <2>1, <2>2
  <1>6. QED
    BY <1>5 DEF r

(* Where a new element belongs in a sorted list *)
LEMMA PlaceInSorted ==
  ASSUME NEW s \in Lists, Sorted(s), NEW x \in Transitions, NEW k \in 0..Len(s),
         \A j \in 1..k : Distance[s[j]] < Distance[x],
         At(s, k + 1) # Nobody => Distance[At(s, k + 1)] >= Distance[x]
  PROVE  \A j \in DOMAIN s : j < k + 1 <=> Distance[s[j]] < Distance[x]
  <1>1. /\ Len(s) \in Nat /\ k \in Nat /\ k <= Len(s) /\ DOMAIN s = 1..Len(s)
        /\ \A j \in 1..Len(s) : s[j] \in Transitions
    BY ListShape
  <1>2. \A y \in Transitions : Distance[y] \in Nat
    BY DistanceAssumption
  <1>3. ASSUME NEW j \in 1..Len(s), j >= k + 1
        PROVE  Distance[s[j]] >= Distance[x]
    <2>1. k + 1 \in 1..Len(s) /\ k + 1 \in Nat
      BY <1>1, <1>3
    <2>2. At(s, k + 1) = s[k + 1] /\ s[k + 1] # Nobody
      BY <2>1, AtPlace
    <2>3. Distance[s[k + 1]] <= Distance[s[j]]
      BY <1>1, <1>2, <1>3, <2>1 DEF Sorted
    <2>4. QED
      BY <1>1, <1>2, <2>1, <2>2, <2>3
  <1>4. ASSUME NEW j \in 1..Len(s), j < k + 1
        PROVE  Distance[s[j]] < Distance[x]
    BY <1>1, <1>4
  <1>5. ASSUME NEW j \in 1..Len(s)
        PROVE  j < k + 1 <=> Distance[s[j]] < Distance[x]
    <2>1. Distance[s[j]] \in Nat /\ Distance[x] \in Nat /\ j \in Nat
      BY <1>1, <1>2
    <2>2. CASE j < k + 1
      BY <1>4, <2>2
    <2>3. CASE j >= k + 1
      BY <1>1, <1>3, <2>1, <2>3
    <2>4. QED
      BY <1>1, <2>1, <2>2, <2>3
  <1>6. QED
    BY <1>1, <1>5

LEMMA SortedInserted ==
  ASSUME NEW s \in Lists, Sorted(s), NEW x \in Transitions, ~Has(s, x), NEW i \in 1..Len(s) + 1,
         \A j \in DOMAIN s : j < i <=> Distance[s[j]] < Distance[x]
  PROVE  Sorted(InsertAt(s, i, x))
  <1> DEFINE r == InsertAt(s, i, x)
  <1>1. /\ Len(s) \in Nat /\ DOMAIN s = 1..Len(s) /\ i \in Nat /\ i >= 1 /\ i <= Len(s) + 1
        /\ \A j \in 1..Len(s) : s[j] \in Transitions
    BY ListShape
  <1>2. /\ DOMAIN r = 1..Len(s) + 1
        /\ \A j \in 1..Len(s) + 1 : r[j] = IF j < i THEN s[j] ELSE IF j = i THEN x ELSE s[j - 1]
    BY <1>1, InsertedList, ListShape
  <1> HIDE DEF r
  <1>3. \A y \in Transitions : Distance[y] \in Nat
    BY DistanceAssumption
  <1>4. ASSUME NEW j \in 1..Len(s) + 1, NEW k \in 1..Len(s) + 1, j < k
        PROVE  Distance[r[j]] <= Distance[r[k]]
    <2>1. CASE k < i
      BY <1>1, <1>2, <1>4, <2>1 DEF Sorted
    <2>2. CASE k = i
      <3>1. j \in 1..Len(s) /\ j < i /\ r[j] = s[j] /\ r[k] = x
        BY <1>1, <1>2, <1>4, <2>2
      <3>2. QED
        BY <1>1, <1>3, <3>1
    <2>3. CASE k > i /\ j = i
      <3>1. k - 1 \in 1..Len(s) /\ ~(k - 1 < i) /\ r[k] = s[k - 1] /\ r[j] = x
        BY <1>1, <1>2, <1>4, <2>3
      <3>2. ~(Distance[s[k - 1]] < Distance[x])
        BY <1>1, <3>1
      <3>3. Distance[s[k - 1]] \in Nat /\ Distance[x] \in Nat
        BY <1>1, <1>3, <3>1
      <3>4. QED
        BY <3>1, <3>2, <3>3
    <2>4. CASE k > i /\ j < i
      <3>1. k - 1 \in 1..Len(s) /\ j \in 1..Len(s) /\ j < k - 1 /\ r[k] = s[k - 1] /\ r[j] = s[j]
        BY <1>1, <1>2, <1>4, <2>4
      <3>2. QED
        BY <1>1, <3>1 DEF Sorted
    <2>5. CASE k > i /\ j > i
      <3>1. k - 1 \in 1..Len(s) /\ j - 1 \in 1..Len(s) /\ j - 1 < k - 1 /\ r[k] = s[k - 1] /\ r[j] = s[j - 1]
        BY <1>1, <1>2, <1>4, <2>5
      <3>2. QED
        BY <1>1, <3>1 DEF Sorted
    <2>6. QED
      BY <1>1, <2>1, <2>2, <2>3, <2>4, <2>5
  <1>5. Sorted(r)
    BY <1>2, <1>4 DEF Sorted
  <1>6. QED
    BY <1>5 DEF r

LEMMA SortedRemoved ==
  ASSUME NEW s \in Lists, Sorted(s), NEW i \in 1..Len(s)
  PROVE  Sorted(RemoveAt(s, i))
  <1> DEFINE r == RemoveAt(s, i)
             from(n) == IF n < i THEN n ELSE n + 1
  <1>1. Len(s) \in Nat /\ DOMAIN s = 1..Len(s) /\ i \in Nat
    BY ListShape
  <1>2. /\ DOMAIN r = 1..Len(s) - 1
        /\ \A j \in 1..Len(s) - 1 : r[j] = s[from(j)]
    BY <1>1, RemovedList, ListShape
  <1> HIDE DEF r
  <1>3. ASSUME NEW j \in 1..Len(s) - 1, NEW k \in 1..Len(s) - 1, j < k
        PROVE  from(j) \in 1..Len(s) /\ from(k) \in 1..Len(s) /\ from(j) < from(k)
    BY <1>1, <1>3
  <1> HIDE DEF from
  <1>4. Sorted(r)
    BY <1>1, <1>2, <1>3 DEF Sorted
  <1>5. QED
    BY <1>4 DEF r

-----------------------------------------------------------------------------
(* Steps on the list *)

LEMMA ListInvStart ==
  ASSUME ThreadsInv, NEW s \in Lists, ListInv(s), NEW t \in Threads, Start(t)
  PROVE  ListInv(s)'
  <1>1. PICK c \in PossibleCalls : MayCall(c) /\ call' = [call EXCEPT ![t] = c] /\ fate' = Claimed(c)
    BY DEF Start
  <1>2. /\ pc[t] = "idle" /\ pc' = [pc EXCEPT ![t] = "lock"]
        /\ UNCHANGED <<transitions, next, holder, prev, iter, answer>>
    BY DEF Start, Goto, memory
  <1>3. /\ c.op \in {"insert", "remove", "has", "find"}
        /\ c.op \in {"insert", "remove", "has"} => c.arg \in Transitions
    BY DEF PossibleCalls
  <1>4. call'[t] = c /\ pc'[t] = "lock"
        /\ \A u \in Threads : u # t => call'[u] = call[u] /\ pc'[u] = pc[u]
    BY <1>1, <1>2 DEF ThreadsInv, LocalsInv
  <1>5. Reads(s, transitions, next)'
    BY <1>2 DEF ListInv, Reads, At
  <1>6. Sorted(s)
    BY DEF ListInv
  <1>7. Membership(s)'
    <2>1. /\ c.op = "insert" => fate[c.arg] = "out" /\ fate'[c.arg] = "inserting"
          /\ c.op = "remove" => fate[c.arg] = "in" /\ fate'[c.arg] = "removing"
          /\ \A x \in Transitions : c.op \notin {"insert", "remove"} \/ x # c.arg => fate'[x] = fate[x]
      BY <1>1, <1>3 DEF MayCall, Claimed, ThreadsInv, LocalsInv, TypeOK
    <2>2. \A x \in Transitions : (fate'[x] = "in" => Has(s, x)) /\ (fate'[x] = "out" => ~Has(s, x))
      BY <1>3, <2>1 DEF ListInv, Membership
    <2>3. ASSUME NEW u \in Threads
          PROVE  /\ Is(u, "insert")' => (Has(s, Arg(u)') <=> pc'[u] = "unlock")
                 /\ Is(u, "remove")' => (Has(s, Arg(u)') <=> pc'[u] \in {"lock", "head", "walk"})
      <3>1. CASE u = t
        BY <1>3, <1>4, <2>1, <3>1 DEF ListInv, Membership, Is, Arg
      <3>2. CASE u # t
        BY <1>4, <3>2 DEF ListInv, Membership, Is, Arg
      <3>3. QED
        BY <3>1, <3>2
    <2>4. QED
      BY <2>2, <2>3 DEF Membership, Has
  <1>8. ASSUME NEW u \in Threads
        PROVE  (\E k \in 0..Len(s) : Walk(u, s, k))'
    <2>1. CASE u = t
      BY <1>4, <2>1, ListShape DEF Walk
    <2>2. CASE u # t
      <3>1. PICK k \in 0..Len(s) : Walk(u, s, k)
        BY DEF ListInv
      <3>2. Walk(u, s, k)'
        BY <1>2, <1>4, <2>2, <3>1 DEF Walk, Between, Passes, Is, Arg, At
      <3>3. QED
        BY <3>2
    <2>3. QED
      BY <2>1, <2>2
  <1>9. QED
    BY <1>5, <1>6, <1>7, <1>8 DEF ListInv, Sorted

(* A step inside the mutex that leaves the list as it is: what remains to be shown is    *)
(* where its thread stands.                                                              *)
LEMMA ListInvInside ==
  ASSUME ThreadsInv, NEW s \in Lists, ListInv(s), NEW t \in Threads, NEW to,
         pc[t] \notin {"idle", "lock"} \/ (pc[t] = "lock" /\ holder = Nobody),
         pc' = [pc EXCEPT ![t] = to], UNCHANGED <<call, fate>>,
         Is(t, "insert") => (to = "unlock" <=> pc[t] = "unlock"),
         Is(t, "remove") => (to \in {"lock", "head", "walk"} <=> pc[t] \in {"lock", "head", "walk"}),
         Reads(s, transitions', next'),
         \E k \in 0..Len(s) : Walk(t, s, k)'
  PROVE  ListInv(s)'
  <1>1. pc'[t] = to /\ \A u \in Threads : u # t => pc'[u] = pc[u]
    BY DEF ThreadsInv, LocalsInv
  <1>2. \A u \in Threads : u # t => pc'[u] \in {"idle", "lock"}
    BY <1>1, NobodyAssumption DEF ThreadsInv, LocalsInv, TypeOK
  <1>3. \A u \in Threads : u # t => (\E k \in 0..Len(s) : Walk(u, s, k))'
    BY <1>2, ListShape DEF Walk
  <1>4. Membership(s)'
    BY <1>1 DEF ListInv, Membership, Has, Is, Arg
  <1>5. Reads(s, transitions, next)'
    BY DEF Reads, At
  <1>6. Sorted(s)'
    BY DEF ListInv, Sorted
  <1>7. QED
    BY <1>3, <1>4, <1>5, <1>6 DEF ListInv

LEMMA ListInvLock ==
  ASSUME ThreadsInv, NEW s \in Lists, ListInv(s), NEW t \in Threads, Lock(t)
  PROVE  ListInv(s)'
  <1> DEFINE to == IF Is(t, "remove") THEN "head" ELSE "walk"
  <1>1. /\ pc[t] = "lock" /\ pc' = [pc EXCEPT ![t] = to] /\ holder = Nobody
        /\ prev' = [prev EXCEPT ![t] = Nobody] /\ iter' = [iter EXCEPT ![t] = transitions]
        /\ UNCHANGED <<transitions, next, call, fate>>
    BY DEF Lock, Goto, memory
  <1>2. pc'[t] = to /\ prev'[t] = Nobody /\ iter'[t] = transitions
    BY <1>1 DEF ThreadsInv, LocalsInv, TypeOK
  <1>3. transitions = At(s, 1) /\ At(s, 0) = Nobody /\ 0 \in 0..Len(s)
    BY ListShape DEF ListInv, Reads, At
  <1>4. Is(t, "insert") => ~Is(t, "remove")
    BY DEF Is
  <1>5. Walk(t, s, 0)'
    BY <1>1, <1>2, <1>3 DEF Walk, Between, Is, Arg, At
  <1>6. Reads(s, transitions', next')
    BY <1>1 DEF ListInv
  <1>7. \E k \in 0..Len(s) : Walk(t, s, k)'
    BY <1>3, <1>5
  <1>8. /\ Is(t, "insert") => (to = "unlock" <=> pc[t] = "unlock")
        /\ Is(t, "remove") => (to \in {"lock", "head", "walk"} <=> pc[t] \in {"lock", "head", "walk"})
    BY <1>1
  <1> HIDE DEF to
  <1>9. QED
    BY <1>1, <1>6, <1>7, <1>8, ListInvInside

LEMMA ListInvStep ==
  ASSUME ThreadsInv, NEW s \in Lists, ListInv(s), NEW t \in Threads, Step(t)
  PROVE  ListInv(s)'
  <1>1. /\ pc[t] = "walk" /\ ~Stops(t) /\ iter[t] # Nobody
        /\ prev' = [prev EXCEPT ![t] = iter[t]] /\ iter' = [iter EXCEPT ![t] = next[iter[t]]]
        /\ UNCHANGED <<transitions, next, holder, pc, call, answer, fate>>
    BY DEF Step, Stops, memory
  <1>2. PICK k \in 0..Len(s) : Walk(t, s, k)
    BY DEF ListInv
  <1>3. Between(t, s, k) /\ (Is(t, "remove") => iter[t] # Arg(t))
    BY <1>1, <1>2 DEF Walk
  <1>4. k \in Nat /\ k + 1 \in Nat /\ k + 1 \in 1..Len(s) /\ k + 1 \in 0..Len(s) /\ (k + 1) + 1 = k + 2
    <2>1. k \in Nat /\ k + 1 \in Nat
      BY ListShape
    <2>2. At(s, k + 1) # Nobody
      BY <1>1, <1>3 DEF Between
    <2>3. QED
      BY <2>1, <2>2, AtPlace
  <1>5. /\ iter[t] = s[k + 1] /\ iter[t] = At(s, k + 1) /\ iter[t] \in Transitions
        /\ next[iter[t]] = At(s, k + 2)
    BY <1>3, <1>4, AtPlace, ListShape DEF Between, ListInv, Reads
  <1>6. prev'[t] = At(s, k + 1) /\ iter'[t] = At(s, k + 2)
    BY <1>1, <1>5 DEF ThreadsInv, LocalsInv, TypeOK
  <1>7. Passes(t, s[k + 1])
    <2>1. call[t].op \in {"insert", "remove", "has", "find"} /\ (Is(t, "insert") => Arg(t) \in Transitions)
      BY <1>1, CallShape DEF ThreadsInv, PhaseInv, Is
    <2>2. Is(t, "insert") => Distance[iter[t]] < Distance[Arg(t)]
      BY <1>1, <1>5, <2>1, DistanceAssumption DEF Stops, Is
    <2>3. QED
      BY <1>1, <1>3, <1>5, <2>1, <2>2 DEF Stops, Passes, Is
  <1>8. \A i \in 1..k + 1 : Passes(t, s[i])
    BY <1>3, <1>4, <1>7 DEF Between
  <1>9. Is(t, "remove") => iter'[t] # Arg(t)
    BY <1>1, <1>5, <1>6 DEF Stops, Is
  <1>10. Walk(t, s, k + 1)'
    <2>1. (\A i \in 1..k + 1 : Passes(t, s[i]))'
      BY <1>1, <1>8 DEF Passes, Is, Arg
    <2>2. QED
      BY <1>1, <1>4, <1>6, <1>9, <2>1 DEF Walk, Between, Is, Arg, At
  <1>11. pc' = [pc EXCEPT ![t] = "walk"]
    BY <1>1 DEF ThreadsInv, LocalsInv
  <1>12. Reads(s, transitions', next')
    BY <1>1 DEF ListInv
  <1>13. \E n \in 0..Len(s) : Walk(t, s, n)'
    BY <1>4, <1>10
  <1> DEFINE to == "walk"
  <1>14. /\ pc[t] \notin {"idle", "lock"} /\ pc' = [pc EXCEPT ![t] = to] /\ UNCHANGED <<call, fate>>
         /\ Is(t, "insert") => (to = "unlock" <=> pc[t] = "unlock")
         /\ Is(t, "remove") => (to \in {"lock", "head", "walk"} <=> pc[t] \in {"lock", "head", "walk"})
    BY <1>1, <1>11
  <1> HIDE DEF to
  <1>15. QED
    BY <1>12, <1>13, <1>14, ListInvInside

LEMMA ListInvLinkNew ==
  ASSUME ThreadsInv, NEW s \in Lists, ListInv(s), NEW t \in Threads, LinkNew(t)
  PROVE  ListInv(s)'
  <1>1. /\ pc[t] = "walk" /\ pc' = [pc EXCEPT ![t] = "publish"] /\ Is(t, "insert") /\ Stops(t)
        /\ next' = [next EXCEPT ![Arg(t)] = IF prev[t] # Nobody THEN next[prev[t]] ELSE transitions]
        /\ UNCHANGED <<transitions, holder, call, prev, iter, answer, fate>>
    BY DEF LinkNew, Goto, locals
  <1>2. PICK k \in 0..Len(s) : Walk(t, s, k)
    BY DEF ListInv
  <1>3. Between(t, s, k)
    BY <1>1, <1>2 DEF Walk
  <1>4. Arg(t) \in Transitions /\ ~Has(s, Arg(t)) /\ next \in [Transitions -> Pointers]
    BY <1>1, CallShape DEF ThreadsInv, LocalsInv, TypeOK, ListInv, Membership, Pointers
  <1>5. Reads(s, transitions', next')
    BY <1>1, <1>4, ReadsPastOthers DEF ListInv
  <1>6. next'[Arg(t)] = iter[t]
    <2>1. next'[Arg(t)] = IF prev[t] # Nobody THEN next[prev[t]] ELSE transitions
      BY <1>1, <1>4
    <2>2. k \in Nat /\ (k = 0 \/ k \in 1..Len(s))
      BY ListShape
    <2>3. CASE k = 0
      <3>1. prev[t] = Nobody
        BY <1>3, <2>3, ListShape DEF Between, At
      <3>2. transitions = At(s, k + 1)
        BY <2>3 DEF ListInv, Reads
      <3>3. QED
        BY <1>3, <2>1, <3>1, <3>2 DEF Between
    <2>4. CASE k \in 1..Len(s)
      <3>1. prev[t] = s[k] /\ prev[t] # Nobody /\ next[s[k]] = At(s, k + 1)
        BY <1>3, <2>2, <2>4, AtPlace, ListShape DEF Between, ListInv, Reads
      <3>2. QED
        BY <1>3, <2>1, <3>1 DEF Between
    <2>5. QED
      BY <2>2, <2>3, <2>4
  <1>7. iter[t] # Nobody => Distance[iter[t]] >= Distance[Arg(t)]
    BY <1>1 DEF Stops, Is
  <1>8. pc'[t] = "publish"
    BY <1>1 DEF ThreadsInv, LocalsInv
  <1>9. Walk(t, s, k)'
    <2>1. Between(t, s, k)'
      BY <1>1, <1>3 DEF Between, Passes, Is, Arg, At
    <2>2. (next[Arg(t)] = iter[t])'
      BY <1>1, <1>6 DEF Arg
    <2>3. QED
      BY <1>1, <1>7, <1>8, <2>1, <2>2 DEF Walk, Arg
  <1>10. Is(t, "insert") => ~Is(t, "remove")
    BY DEF Is
  <1>11. \E n \in 0..Len(s) : Walk(t, s, n)'
    BY <1>9
  <1> DEFINE to == "publish"
  <1>12. /\ pc[t] \notin {"idle", "lock"} /\ pc' = [pc EXCEPT ![t] = to] /\ UNCHANGED <<call, fate>>
         /\ Is(t, "insert") => (to = "unlock" <=> pc[t] = "unlock")
         /\ Is(t, "remove") => (to \in {"lock", "head", "walk"} <=> pc[t] \in {"lock", "head", "walk"})
    BY <1>1, <1>10
  <1> HIDE DEF to
  <1>13. QED
    BY <1>5, <1>11, <1>12, ListInvInside

(* The step that takes effect on the list: who else inserts or removes means another     *)
(* element.                                                                              *)
LEMMA MembershipAfter ==
  ASSUME ThreadsInv, NEW s \in Lists, ListInv(s), NEW r \in Lists, NEW t \in Threads, Updates(t), NEW to,
         pc[t] \notin {"idle", "lock"}, pc' = [pc EXCEPT ![t] = to], UNCHANGED <<call, fate>>,
         \A x \in Transitions : x # Arg(t) => (Has(r, x) <=> Has(s, x)),
         Is(t, "insert") => Has(r, Arg(t)) /\ to = "unlock",
         Is(t, "remove") => ~Has(r, Arg(t)) /\ to \notin {"lock", "head", "walk"}
  PROVE  Membership(r)'
  <1>1. pc'[t] = to /\ \A u \in Threads : u # t => pc'[u] = pc[u]
    BY DEF ThreadsInv, LocalsInv
  <1>2. ASSUME NEW x \in Transitions
        PROVE  (fate'[x] = "in" => Has(r, x)) /\ (fate'[x] = "out" => ~Has(r, x))
    <2>1. x = Arg(t) => fate[x] \in {"inserting", "removing"}
      BY DEF ThreadsInv, ClaimInv, Updates
    <2>2. QED
      BY <2>1 DEF ListInv, Membership
  <1>3. ASSUME NEW u \in Threads
        PROVE  /\ Is(u, "insert") => (Has(r, Arg(u)) <=> pc'[u] = "unlock")
               /\ Is(u, "remove") => (Has(r, Arg(u)) <=> pc'[u] \in {"lock", "head", "walk"})
    <2>1. CASE u = t
      BY <1>1, <2>1
    <2>2. CASE u # t /\ Updates(u)
      <3>1. Arg(u) \in Transitions /\ Arg(u) # Arg(t)
        BY <2>2, CallShape DEF ThreadsInv, ClaimInv, Updates
      <3>2. QED
        BY <1>1, <2>2, <3>1 DEF ListInv, Membership
    <2>3. CASE ~Updates(u)
      BY <2>3 DEF Updates
    <2>4. QED
      BY <2>1, <2>2, <2>3
  <1>4. QED
    BY <1>2, <1>3 DEF Membership, Has, Is, Arg

LEMMA OthersStandNowhere ==
  ASSUME ThreadsInv, NEW t \in Threads, NEW to, NEW r \in Lists,
         pc[t] \notin {"idle", "lock"}, pc' = [pc EXCEPT ![t] = to]
  PROVE  \A u \in Threads : u # t => (\E k \in 0..Len(r) : Walk(u, r, k))'
  <1>1. \A u \in Threads : u # t => pc'[u] \in {"idle", "lock"}
    BY DEF ThreadsInv, LocalsInv, TypeOK
  <1>2. QED
    BY <1>1, ListShape DEF Walk

(* An insertion puts the element where a sorted list has it, before those as far away. *)
LEMMA ListInvPublish ==
  ASSUME ThreadsInv, NEW s \in Lists, ListInv(s), NEW t \in Threads, Publish(t)
  PROVE  \E i \in 1..Len(s) + 1, r \in Lists :
           /\ \A j \in DOMAIN s : j < i <=> Distance[s[j]] < Distance[Arg(t)]
           /\ r = InsertAt(s, i, Arg(t))
           /\ ListInv(r)'
  <1>1. /\ pc[t] = "publish" /\ pc' = [pc EXCEPT ![t] = "unlock"]
        /\ UNCHANGED <<holder, call, prev, iter, fate>>
    BY DEF Publish, Goto
  <1>2. Is(t, "insert") /\ Arg(t) \in Transitions /\ next \in [Transitions -> Pointers]
    BY <1>1, CallShape DEF ThreadsInv, PhaseInv, LocalsInv, TypeOK, Pointers
  <1>3. PICK k \in 0..Len(s) : Walk(t, s, k)
    BY DEF ListInv
  <1>4. /\ Between(t, s, k) /\ next[Arg(t)] = At(s, k + 1)
        /\ At(s, k + 1) # Nobody => Distance[At(s, k + 1)] >= Distance[Arg(t)]
    BY <1>1, <1>3 DEF Walk, Between
  <1>5. k \in Nat /\ k <= Len(s) /\ Len(s) \in Nat /\ (k # 0 => k \in 1..Len(s)) /\ k + 1 \in 1..Len(s) + 1
    BY ListShape
  <1>6. ~Has(s, Arg(t)) /\ Sorted(s) /\ Reads(s, transitions, next)
    BY <1>1, <1>2 DEF ListInv, Membership
  <1>7. \A j \in 1..k : Distance[s[j]] < Distance[Arg(t)]
    BY <1>2, <1>4 DEF Between, Passes, Is
  <1>8. \A j \in DOMAIN s : j < k + 1 <=> Distance[s[j]] < Distance[Arg(t)]
    BY <1>2, <1>4, <1>6, <1>7, PlaceInSorted
  <1>9. PICK r \in Lists : r = InsertAt(s, k + 1, Arg(t))
    BY <1>2, <1>5, <1>6, InsertedList
  <1>10. Reads(r, transitions', next')
    <2>1. Reads(r, IF k = 0 THEN Arg(t) ELSE transitions,
                IF k = 0 THEN next ELSE [next EXCEPT ![s[k]] = Arg(t)])
      BY <1>2, <1>4, <1>6, <1>9, ReadsInserted
    <2>2. CASE k = 0
      <3>1. prev[t] = Nobody
        BY <1>4, <2>2, ListShape DEF Between, At
      <3>2. transitions' = Arg(t) /\ next' = next
        BY <3>1 DEF Publish
      <3>3. QED
        BY <2>1, <2>2, <3>2
    <2>3. CASE k # 0
      <3>1. prev[t] = s[k] /\ prev[t] # Nobody
        BY <1>4, <1>5, <2>3, AtPlace DEF Between
      <3>2. transitions' = transitions /\ next' = [next EXCEPT ![s[k]] = Arg(t)]
        BY <3>1 DEF Publish
      <3>3. QED
        BY <2>1, <2>3, <3>2
    <2>4. QED
      BY <2>2, <2>3
  <1>11. Sorted(r)
    BY <1>2, <1>5, <1>6, <1>8, <1>9, SortedInserted
  <1>12. Membership(r)'
    <2>1. \A x : Has(r, x) <=> Has(s, x) \/ x = Arg(t)
      BY <1>2, <1>5, <1>6, <1>9, HasInserted
    <2>2. ~Is(t, "remove") /\ Updates(t) /\ pc[t] \notin {"idle", "lock"}
      BY <1>1, <1>2 DEF Is, Updates
    <2>3. QED
      BY <1>1, <2>1, <2>2, MembershipAfter
  <1>13. (\E n \in 0..Len(r) : Walk(t, r, n))'
    <2>1. prev[t] # Nobody => Distance[prev[t]] < Distance[Arg(t)]
      <3>1. CASE k = 0
        BY <1>4, <3>1, ListShape DEF Between, At
      <3>2. CASE k # 0
        BY <1>4, <1>5, <1>7, <3>2, AtPlace DEF Between
      <3>3. QED
        BY <3>1, <3>2
    <2>2. pc'[t] = "unlock"
      BY <1>1 DEF ThreadsInv, LocalsInv
    <2>3. Walk(t, r, 0)'
      BY <1>1, <2>1, <2>2 DEF Walk, Arg
    <2>4. 0 \in 0..Len(r)
      BY ListShape
    <2>5. QED
      BY <2>3, <2>4
  <1>14. \A u \in Threads : u # t => (\E n \in 0..Len(r) : Walk(u, r, n))'
    BY <1>1, OthersStandNowhere
  <1>15. ListInv(r)'
    <2>1. Reads(r, transitions, next)'
      BY <1>10 DEF Reads, At
    <2>2. Sorted(r)'
      BY <1>11 DEF Sorted
    <2>3. QED
      BY <1>12, <1>13, <1>14, <2>1, <2>2 DEF ListInv
  <1>16. QED
    BY <1>5, <1>8, <1>9, <1>15

(* What is common to both ways of removing: place m is the element's, and the pointer to *)
(* it now leads past it.                                                                 *)
LEMMA ListInvPast ==
  ASSUME ThreadsInv, NEW s \in Lists, ListInv(s), NEW t \in Threads, Is(t, "remove"),
         pc[t] \notin {"idle", "lock"}, pc' = [pc EXCEPT ![t] = "detach"], UNCHANGED <<call, fate>>,
         NEW m \in 1..Len(s), s[m] = Arg(t),
         transitions' = IF m = 1 THEN next[s[1]] ELSE transitions,
         next' = IF m = 1 THEN next ELSE [next EXCEPT ![s[m - 1]] = next[s[m]]]
  PROVE  \E i \in DOMAIN s, r \in Lists : s[i] = Arg(t) /\ r = RemoveAt(s, i) /\ ListInv(r)'
  <1>1. next \in [Transitions -> Pointers] /\ Sorted(s) /\ Reads(s, transitions, next)
    BY DEF ThreadsInv, LocalsInv, TypeOK, Pointers, ListInv
  <1>2. PICK r \in Lists : r = RemoveAt(s, m)
    BY RemovedList
  <1>3. Reads(r, transitions', next')
    BY <1>1, <1>2, ReadsRemoved
  <1>4. Sorted(r)
    BY <1>1, <1>2, SortedRemoved
  <1>5. Membership(r)'
    <2>1. \A x : Has(r, x) <=> Has(s, x) /\ x # Arg(t)
      BY <1>2, HasRemoved
    <2>2. ~Is(t, "insert") /\ Updates(t)
      BY DEF Is, Updates
    <2>3. "detach" \notin {"lock", "head", "walk"}
      OBVIOUS
    <2>4. QED
      BY <2>1, <2>2, <2>3, MembershipAfter
  <1>6. (\E n \in 0..Len(r) : Walk(t, r, n))'
    <2>1. pc'[t] = "detach"
      BY DEF ThreadsInv, LocalsInv
    <2>2. Walk(t, r, 0)'
      BY <2>1 DEF Walk
    <2>3. 0 \in 0..Len(r)
      BY ListShape
    <2>4. QED
      BY <2>2, <2>3
  <1>7. \A u \in Threads : u # t => (\E n \in 0..Len(r) : Walk(u, r, n))'
    BY OthersStandNowhere
  <1>8. ListInv(r)'
    <2>1. Reads(r, transitions, next)'
      BY <1>3 DEF Reads, At
    <2>2. Sorted(r)'
      BY <1>4 DEF Sorted
    <2>3. QED
      BY <1>5, <1>6, <1>7, <2>1, <2>2 DEF ListInv
  <1>9. m \in DOMAIN s
    BY ListShape
  <1>10. QED
    BY <1>2, <1>8, <1>9

RemovesHead(t) == RemoveHead(t) /\ transitions = Arg(t)
LooksPastHead(t) == RemoveHead(t) /\ transitions # Arg(t)

LEMMA ListInvRemovesHead ==
  ASSUME ThreadsInv, NEW s \in Lists, ListInv(s), NEW t \in Threads, RemovesHead(t)
  PROVE  \E i \in DOMAIN s, r \in Lists : s[i] = Arg(t) /\ r = RemoveAt(s, i) /\ ListInv(r)'
  <1>1. /\ pc[t] = "head" /\ pc' = [pc EXCEPT ![t] = "detach"] /\ transitions = Arg(t)
        /\ transitions' = next[Arg(t)] /\ UNCHANGED <<next, call, fate>>
    BY DEF RemovesHead, RemoveHead, Goto
  <1>2. Is(t, "remove") /\ Arg(t) \in Transitions
    BY <1>1, CallShape DEF ThreadsInv, PhaseInv
  <1>3. 1 \in 1..Len(s) /\ s[1] = Arg(t)
    BY <1>1, <1>2, NobodyAssumption, ListShape DEF ListInv, Reads, At
  <1>4. transitions' = IF 1 = 1 THEN next[s[1]] ELSE transitions
    BY <1>1, <1>3
  <1>5. next' = IF 1 = 1 THEN next ELSE [next EXCEPT ![s[1 - 1]] = next[s[1]]]
    BY <1>1
  <1>6. pc[t] \notin {"idle", "lock"} /\ UNCHANGED <<call, fate>>
    BY <1>1
  <1>7. QED
    BY <1>1, <1>2, <1>3, <1>4, <1>5, <1>6, ListInvPast

LEMMA ListInvLooksPastHead ==
  ASSUME ThreadsInv, NEW s \in Lists, ListInv(s), NEW t \in Threads, LooksPastHead(t)
  PROVE  ListInv(s)'
  <1>1. /\ pc[t] = "head" /\ pc' = [pc EXCEPT ![t] = "walk"] /\ transitions # Arg(t)
        /\ UNCHANGED <<transitions, next, call, fate, prev, iter>>
    BY DEF LooksPastHead, RemoveHead, Goto
  <1>2. Is(t, "remove") /\ ~Is(t, "insert")
    BY <1>1 DEF ThreadsInv, PhaseInv, Is
  <1>3. PICK k \in 0..Len(s) : Walk(t, s, k)
    BY DEF ListInv
  <1>4. prev[t] = Nobody /\ iter[t] = transitions
    BY <1>1, <1>3 DEF Walk
  <1>5. transitions = At(s, 1) /\ At(s, 0) = Nobody /\ 0 \in 0..Len(s)
    BY ListShape DEF ListInv, Reads, At
  <1>6. pc'[t] = "walk"
    BY <1>1 DEF ThreadsInv, LocalsInv
  <1>7. Walk(t, s, 0)'
    BY <1>1, <1>4, <1>5, <1>6 DEF Walk, Between, Is, Arg, At
  <1>8. \E n \in 0..Len(s) : Walk(t, s, n)'
    BY <1>5, <1>7
  <1>9. Reads(s, transitions', next')
    BY <1>1 DEF ListInv
  <1> DEFINE to == "walk"
  <1>10. /\ pc[t] \notin {"idle", "lock"} /\ pc' = [pc EXCEPT ![t] = to] /\ UNCHANGED <<call, fate>>
         /\ Is(t, "insert") => (to = "unlock" <=> pc[t] = "unlock")
         /\ Is(t, "remove") => (to \in {"lock", "head", "walk"} <=> pc[t] \in {"lock", "head", "walk"})
    BY <1>1
  <1> HIDE DEF to
  <1>11. QED
    BY <1>8, <1>9, <1>10, ListInvInside

LEMMA ListInvUnlink ==
  ASSUME ThreadsInv, NEW s \in Lists, ListInv(s), NEW t \in Threads, Unlink(t)
  PROVE  \E i \in DOMAIN s, r \in Lists : s[i] = Arg(t) /\ r = RemoveAt(s, i) /\ ListInv(r)'
  <1>1. /\ pc[t] = "walk" /\ pc' = [pc EXCEPT ![t] = "detach"] /\ Is(t, "remove")
        /\ iter[t] # Nobody /\ next[iter[t]] = Arg(t)
        /\ next' = [next EXCEPT ![iter[t]] = next[Arg(t)]] /\ UNCHANGED <<transitions, call, fate>>
    BY DEF Unlink, Goto, Stops, Is
  <1>2. Arg(t) \in Transitions
    BY <1>1, CallShape DEF ThreadsInv
  <1>3. PICK k \in 0..Len(s) : Walk(t, s, k)
    BY DEF ListInv
  <1>4. iter[t] = At(s, k + 1)
    BY <1>1, <1>3 DEF Walk, Between
  <1>5. k \in Nat /\ k + 1 \in Nat /\ k + 2 \in Nat /\ (k + 1) + 1 = k + 2 /\ k + 2 # 1 /\ (k + 2) - 1 = k + 1
    BY ListShape
  <1>6. k + 1 \in 1..Len(s) /\ iter[t] = s[k + 1]
    BY <1>1, <1>4, <1>5, AtPlace
  <1>7. Arg(t) = At(s, k + 2)
    BY <1>1, <1>5, <1>6, ListShape DEF ListInv, Reads
  <1>8. k + 2 \in 1..Len(s) /\ s[k + 2] = Arg(t)
    BY <1>2, <1>5, <1>7, AtPlace, NobodyAssumption
  <1>9. transitions' = IF k + 2 = 1 THEN next[s[1]] ELSE transitions
    BY <1>1, <1>5
  <1>10. next' = IF k + 2 = 1 THEN next ELSE [next EXCEPT ![s[(k + 2) - 1]] = next[s[k + 2]]]
    BY <1>1, <1>5, <1>6, <1>8
  <1>11. pc[t] \notin {"idle", "lock"} /\ UNCHANGED <<call, fate>>
    BY <1>1
  <1>12. QED
    BY <1>1, <1>8, <1>9, <1>10, <1>11, ListInvPast

LEMMA ListInvDetach ==
  ASSUME ThreadsInv, NEW s \in Lists, ListInv(s), NEW t \in Threads, Detach(t)
  PROVE  ListInv(s)'
  <1>1. /\ pc[t] = "detach" /\ pc' = [pc EXCEPT ![t] = "unlock"]
        /\ next' = [next EXCEPT ![Arg(t)] = Nobody] /\ UNCHANGED <<transitions, call, fate, prev, iter>>
    BY DEF Detach, Goto, locals
  <1>2. Is(t, "remove") /\ ~Is(t, "insert") /\ Arg(t) \in Transitions
    BY <1>1, CallShape DEF ThreadsInv, PhaseInv, Is
  <1>3. ~Has(s, Arg(t)) /\ next \in [Transitions -> Pointers] /\ Reads(s, transitions, next)
    BY <1>1, <1>2 DEF ThreadsInv, LocalsInv, TypeOK, ListInv, Membership, Pointers
  <1>4. Reads(s, transitions', next')
    BY <1>1, <1>2, <1>3, ReadsPastOthers
  <1>5. Walk(t, s, 0)'
    <2>1. pc'[t] = "unlock"
      BY <1>1 DEF ThreadsInv, LocalsInv
    <2>2. QED
      BY <1>1, <1>2, <2>1 DEF Walk, Is
  <1>6. \E n \in 0..Len(s) : Walk(t, s, n)'
    BY <1>5, ListShape
  <1> DEFINE to == "unlock"
  <1>7. /\ pc[t] \notin {"idle", "lock"} /\ pc' = [pc EXCEPT ![t] = to] /\ UNCHANGED <<call, fate>>
        /\ Is(t, "insert") => (to = "unlock" <=> pc[t] = "unlock")
        /\ Is(t, "remove") => (to \in {"lock", "head", "walk"} <=> pc[t] \in {"lock", "head", "walk"})
    BY <1>1, <1>2
  <1> HIDE DEF to
  <1>8. QED
    BY <1>4, <1>6, <1>7, ListInvInside

LEMMA ListInvFound ==
  ASSUME ThreadsInv, NEW s \in Lists, ListInv(s), NEW t \in Threads, Found(t)
  PROVE  ListInv(s)'
  <1>1. /\ pc[t] = "walk" /\ pc' = [pc EXCEPT ![t] = "unlock"]
        /\ UNCHANGED <<transitions, next, call, fate, prev, iter>>
    BY DEF Found, Goto, memory
  <1>2. ~Is(t, "insert") /\ ~Is(t, "remove")
    BY DEF Found, Is
  <1>3. Reads(s, transitions', next')
    BY <1>1 DEF ListInv
  <1>4. Walk(t, s, 0)'
    <2>1. pc'[t] = "unlock"
      BY <1>1 DEF ThreadsInv, LocalsInv
    <2>2. QED
      BY <1>1, <1>2, <2>1 DEF Walk, Is
  <1>5. \E n \in 0..Len(s) : Walk(t, s, n)'
    BY <1>4, ListShape
  <1> DEFINE to == "unlock"
  <1>6. pc[t] \notin {"idle", "lock"} /\ pc' = [pc EXCEPT ![t] = to] /\ UNCHANGED <<call, fate>>
    BY <1>1
  <1> HIDE DEF to
  <1>7. QED
    BY <1>2, <1>3, <1>5, <1>6, ListInvInside

LEMMA ListInvUnlock ==
  ASSUME ThreadsInv, NEW s \in Lists, ListInv(s), NEW t \in Threads, Unlock(t)
  PROVE  ListInv(s)'
  <1>1. /\ pc[t] = "unlock" /\ pc' = [pc EXCEPT ![t] = "idle"] /\ holder' = Nobody
        /\ call' = [call EXCEPT ![t] = NoCall]
        /\ UNCHANGED <<transitions, next, prev, iter>>
    BY DEF Unlock, Goto, memory
  <1>2. /\ call'[t] = NoCall /\ pc'[t] = "idle"
        /\ \A u \in Threads : u # t => call'[u] = call[u] /\ pc'[u] = pc[u] /\ pc[u] \in {"idle", "lock"}
    BY <1>1 DEF ThreadsInv, LocalsInv, TypeOK
  <1>3. Reads(s, transitions, next)'
    BY <1>1 DEF ListInv, Reads, At
  <1>4. Sorted(s)'
    BY DEF ListInv, Sorted
  <1>5. ASSUME NEW x \in Transitions
        PROVE  (fate'[x] = "in" => Has(s, x)) /\ (fate'[x] = "out" => ~Has(s, x))
    <2>1. CASE Is(t, "insert")
      <3>1. fate' = [fate EXCEPT ![Arg(t)] = "in"] /\ Has(s, Arg(t))
        BY <1>1, <2>1 DEF Unlock, Is, ListInv, Membership
      <3>2. QED
        BY <3>1 DEF ListInv, Membership, ThreadsInv, LocalsInv, TypeOK
    <2>2. CASE Is(t, "remove")
      <3>1. fate' = [fate EXCEPT ![Arg(t)] = "out"] /\ ~Has(s, Arg(t))
        BY <1>1, <2>2 DEF Unlock, Is, ListInv, Membership
      <3>2. QED
        BY <3>1 DEF ListInv, Membership, ThreadsInv, LocalsInv, TypeOK
    <2>3. CASE ~Is(t, "insert") /\ ~Is(t, "remove")
      BY <2>3 DEF Unlock, Is, ListInv, Membership
    <2>4. QED
      BY <2>1, <2>2, <2>3
  <1>6. Membership(s)'
    <2>1. ASSUME NEW u \in Threads
          PROVE  /\ Is(u, "insert")' => (Has(s, Arg(u)') <=> pc'[u] = "unlock")
                 /\ Is(u, "remove")' => (Has(s, Arg(u)') <=> pc'[u] \in {"lock", "head", "walk"})
      <3>1. CASE u = t
        BY <1>2, <3>1 DEF Is, NoCall
      <3>2. CASE u # t
        BY <1>2, <3>2 DEF ListInv, Membership, Is, Arg
      <3>3. QED
        BY <3>1, <3>2
    <2>2. QED
      BY <1>5, <2>1 DEF Membership, Has
  <1>7. \A u \in Threads : (\E k \in 0..Len(s) : Walk(u, s, k))'
    <2>1. \A u \in Threads : pc'[u] \in {"idle", "lock"}
      BY <1>2
    <2>2. QED
      BY <2>1, ListShape DEF Walk
  <1>8. QED
    BY <1>3, <1>4, <1>6, <1>7 DEF ListInv

-----------------------------------------------------------------------------
(* The invariant *)

LEMMA RemoveHeadCases ==
  ASSUME NEW t \in Threads, RemoveHead(t)
  PROVE  RemovesHead(t) \/ LooksPastHead(t)
  BY DEF RemovesHead, LooksPastHead

LEMMA ThreadsInvNext == ThreadsInv /\ [Next]_vars => ThreadsInv'
  <1> SUFFICES ASSUME ThreadsInv, [Next]_vars PROVE ThreadsInv'
    OBVIOUS
  <1>1. CASE UNCHANGED vars
    BY <1>1 DEF vars, memory, locals, ThreadsInv, LocalsInv, TypeOK, PhaseInv, ClaimInv, Is, Arg, Updates
  <1>2. ASSUME NEW t \in Threads, Start(t) \/ Lock(t) \/ Inside(t)
        PROVE  ThreadsInv'
    BY <1>2, ThreadsInvStart, ThreadsInvLock, ThreadsInvStep, ThreadsInvLinkNew, ThreadsInvPublish,
       ThreadsInvRemoveHead, ThreadsInvUnlink, ThreadsInvDetach, ThreadsInvFound, ThreadsInvUnlock
       DEF Inside
  <1>3. QED
    BY <1>1, <1>2 DEF Next

LEMMA ListInvNext ==
  ASSUME ThreadsInv, NEW s \in Lists, ListInv(s), [Next]_vars
  PROVE  \E r \in Lists : ListInv(r)'
  <1>1. CASE UNCHANGED vars
    <2>1. ListInv(s)'
      BY <1>1 DEF vars, memory, locals, ListInv, Reads, At, Sorted, Membership, Has, Walk, Between,
                  Passes, Is, Arg
    <2>2. QED
      BY <2>1
  <1>2. ASSUME NEW t \in Threads, Start(t) \/ Lock(t) \/ Inside(t)
        PROVE  \E r \in Lists : ListInv(r)'
    <2>1. CASE Start(t) \/ Lock(t) \/ Step(t) \/ LinkNew(t) \/ Detach(t) \/ Found(t) \/ Unlock(t)
      BY <2>1, ListInvStart, ListInvLock, ListInvStep, ListInvLinkNew, ListInvDetach, ListInvFound,
         ListInvUnlock
    <2>2. CASE Publish(t)
      BY <2>2, ListInvPublish
    <2>3. CASE RemoveHead(t)
      BY <2>3, RemoveHeadCases, ListInvRemovesHead, ListInvLooksPastHead
    <2>4. CASE Unlink(t)
      BY <2>4, ListInvUnlink
    <2>5. QED
      BY <1>2, <2>1, <2>2, <2>3, <2>4 DEF Inside
  <1>3. QED
    BY <1>1, <1>2 DEF Next

LEMMA EmptyIsList == << >> \in Lists
  <1>1. << >> \in Seq(Transitions) /\ Len(<< >>) = 0
    OBVIOUS
  <1>2. \A i, j \in 1..Len(<< >>) : << >>[i] = << >>[j] => i = j
    BY <1>1
  <1>3. QED
    BY <1>1, <1>2, OnceEachIsList

LEMMA ClusterInvInit == Init => ClusterInv
  <1> SUFFICES ASSUME Init PROVE ClusterInv
    OBVIOUS
  <1>1. ThreadsInv
    BY NobodyAssumption DEF Init, ThreadsInv, LocalsInv, TypeOK, PhaseInv, ClaimInv, Updates, Is, Arg, NoCall,
                            Places, Pointers
  <1>2. ListInv(<< >>)
    <2>1. DOMAIN << >> = {} /\ Len(<< >>) = 0
      OBVIOUS
    <2>2. \A i : At(<< >>, i) = Nobody
      BY <2>1 DEF At
    <2>3. Reads(<< >>, transitions, next)
      BY <2>1, <2>2 DEF Init, Reads
    <2>4. Sorted(<< >>)
      BY <2>1 DEF Sorted
    <2>5. Membership(<< >>)
      BY <2>1 DEF Init, Membership, Has, Is, NoCall
    <2>6. \A t \in Threads : Walk(t, << >>, 0)
      BY DEF Init, Walk
    <2>7. 0 \in 0..Len(<< >>)
      BY <2>1
    <2>8. QED
      BY <2>3, <2>4, <2>5, <2>6, <2>7 DEF ListInv
  <1>3. QED
    BY <1>1, <1>2, EmptyIsList DEF ClusterInv

LEMMA ClusterInvNext == ClusterInv /\ [Next]_vars => ClusterInv'
  <1> SUFFICES ASSUME ClusterInv, [Next]_vars PROVE ClusterInv'
    OBVIOUS
  <1>1. ThreadsInv'
    BY ThreadsInvNext DEF ClusterInv
  <1>2. PICK s \in Lists : ListInv(s)
    BY DEF ClusterInv
  <1>3. \E r \in Lists : ListInv(r)'
    BY <1>2, ListInvNext DEF ClusterInv
  <1>4. QED
    BY <1>1, <1>3 DEF ClusterInv

THEOREM ClusterInvariant == Spec => []ClusterInv
  BY ClusterInvInit, ClusterInvNext, PTL DEF Spec

(* The types of cluster.h, and mutual exclusion: every step of insertTransition(),       *)
(* removeTransition(), findTransition() and hasTransition() between the lock and its     *)
(* release is taken by the holder.                                                       *)
THEOREM TypeCorrect == Spec => []TypeOK
  <1>1. ClusterInv => TypeOK
    BY DEF ClusterInv, ThreadsInv, LocalsInv
  <1>2. QED
    BY <1>1, ClusterInvariant, PTL

LEMMA WalkMeetsIt ==
  ASSUME ThreadsInv, NEW s \in Lists, ListInv(s), NEW t \in Threads, pc[t] = "walk", Is(t, "remove")
  PROVE  iter[t] # Nobody
  <1>1. Arg(t) \in Transitions
    BY CallShape DEF ThreadsInv
  <1>2. PICK k \in 0..Len(s) : Walk(t, s, k)
    BY DEF ListInv
  <1>3. Between(t, s, k) /\ iter[t] # Arg(t)
    BY <1>2 DEF Walk
  <1>4. PICK m \in 1..Len(s) : s[m] = Arg(t)
    BY ListShape DEF ListInv, Membership, Has
  <1>5. \A i \in 1..k : s[i] # Arg(t)
    BY <1>3 DEF Between, Passes, Is
  <1>6. k \in Nat /\ k + 1 \in Nat /\ m \in Nat /\ m <= Len(s) /\ Len(s) \in Nat /\ m >= 1
    BY ListShape
  <1>7. m > k
    BY <1>4, <1>5, <1>6
  <1>8. k + 1 \in 1..Len(s)
    BY <1>6, <1>7
  <1>9. QED
    BY <1>3, <1>6, <1>8, AtPlace DEF Between

(* The two assertions of cluster.h: removeTransition() never reaches the end of the list *)
(* (assert(false)), and insertTransition() links the new element after a nearer one.     *)
THEOREM Assertions == Spec => []AssertionsHold
  <1>1. ClusterInv => AssertionsHold
    <2> SUFFICES ASSUME ClusterInv, NEW t \in Threads
                 PROVE  /\ pc[t] = "walk" /\ Is(t, "remove") => iter[t] # Nobody
                        /\ Is(t, "insert") /\ pc[t] \in {"publish", "unlock"} /\ prev[t] # Nobody =>
                             Distance[prev[t]] < Distance[Arg(t)]
      BY DEF AssertionsHold
    <2>1. PICK s \in Lists : ListInv(s)
      BY DEF ClusterInv
    <2>2. pc[t] = "walk" /\ Is(t, "remove") => iter[t] # Nobody
      BY <2>1, WalkMeetsIt DEF ClusterInv
    <2>3. PICK k \in 0..Len(s) : Walk(t, s, k)
      BY <2>1 DEF ListInv
    <2>4. CASE Is(t, "insert") /\ pc[t] = "publish" /\ prev[t] # Nobody
      <3>1. prev[t] = At(s, k) /\ \A i \in 1..k : Passes(t, s[i])
        BY <2>3, <2>4 DEF Walk, Between
      <3>2. k \in Nat /\ k >= 1 /\ k \in 1..Len(s) /\ k \in 1..k
        BY <2>4, <3>1, AtPlace, ListShape
      <3>3. QED
        BY <2>2, <2>4, <3>1, <3>2, AtPlace DEF Passes, Is
    <2>5. QED
      BY <2>2, <2>3, <2>4 DEF Walk
  <1>2. QED
    BY <1>1, ClusterInvariant, PTL

-----------------------------------------------------------------------------
(* The refinement *)

LEMMA ListHere ==
  ASSUME NEW s \in Lists, ListInv(s)
  PROVE  List = s
  BY ListIs DEF List, ListInv

LEMMA ListThen ==
  ASSUME NEW s \in Lists, ListInv(s)'
  PROVE  List' = s
  <1>1. Reads(s, transitions', next')
    BY DEF ListInv, Reads, At
  <1>2. ListFrom(transitions', next') = s
    BY <1>1, ListIs
  <1>3. QED
    BY <1>2 DEF List, ListFrom, Reads, At

LEMMA StartRefines ==
  ASSUME ClusterInv, NEW t \in Threads, Start(t)
  PROVE  L!Start(t)
  <1>1. PICK s \in Lists : ListInv(s)
    BY DEF ClusterInv
  <1>2. List = s /\ List' = s
    BY <1>1, ListHere, ListThen, ListInvStart DEF ClusterInv
  <1>3. pc[t] = "idle" /\ UNCHANGED answer /\ \E c \in PossibleCalls : call' = [call EXCEPT ![t] = c]
    BY DEF Start, Goto
  <1>4. call[t] = NoCall
    BY <1>3, CallShape DEF ClusterInv, ThreadsInv, PhaseInv
  <1>5. QED
    BY <1>2, <1>3, <1>4 DEF L!Start, L!NoCall, NoCall

(* What nobody outside the mutex sees *)
LEMMA HiddenSteps ==
  ASSUME ClusterInv, NEW t \in Threads,
         Lock(t) \/ Step(t) \/ LinkNew(t) \/ LooksPastHead(t) \/ Detach(t)
  PROVE  UNCHANGED <<List, call, answer>>
  <1>1. PICK s \in Lists : ListInv(s)
    BY DEF ClusterInv
  <1>2. ListInv(s)'
    BY <1>1, ListInvLock, ListInvStep, ListInvLinkNew, ListInvLooksPastHead, ListInvDetach DEF ClusterInv
  <1>3. List' = List
    BY <1>1, <1>2, ListHere, ListThen
  <1>4. UNCHANGED <<call, answer>>
    BY DEF Lock, Step, LinkNew, LooksPastHead, RemoveHead, Detach, locals
  <1>5. QED
    BY <1>3, <1>4

LEMMA PublishRefines ==
  ASSUME ClusterInv, NEW t \in Threads, Publish(t)
  PROVE  L!Effect(t)
  <1>1. PICK s \in Lists : ListInv(s)
    BY DEF ClusterInv
  <1>2. PICK i \in 1..Len(s) + 1, r \in Lists :
           /\ \A j \in DOMAIN s : j < i <=> Distance[s[j]] < Distance[Arg(t)]
           /\ r = InsertAt(s, i, Arg(t))
           /\ ListInv(r)'
    BY <1>1, ListInvPublish DEF ClusterInv
  <1>3. List = s /\ List' = r
    BY <1>1, <1>2, ListHere, ListThen
  <1>4. call[t].op = "insert" /\ answer[t] = "pending"
    BY DEF ClusterInv, ThreadsInv, PhaseInv, Publish, Goto, Is
  <1>5. answer' = [answer EXCEPT ![t] = "done"] /\ UNCHANGED call
    BY DEF Publish, Answer
  <1>6. L!Insert(call[t].arg)
    BY <1>2, <1>3 DEF L!Insert, L!InsertAt, InsertAt, Arg
  <1>7. QED
    BY <1>4, <1>5, <1>6 DEF L!Effect

LEMMA RemovalRefines ==
  ASSUME ClusterInv, NEW t \in Threads, RemovesHead(t) \/ Unlink(t)
  PROVE  L!Effect(t)
  <1>1. PICK s \in Lists : ListInv(s)
    BY DEF ClusterInv
  <1>2. PICK i \in DOMAIN s, r \in Lists : s[i] = Arg(t) /\ r = RemoveAt(s, i) /\ ListInv(r)'
    BY <1>1, ListInvRemovesHead, ListInvUnlink DEF ClusterInv
  <1>3. List = s /\ List' = r
    BY <1>1, <1>2, ListHere, ListThen
  <1>4. call[t].op = "remove" /\ answer[t] = "pending"
    BY DEF ClusterInv, ThreadsInv, PhaseInv, RemovesHead, RemoveHead, Unlink, Goto, Is
  <1>5. answer' = [answer EXCEPT ![t] = "done"] /\ UNCHANGED call
    BY DEF RemovesHead, RemoveHead, Unlink, Answer, Goto
  <1>6. L!Withdraw(call[t].arg)
    BY <1>2, <1>3 DEF L!Withdraw, L!RemoveAt, RemoveAt, Arg
  <1>7. QED
    BY <1>4, <1>5, <1>6 DEF L!Effect

LEMMA Beyond ==
  ASSUME NEW n \in Nat, NEW k \in Nat, NEW j \in 1..n, j \notin 1..k
  PROVE  j \in Nat /\ k + 1 <= j
  OBVIOUS

LEMMA OneLeast ==
  ASSUME NEW S, NEW m \in S, m \in Nat, \A j \in S : j \in Nat /\ m <= j
  PROVE  (CHOOSE i \in S : \A j \in S : i <= j) = m
  <1>1. ASSUME NEW i \in S, \A j \in S : i <= j PROVE i = m
    BY <1>1
  <1>2. QED
    BY <1>1

(* A walk that stops has found the first place that fits, or knows that there is none. *)
LEMMA FoundRefines ==
  ASSUME ClusterInv, NEW t \in Threads, Found(t)
  PROVE  L!Effect(t)
  <1>1. PICK s \in Lists : ListInv(s)
    BY DEF ClusterInv
  <1>2. List = s /\ List' = s
    BY <1>1, ListHere, ListThen, ListInvFound DEF ClusterInv
  <1>3. /\ pc[t] = "walk" /\ Stops(t) /\ (Is(t, "find") \/ Is(t, "has")) /\ UNCHANGED call
        /\ answer' = [answer EXCEPT ![t] = IF Is(t, "find") THEN iter[t]
                                           ELSE IF iter[t] = Nobody THEN "no" ELSE "yes"]
    BY DEF Found, Goto, Answer
  <1>4. answer[t] = "pending"
    BY <1>3 DEF ClusterInv, ThreadsInv, PhaseInv
  <1>5. PICK k \in 0..Len(s) : Walk(t, s, k)
    BY <1>1 DEF ListInv
  <1>6. iter[t] = At(s, k + 1) /\ \A i \in 1..k : Passes(t, s[i])
    BY <1>3, <1>5 DEF Walk, Between
  <1>7. /\ k \in Nat /\ k + 1 \in Nat /\ Len(s) \in Nat /\ DOMAIN s = 1..Len(s) /\ k <= Len(s)
        /\ iter[t] # Nobody => k + 1 \in 1..Len(s) /\ iter[t] = s[k + 1]
        /\ iter[t] = Nobody => k = Len(s)
    <2>1. k \in Nat /\ k + 1 \in Nat /\ Len(s) \in Nat /\ DOMAIN s = 1..Len(s) /\ k <= Len(s)
      BY ListShape
    <2>2. iter[t] # Nobody => k + 1 \in 1..Len(s) /\ iter[t] = s[k + 1]
      BY <1>6, <2>1, AtPlace
    <2>3. iter[t] = Nobody => k + 1 \notin 1..Len(s)
      BY <1>6, <2>1, AtPlace
    <2>4. QED
      BY <2>1, <2>2, <2>3
  <1>8. CASE Is(t, "find")
    <2> DEFINE hits == {i \in DOMAIN s : Target[s[i]] = call[t].arg}
    <2>1. \A i \in 1..k : i \notin hits
      BY <1>6, <1>8 DEF Passes, Is, Arg
    <2>2. CASE iter[t] = Nobody
      <3>1. hits = {}
        BY <1>7, <2>1, <2>2
      <3>2. L!First(call[t].arg) = iter[t]
        BY <1>2, <2>2, <3>1 DEF L!First, L!Hits
      <3>3. QED
        BY <1>2, <1>3, <1>4, <1>8, <3>2 DEF L!Effect, Is
    <2>3. CASE iter[t] # Nobody
      <3>1. k + 1 \in hits
        BY <1>3, <1>7, <1>8, <2>3 DEF Stops, Is, Arg
      <3>2. \A j \in hits : j \in 1..Len(s)
        BY <1>7
      <3> HIDE DEF hits
      <3>3. \A j \in hits : j \in Nat /\ k + 1 <= j
        <4>1. ASSUME NEW j \in hits PROVE j \in Nat /\ k + 1 <= j
          <5>1. j \in 1..Len(s) /\ j \notin 1..k
            BY <2>1, <3>2
          <5>2. k \in Nat /\ Len(s) \in Nat
            BY <1>7
          <5>3. QED
            BY <5>1, <5>2, Beyond
        <4>2. QED
          BY <4>1
      <3>4. hits = L!Hits(call[t].arg)
        BY <1>2 DEF L!Hits, hits
      <3>5. (CHOOSE i \in hits : \A j \in hits : i <= j) = k + 1
        <4>1. k + 1 \in Nat
          BY <1>7
        <4>2. QED
          BY <3>1, <3>3, <4>1, OneLeast
      <3>6. L!First(call[t].arg) = iter[t]
        BY <1>2, <1>7, <2>3, <3>1, <3>4, <3>5 DEF L!First
      <3>7. QED
        BY <1>2, <1>3, <1>4, <1>8, <3>6 DEF L!Effect, Is
    <2>4. QED
      BY <2>2, <2>3
  <1>9. CASE Is(t, "has")
    <2>1. \A i \in 1..k : s[i] # call[t].arg
      BY <1>6, <1>9 DEF Passes, Is, Arg
    <2>2. (\E i \in DOMAIN s : s[i] = call[t].arg) <=> iter[t] # Nobody
      <3>1. CASE iter[t] = Nobody
        BY <1>7, <2>1, <3>1
      <3>2. CASE iter[t] # Nobody
        BY <1>3, <1>7, <1>9, <3>2 DEF Stops, Is, Arg
      <3>3. QED
        BY <3>1, <3>2
    <2>3. answer' = [answer EXCEPT ![t] = IF \E i \in DOMAIN s : s[i] = call[t].arg THEN "yes" ELSE "no"]
      BY <1>3, <1>9, <2>2 DEF Is
    <2>4. QED
      BY <1>2, <1>3, <1>4, <1>9, <2>3 DEF L!Effect, Is
  <1>10. QED
    BY <1>3, <1>8, <1>9

LEMMA UnlockRefines ==
  ASSUME ClusterInv, NEW t \in Threads, Unlock(t)
  PROVE  L!Return(t)
  <1>1. PICK s \in Lists : ListInv(s)
    BY DEF ClusterInv
  <1>2. List = s /\ List' = s
    BY <1>1, ListHere, ListThen, ListInvUnlock DEF ClusterInv
  <1>3. answer[t] # "pending"
    BY DEF ClusterInv, ThreadsInv, PhaseInv, Unlock, Goto
  <1>4. call' = [call EXCEPT ![t] = NoCall] /\ answer' = [answer EXCEPT ![t] = "pending"]
    BY DEF Unlock, Answer
  <1>5. QED
    BY <1>2, <1>3, <1>4 DEF L!Return, L!NoCall, NoCall

(* Every call on a cluster takes effect at one moment between its start and its return,  *)
(* on a list sorted by distance: the pointer steps of cluster.h under its spin mutex     *)
(* implement the abstract list, for any number of threads, transitions and calls.        *)
THEOREM Linearizable == Spec => ImplementsTransitionList
  <1>1. Init => L!Init
    <2> SUFFICES ASSUME Init PROVE L!Init
      OBVIOUS
    <2>1. Reads(<< >>, transitions, next)
      <3>1. DOMAIN << >> = {} /\ \A i : i \notin DOMAIN << >>
        OBVIOUS
      <3>2. QED
        BY <3>1 DEF Init, Reads, At
    <2>2. List = << >>
      BY <2>1, EmptyIsList, ListIs DEF List
    <2>3. QED
      BY <2>2 DEF Init, L!Init, L!NoCall, NoCall
  <1>2. ClusterInv /\ [Next]_vars =>
          [\E t \in Threads : L!Start(t) \/ L!Effect(t) \/ L!Return(t)]_<<List, call, answer>>
    <2> SUFFICES ASSUME ClusterInv, [Next]_vars
                 PROVE  \/ \E t \in Threads : L!Start(t) \/ L!Effect(t) \/ L!Return(t)
                        \/ UNCHANGED <<List, call, answer>>
      OBVIOUS
    <2>1. CASE UNCHANGED vars
      BY <2>1 DEF vars, memory, locals, List, ListFrom, Reads, At
    <2>2. ASSUME NEW t \in Threads, Start(t) \/ Lock(t) \/ Inside(t)
          PROVE  L!Start(t) \/ L!Effect(t) \/ L!Return(t) \/ UNCHANGED <<List, call, answer>>
      <3>1. CASE Start(t)
        BY <3>1, StartRefines
      <3>2. CASE Lock(t) \/ Step(t) \/ LinkNew(t) \/ Detach(t)
        BY <3>2, HiddenSteps
      <3>3. CASE RemoveHead(t)
        BY <3>3, RemoveHeadCases, HiddenSteps, RemovalRefines
      <3>4. CASE Publish(t) \/ Unlink(t) \/ Found(t)
        BY <3>4, PublishRefines, RemovalRefines, FoundRefines
      <3>5. CASE Unlock(t)
        BY <3>5, UnlockRefines
      <3>6. QED
        BY <2>2, <3>1, <3>2, <3>3, <3>4, <3>5 DEF Inside
    <2>3. QED
      BY <2>1, <2>2 DEF Next
  <1>3. QED
    BY <1>1, <1>2, ClusterInvariant, PTL DEF Spec, ImplementsTransitionList, L!Spec
===============================================================================
