------------------------ MODULE PropertyStorageProofs ------------------------
(***************************************************************************)
(* What a property shows is what was put there last, for any columns,      *)
(* sizes and properties: every operation keeps the values of every buffer  *)
(* where the accessors look for them.                                      *)
(*                                                                         *)
(* Layout says that of one buffer: a value for each component of each of n *)
(* elements, in the words the accessors compute.  The lemmas about it are  *)
(* about buffers only; an operation makes at most one new buffer, out of   *)
(* at most one other.                                                      *)
(***************************************************************************)
EXTENDS PropertyStorage, TLAPS

Words == Int \X Int

Cells(n, k) == {<<i, c>> : i \in 0..n - 1, c \in 0..k - 1}

\* n elements of k components, each component in size words
Layout(buffer, values, n, k, size) ==
  /\ buffer \in Seq(Words) /\ Len(buffer) = n * (k * size)
  /\ DOMAIN values \subseteq Cells(n, k)
  /\ \A i \in 0..n - 1, c \in 0..k - 1, part \in 1..size :
       buffer[(i * k + c) * size + part] =
         IF <<i, c>> \in DOMAIN values THEN <<values[<<i, c>>], part>> ELSE Zero

-----------------------------------------------------------------------------
(* Places *)

\* Element i has its components below those of element i + 1.
LEMMA RowFits ==
  ASSUME NEW n \in Nat, NEW k \in Nat, NEW i \in 0..n - 1, NEW c \in 0..k - 1
  PROVE  i * k + c \in 0..n * k - 1
  <1>1. (i + 1) * k <= n * k
    BY SMTT(30)
  <1>2. (i + 1) * k = i * k + k /\ i * k >= 0
    BY SMTT(30)
  <1>3. QED
    BY <1>1, <1>2

LEMMA RowsApart ==
  ASSUME NEW k \in Nat, NEW i \in Nat, NEW j \in Nat, NEW c \in 0..k - 1, NEW d \in 0..k - 1, i * k + c = j * k + d
  PROVE  i = j /\ c = d
  <1>1. ~ i < j
    <2>1. SUFFICES ASSUME i < j PROVE FALSE
      OBVIOUS
    <2>2. (i + 1) * k <= j * k
      BY <2>1, SMTT(30)
    <2>3. (i + 1) * k = i * k + k
      BY SMTT(30)
    <2>4. i * k \in Int /\ j * k \in Int
      OBVIOUS
    <2>5. QED
      BY <2>2, <2>3, <2>4
  <1>2. ~ j < i
    <2>1. SUFFICES ASSUME j < i PROVE FALSE
      OBVIOUS
    <2>2. (j + 1) * k <= i * k
      BY <2>1, SMTT(30)
    <2>3. (j + 1) * k = j * k + k
      BY SMTT(30)
    <2>4. i * k \in Int /\ j * k \in Int
      OBVIOUS
    <2>5. QED
      BY <2>2, <2>3, <2>4
  <1>3. QED
    BY <1>1, <1>2

\* The words of a component are those that divide to its index.
LEMMA PartPlace ==
  ASSUME NEW index \in Nat, NEW size \in 1..2, NEW part \in 1..size
  PROVE  /\ index * size + part \in Nat \ {0}
         /\ ((index * size + part) - 1) \div size = index
         /\ ((index * size + part) - 1) % size = part - 1
  <1>1. CASE size = 1
    BY <1>1
  <1>2. CASE size = 2
    BY <1>2
  <1>3. QED
    BY <1>1, <1>2

LEMMA ComponentPlace ==
  ASSUME NEW k \in Nat, NEW i \in Nat, NEW c \in 0..k - 1, NEW size \in 1..2, NEW part \in 1..size,
         NEW place, place = (i * k + c) * size + part
  PROVE  /\ i * k + c \in Nat
         /\ (place - 1) \div size = i * k + c /\ (place - 1) % size = part - 1
  <1>1. PICK index \in Nat : index = i * k + c
    BY SMTT(30)
  <1>2. QED
    BY <1>1, PartPlace

LEMMA PartFits ==
  ASSUME NEW n \in Nat, NEW k \in Nat, NEW i \in 0..n - 1, NEW c \in 0..k - 1,
         NEW size \in 1..2, NEW part \in 1..size
  PROVE  (i * k + c) * size + part \in 1..n * (k * size)
  <1>1. PICK index \in Nat : index = i * k + c /\ index <= n * k - 1
    BY RowFits
  <1>2. CASE size = 1
    BY <1>1, <1>2
  <1>3. CASE size = 2
    <2>1. n * (k * 2) = (n * k) * 2 /\ n * k \in Int
      OBVIOUS
    <2>2. QED
      BY <1>1, <1>3, <2>1
  <1>4. QED
    BY <1>2, <1>3

\* Elements from n on come after the words of the first n.
LEMMA PartBeyond ==
  ASSUME NEW n \in Nat, NEW k \in Nat, NEW i \in Nat, i >= n, NEW c \in 0..k - 1,
         NEW size \in 1..2, NEW part \in 1..size
  PROVE  (i * k + c) * size + part > n * (k * size)
  <1>1. i * k >= n * k
    BY SMTT(30)
  <1>2. PICK index \in Nat : index = i * k + c /\ index >= n * k
    BY <1>1
  <1>3. CASE size = 1
    BY <1>2, <1>3
  <1>4. CASE size = 2
    <2>1. n * (k * 2) = (n * k) * 2 /\ n * k \in Int
      OBVIOUS
    <2>2. QED
      BY <1>2, <1>4, <2>1
  <1>5. QED
    BY <1>3, <1>4

-----------------------------------------------------------------------------
(* Buffers *)

LEMMA ZeroIsWord == Zero \in Words
  BY DEF Zero, Words

LEMMA ZerosLayout ==
  ASSUME NEW n \in Nat, NEW k \in Nat, NEW size \in 0..2
  PROVE  Layout(Zeros(n * (k * size)), <<>>, n, k, size)
  <1> DEFINE m == n * (k * size)
  <1>1. m \in Nat
    BY SMTT(30)
  <1>2. Zeros(m) \in Seq(Words) /\ Len(Zeros(m)) = m /\ \A w \in 1..m : Zeros(m)[w] = Zero
    <2> HIDE DEF m
    <2> QED
      BY <1>1, ZeroIsWord DEF Zeros
  <1>3. ASSUME NEW i \in 0..n - 1, NEW c \in 0..k - 1, NEW part \in 1..size
        PROVE  Zeros(m)[(i * k + c) * size + part] = Zero
    <2>1. size \in 1..2
      OBVIOUS
    <2>2. (i * k + c) * size + part \in 1..m
      BY <2>1, PartFits
    <2>3. QED
      BY <1>2, <2>2
  <1>4. QED
    BY <1>2, <1>3 DEF Layout, Cells

LEMMA EmptyLayout ==
  ASSUME NEW n \in Nat, NEW k \in Nat, NEW size \in 0..2, n = 0 \/ k = 0 \/ size = 0
  PROVE  Layout(<<>>, <<>>, n, k, size)
  <1>1. n * (k * size) = 0
    OBVIOUS
  <1>2. \A i \in 0..n - 1, c \in 0..k - 1, part \in 1..size : FALSE
    OBVIOUS
  <1>3. QED
    BY <1>1, <1>2 DEF Layout, Cells

\* The first words of a buffer are the first elements.
LEMMA PrefixLayout ==
  ASSUME NEW buffer, NEW values, NEW n \in Nat, NEW m \in Nat, NEW k \in Nat, NEW size \in 0..2,
         Layout(buffer, values, m, k, size), n <= m
  PROVE  Layout(SubSeq(buffer, 1, n * (k * size)), Restrict(values, Cells(n, k) \cap DOMAIN values), n, k, size)
  <1> DEFINE words == n * (k * size)
             prefix == SubSeq(buffer, 1, words)
             kept == Restrict(values, Cells(n, k) \cap DOMAIN values)
  <1>1. words \in Nat /\ words <= Len(buffer)
    <2>1. k * size \in Nat
      BY SMTT(30)
    <2>2. PICK width \in Nat : width = k * size
      BY <2>1
    <2>3. n * width \in Nat /\ n * width <= m * width
      BY SMTT(30)
    <2>4. QED
      BY <2>2, <2>3 DEF Layout
  <1>2. prefix \in Seq(Words) /\ Len(prefix) = words /\ \A w \in 1..words : prefix[w] = buffer[w]
    <2> HIDE DEF words
    <2>1. buffer \in Seq(Words)
      BY DEF Layout
    <2>2. QED
      BY <1>1, <2>1
  <1>3. DOMAIN kept = Cells(n, k) \cap DOMAIN values /\ \A row \in DOMAIN kept : kept[row] = values[row]
    BY DEF Restrict
  <1>4. ASSUME NEW i \in 0..n - 1, NEW c \in 0..k - 1, NEW part \in 1..size
        PROVE  prefix[(i * k + c) * size + part]
                 = IF <<i, c>> \in DOMAIN kept THEN <<kept[<<i, c>>], part>> ELSE Zero
    <2>1. (i * k + c) * size + part \in 1..words
      <3>1. size \in 1..2
        OBVIOUS
      <3>2. QED
        BY <3>1, PartFits
    <2>2. i \in 0..m - 1
      OBVIOUS
    <2>3. buffer[(i * k + c) * size + part] = IF <<i, c>> \in DOMAIN values THEN <<values[<<i, c>>], part>> ELSE Zero
      BY <2>2 DEF Layout
    <2>4. <<i, c>> \in DOMAIN kept <=> <<i, c>> \in DOMAIN values
      BY <1>3 DEF Cells
    <2>5. prefix[(i * k + c) * size + part] = buffer[(i * k + c) * size + part]
      BY <1>2, <2>1
    <2>6. <<i, c>> \in DOMAIN kept => kept[<<i, c>>] = values[<<i, c>>]
      BY <1>3
    <2> HIDE DEF kept, prefix
    <2>7. QED
      BY <2>3, <2>4, <2>5, <2>6
  <1>5. DOMAIN kept \subseteq Cells(n, k)
    BY <1>3
  <1>6. Layout(prefix, kept, n, k, size)
    <2> HIDE DEF kept, prefix
    <2> QED
      BY <1>2, <1>4, <1>5 DEF Layout
  <1>7. QED
    BY <1>6

\* resize(): the elements both sizes have, and zero behind them
ResizedWords(buffer, m, n, width) ==
  [w \in 1..n * width |-> IF w <= Least(m, n) * width THEN buffer[w] ELSE Zero]

LEMMA ResizedLayout ==
  ASSUME NEW buffer, NEW values, NEW n \in Nat, NEW m \in Nat, NEW k \in Nat, NEW size \in 0..2,
         Layout(buffer, values, m, k, size),
         NEW resized, resized = ResizedWords(buffer, m, n, k * size)
  PROVE  Layout(resized, Restrict(values, {row \in DOMAIN values : row[1] < n}), n, k, size)
  <1> DEFINE words == n * (k * size)
             both == Least(m, n)
             kept == Restrict(values, {row \in DOMAIN values : row[1] < n})
  <1>1. both \in Nat /\ both <= m /\ both <= n /\ (both = m \/ both = n)
    BY DEF Least
  <1>2. words \in Nat /\ both * (k * size) <= words /\ both * (k * size) <= Len(buffer) /\ both * (k * size) \in Nat
    <2>1. k * size \in Nat
      BY SMTT(30)
    <2>2. PICK width \in Nat : width = k * size
      BY <2>1
    <2> HIDE DEF both
    <2>3. n * width \in Nat /\ both * width \in Nat /\ both * width <= m * width /\ both * width <= n * width
      BY <1>1, SMTT(30)
    <2>4. QED
      BY <2>2, <2>3 DEF Layout
  <1>3. resized \in Seq(Words) /\ Len(resized) = words
    <2>1. buffer \in Seq(Words)
      BY DEF Layout
    <2>2. \A w \in 1..words : w <= both * (k * size) => buffer[w] \in Words
      <3>1. \A w \in 1..Len(buffer) : buffer[w] \in Words
        BY <2>1
      <3> HIDE DEF words, both
      <3>2. QED
        BY <1>2, <3>1
    <2>3. resized = [w \in 1..words |-> IF w <= both * (k * size) THEN buffer[w] ELSE Zero]
      BY DEF ResizedWords
    <2> HIDE DEF words, both
    <2>4. QED
      BY <1>2, <2>2, <2>3, ZeroIsWord
  <1>4. DOMAIN kept = {row \in DOMAIN values : row[1] < n} /\ \A row \in DOMAIN kept : kept[row] = values[row]
    BY DEF Restrict
  <1>5. DOMAIN kept \subseteq Cells(n, k)
    <2>1. SUFFICES ASSUME NEW row \in DOMAIN kept PROVE row \in Cells(n, k)
      OBVIOUS
    <2>2. row \in Cells(m, k) /\ row[1] < n
      BY <1>4 DEF Layout
    <2>3. QED
      BY <2>2 DEF Cells
  <1>6. ASSUME NEW i \in 0..n - 1, NEW c \in 0..k - 1, NEW part \in 1..size
        PROVE  resized[(i * k + c) * size + part]
                 = IF <<i, c>> \in DOMAIN kept THEN <<kept[<<i, c>>], part>> ELSE Zero
    <2> DEFINE place == (i * k + c) * size + part
    <2>1. size \in 1..2
      OBVIOUS
    <2>2. place \in 1..words
      BY <2>1, PartFits
    <2>3. resized[place] = IF place <= both * (k * size) THEN buffer[place] ELSE Zero
      <3> HIDE DEF place
      <3> QED
        BY <2>2 DEF ResizedWords
    <2>4. <<i, c>> \in DOMAIN kept <=> <<i, c>> \in DOMAIN values
      BY <1>4
    <2>5. CASE i < m
      <3>1. i \in 0..m - 1 /\ i \in 0..both - 1
        BY <1>1, <2>5
      <3>2. place \in 1..both * (k * size)
        <4> HIDE DEF both
        <4> QED
          BY <1>1, <2>1, <3>1, PartFits
      <3>3. buffer[place] = IF <<i, c>> \in DOMAIN values THEN <<values[<<i, c>>], part>> ELSE Zero
        BY <3>1 DEF Layout
      <3>4. <<i, c>> \in DOMAIN kept => kept[<<i, c>>] = values[<<i, c>>]
        BY <1>4
      <3>5. resized[place] = buffer[place]
        <4> HIDE DEF place, both
        <4> QED
          BY <1>2, <2>3, <3>2
      <3>6. QED
        BY <2>4, <3>3, <3>4, <3>5
    <2>6. CASE i >= m
      <3>1. both <= i
        BY <1>1, <2>6
      <3>2. place > both * (k * size)
        <4> HIDE DEF both
        <4> QED
          BY <1>1, <2>1, <3>1, PartBeyond
      <3>3. <<i, c>> \notin DOMAIN values
        <4>1. <<i, c>> \notin Cells(m, k)
          BY <2>6 DEF Cells
        <4>2. QED
          BY <4>1 DEF Layout
      <3>4. resized[place] = Zero
        <4> HIDE DEF place, both
        <4> QED
          BY <1>2, <2>2, <2>3, <3>2
      <3>5. QED
        BY <2>4, <3>3, <3>4
    <2>7. QED
      BY <2>5, <2>6
  <1>7. Layout(resized, kept, n, k, size)
    <2> HIDE DEF kept
    <2> QED
      BY <1>3, <1>5, <1>6 DEF Layout
  <1>8. QED
    BY <1>7

\* What a word is part of
LEMMA WordPlace ==
  ASSUME NEW n \in Nat, NEW k \in Nat, NEW size \in 1..2, NEW w \in 1..n * (k * size)
  PROVE  /\ (w - 1) \div size \in 0..n * k - 1
         /\ ((w - 1) % size) + 1 \in 1..size
  <1>1. PICK cells \in Nat : cells = n * k
    OBVIOUS
  <1>2. CASE size = 1
    BY <1>1, <1>2
  <1>3. CASE size = 2
    <2>1. n * (k * 2) = cells * 2
      BY <1>1
    <2>2. QED
      BY <1>1, <1>3, <2>1
  <1>4. QED
    BY <1>2, <1>3

\* The setters: one component is written, whose words are nobody else's.
WrittenWords(buffer, size, index, v) ==
  [w \in DOMAIN buffer |-> IF (w - 1) \div size = index THEN <<v, ((w - 1) % size) + 1>> ELSE buffer[w]]
Changed(values, row, v) == [r \in DOMAIN values \cup {row} |-> IF r = row THEN v ELSE values[r]]

LEMMA WrittenLayout ==
  ASSUME NEW buffer, NEW values, NEW n \in Nat, NEW k \in Nat, NEW size \in 1..2,
         Layout(buffer, values, n, k, size),
         NEW i0 \in 0..n - 1, NEW c0 \in 0..k - 1, NEW v \in Int, NEW written,
         written = WrittenWords(buffer, size, i0 * k + c0, v)
  PROVE  Layout(written, Changed(values, <<i0, c0>>, v), n, k, size)
  <1> USE DEF WrittenWords
  <1> DEFINE words == n * (k * size)
             changed == Changed(values, <<i0, c0>>, v)
  <1>1. DOMAIN buffer = 1..words /\ words \in Nat /\ \A w \in 1..words : buffer[w] \in Words
    BY DEF Layout
  <1>2. written \in Seq(Words) /\ Len(written) = words
    <2>1. \A w \in 1..words : <<v, ((w - 1) % size) + 1>> \in Words
      BY WordPlace DEF Words
    <2> HIDE DEF words
    <2>2. QED
      BY <1>1, <2>1
  <1>3. /\ DOMAIN changed = {<<i0, c0>>} \cup DOMAIN values
        /\ changed[<<i0, c0>>] = v
        /\ \A row \in DOMAIN values : row # <<i0, c0>> => changed[row] = values[row]
    BY DEF Changed
  <1>4. DOMAIN changed \subseteq Cells(n, k)
    <2>1. DOMAIN values \subseteq Cells(n, k)
      BY DEF Layout
    <2>2. <<i0, c0>> \in Cells(n, k)
      BY DEF Cells
    <2> HIDE DEF changed
    <2>3. QED
      BY <1>3, <2>1, <2>2
  <1>5. ASSUME NEW i \in 0..n - 1, NEW c \in 0..k - 1, NEW part \in 1..size
        PROVE  written[(i * k + c) * size + part]
                 = IF <<i, c>> \in DOMAIN changed THEN <<changed[<<i, c>>], part>> ELSE Zero
    <2>1. PICK place \in 1..words : place = (i * k + c) * size + part
      BY PartFits
    <2>2. (place - 1) \div size = i * k + c /\ (place - 1) % size = part - 1
      <3> HIDE DEF words, WrittenWords
      <3> QED
        BY <2>1, ComponentPlace
    <2>3. written[place] = IF i * k + c = i0 * k + c0 THEN <<v, part>> ELSE buffer[place]
      <3>1. ((place - 1) % size) + 1 = part
        BY <2>2
      <3> HIDE DEF words
      <3>2. QED
        BY <1>1, <2>2, <3>1
    <2>4. CASE <<i, c>> = <<i0, c0>>
      BY <1>3, <2>1, <2>3, <2>4
    <2>5. CASE <<i, c>> # <<i0, c0>>
      <3>1. i * k + c # i0 * k + c0
        BY <2>5, RowsApart
      <3>2. written[place] = IF <<i, c>> \in DOMAIN values THEN <<values[<<i, c>>], part>> ELSE Zero
        BY <2>1, <2>3, <3>1 DEF Layout
      <3>3. <<i, c>> \in DOMAIN changed <=> <<i, c>> \in DOMAIN values
        BY <1>3, <2>5
      <3>4. QED
        BY <1>3, <2>1, <2>5, <3>2, <3>3
    <2>6. QED
      BY <2>4, <2>5
  <1>6. Layout(written, changed, n, k, size)
    <2> HIDE DEF changed
    <2> QED
      BY <1>2, <1>4, <1>5 DEF Layout
  <1>7. QED
    BY <1>6

\* The frame as the parser has read it
LEMMA FrameLayout ==
  ASSUME NEW c \in DOMAIN Columns, NEW rows \in Nat
  PROVE  Layout(FrameWords(c, rows), [row \in RowsOf(c, rows) |-> FrameValue(c, row)],
                rows, Columns[c].comps, TypeSize(Columns[c].type))
  <1> DEFINE k == Columns[c].comps
             size == TypeSize(Columns[c].type)
             frame == FrameWords(c, rows)
             values == [row \in RowsOf(c, rows) |-> FrameValue(c, row)]
             words == rows * (k * size)
  <1>1. k \in Nat /\ size \in 1..2
    BY ColumnsAssumption DEF TypeSize
  <1>2. words \in Nat /\ rows * k * size = words
    <2> HIDE DEF k, size
    <2>1. CASE size = 1
      BY <1>1, <2>1
    <2>2. CASE size = 2
      BY <1>1, <2>2
    <2>3. QED
      BY <1>1, <2>1, <2>2
  <1>3. frame = [w \in 1..words |-> <<-(((w - 1) \div size) + 1), ((w - 1) % size) + 1>>]
    BY <1>2 DEF FrameWords
  <1>4. frame \in Seq(Words) /\ Len(frame) = words
    <2>1. ASSUME NEW w \in 1..words
          PROVE  <<-(((w - 1) \div size) + 1), ((w - 1) % size) + 1>> \in Words
      <3> HIDE DEF k, size
      <3>1. (w - 1) \div size \in Int /\ ((w - 1) % size) + 1 \in Int
        BY <1>1, WordPlace
      <3>2. QED
        BY <3>1 DEF Words
    <2> HIDE DEF words, frame, size
    <2>2. QED
      BY <1>2, <1>3, <2>1
  <1>5. DOMAIN values = Cells(rows, k)
    BY DEF RowsOf, Cells
  <1>6. ASSUME NEW i \in 0..rows - 1, NEW d \in 0..k - 1, NEW part \in 1..size
        PROVE  frame[(i * k + d) * size + part] = <<values[<<i, d>>], part>>
    <2>1. values[<<i, d>>] = -(i * k + d + 1)
      BY DEF RowsOf, FrameValue
    <2> HIDE DEF k, size, values
    <2>2. PICK place \in 1..words : place = (i * k + d) * size + part
      BY <1>1, PartFits
    <2>3. PICK index \in Nat : index = i * k + d
      BY <1>1, RowFits
    <2>4. (place - 1) \div size = index /\ ((place - 1) % size) + 1 = part
      BY <1>1, <2>2, <2>3, PartPlace
    <2>5. frame[place] = <<-(((place - 1) \div size) + 1), ((place - 1) % size) + 1>>
      <3> HIDE DEF frame
      <3> QED
        BY <1>2, <1>3
    <2>6. QED
      BY <2>1, <2>2, <2>3, <2>4, <2>5
  <1>7. Layout(frame, values, rows, k, size)
    <2>1. \A i \in 0..rows - 1, d \in 0..k - 1 : <<i, d>> \in DOMAIN values
      BY <1>5 DEF Cells
    <2> HIDE DEF k, size, frame, values
    <2>2. QED
      BY <1>4, <1>5, <1>6, <2>1 DEF Layout
  <1>8. QED
    BY <1>7

-----------------------------------------------------------------------------
(* The storage of an analysis on a frame of that many rows *)

PropertyRecords ==
  [type : Types, typeSize : 0..2, n : Nat, stride : Nat, comps : Nat, own : Seq(Words),
   ext : DOMAIN Columns \cup {NoColumn}]

\* A property of its own has its values in its buffer; one that is bound is no longer
\* than the frame and sees it as the frame is.
Good(p, values, rows) ==
  /\ p.stride = p.comps * TypeSize(p.type)
  /\ p.type = "Void" => p.comps = 0
  /\ p.ext = NoColumn => Layout(p.own, values, p.n, p.comps, TypeSize(p.type))
  /\ p.ext # NoColumn =>
       /\ p.own = NoBuffer /\ p.n <= rows
       /\ p.type = Columns[p.ext].type /\ p.comps = Columns[p.ext].comps

StorageInv(rows) ==
  /\ props \in [Properties -> PropertyRecords] /\ puts \in 0..MaxPuts
  /\ DOMAIN column = DOMAIN Columns /\ DOMAIN put = Properties \cup DOMAIN Columns
  /\ \A c \in DOMAIN Columns : Layout(column[c], put[c], rows, Columns[c].comps, TypeSize(Columns[c].type))
  /\ \A x \in Properties : Good(props[x], put[x], rows)

LEMMA Sizes ==
  ASSUME NEW t \in Types
  PROVE  TypeSize(t) \in 0..2 /\ (t # "Void" => TypeSize(t) \in 1..2) /\ (t = "Void" => TypeSize(t) = 0)
  BY DEF Types, TypeSize

LEMMA ColumnSizes ==
  ASSUME NEW c \in DOMAIN Columns
  PROVE  /\ Columns[c].type \in Types \ {"Void"} /\ TypeSize(Columns[c].type) \in 1..2
         /\ Columns[c].comps \in Nat \ {0}
  BY ColumnsAssumption, Sizes DEF Types

LEMMA NoProperty ==
  ASSUME NEW rows \in Nat
  PROVE  Empty \in PropertyRecords /\ Good(Empty, <<>>, rows)
  <1>1. Layout(<<>>, <<>>, 0, 0, 0)
    BY EmptyLayout
  <1>2. TypeSize("Void") = 0
    BY DEF TypeSize
  <1>3. <<>> \in Seq(Words)
    OBVIOUS
  <1>4. QED
    BY <1>1, <1>2, <1>3 DEF Empty, PropertyRecords, Types, Good, NoBuffer

LEMMA StorageInvInit == StorageInit => StorageInv(0)
  <1> SUFFICES ASSUME StorageInit PROVE StorageInv(0)
    OBVIOUS
  <1>1. /\ props = [x \in Properties |-> Empty] /\ column = [c \in DOMAIN Columns |-> <<>>]
        /\ put = [b \in Properties \cup DOMAIN Columns |-> <<>>] /\ puts = 0
    BY DEF StorageInit
  <1>2. \A c \in DOMAIN Columns : Layout(column[c], put[c], 0, Columns[c].comps, TypeSize(Columns[c].type))
    BY <1>1, ColumnSizes, EmptyLayout
  <1>3. \A x \in Properties : Good(props[x], put[x], 0)
    BY <1>1, NoProperty
  <1>4. props \in [Properties -> PropertyRecords]
    BY <1>1, NoProperty
  <1>5. QED
    BY <1>1, <1>2, <1>3, <1>4, CountsAssumption DEF StorageInv

LEMMA StorageStutters ==
  ASSUME NEW rows \in Nat, StorageInv(rows), UNCHANGED storageVars
  PROVE  StorageInv(rows)'
  BY DEF StorageInv, storageVars

\* Where a property's values are, its home keeps them in rows at least as many as it has.
LEMMA HomeLayout ==
  ASSUME NEW rows \in Nat, StorageInv(rows), NEW x \in Properties
  PROVE  \E m \in Nat : /\ props[x].n <= m
                        /\ Layout(Buffer(props[x]), put[HomeOf(x)], m, props[x].comps, TypeSize(props[x].type))
  <1> DEFINE p == props[x]
  <1>1. p \in PropertyRecords /\ Good(p, put[x], rows)
    BY DEF StorageInv
  <1>2. CASE p.ext = NoColumn
    <2>1. Owns(p)
      BY <1>2 DEF Owns
    <2>2. Buffer(p) = p.own /\ HomeOf(x) = x
      BY <2>1 DEF Buffer, HomeOf
    <2>3. p.n \in Nat /\ p.n <= p.n
      BY <1>1 DEF PropertyRecords
    <2>4. QED
      BY <1>1, <1>2, <2>2, <2>3 DEF Good
  <1>3. CASE p.ext # NoColumn
    <2>1. p.own = NoBuffer /\ p.n <= rows /\ p.type = Columns[p.ext].type /\ p.comps = Columns[p.ext].comps
      BY <1>1, <1>3 DEF Good
    <2>2. ~Owns(p) /\ p.ext \in DOMAIN Columns
      BY <1>1, <1>3, <2>1 DEF Owns, PropertyRecords
    <2>3. Buffer(p) = column[p.ext] /\ HomeOf(x) = p.ext
      BY <2>2 DEF Buffer, HomeOf
    <2>4. QED
      BY <2>1, <2>2, <2>3 DEF StorageInv
  <1>4. QED
    BY <1>2, <1>3

LEMMA Changing ==
  ASSUME NEW rows \in Nat, StorageInv(rows), NEW x \in Properties,
         NEW p \in PropertyRecords, NEW values, Good(p, values, rows),
         props' = [props EXCEPT ![x] = p], UNCHANGED <<column, puts>>,
         DOMAIN put' = DOMAIN put, put'[x] = values, \A b \in DOMAIN put \ {x} : put'[b] = put[b]
  PROVE  StorageInv(rows)'
  <1>1. column' = column /\ puts' = puts
    OBVIOUS
  <1>2. \A c \in DOMAIN Columns : put'[c] = put[c]
    BY NamesAssumption DEF StorageInv
  <1>3. \A y \in Properties : Good(props'[y], put'[y], rows)
    <2>1. SUFFICES ASSUME NEW y \in Properties PROVE Good(props'[y], put'[y], rows)
      OBVIOUS
    <2>2. CASE y = x
      <3>1. props'[y] = p /\ put'[y] = values
        BY <1>1, <2>2 DEF StorageInv
      <3>2. QED
        BY <3>1
    <2>3. CASE y # x
      <3>1. props'[y] = props[y] /\ put'[y] = put[y]
        BY <1>1, <2>3 DEF StorageInv
      <3>2. QED
        BY <3>1 DEF StorageInv
    <2>4. QED
      BY <2>2, <2>3
  <1>4. props' \in [Properties -> PropertyRecords]
    BY <1>1 DEF StorageInv
  <1>5. QED
    BY <1>1, <1>2, <1>3, <1>4 DEF StorageInv

LEMMA Becoming ==
  ASSUME NEW rows \in Nat, StorageInv(rows), NEW x \in Properties,
         NEW p \in PropertyRecords, NEW values, Good(p, values, rows), Become(x, p, values)
  PROVE  StorageInv(rows)'
  <1>1. props' = [props EXCEPT ![x] = p] /\ put' = [put EXCEPT ![x] = values] /\ UNCHANGED <<column, puts>>
    BY DEF Become
  <1>2. DOMAIN put' = DOMAIN put /\ put'[x] = values /\ \A b \in DOMAIN put \ {x} : put'[b] = put[b]
    BY <1>1 DEF StorageInv
  <1>3. QED
    BY <1>1, <1>2, Changing

-----------------------------------------------------------------------------
(* The operations *)

LEMMA NewKeeps ==
  ASSUME NEW rows \in Nat, StorageInv(rows), NEW x \in Properties, NEW count \in Nat, NEW t \in Types,
         NEW comps \in Nat, NewProperty(x, count, t, comps, 0)
  PROVE  StorageInv(rows)'
  <1> DEFINE width == comps * TypeSize(t)
             p == [Empty EXCEPT !.type = t, !.typeSize = TypeSize(t), !.n = count, !.stride = width,
                                !.comps = comps, !.own = Zeros(count * width)]
  <1>1. Become(x, p, <<>>) /\ ~Refused(t, count, comps, 0)
    BY DEF NewProperty, ResolveStride
  <1>2. TypeSize(t) \in 0..2 /\ width \in Nat
    BY Sizes, SMTT(30)
  <1>3. Layout(Zeros(count * width), <<>>, count, comps, TypeSize(t))
    BY <1>2, ZerosLayout
  <1>4. /\ p.type = t /\ p.typeSize = TypeSize(t) /\ p.n = count /\ p.stride = width /\ p.comps = comps
        /\ p.own = Zeros(count * width) /\ p.ext = NoColumn
    BY DEF Empty
  <1>5. p \in PropertyRecords
    <2>1. Zeros(count * width) \in Seq(Words)
      BY <1>3 DEF Layout
    <2> HIDE DEF width
    <2>2. QED
      BY <1>2, <2>1 DEF Empty, PropertyRecords
  <1>6. Good(p, <<>>, rows)
    <2>1. t = "Void" => comps = 0
      BY <1>1 DEF Refused
    <2> HIDE DEF p
    <2>2. QED
      BY <1>3, <1>4, <2>1 DEF Good
  <1>7. QED
    <2> HIDE DEF p
    <2> QED
      BY <1>1, <1>5, <1>6, Becoming

LEMMA CopyKeeps ==
  ASSUME NEW rows \in Nat, StorageInv(rows), NEW x \in Properties, NEW y \in Properties, CopyProperty(x, y)
  PROVE  StorageInv(rows)'
  <1> DEFINE q == props[y]
             size == TypeSize(q.type)
             own == SubSeq(Buffer(q), 1, q.n * q.stride)
             values == Restrict(put[HomeOf(y)], Components(q) \cap DOMAIN put[HomeOf(y)])
             p == [q EXCEPT !.ext = NoColumn, !.own = own]
  <1>1. q \in PropertyRecords /\ Good(q, put[y], rows)
    BY DEF StorageInv
  <1>2. q.n \in Nat /\ q.comps \in Nat /\ size \in 0..2 /\ q.stride = q.comps * size
    BY <1>1, Sizes DEF PropertyRecords, Good
  <1>3. Layout(own, values, q.n, q.comps, size)
    <2>1. PICK m \in Nat : q.n <= m /\ Layout(Buffer(q), put[HomeOf(y)], m, q.comps, size)
      BY HomeLayout
    <2>2. Components(q) = Cells(q.n, q.comps)
      BY DEF Components, Cells
    <2> HIDE DEF q, size
    <2>3. QED
      BY <1>2, <2>1, <2>2, PrefixLayout
  <1>4. /\ p.type = q.type /\ p.n = q.n /\ p.stride = q.stride /\ p.comps = q.comps
        /\ p.own = own /\ p.ext = NoColumn
    BY <1>1 DEF PropertyRecords
  <1>5. p \in PropertyRecords
    <2>1. own \in Seq(Words)
      BY <1>3 DEF Layout
    <2> HIDE DEF own, q
    <2>2. QED
      BY <1>1, <2>1 DEF PropertyRecords
  <1>6. Good(p, values, rows)
    <2> HIDE DEF p, values, own
    <2> QED
      BY <1>1, <1>3, <1>4 DEF Good
  <1>7. Become(x, p, values)
    BY DEF CopyProperty
  <1>8. QED
    <2> HIDE DEF p, values
    <2> QED
      BY <1>5, <1>6, <1>7, Becoming

LEMMA ResizeKeeps ==
  ASSUME NEW rows \in Nat, StorageInv(rows), NEW x \in Properties, NEW newSize \in Nat, NEW preserveData \in BOOLEAN,
         Resize(x, newSize, preserveData)
  PROVE  StorageInv(rows)'
  <1> DEFINE p == props[x]
             size == TypeSize(p.type)
             resized(words) == [p EXCEPT !.n = newSize, !.own = words, !.ext = NoColumn]
  <1>1. p \in PropertyRecords /\ Good(p, put[x], rows)
    BY DEF StorageInv
  <1>2. p.n \in Nat /\ p.comps \in Nat /\ size \in 0..2 /\ p.stride = p.comps * size
    BY <1>1, Sizes DEF PropertyRecords, Good
  <1>3. ASSUME NEW words, NEW values, Layout(words, values, newSize, p.comps, size), Become(x, resized(words), values)
        PROVE  StorageInv(rows)'
    <2> DEFINE q == resized(words)
    <2>1. /\ q.type = p.type /\ q.n = newSize /\ q.stride = p.stride /\ q.comps = p.comps
          /\ q.own = words /\ q.ext = NoColumn
      BY <1>1 DEF PropertyRecords
    <2>2. q \in PropertyRecords
      <3>1. words \in Seq(Words)
        BY <1>3 DEF Layout
      <3> HIDE DEF p
      <3>2. QED
        BY <1>1, <3>1 DEF PropertyRecords
    <2>3. Good(q, values, rows)
      <3> HIDE DEF q
      <3> QED
        BY <1>1, <1>3, <2>1 DEF Good
    <2>4. Become(x, q, values)
      BY <1>3
    <2>5. QED
      <3> HIDE DEF q
      <3> QED
        BY <2>2, <2>3, <2>4, Becoming
  <1>4. CASE newSize = p.n /\ UNCHANGED storageVars
    BY <1>4, StorageStutters
  <1>5. CASE newSize = 0 /\ Become(x, resized(NoBuffer), <<>>)
    <2>1. Layout(NoBuffer, <<>>, newSize, p.comps, size)
      <3> HIDE DEF p, size
      <3> QED
        BY <1>2, <1>5, EmptyLayout DEF NoBuffer
    <2> HIDE DEF p, size, resized
    <2>2. QED
      BY <1>3, <1>5, <2>1
  <1>6. CASE /\ p.own # NoBuffer
             /\ Become(x, resized(KeptWords(p, newSize)), Restrict(put[x], {row \in DOMAIN put[x] : row[1] < newSize}))
    <2>1. p.ext = NoColumn /\ Layout(p.own, put[x], p.n, p.comps, size)
      BY <1>1, <1>6 DEF Good
    <2>2. KeptWords(p, newSize) = ResizedWords(p.own, p.n, newSize, p.comps * size)
      BY <1>2 DEF KeptWords, ResizedWords
    <2>3. Layout(KeptWords(p, newSize), Restrict(put[x], {row \in DOMAIN put[x] : row[1] < newSize}),
                 newSize, p.comps, size)
      <3> HIDE DEF p, size
      <3> QED
        BY <1>2, <2>1, <2>2, ResizedLayout
    <2> HIDE DEF p, size, resized
    <2>4. QED
      BY <1>3, <1>6, <2>3
  <1>7. CASE Become(x, resized(Zeros(newSize * p.stride)), <<>>)
    <2>1. Layout(Zeros(newSize * p.stride), <<>>, newSize, p.comps, size)
      <3> HIDE DEF p, size
      <3> QED
        BY <1>2, ZerosLayout
    <2> HIDE DEF p, size, resized
    <2>2. QED
      BY <1>3, <1>7, <2>1
  <1>8. QED
    BY <1>4, <1>5, <1>6, <1>7 DEF Resize

LEMMA BindKeeps ==
  ASSUME NEW rows \in Nat, StorageInv(rows), NEW x \in Properties, NEW c \in DOMAIN Columns,
         NEW count \in Nat, count <= rows, Bind(x, c, count)
  PROVE  StorageInv(rows)'
  <1> DEFINE t == Columns[c].type
             p == [type |-> t, typeSize |-> TypeSize(t), n |-> count, comps |-> Columns[c].comps,
                   stride |-> ResolveStride(t, Columns[c].comps, 0), own |-> NoBuffer, ext |-> c]
  <1>1. t \in Types \ {"Void"} /\ TypeSize(t) \in 1..2 /\ Columns[c].comps \in Nat \ {0}
    BY ColumnSizes
  <1>2. ResolveStride(t, Columns[c].comps, 0) = Columns[c].comps * TypeSize(t)
    BY DEF ResolveStride
  <1>3. c # NoColumn
    BY NamesAssumption
  <1>4. p \in PropertyRecords
    <2>1. Columns[c].comps * TypeSize(t) \in Nat
      BY <1>1, SMTT(30)
    <2>2. NoBuffer \in Seq(Words)
      BY DEF NoBuffer
    <2> HIDE DEF t
    <2>3. QED
      BY <1>1, <1>2, <2>1, <2>2 DEF PropertyRecords
  <1>5. Good(p, <<>>, rows)
    BY <1>1, <1>2, <1>3 DEF Good
  <1>6. Become(x, p, <<>>)
    BY DEF Bind
  <1>7. QED
    <2> HIDE DEF p
    <2> QED
      BY <1>4, <1>5, <1>6, Becoming

\* A refused binding has changed the size of the type, which nobody looks at.
LEMMA BindRefusedKeeps ==
  ASSUME NEW rows \in Nat, StorageInv(rows), NEW x \in Properties, NEW t \in Types, NEW count, NEW comps,
         BindRefused(x, t, count, comps)
  PROVE  StorageInv(rows)'
  <1> DEFINE p == [props[x] EXCEPT !.typeSize = TypeSize(t)]
  <1>1. props[x] \in PropertyRecords /\ Good(props[x], put[x], rows)
    BY DEF StorageInv
  <1>2. /\ p.type = props[x].type /\ p.n = props[x].n /\ p.stride = props[x].stride
        /\ p.comps = props[x].comps /\ p.own = props[x].own /\ p.ext = props[x].ext
    BY <1>1 DEF PropertyRecords
  <1>3. p \in PropertyRecords
    BY <1>1, Sizes DEF PropertyRecords
  <1>4. Good(p, put[x], rows)
    <2> HIDE DEF p
    <2> QED
      BY <1>1, <1>2 DEF Good
  <1>5. props' = [props EXCEPT ![x] = p] /\ UNCHANGED <<column, put, puts>>
    BY DEF BindRefused
  <1>6. QED
    <2> HIDE DEF p
    <2> QED
      BY <1>3, <1>4, <1>5, Changing

LEMMA WholeQuotient ==
  ASSUME NEW a \in Nat, NEW b \in Nat \ {0}
  PROVE  (a * b) \div b = a
  <1>1. PICK q \in Int : q = (a * b) \div b
    OBVIOUS
  <1>2. q * b <= a * b /\ a * b < (q + 1) * b
    BY <1>1, SMTT(30)
  <1>3. ~ q < a
    <2>1. SUFFICES ASSUME q + 1 <= a PROVE FALSE
      OBVIOUS
    <2>2. (q + 1) * b <= a * b
      BY <2>1, SMTT(30)
    <2>3. (q + 1) * b \in Int /\ a * b \in Int
      OBVIOUS
    <2>4. QED
      BY <1>2, <2>2, <2>3
  <1>4. ~ a < q
    <2>1. SUFFICES ASSUME a + 1 <= q PROVE FALSE
      OBVIOUS
    <2>2. (a + 1) * b <= q * b
      BY <2>1, SMTT(30)
    <2>3. (a + 1) * b = a * b + b /\ a * b \in Int /\ q * b \in Int
      BY SMTT(30)
    <2>4. QED
      BY <1>2, <2>2, <2>3
  <1>5. QED
    BY <1>1, <1>3, <1>4

LEMMA FillKeeps ==
  ASSUME NEW rows \in Nat, StorageInv(rows), NEW x \in Properties, NEW c \in DOMAIN Columns,
         FillFrom(x, c)
  PROVE  StorageInv(rows)'
  <1> DEFINE t == Columns[c].type
             k == Columns[c].comps
             size == TypeSize(t)
             width == k * size
             words == column[c]
             p == [Empty EXCEPT !.type = t, !.typeSize = size, !.comps = k, !.n = rows,
                                !.stride = width, !.own = words]
  <1>1. k \in Nat \ {0} /\ size \in 1..2 /\ t \in Types \ {"Void"}
    BY ColumnSizes
  <1>2. Layout(words, put[c], rows, k, size)
    BY DEF StorageInv
  <1>3. Len(words) \div (size * k) = rows
    <2>1. k * size \in Nat \ {0} /\ size * k = k * size
      <3> HIDE DEF k, size
      <3>1. CASE size = 1
        BY <1>1, <3>1
      <3>2. CASE size = 2
        BY <1>1, <3>2
      <3>3. QED
        BY <1>1, <3>1, <3>2
    <2>2. Len(words) = rows * (k * size)
      BY <1>2 DEF Layout
    <2> HIDE DEF k, size, words
    <2>3. QED
      BY <2>1, <2>2, WholeQuotient
  <1>4. Become(x, p, put[c])
    <2>1. ResolveStride(t, k, 0) = width
      BY DEF ResolveStride
    <2>2. QED
      BY <1>3, <2>1 DEF FillFrom
  <1>5. /\ p.type = t /\ p.n = rows /\ p.stride = width /\ p.comps = k /\ p.own = words /\ p.ext = NoColumn
    BY DEF Empty
  <1>6. p \in PropertyRecords
    <2>1. words \in Seq(Words)
      BY <1>2 DEF Layout
    <2>2. width \in Nat /\ size \in 0..2 /\ k \in Nat
      <3> HIDE DEF k, size
      <3> QED
        BY <1>1, SMTT(30)
    <2> HIDE DEF width, words, size, k, t
    <2>3. QED
      BY <1>1, <2>1, <2>2 DEF Empty, PropertyRecords
  <1>7. Good(p, put[c], rows)
    <2> HIDE DEF p, words
    <2> QED
      BY <1>1, <1>2, <1>5 DEF Good
  <1>8. QED
    <2> HIDE DEF p
    <2> QED
      BY <1>4, <1>6, <1>7, Becoming

\* A value is written into the buffer where its property keeps its values, the frame's column
\* for all that are bound to it.
LEMMA PutKeeps ==
  ASSUME NEW rows \in Nat, StorageInv(rows), NEW x \in Properties,
         NEW i \in 0..props[x].n - 1, NEW c \in 0..props[x].comps - 1, Put(x, i, c)
  PROVE  StorageInv(rows)'
  <1> DEFINE p == props[x]
             size == TypeSize(p.type)
             v == puts + 1
             written == WrittenWords(Buffer(p), size, i * p.comps + c, v)
  <1>1. p \in PropertyRecords /\ Good(p, put[x], rows)
    BY DEF StorageInv
  <1>2. p.n \in Nat /\ p.comps \in Nat /\ size \in 1..2 /\ v \in 0..MaxPuts /\ v \in Int
    <2>1. p.n \in Nat /\ p.comps \in Nat /\ p.type \in Types
      BY <1>1 DEF PropertyRecords
    <2>2. p.comps # 0
      BY <2>1
    <2>3. p.type # "Void"
      BY <1>1, <2>2 DEF Good
    <2>4. puts \in 0..MaxPuts /\ puts < MaxPuts /\ MaxPuts \in Nat
      BY CountsAssumption DEF Put, StorageInv
    <2>5. QED
      BY <2>1, <2>3, <2>4, Sizes
  <1>3. Written(p, i, c, v) = written
    BY DEF Written, WrittenWords, Index
  <1>4. puts' = v /\ DOMAIN put' = DOMAIN put
    BY DEF Put
  <1>5. CASE p.ext = NoColumn
    <2>1. Owns(p) /\ Buffer(p) = p.own /\ HomeOf(x) = x
      BY <1>5 DEF Owns, Buffer, HomeOf
    <2>2. /\ props' = [props EXCEPT ![x].own = written] /\ column' = column
          /\ put'[x] = Changed(put[x], <<i, c>>, v)
          /\ \A b \in DOMAIN put \ {x} : put'[b] = put[b]
      BY <1>3, <2>1 DEF Put, Changed, StorageInv
    <2>3. Layout(written, Changed(put[x], <<i, c>>, v), p.n, p.comps, size)
      <3>1. Layout(Buffer(p), put[x], p.n, p.comps, size)
        BY <1>1, <1>5, <2>1 DEF Good
      <3> HIDE DEF p, size, v
      <3>2. QED
        BY <1>2, <3>1, WrittenLayout DEF p
    <2> DEFINE q == [p EXCEPT !.own = written]
    <2>4. /\ q.type = p.type /\ q.n = p.n /\ q.stride = p.stride /\ q.comps = p.comps
          /\ q.own = written /\ q.ext = NoColumn
      BY <1>1, <1>5 DEF PropertyRecords
    <2>5. q \in PropertyRecords
      <3>1. written \in Seq(Words)
        BY <2>3 DEF Layout
      <3> HIDE DEF p, written
      <3>2. QED
        BY <1>1, <3>1 DEF PropertyRecords
    <2>6. Good(q, put'[x], rows)
      <3> HIDE DEF q, written
      <3> QED
        BY <1>1, <2>2, <2>3, <2>4 DEF Good
    <2>7. props' = [props EXCEPT ![x] = q]
      BY <2>2
    <2>8. \A y \in Properties : Good(props'[y], put'[y], rows)
      <3> HIDE DEF q
      <3>1. SUFFICES ASSUME NEW y \in Properties PROVE Good(props'[y], put'[y], rows)
        OBVIOUS
      <3>2. CASE y = x
        BY <2>6, <2>7, <3>2 DEF StorageInv
      <3>3. CASE y # x
        BY <2>2, <2>7, <3>3 DEF StorageInv
      <3>4. QED
        BY <3>2, <3>3
    <2>9. \A d \in DOMAIN Columns : put'[d] = put[d]
      BY <2>2, NamesAssumption DEF StorageInv
    <2>10. props' \in [Properties -> PropertyRecords]
      <3> HIDE DEF q
      <3> QED
        BY <2>5, <2>7 DEF StorageInv
    <2>11. QED
      BY <1>2, <1>4, <2>2, <2>8, <2>9, <2>10 DEF StorageInv
  <1>6. CASE p.ext # NoColumn
    <2> DEFINE d == p.ext
    <2>1. p.own = NoBuffer /\ p.n <= rows /\ p.type = Columns[d].type /\ p.comps = Columns[d].comps
      BY <1>1, <1>6 DEF Good
    <2>2. ~Owns(p) /\ d \in DOMAIN Columns
      BY <1>1, <1>6, <2>1 DEF Owns, PropertyRecords
    <2>3. Buffer(p) = column[d] /\ HomeOf(x) = d
      BY <2>2 DEF Buffer, HomeOf
    <2>4. /\ column' = [column EXCEPT ![d] = written] /\ props' = props
          /\ put'[d] = Changed(put[d], <<i, c>>, v)
          /\ \A b \in DOMAIN put \ {d} : put'[b] = put[b]
      BY <1>3, <2>2, <2>3 DEF Put, Changed, StorageInv
    <2>5. Layout(written, Changed(put[d], <<i, c>>, v), rows, p.comps, size)
      <3>1. Layout(Buffer(p), put[d], rows, p.comps, size)
        BY <2>1, <2>2, <2>3 DEF StorageInv
      <3>2. i \in 0..rows - 1 /\ c \in 0..p.comps - 1
        BY <1>2, <2>1
      <3> HIDE DEF p, size, v, d
      <3>3. QED
        BY <1>2, <3>1, <3>2, WrittenLayout
    <2>6. \A e \in DOMAIN Columns :
            Layout(column'[e], put'[e], rows, Columns[e].comps, TypeSize(Columns[e].type))
      <3>1. SUFFICES ASSUME NEW e \in DOMAIN Columns
                     PROVE  Layout(column'[e], put'[e], rows, Columns[e].comps, TypeSize(Columns[e].type))
        OBVIOUS
      <3>2. CASE e = d
        <4>1. column'[e] = written
          BY <2>2, <2>4, <3>2 DEF StorageInv
        <4> HIDE DEF written
        <4>2. QED
          BY <2>1, <2>4, <2>5, <3>2, <4>1
      <3>3. CASE e # d
        <4>1. column'[e] = column[e] /\ put'[e] = put[e]
          BY <2>4, <3>3 DEF StorageInv
        <4>2. QED
          BY <4>1 DEF StorageInv
      <3>4. QED
        BY <3>2, <3>3
    <2>7. \A y \in Properties : put'[y] = put[y]
      BY <2>2, <2>4, NamesAssumption DEF StorageInv
    <2>8. \A y \in Properties : Good(props'[y], put'[y], rows)
      BY <2>4, <2>7 DEF StorageInv
    <2>9. DOMAIN column' = DOMAIN Columns
      BY <2>4 DEF StorageInv
    <2>10. QED
      BY <1>2, <1>4, <2>4, <2>6, <2>8, <2>9 DEF StorageInv
  <1>7. QED
    BY <1>5, <1>6

\* A frame is read while nothing is bound to it yet.
LEMMA LoadKeeps ==
  ASSUME NEW rows \in Nat, StorageInv(0), FrameLoaded([c \in DOMAIN Columns |-> rows])
  PROVE  StorageInv(rows)'
  <1>1. /\ props' = props /\ puts' = puts /\ DOMAIN put' = DOMAIN put
        /\ column' = [c \in DOMAIN Columns |-> FrameWords(c, rows)]
    BY DEF FrameLoaded
  <1>2. \A c \in DOMAIN Columns : put'[c] = [row \in RowsOf(c, rows) |-> FrameValue(c, row)]
    BY DEF FrameLoaded, StorageInv
  <1>3. \A x \in Properties : put'[x] = put[x]
    BY NamesAssumption DEF FrameLoaded, StorageInv
  <1>4. \A c \in DOMAIN Columns : Layout(column'[c], put'[c], rows, Columns[c].comps, TypeSize(Columns[c].type))
    BY <1>1, <1>2, FrameLayout
  <1>5. \A x \in Properties : Good(props'[x], put'[x], rows)
    <2>1. SUFFICES ASSUME NEW x \in Properties PROVE Good(props[x], put[x], rows)
      BY <1>1, <1>3
    <2>2. Good(props[x], put[x], 0) /\ props[x] \in PropertyRecords
      BY DEF StorageInv
    <2>3. props[x].n \in Nat
      BY <2>2 DEF PropertyRecords
    <2>4. QED
      BY <2>2, <2>3 DEF Good
  <1>6. QED
    BY <1>1, <1>4, <1>5 DEF StorageInv

\* At the end every property is destroyed.
LEMMA DestructionKeeps ==
  ASSUME NEW rows \in Nat, StorageInv(rows), props' = [x \in Properties |-> Empty],
         put' = [b \in DOMAIN put |-> IF b \in Properties THEN <<>> ELSE put[b]], UNCHANGED <<column, puts>>
  PROVE  StorageInv(rows)'
  <1>1. \A c \in DOMAIN Columns : put'[c] = put[c] /\ column'[c] = column[c]
    BY NamesAssumption DEF StorageInv
  <1>2. \A x \in Properties : put'[x] = <<>> /\ props'[x] = Empty
    BY DEF StorageInv
  <1>3. \A x \in Properties : Good(props'[x], put'[x], rows)
    BY <1>2, NoProperty
  <1>4. props' \in [Properties -> PropertyRecords]
    BY NoProperty
  <1>5. DOMAIN put' = DOMAIN put /\ DOMAIN column' = DOMAIN column /\ puts' = puts
    OBVIOUS
  <1>6. QED
    BY <1>1, <1>3, <1>4, <1>5 DEF StorageInv

-----------------------------------------------------------------------------
(* What the accessors read *)

LEMMA StorageIsTyped ==
  ASSUME NEW rows \in Nat, StorageInv(rows)
  PROVE  StorageTypeOK
  BY DEF StorageInv, StorageTypeOK, PropertyRecords

LEMMA StorageReads ==
  ASSUME NEW rows \in Nat, StorageInv(rows)
  PROVE  PropertiesReadTheirData
  <1>1. SUFFICES ASSUME NEW x \in Properties
                 PROVE  LET p == props[x]
                            values == put[HomeOf(x)]
                        IN /\ p.n * p.stride <= Len(Buffer(p))
                           /\ \A row \in Components(p) :
                                ReadWords(p, row[1], row[2]) =
                                  IF row \in DOMAIN values THEN WordsOf(values[row], p.type) ELSE Zeros(TypeSize(p.type))
    BY DEF PropertiesReadTheirData
  <1> DEFINE p == props[x]
             size == TypeSize(p.type)
             values == put[HomeOf(x)]
             buffer == Buffer(p)
  <1>2. /\ p.n \in Nat /\ p.comps \in Nat /\ p.type \in Types /\ size \in 0..2 /\ p.stride = p.comps * size
    BY Sizes DEF StorageInv, PropertyRecords, Good
  <1>3. PICK m \in Nat : p.n <= m /\ Layout(buffer, values, m, p.comps, size)
    BY HomeLayout
  <1>4. p.n * p.stride <= Len(buffer)
    <2>1. PICK width \in Nat : width = p.comps * size
      <3> HIDE DEF p, size
      <3> QED
        BY <1>2, SMTT(30)
    <2>2. Len(buffer) = m * width
      BY <1>3, <2>1 DEF Layout
    <2>3. p.n * width <= m * width
      <3> HIDE DEF p
      <3> QED
        BY <1>2, <1>3, SMTT(30)
    <2>4. QED
      BY <1>2, <2>1, <2>2, <2>3
  <1>5. ASSUME NEW row \in Components(p)
        PROVE  ReadWords(p, row[1], row[2]) =
                 IF row \in DOMAIN values THEN WordsOf(values[row], p.type) ELSE Zeros(size)
    <2>1. PICK i \in 0..p.n - 1, c \in 0..p.comps - 1 : row = <<i, c>>
      BY DEF Components
    <2>2. i \in 0..m - 1
      BY <1>2, <1>3
    <2>3. \A part \in 1..size :
            buffer[(i * p.comps + c) * size + part] =
              IF row \in DOMAIN values THEN <<values[row], part>> ELSE Zero
      <3> HIDE DEF p, size, buffer, values
      <3> QED
        BY <1>3, <2>1, <2>2 DEF Layout
    <2>4. ReadWords(p, row[1], row[2]) = [part \in 1..size |-> buffer[(i * p.comps + c) * size + part]]
      BY <2>1 DEF ReadWords, Index
    <2>5. CASE row \in DOMAIN values
      <3> HIDE DEF p, size, buffer, values
      <3> QED
        BY <2>3, <2>4, <2>5 DEF WordsOf, size
    <2>6. CASE row \notin DOMAIN values
      <3> HIDE DEF p, size, buffer, values
      <3> QED
        BY <2>3, <2>4, <2>6 DEF Zeros
    <2>7. QED
      BY <2>5, <2>6
  <1>6. QED
    BY <1>4, <1>5
===============================================================================
