---------------------------- MODULE PropertyStorage ----------------------------
(***************************************************************************)
(* PropertyBase and ParticleProperty (src/core/property_base.cpp,          *)
(* include/volt/core/property_base.h, src/core/particle_property.cpp): the *)
(* storage behind a per-atom property is a buffer of its own or a column   *)
(* of a frame that FrameAdapter lends it.                                  *)
(*                                                                         *)
(* Memory is counted in words the size of an int.  A value put into an     *)
(* element is a number; a word holds the number of the value it is part of *)
(* and which part, or is Zero.  "put" has no counterpart: for each buffer, *)
(* the values last put into the components of its elements.                *)
(***************************************************************************)
EXTENDS Integers, Sequences, Functions

CONSTANTS Properties,  \* the properties of an analysis
          Columns,     \* the frame's columns: their type and componentCount
          Counts,      \* sizes an analysis asks for
          MaxPuts      \* bound on the values put

NoColumn == "none"

ASSUME ColumnsAssumption ==
  \A c \in DOMAIN Columns : Columns[c].type \in {"Int", "Double", "Int64"} /\ Columns[c].comps \in Nat \ {0}
ASSUME NamesAssumption   == NoColumn \notin DOMAIN Columns /\ Properties \cap DOMAIN Columns = {}
ASSUME CountsAssumption == Counts \subseteq Nat /\ MaxPuts \in Nat

VARIABLES props,    \* the fields of each property; "own" is _data, "ext" _externalData
          column,   \* the words of each of the frame's columns
          put,
          puts      \* how many values have been put

storageVars == <<props, column, put, puts>>

-----------------------------------------------------------------------------
(* Words *)

Types == {"Void", "Int", "Double", "Int64"}

(* resolveDataTypeSize() *)
TypeSize(t) == CASE t = "Int" -> 1 [] t \in {"Double", "Int64"} -> 2 [] t = "Void" -> 0

(* resolveStride() of what it does not throw at *)
ResolveStride(t, comps, stride) == IF stride = 0 THEN comps * TypeSize(t) ELSE stride

Refused(t, count, comps, stride) ==
  \/ t = "Void" /\ comps > 0
  \/ count > 0 /\ ResolveStride(t, comps, stride) = 0

Zero == <<0, 0>>
Zeros(n) == [w \in 1..n |-> Zero]
WordsOf(v, t) == [part \in 1..TypeSize(t) |-> <<v, part>>]

NoBuffer == <<>>   \* a buffer that is not there has no words

Owns(p)   == p.own # NoBuffer \/ p.ext = NoColumn
Buffer(p) == IF Owns(p) THEN p.own ELSE column[p.ext]

\* The word at a place belongs to a component of an element (both from 0): the accessors
\* index an array of the property's type and do not look at the stride.
Index(p, i, c) == i * p.comps + c
ReadWords(p, i, c) ==
  [part \in 1..TypeSize(p.type) |-> Buffer(p)[Index(p, i, c) * TypeSize(p.type) + part]]
Written(p, i, c, v) ==
  LET size == TypeSize(p.type)
  IN [w \in DOMAIN Buffer(p) |->
        IF (w - 1) \div size = Index(p, i, c) THEN <<v, ((w - 1) % size) + 1>> ELSE Buffer(p)[w]]

Components(p) == {<<i, c>> : i \in 0..p.n - 1, c \in 0..p.comps - 1}

(* PropertyBase(): nothing yet *)
Empty == [type |-> "Void", typeSize |-> 0, n |-> 0, stride |-> 0, comps |-> 0,
          own |-> NoBuffer, ext |-> NoColumn]

\* A column of a frame comes with a value in each component of its rows.
RowsOf(c, rows) ==
  {<<i, k>> : i \in 0..rows - 1, k \in 0..Columns[c].comps - 1}
FrameValue(c, row) == -(row[1] * Columns[c].comps + row[2] + 1)
FrameWords(c, rows) ==
  LET size == TypeSize(Columns[c].type)
  IN [w \in 1..rows * Columns[c].comps * size |-> <<-(((w - 1) \div size) + 1), ((w - 1) % size) + 1>>]

StorageInit ==
  /\ props = [x \in Properties |-> Empty]
  /\ column = [c \in DOMAIN Columns |-> <<>>]
  /\ put = [b \in Properties \cup DOMAIN Columns |-> <<>>]
  /\ puts = 0

FrameLoaded(rows) ==
  /\ column' = [c \in DOMAIN Columns |-> FrameWords(c, rows[c])]
  /\ put' = [b \in DOMAIN put |->
               IF b \in DOMAIN Columns THEN [row \in RowsOf(b, rows[b]) |-> FrameValue(b, row)] ELSE put[b]]
  /\ UNCHANGED <<props, puts>>

\* Where the values that a property shows are kept
HomeOf(x) == IF Owns(props[x]) THEN x ELSE props[x].ext

-----------------------------------------------------------------------------
(* Operations *)

Become(x, p, values) ==
  /\ props' = [props EXCEPT ![x] = p]
  /\ put' = [put EXCEPT ![x] = values]
  /\ UNCHANGED <<column, puts>>

\* A constructor that throws leaves no property.
NewProperty(x, count, t, comps, stride) ==
  /\ ~Refused(t, count, comps, stride)
  /\ LET width == ResolveStride(t, comps, stride)
     IN Become(x, [Empty EXCEPT !.type = t, !.typeSize = TypeSize(t), !.n = count, !.stride = width,
                                !.comps = comps, !.own = Zeros(count * width)], <<>>)

(* PropertyBase(const PropertyBase&): a buffer of its own, whoever owned the other's *)
CopyProperty(x, y) ==
  LET q == props[y]
  IN Become(x, [q EXCEPT !.ext = NoColumn, !.own = SubSeq(Buffer(q), 1, q.n * q.stride)],
            Restrict(put[HomeOf(y)], Components(q) \cap DOMAIN put[HomeOf(y)]))

Least(a, b) == IF a < b THEN a ELSE b

\* mutant: elements are counted where words are meant
KeptByCount(p, newSize) ==
  [w \in 1..newSize * p.stride |-> IF w <= Least(p.n, newSize) THEN p.own[w] ELSE Zero]

KeptWords(p, newSize) ==
  [w \in 1..newSize * p.stride |-> IF w <= Least(p.n, newSize) * p.stride THEN p.own[w] ELSE Zero]

(* resize(): it preserves what is in the property's own buffer, nothing of a frame's *)
Resize(x, newSize, preserveData) ==
  LET p == props[x]
      resized(words) == [p EXCEPT !.n = newSize, !.own = words, !.ext = NoColumn]
  IN \/ newSize = p.n /\ UNCHANGED storageVars
     \/ newSize = 0 /\ p.n # 0 /\ Become(x, resized(NoBuffer), <<>>)
     \/ /\ newSize \notin {0, p.n}
        /\ IF preserveData /\ p.own # NoBuffer
           THEN Become(x, resized(KeptWords(p, newSize)),
                       Restrict(put[x], {row \in DOMAIN put[x] : row[1] < newSize}))
           ELSE Become(x, resized(Zeros(newSize * p.stride)), <<>>)

(* bindExternalData() to a column, for count of its rows *)
Bind(x, c, count) ==
  LET t == Columns[c].type
  IN Become(x, [type |-> t, typeSize |-> TypeSize(t), n |-> count, comps |-> Columns[c].comps,
                stride |-> ResolveStride(t, Columns[c].comps, 0), own |-> NoBuffer, ext |-> c], <<>>)

\* bindExternalData() throws on a zero stride, when it has already taken over the type's size.
BindRefused(x, t, count, comps) ==
  /\ Refused(t, count, comps, 0)
  /\ props' = [props EXCEPT ![x].typeSize = TypeSize(t)]
  /\ UNCHANGED <<column, put, puts>>

(* createPositionProperty(), createIdentifierProperty(): a copy of the frame's column *)
FillFrom(x, c) ==
  LET t == Columns[c].type
      k == Columns[c].comps
  IN Become(x, [Empty EXCEPT !.type = t, !.typeSize = TypeSize(t), !.comps = k,
                             !.n = Len(column[c]) \div (TypeSize(t) * k),
                             !.stride = ResolveStride(t, k, 0), !.own = column[c]], put[c])

(* The setters: through a property that is bound they change the frame *)
Put(x, i, c) ==
  LET p == props[x]
      v == puts + 1
      row == <<i, c>>
  IN /\ puts < MaxPuts /\ row \in Components(p)
     /\ IF Owns(p) THEN props' = [props EXCEPT ![x].own = Written(p, i, c, v)] /\ UNCHANGED column
        ELSE column' = [column EXCEPT ![p.ext] = Written(p, i, c, v)] /\ UNCHANGED props
     /\ put' = [put EXCEPT ![HomeOf(x)] = [r \in DOMAIN @ \cup {row} |-> IF r = row THEN v ELSE @[r]]]
     /\ puts' = v

-----------------------------------------------------------------------------
(* Properties *)

StorageTypeOK ==
  /\ \A x \in Properties :
       /\ props[x].type \in Types /\ props[x].typeSize \in 0..2
       /\ {props[x].n, props[x].stride, props[x].comps} \subseteq Nat
       /\ props[x].ext \in DOMAIN Columns \cup {NoColumn}
  /\ puts \in 0..MaxPuts

(* A property's elements lie inside its buffer, and each component reads as what was put    *)
(* there last, through this property or another one on the same column; what was never put *)
(* reads as zero.  Resizing, copying, binding and refused bindings tear no value, move      *)
(* none to another element, and change none in somebody else's buffer.                      *)
PropertiesReadTheirData ==
  \A x \in Properties :
    LET p == props[x]
        values == put[HomeOf(x)]
    IN /\ p.n * p.stride <= Len(Buffer(p))
       /\ \A row \in Components(p) :
            ReadWords(p, row[1], row[2]) =
              IF row \in DOMAIN values THEN WordsOf(values[row], p.type) ELSE Zeros(TypeSize(p.type))
===============================================================================
