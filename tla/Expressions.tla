----------------------------- MODULE Expressions -----------------------------
(***************************************************************************)
(* Volt::Analysis (src/analysis/expression.cpp) as runSelect() calls it: a *)
(* formula is scanned, parsed and evaluated atom by atom.  The columns are *)
(* those of any caller of the library; runSelect() has no string columns.  *)
(*                                                                         *)
(* A double is a fraction here.  What takes or gives other numbers         *)
(* (literals with a point or an exponent, powers, sqrt, floor and the      *)
(* like) is parsed and not evaluated; Frame and CellVolume, numbers of the *)
(* frame as N is, are left out.                                            *)
(***************************************************************************)
EXTENDS ExpressionParser

CONSTANTS Formulas,   \* sequences of characters
          Columns,    \* name -> [type, values]: a component or a string for each atom
          Atoms       \* how many atoms

ASSUME AtomsAssumption == Atoms \in Nat
ASSUME ColumnsAssumption ==
  \A c \in DOMAIN Columns :
    /\ Columns[c].type \in {"number", "string"}
    /\ DOMAIN Columns[c].values = 1..Atoms

VARIABLES formula, phase, tokens, ast, kept

vars == <<formula, phase, tokens, ast, kept>>

-----------------------------------------------------------------------------
(* Values, and the errors that evalNode() throws *)

Number(n, d) == [type |-> "number", num |-> IF d < 0 THEN -n ELSE n, den |-> IF d < 0 THEN -d ELSE d]
Whole(n)     == Number(n, 1)
Truth(b)     == Whole(IF b THEN 1 ELSE 0)
Text(s)      == [type |-> "string", text |-> s]
Error        == [type |-> "error"]

IsNumber(v) == v.type = "number"
Nonzero(v)  == v.num # 0
Less(a, b)  == a.num * b.den < b.num * a.den

\* mutant: a comparison goes through asNumber
SameNumber(a, b) ==
  IF IsNumber(a) /\ IsNumber(b) THEN Truth(a.num * b.den = b.num * a.den) ELSE Error

(* Values of the variant are equal if they hold equal values of one type *)
Same(a, b) ==
  Truth(/\ a.type = b.type
        /\ IF IsNumber(a) THEN a.num * b.den = b.num * a.den ELSE a.text = b.text)

Arithmetic(op, a, b) ==
  CASE op = <<"+">> -> Number(a.num * b.den + b.num * a.den, a.den * b.den)
    [] op = <<"-">> -> Number(a.num * b.den - b.num * a.den, a.den * b.den)
    [] op = <<"*">> -> Number(a.num * b.num, a.den * b.den)
    [] op = <<"/">> -> IF Nonzero(b) THEN Number(a.num * b.den, a.den * b.num) ELSE Error
    [] op = <<"<">> -> Truth(Less(a, b))
    [] op = <<">">> -> Truth(Less(b, a))
    [] op = <<"<", "=">> -> Truth(~Less(b, a))
    [] op = <<">", "=">> -> Truth(~Less(a, b))

Smallest(args) == CHOOSE a \in ToSet(args) : \A b \in ToSet(args) : ~Less(b, a)
Largest(args)  == CHOOSE a \in ToSet(args) : \A b \in ToSet(args) : ~Less(a, b)

(* The functions whose values are no fractions, or that round *)
Inexact ==
  {<<"s", "q", "r", "t">>, <<"s", "i", "n">>, <<"c", "o", "s">>, <<"t", "a", "n">>, <<"e", "x", "p">>, <<"l", "o", "g">>,
   <<"f", "l", "o", "o", "r">>, <<"c", "e", "i", "l">>, <<"r", "o", "u", "n", "d">>, <<"l", "e", "n", "g", "t", "h">>}

Arity(name, n) ==
  CASE name = <<"a", "b", "s">> -> n = 1
    [] name \in {<<"m", "i", "n">>, <<"m", "a", "x">>} -> n >= 1
    [] name \in {<<"c", "l", "a", "m", "p">>, <<"i", "f">>} -> n = 3
    [] OTHER -> FALSE

(* applyBuiltin(); an unknown function is an error too *)
Applied(name, args) ==
  IF ~Arity(name, Len(args)) THEN Error
  ELSE CASE name = <<"a", "b", "s">> -> Largest(<<args[1], Number(-args[1].num, args[1].den)>>)
         [] name = <<"m", "i", "n">> -> Smallest(args)
         [] name = <<"m", "a", "x">> -> Largest(args)
         [] name = <<"c", "l", "a", "m", "p">> ->
              Smallest(<<Largest(<<args[1], args[2]>>), args[3]>>)
         [] name = <<"i", "f">> -> IF Nonzero(args[1]) THEN args[2] ELSE args[3]

Components == << <<"X">>, <<"Y">>, <<"Z">> >>

ComponentCount(c) == IF Columns[c].type = "string" THEN 1 ELSE Len(Columns[c].values[1])

ParticleIndex == <<"P", "a", "r", "t", "i", "c", "l", "e", "I", "n", "d", "e", "x">>
Globals == {ParticleIndex, <<"N">>}

(* evalVariable(), evalMember(): the names of the frame hide columns *)
Variable(name, atom) ==
  CASE name = ParticleIndex -> Whole(atom - 1)
    [] name = <<"N">> -> Whole(Atoms)
    [] name \notin DOMAIN Columns \cup Globals -> Error
    [] OTHER ->
         IF Columns[name].type = "string" THEN Text(Columns[name].values[atom])
         ELSE IF ComponentCount(name) # 1 THEN Error
         ELSE Whole(Columns[name].values[atom][1])

Member(name, component, atom) ==
  LET k == SelectInSeq(Components, LAMBDA c : c = component)
  IN IF k = 0 \/ name \notin DOMAIN Columns THEN Error
     ELSE IF k > ComponentCount(name) \/ Columns[name].type = "string" THEN Error
     ELSE Whole(Columns[name].values[atom][k])

\* mutant: || always looks at its right operand
DecidesSwapped(op, left) == op = <<"&", "&">> /\ ~Nonzero(left)

(* The operand on the left decides, and the one on the right is not evaluated *)
Decides(op, left) ==
  \/ op = <<"&", "&">> /\ ~Nonzero(left)
  \/ op = <<"|", "|">> /\ Nonzero(left)

RECURSIVE Eval(_, _)
Eval(node, atom) ==
  LET child == node.children
      left  == Eval(child[1], atom)
      right == Eval(child[2], atom)
      args  == [i \in DOMAIN child |-> Eval(child[i], atom)]
  IN CASE node.kind = "number"   -> Whole(Natural(node.value))
       [] node.kind = "string"   -> Text(node.value)
       [] node.kind = "variable" -> Variable(node.value, atom)
       [] node.kind = "member"   -> Member(node.value, child[1].value, atom)
       [] node.kind = "unary" ->
            IF ~IsNumber(left) THEN Error
            ELSE IF node.value = <<"-">> THEN Number(-left.num, left.den) ELSE Truth(~Nonzero(left))
       [] node.kind = "call" ->
            IF \A i \in DOMAIN args : IsNumber(args[i]) THEN Applied(node.value, args) ELSE Error
       [] node.kind = "binary" ->
            IF node.value \in {<<"&", "&">>, <<"|", "|">>}
            THEN IF ~IsNumber(left) THEN Error
                 ELSE IF Decides(node.value, left) THEN Truth(Nonzero(left))
                 ELSE IF IsNumber(right) THEN Truth(Nonzero(right)) ELSE Error
            ELSE IF left.type = "error" \/ right.type = "error" THEN Error
            ELSE IF node.value = <<"=", "=">> THEN Same(left, right)
            ELSE IF node.value = <<"!", "=">>
                 THEN IF Same(left, right) = Error THEN Error ELSE Truth(~Nonzero(Same(left, right)))
            ELSE IF IsNumber(left) /\ IsNumber(right) THEN Arithmetic(node.value, left, right)
            ELSE Error

RECURSIVE Evaluable(_)
Evaluable(node) ==
  /\ node.kind = "number" => ToSet(node.value) \subseteq Digits
  /\ node.kind = "call" => node.value \notin Inexact
  /\ node.kind = "binary" => node.value # <<"^">>
  /\ \A i \in DOMAIN node.children : Evaluable(node.children[i])

-----------------------------------------------------------------------------

Init ==
  /\ formula \in Formulas
  /\ phase = "scan" /\ tokens = <<>> /\ ast = Leaf("none", <<>>) /\ kept = <<>>

(* tokenize() *)
Scan ==
  /\ phase = "scan"
  /\ tokens' = Tokens(formula, 1)
  /\ phase' = IF Last(tokens').type = "error" THEN "failed" ELSE "parse"
  /\ UNCHANGED <<formula, ast, kept>>

(* Parser::parse(); only an ExpressionError is caught *)
Parse ==
  /\ phase = "parse"
  /\ ast' = Parsed(tokens).node
  /\ phase' = CASE ast'.kind = "error" -> "failed"
                [] ast'.kind = "stod"  -> "aborted"
                [] OTHER -> IF Evaluable(ast') THEN "evaluate" ELSE "parsed"
  /\ UNCHANGED <<formula, tokens, kept>>

(* evaluateSelection(): the next atom *)
EvaluateAtom ==
  /\ phase = "evaluate" /\ Len(kept) < Atoms
  /\ LET value == Eval(ast, Len(kept) + 1)
     IN IF IsNumber(value)
        THEN kept' = Append(kept, Nonzero(value)) /\ UNCHANGED phase
        ELSE phase' = "failed" /\ kept' = <<>>
  /\ UNCHANGED <<formula, tokens, ast>>

Select ==
  /\ phase = "evaluate" /\ Len(kept) = Atoms
  /\ phase' = "selected"
  /\ UNCHANGED <<formula, tokens, ast, kept>>

Next == Scan \/ Parse \/ EvaluateAtom \/ Select

Spec == Init /\ [][Next]_vars

-----------------------------------------------------------------------------
(* The lexical grammar *)

All(i, j, S) == \A n \in i..j : formula[n] \in S

IsMantissa(i, j) ==
  /\ i <= j
  /\ \/ All(i, j, Digits)
     \/ i < j /\ \E dot \in i..j :
          formula[dot] = "." /\ All(i, dot - 1, Digits) /\ All(dot + 1, j, Digits)

IsExponent(i, j) ==
  \/ i <= j /\ All(i, j, Digits)
  \/ i < j /\ formula[i] \in Signs /\ All(i + 1, j, Digits)

IsLiteral(i, j) ==
  \/ IsMantissa(i, j)
  \/ \E e \in i..j : /\ formula[e] \in {"e", "E"}
                     /\ IsMantissa(i, e - 1) /\ IsExponent(e + 1, j)

(* Backslashes in front of place n, in a string whose quote is at i *)
Backslashes(i, n) ==
  Cardinality({m \in (i + 1)..(n - 1) : All(m, n - 1, {Backslash})})

IsString(i, j) ==
  /\ i < j /\ formula[i] \in Quotes
  /\ {n \in (i + 1)..j : formula[n] = formula[i] /\ Backslashes(i, n) % 2 = 0} = {j}

IsLexeme(type, i, j) ==
  CASE type = "number"     -> IsLiteral(i, j)
    [] type = "string"     -> IsString(i, j)
    [] type = "identifier" -> formula[i] \in Letters /\ All(i, j, Letters \cup Digits)
    [] type = "operator"   -> \/ i = j /\ formula[i] \in Singles
                              \/ j = i + 1 /\ <<formula[i], formula[j]>> \in Doubles
    [] type = "dot"        -> i = j /\ formula[i] = "."
    [] type = "lparen"     -> i = j /\ formula[i] = "("
    [] type = "rparen"     -> i = j /\ formula[i] = ")"
    [] type = "comma"      -> i = j /\ formula[i] = ","

LexemeTypes == {"number", "string", "identifier", "operator", "dot", "lparen", "rparen", "comma"}

LexemesAt(i) ==
  {<<type, j>> \in LexemeTypes \X (i..Len(formula)) : IsLexeme(type, i, j)}

Longest(i) == {t \in LexemesAt(i) : \A u \in LexemesAt(i) : u[2] <= t[2]}

(* A number may not be followed by the beginning of an exponent *)
Malformed(i) ==
  \E j \in i..Len(formula) :
    IsMantissa(i, j) /\ At(formula, j + 1) \in {"e", "E"} /\ ~\E n \in i..Len(formula) : n > j /\ IsLiteral(i, n)

NextStart(k) == IF k = 1 THEN 1 ELSE tokens[k - 1].last + 1

-----------------------------------------------------------------------------
(* The grammar of formulas: trees of tokens i..j, each with the level of its root.  The  *)
(* operand of a unary operator has none, those of a binary operator bind more tightly    *)
(* than it, except that a power may be the exponent of a power, and other operators the  *)
(* left operand of one of their own level.                                               *)

Tight == 7
Type(i) == tokens[i].type

RECURSIVE Trees(_, _), ArgumentLists(_, _)

Leaves(i) ==
  CASE Type(i) = "number" -> {<<Tight, Leaf("number", tokens[i].value)>>}
    [] Type(i) = "string" -> {<<Tight, Leaf("string", tokens[i].value)>>}
    [] Type(i) = "identifier" -> {<<Tight, NameLeaf(tokens[i].value)>>}
    [] OTHER -> {}

Bracketed(i, j) ==
  IF Type(i) = "lparen" /\ Type(j) = "rparen" /\ i + 1 < j
  THEN {<<Tight, t[2]>> : t \in Trees(i + 1, j - 1)} ELSE {}

Calls(i, j) ==
  IF Type(i) = "identifier" /\ i + 1 < j /\ Type(i + 1) = "lparen" /\ Type(j) = "rparen"
  THEN {<<Tight, Node("call", tokens[i].value, args)>> : args \in ArgumentLists(i + 2, j - 1)} ELSE {}

Members(i, j) ==
  IF j = i + 2 /\ Type(i) = "identifier" /\ Type(i + 1) = "dot" /\ Type(j) = "identifier"
  THEN {<<Tight, Node("member", tokens[i].value, <<Leaf("component", tokens[j].value)>>)>>} ELSE {}

Unaries(i, j) ==
  IF i < j /\ Type(i) = "operator" /\ tokens[i].value \in {<<"-">>, <<"!">>}
  THEN {<<Tight, Node("unary", tokens[i].value, <<t[2]>>)>> : t \in {u \in Trees(i + 1, j) : u[1] = Tight}}
  ELSE {}

Binaries(i, j) ==
  UNION {LET op == tokens[k].value
             level == Precedence(op)
             lefts == {t \in Trees(i, k - 1) : t[1] > level \/ (t[1] = level /\ op # <<"^">>)}
             rights == {t \in Trees(k + 1, j) : t[1] > level \/ (t[1] = level /\ op = <<"^">>)}
         IN {<<level, Node("binary", op, <<l[2], r[2]>>)>> : l \in lefts, r \in rights} :
           k \in {n \in (i + 1)..(j - 1) : Type(n) = "operator" /\ Precedence(tokens[n].value) > 0}}

Trees(i, j) ==
  IF i > j THEN {}
  ELSE (IF i = j THEN Leaves(i) ELSE {})
         \cup Bracketed(i, j) \cup Calls(i, j) \cup Members(i, j) \cup Unaries(i, j) \cup Binaries(i, j)

ArgumentLists(i, j) ==
  IF i > j THEN {<<>>}
  ELSE {<<t[2]>> : t \in Trees(i, j)}
         \cup UNION {{<<t[2]>> \o rest : t \in Trees(i, k - 1), rest \in ArgumentLists(k + 1, j) \ {<<>>}} :
                       k \in {n \in (i + 1)..(j - 1) : Type(n) = "comma"}}

-----------------------------------------------------------------------------
(* Types of formulas *)

RECURSIVE TypeOf(_)
TypeOf(node) ==
  LET child == node.children
      NumbersOnly == \A i \in DOMAIN child : TypeOf(child[i]) = "number"
      Given(ok) == IF ok THEN "number" ELSE "bad"
  IN CASE node.kind \in {"number", "string"} -> node.kind
       [] node.kind = "variable" ->
            IF node.value \in Globals THEN "number"
            ELSE IF node.value \notin DOMAIN Columns THEN "bad"
            ELSE IF Columns[node.value].type = "string" THEN "string"
            ELSE Given(ComponentCount(node.value) = 1)
       [] node.kind = "member" ->
            Given(/\ node.value \in DOMAIN Columns
                  /\ Columns[node.value].type = "number"
                  /\ \E k \in 1..ComponentCount(node.value) : k <= 3 /\ Components[k] = child[1].value)
       [] node.kind = "call" -> Given(NumbersOnly /\ Arity(node.value, Len(child)))
       [] node.kind = "unary" -> Given(NumbersOnly)
       [] node.kind = "binary" ->
            IF node.value \in {<<"=", "=">>, <<"!", "=">>}
            THEN Given(\A i \in DOMAIN child : TypeOf(child[i]) # "bad")
            ELSE Given(NumbersOnly)

RECURSIVE Has(_, _)
Has(node, ops) ==
  \/ node.kind = "binary" /\ node.value \in ops
  \/ \E i \in DOMAIN node.children : Has(node.children[i], ops)

-----------------------------------------------------------------------------
(* Properties *)

(* The tokens of a formula are the longest ones that its characters allow, one after the *)
(* other with nothing but blanks between them, and a formula is refused exactly where no *)
(* token begins or a number breaks off in its exponent.                                  *)
ScanIsLongestMatch ==
  phase # "scan" =>
    \A k \in DOMAIN tokens :
      LET first == tokens[k].first
      IN /\ NextStart(k) <= first /\ All(NextStart(k), first - 1, {" "})
         /\ CASE tokens[k].type = "eof" -> first = Len(formula) + 1
              [] tokens[k].type = "error" -> formula[first] # " " /\ (Longest(first) = {} \/ Malformed(first))
              [] OTHER -> /\ Longest(first) = {<<tokens[k].type, tokens[k].last>>}
                          /\ ~Malformed(first)

(* The parser accepts exactly the formulas that have a tree, and gives the one that      *)
(* precedence and grouping leave; it never goes past the end of the tokens.              *)
ParsesGrammar ==
  (phase \in {"parsed", "evaluate", "selected"} \/ (phase = "failed" /\ ast.kind = "error")) =>
    {t[2] : t \in Trees(1, Len(tokens) - 1)} = IF ast.kind = "error" THEN {} ELSE {ast}

(* A formula whose operands have the types their operators ask for selects, unless it    *)
(* divides; one that does not and has nothing to skip fails, and selects no atom at all. *)
WellTypedSelects ==
  /\ ast.kind \notin {"none", "error"} /\ phase = "failed" =>
       TypeOf(ast) # "number" \/ Has(ast, {<<"/">>})
  /\ phase = "selected" =>
       /\ TypeOf(ast) = "number" \/ Has(ast, {<<"&", "&">>, <<"|", "|">>})
       /\ Len(kept) = Atoms

(* A negated disjunction selects, and fails, like the conjunction of the negations: both *)
(* skip their right operand for the same atoms, as a guard against a division needs.     *)
Not(node) == Node("unary", <<"!">>, <<node>>)
DeMorgan ==
  phase = "evaluate" /\ ast.kind = "unary" /\ ast.value = <<"!">>
    /\ ast.children[1].kind = "binary" /\ ast.children[1].value = <<"|", "|">> =>
    LET or == ast.children[1].children
        and == Node("binary", <<"&", "&">>, <<Not(or[1]), Not(or[2])>>)
    IN \A atom \in 1..Atoms : Eval(ast, atom) = Eval(and, atom)
===============================================================================
