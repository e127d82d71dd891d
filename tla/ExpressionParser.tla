--------------------------- MODULE ExpressionParser ---------------------------
(***************************************************************************)
(* tokenize() and Parser (src/analysis/expression.cpp): a formula is a     *)
(* sequence of characters, which become tokens with the place they came    *)
(* from, which become a tree.                                              *)
(***************************************************************************)
EXTENDS Integers, SequencesExt

-----------------------------------------------------------------------------
(* tokenize() *)

Digits        == {"0", "1", "2", "3", "4", "5", "6", "7", "8", "9"}
Letters       == {"a", "b", "c", "d", "e", "f", "g", "h", "i", "j", "k", "l", "m", "n", "o", "p", "q", "r",
                  "s", "t", "u", "v", "w", "x", "y", "z", "A", "B", "C", "D", "E", "F", "G", "H", "I", "J",
                  "K", "L", "M", "N", "O", "P", "Q", "R", "S", "T", "U", "V", "W", "X", "Y", "Z", "_"}
Signs         == {"+", "-"}
Quotes        == {"'", "\""}
Backslash     == "\\"
OperatorChars == {"+", "-", "*", "/", "^", "=", "!", "<", ">", "&", "|"}
Singles       == OperatorChars \ {"=", "&", "|"}
Doubles       == {<<"=", "=">>, <<"!", "=">>, <<"<", "=">>, <<">", "=">>, <<"&", "&">>, <<"|", "|">>}
Punctuation   == [c \in {"(", ")", ","} |->
                    CASE c = "(" -> "lparen" [] c = ")" -> "rparen" [] c = "," -> "comma"]

At(text, i) == IF i \in DOMAIN text THEN text[i] ELSE "end"

(* The first place from i on that holds no character of S *)
Past(text, i, S) ==
  CHOOSE j \in i..(Len(text) + 1) :
    At(text, j) \notin S /\ \A n \in i..(j - 1) : text[n] \in S

\* mutant: an exponent has no sign
NumberEndUnsigned(text, i) ==
  LET whole    == Past(text, i, Digits)
      mantissa == IF At(text, whole) = "." THEN Past(text, whole + 1, Digits) ELSE whole
  IN IF At(text, mantissa) \notin {"e", "E"} THEN mantissa - 1
     ELSE IF At(text, mantissa + 1) \in Digits THEN Past(text, mantissa + 1, Digits) - 1 ELSE 0

(* The last place of the literal at i, 0 for a malformed one *)
NumberEnd(text, i) ==
  LET whole    == Past(text, i, Digits)
      mantissa == IF At(text, whole) = "." THEN Past(text, whole + 1, Digits) ELSE whole
      exponent == IF At(text, mantissa + 1) \in Signs THEN mantissa + 2 ELSE mantissa + 1
  IN IF At(text, mantissa) \notin {"e", "E"} THEN mantissa - 1
     ELSE IF At(text, exponent) \in Digits THEN Past(text, exponent, Digits) - 1 ELSE 0

RECURSIVE QuoteEnd(_, _, _)
QuoteEnd(text, i, quote) ==
  CASE At(text, i) = "end" -> 0
    [] At(text, i) = quote -> i
    [] At(text, i) = Backslash -> QuoteEnd(text, IF i < Len(text) THEN i + 2 ELSE i + 1, quote)
    [] OTHER -> QuoteEnd(text, i + 1, quote)

RECURSIVE Unescaped(_)
Unescaped(s) ==
  IF s = <<>> THEN <<>>
  ELSE LET skip == IF s[1] = Backslash THEN 2 ELSE 1
       IN <<s[skip]>> \o Unescaped(SubSeq(s, skip + 1, Len(s)))

TypeAt(text, i) ==
  LET c == text[i]
      startsNumber == c \in Digits \/ (c = "." /\ At(text, i + 1) \in Digits)
  IN CASE c \in DOMAIN Punctuation -> Punctuation[c]
       [] startsNumber -> "number"
       [] c = "." /\ ~startsNumber -> "dot"
       [] c \in Quotes -> "string"
       [] c \in Letters -> "identifier"
       [] c \in OperatorChars -> "operator"
       [] OTHER -> "none"

EndAt(text, i) ==
  CASE TypeAt(text, i) = "number" -> NumberEnd(text, i)
    [] TypeAt(text, i) = "string" -> QuoteEnd(text, i + 1, text[i])
    [] TypeAt(text, i) = "identifier" -> Past(text, i, Letters \cup Digits) - 1
    [] TypeAt(text, i) = "operator" ->
         IF <<text[i], At(text, i + 1)>> \in Doubles THEN i + 1
         ELSE IF text[i] \in Singles THEN i ELSE 0
    [] TypeAt(text, i) = "none" -> 0
    [] OTHER -> i

Token(type, value, first, last) == [type |-> type, value |-> value, first |-> first, last |-> last]

(* The tokens from place i on; the last one is an eof, or an error where it was found *)
RECURSIVE Tokens(_, _)
Tokens(text, i) ==
  IF i > Len(text) THEN <<Token("eof", <<>>, i, i)>>
  ELSE IF text[i] = " " THEN Tokens(text, i + 1)
  ELSE LET last  == EndAt(text, i)
           value == IF text[i] \in Quotes THEN Unescaped(SubSeq(text, i + 1, last - 1))
                    ELSE SubSeq(text, i, last)
       IN IF last = 0 THEN <<Token("error", <<>>, i, i)>>
          ELSE <<Token(TypeAt(text, i), value, i, last)>> \o Tokens(text, last + 1)

-----------------------------------------------------------------------------
(* Parser *)

Node(kind, value, children) == [kind |-> kind, value |-> value, children |-> children]
Leaf(kind, value) == Node(kind, value, <<>>)

(* A parsing function answers with a node and the place of the next token; a node may    *)
(* be an error, or the exception of std::stod, which nobody catches.                     *)
Answer(node, pos) == [node |-> node, pos |-> pos]
Stopped(answer) == answer.node.kind \in {"error", "stod"}
Expected(pos) == Answer(Leaf("error", <<>>), pos)

Precedence(op) ==
  CASE op = <<"|", "|">> -> 1
    [] op = <<"&", "&">> -> 2
    [] op \in {<<"=", "=">>, <<"!", "=">>, <<"<">>, <<">">>, <<"<", "=">>, <<">", "=">>} -> 3
    [] op \in {<<"+">>, <<"-">>} -> 4
    [] op \in {<<"*">>, <<"/">>} -> 5
    [] op = <<"^">> -> 6
    [] OTHER -> -1

\* mutant: every operator groups to the left
NextMinLeft(op) == Precedence(op) + 1

(* The weakest operator that the right operand of op may contain *)
NextMin(op) == IF op = <<"^">> THEN Precedence(op) ELSE Precedence(op) + 1

Is(tokens, pos, type) == tokens[pos].type = type

(* std::stod throws for a literal that does not fit a double; told by the exponent here, *)
(* so the limit is that of mantissas of one digit                                        *)
MaxExponent == 308
DigitValue == [d \in Digits |-> CHOOSE n \in 0..9 : ToString(n) = d]
Natural(s) == FoldLeft(LAMBDA n, d : 10 * n + DigitValue[d], 0, s)
ExponentAt(s) == SelectInSeq(s, LAMBDA c : c \in {"e", "E"})
ExponentSize(s) ==
  IF ExponentAt(s) = 0 THEN 0
  ELSE Natural(SelectSeq(SubSeq(s, ExponentAt(s), Len(s)), LAMBDA c : c \in Digits))
Zeros(s) == \A n \in 1..(ExponentAt(s) - 1) : s[n] \in {"0", "."}
Literal(s) == IF ExponentSize(s) > MaxExponent /\ ~Zeros(s) THEN Leaf("stod", s) ELSE Leaf("number", s)

RECURSIVE ParseExpression(_, _, _), Climb(_, _, _), ParseUnary(_, _), ParsePrimary(_, _), Arguments(_, _, _)

(* parseExpression(): an operand, and operators while they bind at least as tightly *)
ParseExpression(tokens, pos, min) == Climb(tokens, ParseUnary(tokens, pos), min)

Climb(tokens, left, min) ==
  LET op == tokens[left.pos].value
      goesOn == /\ ~Stopped(left) /\ Is(tokens, left.pos, "operator")
                /\ Precedence(op) >= 0 /\ Precedence(op) >= min
      right == ParseExpression(tokens, left.pos + 1, NextMin(op))
  IN IF ~goesOn THEN left
     ELSE IF Stopped(right) THEN right
     ELSE Climb(tokens, Answer(Node("binary", op, <<left.node, right.node>>), right.pos), min)

ParseUnary(tokens, pos) ==
  LET operand == ParseUnary(tokens, pos + 1)
  IN IF ~(Is(tokens, pos, "operator") /\ tokens[pos].value \in {<<"-">>, <<"!">>})
     THEN ParsePrimary(tokens, pos)
     ELSE IF Stopped(operand) THEN operand
     ELSE Answer(Node("unary", tokens[pos].value, <<operand.node>>), operand.pos)

(* What follows a name that is neither called nor taken a component of *)
NameLeaf(name) ==
  CASE name = <<"t", "r", "u", "e">> -> Leaf("number", <<"1">>)
    [] name = <<"f", "a", "l", "s", "e">> -> Leaf("number", <<"0">>)
    [] OTHER -> Leaf("variable", name)

ParsePrimary(tokens, pos) ==
  LET value == tokens[pos].value
      inner == ParseExpression(tokens, pos + 1, 0)
  IN CASE Is(tokens, pos, "number") -> Answer(Literal(value), pos + 1)
       [] Is(tokens, pos, "string") -> Answer(Leaf("string", value), pos + 1)
       [] Is(tokens, pos, "lparen") ->
            IF Stopped(inner) THEN inner
            ELSE IF Is(tokens, inner.pos, "rparen") THEN Answer(inner.node, inner.pos + 1)
            ELSE Expected(inner.pos)
       [] Is(tokens, pos, "identifier") ->
            CASE Is(tokens, pos + 1, "lparen") ->
                   IF Is(tokens, pos + 2, "rparen") THEN Answer(Node("call", value, <<>>), pos + 3)
                   ELSE Arguments(tokens, pos + 1, Node("call", value, <<>>))
              [] Is(tokens, pos + 1, "dot") ->
                   IF Is(tokens, pos + 2, "identifier")
                   THEN Answer(Node("member", value, <<Leaf("component", tokens[pos + 2].value)>>), pos + 3)
                   ELSE Expected(pos + 2)
              [] OTHER -> Answer(NameLeaf(value), pos + 1)
       [] OTHER -> Expected(pos)

(* The arguments of "call" that follow the parenthesis or comma at pos *)
Arguments(tokens, pos, call) ==
  LET argument == ParseExpression(tokens, pos + 1, 0)
      longer   == [call EXCEPT !.children = Append(@, argument.node)]
  IN IF Stopped(argument) THEN argument
     ELSE CASE Is(tokens, argument.pos, "comma")  -> Arguments(tokens, argument.pos, longer)
            [] Is(tokens, argument.pos, "rparen") -> Answer(longer, argument.pos + 1)
            [] OTHER -> Expected(argument.pos)

(* Parser::parse(): nothing may follow the expression *)
Parsed(tokens) ==
  LET answer == ParseExpression(tokens, 1, 0)
  IN IF Stopped(answer) \/ Is(tokens, answer.pos, "eof") THEN answer ELSE Expected(answer.pos)
===============================================================================
