----------------------------- MODULE MCExpressions -----------------------------
(***************************************************************************)
(* Short texts of characters that meet in numbers, strings and operators;  *)
(* formulas of a few words; and negated disjunctions of conditions on a    *)
(* number, a string and a vector.                                          *)
(***************************************************************************)
EXTENDS Expressions

MCColumns ==
  << "a" >> :> [type |-> "number", values |-> << <<0>>, <<2>> >>]
    @@ << "s" >> :> [type |-> "string", values |-> << <<"x">>, <<"a">> >>]
    @@ << "v" >> :> [type |-> "number", values |-> << <<1, 0>>, <<0, 3>> >>]

Chars == {"1", "e", "-", ".", "'", "\\", "a", "="}
Texts == UNION {[1..n -> Chars] : n \in 0..4}
           \cup {<<"1", "e", "9", "9", "9">>, <<"0", "e", "9", "9", "9">>}

(* Words with a blank after each *)
Spelled(words) == FlattenSeq([i \in DOMAIN words |-> words[i] \o <<" ">>])
Words == {<<"1">>, <<"v">>, <<".">>, <<"-">>, <<"^">>, <<"*">>, <<"(">>, <<")">>, <<",">>}
Some  == {<<"1">>, <<"-">>, <<"^">>, <<"*">>, <<"=", "=">>, <<"|", "|">>}
Lists == UNION {[1..n -> Words] : n \in 1..4} \cup [1..5 -> Some] \cup [1..6 -> Some \ {<<"|", "|">>}]

Conditions ==
  {<< <<"a">> >>, << ParticleIndex >>, << <<"a">>, <<"(">>, <<"1">>, <<")">> >>, << <<"s">> >>, << <<"v">> >>, << <<"c">> >>, << <<"t", "r", "u", "e">> >>,
   << <<"v">>, <<".">>, <<"X">> >>, << <<"v">>, <<".">>, <<"Z">> >>, << <<"s">>, <<".">>, <<"X">> >>,
   << <<"s">>, <<"=", "=">>, <<"'", "x", "'">> >>, << <<"a">>, <<"=", "=">>, <<"s">> >>,
   << <<"s">>, <<"!", "=">>, <<"s">> >>, << <<"s">>, <<"<">>, <<"1">> >>,
   << <<"1">>, <<"/">>, <<"a">>, <<">", "=">>, <<"1">> >>,
   << <<"a">>, <<"/">>, <<"2">>, <<"-">>, <<"1">> >>, << <<"a">>, <<"+">>, <<"-">>, <<"N">> >>,
   << <<"i", "f">>, <<"(">>, <<"a">>, <<",">>, <<"1">>, <<"/">>, <<"a">>, <<",">>, <<"1">>, <<")">> >>,
   << <<"m", "a", "x">>, <<"(">>, <<"a">>, <<",">>, <<"1">>, <<")">>, <<"<", "=">>, <<"1">> >>,
   << <<"m", "i", "n">>, <<"(">>, <<")">> >>, << <<"a", "b", "s">>, <<"(">>, <<"-">>, <<"a">>, <<")">> >>,
   << <<"c", "l", "a", "m", "p">>, <<"(">>, <<"a">>, <<",">>, <<"0">>, <<",">>, <<"1">>, <<")">>, <<">">>, <<"0">> >>}
Negated(p, q) == << <<"!">>, <<"(">> >> \o p \o << <<"|", "|">> >> \o q \o << <<")">> >>
Joined(p, q)  == p \o << <<"&", "&">> >> \o q

MCFormulas ==
  Texts \cup {Spelled(w) : w \in Lists}
    \cup {Spelled(Negated(p, q)) : p, q \in Conditions} \cup {Spelled(Joined(p, q)) : p, q \in Conditions}
===============================================================================
