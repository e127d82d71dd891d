-------------------------------- MODULE MCDump --------------------------------
(***************************************************************************)
(* Three atoms with identifiers that are not their order, one property of  *)
(* their own, and tables that bring it again, a new one, or one that no    *)
(* DataType holds; with rows for atoms that do not exist, NULL identifiers *)
(* and identifiers that come twice.                                        *)
(***************************************************************************)
EXTENDS DumpTransform

MCIdOf  == <<2, 3, 1>>
MCOrder == <<"id", "x", "q">>
MCNames == {"q", "c", "s"}
MCTables ==
  [hasId : {TRUE}, ids : {<<>>, <<1>>, <<3, 2>>, <<9, 3, 1>>, <<0, 2>>, <<2, 2>>, <<0, 1, 0>>},
   names : {<<"id", "c", "s">>, <<"x", "q", "id", "c">>, <<"id">>}]
    \cup [hasId : {FALSE}, ids : {<<1>>}, names : {<<"c">>}]
==============================================================================
