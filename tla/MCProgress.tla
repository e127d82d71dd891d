------------------------------ MODULE MCProgress ------------------------------
(***************************************************************************)
(* Instances of ProgressReporter: five items in steps of 34% (marks 2 and  *)
(* 4, then never), twelve in steps of 10%, and four in steps of 25%        *)
(* (marks 1, 2, 3, then never).                                            *)
(***************************************************************************)
EXTENDS ProgressReporter

CONSTANTS t1, t2, t3   \* model values

MCOne == {t1}
MCTwo == {t1, t2}
MCThree == {t1, t2, t3}
===============================================================================
