------------------------------ MODULE MCClusters ------------------------------
(***************************************************************************)
(* Three transitions, two of them equally far and two to the same cluster. *)
(***************************************************************************)
EXTENDS ClusterTransitions

CONSTANTS x, y, z, a, b   \* model values

MCDistance == [e \in {x, y, z} |-> IF e = z THEN 2 ELSE 1]
MCTarget   == [e \in {x, y, z} |-> IF e = x THEN a ELSE b]
===============================================================================
