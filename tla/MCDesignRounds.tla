--------------------------- MODULE MCDesignRounds ---------------------------
(***************************************************************************)
(* Constants for model checking DesignRounds: the first obligation can be   *)
(* stated in two ways.                                                      *)
(***************************************************************************)
EXTENDS DesignRounds

CONSTANTS c1, c2

MCOrdering == [c \in Child |-> IF c = c1 THEN 1 ELSE 2]
MCWording == [c \in Child |-> IF c = c1 THEN {1, 2} ELSE {1}]
=============================================================================
