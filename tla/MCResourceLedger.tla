-------------------------- MODULE MCResourceLedger --------------------------
(***************************************************************************)
(* Constants for model checking ResourceLedger: names are interchangeable;  *)
(* one proposition holds an evar another is an instance of.                 *)
(***************************************************************************)
EXTENDS ResourceLedger, TLC

MCInstance == {<<"E", "P">>}
MCSymmetry == Permutations(Name)
=============================================================================
