--------------------------- MODULE MCPetanquePool ---------------------------
(***************************************************************************)
(* Constants for model checking PetanquePool: two sessions of one file.     *)
(***************************************************************************)
EXTENDS PetanquePool

CONSTANTS s1, s2, f1

MCTwo == {s1, s2}
MCSameFile == [s \in Session |-> f1]
=============================================================================
