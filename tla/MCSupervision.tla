---------------------------- MODULE MCSupervision ----------------------------
(***************************************************************************)
(* Constants for model checking Supervision: two launches that share their  *)
(* workroot and not their graph.                                            *)
(***************************************************************************)
EXTENDS Supervision, TLC

CONSTANTS l1, l2, g1, g2, w1, w2

MCTwo == {l1, l2}
MCGraphOf == l1 :> g1 @@ l2 :> g2
MCWorkOf == l1 :> w1 @@ l2 :> w1
MCGraph == {g1, g2}
MCWork == {w1, w2}
=============================================================================
