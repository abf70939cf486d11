----------------------------- MODULE MCProveRun -----------------------------
(***************************************************************************)
(* Constants for model checking ProveRun: one or two obligations under one *)
(* root, two statements each may have.                                     *)
(***************************************************************************)
EXTENDS ProveRun

CONSTANTS root, c1, c2, s1, s2

MCOneChild == {c1}
MCTwoChildren == {c1, c2}
MCOrdering == [c \in Child |-> IF c = c1 THEN 0 ELSE 1]

\* Every obligation stated, at the same statement, none with a proof.
MCPlain == {[n \in Node |-> [stmt |-> s1, proof |-> FALSE]]}

\* As above, and also with a proof of the first obligation.
MCMaybeProved ==
    MCPlain \cup {[n \in Node |-> [stmt |-> s1, proof |-> (n = c1)]]}

AllPhases == Phase \ {"down"}
=============================================================================
