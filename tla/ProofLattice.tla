---------------------------- MODULE ProofLattice ----------------------------
(***************************************************************************)
(* The proof-status lattice of the obligation graph: which status a node   *)
(* may be written with, given the one it has.  Every write of a status in  *)
(* the program goes through transition(), so every module that writes one  *)
(* takes its guard from MayMove.                                           *)
(***************************************************************************)
ProofStatus ==
    {"open", "claimed", "qed", "gated", "integrated", "contested", "stuck", "attic"}

ProvedStatus == {"gated", "integrated"}

\* Moves that need no further qualification.
Moves ==
    ({"open"}       \X {"claimed"}) \cup
    ({"claimed"}    \X {"qed", "gated", "stuck", "contested", "open"}) \cup
    ({"qed"}        \X {"gated", "stuck", "open"}) \cup
    ({"gated"}      \X {"integrated", "open"}) \cup
    ({"integrated"} \X {"open"}) \cup
    ({"stuck"}      \X {"open"}) \cup
    ({"attic"}      \X {"open"})

\* Moves only a write in the human role may make: adjudication and a verdict.
HumanMoves == {<<"contested", "open">>, <<"stuck", "contested">>}

\* Leaving a proved state: the epoch is bumped and the body cleared.
Invalidates(old, new) == old \in ProvedStatus /\ new = "open"

\* transition() returns; where this is FALSE it raises InvalidTransition.
MayMove(old, new, human) ==
    \/ new = old
    \/ new = "attic" /\ old \notin ProvedStatus
    \/ <<old, new>> \in Moves
    \/ human /\ <<old, new>> \in HumanMoves
=============================================================================
