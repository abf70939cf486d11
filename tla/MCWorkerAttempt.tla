--------------------------- MODULE MCWorkerAttempt ---------------------------
(***************************************************************************)
(* Constants for model checking WorkerAttempt: what its two workers may     *)
(* leave behind and which of them is sandboxed.                             *)
(***************************************************************************)
EXTENDS WorkerAttempt

MCLeaves == <<{"asks", "contested", "cheat", "axiom", "good", "fence"},
              {"proof.v"}>>

\* The second attempt is made with --sandbox, the first without.
MCSandboxed == {2}
=============================================================================
