--------------------------- MODULE StatementLedger ---------------------------
(***************************************************************************)
(* What the obligation graph promises whoever reads it, whatever processes  *)
(* come, go and die over it: a name has one statement at a time, a proof is  *)
(* held only of the statement the name has now, and neither is taken away   *)
(* or replaced except under a new epoch.                                    *)
(***************************************************************************)
EXTENDS Naturals

CONSTANTS Name, Statement, None

VARIABLES
    version,   \* the name's statement epoch
    claim,     \* its statement, None before it is stated
    proven     \* the statement the proof it holds is of, None without one

ledger == <<version, claim, proven>>

Init ==
    /\ version = [n \in Name |-> 0]
    /\ claim = [n \in Name |-> None]
    /\ proven = [n \in Name |-> None]

\* A name is stated, perhaps with a proof.
State(n, s) ==
    /\ claim[n] = None
    /\ claim' = [claim EXCEPT ![n] = s]
    /\ \E p \in {None, s} : proven' = [proven EXCEPT ![n] = p]
    /\ UNCHANGED version

\* It is restated: a new epoch, and no proof.
Restate(n, s) ==
    /\ claim[n] \notin {None, s}
    /\ claim' = [claim EXCEPT ![n] = s]
    /\ proven' = [proven EXCEPT ![n] = None]
    /\ version' = [version EXCEPT ![n] = @ + 1]

\* A proof of its statement arrives.
Prove(n) ==
    /\ claim[n] # None /\ proven[n] = None
    /\ proven' = [proven EXCEPT ![n] = claim[n]]
    /\ UNCHANGED <<version, claim>>

\* Its proof turns out not to hold any more.
Withdraw(n) ==
    /\ proven[n] # None
    /\ proven' = [proven EXCEPT ![n] = None]
    /\ version' = [version EXCEPT ![n] = @ + 1]
    /\ UNCHANGED claim

Next ==
    \E n \in Name :
        \/ \E s \in Statement : State(n, s) \/ Restate(n, s)
        \/ Prove(n)
        \/ Withdraw(n)

Spec == Init /\ [][Next]_ledger
=============================================================================
