---------------------------- MODULE PinnedSessions ----------------------------
(***************************************************************************)
(* What the pool of petanque processes promises a proof session: its states *)
(* live in one run of one process, its home; it steps only while that home  *)
(* is up; a home that is down never comes back.                             *)
(***************************************************************************)
EXTENDS Naturals

CONSTANTS Session, NoHome

VARIABLES
    home,   \* the home of each session's states
    steps,  \* the steps each has committed
    up,     \* the homes that are up ...
    past    \* ... and those that ever were

vars == <<home, steps, up, past>>

Init ==
    /\ home = [s \in Session |-> NoHome] /\ steps = [s \in Session |-> 0]
    /\ up = {} /\ past = {}

\* Processes come and go, some before they are seen; what comes is new.
Churn ==
    /\ (up' \ up) \cap past = {}
    /\ past \cup up' \subseteq past'
    /\ UNCHANGED <<home, steps>>

\* Its states may be those an earlier session left, in a home that just went down.
Start(s, h) ==
    /\ home[s] = NoHome /\ h \in past
    /\ home' = [home EXCEPT ![s] = h] /\ steps' = [steps EXCEPT ![s] = 0]
    /\ UNCHANGED <<up, past>>

Step(s) ==
    /\ home[s] \in up
    /\ steps' = [steps EXCEPT ![s] = @ + 1]
    /\ UNCHANGED <<home, up, past>>

\* Closing a session; a process may be replaced in the same step.
Close(s) ==
    /\ home' = [home EXCEPT ![s] = NoHome] /\ steps' = [steps EXCEPT ![s] = 0]
    /\ (up' \ up) \cap past = {}
    /\ past \cup up' \subseteq past'

Next ==
    \/ Churn
    \/ \E s \in Session : Close(s) \/ Step(s) \/ \E h \in past : Start(s, h)

Spec == Init /\ [][Next]_vars
=============================================================================
