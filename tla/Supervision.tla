----------------------------- MODULE Supervision -----------------------------
(***************************************************************************)
(* `pcp prove --supervise`: every launch becomes a detached supervisor that *)
(* runs the command as a child, once per try, and starts it again when it   *)
(* died.  Children of different launches meet at the locks of the graph and *)
(* of the workroot, and supervisors at the state directory, which is the    *)
(* workroot when nothing is recorded.  Every process is started in a session *)
(* of its own, the workers and the coqc of the gate that a child runs too.  *)
(***************************************************************************)
EXTENDS Naturals, FiniteSets

CONSTANTS
    Launch,         \* the command lines typed
    NoOne,
    Graph, GraphOf, \* --graph
    Work, WorkOf,   \* --workroot
    Fresh,          \* the launches with --fresh ...
    Recorded,       \* ... and those with --record
    Sandbox,        \* --sandbox
    MaxRestarts     \* --max-restarts

ASSUME LaunchAssumption ==
    /\ NoOne \notin Launch
    /\ Fresh \subseteq Launch /\ Recorded \subseteq Launch
    /\ Work \cap Launch = {}
ASSUME PlaceAssumption == GraphOf \in [Launch -> Graph] /\ WorkOf \in [Launch -> Work]
ASSUME OptionAssumption == Sandbox \in BOOLEAN /\ MaxRestarts \in Nat

VARIABLES
    at,         \* where each launch's launcher or supervisor is
    verdict,    \* why it ended
    stop,       \* the supervisor was told to stop
    restarts,
    child,      \* where its child is
    running,    \* the sessions the child has started ...
    orphan,     \* ... and those that outlived a child
    outcome,    \* whose child wrote the outcome file of each state directory
    graphLock, workLock,
    graphs,     \* the graph files there are ...
    workroots   \* ... and the workroots

supervisor == <<at, verdict, stop, restarts>>
run == <<child, running, orphan>>
locks == <<graphLock, workLock>>
files == <<outcome, graphs, workroots>>
vars == <<supervisor, run, locks, files>>

\* A faulty variant: the record has no run of its own.
SharedState(l) == WorkOf[l]

StateDir(l) == IF l \in Recorded THEN l ELSE WorkOf[l]
\* Writing there makes the directory.
MakesState(l) == workroots' = workroots \cup ({StateDir(l)} \ Launch)
Alive(l) == child[l] \in {"start", "locking", "run", "returning"}

\* What a run starts: workers, sandboxed or not, and the gate's coqc, which never is.
Session == {"worker", "coqc"}

-----------------------------------------------------------------------------
(* Locks and files *)

Locks(l) == graphLock' = [graphLock EXCEPT ![GraphOf[l]] = l]
LocksWork(l) == workLock' = [workLock EXCEPT ![WorkOf[l]] = l]

\* What l holds is free again, on return or by the kernel.
Unlocks(l) ==
    /\ graphLock' = [g \in Graph |-> IF graphLock[g] = l THEN NoOne ELSE graphLock[g]]
    /\ workLock' = [w \in Work |-> IF workLock[w] = l THEN NoOne ELSE workLock[w]]

Ends(l, why) ==
    /\ at' = [at EXCEPT ![l] = "ended"]
    /\ verdict' = [verdict EXCEPT ![l] = why]

-----------------------------------------------------------------------------
(* The launcher *)

LaunchRun(l) ==
    /\ at[l] = "typed"
    /\ IF l \notin Fresh THEN at' = [at EXCEPT ![l] = "top"] /\ UNCHANGED <<verdict, locks>>
       ELSE IF graphLock[GraphOf[l]] # NoOne THEN Ends(l, "refused") /\ UNCHANGED locks
       ELSE /\ at' = [at EXCEPT ![l] = "freshening"]
            /\ Locks(l) /\ UNCHANGED <<verdict, workLock>>
    /\ UNCHANGED <<stop, restarts, run, files>>

\* fresh_start under its second lock.
FreshLock(l) ==
    /\ at[l] = "freshening"
    /\ IF workLock[WorkOf[l]] # NoOne THEN Ends(l, "refused") /\ Unlocks(l)
       ELSE /\ at' = [at EXCEPT ![l] = "wiping"]
            /\ LocksWork(l) /\ UNCHANGED <<verdict, graphLock>>
    /\ UNCHANGED <<stop, restarts, run, files>>

\* The outcome file goes with a workroot that is a state directory.
FreshStart(l) ==
    /\ at[l] = "wiping"
    /\ at' = [at EXCEPT ![l] = "top"]
    /\ graphs' = graphs \ {GraphOf[l]} /\ workroots' = workroots \ {WorkOf[l]}
    /\ outcome' = [outcome EXCEPT ![WorkOf[l]] = NoOne]
    /\ Unlocks(l)
    /\ UNCHANGED <<verdict, stop, restarts, run>>

-----------------------------------------------------------------------------
(* The child *)

TakeGraphLock(l) ==
    /\ child[l] = "start"
    /\ IF graphLock[GraphOf[l]] = NoOne
       THEN child' = [child EXCEPT ![l] = "locking"] /\ Locks(l)
       ELSE child' = [child EXCEPT ![l] = "returning"] /\ UNCHANGED graphLock
    /\ UNCHANGED <<supervisor, running, orphan, workLock, files>>

\* A faulty variant: the workroot's lock is not asked for.
TakeNoLock(l) ==
    /\ child[l] = "locking"
    /\ child' = [child EXCEPT ![l] = "run"]
    /\ graphs' = graphs \cup {GraphOf[l]} /\ workroots' = workroots \cup {WorkOf[l]}
    /\ UNCHANGED <<supervisor, running, orphan, locks, outcome>>

\* The second lock, then build_graph.
TakeWorkLock(l) ==
    /\ child[l] = "locking"
    /\ IF workLock[WorkOf[l]] = NoOne
       THEN /\ child' = [child EXCEPT ![l] = "run"]
            /\ graphs' = graphs \cup {GraphOf[l]} /\ workroots' = workroots \cup {WorkOf[l]}
            /\ LocksWork(l) /\ UNCHANGED graphLock
       ELSE /\ child' = [child EXCEPT ![l] = "returning"]
            /\ Unlocks(l) /\ UNCHANGED <<graphs, workroots>>
    /\ UNCHANGED <<supervisor, running, orphan, outcome>>

\* Bound: more is started when what was started has ended.
StartSessions(l) ==
    /\ child[l] = "run" /\ running[l] = {}
    /\ \E some \in (SUBSET Session) \ {{}} : running' = [running EXCEPT ![l] = some]
    /\ UNCHANGED <<supervisor, child, orphan, locks, files>>

\* By itself, or by the clock of the child that waits for it.
SessionEnds(l) ==
    /\ \E s \in running[l] : running' = [running EXCEPT ![l] = @ \ {s}]
    /\ UNCHANGED <<supervisor, child, orphan, locks, files>>

\* Only by itself: the clock went with the child.
OrphanEnds(l) ==
    /\ \E s \in orphan[l] : orphan' = [orphan EXCEPT ![l] = @ \ {s}]
    /\ UNCHANGED <<supervisor, child, running, locks, files>>

RunEnds(l) ==
    /\ child[l] = "run" /\ running[l] = {}
    /\ child' = [child EXCEPT ![l] = "returning"]
    /\ Unlocks(l)
    /\ UNCHANGED <<supervisor, running, orphan, files>>

\* A normal return: integrated or not, refused its locks or not.
WriteOutcome(l) ==
    /\ child[l] = "returning"
    /\ child' = [child EXCEPT ![l] = "exited"]
    /\ outcome' = [outcome EXCEPT ![StateDir(l)] = l]
    /\ MakesState(l)
    /\ UNCHANGED <<supervisor, running, orphan, locks, graphs>>

\* A faulty variant: bwrap does not die with its parent.
DiesAlone(l) ==
    /\ child' = [child EXCEPT ![l] = "dead"]
    /\ running' = [running EXCEPT ![l] = {}]
    /\ orphan' = [orphan EXCEPT ![l] = @ \cup running[l]]
    /\ Unlocks(l)

\* The child's group is gone; the sessions it started are not, but for a worker in a
\* sandbox, which dies with its parent.
Dies(l) ==
    /\ child' = [child EXCEPT ![l] = "dead"]
    /\ running' = [running EXCEPT ![l] = {}]
    /\ orphan' = [orphan EXCEPT ![l] = @ \cup (running[l] \ IF Sandbox THEN {"worker"} ELSE {})]
    /\ Unlocks(l)

Crash(l) == Alive(l) /\ Dies(l) /\ UNCHANGED <<supervisor, files>>

-----------------------------------------------------------------------------
(* The supervisor *)

\* The head of the loop: the file of the try before is removed, the child started.
StartChild(l) ==
    /\ outcome' = [outcome EXCEPT ![StateDir(l)] = NoOne]
    /\ MakesState(l)
    /\ at' = [at EXCEPT ![l] = "watch"]
    /\ child' = [child EXCEPT ![l] = "start"]
    /\ UNCHANGED <<verdict, stop, restarts, running, orphan, locks, graphs>>

Supervise(l) == at[l] = "top" /\ StartChild(l)
Restart(l) == at[l] = "late" /\ StartChild(l)

\* The command cannot be executed at all.
SpawnFails(l) ==
    /\ at[l] \in {"top", "late"}
    /\ Ends(l, "unstartable")
    /\ outcome' = [outcome EXCEPT ![StateDir(l)] = NoOne]
    /\ MakesState(l)
    /\ UNCHANGED <<stop, restarts, run, locks, graphs>>

\* A faulty variant: a child that died is started again without being counted.
ReapUncounted(l) ==
    /\ at[l] = "watch" /\ child[l] \in {"exited", "dead"}
    /\ IF outcome[StateDir(l)] # NoOne THEN Ends(l, "returned")
       ELSE at' = [at EXCEPT ![l] = "wait"] /\ UNCHANGED verdict
    /\ UNCHANGED <<stop, restarts, run, locks, files>>

\* Finished, by the word of the outcome file, or died and is to be started again.
Reap(l) ==
    /\ at[l] = "watch" /\ child[l] \in {"exited", "dead"}
    /\ IF outcome[StateDir(l)] # NoOne THEN Ends(l, "returned") /\ UNCHANGED restarts
       ELSE IF restarts[l] >= MaxRestarts THEN Ends(l, "gave_up") /\ UNCHANGED restarts
       ELSE /\ at' = [at EXCEPT ![l] = "wait"] /\ UNCHANGED verdict
            /\ restarts' = [restarts EXCEPT ![l] = @ + 1]
    /\ UNCHANGED <<stop, run, locks, files>>

\* The timer of wait_for has fired; the loop goes on when it runs again.
BackoffOver(l) ==
    /\ at[l] = "wait" /\ ~stop[l]
    /\ at' = [at EXCEPT ![l] = "late"]
    /\ UNCHANGED <<verdict, stop, restarts, run, locks, files>>

\* on_signal: the future of a child that is gone may be done, and is then not cancelled.
Signal(l) ==
    /\ at[l] \in {"watch", "wait", "late"}
    /\ stop' = [stop EXCEPT ![l] = TRUE]
    /\ \/ at[l] = "watch" /\ at' = [at EXCEPT ![l] = "killing"]
       \/ (at[l] # "watch" \/ ~Alive(l)) /\ UNCHANGED at
    /\ UNCHANGED <<verdict, restarts, run, locks, files>>

KillGroup(l) ==
    /\ at[l] = "killing" /\ Alive(l)
    /\ Dies(l)
    /\ UNCHANGED <<supervisor, files>>

Terminated(l) ==
    /\ \/ at[l] = "killing" /\ ~Alive(l)
       \/ at[l] = "wait" /\ stop[l]
    /\ Ends(l, "terminated")
    /\ UNCHANGED <<stop, restarts, run, locks, files>>

\* Killed outright: its child goes on, and nobody watches it.
SupervisorDies(l) ==
    /\ at[l] \in {"top", "watch", "wait", "late", "killing"}
    /\ Ends(l, "killed")
    /\ UNCHANGED <<stop, restarts, run, locks, files>>

-----------------------------------------------------------------------------
Init ==
    /\ at = [l \in Launch |-> "typed"] /\ verdict = [l \in Launch |-> "none"]
    /\ stop = [l \in Launch |-> FALSE] /\ restarts = [l \in Launch |-> 0]
    /\ child = [l \in Launch |-> "none"]
    /\ running = [l \in Launch |-> {}] /\ orphan = [l \in Launch |-> {}]
    /\ outcome = [d \in Launch \cup Work |-> NoOne]
    /\ graphLock = [g \in Graph |-> NoOne] /\ workLock = [w \in Work |-> NoOne]
    /\ graphs \in SUBSET Graph /\ workroots = Work

Supervisor(l) ==
    \/ LaunchRun(l) \/ FreshLock(l) \/ FreshStart(l)
    \/ Supervise(l) \/ Restart(l) \/ Reap(l) \/ BackoffOver(l) \/ KillGroup(l) \/ Terminated(l)

Child(l) == TakeGraphLock(l) \/ TakeWorkLock(l) \/ RunEnds(l) \/ WriteOutcome(l)

Outside(l) ==
    StartSessions(l) \/ OrphanEnds(l) \/ Crash(l) \/ SpawnFails(l) \/ Signal(l) \/ SupervisorDies(l)

Done ==
    /\ \A l \in Launch : at[l] = "ended" /\ ~Alive(l) /\ running[l] = {} /\ orphan[l] = {}
    /\ UNCHANGED vars

Next ==
    \/ \E l \in Launch : Supervisor(l) \/ Child(l) \/ SessionEnds(l) \/ Outside(l)
    \/ Done

Spec == Init /\ [][Next]_vars

\* Supervisors go on, a child does what it does, and what it waits for has a deadline.
FairSpec ==
    /\ Spec
    /\ \A l \in Launch : WF_vars(Supervisor(l)) /\ WF_vars(SessionEnds(l))
    /\ \A l \in Launch : SF_vars(Child(l))

-----------------------------------------------------------------------------
(* Properties *)

\* Supervisors, children, locks and files keep to their values.
TypeOK ==
    /\ at \in [Launch -> {"typed", "freshening", "wiping", "top", "watch", "wait", "late",
                          "killing", "ended"}]
    /\ verdict \in [Launch -> {"none", "refused", "returned", "gave_up", "terminated",
                               "unstartable", "killed"}]
    /\ stop \in [Launch -> BOOLEAN] /\ restarts \in [Launch -> 0..MaxRestarts]
    /\ child \in [Launch -> {"none", "start", "locking", "run", "returning", "exited", "dead"}]
    /\ running \in [Launch -> SUBSET Session] /\ orphan \in [Launch -> SUBSET Session]
    /\ outcome \in [Launch \cup Work -> Launch \cup {NoOne}]
    /\ graphLock \in [Graph -> Launch \cup {NoOne}]
    /\ workLock \in [Work -> Launch \cup {NoOne}]
    /\ graphs \subseteq Graph /\ workroots \subseteq Work

\* One run at a time writes a graph or a workroot, and neither is pulled from under
\* it, whatever crashes, restarts and fresh starts cross.
RunsAreAlone ==
    \A l \in Launch : child[l] = "run" =>
        /\ GraphOf[l] \in graphs /\ WorkOf[l] \in workroots
        /\ \A m \in Launch \ {l} : child[m] = "run" =>
               GraphOf[m] # GraphOf[l] /\ WorkOf[m] # WorkOf[l]

\* A lock is held by a process that lives, and by the one that needs it.
LocksDieWithTheirHolder ==
    /\ \A g \in Graph : graphLock[g] # NoOne =>
          LET l == graphLock[g] IN
          GraphOf[l] = g /\ (at[l] \in {"freshening", "wiping"} \/ child[l] \in {"locking", "run"})
    /\ \A w \in Work : workLock[w] # NoOne =>
          LET l == workLock[w] IN
          WorkOf[l] = w /\ (at[l] = "wiping" \/ child[l] = "run")

\* A supervisor takes its run for finished only when its own last try returned.
FinishedMeansReturned ==
    \A l \in Launch : verdict[l] = "returned" => child[l] = "exited"

\* A supervisor that was terminated leaves no child behind, no worker of any of its
\* tries and no lock; a coqc the gate of one of them had started may go on.
TerminatedMeansStopped ==
    \A l \in Launch : verdict[l] = "terminated" =>
        /\ ~Alive(l) /\ running[l] = {} /\ "worker" \notin orphan[l]
        /\ graphLock[GraphOf[l]] # l /\ workLock[WorkOf[l]] # l

\* Every launch ends: its run returns, or its restarts are spent, or it is stopped.
SupervisionEnds == \A l \in Launch : <>(at[l] = "ended")
=============================================================================
