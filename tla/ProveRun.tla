------------------------------ MODULE ProveRun ------------------------------
(***************************************************************************)
(* `pcp prove --plan P`, one process after another over the same SQLite     *)
(* obligation graph.                                                        *)
(*                                                                          *)
(* A process takes the graph through the phases of prove() and _prove():    *)
(*                                                                          *)
(*   root -> reconcile -> retire -> resume -> revalidate                    *)
(*        -> dispatch -> integrate -> (returned)                            *)
(*                                                                          *)
(* Each action is one committed transaction of the graph, or one decision   *)
(* taken between two of them; a kill may fall between any two.  Between two *)
(* processes the user may edit the plan.  The amendment and design rounds   *)
(* and the provider pause are off (--amendments 0, --pause-hours 0, no      *)
(* decomposer).                                                             *)
(***************************************************************************)
EXTENDS Integers, Sequences, FiniteSets, ProofLattice

CONSTANTS
    Root,           \* the target lemma
    Child,          \* names the plan may state as obligations
    ordering,       \* plan position of each child; the root comes after all
    NonMockable,    \* children that cannot be stubbed into a sibling's file
    Stmt,           \* statements (what statement_hash tells apart)
    NoStmt,         \* "not cited", and the entry of a child a plan leaves out
    NoProof,        \* a NULL body
    MaxAttempts,    \* --attempts
    Concurrency,    \* --concurrency
    FirstPlans,     \* the plans the first process may be started with
    EditKinds,      \* what the user may do to the plan between two processes
    EditAfterKill,  \* may the user edit the plan after a killed process?
    KillPhases,     \* the phases in which a process may be killed
    MaxRuns         \* bound: processes started on this graph

ASSUME RootAssumption == Root \notin Child
ASSUME OrderingAssumption ==
    /\ ordering \in [Child -> Nat]
    /\ \A c, d \in Child : ordering[c] = ordering[d] => c = d
ASSUME StmtAssumption == NoStmt \notin Stmt
ASSUME BudgetAssumption == MaxAttempts \in Nat \ {0} /\ Concurrency \in Nat \ {0}
ASSUME BoundAssumption == MaxRuns \in Nat

Node == Child \cup {Root}

NoEdge == -1

\* A proof is known by what the gate last checked it against: the statement it
\* proves and, for each child it cites, the statement that child had.
Proof == [of : Stmt, uses : [Child -> Stmt \cup {NoStmt}]]
ASSUME NoProofAssumption == NoProof \notin Proof

\* An attempt row; `proof` is its body when its gate column says ok.
RowStatus == {"claimed", "qed", "stuck", "contested", "error"}
Row == [epoch : Nat, status : RowStatus, proof : Proof \cup {NoProof}]

\* A plan states each child, with or without a proof, or leaves it out; the
\* root's entry is its statement in the development.
Plan == [Node -> [stmt : Stmt \cup {NoStmt}, proof : BOOLEAN]]
ASSUME PlanAssumption == FirstPlans \subseteq Plan
                         /\ \A p \in FirstPlans : p[Root].stmt \in Stmt

Phase == {"down", "root", "reconcile", "retire", "resume", "revalidate",
          "dispatch", "integrate"}
Step == {"look", "edge", "take", "record", "repin", "close", "reopen"}
Where == {"idle", "queued", "ready", "claimed", "working", "accepted", "recorded",
          "failed", "contesting", "ungated", "parking", "done"}
Ending == {"none", "returned", "usage", "refused", "toolchain", "killed"}

VARIABLES
    status,   \* nodes.proof_status; "absent" before the node is added
    epoch,    \* nodes.epoch
    stmt,     \* nodes.statement
    body,     \* nodes.body
    rows,     \* the attempts table: each node's prover rows, oldest first
    pin,      \* pinned_epoch of the demand edge root -> child, if any
    plan,     \* the plan file and the development, as this process read them
    phase,    \* where the process is, "down" when there is none
    todo,     \* the nodes the phase's loop has not visited yet
    step,     \* where the loop body is, on the node whose turn it is
    where,    \* where each node's run_node coroutine is
    taken,    \* the proof in hand: a worker's, or the plan's, the gate accepted
    ending,   \* how the last process ended
    runs      \* processes started so far

graph == <<status, epoch, stmt, body, rows, pin>>
process == <<phase, todo, step, where, taken>>
vars == <<graph, plan, process, ending, runs>>

-----------------------------------------------------------------------------
(* The graph read *)

Present(n) == status[n] # "absent"
Proved(n) == status[n] \in ProvedStatus
LiveChild == {c \in Child : status[c] \notin {"absent", "attic"}}

\* nodes() comes back in plan order, the root last.
Before(m, n) == m # Root /\ (n = Root \/ ordering[m] < ordering[n])

\* Prover attempts charged to n at its current epoch.
ChargedRows(n) == {i \in DOMAIN rows[n] : /\ rows[n][i].epoch = epoch[n]
                                          /\ rows[n][i].status # "error"}
Spent(n) == Cardinality(ChargedRows(n))

\* A faulty variant: a body is salvaged whatever epoch its row is of.
GatedRowsOfAnyEpoch(n) ==
    {i \in DOMAIN rows[n] : rows[n][i].status = "qed" /\ rows[n][i].proof # NoProof}

\* Rows of n holding a body the gate accepted, at n's current epoch.
GatedRows(n) == {i \in DOMAIN rows[n] : /\ rows[n][i].epoch = epoch[n]
                                        /\ rows[n][i].status = "qed"
                                        /\ rows[n][i].proof # NoProof}
Salvageable(n) == GatedRows(n) # {}
LatestGated(n, i) == i \in GatedRows(n) /\ \A j \in GatedRows(n) : j <= i

\* Demand edges leave the root only.
StaleEdges(n) == IF n = Root THEN {c \in Child : pin[c] \notin {NoEdge, epoch[c]}}
                             ELSE {}

\* Children whose statement a proof of n may use: those assembled before it.
Citable(n) == {c \in LiveChild : Before(c, n)}

\* Proofs the gate may accept for n now.
GatedProof(n) ==
    { [of |-> stmt[n], uses |-> [c \in Child |-> IF c \in S THEN stmt[c] ELSE NoStmt]]
        : S \in SUBSET Citable(n) }

Cited(p) == {c \in Child : p.uses[c] # NoStmt}

\* What the gate accepted p against is what the graph says now.
Current(n, p) == /\ p.of = stmt[n]
                 /\ \A c \in Cited(p) : c \in LiveChild /\ p.uses[c] = stmt[c]

-----------------------------------------------------------------------------
(* The graph written *)

\* _update(): a status write.  An invalidating move bumps the epoch and clears the
\* body in the same transaction.
SetStatus(n, new, human) ==
    /\ MayMove(status[n], new, human)
    /\ status' = [status EXCEPT ![n] = new]
    /\ IF Invalidates(status[n], new)
       THEN /\ epoch' = [epoch EXCEPT ![n] = @ + 1]
            /\ body' = [body EXCEPT ![n] = NoProof]
       ELSE UNCHANGED <<epoch, body>>

\* record_proof: the only way a proof reaches the graph.
RecordProof(n, p) ==
    /\ MayMove(status[n], "gated", FALSE)
    /\ status' = [status EXCEPT ![n] = "gated"]
    /\ body' = [body EXCEPT ![n] = p]
    /\ UNCHANGED <<epoch>>

\* A faulty variant: the statement is replaced under the same epoch.
RestateInPlace(n, s) ==
    /\ MayMove(status[n], "open", TRUE)
    /\ status' = [status EXCEPT ![n] = "open"]
    /\ stmt' = [stmt EXCEPT ![n] = s]
    /\ body' = [body EXCEPT ![n] = NoProof]
    /\ UNCHANGED <<epoch>>

\* update() in the human role, with a new statement.
Restate(n, s) ==
    /\ MayMove(status[n], "open", TRUE)
    /\ status' = [status EXCEPT ![n] = "open"]
    /\ stmt' = [stmt EXCEPT ![n] = s]
    /\ epoch' = [epoch EXCEPT ![n] = @ + 1]
    /\ body' = [body EXCEPT ![n] = NoProof]

RepinEdges(n) ==
    pin' = IF n = Root THEN [c \in Child |-> IF pin[c] = NoEdge THEN NoEdge ELSE epoch[c]]
                       ELSE pin

\* A faulty variant: ensuring the edge of a restated child re-pins the one that is there.
PinEdge(c) == pin' = [pin EXCEPT ![c] = epoch[c]]

EnsureEdge(c) == pin' = [pin EXCEPT ![c] = IF @ = NoEdge THEN epoch[c] ELSE @]

AddNode(n, s, new, p) ==
    /\ status' = [status EXCEPT ![n] = new]
    /\ stmt' = [stmt EXCEPT ![n] = s]
    /\ body' = [body EXCEPT ![n] = p]
    /\ UNCHANGED <<epoch>>

\* start_attempt, finish_attempt, and the sweep over rows a crash left claimed.
StartRow(n) ==
    rows' = [rows EXCEPT ![n] =
        Append(@, [epoch |-> epoch[n], status |-> "claimed", proof |-> NoProof])]

FinishRow(n, outcome, p) ==
    rows' = [rows EXCEPT ![n][Len(rows[n])] =
        [@ EXCEPT !.status = outcome, !.proof = p]]

CloseClaimedRows(n) ==
    rows' = [rows EXCEPT ![n] =
        [i \in DOMAIN @ |->
            IF @[i].status = "claimed" THEN [@[i] EXCEPT !.status = "stuck"] ELSE @[i]]]

-----------------------------------------------------------------------------
(* Starting and ending a process *)

Turn(n) == n \in todo /\ \A m \in todo : ~Before(m, n)

At(ph, st, n) == phase = ph /\ step = st /\ Turn(n)

NextNode(n) == todo' = todo \ {n} /\ step' = "look"

GoTo(st) == step' = st /\ UNCHANGED <<todo>>

Enter(ph, nodes) == phase' = ph /\ todo' = nodes /\ step' = "look"

\* The process is gone; whatever it held in memory is gone with it.
Exit(how) ==
    /\ phase' = "down"
    /\ todo' = {}
    /\ step' = "look"
    /\ where' = [n \in Node |-> "idle"]
    /\ taken' = NoProof
    /\ ending' = how
    /\ UNCHANGED <<graph, plan, runs>>

\* One edit of the plan, at most, between two processes.
Edit(p, q) ==
    \E n \in Node :
        /\ \A m \in Node \ {n} : q[m] = p[m]
        /\ \/ "keep" \in EditKinds /\ q[n] = p[n]
           \/ "restate" \in EditKinds /\ n # Root /\ {p[n].stmt, q[n].stmt} \subseteq Stmt
           \/ "root" \in EditKinds /\ n = Root /\ q[n].stmt \in Stmt /\ ~q[n].proof
           \/ "drop" \in EditKinds /\ n # Root
           \/ "prove" \in EditKinds /\ n # Root /\ q[n] = [p[n] EXCEPT !.proof = TRUE]

Stated(p) == {c \in Child : p[c].stmt # NoStmt}

StartRun ==
    /\ phase = "down"
    /\ runs < MaxRuns
    /\ \/ runs = 0 /\ plan' \in FirstPlans
       \/ runs > 0 /\ UNCHANGED <<plan>>
       \/ /\ runs > 0
          /\ ending = "killed" => EditAfterKill
          /\ plan' \in Plan
          /\ \A c \in Child \ Stated(plan') : ~plan'[c].proof
          /\ Edit(plan, plan')
    /\ runs' = runs + 1
    /\ Enter("root", {Root})
    /\ ending' = "none"
    /\ UNCHANGED <<graph, where, taken>>

\* SIGKILL, a lost machine, or a cancelled asyncio run: the rows stay as they are.
Kill == phase \in KillPhases /\ Exit("killed")

\* The bound on processes is reached: the model, not the system, stops here.
Exhausted == phase = "down" /\ runs = MaxRuns /\ UNCHANGED vars

-----------------------------------------------------------------------------
(* build_graph: reconcile the graph with the plan, one child at a time *)

EnsureRoot ==
    /\ At("root", "look", Root)
    /\ \/ ~Present(Root) /\ AddNode(Root, plan[Root].stmt, "open", NoProof)
       \/ Present(Root) /\ stmt[Root] # plan[Root].stmt /\ Restate(Root, plan[Root].stmt)
       \/ /\ Present(Root) /\ stmt[Root] = plan[Root].stmt
          /\ UNCHANGED <<status, epoch, stmt, body>>
    /\ Enter("reconcile", Stated(plan))
    /\ UNCHANGED <<rows, pin, plan, where, taken, ending, runs>>

\* The gate checks a plan's proof against the plan's other statements.
PlanProof(c) ==
    { [of |-> plan[c].stmt,
       uses |-> [d \in Child |-> IF d \in S THEN plan[d].stmt ELSE NoStmt]]
        : S \in SUBSET {d \in Stated(plan) : Before(d, c)} }

AddChild(c) ==
    /\ At("reconcile", "look", c)
    /\ ~Present(c)
    /\ IF plan[c].proof
       THEN \E p \in PlanProof(c) : AddNode(c, plan[c].stmt, "gated", p)
       ELSE AddNode(c, plan[c].stmt, "open", NoProof)
    /\ GoTo("edge")
    /\ UNCHANGED <<rows, pin, plan, phase, where, taken, ending, runs>>

RestateChild(c) ==
    /\ At("reconcile", "look", c)
    /\ Present(c)
    /\ stmt[c] # plan[c].stmt
    /\ Restate(c, plan[c].stmt)
    /\ GoTo("edge")
    /\ UNCHANGED <<rows, pin, plan, phase, where, taken, ending, runs>>

\* add_edge on a new child, ensure_edge on a restated one.
DemandEdge(c) ==
    /\ At("reconcile", "edge", c)
    /\ EnsureEdge(c)
    /\ GoTo("take")
    /\ UNCHANGED <<status, epoch, stmt, body, rows, plan, phase, where, taken, ending, runs>>

KeepChild(c) ==
    /\ At("reconcile", "look", c)
    /\ Present(c)
    /\ stmt[c] = plan[c].stmt
    /\ IF status[c] = "attic" THEN SetStatus(c, "open", TRUE)
                             ELSE UNCHANGED <<status, epoch, body>>
    /\ GoTo("take")
    /\ UNCHANGED <<stmt, rows, pin, plan, phase, where, taken, ending, runs>>

\* The plan carries a proof for a child that has none: gate it, claim the node ...
TakePlanProof(c) ==
    /\ At("reconcile", "take", c)
    /\ plan[c].proof /\ ~Proved(c)
    /\ taken' \in PlanProof(c)
    /\ IF status[c] = "open" THEN SetStatus(c, "claimed", FALSE)
                            ELSE UNCHANGED <<status, epoch, body>>
    /\ GoTo("record")
    /\ UNCHANGED <<stmt, rows, pin, plan, phase, where, ending, runs>>

\* ... and take it.  A child has no demand edge to re-pin.
RecordPlanProof(c) ==
    /\ At("reconcile", "record", c)
    /\ RecordProof(c, taken)
    /\ taken' = NoProof
    /\ NextNode(c)
    /\ UNCHANGED <<stmt, rows, pin, plan, phase, where, ending, runs>>

\* record_proof raises InvalidTransition, and with it the run.
PlanProofRefused(c) ==
    /\ At("reconcile", "record", c)
    /\ ~MayMove(status[c], "gated", FALSE)
    /\ Exit("refused")

NoPlanProof(c) ==
    /\ At("reconcile", "take", c)
    /\ ~plan[c].proof \/ Proved(c)
    /\ NextNode(c)
    /\ UNCHANGED <<graph, plan, phase, where, taken, ending, runs>>

\* A plan's proof that fails its gate, or cannot be gated, ends the run.
PlanProofRejected(c) ==
    /\ \/ At("reconcile", "look", c) /\ ~Present(c)
       \/ At("reconcile", "take", c) /\ ~Proved(c)
    /\ plan[c].proof
    /\ Exit("usage")

Reconciled ==
    /\ phase = "reconcile" /\ todo = {}
    /\ Enter("retire", {c \in LiveChild \ Stated(plan) : ~Proved(c)})
    /\ UNCHANGED <<graph, plan, where, taken, ending, runs>>

RetireDropped(c) ==
    /\ At("retire", "look", c)
    /\ SetStatus(c, "attic", TRUE)
    /\ NextNode(c)
    /\ UNCHANGED <<stmt, rows, pin, plan, phase, where, taken, ending, runs>>

\* A root with no obligations and no decomposer to state any is refused.
Retired ==
    /\ phase = "retire" /\ todo = {}
    /\ IF LiveChild = {}
       THEN Exit("usage")
       ELSE /\ Enter("resume", {n \in Node : Present(n)})
            /\ UNCHANGED <<graph, plan, where, taken, ending, runs>>

-----------------------------------------------------------------------------
(* resume_incomplete: what the last process left behind *)

Salvage(n) ==
    /\ At("resume", "look", n)
    /\ status[n] = "claimed"
    /\ \E i \in GatedRows(n) : LatestGated(n, i) /\ RecordProof(n, rows[n][i].proof)
    /\ GoTo("repin")
    /\ UNCHANGED <<stmt, rows, pin, plan, phase, where, taken, ending, runs>>

SalvageRepin(n) ==
    /\ At("resume", "repin", n)
    /\ RepinEdges(n)
    /\ GoTo("close")
    /\ UNCHANGED <<status, epoch, stmt, body, rows, plan, phase, where, taken, ending, runs>>

SalvageClose(n) ==
    /\ At("resume", "close", n)
    /\ CloseClaimedRows(n)
    /\ NextNode(n)
    /\ UNCHANGED <<status, epoch, stmt, body, pin, plan, phase, where, taken, ending, runs>>

\* A faulty variant: an interrupted node is reopened without looking for a gated body.
CloseUnsalvaged(n) ==
    /\ At("resume", "look", n)
    /\ status[n] = "claimed"
    /\ CloseClaimedRows(n)
    /\ GoTo("reopen")
    /\ UNCHANGED <<status, epoch, stmt, body, pin, plan, phase, where, taken, ending, runs>>

CloseInterrupted(n) ==
    /\ At("resume", "look", n)
    /\ status[n] = "claimed" /\ ~Salvageable(n)
    /\ CloseClaimedRows(n)
    /\ GoTo("reopen")
    /\ UNCHANGED <<status, epoch, stmt, body, pin, plan, phase, where, taken, ending, runs>>

ReopenInterrupted(n) ==
    /\ At("resume", "reopen", n)
    /\ SetStatus(n, "open", FALSE)
    /\ NextNode(n)
    /\ UNCHANGED <<stmt, rows, pin, plan, phase, where, taken, ending, runs>>

ReopenStuck(n) ==
    /\ At("resume", "look", n)
    /\ status[n] = "stuck" /\ Spent(n) < MaxAttempts
    /\ SetStatus(n, "open", FALSE)
    /\ NextNode(n)
    /\ UNCHANGED <<stmt, rows, pin, plan, phase, where, taken, ending, runs>>

LeaveAlone(n) ==
    /\ At("resume", "look", n)
    /\ status[n] # "claimed"
    /\ status[n] = "stuck" => Spent(n) >= MaxAttempts
    /\ NextNode(n)
    /\ UNCHANGED <<graph, plan, phase, where, taken, ending, runs>>

Resumed ==
    /\ phase = "resume" /\ todo = {}
    /\ Enter("revalidate", {n \in Node : Present(n)})
    /\ UNCHANGED <<graph, plan, where, taken, ending, runs>>

-----------------------------------------------------------------------------
(* revalidate(only_stale=True): replay the proofs whose demand edges are stale *)

Replayed(n) ==
    [of |-> stmt[n],
     uses |-> [c \in Child |-> IF c \in Cited(body[n]) THEN stmt[c] ELSE NoStmt]]

\* The replay passes: the proof now stands against the statements it was replayed on.
ReplayHolds(n) ==
    /\ At("revalidate", "look", n)
    /\ Proved(n) /\ StaleEdges(n) # {}
    /\ Cited(body[n]) \subseteq LiveChild
    /\ body' = [body EXCEPT ![n] = Replayed(n)]
    /\ GoTo("repin")
    /\ UNCHANGED <<status, epoch, stmt, rows, pin, plan, phase, where, taken, ending, runs>>

ReplayRepin(n) ==
    /\ At("revalidate", "repin", n)
    /\ RepinEdges(n)
    /\ NextNode(n)
    /\ UNCHANGED <<status, epoch, stmt, body, rows, plan, phase, where, taken, ending, runs>>

ReplayFails(n) ==
    /\ At("revalidate", "look", n)
    /\ Proved(n) /\ StaleEdges(n) # {}
    /\ ~Current(n, body[n])
    /\ SetStatus(n, "open", TRUE)
    /\ NextNode(n)
    /\ UNCHANGED <<stmt, rows, pin, plan, phase, where, taken, ending, runs>>

ReplayCannotRun(n) ==
    /\ At("revalidate", "look", n)
    /\ Proved(n) /\ StaleEdges(n) # {}
    /\ Exit("toolchain")

NothingToReplay(n) ==
    /\ At("revalidate", "look", n)
    /\ ~(Proved(n) /\ StaleEdges(n) # {})
    /\ NextNode(n)
    /\ UNCHANGED <<graph, plan, phase, where, taken, ending, runs>>

\* frontier(): every open node is queued.
Dispatch ==
    /\ phase = "revalidate" /\ todo = {}
    /\ Enter("dispatch", {})
    /\ where' = [n \in Node |-> IF status[n] = "open" THEN "queued" ELSE "idle"]
    /\ UNCHANGED <<graph, plan, taken, ending, runs>>

-----------------------------------------------------------------------------
(* Scheduler.run: one run_node coroutine for each queued node *)

\* Between two awaits a coroutine runs alone.
Busy == {"claimed", "accepted", "recorded", "failed", "contesting", "ungated", "parking"}
Scheduled(n) == \A m \in Node \ {n} : where[m] \notin Busy

Resting == {"idle", "done"}

\* A faulty variant: a non-mockable node waits for itself.
MayBeginAfterAll(n) == \A m \in NonMockable : where[m] \in Resting

\* Non-mockable nodes go first, one after another; then all the others.
MayBegin(n) ==
    \A m \in NonMockable \ {n} :
        where[m] \in Resting \/ (n \in NonMockable /\ where[m] = "queued" /\ Before(n, m))

Blockers(n) == {c \in (LiveChild \cap NonMockable) \ {n} : body[c] = NoProof}

InDispatch(n, at) == phase = "dispatch" /\ where[n] = at /\ Scheduled(n)

Becomes(n, at) == where' = [where EXCEPT ![n] = at]

BeginNode(n) ==
    /\ InDispatch(n, "queued") /\ MayBegin(n)
    /\ Becomes(n, IF Spent(n) >= MaxAttempts \/ Blockers(n) # {} THEN "parking" ELSE "ready")
    /\ UNCHANGED <<graph, plan, phase, todo, step, taken, ending, runs>>

\* The head of the retry loop: the rows charged so far are its attempt count.
GiveUp(n) ==
    /\ InDispatch(n, "ready")
    /\ Spent(n) >= MaxAttempts
    /\ Becomes(n, "parking")
    /\ UNCHANGED <<graph, plan, phase, todo, step, taken, ending, runs>>

\* The semaphore is held over the whole attempt, the gate included.
Holding == {n \in Node : where[n] \in {"claimed", "working"}}

\* A faulty variant: one attempt too many.
ClaimOnceMore(n) ==
    /\ InDispatch(n, "ready")
    /\ Spent(n) <= MaxAttempts
    /\ Cardinality(Holding) < Concurrency
    /\ SetStatus(n, "claimed", FALSE)
    /\ Becomes(n, "claimed")
    /\ UNCHANGED <<stmt, rows, pin, plan, phase, todo, step, taken, ending, runs>>

ClaimNode(n) ==
    /\ InDispatch(n, "ready")
    /\ Spent(n) < MaxAttempts
    /\ Cardinality(Holding) < Concurrency
    /\ SetStatus(n, "claimed", FALSE)
    /\ Becomes(n, "claimed")
    /\ UNCHANGED <<stmt, rows, pin, plan, phase, todo, step, taken, ending, runs>>

StartAttempt(n) ==
    /\ InDispatch(n, "claimed")
    /\ StartRow(n)
    /\ Becomes(n, "working")
    /\ UNCHANGED <<status, epoch, stmt, body, pin, plan, phase, todo, step, taken, ending, runs>>

\* The worker has answered and its qed, if any, has been gated: the row is closed.
AttemptProved(n) ==
    /\ InDispatch(n, "working")
    /\ \E p \in GatedProof(n) : FinishRow(n, "qed", p) /\ taken' = p
    /\ Becomes(n, "accepted")
    /\ UNCHANGED <<status, epoch, stmt, body, pin, plan, phase, todo, step, ending, runs>>

\* stuck, a deadline, or a qed the gate refused; a contest; a gate that could not
\* run; a runner error or an exception of the orchestrator's own.
Unproved ==
    {<<"stuck", "failed">>, <<"contested", "contesting">>,
     <<"error", "ungated">>, <<"error", "parking">>}

AttemptUnproved(n) ==
    /\ InDispatch(n, "working")
    /\ \E o \in Unproved : FinishRow(n, o[1], NoProof) /\ Becomes(n, o[2])
    /\ UNCHANGED <<status, epoch, stmt, body, pin, plan, phase, todo, step, taken, ending, runs>>

RecordNode(n) ==
    /\ InDispatch(n, "accepted")
    /\ RecordProof(n, taken)
    /\ taken' = NoProof
    /\ Becomes(n, "recorded")
    /\ UNCHANGED <<stmt, rows, pin, plan, phase, todo, step, ending, runs>>

RepinNode(n) ==
    /\ InDispatch(n, "recorded")
    /\ RepinEdges(n)
    /\ Becomes(n, "done")
    /\ UNCHANGED <<status, epoch, stmt, body, rows, plan, phase, todo, step, taken, ending, runs>>

RetryNode(n) ==
    /\ InDispatch(n, "failed")
    /\ Becomes(n, "ready")
    /\ UNCHANGED <<graph, plan, phase, todo, step, taken, ending, runs>>

ContestNode(n) ==
    /\ InDispatch(n, "contesting")
    /\ SetStatus(n, "contested", FALSE)
    /\ Becomes(n, "done")
    /\ UNCHANGED <<stmt, rows, pin, plan, phase, todo, step, taken, ending, runs>>

\* The gate could not run: the node stays open for another run.
LeaveOpen(n) ==
    /\ InDispatch(n, "ungated")
    /\ SetStatus(n, "open", FALSE)
    /\ Becomes(n, "done")
    /\ UNCHANGED <<stmt, rows, pin, plan, phase, todo, step, taken, ending, runs>>

\* _park: open -> claimed -> stuck, two writes when the node was never claimed.
ParkNode(n) ==
    /\ InDispatch(n, "parking")
    /\ \/ /\ status[n] = "open"
          /\ SetStatus(n, "claimed", FALSE)
          /\ UNCHANGED <<where>>
       \/ /\ status[n] = "claimed"
          /\ SetStatus(n, "stuck", FALSE)
          /\ Becomes(n, "done")
    /\ UNCHANGED <<stmt, rows, pin, plan, phase, todo, step, taken, ending, runs>>

Dispatched ==
    /\ phase = "dispatch"
    /\ \A n \in Node : where[n] \in Resting
    /\ Enter("integrate", {})
    /\ UNCHANGED <<graph, plan, where, taken, ending, runs>>

-----------------------------------------------------------------------------
(* integrate: one transaction over every obligation and the root *)

Integrable ==
    /\ \A n \in LiveChild \cup {Root} : Proved(n) /\ body[n] # NoProof
    /\ \A n \in LiveChild \cup {Root} : StaleEdges(n) = {}

\* The whole-file gate holds the proofs to the statements of the graph.
Integrate ==
    /\ phase = "integrate"
    /\ Integrable
    /\ \A n \in LiveChild \cup {Root} : Cited(body[n]) \subseteq LiveChild
    /\ status' = [n \in Node |->
                    IF n \in LiveChild \cup {Root} THEN "integrated" ELSE status[n]]
    /\ body' = [n \in Node |->
                    IF n \in LiveChild \cup {Root} THEN Replayed(n) ELSE body[n]]
    /\ Enter("down", {})
    /\ where' = [n \in Node |-> "idle"]
    /\ ending' = "returned"
    /\ UNCHANGED <<epoch, stmt, rows, pin, plan, taken, runs>>

\* Something is unproved or stale, the gate fails, or it could not run.
NotIntegrated == phase = "integrate" /\ Exit("returned")

-----------------------------------------------------------------------------
Init ==
    /\ status = [n \in Node |-> "absent"]
    /\ epoch = [n \in Node |-> 0]
    /\ stmt = [n \in Node |-> NoStmt]
    /\ body = [n \in Node |-> NoProof]
    /\ rows = [n \in Node |-> << >>]
    /\ pin = [c \in Child |-> NoEdge]
    /\ plan \in FirstPlans
    /\ phase = "down" /\ todo = {} /\ step = "look"
    /\ where = [n \in Node |-> "idle"]
    /\ taken = NoProof
    /\ ending = "none"
    /\ runs = 0

ReconcileStep(c) ==
    \/ AddChild(c) \/ RestateChild(c) \/ DemandEdge(c) \/ KeepChild(c)
    \/ TakePlanProof(c) \/ RecordPlanProof(c) \/ PlanProofRefused(c)
    \/ NoPlanProof(c) \/ PlanProofRejected(c) \/ RetireDropped(c)

ResumeStep(n) ==
    \/ Salvage(n) \/ SalvageRepin(n) \/ SalvageClose(n) \/ CloseInterrupted(n)
    \/ ReopenInterrupted(n) \/ ReopenStuck(n) \/ LeaveAlone(n)

RevalidateStep(n) ==
    \/ ReplayHolds(n) \/ ReplayRepin(n) \/ ReplayFails(n) \/ ReplayCannotRun(n)
    \/ NothingToReplay(n)

NodeStep(n) ==
    \/ BeginNode(n) \/ GiveUp(n) \/ ClaimNode(n) \/ StartAttempt(n)
    \/ AttemptProved(n) \/ AttemptUnproved(n) \/ RecordNode(n) \/ RepinNode(n)
    \/ RetryNode(n) \/ ContestNode(n) \/ LeaveOpen(n) \/ ParkNode(n)

\* What the process does of its own accord.
Advance ==
    \/ EnsureRoot \/ Reconciled \/ Retired \/ Resumed \/ Dispatch \/ Dispatched
    \/ Integrate \/ NotIntegrated
    \/ \E c \in Child : ReconcileStep(c)
    \/ \E n \in Node : ResumeStep(n) \/ RevalidateStep(n) \/ NodeStep(n)

Next == StartRun \/ Kill \/ Advance \/ Exhausted

Spec == Init /\ [][Next]_vars

\* A process that has not been killed keeps going: its workers answer or meet
\* the scheduler's deadline, and the event loop runs whatever is ready.
FairSpec == Spec /\ WF_vars(Advance)

-----------------------------------------------------------------------------
(* Properties *)

\* Every variable keeps to the values the schema and the coroutines allow.
TypeOK ==
    /\ status \in [Node -> ProofStatus \cup {"absent"}]
    /\ epoch \in [Node -> Nat]
    /\ stmt \in [Node -> Stmt \cup {NoStmt}]
    /\ body \in [Node -> Proof \cup {NoProof}]
    /\ rows \in [Node -> Seq(Row)]
    /\ pin \in [Child -> Nat \cup {NoEdge}]
    /\ plan \in Plan
    /\ phase \in Phase
    /\ todo \subseteq Node
    /\ step \in Step
    /\ where \in [Node -> Where]
    /\ taken \in Proof \cup {NoProof}
    /\ ending \in Ending
    /\ runs \in 0..MaxRuns

\* A proved node carries a proof the gate accepted for the statement it has now,
\* and no other node carries a body at all, across every kill, restatement and
\* salvage: siblings_of asserts the second half before each assembly.
BodyIsOfStatement ==
    \A n \in Node : IF Proved(n) THEN body[n] # NoProof /\ body[n].of = stmt[n]
                                 ELSE body[n] = NoProof

\* A demand edge that is current tells the truth: the root's proof was checked
\* against the statement its dependency has now.  integrate and revalidate look
\* at nothing else to decide what needs a replay.
PinsAreHonest ==
    Proved(Root) =>
        \A c \in Cited(body[Root]) : pin[c] = epoch[c] => body[Root].uses[c] = stmt[c]

\* However often the command is killed and run again, no statement epoch is
\* charged more attempts than --attempts: resume never buys a node fresh workers.
BudgetRespected ==
    \A n \in Node : \A e \in 0..epoch[n] :
        Cardinality({i \in DOMAIN rows[n] :
            rows[n][i].epoch = e /\ rows[n][i].status # "error"}) <= MaxAttempts

\* No worker is spent on a statement some attempt row already holds a gated proof
\* of: what a kill cut off between the row and the node is salvaged.
NoProofIsLost == \A n \in Node : where[n] = "working" => ~Salvageable(n)

\* Every process that works on the graph, killed or not, keeps the ledger's promise:
\* a proof is of its node's present statement, and it and the statement go only
\* under a new epoch.
Ledger == INSTANCE StatementLedger WITH
    Name <- Node, Statement <- Stmt, None <- NoStmt,
    version <- epoch, claim <- stmt,
    proven <- [n \in Node |-> IF Proved(n) THEN body[n].of ELSE NoStmt]

KeepsLedger == Ledger!Spec

\* A contest is the human's: only an edit of the plan, restating the node or
\* dropping it, takes a node out of it; no resume, dispatch or replay does.
ContestIsForTheHuman ==
    [][\A n \in Node : status[n] = "contested" /\ status'[n] # "contested" =>
        stmt'[n] # stmt[n] \/ status'[n] = "attic"]_vars

\* Every process ends: no retry loop, no order of the workers and no lattice
\* refusal leaves it running for good.
EveryRunEnds == phase # "down" ~> phase = "down"
=============================================================================
