---------------------------- MODULE WorkerAttempt ----------------------------
(***************************************************************************)
(* The attempts at one node: the scheduler's retry loop around a command   *)
(* line worker (src/pcp/orch/schedule.py, src/pcp/orch/runners/cli.py),    *)
(* the process tree it runs in (src/pcp/util/proc.py), the files it leaves *)
(* its answer in (src/pcp/orch/protocol.py) and the gate that decides a    *)
(* claimed proof (src/pcp/orch/gate.py).                                   *)
(*                                                                         *)
(* A worker is a process group: its leader, which writes the answer, and   *)
(* one process the leader may leave in the background, with or without the *)
(* pipe its output is read from.  The coqc of `pcp check` and the pet of   *)
(* `pcp mcp` are outside it, each in a session of its own; in a sandbox    *)
(* all of them end with the leader.  It answers in up to four places, of   *)
(* which read_result takes the most structured; a file that exists and is  *)
(* not yet written is "torn".  Of a proof, only what the gate can tell     *)
(* apart is kept: a body that is no list of tactics ("cheat"), one that    *)
(* does not compile ("wrong"), one that rests on a foreign axiom           *)
(* ("axiom"), a good one and an empty one.                                 *)
(*                                                                         *)
(* A provider outage is ProviderPause's subject, the other nodes and the   *)
(* statement's epoch are ProveRun's: here every attempt is at one epoch.   *)
(***************************************************************************)
EXTENDS Integers, FiniteSets

CONSTANTS
    MaxAttempts,   \* --attempts: prover attempts charged to a node
    MaxRows,       \* bound: attempt rows the model looks at
    Sandboxed,     \* the rows whose worker runs under bwrap
    Leaves         \* bound: what the worker of each row may leave as its answer

ASSUME BoundsAssumption ==
    /\ MaxAttempts \in Nat \ {0}
    /\ MaxRows \in Nat \ {0}

Rows == 1 .. MaxRows

ASSUME SandboxAssumption == Sandboxed \subseteq Rows

\* The proofs a worker may hand in.
Bodies == {"cheat", "wrong", "axiom", "good", "empty"}

\* What answer.json may say: "asks" is a stuck answer that requests an
\* amendment (one that does not reads like a torn file), a qed names the body
\* it claims.
Says == {"asks", "contested"} \cup Bodies

\* It may write a proof.v instead, or end its prose with a fenced proof.
ASSUME LeavesAssumption == Leaves \in [Rows -> SUBSET (Says \cup {"proof.v", "fence"})]

VARIABLES
    node,     \* the obligation's row in the graph: its status and its body
    rows,     \* attempt rows: status, and what the gate said of the claim
    dir,      \* the attempt's directory: answer.json and proof.v
    worker,   \* the process group, and what the stream has carried so far
    apart,    \* the attempts that have a process in a session of its own
    pc,       \* where run_node is
    cur,      \* the row of the attempt under way
    killer,   \* how far the kill of an attempt's group has come
    result,   \* the NodeResult in hand
    loose     \* history: attempts whose group nothing attends to any more

vars == <<node, rows, dir, worker, apart, pc, cur, killer, result, loose>>

NoRow    == [status |-> "unused", gate |-> "none", how |-> "none"]
NoDir    == [answer |-> "absent", proof |-> "absent"]
NoWorker == [leader |-> "none", rc |-> 0, child |-> "none",
             fenced |-> FALSE]
NoResult == [status |-> "none", proof |-> "none", by |-> 0,
             asks |-> FALSE, how |-> "none"]

Init ==
    /\ node = [status |-> "open", body |-> "none", by |-> 0]
    /\ rows = [a \in Rows |-> NoRow]
    /\ dir = [a \in Rows |-> NoDir]
    /\ worker = [a \in Rows |-> NoWorker]
    /\ apart = {}
    /\ pc = "loop"
    /\ cur = 0
    /\ killer = [a \in Rows |-> "none"]
    /\ result = NoResult
    /\ loose = {}

(***************************************************************************)
(* The worker.                                                             *)
(***************************************************************************)

LeaderLives(a) == worker[a].leader = "alive"
Lives(a) == LeaderLives(a) \/ worker[a].child \in {"quiet", "pipe"}

\* The pipe is at its end when no process of the group holds it.
Eof(a) == ~LeaderLives(a) /\ worker[a].child # "pipe"

\* Whether anything will still read what attempt a leaves behind.
IsRead(a) == a = cur /\ pc \in {"pump", "kill"}

\* Opening a file for writing and closing it written are two steps: a kill,
\* or a read, falls between them.  Bound: a worker writes one of its two files.
OpensAnswer(a) ==
    /\ LeaderLives(a) /\ IsRead(a) /\ dir[a] = NoDir /\ Leaves[a] \cap Says # {}
    /\ dir' = [dir EXCEPT ![a].answer = "torn"]
    /\ UNCHANGED <<worker, apart>>

WritesAnswer(a) ==
    /\ LeaderLives(a) /\ IsRead(a) /\ dir[a].answer = "torn"
    /\ \E what \in Leaves[a] \cap Says : dir' = [dir EXCEPT ![a].answer = what]
    /\ UNCHANGED <<worker, apart>>

WritesProof(a) ==
    /\ LeaderLives(a) /\ IsRead(a) /\ "proof.v" \in Leaves[a]
    /\ \/ dir[a] = NoDir /\ dir' = [dir EXCEPT ![a].proof = "torn"]
       \/ dir[a].proof = "torn" /\ dir' = [dir EXCEPT ![a].proof = "good"]
    /\ UNCHANGED <<worker, apart>>

\* The final text carries a fenced proof.  What is said once the pump has
\* stopped is not captured.
Streams(a) ==
    /\ LeaderLives(a) /\ a = cur /\ pc = "pump" /\ "fence" \in Leaves[a]
    /\ worker' = [worker EXCEPT ![a].fenced = TRUE]
    /\ UNCHANGED <<dir, apart>>

LeavesChild(a) ==
    /\ LeaderLives(a) /\ worker[a].child = "none"
    /\ \E how \in {"quiet", "pipe"} : worker' = [worker EXCEPT ![a].child = how]
    /\ UNCHANGED <<dir, apart>>

\* The coqc of `pcp check` or the pet of `pcp mcp`: proc.run and PetanquePool start
\* each in a session of its own.
StartsApart(a) ==
    /\ Lives(a) /\ apart' = apart \cup {a}
    /\ UNCHANGED <<dir, worker>>

EndsApart(a) ==
    /\ a \in apart /\ apart' = apart \ {a}
    /\ UNCHANGED <<dir, worker>>

\* The leader of a sandbox is all that keeps its PID namespace up.
Leaving(a, w, rc) ==
    [w EXCEPT !.leader = "exited", !.rc = rc,
              !.child = IF a \in Sandboxed THEN "none" ELSE @]

\* The CLI fails by its exit status or by the last word of its stream: decide
\* treats both alike, and rc = 1 is either.
Exits(a) ==
    /\ LeaderLives(a)
    /\ \E rc \in {0, 1} : worker' = [worker EXCEPT ![a] = Leaving(a, @, rc)]
    /\ apart' = IF a \in Sandboxed THEN apart \ {a} ELSE apart
    /\ UNCHANGED dir

ChildExits(a) ==
    /\ worker[a].child \in {"quiet", "pipe"}
    /\ worker' = [worker EXCEPT ![a].child = "none"]
    /\ UNCHANGED <<dir, apart>>

WorkerStep(a) ==
    /\ \/ OpensAnswer(a) \/ WritesAnswer(a) \/ WritesProof(a) \/ Streams(a)
       \/ LeavesChild(a) \/ ChildExits(a) \/ StartsApart(a) \/ EndsApart(a)
       \/ Exits(a)
    /\ UNCHANGED <<node, rows, pc, cur, killer, result, loose>>

(***************************************************************************)
(* Reading the answer.                                                     *)
(***************************************************************************)

Stuck(a, body) == [status |-> "stuck", proof |-> body, by |-> a, asks |-> FALSE, how |-> "exit"]
Becomes(answer, status) == [answer EXCEPT !.status = status]
Requests(answer) == [answer EXCEPT !.asks = TRUE]
CutBy(answer, limit) == [answer EXCEPT !.how = limit]
Qed(a, body) == Becomes(Stuck(a, body), "qed")

\* read_answer_file.  A file that does not parse is a stuck answer.
AnswerFile(a) ==
    LET said == dir[a].answer IN
    IF said = "torn" THEN Stuck(a, "none")
    ELSE IF said = "asks" THEN Requests(Stuck(a, "none"))
    ELSE IF said = "contested" THEN Becomes(Stuck(a, "none"), "contested")
    ELSE Qed(a, said)

\* read_result: answer.json, proof.v, the last fenced block of the prose, or
\* nothing.  (A partial proof in the scratch file is a stuck answer too.)
ReadResult(a, fenced) ==
    IF dir[a].answer # "absent" THEN AnswerFile(a)
    ELSE IF dir[a].proof = "good" THEN Qed(a, "good")
    ELSE IF fenced THEN Qed(a, "good")
    ELSE Stuck(a, "none")

HasAnswer(a) ==
    dir[a].answer # "absent" \/ dir[a].proof # "absent" \/ worker[a].fenced

\* A faulty variant: the CLI's failure outranks the answer it left.
DecideByExit(a, timedOut) ==
    LET answer == ReadResult(a, worker[a].fenced) IN
    IF timedOut THEN CutBy(answer, "deadline")
    ELSE IF worker[a].rc # 0 THEN Becomes(answer, "error")
    ELSE answer

\* decide, below the spawn error: an answer keeps its status however the CLI
\* ended; without one, the deadline makes a stuck and a failure an error.
Decide(a, timedOut) ==
    LET answer == ReadResult(a, worker[a].fenced)
        failed == worker[a].rc # 0 IN
    IF timedOut
    THEN IF HasAnswer(a) THEN CutBy(answer, "deadline")
                         ELSE CutBy(Stuck(a, answer.proof), "deadline")
    ELSE IF failed /\ ~HasAnswer(a) THEN Becomes(answer, "error")
    ELSE answer

\* _run_with_deadline, when the runner had to be cancelled: the prose is gone,
\* a qed or contested answer is kept, of anything else only the partial.
ReadBack(a) ==
    LET partial == ReadResult(a, FALSE) IN
    IF partial.status \in {"qed", "contested"}
    THEN CutBy(partial, "limit")
    ELSE CutBy(Stuck(a, partial.proof), "limit")

(***************************************************************************)
(* The gate.                                                               *)
(***************************************************************************)

\* A faulty variant: a proof that compiles is a proof.
GateTrustsCompiler(body, compiler) ==
    IF body = "cheat" THEN "reject"
    ELSE IF ~compiler THEN "cannot"
    ELSE IF body = "wrong" THEN "reject"
    ELSE "pass"

\* Gate.run: what reading the bodies refuses is refused before anything is
\* compiled; a compiler that is missing or too slow says nothing of the proof;
\* the assumptions are read off a compilation that succeeded.
GateRun(body, compiler) ==
    IF body = "cheat" THEN "reject"
    ELSE IF ~compiler THEN "cannot"
    ELSE IF body \in {"wrong", "axiom"} THEN "reject"
    ELSE "pass"

(***************************************************************************)
(* The kill of a group, in a thread of the event loop's pool.  The gates   *)
(* use the same pool, so the call may wait there.                          *)
(***************************************************************************)

\* kill_tree: SIGTERM, a grace in which the group may still act, SIGKILL.
Terminates(a) ==
    /\ killer[a] = "queued"
    /\ killer' = [killer EXCEPT ![a] = "grace"]
    /\ UNCHANGED <<worker, apart>>

\* A faulty variant: the signal goes to the process, not to its group.
KillLeader(w) ==
    [w EXCEPT !.leader = IF @ = "alive" THEN "killed" ELSE @,
              !.rc     = IF w.leader = "alive" THEN 1 ELSE @]

\* What SIGKILL does to the group.  What is apart is not in it.
KillGroup(w) ==
    [w EXCEPT !.leader = IF @ = "alive" THEN "killed" ELSE @,
              !.rc     = IF w.leader = "alive" THEN 1 ELSE @,
              !.child  = IF @ \in {"quiet", "pipe"} THEN "none" ELSE @]

Kills(a) ==
    /\ killer[a] = "grace"
    /\ killer' = [killer EXCEPT ![a] = "killed"]
    /\ worker' = [worker EXCEPT ![a] = KillGroup(@)]
    /\ apart' = IF a \in Sandboxed THEN apart \ {a} ELSE apart

\* A sandbox is told to die with the process that started it.
SandboxesDie ==
    /\ worker' = [a \in Rows |-> IF a \in Sandboxed THEN KillGroup(worker[a]) ELSE worker[a]]
    /\ apart' = apart \ Sandboxed

Killer(a) ==
    /\ Terminates(a) \/ Kills(a)
    /\ UNCHANGED <<node, rows, dir, pc, cur, result, loose>>

(***************************************************************************)
(* The scheduler.                                                          *)
(***************************************************************************)

\* attempts_spent: an error is not charged, an attempt a crash left claimed is.
Spent == Cardinality({a \in Rows : rows[a].status \notin {"unused", "error"}})

\* _attempt up to the spawn: claim the node, open a row, build a packet in a
\* directory of its own.
Begin ==
    /\ pc = "loop" /\ Spent < MaxAttempts /\ cur < MaxRows
    /\ cur' = cur + 1
    /\ node' = [node EXCEPT !.status = "claimed"]
    /\ rows' = [rows EXCEPT ![cur'].status = "claimed"]
    /\ \/ /\ worker' = [worker EXCEPT ![cur'].leader = "alive"]
          /\ pc' = "pump"
          /\ UNCHANGED result
       \/ \* the binary is missing: run_async returns a spawn error
          /\ result' = Becomes(Stuck(cur', "none"), "error")
          /\ pc' = "decided"
          /\ UNCHANGED worker
    /\ UNCHANGED <<dir, apart, killer, loose>>

\* The budget is spent: _park.
GiveUp ==
    /\ pc = "loop" /\ Spent >= MaxAttempts
    /\ node' = [node EXCEPT !.status = "stuck"]
    /\ pc' = "over"
    /\ UNCHANGED <<rows, dir, worker, apart, cur, killer, result, loose>>

\* pump has read to the end of the pipe and waited for the leader.
PumpEnds ==
    /\ pc = "pump" /\ Eof(cur)
    /\ result' = Decide(cur, FALSE)
    /\ pc' = "decided"
    /\ UNCHANGED <<node, rows, dir, worker, apart, cur, killer, loose>>

\* A faulty variant: only a leader that runs is on the clock.
OverdueIfRunning(a) == pc = "pump" /\ LeaderLives(a)

\* When wait_for may give up on the pump.
Overdue(a) == pc = "pump"

DeadlinePasses ==
    /\ Overdue(cur)
    /\ killer' = [killer EXCEPT ![cur] = "queued"]
    /\ pc' = "kill"
    /\ UNCHANGED <<node, rows, dir, worker, apart, cur, result, loose>>

\* run_async returns once the kill is through; only then is anything read.
KillEnds ==
    /\ pc = "kill" /\ killer[cur] = "killed"
    /\ result' = Decide(cur, TRUE)
    /\ pc' = "decided"
    /\ UNCHANGED <<node, rows, dir, worker, apart, cur, killer, loose>>

\* The grace of the deadline has passed as well: the scheduler cancels the
\* runner.  A kill that still waits for its thread is withdrawn with it.
Backstop ==
    /\ pc = "kill"
    /\ killer' = [killer EXCEPT ![cur] = IF @ = "queued" THEN "withdrawn" ELSE @]
    /\ loose' = IF killer[cur] = "queued" THEN loose \cup {cur} ELSE loose
    /\ result' = ReadBack(cur)
    /\ pc' = "decided"
    /\ UNCHANGED <<node, rows, dir, worker, apart, cur>>

\* A faulty variant: whatever is not proved is stuck.
SettleStuck(status, gate) ==
    IF status # "qed" \/ gate = "pass" THEN status ELSE "stuck"

\* _gate_if_qed: what becomes of the claim.
Settle(status, gate) ==
    IF status # "qed" \/ gate = "pass" THEN status
    ELSE IF gate = "cannot" THEN "error" ELSE "stuck"

\* The gate and finish_attempt: one transaction closes the row.
Finish ==
    /\ pc = "decided"
    /\ \E compiler \in BOOLEAN :
         LET claims == result.status = "qed" /\ result.proof # "empty"
             gate   == IF claims THEN GateRun(result.proof, compiler) ELSE "none"
             status == Settle(result.status, gate)
         IN /\ rows' = [rows EXCEPT ![cur] =
                           [status |-> status, gate |-> gate, how |-> result.how]]
            /\ result' = Becomes(result, status)
    /\ pc' = "finished"
    /\ UNCHANGED <<node, dir, worker, apart, cur, killer, loose>>

\* What run_node makes of the row: prove, hand over, leave for another
\* machine, give up, or try again.
Conclude ==
    /\ pc = "finished"
    /\ LET gate == rows[cur].gate IN
       \/ /\ result.status = "qed"
          /\ node' = [status |-> "gated", body |-> result.proof, by |-> result.by]
          /\ pc' = "over"
       \/ /\ result.status = "contested"
          /\ node' = [node EXCEPT !.status = "contested"]
          /\ pc' = "over"
       \/ /\ \/ result.status = "stuck" /\ result.asks
             \/ result.status = "error" /\ gate # "cannot"
          /\ node' = [node EXCEPT !.status = "stuck"]
          /\ pc' = "over"
       \/ /\ gate = "cannot"
          /\ node' = [node EXCEPT !.status = "open"]
          /\ pc' = "over"
       \/ /\ result.status = "stuck" /\ ~result.asks
          /\ pc' = "loop"
          /\ UNCHANGED node
    /\ result' = NoResult
    /\ UNCHANGED <<rows, dir, worker, apart, cur, killer, loose>>

(***************************************************************************)
(* The run's end and the next run.                                         *)
(***************************************************************************)

\* The run is cancelled.  A pump kills its group before it lets go; a kill
\* under way goes on in its thread, one still queued is withdrawn.
Interrupt ==
    /\ \/ /\ pc = "pump"
          /\ killer' = [killer EXCEPT ![cur] = "queued"]
          /\ pc' = "unwind"
          /\ UNCHANGED loose
       \/ /\ pc = "kill"
          /\ killer' = [killer EXCEPT ![cur] = IF @ = "queued" THEN "withdrawn" ELSE @]
          /\ loose' = IF killer[cur] = "queued" THEN loose \cup {cur} ELSE loose
          /\ pc' = "down"
       \/ /\ pc \in {"decided", "finished"}
          /\ pc' = "down"
          /\ UNCHANGED <<killer, loose>>
    /\ result' = NoResult
    /\ UNCHANGED <<node, rows, dir, worker, apart, cur>>

Unwind ==
    /\ pc = "unwind" /\ killer[cur] = "killed"
    /\ pc' = "down"
    /\ UNCHANGED <<node, rows, dir, worker, apart, cur, killer, result, loose>>

\* The process is killed: its threads die with it, the workers, each the
\* leader of its own session, do not unless they are sandboxed.
Crash ==
    /\ pc \notin {"over", "down", "loop"}
    /\ killer' = [a \in Rows |-> IF killer[a] \in {"queued", "grace"} THEN "withdrawn" ELSE killer[a]]
    /\ loose' = loose \cup {a \in Rows : killer[a] \in {"queued", "grace"}} \cup {cur}
    /\ result' = NoResult
    /\ pc' = "down"
    /\ SandboxesDie
    /\ UNCHANGED <<node, rows, dir, cur>>

\* _close_claimed_prover_rows: an attempt a dead run left in flight is charged.
CloseClaimed(row) ==
    IF row.status = "claimed"
    THEN [row EXCEPT !.status = "stuck", !.how = "interrupted"] ELSE row

\* resume_incomplete, for this node: a proof that was gated and not recorded is
\* salvaged, rows left claimed are closed, a stuck node is tried again while
\* it has attempts left.
Gated == {a \in Rows : rows[a].status = "qed" /\ rows[a].gate = "pass"}

Resume ==
    /\ pc \in {"down", "over"} /\ cur < MaxRows
    /\ \A a \in Rows : killer[a] # "grace"
    /\ \/ /\ node.status = "claimed" /\ Gated # {}
          /\ \E a \in Gated : node' = [status |-> "gated", body |-> "good", by |-> a]
          /\ pc' = "over"
       \/ /\ node.status = "claimed" /\ Gated = {}
          /\ node' = [node EXCEPT !.status = "open"]
          /\ pc' = "loop"
       \/ /\ node.status = "stuck" /\ Spent < MaxAttempts
          /\ node' = [node EXCEPT !.status = "open"]
          /\ pc' = "loop"
       \/ /\ node.status = "open"
          /\ pc' = "loop"
          /\ UNCHANGED node
    /\ rows' = [a \in Rows |-> CloseClaimed(rows[a])]
    /\ SandboxesDie
    /\ UNCHANGED <<dir, cur, killer, result, loose>>

Run == Begin \/ GiveUp \/ PumpEnds \/ KillEnds \/ Finish \/ Conclude \/ Unwind

Next ==
    \/ Run \/ DeadlinePasses \/ Backstop
    \/ Interrupt \/ Crash \/ Resume
    \/ \E a \in Rows : WorkerStep(a) \/ Killer(a)

(***************************************************************************)
(* Nothing makes a worker answer or exit.  The scheduler takes its next    *)
(* step, the clock runs, and a queued kill gets its thread: a gate that    *)
(* holds one ends at its own timeout.                                      *)
(***************************************************************************)
Fairness ==
    /\ WF_vars(Run)
    /\ WF_vars(DeadlinePasses)
    /\ \A a \in Rows : WF_vars(Killer(a))

Spec == Init /\ [][Next]_vars
FairSpec == Spec /\ Fairness

(***************************************************************************)
(* Properties.                                                             *)
(***************************************************************************)

Nodes ==
    [status : {"open", "claimed", "gated", "stuck", "contested"},
     body : Bodies \cup {"none"}, by : 0 .. MaxRows]
AttemptRows ==
    [status : {"unused", "claimed", "qed", "stuck", "contested", "error"},
     gate : {"none", "reject", "cannot", "pass"},
     how : {"none", "exit", "deadline", "limit", "interrupted"}]
Dirs == [answer : {"absent", "torn"} \cup Says, proof : {"absent", "torn", "good"}]
Workers ==
    [leader : {"none", "alive", "exited", "killed"}, rc : {0, 1},
     child : {"none", "quiet", "pipe"}, fenced : BOOLEAN]
Results ==
    [status : {"none", "qed", "stuck", "contested", "error"}, proof : Bodies \cup {"none"},
     by : 0 .. MaxRows, asks : BOOLEAN, how : {"none", "exit", "deadline", "limit"}]

TypeOK ==
    /\ node \in Nodes /\ rows \in [Rows -> AttemptRows]
    /\ dir \in [Rows -> Dirs] /\ worker \in [Rows -> Workers] /\ apart \subseteq Rows
    /\ pc \in {"loop", "pump", "kill", "unwind", "decided", "finished", "over", "down"}
    /\ cur \in 0 .. MaxRows
    /\ killer \in [Rows -> {"none", "queued", "grace", "killed", "withdrawn"}]
    /\ result \in Results /\ loose \subseteq Rows

\* What the directory and the stream of an attempt claim, once complete.
ClaimsProof(a) ==
    \/ dir[a].answer \in Bodies \ {"empty"}
    \/ dir[a].answer = "absent" /\ (dir[a].proof = "good" \/ worker[a].fenced)

\* An answer a worker completed is never lost, however its process ended: on
\* its own, with a failure, or killed at the deadline, within the kill's own
\* grace included (decide: "an answer is never downgraded because the CLI
\* ended badly afterwards").  A claimed proof has been put to the gate, a
\* contest has reached the row.
AnswerIsKept ==
    \A a \in Rows : rows[a].how \in {"exit", "deadline"} =>
        /\ ClaimsProof(a) => rows[a].gate # "none"
        /\ dir[a].answer = "contested" => rows[a].status = "contested"

\* A node is proved only by a body that a worker of this node left complete in
\* that attempt's own directory or stream, and that the gate would pass: never
\* one that is refused unread, fails to compile or rests on a foreign axiom,
\* and never the torn or edited remains of a killed attempt.
ProofIsGated ==
    node.status = "gated" =>
        /\ node.body = "good"
        /\ node.by \in Gated
        /\ ClaimsProof(node.by)

\* Who still answers for a process of an attempt's group: the runner that
\* pumps or kills it, or the thread of a kill under way.
Attended(a) ==
    \/ a = cur /\ pc \in {"pump", "kill", "unwind"}
    \/ killer[a] = "grace"

\* What lives of a group is attended, was left by a leader that exited on its
\* own, or was let loose.
Answered(a) ==
    Lives(a) => \/ Attended(a)
                \/ worker[a].leader = "exited" /\ killer[a] = "none"
                \/ a \in loose

\* A sandbox ends with its leader, and all that is in it.
Contained(a) ==
    a \in Sandboxed /\ (Lives(a) \/ a \in apart) => LeaderLives(a)

\* No worker is left behind: when the attempt has been cut at its deadline, or
\* the run cancelled, the whole group is dead, and no attempt starts beside a
\* worker of an earlier one.  The exceptions are a process the worker left in
\* the background before it exited on its own, and a group whose run crashed or
\* whose kill never got its thread.  Of a sandboxed worker nothing at all
\* outlives its leader; without a sandbox a coqc or a pet that has a session of
\* its own may.
NoStrayWorker == \A a \in Rows : Answered(a) /\ Contained(a)

\* An attempt is charged to the node only when its worker had its say: it
\* exited cleanly, ran out its clock, was cut off by the run's end, or left
\* something to read.  A CLI that failed without a word and a gate that could
\* not run never burn a retry.
ChargedForItsOwn ==
    \A a \in Rows : rows[a].status \in {"stuck", "contested", "qed"} =>
        /\ rows[a].gate # "cannot"
        /\ \/ rows[a].how \in {"deadline", "limit", "interrupted"}
           \/ worker[a].leader = "exited" /\ worker[a].rc = 0
           \/ HasAnswer(a)

\* Every attempt ends: whatever the worker, its background process or the kill
\* does, the node comes back to the loop or leaves it, or the run is over.
AttemptsEnd == pc \in {"pump", "kill", "unwind", "decided"} ~> pc \in {"loop", "over", "down"}
=============================================================================
