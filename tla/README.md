# TLA+ models of proof-copilot

proof-copilot (`pcp`) has a Rocq development proved by language-model workers. An
orchestrator keeps a graph of proof obligations in SQLite, sends each open one to
a worker process, checks every answer with `coqc` (the *gate*) and assembles the
proofs. Its hard part is not the proving. Runs take days: the command is killed
and started again, the plan is edited between two starts, providers go away for
hours, several launches share a graph, and all the while a proof the graph holds
must be a proof of the statement the graph holds.

Here are TLA+ models of that part, model-checked by TLC and, for the properties
that matter most, proved for all values of the constants by TLAPS. Paths and
lines below are those of `src/`.

## 1. Inventory

| part | state it keeps | operations | how it meets the others |
|---|---|---|---|
| **Obligation graph** `pcp/orch/graph.py`, `model.py` | nodes (status, epoch, statement, body), demand edges with pinned epochs, attempt rows, meta, blobs, costs | `add_node`, `update`, `record_proof`, `add_edge`, `ensure_edge`, `repin_edges`, `start_attempt`, `finish_attempt`, each one transaction | every orchestrator part writes it; it is all that survives a process |
| **Prove run** `pcp/orch/prove/` (`__init__`, `plan`, `resume`, `integrate`) | the plan as read, the phase | `build_graph`, `resume_incomplete`, `revalidate`, dispatch, `integrate` | one after another over the graph; dispatch calls the scheduler |
| **Scheduler** `pcp/orch/schedule.py` | coroutines, a semaphore, the attempts of each node | `run`, `run_node`, `_attempt`, `_park` | reads the frontier, starts workers, writes rows and statuses, holds the pause |
| **Provider pause** `pcp/orch/outage.py` | an event, the current wait, whether a wait was spent | `detect_outage`, `wait_if_paused`, `hold`, `wait_for_provider` | shared by every coroutine of a dispatch, and by the decomposer |
| **Supervisor, launcher, run locks** `supervise.py`, `cmd_prove.py`, `locks.py`, `proc.py` | restarts, the outcome file, two `flock`s | launch, `--fresh`, start and watch a child, restart, terminate | runs the prove run as a child; launches meet at locks and files |
| **Design driver, decomposer** `prove/design.py`, `decomposer.py`, `sketch.py` | a design file, rounds, meta rows | propose, validate, repair, `adopt_proposal`, revise, replay | fills the graph instead of a plan; holds the same pause |
| **Amendments, adjudication** `prove/amendments.py`, `amend.py` | requests seen, caps, the candidate design, verdicts by epoch | apply, judge, replay, reopen, adjudicate, restate, retry, dispatch again | rewrites the graph between dispatches |
| **Worker attempt** `runners/cli.py`, `protocol.py`, `gate.py`, `util/proc.py` | a process group, its directory and stream, an attempt row | spawn, pump, cut at the deadline, kill, read back, gate | one attempt of the scheduler; its answer is files another process writes |
| **Petanque pool, sessions** `pcp/state/petanque.py`, `pool.py`, `session.py` | prover processes with generations, sessions pinned to them, library times | open, call with a watchdog, restart, refresh, close | threads of the tool server over few processes |
| **Traces** `mcp/server.py` (`proof_trace`), `state/trace.py` | replays under way by key, kept states by key | ask, wait, stop, collect, resume, replay | threads of their own over the pool's sessions |
| **Tool daemon** `mcp/daemon.py`, `cli/cmd_tools.py` | a lock, a socket, an idle clock, a tool set | ensure, serve, call, idle, stop, close | one per workspace; owns the pool |
| **Resource ledger** `state/ledger/`, `state/ipm/` | the events of a proof | diff two goals, ask for a name's fate, blame, unused names | reads a trace's goals |
| **Gate, assembly, Rocq text** `gate.py`, `contract.py`, `pcp/rocq/` | none | read a file's sentences and proofs, check a body, build a file, run `coqc`, read what it prints | decides what the graph may call proved, and what a design may change |
| **Sentinels, packets** `sentinels.py`, `packet.py`, ... | none | pure functions over text | what a worker is told, what is said of its proof |
| **Sandbox, stream, recorder, searches and digests, CLI, dashboard, evaluation** | files and pipes | I/O | around the rest |

What is hard in it, and what makes each part correct:

* **Graph and prove run: crashes between transactions, and edits between crashes.**
  An attempt's row, its node's proof and the re-pinned edges are three
  transactions; a child and its edge are two. The next process must find what the
  one before had paid for, and use it only at the statement it is of. Correct
  means: a body is always of the present statement; statements and proofs go only
  under a new epoch; a pin that looks current is; no attempt budget is bought
  again; a contest stays the human's.
* **Scheduler: coroutines in any order.** Two waves, retries, parking, a node that
  crashes its own coroutine. Correct means: it ends, and nothing is left claimed.
* **Pause: one event, many coroutines.** An outage ends several attempts at once;
  others are queued for the slots those attempts free. Correct means: nobody waits
  for a pause that is over, a pause is bounded, a flapping provider does not make
  the run spin.
* **Supervision: processes that die in any order, and files they share.** Correct
  means: no two runs write one graph, a verdict is about one's own child, a stop
  stops, every supervisor ends.
* **Designs and amendments: the ground moves under the proofs.** The design the
  proofs are of is revised, amended and corrected while they are written, by a
  decomposer, by provers and by an approver. Correct means: what is proved at is one
  whole, approved design; every standing proof has been gated against it; no proof
  cites what the design gave up; three ways to reopen a node, under separate caps,
  come to an end; a retry withheld is given in the end.
* **Worker attempt: the answer is files, and their writer is killed.** Correct means: a
  complete answer counts however its process ended, an incomplete one never does, no
  process is left behind, nobody is charged for what is not theirs.
* **Pool, sessions, traces: real threads** over few processes that die, swell, hang
  and restart, with choices made under a lock and acted on outside it. Correct means:
  a state never meets a process it is not of, a session is lost only if its states
  are, a reused replay answers what a fresh one would, every call ends.
* **Daemon: one lock, one socket, no coordinator.** Correct means: one tool set at a
  time, a stop that says so has stopped it, whoever is asked to stop stops.
* **Gate: two readers of one text.** `pcp` reads sentences and blocks with a lexer of its
  own, and Rocq reads the same file. Correct means: what passes is, to Rocq, the frozen
  file with the plan's statements proved on known axioms; obligations gated one at a time
  are refused together only for an axiom the prefix hid; a design still states and proves
  the results.
* **Ledger: names are not resources.** What a diff of printed goals says of a name must
  be true of the hypothesis it stood for.

`PROJECT.json` lists each hazard at its line.

## 2. Modules

| module | models | built from |
|---|---|---|
| `ProofLattice` | `model.py`: proof statuses, allowed moves by role, which moves invalidate | |
| `StatementLedger` | what the graph promises its readers, as an abstract specification | |
| `ProveRun` | `pcp prove --plan` from start to exit, process after process | `ProofLattice`; implements `StatementLedger` |
| `ProveRunProofs` | theorems about `ProveRun` | `ProveRun` |
| `ProviderPause` | the pause, the semaphore and the `run_node` loop of a dispatch | |
| `ProviderPauseProofs` | theorems about `ProviderPause` | `ProviderPause` |
| `Supervision` | launchers, supervisors, children, locks, outcome files | |
| `SupervisionProofs` | theorems about `Supervision` | `Supervision` |
| `DesignRounds` | `pcp prove` with a decomposer and an approver, process after process: rounds, adoption, amendments, verdicts | `ProofLattice` |
| `DesignRoundsProofs` | theorems about `DesignRounds` | `DesignRounds` |
| `WorkerAttempt` | the retry loop of one node around a worker's process group, its files and the gate | |
| `WorkerAttemptProofs` | theorems about `WorkerAttempt`, and about `Gate`, which an attempt asks | `WorkerAttempt`, `Gate` |
| `PinnedSessions` | what the pool promises a session, as an abstract specification | |
| `PetanquePool` | threads, sessions, processes, locks and watchdogs of the tool server | implements `PinnedSessions` |
| `PetanquePoolProofs` | theorems about `PetanquePool` | `PetanquePool` |
| `TraceReplay` | `proof_trace`: callers, replays, kept states | |
| `TraceReplayProofs` | theorems about `TraceReplay` | `TraceReplay` |
| `ToolDaemon` | the daemon of a workspace and its clients | |
| `ResourceLedger` | the diff of proof states and the queries over it, beside the proof itself | |
| `ToolServerProofs` | theorems about `ToolDaemon` and `ResourceLedger` | `ToolDaemon`, `ResourceLedger` |
| `RocqText` | Rocq source as `pcp` reads it: lexer, blocks, bodies, assembly, assumptions; and as Rocq does | |
| `Gate` | the gate of one obligation, the integration, and the gate and contract of a design | `RocqText` |
| `MC*` | values of the constants for TLC | |

`PROJECT.json` maps each definition to the lines it translates. An operator whose
comment begins "A faulty variant" is not part of a specification. It is
a definition as a plausible bug would have it; put in the place of the right one,
it makes TLC find a run's property violated, which shows that the property can be.

### ProveRun

The variables are the graph's columns (`status`, `epoch`, `stmt`, `body`, `rows`,
`pin`), the user's `plan`, and what a process keeps in memory (`phase`, the loop's
`todo` and `step`, each coroutine's place `where`, the proof in hand `taken`).
**One action is one committed transaction, or one decision between two.** A kill
may fall between any two actions; it clears the memory and leaves the graph.

* `EnsureRoot`, `AddChild`, `RestateChild`, `DemandEdge`, `KeepChild`,
  `TakePlanProof`, `RecordPlanProof`, `PlanProofRefused`, `RetireDropped` are
  `build_graph` (`plan.py`), in the plan's order, statement by statement.
* `Salvage`, `SalvageRepin`, `SalvageClose`, `CloseInterrupted`,
  `ReopenInterrupted`, `ReopenStuck`, `LeaveAlone` are `resume_incomplete`
  (`resume.py`): a claimed node with a gated row takes its proof; another one has
  its rows closed and opens again.
* `ReplayHolds`, `ReplayFails`, ... are `revalidate(only_stale=True)` (`design.py`).
* `BeginNode` ... `ParkNode` are `run_node` and `_attempt` (`schedule.py`), one step
  from await to await. `Scheduled` lets no coroutine run while another is between
  two awaits: an event loop has one thread. Transactions in that stretch are still
  separate actions, for the kill.
* `Integrate` is `integrate.py`: one transaction over all nodes.

Data is abstract. A statement is a model value (what `statement_hash` tells apart).
A proof is the statement the gate checked it against, with the statement each cited
obligation had then; the gate accepts, or refuses, any proof whose citations the
assembly offers. So "this proof is out of date" is a fact of the model and not a
flag of the code. Names the code looks up in files, packets, costs and events have
no place in it.

### StatementLedger

Three variables: each name's epoch, statement, and the statement its proof is of.
Steps: state, restate (new epoch, no proof), prove, withdraw (new epoch). `KeepsLedger`
is `ProveRun => StatementLedger` under the mapping
`proven = IF Proved(n) THEN body[n].of ELSE none`.

### ProviderPause

The state is `ProviderPause` of `outage.py` (the event, `current`, `exhausted`), the
loop variables of `wait_for_provider`, the semaphore with its FIFO queue, and each
coroutine's place. Three details of asyncio are in it because the properties turn
on them: `Event.set` makes waiters ready without running them, `Event.wait` does not
look again, and `Semaphore.release` hands its slot to the first waiter. Time is a
counter in units of the shortest backoff step; `Tick` is enabled only when no
coroutine is ready and no sleep is over. The provider is arbitrary: any attempt may
end in any outage, any probe may answer yes, no or nothing.

### Supervision

A launch is a command line with its graph, workroot and flags. Its launcher becomes
its supervisor (`at`), which has at most one child (`child`), which runs sessions of
its own (`running`): workers, and the `coqc` of its gate. Both are started with
`start_new_session=True` (`proc.py`), so killing the child's group leaves them
alive (`orphan`), but for a worker in a sandbox, which dies with its parent; the
gate's `coqc` is never in one. Locks die with their holder. The state
directory is the record's when the launch records and the workroot otherwise: this
is how outcome files come to be shared. `BackoffOver` and the restart are two steps,
since the timer of `wait_for` fires before the loop resumes.

### DesignRounds

The state is the graph (`status`, `stmt`, `spent`, `pin`), its meta rows (`adopted`,
`marked`, `hints`, `reopens`, `told`, `rounds`), the file the proofs are checked with
(`designed`, and whether the approver has passed it, `sanctioned`), and what a process
keeps (`pc` and the variables of the loops). Three variables are facts and not columns:
`uses`, the wording of each child the root's proof was gated with, `behind`, the
proofs gated against an earlier design, and `inherited`, those the process found so when it
started and has not gated since. Nothing counts but what the code caps: an
epoch is not a number, a pin is current or stale and an attempt is of its node's epoch
or of none. So the state space is finite with any number of processes.

* `Initial`, `Applies`, `DoesNotApply`, `Repair`, `AskAgain`, `NotSettled`,
  `NoRoundLeft` are the decomposer's rounds (`DesignDriver._settle`,
  `decompose_with_retry`); `AdoptProposal`, `AddChild`, `RestateChild`, `DemandEdge`,
  `KeepChild`, `RetireDropped` are `adopt_proposal`, meta row first, a transaction each.
* `TakeRequest` ... `Salvage`, `RequestsEnd` are `AmendmentRun.apply`; `NoVerdict`,
  `HintAndReopen`, `HintsExhausted`, `FindStatementWrong`, `Restate`,
  `ReplayRestated`, `MarkRestated`, `FinishVerdict` are `adjudicate` and `restate`;
  `RetryRefused` closes the loop. `Revise`, `ReplayRevised`, `ReviseEnds` are the
  rounds after the first dispatch.
* A process may be killed (`Kill`, in the phases of `KillAt`), and it may end by itself in
  the middle: a `coqc` that cannot run or that meets its clock raises `ToolchainError`,
  which nothing around catches, where a design, a restatement or an amendment is compiled
  (`CannotCheck`) and between two proofs of a replay (`CannotReplay`), at any of them and
  at any time.
* `Proves`, `ContestsOrAsks`, `Errs`, `GivesUp` are a node's whole stay in the
  scheduler, whose interleavings are `ProveRun`'s.

### WorkerAttempt

A row of the attempt table, a directory, a process group and a kill, for each attempt.
The group is its leader and one process the leader may leave in the background, with or
without the pipe. Outside the group, `apart`, are the `coqc` of `pcp check` and the `pet` of
`pcp mcp`, which `proc.py` and `petanque.py` start in sessions of their own (`StartsApart`,
`EndsApart`); in a sandbox (`Sandboxed`) all of it ends with the leader. The worker's own
steps are those of any program: it opens and writes
`answer.json`, writes `proof.v`, prints, exits well or badly, or does nothing. A file
that exists and is not complete is "torn". `Decide` is the table of `cli.py`
(`decide`), `ReadResult` is `protocol.py`'s precedence, `GateRun` the gate's order of
refusals; `DeadlinePasses`, `Killer`, `KillEnds`, `Backstop` are the two clocks and the
kill's thread, `Interrupt` and `Unwind` a cancelled run, `Crash` and `Resume` a dead
one.

### PetanquePool

One thread per session. A session's thread chooses a process under the pool's lock,
refreshes or spawns one outside it, registers, and then calls: takes the process's lock,
restarts the process if it is dead or too big, checks its handle, calls and arms a
timer. `TimerFires`, `CallbackChecks` and `CallbackKills` are apart, as a
`threading.Timer` has them. A generation stands for the states a process holds:
`root[s]` is the generation a session's states are of. `PinnedSessions` maps each
session to a home, a process and a generation, and says that homes do not come back.

### TraceReplay

`replays` and `cache` are the server's two tables, `job` the replays with the sessions
they drive, `caller` the calls under way. What a state is, is the text it was started
from and the sentences run since; `Wrong` says which sentences fail where. A replay
reads its key, opens a session, adopts kept states (`CommonPrefix`, `Reusable`) or
starts, and runs sentence after sentence until it fails, is told to stop, or its
process goes.

### ToolDaemon

A daemon's main thread (`Acquire` to `Exit`), the threads that answer, the idle watch
and its clients: commands that ensure a daemon, call it or stop it. The socket's path
(`sock`) names the socket of one daemon, dead or alive, since binding replaces and
closing unlinks whatever the path names; the lock (`flock`) is a daemon's for its life
and a client's for the instant it probes it. Its tools are `open`, then `closed`, or `left`
where the close raised, which `close` logs before it gives the lock back all the same
(`ClosesThenReleases`); a call in flight may have them running `again` (`StartsAgain`).

### ResourceLedger

The proof is modelled beside the ledger that reads it. A hypothesis is a name, a
proposition and the resource it really is; the ledger sees the first two. `Intros` to
`Instantiates` are what sentences do to goals, external to the program; each of them
also runs `StepEvents`, the diff of `diff.py`, and the properties compare what the
queries of `query.py` answer with what happened to the resources.

### RocqText and Gate

A text is a sequence of sentences, a sentence a kind with a name and a wording. The first
four sections of `RocqText` are `lexer.py` and `decls.py` (`Lex`, `ParseBlocks`: where a
declaration's proof begins and ends), `body.py` (`Violations`), `assemble.py`
(`StubProofBodies`, `Assemble`) and `assumptions.py` (`ParseAssumptions`, read from the
end). The last, `Rocq`, is external: what compiling the same sentences declares, proves
and prints. In `Gate` an obligation is taken, a body is written sentence by sentence and
submitted; `Passes` is `Gate.run` with its static checks, structural recheck and assumption
checks, and `Integrate` the same over the whole file. A design is the source edited and
submitted to `RunDesign`, whose `Contract` is `contract.py` and whose checks key blocks as
the code does: the scripts by qualified name, where the last block of a name is read
(`SameKey`), and the proofs to be printed by bare name, where the first one is
(`DesignProved`). The properties compare what
passed with what `Rocq` makes of it.

## 3. Runs

Every run passes; together they take about twenty minutes with two workers.

| run | question | bounds | distinct states |
|---|---|---|---|
| `kills_and_edits` | Whatever kills and edits cross, is the graph sound? | 1 obligation and the root, 2 statements, 1 attempt, 3 processes; kills in every phase, every kind of edit, after kills too | 1,328,951 |
| `two_workers` | Do pins tell the truth, is the budget kept, is a paid proof used, does a run end? | 2 obligations, one not mockable, 2 statements, 2 attempts, 2 slots, 2 processes; edits restate or keep, only after a process that returned; kills in dispatch; fair | 787,163 |
| `provider_pause` | Is a wake-up ever lost, does a flapping provider make it spin, does a dispatch end? | 3 coroutines, 2 slots, 1 attempt, 1 outage each is waited for, wait 4, ladder 1-2-4, resets 0 or 3 ahead; fair | 39,625 |
| `supervision` | Do two runs ever meet, is a verdict ever another's, does every supervisor end? | 2 launches sharing a workroot, one fresh, recorded, its workers sandboxed, 1 restart; a worker and a `coqc` at a time; fair | 51,661 |
| `design_rounds` | Is what is proved of the design in use, and does the loop end? | 1 obligation in 2 wordings, 2 rounds, 2 requests (one adds, one replaces), 1 amendment, 1 repair, 1 verdict reopening, 2 attempts; kills in dispatch, between verdicts, at the start of an adoption and before its mark; compilations and replays that cannot run, anywhere; any number of processes; fair | 965,509 |
| `retired_children` | Is a design adopted whole, and does a proof cite what it gave up? | 2 obligations (one in 2 wordings), 3 rounds, 1 attempt; kills while dispatching, revising and about to adopt; replays that cannot run | 1,805,438 |
| `attempt` | Is an answer lost or believed, a process left, a node charged for another's fault? | 2 attempts, one of them sandboxed; the first worker leaves any of 7 answers, in any place | 1,259,268 |
| `pool` | Does a state meet the wrong process, does a session move, does a call end? | 2 sessions on 1 file, 1 process at a time (and its replacement after a close), 2 opens, 1 step each, 1 event of the world; fair | 182,220 |
| `traces` | Does a reused replay answer what a fresh one would? | 2 callers, 2 calls, 2 scripts that part at the second sentence, 2 texts, 1 restart, 1 edit; fair | 424,319 |
| `tool_daemon` | Does a stop that reports success mean it, and does it come? | 2 daemons, 2 clients, 2 commands, 1 signal; fair | 525,763 |
| `ledger` | Is what the ledger says of a name true of the resource? | 4 sentences, of which the first introduces a name, 3 names (symmetric), 3 propositions, one an instance of another, 2 goals | 223,987 |
| `gate` | Is what passes the gate what Rocq would call proved, and do gates add up? | bodies of 3 sentences, a second one of 2, out of two dozen that prove, cheat, print, reopen or declare; designs 2 edits away; a file with 3 axioms, one of them whitelisted, lemmas on it and on another, two results of one bare name, 1 obligation before the root | 223,531 |

Deadlock is checked where the model has no reason to stop: in `DesignRounds` a process
can always follow, and `ProveRun`, `ProviderPause` and `Supervision` have a last
stuttering step (`Exhausted`, `Done`) that is enabled only where the system is at rest.
The other runs leave it out, since they really may stop: a node that is decided, threads
and commands that have used up their bound, a closed proof, an integrated file. That nothing stops short of
that is what their liveness properties say (`AttemptsEnd`, `CallsEnd`, `TracesEnd`,
`StopsWhenAsked`).

Why the bounds are enough. Three processes are one to make a mess, one to resume
over it, and one to suffer from what that one left; two statements allow a
restatement and its undoing. One obligation under a root already has every relation
the properties speak of, a dependency and its dependent; siblings and two waves need
the second (`two_workers`). Three coroutines over two slots are one that holds the
pause, one that joins it and one that queues for the slot. `RepauseGrace` keeps its
ratio of 4 to the first backoff step (120 s to 30 s), and the wait of 4 ends in the
middle of the ladder, so that a step has to be cut. Two launches over one workroot
are enough for a refusal of the second lock with the first in hand, for a fresh start
that meets a run, and for a verdict left by another.

In `design_rounds` one obligation in two wordings is restated, replayed, contested,
corrected and amended; caps of one are each reached and each refuse. Dropping a child
and taking it back needs a second child, which keeps the design from being empty, and a
third round: `retired_children`. Two attempts are one that may leave anything and one
that meets its remains. One process with two sessions has every conflict over a lock, a
restart and a table; a second process adds only a choice, which the first session's
spawn and the replacement after a close already make. Two calls are one that leaves
states and one that takes them up. Four sentences are an introduction, two steps that
multiply or hide a resource (destruct, rename, split, swap, persist) and one that
consumes it.
What the bounds leave open, the theorems of section 5 close for the properties they
cover.

A body of three sentences can end the proof, declare something and reopen a proof, which is
the shortest sequence that the splitter and the checks on the body could read differently.

`two_workers` is restricted on purpose: with edits after a kill or kills elsewhere
`PinsAreHonest` fails, and section 4 says how. So are the kills of `retired_children`, since `DesignIsWhole` fails with kills between the
writes of an adoption, and the edit of `traces`; those of `design_rounds` only for the size of
the run. The theorems have as hypotheses what their properties need and no other bound.

### Fairness

* `ProveRun`: `WF(Advance)`. The process's own next step happens unless it is killed:
  a worker answers or meets the scheduler's deadline (`schedule.py`, `deadline_s`
  with `DEADLINE_GRACE_S`), a gate has its timeout, and the event loop runs what is
  ready. Which step is up to the scheduler; starts and kills are not fair.
* `ProviderPause`: weak fairness of each coroutine, of the probe, of the end of a
  sleep and of time, for the same reasons; `claude_probe` has its own timeout.
* `Supervision`: weak fairness of supervisors and of the end of what a child waits for, a
  worker or a `coqc` (the child's clock); none of the end of what outlived its child.
  A child's own step is strongly fair: the alternative, sessions started again and
  again between two steps of their parent, is excluded by the attempt budget, which
  this model does not count. Crashes, signals and dead supervisors are never fair:
  `SupervisionEnds` holds with none of them and with all of them.
* `DesignRounds`: `WF(Work)`. Roles answer or their clocks run out
  (`approver_seconds`, the budget of a proposal), and the process goes on; starts and
  kills are not fair.
* `WorkerAttempt`: weak fairness of the scheduler's own steps, of the deadline's timer
  and of each kill's thread. None of the worker, which may hang for ever.
* `PetanquePool`: strong fairness of each thread, which covers a refresh that waits for
  a lock others take again and again; weak fairness of watchdogs. Nothing makes `pet`
  answer.
* `TraceReplay`: weak fairness of whatever thread can move. A call of `pet` ends by its
  watchdog, which is `PetanquePool`'s. The bounds leave each thread few steps.
* `ToolDaemon`: weak fairness of a daemon's main thread only. Nobody is bound to call,
  to answer or to stop.
* `ResourceLedger` and `Gate` have no liveness.

## 4. Where the code and its words part

Each row is a behaviour the models have, and that a sentence of the repository denies.
No run checks these sentences; each was met as a counterexample or while a property was
given its exact form.

| the sentence | what happens |
|---|---|
| `plan.py:190`, a restated child leaves the root's pin "where its proof was checked" | a proof cut off between its row and its node is salvaged after a restatement and pinned to the new epoch (`resume.py:100`): stale, but current by its pins. Only the final whole-file gate can still refuse it. (`two_workers` with `EditAfterKill = TRUE`: `PinsAreHonest` fails) |
| `plan.py:225`, proved children stay "because the root's proof may cite them" | the root was proved against an obligation still stubbed; dropped from the plan it is unproved, goes to the attic, and no stale edge replays the proof that cites it |
| `design.py:441`, "nothing stale is ever injected as a proved sibling" | edges leave the root only; a proved obligation that cites a restated sibling is not replayed and is injected (`plan.py:180`) |
| `plan.py:197`, a plan's proof is gated and taken | for a stuck or contested child `record_proof` is refused by the lattice (`plan.py:199`), and the run ends with `InvalidTransition` |
| `outage.py:21`, every dispatcher waits "before starting anything new" | a coroutine past the event and queued for a slot gets the slot of the attempt that met the outage, and starts (`schedule.py:548`) |
| `supervise.py:235`, `_stopped` is "`True` when it was" set | a SIGTERM between the timer and the loop's next step is kept in an event nobody reads again: a new child starts (`supervise.py:195`) |
| `amendments.py:374`, a rejected candidate: "the graph must not point a resumed run at it" | the candidate is in the graph before the approver is asked (`amendments.py:458`): a process killed while it thinks, or ended by a `ToolchainError` out of the approver's adjustment or the replay after it (`design.py:335`, `design.py:475`; caught at neither `amendments.py:459` nor `amendments.py:489`), leaves it there, and the next one proves against it (`sanctioned` becomes "cut", then stays so: `OnlyApprovedDesigns` excepts it) |
| `design.py:441`, "so a stale edge is examined" by every run | a `coqc` that cannot run in the middle of a full replay ends the process (`design.py:475`; uncaught at `amendments.py:459`, `490`, `879` and `design.py:837`), and so does a kill; the next one replays only proofs with stale edges. What was not reached stands: proofs of an earlier design, a root's proof that cites a retired obligation (`inherited`: `ProofsAreOfThisDesign` and `NothingRetiredIsCited` except it) |
| `supervise.py:18`, a signal kills "the workers, their ``coqc``" | a `coqc` the child's gate runs (`schedule.py:739`) is started in a session of its own (`proc.py:96`) outside every sandbox, and outlives the killed group until it ends by itself; so do workers that are not sandboxed |
| `runners/cli.py:9` and `proc.py:3`, a worker's `coqc`, "its ``pcp mcp`` server and that server's petanque die with it" | the `coqc` of `pcp check` (`project.py:296`, `proc.py:96`) and the `pet` of `pcp mcp` (`petanque.py:306`) are started in sessions of their own, which `killpg` does not reach; without bubblewrap they survive the worker (`sandbox.py:24` says why `--unshare-pid` is there) |
| `daemon.py:421`, "the lock is released only after the tool set closed (every pet stopped)" | a close that raises (`server.py:345`: one session or pool that fails ends the loop) is logged (`daemon.py:247`) and the lock released with pets running; a call in flight may start a pool after the close (`server.py:436`). The next daemon's pets and this one's then run at once, until this process ends |
| `gate.py:320`, stubs are "the *per-node* gate (Claim 1)", and integration has none | a lemma of the prefix that rests on an axiom outside the whitelist is a stub whose name is accepted (`gate.py:355`): every obligation and the root pass on it, and the integration refuses the whole |
| `gate.py:480`, a design may not supply "an ``Admitted`` result" | of two results with one bare name only the first block is looked at and printed (`gate.py:499`, `gate.py:620`), and of two scripts with one qualified name only the last body is scanned (`gate.py:491`): `N.root` may be `Admitted` if `M.root` before it is proved |
| `protocol.py:307`, the requests of a `qed` answer are "dropped by the scheduler" | a `qed` the gate refused becomes `stuck` and keeps its requests, which are then taken up |
| `schedule.py:712`, the backstop returns "exactly the shape a runner's own kill produces" | a stuck answer loses its requests and its evidence that way |
| `server.py:1208`, the same call "never starts a second one" | two callers that both waited for a third script's replay to stop start one each; the one overwritten in the table runs on and can no longer be stopped |
| `daemon.py:434`, the socket that is unlinked is "a dead daemon's leftover" | another daemon may have bound the path between the failed request and the unlink; it serves on, and nobody reaches it |

### Known exceptions

Each property holds where its run checks it and not beyond. These are the behaviours
just outside.

* `two_workers` with `EditAfterKill = TRUE`: a node whose worker was killed and
  whose statement was then edited is open when `resume_incomplete` looks at it
  (`resume.py:103` closes rows of claimed nodes only), and its row stays claimed, against
  `resume.py:27`, "a ``claimed`` row is a live worker, and there is none".
* `two_workers` with `KillPhases <- AllPhases`: `PinsAreHonest` fails. A kill between
  `add_node` and `add_edge` (`plan.py:180`) leaves a child without an edge, which later
  processes add only if they restate it; nothing then repins or replays what cites it.
* `two_workers` with three processes, `"drop"` among the `EditKinds` and `EditAfterKill`:
  `NoProofIsLost` fails. A child dropped from the plan while its gated row waits to be
  salvaged is retired, and tried anew when it is stated again.
* `supervision` with `Recorded = {}`: `FinishedMeansReturned` fails. Runs that do not
  record share their workroot's outcome file; a child refused its lock writes it and
  another run's supervisor believes it (`supervise.py:182`).
* `supervision` with `Sandbox = FALSE`: `TerminatedMeansStopped` fails. Workers are
  sessions of their own and outlive the killed group (`proc.py:212`). The gate's `coqc`
  may outlive it with either value, and the property does not promise otherwise.
* `design_rounds`: a process cut off between acceptance and the end of the replay, by a kill
  or by a `coqc` that cannot run, leaves standing proofs unreplayed until something makes
  their pins stale. What the next process inherits so is excepted by name (`inherited`), and
  what it was asked of the approver likewise (`sanctioned = "cut"`); neither is excepted for
  what a process does itself. With `"edge"` in `KillAt` `PinsAreHonest` fails, since a child
  may be left without its edge. A kill between a verdict's reopening
  and its count allows one reopening more. The request of a second asker is merged into
  the first's (`schedule.py:268`), and when it is refused only the first is retried:
  `RefusalsAreRetried` is about the asker the request is credited to. The caps of
  `apply` and of the loop count different things (`applied`, rounds with a change).
* `retired_children` with `"children"` or `"edge"` in `KillAt`: `DesignIsWhole` fails. A kill
  between the transactions of an adoption leaves a part of it, and the meta row written
  before them says that it is adopted (`design.py:401`).
* `attempt`: `NoStrayWorker` is about the worker's process group, and about sessions of
  their own only when the worker is sandboxed: without a sandbox a `coqc` or a `pet` that is
  apart survives every kill. A kill waits for a thread of a pool the gates share; if the attempt is
  cancelled before it gets one, the kill is withdrawn and the worker outlives the attempt
  (`proc.py:212`). `loose` keeps these, and the groups of a crashed run, and
  `NoStrayWorker` excepts them. A torn `answer.json` counts as an answer, so a CLI that
  failed after tearing it is charged to the node.
* `pool`: two opens that find a process stale refresh it twice (`pool.py:96`); a watchdog
  that began to run when its call returned kills the next call (`petanque.py:494`); a
  session missing from the list a restart swaps in is not told that it is lost, and
  learns it from `check_handle`, which `NoForeignState` rests on; a restart that fails
  tells nobody.
* `traces` without the guard of `Edit`: an edit between the reading of a key and the
  opening of the session keeps states under a key they are not of (`trace.py:602`), and
  `AnswersAsIfFresh` fails. A waiter on a replay somebody else stopped gets what was
  replayed so far, with no sign that there was more; it also shares the other's
  timeout and options. `_replay_job` waits for the stopped replay without a limit, so a
  call may exceed its `wait_s`.
* `tool_daemon`: an idle stop decides under a lock and stops outside it (`daemon.py:260`),
  so a call that has just begun is cut off; a close that raises leaves pets behind the
  released lock, and a call in flight may start them again, so that `OneToolSet` promises
  exclusion only while neither daemon has given the lock back; a client that probes the lock holds it for an
  instant, and a daemon that starts in that instant gives up.
* `ledger`: a compound sentence that spends `H` and gives another hypothesis the name `H`
  reads as an update of `H`; a sentence applied to all goals that leaves some open yields
  an Unknown event without a name; a swap of two names one of whose propositions is an
  instance of the other reads as an instantiation for certain (`Renames` keeps this out);
  a persistent hypothesis used without being named is not seen as used. A name given
  again after a renaming shares the family of the old one: after `iIntros "H"`,
  `iRename "H" into "K"`, `iDestruct "K" as "[K H]"`, `iDestruct "H" as "#L"` and
  `iFrame "K"`, `where_did_it_go("H")` says that `H` was framed, while what `H` stood for
  last is there as `L`; the answer is true of `K` and certain, where `README.md:35` of the
  repository promises `unknown` when the ledger cannot tell. `FateIsHonest` says what does
  hold, of the family.
* `gate`: the structural recheck does not read what `Time` and its like wrap, and leaves it
  to the static rules (`RecheckStandsAlone` says so in its premise). A name printed without
  its modules matches every whitelisted or stubbed name that ends in it
  (`assumptions.py`, `SuffixMatch`), so a new axiom with the last component of a known one
  would pass by its name; what keeps it out is that a body declares nothing.
  Of blocks that share a name a design's checks read one, the first or the last
  (`DesignKeepsResults` asks for the proof of the first only). Sections, attributes,
  `Proof using`, the probe for unused premises and stubbed twins are not in the model.

## 5. Proofs

Each of the eight proof modules has the same argument: an inductive invariant, a lemma per
kind of step saying that the step keeps it, and the properties from it. `Inductive` is the
name of the invariant's own theorem. The assumptions are the named `ASSUME`s of the
modules, types of the constants except where said; a theorem that needs more has it as a
hypothesis in its statement.

| theorem | property | run that checks it on an instance, if one does |
|---|---|---|
| `ProveRunProofs!TypeCorrect` | `TypeOK` | |
| `ProveRunProofs!BodiesAreOfStatements` | `BodyIsOfStatement` | `kills_and_edits` |
| `ProveRunProofs!LedgerKept` | `KeepsLedger` (refinement) | `kills_and_edits` |
| `ProveRunProofs!ContestsAreForTheHuman` | `ContestIsForTheHuman` | |
| `ProviderPauseProofs!TypeCorrect` | `TypeOK` | |
| `ProviderPauseProofs!NoWakeupIsLost` | `NobodyWaitsForNothing` | `provider_pause` |
| `ProviderPauseProofs!SlotsHandedOver` | `SlotsAreHandedOver` | |
| `ProviderPauseProofs!PauseBounded` | `PauseIsBounded` | |
| `ProviderPauseProofs!ParkedForAReason` | `GivenUpForAReason` | |
| `ProviderPauseProofs!SpentIsSpent` | `ExhaustedIsFinal` | |
| `ProviderPauseProofs!NoSpinning` | `ResumesAreApart` | `provider_pause` |
| `ProveRunProofs!BudgetIsRespected` | `BudgetRespected` | `two_workers` |
| `ProveRunProofs!NoProofIsEverLost` | `NoProofIsLost`, if no edit drops an obligation or none follows a kill | `two_workers` |
| `ProveRunProofs!PinsTellTheTruth` | `PinsAreHonest`, without kills in `reconcile` and edits after a kill | `two_workers` |
| `SupervisionProofs!TypeCorrect` | `TypeOK` | |
| `SupervisionProofs!LocksAreOfTheLiving` | `LocksDieWithTheirHolder` | |
| `SupervisionProofs!RunsAreExclusive` | `RunsAreAlone` | `supervision` |
| `SupervisionProofs!FinishedIsOwn` | `FinishedMeansReturned`, if every launch records | `supervision` |
| `SupervisionProofs!TerminationIsComplete` | `TerminatedMeansStopped`, if workers are sandboxed | `supervision` |
| `DesignRoundsProofs!TypeCorrect` | `TypeOK` | |
| `DesignRoundsProofs!CandidatesAreApproved` | `OnlyApprovedDesigns` | `design_rounds` |
| `DesignRoundsProofs!PinsStayHonest` | `PinsAreHonest`, without kills in `edge` | `design_rounds` |
| `DesignRoundsProofs!DesignStaysWhole` | `DesignIsWhole`, without kills in `children`, `edge` | `retired_children` |
| `DesignRoundsProofs!NothingRetiredIsEverCited` | `NothingRetiredIsCited` | `retired_children` |
| `DesignRoundsProofs!ProofsStayOfTheDesign` | `ProofsAreOfThisDesign` | `design_rounds` |
| `DesignRoundsProofs!RefusedRequestsAreRetried` | `RefusalsAreRetried`, with at most one asker | `design_rounds` |
| `WorkerAttemptProofs!TypeCorrect` | `TypeOK` | |
| `WorkerAttemptProofs!AnswerIsKeptEver` | `AnswerIsKept` | `attempt` |
| `WorkerAttemptProofs!ProofIsGatedEver` | `ProofIsGated` | `attempt` |
| `WorkerAttemptProofs!NoStrayWorkerEver` | `NoStrayWorker` | `attempt` |
| `WorkerAttemptProofs!ChargedForItsOwnEver` | `ChargedForItsOwn` | `attempt` |
| `WorkerAttemptProofs!GateTheorem` | `GatedMeansProved` | `gate` |
| `PetanquePoolProofs!TypeCorrect` | `TypeOK` | |
| `PetanquePoolProofs!LocksOfCalls` | `LocksAreOfCalls` | |
| `PetanquePoolProofs!NoForeignStateEver` | `NoForeignState` | `pool` |
| `PetanquePoolProofs!SessionsStayPinned` | `SessionsArePinned` (refinement) | `pool` |
| `TraceReplayProofs!TypeCorrect` | `TypeOK` | |
| `TraceReplayProofs!AnswersAreAsIfFresh` | `AnswersAsIfFresh` | `traces` |
| `ToolServerProofs!TypeCorrect` | `TypeOK` | |
| `ToolServerProofs!OneToolSetEver` | `OneToolSet` | |
| `ToolServerProofs!StoppedMeansItEver` | `StoppedMeansIt` | `tool_daemon` |
| `ToolServerProofs!LedgerInvariant` | `LedgerInv` | |
| `ToolServerProofs!ConsumptionTheorem` | `ConsumptionIsReal` | `ledger` |
| `ToolServerProofs!UnusedTheorem` | `UnusedIsUnused` | `ledger` |
| `ToolServerProofs!FateInvariant` | `FateInv` | |
| `ToolServerProofs!FateTheorem` | `FateIsHonest` | `ledger` |

* **ProveRun.** `BodyIsOfStatement` is not inductive: salvage writes a body out of a
  row, and `RecordNode` one out of a coroutine's memory. `RowsKeepTheirEpoch` says
  that a row of the current epoch is of the current statement (every restatement
  bumps the epoch), `HandIsOfStatement` that an accepted proof in memory is of its
  node's statement (nothing restates while workers run, `CoroutinesAreDispatched`),
  `ReconciledSoFar` the same inside the plan's loop. The ledger's step follows from
  the invariant before and after.
* **ProviderPause.** `SlotInv` files the queue: it holds the queued coroutines, each
  once, so that a slot handed over is a slot taken. `PauseInv` and `CoroutineInv` tie
  the event, the holder and the waiters together. `WaitInv` does the accounts:
  `waited + sleep <= MaxWait`, and that a pause which will believe its probe has
  lasted a `Gap` since the last resume. The last needs
  `BackoffAssumption`, `Backoff[1] <= RepauseGrace` (30 s and 120 s in the code).
* **Supervision.** `PastMeansHeld` says that whoever is past a lock holds it, which
  with one holder per lock gives exclusion; `Places` that a supervisor in its backoff
  has lost its child; `Verdicts` that an outcome file in a record is its own child's;
  `Workers` that what runs is a living run's and that no worker is an orphan if workers are
  sandboxed.
* **ProveRun, its budget.** Counting is the argument: the rows charged to one epoch are at
  most `MaxAttempts`; a claimed coroutine's node has an attempt left, a working one's is
  in its last row already (`BudgetInv`). Closing and finishing a row charge at most what
  was charged when it was started; an epoch that is bumped starts with none.
* **ProveRun, paid proofs.** A proof is `Due` while a row of the present epoch holds it
  and its node does not. `PlaceInv` says where a process stands to its plan, over every
  kill and edit: what is reconciled agrees with it (`PlanSettles`), and whoever works on
  a node or reopens it has it claimed (`ClaimsAreOfHolders`). With that, a node a proof
  is due to stays claimed and in the plan, resume has yet to come to it, and it is in
  the dispatch only for the moment before its proof is recorded (`DueIsHeld`). If no
  edit follows a kill, the plan is moreover the one that was dispatched
  (`DueIsSettled`), so that no process is refused or has anything to retire before the
  proof is given; if no edit drops an obligation, no node a proof is due to is retired.
  Where a drop and an edit after a kill are both allowed, TLC finds the proof retired
  with its node.
* **ProveRun, pins.** `PinInv`, on top of both, follows a proof of the root from the
  gate to the repin. The rows and the hand of the root cite only what the root demands
  (`CitesAreDemanded`) and, between a proof and its repin, statements that are current
  (`FreshBeforeRepin`; `DueIsFresh` across a kill, by `DueIsSettled`); a child's edge
  keeps the epoch it had until then (`EdgesFollow`). Both hypotheses are needed: without
  either TLC finds a violation on a small instance.
* **DesignRounds.** `TInv` and `BaseInv` say where a design is in hand and from when there
  is something to prove. `SanctionInv`, `PinInv`, `WholeInv`, `CiteInv` and `BehindInv` say of each place
  of the driver what holds of the graph there and what is still to be done, which is what a
  process cut off in that place leaves undone. Everything holds with a `coqc` that cannot run
  anywhere, and with kills anywhere but for two theorems, which exclude the places where a
  kill breaks their property and no others. `SanctionInv` says that a candidate is the
  development only while it is judged, or after a process was cut off there. `BehindInv` bounds
  what is behind by what was inherited, wherever nothing is being adopted or salvaged; the replay of an
  adoption goes over every standing proof, and what it reaches leaves both sets. `CiteInv`
  says that the root's proof, if it is not behind, cites live children only, and that while a
  design is adopted it is behind. `RetryInv` accounts for a
  withheld retry from the request to its answer.
* **WorkerAttempt.** `InFlight` says that the attempt under way has the only claimed row,
  `Killing` that a kill is under way only where it was asked for, `Decided` that the
  result in memory is what the directory and the stream say, and `RowOK` the same of a
  closed row. `Walled` says that a sandbox whose leader is gone is empty.
* **Gate** (in `WorkerAttemptProofs`, as what an attempt asks). The invariant, `Backed`, is a
  lemma only: a verdict that passed is `Passes` of some bodies, and its text their assembly. The
  work is in what compiling such a text does. Lexing and compiling are recursive functions
  of a text's length, and `LexJoined` and `CompileJoined` take them over a concatenation: a
  text is read in parts if each part but the last has ended. `SentenceGoes` says what any
  sentence does to the *outline* of a compilation (what is stated, which proofs are open,
  modules, settings), and that it never takes back what is declared (`TextKeeps`). A body the
  static checks pass is lexed to sentences that leave the outline alone (`FineBody`), so
  that a rendered obligation adds its statement and no other, proved if it has a body
  (`BlockGoes`); by induction on the plan, so do all (`NodesGo`, `AssemblyCompiles`). What
  the file holds after the root adds the same after the obligations as after the root's
  own proof (`Lockstep`, `WholeIs`). The plan, the bodies, their sentences and the file are
  arbitrary. `FrozenAssumption` is what is taken of the file: it compiles, the parser and
  Rocq agree on it up to the end of the anchor's proof, stubbing its prefix leaves what it
  states as it was, and nothing after the anchor has an obligation's name. The first is what
  `prove/design.py` establishes of a design before it plans on it; the others are about the
  file's own text, which no worker writes, and TLC checks them of the run's. Neither the
  structural recheck nor the assumption report is used in the argument: the static checks
  and a compilation that succeeds are enough for this property.
* **PetanquePool.** `LocksAreOfCalls` says who holds a process's lock. A process's
  generation moves only under the lock, so the handle that was checked is still good when
  `pet` is called. `Processes` counts the pool, so that a spawn finds room. The refinement
  maps a session to the run of its process in which it was opened: a new run is one no
  session has been in.
* **TraceReplay.** `JobOK` says that what a replay has run is the beginning of its script,
  that its states are of the text it was opened on and that it ends for a reason;
  `CacheIsOfItsText` the same of what is kept; `CallersWaitForTheirs` that a caller waits
  for a replay of its own script. The longest common beginning of two scripts is a
  cardinality in the model, and its lemmas count; no induction is needed.
* **ToolDaemon.** `Locked` says who holds the lock, `ToolsOf` where a daemon may have tools and that it has tried to close them before the lock
  goes, and
  `Answerers` what a client knows of the daemon that answered: daemons only go forward, so
  what it has seen stays true.
* **ResourceLedger.** None of the three properties is inductive. `Accounted` gives an
  account of every name that ever stood for something: until an event says that it was
  used, its resource is held under that name only, and is spent only while a spatial
  hypothesis of that name is left; `Unique` and `SpatialUnspent` say that a resource has
  one name in one goal, and that a spatial one is not yet spent. `Sound` is what a
  sentence must do to keep this whatever the sentence is, and `SoundKeeps` the one lemma
  that steps the invariant; most sentences change the focused goal only, and `Gives` asks
  the same of its children alone. Two facts need an induction: the longest tail of goals a
  sentence left alone (`Untouched`), and that goals which pass their names on in a circle
  all have the same (`RoundTrip`). That there are finitely many names is needed for
  renamings of two. `FateInv` adds what became of a name: a spatial name never goes
  without an event about it (`Traced`), what an event says is gone no goal has held since
  (`GoneForGood`), and what it says was used and stays was lasting (`UsesAreOfLasting`).
  `FateIsHonest` speaks of a name's family, the names it was renamed from or to; of what
  the name alone stood for last it is false (section 4), on a proof longer than the run's
  bounds.

Only model-checked: of `gate`, `RestsOnKnown`, `RecheckStandsAlone`, `GatesAddUp` and
`DesignKeepsResults`, which are about what the parser finds in a text of any length and
what is printed at its end; and the liveness properties
`EveryRunEnds`, `DispatchEnds`, `SupervisionEnds`, `RunsEnd`, `AttemptsEnd`, `CallsEnd`,
`TracesEnd`, `StopsWhenAsked`, since liveness under fairness and `ENABLED` are out of
this prover's reach. The library's induction theorems are out of it too, since they take
an operator as a parameter; where a proof needs an induction (`Untouched`, `RoundTrip`), it
takes the least member of the set of counterexamples instead, and for texts and plans the
set of sequences for which the fact holds (`FromZero`, `FromEmpty`).

## 6. Not modelled

* In the modelled parts: the graph's events, blobs, costs and schema migrations;
  recovered partial proofs and evidence text; the patterns by which `detect_outage` tells
  outages apart, and reset times as text; the decomposer's own attempts under the pause;
  the pid file and log of a supervisor; `pet`'s wire protocol; the tools of the MCP server
  other than `proof_trace`, each one guarded call over a session; anonymous hypotheses,
  pure facts, modalities and fractions in the ledger.
* What a design, an amendment or a contest says. Whether it is valid is an arbitrary
  answer of the gate and the roles; that `sketch.py`, `amend.py` and `decompose.py` build
  the text they mean is not a question for these models.
* The texts themselves. `RocqText` and `Gate` read sentences, not characters, and leave out
  sections, attributes, `Proof using`, the probe for unused premises and stubbed twins. `Render`
  ends every proof in `Qed`: a transparent node's `Defined` (`assemble.py:57`, `gate.py:365`,
  `gate.py:584`) and the refusal to stub a node that is not mockable (`assemble.py:54`) are left
  out. `Rocq` reads the sentences `pcp`'s own lexer (`Lex`) finds: the two readers may part over
  blocks, proofs and commands, not over where a sentence or a comment ends. In
  `ProveRun`, `DesignRounds` and `WorkerAttempt` the verdict of the gate is a
  nondeterministic choice, constrained by what the assembly makes citable; whether `coqc`
  is right is not a question for these models.
* Some steps are coarser than the code, where a kill inside them is harmless.
  `ProveRun!RepinEdges` and `CloseClaimedRow` are one action for one transaction per edge and
  per row (`schedule.py:154`, `resume.py:142`): the next process does the rest.
  `WorkerAttempt!ReadResult` reads a half-written `proof.v` as a claimed proof
  (`protocol.py:378`), as the code does; the gate decides.
* Packets, the sandbox, provider streams, the recorder, searches, shapes and diagnoses of
  goals, the command line, the dashboard, the evaluation: pure functions over text, or
  I/O. They are the larger part of the lines of the repository, and most of their hazards
  are in wording and layout, which tests reach and a model would only transliterate.

## 7. Plan

1. **Weaker hypotheses** for `PinsTellTheTruth`, `PinsStayHonest` and `DesignStaysWhole`:
   which of the writes of a plan or an adoption may be cut off without harm.
2. **`Gate`**: that the blocks the parser finds in a spliced text are those of the pieces,
   and from it `RecheckStandsAlone`; that the trailer's lines are the last ones printed, and
   from it `RestsOnKnown`. `FrozenAssumption` could then be derived of well-nested files.
3. **Sharper models**: sections and attributes in `RocqText`; the tools of the MCP server
   other than `proof_trace` over `PetanquePool`.
