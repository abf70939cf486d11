----------------------------- MODULE TraceReplay -----------------------------
(***************************************************************************)
(* `proof_trace` of the tool server, for one lemma: a script is replayed on *)
(* a thread of its own, callers wait for it, give up waiting, come back for *)
(* it, or stop it with an edited script.  A replay adopts the states the    *)
(* last one left in a process as far as the scripts agree, and runs the     *)
(* rest; processes restart and the text before the lemma is edited under    *)
(* it.  What a state is, is the text it was started from and the sentences  *)
(* run since.  Which process a session gets, and its calls, are             *)
(* PetanquePool's.                                                          *)
(***************************************************************************)
EXTENDS Naturals, Sequences

CONSTANTS
    Caller,
    Text,         \* what replay_key tells apart of the file before the proof
    Script,       \* the scripts callers ask for
    Wrong,        \* <<text, sentences>>: after the others, the last one fails
    Proc,         \* processes of the pool
    NoJob, NoText,
    MaxCalls,     \* bound: calls of proof_trace
    MaxRestarts,  \* bound: restarts of a process
    MaxEdits      \* bound: edits of the text before the lemma

ASSUME DataAssumption ==
    /\ NoText \notin Text \cup Proc /\ Proc # {}
    /\ \A s \in Script : s \in Seq(STRING) \ {<<>>}
ASSUME BoundAssumption == {MaxCalls, MaxRestarts, MaxEdits} \subseteq Nat /\ NoJob \notin Nat

Job == 1..MaxCalls

VARIABLES
    text,      \* in the file now
    twin,      \* in the statements-only twin on disk
    gen,       \* PetProcess.generation
    cache,     \* ReplayCache, by key
    replays,   \* PcpServer._replays, by key
    job,       \* the _Replay objects, with the session each one drives
    caller,    \* the calls under way
    calls, restarts, edits

world == <<text, restarts, edits>>
vars == <<twin, gen, cache, replays, job, caller, calls, world>>

NoEntry == [proc |-> NoText, gen |-> 0, root |-> NoText, tactics |-> <<>>]
NoCall == [pc |-> "idle", script |-> <<>>, key |-> NoText, job |-> NoJob]

\* A replay of `script` registered under `key`.  `own` is the key its thread reads for
\* itself; `root`, `ran` and `made` are its session: the text, the sentences, the
\* generation of its states.
NewJob(key, script) ==
    [st |-> "new", key |-> key, script |-> script, cancel |-> FALSE, incremental |-> TRUE,
     own |-> NoText, proc |-> NoText, made |-> 0, root |-> NoText, ran |-> <<>>,
     reused |-> FALSE, end |-> "none"]

NoReplay == [NewJob(NoText, <<>>) EXCEPT !.st = "none"]

\* A replay that has ended is kept as long as a call or the table holds it.
Held == {caller[c].job : c \in Caller} \cup {replays[t] : t \in Text}
Kept(jobs) == [j \in Job |-> IF jobs[j].st = "done" /\ j \notin Held' THEN NoReplay ELSE jobs[j]]
Becomes(j, r) == job' = [job EXCEPT ![j] = r]

-----------------------------------------------------------------------------
(* The callers *)

Call(c) ==
    /\ caller[c].pc = "idle" /\ calls < MaxCalls
    /\ calls' = calls + 1
    /\ \E s \in Script :
          caller' = [caller EXCEPT ![c] = [pc |-> "looking", script |-> s, key |-> text, job |-> NoJob]]
    /\ UNCHANGED <<twin, gen, cache, replays, job, world>>

\* The key is only needed to find the replay.
Waiting(call, j) == [call EXCEPT !.pc = "waiting", !.key = NoText, !.job = j]

\* _replay_job, its first look at the table: the same script is joined, another
\* one told to stop.
Look(c) ==
    LET j == replays[caller[c].key] IN
    /\ caller[c].pc = "looking"
    /\ \/ j = NoJob /\ caller' = [caller EXCEPT ![c].pc = "creating"] /\ UNCHANGED job
       \/ /\ j # NoJob /\ job[j].script = caller[c].script
          /\ caller' = [caller EXCEPT ![c] = Waiting(@, j)] /\ UNCHANGED job
       \/ /\ j # NoJob /\ job[j].script # caller[c].script
          /\ caller' = [caller EXCEPT ![c].pc = "stopping", ![c].job = j]
          /\ job' = [job EXCEPT ![j].cancel = TRUE]
    /\ UNCHANGED <<twin, gen, cache, replays, calls, world>>

OldStopped(c) ==
    /\ caller[c].pc = "stopping" /\ job[caller[c].job].st = "done"
    /\ caller' = [caller EXCEPT ![c].pc = "creating", ![c].job = NoJob]
    /\ UNCHANGED <<twin, gen, cache, replays, calls, world>>
    /\ job' = Kept(job)

\* The second time under the lock: the table is not looked at again.
Create(c) ==
    /\ caller[c].pc = "creating"
    /\ \E j \in Job :
          /\ job[j].st = "none" /\ \A i \in Job : job[i].st = "none" => j <= i
          /\ replays' = [replays EXCEPT ![caller[c].key] = j]
          /\ caller' = [caller EXCEPT ![c] = Waiting(@, j)]
          /\ job' = Kept([job EXCEPT ![j] = NewJob(caller[c].key, caller[c].script)])
    /\ UNCHANGED <<twin, gen, cache, calls, world>>

\* _await: the answer, taken out of the table if it is still there ...
Collect(c) ==
    LET j == caller[c].job IN
    /\ caller[c].pc = "waiting" /\ job[j].st = "done"
    /\ replays' = [k \in Text |-> IF k = job[j].key /\ replays[k] = j THEN NoJob ELSE replays[k]]
    /\ caller' = [caller EXCEPT ![c] = NoCall]
    /\ UNCHANGED <<twin, gen, cache, calls, world>>
    /\ job' = Kept(job)

\* ... or "still replaying", after wait_s.
WaitIsOver(c) ==
    /\ caller[c].pc = "waiting" /\ job[caller[c].job].st # "done"
    /\ caller' = [caller EXCEPT ![c] = NoCall]
    /\ UNCHANGED <<twin, gen, cache, replays, job, calls, world>>

\* proof_close of the session a registered replay drives, and the server's close.
CloseSession(j) ==
    /\ job[j].st = "running" /\ ~job[j].cancel
    /\ \E k \in Text : replays[k] = j
    /\ job' = [job EXCEPT ![j].cancel = TRUE]
    /\ UNCHANGED <<twin, gen, cache, replays, caller, calls, world>>

-----------------------------------------------------------------------------
(* A replay's thread: _trace *)

\* replay_key.
KeyOf(t) == t

\* The key is read, then the file again, for the twin the session is opened on: one
\* step, since Edit stays out of it.
Open(j) ==
    /\ job[j].st = "new"
    /\ twin' = text
    /\ \E p \in Proc : Becomes(j, [job[j] EXCEPT !.st = "opened", !.own = KeyOf(text), !.proc = p])
    /\ UNCHANGED <<gen, cache, replays, caller, calls, world>>

Agree(s, t, k) == k <= Len(s) /\ k <= Len(t) /\ \A i \in 1..k : s[i] = t[i]

\* A faulty variant: a sentence too many is taken for common.
CommonAndOne(s, t) ==
    CHOOSE k \in 0..Len(t) : /\ k = Len(t) \/ ~Agree(s, t, k)
                             /\ \A i \in 0..(k - 1) : Agree(s, t, i)

\* ReplayEntry.common_prefix
CommonPrefix(s, t) ==
    CHOOSE k \in 0..Len(t) : Agree(s, t, k) /\ ~Agree(s, t, k + 1)

\* An entry whose states are in this session's process, in its present generation.
Reusable(j) ==
    LET entry == cache[job[j].own] IN
    job[j].incremental /\ entry.proc = job[j].proc /\ entry.gen = gen[job[j].proc]

Resume(j) ==
    /\ job[j].st = "opened" /\ Reusable(j)
    /\ LET entry == cache[job[j].own] IN
       Becomes(j, [job[j] EXCEPT !.st = "running", !.reused = TRUE, !.made = entry.gen, !.root = entry.root,
                     !.ran = SubSeq(job[j].script, 1, CommonPrefix(entry.tactics, job[j].script))])
    /\ UNCHANGED <<twin, gen, cache, replays, caller, calls, world>>

\* petanque/start elaborates the twin as it is by now.
Start(j) ==
    /\ job[j].st = "opened" /\ ~Reusable(j)
    /\ Becomes(j, [job[j] EXCEPT !.st = "running", !.made = gen[job[j].proc], !.root = twin])
    /\ UNCHANGED <<twin, gen, cache, replays, caller, calls, world>>

\* Its answer; the session is the tool server's from here on.
Ended(j, how) ==
    Kept([job EXCEPT ![j] = [NewJob(@.key, @.script) EXCEPT !.st = "done", !.end = how, !.cancel = job[j].cancel,
                               !.own = job[j].own, !.ran = job[j].ran]])

\* A faulty variant: an error of the thread is kept, and nobody told.
ErrorIsKept(j) == [job EXCEPT ![j].st = "silent"]

\* The thread ended in an exception, re-raised in the caller that collects it.
ErrorOf(j) == Ended(j, "lost")

StartFails(j) ==
    /\ job[j].st = "opened" /\ ~Reusable(j)
    /\ UNCHANGED <<twin, gen, cache, replays, caller, calls, world>>
    /\ job' = ErrorOf(j)

Next1(j) == Append(job[j].ran, job[j].script[Len(job[j].ran) + 1])
Runs(j) == job[j].st = "running"
HasMore(j) == ~job[j].cancel /\ Len(job[j].ran) < Len(job[j].script)
Live(j) == job[j].made = gen[job[j].proc]

\* run_script, one sentence at a time: should_stop is asked before each.
Sentence(j) ==
    /\ Runs(j) /\ HasMore(j) /\ Live(j)
    /\ \/ <<job[j].root, Next1(j)>> \notin Wrong /\ Becomes(j, [job[j] EXCEPT !.ran = Next1(j)])
       \/ <<job[j].root, Next1(j)>> \in Wrong /\ Becomes(j, [job[j] EXCEPT !.st = "ending", !.end = "failed"])
    /\ UNCHANGED <<twin, gen, cache, replays, caller, calls, world>>

\* The sentence outlives Rocq's Timeout and the process is killed under it: a failed
\* step, and the end of the session's states.
RunsAway(j) ==
    /\ Runs(j) /\ HasMore(j) /\ Live(j) /\ restarts < MaxRestarts
    /\ restarts' = restarts + 1
    /\ gen' = [gen EXCEPT ![job[j].proc] = @ + 1]
    /\ Becomes(j, [job[j] EXCEPT !.st = "ending", !.end = "killed"])
    /\ UNCHANGED <<twin, cache, replays, caller, calls, text, edits>>

\* The process went away under the states: in full, once, if they were another's.
Lost(j) ==
    /\ Runs(j) /\ HasMore(j) /\ ~Live(j)
    /\ UNCHANGED <<twin, gen, replays, caller, calls, world>>
    /\ \/ /\ job[j].reused
          /\ cache' = [cache EXCEPT ![job[j].own] = NoEntry]
          /\ Becomes(j, [NewJob(job[j].key, job[j].script) EXCEPT !.incremental = FALSE])
       \/ ~job[j].reused /\ job' = ErrorOf(j) /\ UNCHANGED cache

Stop(j) ==
    /\ Runs(j) /\ ~HasMore(j)
    /\ Becomes(j, [job[j] EXCEPT !.st = "ending",
                                 !.end = IF Len(job[j].ran) < Len(job[j].script) THEN "stopped" ELSE "whole"])
    /\ UNCHANGED <<twin, gen, cache, replays, caller, calls, world>>

\* What is left for the next replay: nothing of a session that was lost.
End(j) ==
    /\ job[j].st = "ending"
    /\ \/ job[j].end = "killed" /\ cache' = [cache EXCEPT ![job[j].own] = NoEntry]
       \/ /\ job[j].end # "killed" /\ Live(j)
          /\ cache' = [cache EXCEPT ![job[j].own] =
                         [proc |-> job[j].proc, gen |-> job[j].made, root |-> job[j].root, tactics |-> job[j].ran]]
       \/ job[j].end # "killed" /\ ~Live(j) /\ UNCHANGED cache
    /\ UNCHANGED <<twin, gen, replays, caller, calls, world>>
    /\ job' = Ended(j, job[j].end)

Thread(j) ==
    \/ Open(j) \/ Resume(j) \/ Start(j) \/ StartFails(j)
    \/ Sentence(j) \/ RunsAway(j) \/ Lost(j) \/ Stop(j) \/ End(j)

-----------------------------------------------------------------------------
(* The world *)

Restart(p) ==
    /\ restarts < MaxRestarts /\ restarts' = restarts + 1
    /\ gen' = [gen EXCEPT ![p] = @ + 1]
    /\ UNCHANGED <<twin, cache, replays, job, caller, calls, text, edits>>

\* Kept apart from the opening of a session: the key is read before the file is read for the
\* session, and an edit between the two keeps states under a key they are not of.
Edit ==
    /\ edits < MaxEdits /\ edits' = edits + 1
    /\ \A j \in Job : job[j].st # "opened"
    /\ \E t \in Text \ {text} : text' = t
    /\ UNCHANGED <<twin, gen, cache, replays, job, caller, calls, restarts>>

-----------------------------------------------------------------------------

Init ==
    /\ text \in Text /\ twin = NoText
    /\ gen = [p \in Proc |-> 0]
    /\ cache = [t \in Text |-> NoEntry] /\ replays = [t \in Text |-> NoJob]
    /\ job = [j \in Job |-> NoReplay]
    /\ caller = [c \in Caller |-> NoCall]
    /\ calls = 0 /\ restarts = 0 /\ edits = 0

Waits(c) == Look(c) \/ OldStopped(c) \/ Create(c) \/ Collect(c)

Next ==
    \/ \E c \in Caller : Call(c) \/ Waits(c) \/ WaitIsOver(c)
    \/ \E j \in Job : Thread(j) \/ CloseSession(j)
    \/ \E p \in Proc : Restart(p)
    \/ Edit

Spec == Init /\ [][Next]_vars

Runnable == (\E c \in Caller : Waits(c)) \/ (\E j \in Job : Thread(j))

\* Threads run, and every call of pet's ends: its watchdog sees to it.  Each has few
\* steps to take, so that one of them moves while one can is all it takes.
FairSpec == Spec /\ WF_vars(Runnable)

-----------------------------------------------------------------------------
(* Properties *)

Passes(t, s) == \A i \in 1..Len(s) : <<t, SubSeq(s, 1, i)>> \notin Wrong

\* Types; and what is in the table has been created.
TypeOK ==
    /\ text \in Text /\ twin \in Text \cup {NoText}
    /\ gen \in [Proc -> Nat]
    /\ cache \in [Text -> [proc : Proc \cup {NoText}, gen : Nat, root : Text \cup {NoText}, tactics : Seq(STRING)]]
    /\ replays \in [Text -> Job \cup {NoJob}]
    /\ job \in [Job -> [st : {"none", "new", "opened", "running", "ending", "done"},
                        key : Text \cup {NoText}, script : Seq(STRING), cancel : BOOLEAN, incremental : BOOLEAN,
                        own : Text \cup {NoText}, proc : Proc \cup {NoText}, made : Nat,
                        root : Text \cup {NoText}, ran : Seq(STRING), reused : BOOLEAN,
                        end : {"none", "failed", "killed", "stopped", "whole", "lost"}]]
    /\ caller \in [Caller -> [pc : {"idle", "looking", "stopping", "creating", "waiting"},
                              script : Script \cup {<<>>}, key : Text \cup {NoText}, job : Job \cup {NoJob}]]
    /\ calls \in 0..MaxCalls /\ restarts \in 0..MaxRestarts /\ edits \in 0..MaxEdits
    /\ \A t \in Text : replays[t] # NoJob => job[replays[t]].st # "none"

\* An answer is what a replay of the caller's own script from scratch would say, on
\* the text the replay read, however many scripts, restarts and edits lie between:
\* all of it, or up to the sentence that fails there.  Only a replay that was told to
\* stop, or whose process died, says less (server.py, _trace: reusing states).
AnswersAsIfFresh ==
    \A c \in Caller : caller[c].pc = "waiting" /\ job[caller[c].job].st = "done" =>
        LET j == job[caller[c].job] IN
        /\ j.script = caller[c].script
        /\ Passes(j.own, j.ran) /\ j.ran = SubSeq(j.script, 1, Len(j.ran))
        /\ j.end = "whole" => j.ran = j.script
        /\ j.end = "failed" => <<j.own, Append(j.ran, j.script[Len(j.ran) + 1])>> \in Wrong
        /\ j.end = "stopped" => j.cancel

\* Every call comes back: with the answer, "still replaying", or a replay of its own
\* after the one it stopped has stopped.
TracesEnd == \A c \in Caller : []<>(caller[c].pc = "idle")
=============================================================================
