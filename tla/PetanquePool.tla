---------------------------- MODULE PetanquePool ----------------------------
(***************************************************************************)
(* Threads of the tool server over a bounded pool of pet processes.  Each   *)
(* thread opens a proof session, which is pinned to the process it is given,*)
(* starts it, steps it and closes it.  Processes are spoken to under their  *)
(* lock, die, swell and hang; a watchdog kills a process whose call hangs,  *)
(* and the next holder of the lock restarts it in a new generation.         *)
(* Libraries on disk are rebuilt meanwhile.                                 *)
(***************************************************************************)
EXTENDS Naturals, FiniteSets

CONSTANTS
    Session,    \* the threads, one session at a time each
    File, FileOf,
    Loading,    \* the files that load the library
    Proc,       \* process ids
    PoolSize,
    NoOne, NoRoot, Unread,
    MaxOpens, MaxSteps, MaxEvents  \* bounds on what the world does

ASSUME PoolAssumption ==
    /\ PoolSize \in Nat \ {0} /\ IsFiniteSet(Proc)
    /\ Cardinality(Proc) >= 2 * PoolSize \* a closed pool may be filled once more
    /\ NoOne \notin Session \cup Proc
ASSUME FileAssumption == FileOf \in [Session -> File] /\ Loading \subseteq File
ASSUME BoundAssumption ==
    /\ MaxOpens \in Nat /\ MaxSteps \in Nat /\ MaxEvents \in Nat
    /\ NoRoot \notin Nat /\ Unread \notin Nat

VARIABLES
    pool, closed, killing, reaping, \* the processes of the pool; what its close has left to do
    registered, noted,              \* per process: its sessions, the library version they noted
    gen, os, lock, warm,            \* per process: PetProcess, and the lock's holder
    loaded,                         \* the library version the process really loaded
    callbacks,                      \* watchdogs that have begun to run
    pc, proc, root, lost, steps,    \* per session
    keep, armed,                    \* its thread's locals: the sessions a restart keeps, the timer
    cache,                          \* per file: the states the replay cache holds
    disk, opens, faults             \* the library on disk, and the bounds' counters

poolVars == <<pool, closed, killing, reaping>>
tables == <<registered, noted>>
pet == <<gen, os, warm, loaded>>
session == <<proc, root, lost, steps>>
local == <<keep, armed>>
world == <<disk, opens, faults>>
vars == <<poolVars, tables, pet, lock, callbacks, pc, session, local, cache, world>>

Started(s) == root[s] # NoRoot
Alive(p) == os[p] \in {"up", "fat"}
Unborn == {p \in Proc : os[p] = "unborn"}

Events == faults + disk + (IF closed THEN 1 ELSE 0)

Goes(s, where) == pc' = [pc EXCEPT ![s] = where]
Holds(s) == lock' = [lock EXCEPT ![proc[s]] = s]
Releases(s) == lock' = [lock EXCEPT ![proc[s]] = NoOne]

\* The session is let go and collected; no table holds it strongly.
Forgets(s) ==
    /\ Goes(s, "none")
    /\ proc' = [proc EXCEPT ![s] = NoOne] /\ root' = [root EXCEPT ![s] = NoRoot]
    /\ lost' = [lost EXCEPT ![s] = FALSE] /\ steps' = [steps EXCEPT ![s] = 0]
    /\ registered' = [p \in Proc |-> registered[p] \ {s}]

\* A call that ends in an error: a session that was being opened is dropped.
Fails(s) ==
    IF Started(s) THEN Goes(s, "ready") /\ UNCHANGED <<session, registered>> ELSE Forgets(s)

-----------------------------------------------------------------------------
(* process_for: under the pool's lock, the least loaded of the best kind *)

Fresh == {p \in pool : noted[p] \in {Unread, disk}}
WarmFor(s) == {p \in Fresh : FileOf[s] \in warm[p] /\ Alive(p)}
Load(p) == Cardinality(registered[p])
LeastLoaded(P) == {p \in P : \A q \in P : Load(p) <= Load(q)}
Full == Cardinality(pool) >= PoolSize

\* The check of the pool's flag comes before the lock.
Open(s) ==
    /\ pc[s] = "none" /\ opens < MaxOpens /\ ~closed
    /\ opens' = opens + 1
    /\ Goes(s, "choosing")
    /\ UNCHANGED <<poolVars, tables, pet, lock, callbacks, session, local, cache, disk, faults>>

Picks(s, p, then) ==
    /\ proc' = [proc EXCEPT ![s] = p]
    /\ Goes(s, then)

PickRunning(s) ==
    /\ pc[s] = "choosing"
    /\ \/ \E p \in LeastLoaded(WarmFor(s)) : Picks(s, p, "registering")
       \/ WarmFor(s) = {} /\ Full /\ \E p \in LeastLoaded(Fresh) : Picks(s, p, "registering")
       \/ Fresh = {} /\ Full /\ \E p \in LeastLoaded(pool) : Picks(s, p, "refreshing")
    /\ UNCHANGED <<poolVars, tables, pet, lock, callbacks, root, lost, steps, local, cache, world>>

Spawn(s) ==
    /\ pc[s] = "choosing" /\ WarmFor(s) = {} /\ ~Full
    /\ LET p == CHOOSE q \in Unborn : TRUE IN
        /\ pool' = pool \cup {p} /\ os' = [os EXCEPT ![p] = "up"]
        /\ Picks(s, p, "registering")
    /\ UNCHANGED <<closed, killing, reaping, tables, gen, warm, loaded, lock, callbacks,
                   root, lost, steps, local, cache, world>>

-----------------------------------------------------------------------------
(* Restarts, under the process's lock *)

\* A faulty variant: the process starts again in the same generation.
RestartInPlace(p) ==
    /\ os' = [os EXCEPT ![p] = "up"]
    /\ warm' = [warm EXCEPT ![p] = {}] /\ loaded' = [loaded EXCEPT ![p] = Unread]
    /\ UNCHANGED gen

Restart(p) ==
    /\ gen' = [gen EXCEPT ![p] = @ + 1] /\ os' = [os EXCEPT ![p] = "up"]
    /\ warm' = [warm EXCEPT ![p] = {}] /\ loaded' = [loaded EXCEPT ![p] = Unread]

\* The new process could not be started: the sessions are not told.
RestartFails(p) ==
    /\ faults < MaxEvents /\ faults' = faults + 1
    /\ gen' = [gen EXCEPT ![p] = @ + 1] /\ os' = [os EXCEPT ![p] = "dead"]
    /\ warm' = [warm EXCEPT ![p] = {}] /\ loaded' = [loaded EXCEPT ![p] = Unread]

\* The sessions on record are told, and the list of the others is drawn up.
Loses(s, p) ==
    /\ lost' = [t \in Session |-> lost[t] \/ (t \in registered[p] /\ Started(t))]
    /\ keep' = [keep EXCEPT ![s] = {t \in registered[p] : ~Started(t)}]

\* Restart, clearing of the libraries and marking, by refresh or ensure_healthy.
Renews(s, then) ==
    /\ Restart(proc[s]) /\ Loses(s, proc[s])
    /\ noted' = [noted EXCEPT ![proc[s]] = Unread]
    /\ Goes(s, then)
    /\ UNCHANGED <<registered, proc, root, steps, opens, disk, faults>>

Refresh(s) ==
    /\ pc[s] = "refreshing" /\ lock[proc[s]] = NoOne
    /\ \/ Renews(s, "swapping") /\ Holds(s)
       \/ RestartFails(proc[s]) /\ Forgets(s) /\ UNCHANGED <<lock, keep, noted, opens, disk>>
    /\ UNCHANGED <<poolVars, callbacks, armed, cache>>

\* The list replaces the table's, with whatever was registered in between.
RefreshDone(s) ==
    /\ pc[s] = "swapping"
    /\ registered' = [registered EXCEPT ![proc[s]] = keep[s]]
    /\ keep' = [keep EXCEPT ![s] = {}]
    /\ Goes(s, "registering") /\ Releases(s)
    /\ UNCHANGED <<poolVars, noted, pet, callbacks, session, armed, cache, world>>

\* The first version noted for a process stays.  The two entries are made under
\* one lock after the other, and nothing reads them in between.
NotedBy(s) == IF FileOf[s] \in Loading /\ noted[proc[s]] = Unread THEN disk ELSE noted[proc[s]]

Register(s) ==
    /\ pc[s] = "registering"
    /\ registered' = [registered EXCEPT ![proc[s]] = @ \cup {s}]
    /\ noted' = [noted EXCEPT ![proc[s]] = NotedBy(s)]
    /\ Goes(s, "ready")
    /\ UNCHANGED <<poolVars, pet, lock, callbacks, session, local, cache, world>>

-----------------------------------------------------------------------------
(* One call: _held, ensure_healthy, the checks, pet's answer *)

Enter(s) ==
    /\ pc[s] = "ready" /\ ~lost[s] /\ ~closed
    /\ ~Started(s) \/ steps[s] < MaxSteps
    /\ Goes(s, "waiting")
    /\ UNCHANGED <<poolVars, tables, pet, lock, callbacks, session, local, cache, world>>

Busy(s) ==
    /\ pc[s] = "waiting" /\ lock[proc[s]] # NoOne
    /\ Fails(s)
    /\ UNCHANGED <<poolVars, noted, pet, lock, callbacks, local, cache, world>>

Acquire(s) ==
    /\ pc[s] = "waiting" /\ lock[proc[s]] = NoOne
    /\ \/ os[proc[s]] = "up" /\ Goes(s, "checking") /\ Holds(s)
          /\ UNCHANGED <<tables, pet, session, keep, world>>
       \/ os[proc[s]] # "up" /\ Renews(s, "keeping") /\ Holds(s)
       \/ os[proc[s]] # "up" /\ RestartFails(proc[s]) /\ Fails(s)
          /\ UNCHANGED <<lock, keep, noted, opens, disk>>
    /\ UNCHANGED <<poolVars, callbacks, armed, cache>>

HealthDone(s) ==
    /\ pc[s] = "keeping"
    /\ registered' = [registered EXCEPT ![proc[s]] = keep[s]]
    /\ keep' = [keep EXCEPT ![s] = {}]
    /\ Goes(s, "checking")
    /\ UNCHANGED <<poolVars, noted, pet, lock, callbacks, session, armed, cache, world>>

\* A faulty variant: the process's id is checked, its generation is not.
OwnsProcess(p, g) == g # NoRoot

\* check_handle, for a state of this process: sessions never change theirs.
Owns(p, g) == g = gen[p]

Refuse(s) ==
    /\ pc[s] = "checking"
    /\ lost[s] \/ ~Alive(proc[s]) \/ (Started(s) /\ ~Owns(proc[s], root[s]))
    /\ Fails(s) /\ Releases(s)
    /\ UNCHANGED <<poolVars, noted, pet, callbacks, local, cache, world>>

Call(s) ==
    /\ pc[s] = "checking" /\ ~lost[s] /\ Alive(proc[s])
    /\ Started(s) => Owns(proc[s], root[s])
    /\ armed' = [armed EXCEPT ![s] = TRUE]
    /\ Goes(s, "calling")
    /\ UNCHANGED <<poolVars, tables, pet, lock, callbacks, session, keep, cache, world>>

\* resume: the states an earlier trace reached, if they are this process's.
Resume(s) ==
    /\ pc[s] = "checking" /\ ~lost[s] /\ ~Started(s)
    /\ cache[FileOf[s]].proc = proc[s] /\ Owns(proc[s], cache[FileOf[s]].root)
    /\ root' = [root EXCEPT ![s] = cache[FileOf[s]].root]
    /\ Goes(s, "ready") /\ Releases(s)
    /\ UNCHANGED <<poolVars, tables, pet, callbacks, proc, lost, steps, local, cache, world>>

\* pet answers in time: the timer is cancelled.
Answers(s) ==
    /\ pc[s] = "calling" /\ Alive(proc[s])
    /\ armed' = [armed EXCEPT ![s] = FALSE] /\ Releases(s)
    /\ UNCHANGED <<poolVars, noted, gen, os, callbacks, keep, cache, world>>

\* Elaborating a file loads the libraries it requires, once per process.
AnswerStart(s) ==
    /\ Answers(s) /\ ~Started(s)
    /\ loaded' = [loaded EXCEPT ![proc[s]] = IF FileOf[s] \in Loading /\ @ = Unread THEN disk ELSE @]
    /\ root' = [root EXCEPT ![s] = gen[proc[s]]]
    /\ warm' = [warm EXCEPT ![proc[s]] = @ \cup {FileOf[s]}]
    /\ Goes(s, "ready")
    /\ UNCHANGED <<registered, proc, lost, steps>>

AnswerRun(s) ==
    /\ Answers(s) /\ Started(s)
    /\ steps' = [steps EXCEPT ![s] = @ + 1]
    /\ Goes(s, "ready")
    /\ UNCHANGED <<registered, warm, loaded, proc, root, lost>>

\* A Rocq error, or the answer to a speculative run.
AnswerError(s) == Answers(s) /\ Fails(s) /\ UNCHANGED <<warm, loaded>>

\* The pipe is at its end: the caller is told what became of the process.
CallDies(s) ==
    /\ pc[s] = "calling" /\ ~Alive(proc[s])
    /\ armed' = [armed EXCEPT ![s] = FALSE]
    /\ Fails(s) /\ Releases(s)
    /\ UNCHANGED <<poolVars, noted, pet, callbacks, keep, cache, world>>

-----------------------------------------------------------------------------
(* The watchdog: its callback runs on a thread of its own, with no lock *)

TimerFires(s) ==
    /\ pc[s] = "calling" /\ armed[s]
    /\ armed' = [armed EXCEPT ![s] = FALSE]
    /\ callbacks' = callbacks \cup {[proc |-> proc[s], gen |-> gen[proc[s]], at |-> "check"]}
    /\ UNCHANGED <<poolVars, tables, pet, lock, pc, session, keep, cache, world>>

\* A faulty variant: the call's own generation is taken for an earlier one.
IsLate(c) == c.gen <= gen[c.proc]

Outdated(c) == c.gen # gen[c.proc]

CallbackChecks ==
    /\ \E c \in callbacks :
        /\ c.at = "check"
        /\ callbacks' = (callbacks \ {c})
            \cup (IF Outdated(c) THEN {} ELSE {[proc |-> c.proc, gen |-> c.gen, at |-> "kill"]})
    /\ UNCHANGED <<poolVars, tables, pet, lock, pc, session, local, cache, world>>

\* Whatever runs in the process's place by now is killed.
CallbackKills ==
    /\ \E c \in callbacks :
        /\ c.at = "kill"
        /\ callbacks' = callbacks \ {c}
        /\ os' = [os EXCEPT ![c.proc] = IF Alive(c.proc) THEN "dead" ELSE @]
    /\ UNCHANGED <<poolVars, tables, gen, warm, loaded, lock, pc, session, local, cache, world>>

-----------------------------------------------------------------------------
(* The server's side of a session, and the end of the pool *)

\* A trace that ended on a live session leaves its states to the next one.
Cache(s) ==
    /\ pc[s] = "ready" /\ Started(s) /\ ~lost[s] /\ steps[s] = MaxSteps
    /\ cache' = [cache EXCEPT ![FileOf[s]] = [proc |-> proc[s], root |-> root[s]]]
    /\ UNCHANGED <<poolVars, tables, pet, lock, callbacks, pc, session, local, world>>

Close(s) ==
    /\ pc[s] = "ready" /\ Forgets(s)
    /\ UNCHANGED <<poolVars, noted, pet, lock, callbacks, local, cache, world>>

PoolClose ==
    /\ ~closed /\ Events < MaxEvents /\ closed' = TRUE
    /\ killing' = pool /\ pool' = {}
    /\ UNCHANGED <<reaping, tables, pet, lock, callbacks, pc, session, local, cache, world>>

\* stop: the kill comes before the lock.
StopKills(p) ==
    /\ p \in killing
    /\ killing' = killing \ {p} /\ reaping' = reaping \cup {p}
    /\ os' = [os EXCEPT ![p] = IF Alive(p) THEN "dead" ELSE @]
    /\ UNCHANGED <<pool, closed, tables, gen, warm, loaded, lock, callbacks, pc, session, local, cache, world>>

StopReaps(p) ==
    /\ p \in reaping /\ lock[p] = NoOne
    /\ reaping' = reaping \ {p}
    /\ os' = [os EXCEPT ![p] = "dead"]
    /\ UNCHANGED <<pool, closed, killing, tables, gen, warm, loaded, lock, callbacks, pc, session, local, cache, world>>

-----------------------------------------------------------------------------
(* The world *)

\* A process dies, or outgrows its soft cap on memory.
Fault(p) ==
    /\ os[p] = "up" /\ Events < MaxEvents
    /\ \E how \in {"dead", "fat"} : os' = [os EXCEPT ![p] = how]
    /\ faults' = faults + 1
    /\ UNCHANGED <<poolVars, tables, gen, warm, loaded, lock, callbacks, pc, session, local, cache, disk, opens>>

Rebuild ==
    /\ Events < MaxEvents /\ disk' = disk + 1
    /\ UNCHANGED <<poolVars, tables, pet, lock, callbacks, pc, session, local, cache, opens, faults>>

-----------------------------------------------------------------------------

Init ==
    /\ pool = {} /\ closed = FALSE /\ killing = {} /\ reaping = {}
    /\ registered = [p \in Proc |-> {}] /\ noted = [p \in Proc |-> Unread]
    /\ gen = [p \in Proc |-> 0] /\ os = [p \in Proc |-> "unborn"] /\ lock = [p \in Proc |-> NoOne]
    /\ warm = [p \in Proc |-> {}] /\ loaded = [p \in Proc |-> Unread]
    /\ callbacks = {}
    /\ pc = [s \in Session |-> "none"] /\ proc = [s \in Session |-> NoOne]
    /\ root = [s \in Session |-> NoRoot] /\ lost = [s \in Session |-> FALSE]
    /\ steps = [s \in Session |-> 0]
    /\ keep = [s \in Session |-> {}] /\ armed = [s \in Session |-> FALSE]
    /\ cache = [f \in File |-> [proc |-> NoOne, root |-> NoRoot]]
    /\ disk = 0 /\ opens = 0 /\ faults = 0

\* What a thread does without an answer of pet's, and its timer.
Thread(s) ==
    \/ PickRunning(s) \/ Spawn(s) \/ Refresh(s) \/ RefreshDone(s) \/ Register(s)
    \/ Busy(s) \/ Acquire(s) \/ HealthDone(s) \/ Refuse(s) \/ Call(s) \/ Resume(s)
    \/ TimerFires(s) \/ CallDies(s)

Callbacks == CallbackChecks \/ CallbackKills

Next ==
    \/ \E s \in Session :
        \/ Open(s) \/ Thread(s) \/ Enter(s) \/ Cache(s) \/ Close(s)
        \/ AnswerStart(s) \/ AnswerRun(s) \/ AnswerError(s)
    \/ \E p \in Proc : StopKills(p) \/ StopReaps(p) \/ Fault(p)
    \/ Callbacks \/ PoolClose \/ Rebuild

Spec == Init /\ [][Next]_vars

\* Threads run, timers fire and their callbacks run; a refresh gets a lock that
\* is free again and again, every other step stays possible until it is taken.
\* Nothing makes pet answer.
Fairness == WF_vars(Callbacks) /\ \A s \in Session : SF_vars(Thread(s))

FairSpec == Spec /\ Fairness

-----------------------------------------------------------------------------
(* Properties *)

PC == {"none", "choosing", "refreshing", "swapping", "registering", "ready",
       "waiting", "keeping", "checking", "calling"}

TypeOK ==
    /\ pool \in SUBSET Proc /\ closed \in BOOLEAN /\ killing \in SUBSET Proc /\ reaping \in SUBSET Proc
    /\ registered \in [Proc -> SUBSET Session] /\ noted \in [Proc -> Nat \cup {Unread}]
    /\ gen \in [Proc -> Nat] /\ os \in [Proc -> {"unborn", "up", "fat", "dead"}]
    /\ warm \in [Proc -> SUBSET File] /\ loaded \in [Proc -> Nat \cup {Unread}]
    /\ callbacks \subseteq [proc : Proc, gen : Nat, at : {"check", "kill"}]
    /\ pc \in [Session -> PC] /\ proc \in [Session -> Proc \cup {NoOne}]
    /\ root \in [Session -> Nat \cup {NoRoot}] /\ lost \in [Session -> BOOLEAN]
    /\ steps \in [Session -> Nat] /\ keep \in [Session -> SUBSET Session]
    /\ armed \in [Session -> BOOLEAN]
    /\ cache \in [File -> [proc : Proc \cup {NoOne}, root : Nat \cup {NoRoot}]]
    /\ disk \in Nat /\ opens \in Nat /\ faults \in Nat
    /\ lock \in [Proc -> Session \cup {NoOne}]

\* A process's lock is held exactly while its holder is in a restart or a call of its:
\* no way out of either, by an error or an answer, leaves it behind (petanque.py, _held).
Holding(s) == pc[s] \in {"swapping", "keeping", "checking", "calling"}
LocksAreOfCalls == \A p \in Proc, s \in Session : lock[p] = s <=> Holding(s) /\ proc[s] = p

\* No state id of a process that is gone is ever sent to the one in its place,
\* even for a session the restart's list did not hold (petanque.py, check_handle).
NoForeignState ==
    \A s \in Session : pc[s] = "calling" /\ Started(s) => root[s] = gen[proc[s]]

\* Sessions are pinned: PinnedSessions, a home being a process and a generation.
NoHome == <<NoOne, NoRoot>>
Homes == {<<p, gen[p]>> : p \in {q \in Proc : Alive(q)}}
Born == {p \in Proc : os[p] # "unborn"}
Pinned == INSTANCE PinnedSessions WITH
    home <- [s \in Session |-> IF Started(s) THEN <<proc[s], root[s]>> ELSE NoHome],
    up <- Homes,
    past <- UNION {{<<p, g>> : g \in 0..gen[p]} : p \in Born}
SessionsArePinned == Pinned!Spec

\* Every open and every call ends, whatever pet does: a call that hangs meets
\* its watchdog, and a thread behind it gives up or gets the lock.
CallsEnd == \A s \in Session : []<>(pc[s] \in {"none", "ready"})
=============================================================================
