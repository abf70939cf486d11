------------------------------ MODULE ToolDaemon ------------------------------
(***************************************************************************)
(* The tool daemon of a workspace and the commands that call it, start it   *)
(* and stop it.  What they share: the socket's path, which names the socket *)
(* of one daemon, dead or alive; the flock, which a daemon holds for its    *)
(* life and a client takes for an instant to see whether it is held.        *)
(***************************************************************************)
EXTENDS Naturals, FiniteSets

CONSTANTS
    Daemon,     \* process ids, a bound: a command starts one daemon at most
    Client,
    None,
    MaxOps,     \* bound: commands the clients give
    MaxSignals  \* bound: signals from outside, SIGKILL included

ASSUME DaemonAssumption == None \notin Daemon \cup Client /\ Daemon \cap Client = {}
ASSUME BoundAssumption == MaxOps \in Nat /\ MaxSignals \in Nat

VARIABLES
    sock, flock,            \* the daemon the path names; who holds the lock
    st, tools,              \* a daemon's main thread, and its tool set
    stopping, shutdown,     \* _stopping is set; serve_forever is asked to return
    idle,                   \* the idle watch has found it idle
    conn, late,             \* each client's connection; the daemons with a stop its sender gave up
    pc, pid, child, told,   \* a client: where it is; whose status, child and answer to stop it has
    ops, signals

shared == <<sock, flock>>
daemon == <<st, tools, stopping, shutdown, idle>>
client == <<pc, pid, child, told>>
world == <<ops, signals>>
vars == <<shared, daemon, conn, late, client, world>>

NoConn == [to |-> None, at |-> "none"]
Unborn == {d \in Daemon : st[d] = "unborn"}
Listening(d) == st[d] \in {"listening", "serving", "closing"}
Runs(d) == st[d] \notin {"unborn", "gone"}
InFlight(d) == {c \in Client : conn[c] = [to |-> d, at |-> "inflight"]}

\* Connections cut when their daemon's socket or process goes.
Cut(d, stages) ==
    [c \in Client |-> IF conn[c].to = d /\ conn[c].at \in stages THEN [to |-> None, at |-> "dead"]
                      ELSE conn[c]]

-----------------------------------------------------------------------------
(* The daemon's main thread *)

Reaches(d, from, to) == st[d] = from /\ st' = [st EXCEPT ![d] = to]

\* A second daemon leaves at once, with no tool set.
Acquire(d) ==
    /\ \/ flock = None /\ flock' = d /\ Reaches(d, "starting", "locked")
       \/ flock # None /\ Reaches(d, "starting", "gone") /\ UNCHANGED flock
    /\ UNCHANGED <<sock, tools, stopping, shutdown, idle, conn, late, client, world>>

Build(d) ==
    /\ \/ Reaches(d, "locked", "built") /\ tools' = [tools EXCEPT ![d] = "open"]
       \/ Reaches(d, "locked", "unbound") /\ UNCHANGED tools \* the factory failed
    /\ UNCHANGED <<shared, stopping, shutdown, idle, conn, late, client, world>>

\* Whatever the path names is replaced.
Bind(d) ==
    /\ Reaches(d, "built", "bound") /\ sock' = d
    /\ UNCHANGED <<flock, tools, stopping, shutdown, idle, conn, late, client, world>>

Activate(d) ==
    /\ Reaches(d, "bound", "listening")
    /\ UNCHANGED <<shared, tools, stopping, shutdown, idle, conn, late, client, world>>

\* A faulty variant: a stop that came during start-up is not looked for.
ServesAnyway(d) ==
    /\ Reaches(d, "listening", "serving")
    /\ UNCHANGED <<shared, tools, stopping, shutdown, idle, conn, late, client, world>>

Serve(d) ==
    /\ IF stopping[d] THEN Reaches(d, "listening", "closing") ELSE Reaches(d, "listening", "serving")
    /\ UNCHANGED <<shared, tools, stopping, shutdown, idle, conn, late, client, world>>

ServeReturns(d) ==
    /\ shutdown[d] /\ Reaches(d, "serving", "closing")
    /\ UNCHANGED <<shared, tools, stopping, shutdown, idle, conn, late, client, world>>

\* server_close: the handlers' threads are not joined, what was not accepted is cut.
CloseServer(d) ==
    /\ Reaches(d, "closing", "unbound")
    /\ conn' = Cut(d, {"backlog"})
    /\ UNCHANGED <<shared, tools, stopping, shutdown, idle, late, client, world>>

Unlink(d) ==
    /\ Reaches(d, "unbound", "unlinked") /\ sock' = None
    /\ UNCHANGED <<flock, tools, stopping, shutdown, idle, conn, late, client, world>>

\* Closing the tools may raise, which is logged; the lock is released all the same.
ClosesThenReleases(d) ==
    \/ /\ Reaches(d, "unlinked", "closed")
       /\ \/ tools' = [tools EXCEPT ![d] = IF @ = "open" THEN "closed" ELSE @]
          \/ tools[d] = "open" /\ tools' = [tools EXCEPT ![d] = "left"]
       /\ UNCHANGED <<shared, stopping, shutdown, idle, conn, late, client, world>>
    \/ /\ Reaches(d, "closed", "released") /\ flock' = None
       /\ UNCHANGED <<sock, tools, stopping, shutdown, idle, conn, late, client, world>>

Exit(d) ==
    /\ Reaches(d, "released", "gone")
    /\ conn' = Cut(d, {"accepted", "inflight"})
    /\ UNCHANGED <<shared, tools, stopping, shutdown, idle, late, client, world>>

Main(d) ==
    \/ Acquire(d) \/ Build(d) \/ Bind(d) \/ Activate(d) \/ Serve(d) \/ ServeReturns(d)
    \/ CloseServer(d) \/ Unlink(d) \/ ClosesThenReleases(d) \/ Exit(d)

-----------------------------------------------------------------------------
(* Its other threads: stop, the idle watch, the handlers *)

\* Without a server there is nothing to shut down yet.
Stops(d) ==
    /\ stopping' = [stopping EXCEPT ![d] = TRUE]
    /\ shutdown' = [shutdown EXCEPT ![d] = @ \/ (~stopping[d] /\ Listening(d))]

\* Handlers for signals are in place once the lock is held.
Signal(d) ==
    /\ signals < MaxSignals /\ signals' = signals + 1
    /\ Runs(d) /\ st[d] # "starting" /\ Stops(d)
    /\ UNCHANGED <<shared, st, tools, idle, conn, late, client, ops>>

\* The lock goes with the process, the socket's file stays.
Kill(d) ==
    /\ signals < MaxSignals /\ signals' = signals + 1
    /\ Runs(d) /\ st' = [st EXCEPT ![d] = "gone"]
    /\ flock' = IF flock = d THEN None ELSE flock
    /\ conn' = Cut(d, {"backlog", "accepted", "inflight"})
    /\ UNCHANGED <<sock, tools, stopping, shutdown, idle, late, client, ops>>

\* The count is read under the lock ...
IdleFound(d) ==
    /\ st[d] = "serving" /\ ~stopping[d] /\ ~idle[d] /\ InFlight(d) = {}
    /\ idle' = [idle EXCEPT ![d] = TRUE]
    /\ UNCHANGED <<shared, st, tools, stopping, shutdown, conn, late, client, world>>

\* ... and the daemon stopped outside it.
IdleStops(d) ==
    /\ Runs(d) /\ idle[d] /\ ~stopping[d] /\ Stops(d)
    /\ UNCHANGED <<shared, st, tools, idle, conn, late, client, world>>

Accept(c) ==
    /\ conn[c].at = "backlog" /\ st[conn[c].to] = "serving"
    /\ conn' = [conn EXCEPT ![c].at = "accepted"]
    /\ UNCHANGED <<shared, daemon, late, client, world>>

\* Pings and stops are answered at once, a call is counted and run.
Handle(c) ==
    /\ conn[c].at = "accepted"
    /\ \/ pc[c] = "call" /\ conn' = [conn EXCEPT ![c].at = "inflight"] /\ UNCHANGED <<stopping, shutdown>>
       \/ /\ pc[c] # "call" /\ conn' = [conn EXCEPT ![c].at = "answered"]
          /\ IF pc[c] = "ask" THEN Stops(conn[c].to) ELSE UNCHANGED <<stopping, shutdown>>
    /\ UNCHANGED <<shared, st, tools, idle, late, client, world>>

HandleLate(d) ==
    /\ d \in late /\ st[d] \in {"serving", "closing"} /\ late' = late \ {d}
    /\ Stops(d)
    /\ UNCHANGED <<shared, st, tools, idle, conn, client, world>>

Return(c) ==
    /\ conn[c].at = "inflight"
    /\ conn' = [conn EXCEPT ![c].at = "answered"]
    /\ UNCHANGED <<shared, daemon, late, client, world>>

\* Closed is not final: a call in flight restarts a pet of a pool it holds, or makes
\* a pool for a key that has none yet.
StartsAgain(c) ==
    /\ conn[c].at = "inflight" /\ tools[conn[c].to] = "closed"
    /\ tools' = [tools EXCEPT ![conn[c].to] = "again"]
    /\ UNCHANGED <<shared, st, stopping, shutdown, idle, conn, late, client, world>>

-----------------------------------------------------------------------------
(* The clients *)

Requesting == {"ping", "wait", "call", "statusOf", "ask"}
Ended == {"none", "answered", "failed", "stopped", "nothing"}

Goes(c, where) == pc' = [pc EXCEPT ![c] = where]

Begin(c) ==
    /\ pc[c] \in Ended /\ ops < MaxOps /\ ops' = ops + 1
    /\ \E cmd \in {"ping", "statusOf"} : Goes(c, cmd) \* pcp tools call, pcp tools stop
    /\ pid' = [pid EXCEPT ![c] = None] /\ child' = [child EXCEPT ![c] = None]
    /\ told' = [told EXCEPT ![c] = None]
    /\ UNCHANGED <<shared, daemon, conn, late, signals>>

Connect(c) ==
    /\ pc[c] \in Requesting /\ conn[c] = NoConn
    /\ conn' = [conn EXCEPT ![c] = IF sock # None /\ Listening(sock) THEN [to |-> sock, at |-> "backlog"]
                                   ELSE [to |-> None, at |-> "dead"]]
    /\ UNCHANGED <<shared, daemon, late, client, world>>

\* Pings and stops are given up after a while; the daemon may still act on them.
GivesUp(c) ==
    /\ pc[c] \in Requesting \ {"call"} /\ conn[c].at \in {"backlog", "accepted"}
    /\ conn' = [conn EXCEPT ![c] = [to |-> None, at |-> "dead"]]
    /\ late' = IF pc[c] = "ask" THEN late \cup {conn[c].to} ELSE late
    /\ UNCHANGED <<shared, daemon, client, world>>

Answered(c) == conn[c].at = "answered" /\ conn' = [conn EXCEPT ![c] = NoConn]
Refused(c) == conn[c].at = "dead" /\ conn' = [conn EXCEPT ![c] = NoConn]

\* ensure_daemon: a ping, a look at the lock, a daemon of its own, and the wait.
Pinged(c) ==
    /\ \/ pc[c] \in {"ping", "wait"} /\ Answered(c) /\ Goes(c, "call")
       \/ pc[c] = "ping" /\ Refused(c) /\ Goes(c, "look")
       \/ pc[c] = "wait" /\ Refused(c)
          /\ Goes(c, IF child[c] # None /\ st[child[c]] = "gone" THEN "lookAgain" ELSE "wait")
    /\ UNCHANGED <<shared, daemon, late, pid, child, told, world>>

WaitedLongEnough(c) ==
    /\ pc[c] = "wait" /\ conn[c] = NoConn /\ Goes(c, "failed")
    /\ UNCHANGED <<shared, daemon, conn, late, pid, child, told, world>>

Spawn(c) ==
    /\ pc[c] = "spawn" /\ Unborn # {}
    /\ LET d == CHOOSE x \in Unborn : TRUE IN
        /\ st' = [st EXCEPT ![d] = "starting"]
        /\ child' = [child EXCEPT ![c] = d]
    /\ Goes(c, "wait")
    /\ UNCHANGED <<shared, tools, stopping, shutdown, idle, conn, late, pid, told, world>>

Called(c) ==
    /\ pc[c] = "call"
    /\ \/ Answered(c) /\ Goes(c, "answered")
       \/ Refused(c) /\ Goes(c, "failed")
    /\ UNCHANGED <<shared, daemon, late, pid, child, told, world>>

\* lock_held takes the lock to see that it was free, and gives it back.
Looks == [look |-> [held |-> "wait", free |-> "spawn"],
          lookAgain |-> [held |-> "wait", free |-> "failed"],
          lookForLeftover |-> [held |-> "ask", free |-> "unlink"],
          lookStopped |-> [held |-> "lookStopped", free |-> "check"]]

LooksAtLock(c) ==
    /\ pc[c] \in DOMAIN Looks
    /\ \/ flock = None /\ flock' = c /\ UNCHANGED pc
       \/ flock \notin {None, c} /\ Goes(c, Looks[pc[c]].held) /\ UNCHANGED flock
       \/ flock = c /\ flock' = None /\ Goes(c, Looks[pc[c]].free)
    /\ UNCHANGED <<sock, daemon, conn, late, pid, child, told, world>>

\* stop_daemon: whose status, the request, the wait for the lock and the process.
StatusRead(c) ==
    /\ pc[c] = "statusOf" /\ Goes(c, "ask")
    /\ \/ Answered(c) /\ pid' = [pid EXCEPT ![c] = conn[c].to]
       \/ Refused(c) /\ UNCHANGED pid
    /\ UNCHANGED <<shared, daemon, late, child, told, world>>

\* A faulty variant: the answer is taken for the end.
TakesItsWord(c) ==
    /\ pc[c] = "ask"
    /\ \/ Answered(c) /\ Goes(c, "stopped") /\ told' = [told EXCEPT ![c] = conn[c].to]
       \/ Refused(c) /\ Goes(c, "lookForLeftover") /\ UNCHANGED told
    /\ UNCHANGED <<shared, daemon, late, pid, child, world>>

Asked(c) ==
    /\ pc[c] = "ask"
    /\ \/ Answered(c) /\ Goes(c, "lookStopped") /\ told' = [told EXCEPT ![c] = conn[c].to]
       \/ Refused(c) /\ Goes(c, "lookForLeftover") /\ UNCHANGED told
    /\ UNCHANGED <<shared, daemon, late, pid, child, world>>

\* Whatever the path names by now is taken for a dead daemon's leftover.
Unlinks(c) ==
    /\ pc[c] = "unlink" /\ sock' = None /\ Goes(c, "nothing")
    /\ UNCHANGED <<flock, daemon, conn, late, pid, child, told, world>>

Checks(c) ==
    /\ pc[c] = "check"
    /\ Goes(c, IF pid[c] = None \/ st[pid[c]] = "gone" THEN "stopped" ELSE "lookStopped")
    /\ UNCHANGED <<shared, daemon, conn, late, pid, child, told, world>>

StopTimesOut(c) ==
    /\ pc[c] \in {"ask", "lookStopped"} /\ conn[c] = NoConn /\ flock # c /\ Goes(c, "failed")
    /\ UNCHANGED <<shared, daemon, conn, late, pid, child, told, world>>

-----------------------------------------------------------------------------

Init ==
    /\ sock = None /\ flock = None
    /\ st = [d \in Daemon |-> "unborn"] /\ tools = [d \in Daemon |-> "none"]
    /\ stopping = [d \in Daemon |-> FALSE] /\ shutdown = [d \in Daemon |-> FALSE]
    /\ idle = [d \in Daemon |-> FALSE]
    /\ conn = [c \in Client |-> NoConn] /\ late = {}
    /\ pc = [c \in Client |-> "none"] /\ pid = [c \in Client |-> None]
    /\ child = [c \in Client |-> None] /\ told = [c \in Client |-> None]
    /\ ops = 0 /\ signals = 0

Next ==
    \/ \E d \in Daemon : Main(d) \/ Signal(d) \/ Kill(d) \/ IdleFound(d) \/ IdleStops(d) \/ HandleLate(d)
    \/ \E c \in Client :
        \/ Accept(c) \/ Handle(c) \/ Return(c) \/ StartsAgain(c)
        \/ Begin(c) \/ Connect(c) \/ GivesUp(c) \/ Pinged(c) \/ WaitedLongEnough(c) \/ Spawn(c)
        \/ Called(c) \/ LooksAtLock(c) \/ StatusRead(c) \/ Asked(c) \/ Unlinks(c) \/ Checks(c)
        \/ StopTimesOut(c)

Spec == Init /\ [][Next]_vars

\* A daemon's main thread runs; nobody is bound to call, to answer or to stop.
FairSpec == Spec /\ \A d \in Daemon : WF_vars(Main(d))

-----------------------------------------------------------------------------
(* Properties *)

TypeOK ==
    /\ sock \in Daemon \cup {None} /\ flock \in Daemon \cup Client \cup {None}
    /\ st \in [Daemon -> {"unborn", "starting", "locked", "built", "bound", "listening", "serving",
                          "closing", "unbound", "unlinked", "closed", "released", "gone"}]
    /\ tools \in [Daemon -> {"none", "open", "closed", "left", "again"}]
    /\ stopping \in [Daemon -> BOOLEAN] /\ shutdown \in [Daemon -> BOOLEAN] /\ idle \in [Daemon -> BOOLEAN]
    /\ conn \in [Client -> [to : Daemon \cup {None},
                            at : {"none", "backlog", "accepted", "inflight", "answered", "dead"}]]
    /\ late \subseteq Daemon
    /\ pc \in [Client -> Requesting \cup Ended \cup DOMAIN Looks \cup {"spawn", "unlink", "check"}]
    /\ pid \in [Client -> Daemon \cup {None}] /\ child \in [Client -> Daemon \cup {None}]
    /\ told \in [Client -> Daemon \cup {None}] /\ ops \in Nat /\ signals \in Nat

HasPets(d) == Runs(d) /\ tools[d] \in {"open", "left", "again"}

\* Two daemons never have their pets at once while neither has given the lock back,
\* and one that has given it back has closed its tools: what pets it has after that, a
\* close that raised left it or a call in flight started (daemon.py, serve and close).
OneToolSet ==
    /\ \A d, e \in Daemon : HasPets(d) /\ HasPets(e) /\ "released" \notin {st[d], st[e]} => d = e
    /\ \A d \in Daemon : st[d] = "released" => tools[d] # "open"

\* A stop that reports success: the daemon that answered it has tried to close its
\* tools and given back the lock, or was killed, and the one whose status the command
\* had read is gone (daemon.py, stop_daemon).
StoppedMeansIt ==
    \A c \in Client : pc[c] = "stopped" =>
        /\ st[told[c]] \in {"released", "gone"}
        /\ Runs(told[c]) => tools[told[c]] # "open"
        /\ pid[c] # None => st[pid[c]] = "gone"

\* A daemon asked to stop, by a request, a signal or its idle watch, at whatever
\* moment of its start or its service, ends (daemon.py, stop and serve).
StopsWhenAsked == \A d \in Daemon : stopping[d] ~> st[d] = "gone"
=============================================================================
