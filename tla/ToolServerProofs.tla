-------------------------- MODULE ToolServerProofs --------------------------
(***************************************************************************)
(* Proofs about what the tool server is made of.                            *)
(*                                                                         *)
(* ToolDaemon, for any number of daemons and clients: two daemons that have *)
(* not given back the lock never have pets at once, and a stop that reports *)
(* success has been through a close.  Both go by the lock: who runs between *)
(* taking and releasing it holds it, and a stop reports success only after  *)
(* it had the lock itself.                                                  *)
(*                                                                         *)
(* ResourceLedger, for any finite set of names and any proof: what the      *)
(* ledger says for certain was taken is gone, and nothing it reports as     *)
(* unused was used.  Both go by an account of every resource there ever     *)
(* was (Accounted), and each sentence is shown to keep it by what its       *)
(* children hold (Gives, Sound): a resource of the focused goal is found    *)
(* again under its name, or the events tell of that name.                   *)
(***************************************************************************)
EXTENDS ToolDaemon, ResourceLedger, FiniteSetTheorems, SequenceTheorems, TLAPS

(***************************************************************************)
(* The tool daemon                                                          *)
(***************************************************************************)

\* The lock is held by the daemon that is between taking and releasing it.
HasLock(d) == st[d] \in {"locked", "built", "bound", "listening", "serving", "closing", "unbound",
                         "unlinked", "closed"}
Locked == \A d \in Daemon : flock = d <=> HasLock(d)

\* Where a daemon stands says whether it has tools.
ToolsOf ==
    \A d \in Daemon :
        /\ st[d] \in {"unborn", "starting", "locked"} => tools[d] = "none"
        /\ st[d] \in {"built", "bound", "listening", "serving", "closing"} => tools[d] = "open"
        /\ st[d] \in {"closed", "released"} => tools[d] # "open"

\* Whoever answers had tools; a client that saw the lock free saw the daemon that
\* answered it past the release; one that reports success saw the process gone.
Served(d) == d \in Daemon /\ tools[d] # "none"
Answerers ==
    \A c \in Client :
        /\ conn[c].at \in {"backlog", "accepted", "inflight", "answered"} => Served(conn[c].to)
        /\ pc[c] \in {"lookStopped", "check", "stopped"} => Served(told[c])
        /\ pc[c] \in {"check", "stopped"} => st[told[c]] \in {"released", "gone"}
        /\ pc[c] = "stopped" /\ pid[c] # None => st[pid[c]] = "gone"

IInv == TypeOK /\ Locked /\ ToolsOf /\ Answerers

Conns == [to : Daemon \cup {None}, at : {"none", "backlog", "accepted", "inflight", "answered", "dead"}]

-----------------------------------------------------------------------------
(* Connections *)

\* Cutting the connections of a daemon leaves every other one as it was.
LEMMA CutKeeps ==
    ASSUME IInv, NEW d \in Daemon, NEW stages, conn' = Cut(d, stages)
    PROVE  /\ conn' \in [Client -> Conns]
           /\ \A c \in Client : conn'[c].at # "dead" => conn'[c] = conn[c]
<1>1. conn \in [Client -> Conns]
  BY DEF IInv, TypeOK, Conns
<1>2. [to |-> None, at |-> "dead"] \in Conns /\ [to |-> None, at |-> "dead"].at = "dead"
  BY DEF Conns
<1> QED BY <1>1, <1>2 DEF Cut

\* The connection of one client moves, to where it was going or to its end.
LEMMA ConnKeeps ==
    ASSUME IInv, NEW c \in Client, NEW new \in Conns, conn' = [conn EXCEPT ![c] = new]
    PROVE  /\ conn' \in [Client -> Conns] /\ conn'[c] = new
           /\ \A e \in Client : e # c => conn'[e] = conn[e]
BY DEF IInv, TypeOK, Conns

-----------------------------------------------------------------------------
(* Daemons *)

\* A daemon does not come back: it has had tools, it has let go, it is gone.
Forward(d) ==
    /\ tools[d] # "none" => tools'[d] # "none"
    /\ st[d] \in {"released", "gone"} => st'[d] \in {"released", "gone"}
    /\ st[d] = "gone" => st'[d] = "gone"

\* The main thread takes the lock first and gives it back last.
LEMMA MainKeeps ==
    ASSUME IInv, NEW d \in Daemon, Main(d)
    PROVE  /\ st' \in [Daemon -> {"unborn", "starting", "locked", "built", "bound", "listening", "serving",
                                 "closing", "unbound", "unlinked", "closed", "released", "gone"}]
           /\ tools' \in [Daemon -> {"none", "open", "closed", "left", "again"}]
           /\ sock' \in Daemon \cup {None} /\ flock' \in Daemon \cup Client \cup {None}
           /\ conn' \in [Client -> Conns]
           /\ Locked' /\ ToolsOf'
           /\ \A e \in Daemon : Forward(e)
           /\ \A c \in Client : conn'[c].at # "dead" => conn'[c] = conn[c]
           /\ UNCHANGED <<stopping, shutdown, idle, late, client, world>>
<1> USE DaemonAssumption
<1>p. TypeOK /\ Locked /\ ToolsOf /\ conn \in [Client -> Conns]
  BY DEF IInv, TypeOK, Conns
<1>1. CASE Acquire(d)
  <2>1. ToolsOf' /\ \A e \in Daemon : Forward(e)
    BY <1>p, <1>1 DEF Acquire, Reaches, TypeOK, ToolsOf, Forward
  <2>2. Locked'
    BY <1>p, <1>1 DEF Acquire, Reaches, TypeOK, Locked, HasLock
  <2> QED BY <1>p, <1>1, <2>1, <2>2 DEF Acquire, Reaches, TypeOK
<1>2. CASE Build(d)
  <2>0. UNCHANGED <<sock, flock, conn, stopping, shutdown, idle, late, client, world>>
    BY <1>2 DEF Build, shared
  <2>1. st[d] = "locked" /\ \E to \in {"built", "unbound"} : st' = [st EXCEPT ![d] = to]
    BY <1>2 DEF Build, Reaches
  <2>2. Locked'
    BY <1>p, <2>0, <2>1 DEF TypeOK, Locked, HasLock
  <2>3. CASE st' = [st EXCEPT ![d] = "built"] /\ tools' = [tools EXCEPT ![d] = "open"]
    BY <1>p, <2>0, <2>1, <2>2, <2>3 DEF TypeOK, ToolsOf, Forward
  <2>4. CASE st' = [st EXCEPT ![d] = "unbound"] /\ UNCHANGED tools
    BY <1>p, <2>0, <2>1, <2>2, <2>4 DEF TypeOK, ToolsOf, Forward
  <2> QED BY <1>2, <2>3, <2>4 DEF Build, Reaches
<1>3. CASE Bind(d) \/ Activate(d) \/ Serve(d) \/ ServeReturns(d) \/ Unlink(d)
  <2>1. /\ UNCHANGED <<flock, tools, conn, stopping, shutdown, idle, late, client, world>>
        /\ sock' \in {d, None, sock}
    BY <1>3 DEF Bind, Activate, Serve, ServeReturns, Unlink, shared
  <2>2. \/ Reaches(d, "built", "bound") \/ Reaches(d, "bound", "listening")
        \/ Reaches(d, "listening", "serving") \/ Reaches(d, "listening", "closing")
        \/ Reaches(d, "serving", "closing") \/ Reaches(d, "unbound", "unlinked")
    BY <1>3 DEF Bind, Activate, Serve, ServeReturns, Unlink
  <2> QED BY <1>p, <2>1, <2>2 DEF Reaches, TypeOK, Locked, HasLock, ToolsOf, Forward
<1>4. CASE CloseServer(d)
  <2>1. conn' \in [Client -> Conns] /\ \A c \in Client : conn'[c].at # "dead" => conn'[c] = conn[c]
    BY <1>4, CutKeeps DEF CloseServer
  <2>2. ToolsOf' /\ \A e \in Daemon : Forward(e)
    BY <1>p, <1>4 DEF CloseServer, Reaches, TypeOK, shared, ToolsOf, Forward
  <2>3. Locked'
    BY <1>p, <1>4 DEF CloseServer, Reaches, TypeOK, shared, Locked, HasLock
  <2> QED BY <1>p, <1>4, <2>1, <2>2, <2>3 DEF CloseServer, Reaches, TypeOK, shared
<1>5. CASE ClosesThenReleases(d)
  <2>1. ToolsOf' /\ \A e \in Daemon : Forward(e)
    BY <1>p, <1>5 DEF ClosesThenReleases, Reaches, TypeOK, shared, ToolsOf, Forward
  <2>2. Locked'
    BY <1>p, <1>5 DEF ClosesThenReleases, Reaches, TypeOK, shared, Locked, HasLock
  <2> QED BY <1>p, <1>5, <2>1, <2>2 DEF ClosesThenReleases, Reaches, TypeOK, shared
<1>6. CASE Exit(d)
  <2>1. conn' \in [Client -> Conns] /\ \A c \in Client : conn'[c].at # "dead" => conn'[c] = conn[c]
    BY <1>6, CutKeeps DEF Exit
  <2>2. ToolsOf' /\ \A e \in Daemon : Forward(e)
    BY <1>p, <1>6 DEF Exit, Reaches, TypeOK, shared, ToolsOf, Forward
  <2>3. Locked'
    BY <1>p, <1>6 DEF Exit, Reaches, TypeOK, shared, Locked, HasLock
  <2> QED BY <1>p, <1>6, <2>1, <2>2, <2>3 DEF Exit, Reaches, TypeOK, shared
<1> QED BY <1>1, <1>2, <1>3, <1>4, <1>5, <1>6 DEF Main

\* A kill takes the lock and the connections with it.
LEMMA KillKeeps ==
    ASSUME IInv, NEW d \in Daemon, Kill(d)
    PROVE  /\ TypeOK' /\ Locked' /\ ToolsOf'
           /\ \A e \in Daemon : Forward(e)
           /\ \A c \in Client : conn'[c].at # "dead" => conn'[c] = conn[c]
<1> USE DaemonAssumption, BoundAssumption
<1>p. TypeOK /\ Locked /\ ToolsOf
  BY DEF IInv
<1>1. conn' \in [Client -> Conns] /\ \A c \in Client : conn'[c].at # "dead" => conn'[c] = conn[c]
  BY CutKeeps DEF Kill
<1>2. TypeOK'
  BY <1>p, <1>1 DEF Kill, TypeOK, Conns, client
<1>3. Locked' /\ ToolsOf' /\ \A e \in Daemon : Forward(e)
  BY <1>p DEF Kill, TypeOK, Locked, HasLock, ToolsOf, Forward
<1> QED BY <1>1, <1>2, <1>3

-----------------------------------------------------------------------------
(* Requests, signals, commands *)

Commands(c) ==
    \/ Accept(c) \/ Handle(c) \/ Return(c)
    \/ Begin(c) \/ Connect(c) \/ GivesUp(c) \/ Pinged(c) \/ WaitedLongEnough(c)
    \/ Called(c) \/ StatusRead(c) \/ Asked(c) \/ Unlinks(c) \/ Checks(c) \/ StopTimesOut(c)

Threads(d) == Signal(d) \/ IdleFound(d) \/ IdleStops(d) \/ HandleLate(d)

\* Daemons are asked to stop, which moves neither them nor a lock.
LEMMA ThreadsKeep ==
    ASSUME IInv, NEW d \in Daemon, Threads(d)
    PROVE  TypeOK' /\ UNCHANGED <<st, tools, flock, conn, client>>
<1>p. TypeOK
  BY DEF IInv
<1>1. ASSUME Stops(d) PROVE stopping' \in [Daemon -> BOOLEAN] /\ shutdown' \in [Daemon -> BOOLEAN]
  BY <1>p, <1>1 DEF Stops, TypeOK
<1>2. CASE Signal(d)
  BY <1>p, <1>1, <1>2, BoundAssumption DEF Signal, TypeOK, shared, client
<1>3. CASE IdleFound(d)
  BY <1>p, <1>3 DEF IdleFound, TypeOK, shared, client, world
<1>4. CASE IdleStops(d)
  BY <1>p, <1>1, <1>4 DEF IdleStops, TypeOK, shared, client, world
<1>5. CASE HandleLate(d)
  BY <1>p, <1>1, <1>5 DEF HandleLate, TypeOK, shared, client, world
<1> QED BY <1>2, <1>3, <1>4, <1>5 DEF Threads

\* A connection is made to a daemon that listens, and answered by the one it was made to.
LEMMA CommandsMoveConn ==
    ASSUME IInv, NEW c \in Client, Commands(c)
    PROVE  /\ conn' \in [Client -> Conns]
           /\ \A e \in Client : e # c => conn'[e] = conn[e]
           /\ conn'[c].at \in {"backlog", "accepted", "inflight", "answered"} => Served(conn'[c].to)
           /\ UNCHANGED <<st, tools, flock>>
<1>p. TypeOK /\ ToolsOf /\ Answerers /\ conn \in [Client -> Conns] /\ conn[c] \in Conns
  BY DEF IInv, TypeOK, Conns
<1>u. UNCHANGED <<st, tools, flock>>
  BY DEF Commands, Accept, Handle, Return, Begin, Connect, GivesUp, Pinged, WaitedLongEnough, Called,
         StatusRead, Asked, Unlinks, Checks, StopTimesOut, shared, daemon
<1>1. ASSUME NEW new \in Conns, conn' = [conn EXCEPT ![c] = new],
             new.at \in {"backlog", "accepted", "inflight", "answered"} => Served(new.to)
      PROVE  /\ conn' \in [Client -> Conns]
             /\ \A e \in Client : e # c => conn'[e] = conn[e]
             /\ conn'[c].at \in {"backlog", "accepted", "inflight", "answered"} => Served(conn'[c].to)
  BY <1>1, ConnKeeps
<1>2. CASE Accept(c) \/ Handle(c) \/ Return(c)
  <2>1. PICK a \in {"accepted", "inflight", "answered"} : conn' = [conn EXCEPT ![c].at = a]
    BY <1>2 DEF Accept, Handle, Return
  <2>2. conn[c].at \in {"backlog", "accepted", "inflight"}
    BY <1>2 DEF Accept, Handle, Return
  <2>3. [conn[c] EXCEPT !.at = a] \in Conns /\ [conn[c] EXCEPT !.at = a].to = conn[c].to
    BY <1>p DEF Conns
  <2>4. Served(conn[c].to)
    BY <1>p, <2>2 DEF Answerers
  <2>5. conn' = [conn EXCEPT ![c] = [conn[c] EXCEPT !.at = a]]
    BY <2>1
  <2> QED BY <1>1, <1>u, <2>3, <2>4, <2>5
<1>3. CASE Connect(c)
  <2>1. CASE sock # None /\ Listening(sock)
    <3>1. [to |-> sock, at |-> "backlog"] \in Conns
      BY <1>p, <2>1 DEF Conns, TypeOK
    <3>2. Served(sock)
      BY <1>p, <2>1 DEF Served, Listening, ToolsOf, TypeOK
    <3> QED BY <1>1, <1>3, <1>u, <2>1, <3>1, <3>2 DEF Connect
  <2>2. CASE ~(sock # None /\ Listening(sock))
    <3>1. [to |-> None, at |-> "dead"] \in Conns
      BY DEF Conns
    <3> QED BY <1>1, <1>3, <1>u, <2>2, <3>1 DEF Connect
  <2> QED BY <2>1, <2>2
<1>4. CASE GivesUp(c)
  <2>1. [to |-> None, at |-> "dead"] \in Conns
    BY DEF Conns
  <2> QED BY <1>1, <1>4, <1>u, <2>1 DEF GivesUp
<1>5. CASE conn' = [conn EXCEPT ![c] = NoConn]
  <2>1. NoConn \in Conns /\ NoConn.at = "none"
    BY DEF NoConn, Conns
  <2> QED BY <1>1, <1>5, <1>u, <2>1
<1>6. CASE UNCHANGED conn
  BY <1>p, <1>6, <1>u DEF Answerers
<1> QED BY <1>2, <1>3, <1>4, <1>5, <1>6
        DEF Commands, Begin, Pinged, WaitedLongEnough, Called, StatusRead, Asked, Unlinks, Checks,
            StopTimesOut, Answered, Refused

\* Every command keeps the types.
LEMMA CommandsKeepTypes ==
    ASSUME IInv, NEW c \in Client, Commands(c)
    PROVE  TypeOK'
<1> USE BoundAssumption DEF TypeOK, shared, daemon, client, world
<1>p. /\ TypeOK
      /\ conn' \in [Client -> [to : Daemon \cup {None},
                               at : {"none", "backlog", "accepted", "inflight", "answered", "dead"}]]
      /\ conn[c].at \in {"backlog", "accepted", "inflight", "answered"} => conn[c].to \in Daemon
  BY CommandsMoveConn DEF IInv, Conns, Answerers, Served
<1>g. ASSUME NEW where \in Requesting \cup Ended \cup DOMAIN Looks \cup {"spawn", "unlink", "check"},
             Goes(c, where)
      PROVE  pc' \in [Client -> Requesting \cup Ended \cup DOMAIN Looks \cup {"spawn", "unlink", "check"}]
  BY <1>p, <1>g DEF Goes
<1>l. {"look", "lookAgain", "lookForLeftover", "lookStopped"} = DOMAIN Looks
  BY DEF Looks
<1>1. CASE Accept(c) \/ Return(c)
  BY <1>p, <1>1 DEF Accept, Return
<1>2. CASE Handle(c)
  BY <1>p, <1>2 DEF Handle, Stops
<1>3. CASE Begin(c)
  BY <1>p, <1>g, <1>3 DEF Begin, Requesting
<1>4. CASE Connect(c)
  BY <1>p, <1>4 DEF Connect
<1>5. CASE GivesUp(c)
  BY <1>p, <1>5 DEF GivesUp
<1>6. CASE Pinged(c) \/ WaitedLongEnough(c) \/ Called(c)
  BY <1>p, <1>g, <1>l, <1>6 DEF Pinged, WaitedLongEnough, Called, Requesting, Ended
<1>7. CASE StatusRead(c)
  BY <1>p, <1>g, <1>7 DEF StatusRead, Requesting, Answered
<1>8. CASE Asked(c)
  BY <1>p, <1>g, <1>l, <1>8 DEF Asked, Answered
<1>9. CASE Unlinks(c) \/ Checks(c) \/ StopTimesOut(c)
  BY <1>p, <1>g, <1>l, <1>9 DEF Unlinks, Checks, StopTimesOut, Ended
<1> QED BY <1>1, <1>2, <1>3, <1>4, <1>5, <1>6, <1>7, <1>8, <1>9 DEF Commands

\* A command is told by the daemon that answered it, and says stopped only of one gone.
LEMMA CommandsKeepAnswerers ==
    ASSUME IInv, NEW c \in Client, Commands(c)
    PROVE  Answerers'
<1>p. TypeOK /\ Answerers
  BY DEF IInv
<1>u. /\ UNCHANGED <<st, tools, flock>>
      /\ \A e \in Client : e # c => conn'[e] = conn[e]
      /\ conn'[c].at \in {"backlog", "accepted", "inflight", "answered"} => Served(conn'[c].to)
  BY CommandsMoveConn
<1>o. \A e \in Client : e # c => pc'[e] = pc[e] /\ pid'[e] = pid[e] /\ told'[e] = told[e]
  BY <1>p DEF Commands, Accept, Handle, Return, Begin, Connect, GivesUp, Pinged, WaitedLongEnough, Called,
         StatusRead, Asked, Unlinks, Checks, StopTimesOut, Goes, client, TypeOK
<1>1. /\ pc'[c] \in {"lookStopped", "check", "stopped"} => Served(told'[c])
      /\ pc'[c] \in {"check", "stopped"} => st[told'[c]] \in {"released", "gone"}
      /\ pc'[c] = "stopped" /\ pid'[c] # None => st[pid'[c]] = "gone"
  <2>1. CASE UNCHANGED client
    BY <1>p, <2>1 DEF Answerers, client
  <2>2. ASSUME NEW where \in {"ping", "statusOf", "ask", "wait", "look", "lookAgain", "call", "answered",
                              "failed", "lookForLeftover", "nothing"},
               Goes(c, where)
        PROVE  pc'[c] \notin {"lookStopped", "check", "stopped"}
    BY <1>p, <2>2 DEF Goes, TypeOK
  <2>3. CASE Asked(c)
    <3>1. CASE Answered(c) /\ Goes(c, "lookStopped") /\ told' = [told EXCEPT ![c] = conn[c].to]
      BY <1>p, <3>1 DEF Answered, Goes, Answerers, TypeOK
    <3> QED BY <2>2, <2>3, <3>1 DEF Asked
  <2>4. CASE Checks(c)
    BY <1>p, <2>4 DEF Checks, Goes, Answerers, TypeOK
  <2>5. CASE \/ Begin(c) \/ Pinged(c) \/ WaitedLongEnough(c) \/ Called(c) \/ StatusRead(c)
             \/ Unlinks(c) \/ StopTimesOut(c)
    BY <2>2, <2>5 DEF Begin, Pinged, WaitedLongEnough, Called, StatusRead, Unlinks, StopTimesOut
  <2> QED BY <2>1, <2>3, <2>4, <2>5 DEF Commands, Accept, Handle, Return, Connect, GivesUp
<1> QED BY <1>p, <1>u, <1>o, <1>1 DEF Answerers, Served

-----------------------------------------------------------------------------
(* The lock *)

\* Taking the lock to see that it was free means that the daemon which answered has
\* let it go, or is gone with it.
LEMMA LooksKeep ==
    ASSUME IInv, NEW c \in Client, LooksAtLock(c)
    PROVE  TypeOK' /\ Locked' /\ ToolsOf' /\ Answerers'
<1> USE DaemonAssumption
<1>p. TypeOK /\ Locked /\ ToolsOf /\ Answerers
  BY DEF IInv
<1>l. /\ {"look", "lookAgain", "lookForLeftover", "lookStopped"} = DOMAIN Looks
      /\ Looks["look"].held = "wait" /\ Looks["look"].free = "spawn"
      /\ Looks["lookAgain"].held = "wait" /\ Looks["lookAgain"].free = "failed"
      /\ Looks["lookForLeftover"].held = "ask" /\ Looks["lookForLeftover"].free = "unlink"
      /\ Looks["lookStopped"].held = "lookStopped" /\ Looks["lookStopped"].free = "check"
  BY DEF Looks
<1>u. UNCHANGED <<sock, st, tools, stopping, shutdown, idle, conn, late, pid, child, told, world>>
  BY DEF LooksAtLock, daemon
<1>1. TypeOK'
  BY <1>p, <1>l, <1>u DEF LooksAtLock, Goes, TypeOK, world, Requesting, Ended
<1>2. Locked' /\ ToolsOf'
  BY <1>p, <1>u DEF LooksAtLock, Locked, HasLock, ToolsOf, TypeOK
<1>3. Answerers'
  <2>1. CASE UNCHANGED pc
    BY <1>p, <1>u, <2>1 DEF Answerers, Served
  <2>2. CASE Goes(c, Looks[pc[c]].held) /\ pc[c] \in DOMAIN Looks
    <3>1. pc'[c] \in {"wait", "ask"} \/ pc'[c] = pc[c]
      BY <1>p, <1>l, <2>2 DEF Goes, TypeOK
    <3>2. \A e \in Client : e # c => pc'[e] = pc[e]
      BY <1>p, <2>2 DEF Goes, TypeOK
    <3> QED BY <1>p, <1>u, <3>1, <3>2 DEF Answerers, Served
  <2>3. CASE flock = c /\ Goes(c, Looks[pc[c]].free) /\ pc[c] \in DOMAIN Looks
    <3>1. pc'[c] \in {"spawn", "failed", "unlink"} \/ (pc[c] = "lookStopped" /\ pc'[c] = "check")
      BY <1>p, <1>l, <2>3 DEF Goes, TypeOK
    <3>2. \A e \in Client : e # c => pc'[e] = pc[e]
      BY <1>p, <2>3 DEF Goes, TypeOK
    <3>3. ASSUME pc[c] = "lookStopped" PROVE st[told[c]] \in {"released", "gone"}
      <4>1. told[c] \in Daemon /\ tools[told[c]] # "none"
        BY <1>p, <3>3 DEF Answerers, Served
      <4>2. ~HasLock(told[c])
        BY <1>p, <2>3, <4>1 DEF Locked
      <4> QED BY <1>p, <4>1, <4>2 DEF ToolsOf, HasLock, TypeOK
    <3> QED BY <1>p, <1>u, <3>1, <3>2, <3>3 DEF Answerers, Served
  <2> QED BY <2>1, <2>2, <2>3 DEF LooksAtLock
<1> QED BY <1>1, <1>2, <1>3

\* A new daemon has neither lock nor tools.
LEMMA SpawnKeeps ==
    ASSUME IInv, NEW c \in Client, Spawn(c)
    PROVE  TypeOK' /\ Locked' /\ ToolsOf' /\ Answerers'
<1>p. TypeOK /\ Locked /\ ToolsOf /\ Answerers
  BY DEF IInv
<1>1. PICK d \in Unborn : /\ st' = [st EXCEPT ![d] = "starting"] /\ child' = [child EXCEPT ![c] = d]
                          /\ Goes(c, "wait")
  BY DEF Spawn
<1>2. d \in Daemon /\ st[d] = "unborn"
  BY DEF Unborn
<1>3. UNCHANGED <<shared, tools, stopping, shutdown, idle, conn, late, pid, told, world>>
  BY DEF Spawn
<1>4. TypeOK'
  BY <1>p, <1>1, <1>2, <1>3 DEF TypeOK, Goes, shared, world, Requesting
<1>5. Locked' /\ ToolsOf'
  BY <1>p, <1>1, <1>2, <1>3 DEF TypeOK, Locked, HasLock, ToolsOf, shared
<1>6. Answerers'
  <2>1. \A e \in Client : pc'[e] \in {"lookStopped", "check", "stopped"} => pc'[e] = pc[e]
    BY <1>p, <1>1 DEF Goes, TypeOK
  <2>2. \A e \in Daemon : st[e] \in {"released", "gone"} => st'[e] = st[e]
    BY <1>p, <1>1, <1>2 DEF TypeOK
  <2> QED BY <1>p, <1>3, <2>1, <2>2 DEF Answerers, Served, TypeOK
<1> QED BY <1>4, <1>5, <1>6

-----------------------------------------------------------------------------
(* The invariant *)

\* A daemon that goes forward leaves what was said of it true.
LEMMA ForwardKeepsAnswerers ==
    ASSUME IInv, \A d \in Daemon : Forward(d), UNCHANGED client,
           \A c \in Client : conn'[c].at # "dead" => conn'[c] = conn[c]
    PROVE  Answerers'
BY DEF IInv, TypeOK, Answerers, Served, Forward, client

\* A call that starts pets anew does so after they were closed, and moves nothing else.
LEMMA AgainKeeps ==
    ASSUME IInv, NEW c \in Client, StartsAgain(c)
    PROVE  IInv'
<1>p. TypeOK /\ Locked /\ ToolsOf /\ Answerers
  BY DEF IInv
<1>1. /\ UNCHANGED <<sock, flock, st, stopping, shutdown, idle, conn, late, pc, pid, child, told, ops, signals>>
      /\ tools[conn[c].to] = "closed" /\ tools' = [tools EXCEPT ![conn[c].to] = "again"]
  BY DEF StartsAgain, shared, client, world
<1>2. tools' \in [Daemon -> {"none", "open", "closed", "left", "again"}]
  BY <1>p, <1>1 DEF TypeOK
<1>3. \A d \in Daemon : (tools'[d] = "none" <=> tools[d] = "none") /\ (tools'[d] = "open" <=> tools[d] = "open")
  BY <1>p, <1>1 DEF TypeOK
<1>4. TypeOK'
  BY <1>p, <1>1, <1>2 DEF TypeOK
<1>5. Locked' /\ ToolsOf'
  BY <1>p, <1>1, <1>3 DEF Locked, HasLock, ToolsOf
<1>6. Answerers'
  BY <1>p, <1>1, <1>3 DEF Answerers, Served
<1> QED BY <1>4, <1>5, <1>6 DEF IInv

\* Nothing runs at first.
LEMMA InvInit ==
    ASSUME Init
    PROVE  IInv
<1> USE DaemonAssumption
<1>1. TypeOK
  BY DEF Init, TypeOK, NoConn, Ended
<1>2. Locked /\ ToolsOf
  BY DEF Init, Locked, HasLock, ToolsOf
<1>3. Answerers
  BY DEF Init, Answerers, NoConn
<1> QED BY <1>1, <1>2, <1>3 DEF IInv

\* Every step keeps the invariant.
LEMMA InvStep ==
    ASSUME IInv, [Next]_vars
    PROVE  IInv'
<1>1. ASSUME NEW d \in Daemon, Main(d) PROVE IInv'
  <2>1. TypeOK'
    BY <1>1, MainKeeps DEF IInv, TypeOK, Conns, client, world
  <2>2. Answerers'
    BY <1>1, MainKeeps, ForwardKeepsAnswerers
  <2> QED BY <1>1, <2>1, <2>2, MainKeeps DEF IInv
<1>2. ASSUME NEW d \in Daemon, Kill(d) PROVE IInv'
  <2>1. Answerers'
    BY <1>2, KillKeeps, ForwardKeepsAnswerers DEF Kill
  <2> QED BY <1>2, <2>1, KillKeeps DEF IInv
<1>3. ASSUME NEW d \in Daemon, Threads(d) PROVE IInv'
  <2>1. TypeOK' /\ UNCHANGED <<st, tools, flock, conn, client>>
    BY <1>3, ThreadsKeep
  <2> QED BY <2>1 DEF IInv, Locked, HasLock, ToolsOf, Answerers, Served, client
<1>4. ASSUME NEW c \in Client, Commands(c) PROVE IInv'
  <2>1. TypeOK' /\ Answerers' /\ UNCHANGED <<st, tools, flock>>
    BY <1>4, CommandsKeepTypes, CommandsKeepAnswerers, CommandsMoveConn
  <2> QED BY <2>1 DEF IInv, Locked, HasLock, ToolsOf
<1>5. ASSUME NEW c \in Client, LooksAtLock(c) \/ Spawn(c) PROVE IInv'
  BY <1>5, LooksKeep, SpawnKeeps DEF IInv
<1>6. ASSUME NEW c \in Client, StartsAgain(c) PROVE IInv'
  BY <1>6, AgainKeeps
<1>7. CASE UNCHANGED vars
  BY <1>7 DEF vars, shared, daemon, client, world, IInv, TypeOK, Locked, HasLock, ToolsOf, Answerers, Served
<1> QED BY <1>1, <1>2, <1>3, <1>4, <1>5, <1>6, <1>7 DEF Next, Threads, Commands

\* The inductive invariant holds in every reachable state.
THEOREM Inductive == Spec => []IInv
BY InvInit, InvStep, PTL DEF Spec

\* Every variable keeps its type.
THEOREM TypeCorrect == Spec => []TypeOK
<1>1. IInv => TypeOK
  BY DEF IInv
<1> QED BY Inductive, <1>1, PTL

\* Whatever is spawned, killed, stopped and left open, two daemons have pets at once only
\* when one of them has given back the lock, and that one has tried to close its own.
THEOREM OneToolSetEver == Spec => []OneToolSet
<1>1. ASSUME IInv PROVE OneToolSet
  <2>t. TypeOK /\ Locked /\ ToolsOf
    BY <1>1 DEF IInv
  <2>1. ASSUME NEW d \in Daemon, HasPets(d), st[d] # "released" PROVE flock = d
    <3>1. HasLock(d)
      BY <2>1, <2>t DEF TypeOK, ToolsOf, HasLock, HasPets, Runs
    <3> QED BY <3>1, <2>t DEF Locked
  <2>2. ASSUME NEW d \in Daemon, st[d] = "released" PROVE tools[d] # "open"
    BY <2>2, <2>t DEF ToolsOf
  <2> QED BY <2>1, <2>2 DEF OneToolSet
<1> QED BY Inductive, <1>1, PTL

\* A stop that reports success: the daemon that answered it has been through its close
\* and given back the lock, and the process whose status it had read is gone, however
\* many commands and signals race it.
THEOREM StoppedMeansItEver == Spec => []StoppedMeansIt
<1>1. ASSUME IInv PROVE StoppedMeansIt
  <2>1. ASSUME NEW c \in Client, pc[c] = "stopped"
        PROVE  /\ st[told[c]] \in {"released", "gone"}
               /\ Runs(told[c]) => tools[told[c]] # "open"
               /\ pid[c] # None => st[pid[c]] = "gone"
    <3>1. told[c] \in Daemon /\ tools[told[c]] # "none" /\ st[told[c]] \in {"released", "gone"}
      BY <1>1, <2>1 DEF IInv, Answerers, Served
    <3>2. Runs(told[c]) => tools[told[c]] # "open"
      BY <1>1, <3>1 DEF IInv, TypeOK, ToolsOf, Runs
    <3> QED BY <1>1, <2>1, <3>1, <3>2 DEF IInv, Answerers
  <2> QED BY <2>1 DEF StoppedMeansIt
<1> QED BY Inductive, <1>1, PTL

(***************************************************************************)
(* The resource ledger                                                      *)
(***************************************************************************)

\* The resources there can be after l sentences: the sentence and the first name of each,
\* then the sentences that made a copy of it.
Res(l) == {r \in Seq(Nat \cup Name) : Len(r) >= 2 /\ r[1] \in 1..l /\ \A j \in 3..Len(r) : r[j] \in 1..l}

\* Hypotheses, contexts, and goals.
Hyp == [prop : Prop, res : Seq(Nat \cup Name)]
Context == UNION {[ns -> Hyp] : ns \in SUBSET Name}
Goal == {g \in [spatial : Context, intuit : Context, goal : Nat] : DOMAIN g.spatial \cap DOMAIN g.intuit = {}}

\* A goal holds a resource under a name.
Holds(g, n, r) ==
    \/ n \in DOMAIN g.spatial /\ g.spatial[n].res = r
    \/ n \in DOMAIN g.intuit /\ g.intuit[n].res = r

\* No resource is held twice, by two goals or under two names.
Unique(goals) ==
    \A i, j \in DOMAIN goals : \A m \in Names(goals[i]), n \in Names(goals[j]) : \A r \in HeldIn(goals) :
        Holds(goals[i], m, r) /\ Holds(goals[j], n, r) => i = j /\ m = n

\* The ledger says that a name was used, or that it lost track of it.
UseKinds == {"Consume", "Frame", "Specialize", "Split", "Rename", "Persist"}
Told(log, n) == \E e \in log : \/ e.kind = "Unknown" /\ e.hyp = n
                               \/ e.kind \in UseKinds /\ n \in e.sources

\* An event that says for certain that a hypothesis is gone, and one of the use of a lasting one.
Loses(e) == e.certain /\ Lost(e)
Uses(e) == e.kind = "Frame" /\ e.klass = "intuitionistic"

\* The steps are sequences of goals, events are of sentences that were, and no resource is from
\* a sentence that is still to come; a spatial hypothesis has not been used against a goal.
StepsOK == steps \in Seq(Seq(Goal)) /\ steps # <<>>
Numbered == \A e \in events : e.at[1] \in 1..(Len(steps) - 1)
Known == /\ spent \subseteq Res(Len(steps) - 1)
         /\ \A k \in DOMAIN steps : HeldIn(steps[k]) \subseteq Res(Len(steps) - 1)
SpatialUnspent == \A i \in DOMAIN Final : Resources(Final[i].spatial) \cap spent = {}

\* A name is in the spatial context of a goal.
IsSpatial(goals, n) == \E i \in DOMAIN goals : n \in DOMAIN goals[i].spatial

\* What a name stood for is still held under that name only and is spent only while
\* the name is still there, as long as the ledger has not said that it was used.
Accounted ==
    \A k \in DOMAIN steps : \A i \in DOMAIN steps[k] : \A n \in Names(steps[k][i]) : \A r \in Held(steps[k][i]) :
        Holds(steps[k][i], n, r) =>
          \/ Told(events, n)
          \/ /\ r \in spent => IsSpatial(Final, n)
             /\ \A j \in DOMAIN Final : \A m \in Names(Final[j]) : Holds(Final[j], m, r) => m = n

-----------------------------------------------------------------------------
(* Resources and contexts *)

\* A later sentence forgets no resource; what it makes, it makes for the first time:
\* its own resources and its copies are none of the earlier ones.
LEMMA ResGrows == ASSUME NEW l \in Nat PROVE Res(l) \subseteq Res(l + 1)
BY DEF Res

\* What a sentence makes under a name is a resource of that sentence and of no earlier one.
LEMMA NewRes ==
    ASSUME NEW l \in Nat, NEW n \in Name
    PROVE  <<l + 1, n>> \in Res(l + 1) \ Res(l)
<1>1. <<l + 1, n>> \in Seq(Nat \cup Name) /\ Len(<<l + 1, n>>) = 2 /\ <<l + 1, n>>[1] = l + 1
  OBVIOUS
<1>2. 3..2 = {} /\ l + 1 \in 1..(l + 1) /\ l + 1 \notin 1..l
  OBVIOUS
<1> QED BY <1>1, <1>2 DEF Res

\* A copy made by a sentence is no earlier resource, is not what the sentence makes under a
\* name, and two copies are the same only if they are copies of the same.
LEMMA CopyRes ==
    ASSUME NEW l \in Nat, NEW r \in Res(l + 1)
    PROVE  /\ Append(r, l + 1) \in Res(l + 1) \ Res(l)
           /\ \A n \in Name : Append(r, l + 1) # <<l + 1, n>>
           /\ \A q \in Res(l + 1) : Append(q, l + 1) = Append(r, l + 1) => q = r
<1> DEFINE c == Append(r, l + 1)
<1>1. r \in Seq(Nat \cup Name) /\ Len(r) \in Nat /\ Len(r) >= 2
  BY DEF Res
<1>2. /\ c \in Seq(Nat \cup Name) /\ Len(c) = Len(r) + 1 /\ c[Len(c)] = l + 1
      /\ \A j \in 1..Len(r) : c[j] = r[j]
  BY <1>1, AppendProperties
<1> HIDE DEF c
<1>n. Len(c) \in 3..Len(c) /\ 1 \in 1..Len(r)
  BY <1>1, <1>2
<1>3. c \in Res(l + 1)
  <2>1. Len(c) >= 2 /\ c[1] \in 1..(l + 1)
    BY <1>1, <1>2, <1>n DEF Res
  <2>2. ASSUME NEW j \in 3..Len(c) PROVE c[j] \in 1..(l + 1)
    <3>1. CASE j = Len(c)
      BY <3>1, <1>2
    <3>2. CASE j # Len(c)
      <4>1. j \in 3..Len(r) /\ j \in 1..Len(r)
        BY <3>2, <2>2, <1>1, <1>2
      <4> QED BY <4>1, <1>2 DEF Res
    <3> QED BY <3>1, <3>2
  <2> QED BY <2>1, <2>2, <1>2 DEF Res
<1>4. c \notin Res(l)
  <2>1. c[Len(c)] \notin 1..l
    BY <1>2
  <2> QED BY <2>1, <1>n DEF Res
<1>5. ASSUME NEW n \in Name PROVE c # <<l + 1, n>>
  <2>1. Len(<<l + 1, n>>) = 2
    OBVIOUS
  <2>2. Len(c) >= 3
    BY <1>1, <1>2
  <2>3. Len(c) # Len(<<l + 1, n>>)
    BY <2>1, <2>2, <1>2
  <2> QED BY <2>3, Zenon
<1>6. \A q \in Res(l + 1) : Append(q, l + 1) = c => q = r
  BY <1>1, AppendInjective DEF Res, c
<1> QED BY <1>3, <1>4, <1>5, <1>6 DEF c

\* Contexts map names to hypotheses, and the empty one is one.
LEMMA Contexts ==
    /\ Empty \in Context /\ DOMAIN Empty = {}
    /\ \A c \in Context : DOMAIN c \subseteq Name /\ \A n \in DOMAIN c : c[n] \in Hyp
BY DEF Empty, Context

\* What the operators on contexts keep.
LEMMA WithCtx ==
    ASSUME NEW a \in Context, NEW b \in Context
    PROVE  /\ With(a, b) \in Context /\ DOMAIN With(a, b) = DOMAIN a \cup DOMAIN b
           /\ \A n \in DOMAIN b : With(a, b)[n] = b[n]
           /\ \A n \in DOMAIN a \ DOMAIN b : With(a, b)[n] = a[n]
<1>1. \A n \in DOMAIN a \cup DOMAIN b : (IF n \in DOMAIN b THEN b[n] ELSE a[n]) \in Hyp
  BY Contexts
<1>2. DOMAIN a \cup DOMAIN b \in SUBSET Name
  BY Contexts
<1>3. With(a, b) \in [DOMAIN a \cup DOMAIN b -> Hyp]
  BY <1>1 DEF With
<1> QED BY <1>2, <1>3 DEF With, Context

\* Some of a context is a context, with the hypotheses it had.
LEMMA OnlyCtx ==
    ASSUME NEW a \in Context, NEW ns
    PROVE  /\ Only(a, ns) \in Context /\ DOMAIN Only(a, ns) = DOMAIN a \cap ns
           /\ \A n \in DOMAIN a \cap ns : Only(a, ns)[n] = a[n]
<1>1. \A n \in DOMAIN a \cap ns : a[n] \in Hyp
  BY Contexts
<1>2. DOMAIN a \cap ns \in SUBSET Name
  BY Contexts
<1>3. Only(a, ns) \in [DOMAIN a \cap ns -> Hyp]
  BY <1>1 DEF Only
<1> QED BY <1>2, <1>3 DEF Only, Context

\* A context without some names is a context, with the other hypotheses it had.
LEMMA WithoutCtx ==
    ASSUME NEW a \in Context, NEW ns
    PROVE  /\ Without(a, ns) \in Context /\ DOMAIN Without(a, ns) = DOMAIN a \ ns
           /\ \A n \in DOMAIN a \ ns : Without(a, ns)[n] = a[n]
BY OnlyCtx, DOMAIN a \cap (DOMAIN a \ ns) = DOMAIN a \ ns DEF Without

\* New hypotheses are a context: their propositions, and resources of this sentence.
LEMMA NewsCtx ==
    ASSUME StepsOK, NEW ns \in SUBSET Name, NEW ps \in [ns -> Prop]
    PROVE  /\ News(ps) \in Context /\ DOMAIN News(ps) = ns
           /\ \A n \in ns : News(ps)[n].prop = ps[n] /\ News(ps)[n].res = <<Len(steps), n>>
<1>1. Len(steps) \in Nat
  BY DEF StepsOK
<1>2. \A n \in ns : <<Len(steps), n>> \in Seq(Nat \cup Name)
  BY <1>1
<1>3. \A n \in ns : [prop |-> ps[n], res |-> <<Len(steps), n>>] \in Hyp
  BY <1>2 DEF Hyp
<1>4. News(ps) \in [ns -> Hyp]
  BY <1>3 DEF News
<1> QED BY <1>4 DEF News, Context

\* The copy of a context has its names and propositions, and copied resources.
LEMMA CopyCtx ==
    ASSUME StepsOK, NEW a \in Context
    PROVE  /\ Copy(a) \in Context /\ DOMAIN Copy(a) = DOMAIN a
           /\ \A n \in DOMAIN a : Copy(a)[n].prop = a[n].prop /\ Copy(a)[n].res = Append(a[n].res, Len(steps))
<1>1. Len(steps) \in Nat
  BY DEF StepsOK
<1>2. \A n \in DOMAIN a : a[n] \in Hyp /\ Append(a[n].res, Len(steps)) \in Seq(Nat \cup Name)
  BY <1>1, Contexts DEF Hyp
<1>3. Copy(a) \in [DOMAIN a -> Hyp]
  BY <1>2 DEF Copy, Hyp
<1>4. \A n \in DOMAIN a : Copy(a)[n].prop = a[n].prop /\ Copy(a)[n].res = Append(a[n].res, Len(steps))
  BY <1>2 DEF Copy, Hyp
<1> QED BY <1>3, <1>4, Contexts DEF Copy, Context

-----------------------------------------------------------------------------
(* The diff of two contexts, and of a goal and a after *)

\* What is consumed and produced; a name that is gone is consumed, renamed or ambiguous,
\* and so is each of two that swapped their propositions.
LEMMA Diff ==
    ASSUME NEW prev, NEW next
    PROVE  LET d == DiffContext(prev, next)
               gone == DOMAIN prev \ DOMAIN next
               new == DOMAIN next \ DOMAIN prev
           IN  /\ \A o : o \in d.consumed <=> o \in gone /\ \A n \in new : next[n].prop # prev[o].prop
               /\ \A n : n \in d.produced <=> n \in new /\ \A o \in gone : prev[o].prop # next[n].prop
               /\ \A o \in gone : \/ o \in d.consumed \/ o \in d.ambiguous
                                  \/ \E n \in new : <<o, n>> \in d.renamed
               /\ \A n, m \in DOMAIN prev \cap DOMAIN next :
                      /\ n # m /\ next[n].prop = prev[m].prop
                      /\ ~SameProp(prev[n].prop, next[n].prop) /\ ~SameProp(prev[m].prop, next[m].prop)
                      => n \in d.ambiguous
<1> DEFINE gone == DOMAIN prev \ DOMAIN next
           new == DOMAIN next \ DOMAIN prev
           changed == {n \in DOMAIN prev \cap DOMAIN next : prev[n].prop # next[n].prop}
           rewritten == {n \in changed : ~SameProp(prev[n].prop, next[n].prop)}
           swapped == {n \in rewritten : \E m \in rewritten \ {n} : next[n].prop = prev[m].prop}
           olds(p) == {o \in gone : prev[o].prop = p}
           news(p) == {n \in new : next[n].prop = p}
           renamed == {r \in gone \X new : LET p == prev[r[1]].prop IN olds(p) = {r[1]} /\ news(p) = {r[2]}}
           consumed == {o \in gone : news(prev[o].prop) = {}}
           produced == {n \in new : olds(next[n].prop) = {}}
           moved == (gone \ consumed) \cup (new \ produced)
           ambiguous == swapped \cup {n \in moved : \A r \in renamed : n \notin {r[1], r[2]}}
           d == DiffContext(prev, next)
<1>1. d.consumed = consumed /\ d.produced = produced /\ d.renamed = renamed /\ d.ambiguous = ambiguous
  BY DEF DiffContext
<1> HIDE DEF d
<1>2. \A o : o \in d.consumed <=> o \in gone /\ \A n \in new : next[n].prop # prev[o].prop
  BY <1>1
<1>3. \A n : n \in d.produced <=> n \in new /\ \A o \in gone : prev[o].prop # next[n].prop
  BY <1>1
<1>4. ASSUME NEW o \in gone
      PROVE  o \in d.consumed \/ o \in d.ambiguous \/ \E n \in new : <<o, n>> \in d.renamed
  <2>1. SUFFICES ASSUME o \notin consumed, o \notin ambiguous
                 PROVE  \E n \in new : <<o, n>> \in renamed
    BY <1>1
  <2>2. o \in moved
    BY <2>1
  <2>3. PICK r \in renamed : o \in {r[1], r[2]}
    BY <2>1, <2>2
  <2>4. r = <<r[1], r[2]>> /\ r[1] \in gone /\ r[2] \in new
    BY <2>3
  <2>5. o = r[1]
    BY <2>3, <2>4
  <2> QED BY <2>3, <2>4, <2>5
<1>5. ASSUME NEW n \in DOMAIN prev \cap DOMAIN next, NEW m \in DOMAIN prev \cap DOMAIN next,
             n # m, next[n].prop = prev[m].prop,
             ~SameProp(prev[n].prop, next[n].prop), ~SameProp(prev[m].prop, next[m].prop)
      PROVE  n \in d.ambiguous
  <2>1. n \in rewritten /\ m \in rewritten
    BY <1>5 DEF SameProp
  <2>2. n \in swapped
    BY <2>1, <1>5
  <2> QED BY <2>2, <1>1
<1> QED BY <1>2, <1>3, <1>4, <1>5 DEF d

\* A name that is gone is consumed, ambiguous or renamed (diff.py, DiffContext).
LEMMA Gone ==
    ASSUME NEW prev, NEW next, NEW o \in DOMAIN prev \ DOMAIN next
    PROVE  LET d == DiffContext(prev, next)
           IN  o \in d.consumed \/ o \in d.ambiguous \/ \E n : <<o, n>> \in d.renamed
<1> DEFINE d == DiffContext(prev, next)
<1>1. \A p \in DOMAIN prev \ DOMAIN next : \/ p \in d.consumed \/ p \in d.ambiguous
                                          \/ \E n \in DOMAIN next \ DOMAIN prev : <<p, n>> \in d.renamed
  BY Diff
<1> HIDE DEF d
<1>2. o \in d.consumed \/ o \in d.ambiguous \/ \E n : <<o, n>> \in d.renamed
  BY <1>1
<1> QED BY <1>2 DEF d

\* The same of a pair: what it says is consumed is gone from the spatial context with no
\* new name for it, and has not become intuitionistic.
LEMMA PairDiff ==
    ASSUME NEW parent, NEW after
    PROVE  LET pr == Pair(parent, after)
               s == DiffContext(parent.spatial, after.spatial)
               i == DiffContext(parent.intuit, after.intuit)
           IN  /\ pr.spatial = s /\ pr.intuit = i /\ pr.child = after /\ pr.gone = i.consumed
               /\ pr.consumed \subseteq s.consumed
               /\ \A m, n : <<m, n>> \in pr.persisted => m \in i.produced
               /\ \A m \in i.produced : \A n \in s.consumed :
                      m = n \/ after.intuit[m].prop = parent.spatial[n].prop => <<m, n>> \in pr.persisted
               /\ \A n \in s.consumed : n \in pr.consumed <=> \A m : <<m, n>> \notin pr.persisted
<1> DEFINE pr == Pair(parent, after)
           s == DiffContext(parent.spatial, after.spatial)
           i == DiffContext(parent.intuit, after.intuit)
           moves == {m \in i.produced \X s.consumed :
                        m[1] = m[2] \/ after.intuit[m[1]].prop = parent.spatial[m[2]].prop}
<1>1. /\ pr.spatial = s /\ pr.intuit = i /\ pr.child = after /\ pr.gone = i.consumed /\ pr.persisted = moves
      /\ pr.consumed = s.consumed \ {m[2] : m \in moves}
  BY DEF Pair, Joined
<1> HIDE DEF pr, s, i
<1>2. \A m \in moves : m = <<m[1], m[2]>>
  OBVIOUS
<1>3. \A m \in i.produced : \A n \in s.consumed :
          m = n \/ after.intuit[m].prop = parent.spatial[n].prop => <<m, n>> \in moves
  OBVIOUS
<1>4. \A n \in s.consumed : n \in pr.consumed <=> \A m : <<m, n>> \notin moves
  <2>1. \A n : n \in {m[2] : m \in moves} <=> \E m : <<m, n>> \in moves
    BY <1>2
  <2> QED BY <1>1, <2>1
<1>5. \A m, n : <<m, n>> \in pr.persisted => m \in i.produced
  BY <1>1
<1> QED BY <1>1, <1>3, <1>4, <1>5 DEF pr, s, i

-----------------------------------------------------------------------------
(* The events of a sentence *)

\* What the diff of a goal and one child says ends up in the events, whatever the
\* other children are.
LEMMA MatchingEventsTell ==
    ASSUME NEW call, NEW pr
    PROVE  LET evs == MatchingEvents(call, pr)
           IN  /\ \A n \in pr.spatial.ambiguous : Told(evs, n)
               /\ \A n, m : <<n, m>> \in pr.spatial.renamed => Told(evs, n)
               /\ \A m, n : <<m, n>> \in pr.persisted => Told(evs, n)
               /\ \A e \in evs : e.at[1] = call.n /\ e.kind \notin {"Consume", "Frame"}
<1> DEFINE evs == MatchingEvents(call, pr)
<1>1. ASSUME NEW n \in pr.spatial.ambiguous PROVE Told(evs, n)
  <2>1. Event(call, 1, "Unknown", n, {}, "spatial", FALSE) \in evs
    BY DEF MatchingEvents, DiffEvents
  <2> QED BY <2>1 DEF Told, Event
<1>2. ASSUME NEW n, NEW m, <<n, m>> \in pr.spatial.renamed PROVE Told(evs, n)
  <2>1. Event(call, 1, "Rename", <<n, m>>[2], {<<n, m>>[1]}, "spatial", TRUE) \in evs
    BY <1>2, Zenon DEF MatchingEvents, DiffEvents
  <2>2. n \in {<<n, m>>[1]}
    OBVIOUS
  <2> QED BY <2>1, <2>2 DEF Told, UseKinds, Event
<1>3. ASSUME NEW m, NEW n, <<m, n>> \in pr.persisted PROVE Told(evs, n)
  <2>1. Event(call, 2, "Persist", <<m, n>>[1], {<<m, n>>[2]}, "intuitionistic", TRUE) \in evs
    BY <1>3, Zenon DEF MatchingEvents
  <2>2. n \in {<<m, n>>[2]}
    OBVIOUS
  <2> QED BY <2>1, <2>2 DEF Told, UseKinds, Event
<1>4. ASSUME NEW e \in evs PROVE e.at[1] = call.n /\ e.kind \notin {"Consume", "Frame"}
  <2>1. ASSUME NEW d, NEW klass, NEW f \in DiffEvents(call, d, klass)
        PROVE  f.at[1] = call.n /\ f.kind \in {"Unknown", "Instantiate", "Rename", "Update"}
    BY <2>1 DEF DiffEvents, Event
  <2>2. CASE \E m \in pr.persisted : e = Event(call, 2, "Persist", m[1], {m[2]}, "intuitionistic", TRUE)
    BY <2>2 DEF Event
  <2>3. CASE e \in DiffEvents(call, pr.intuit, "intuitionistic") \cup DiffEvents(call, pr.spatial, "spatial")
    BY <2>1, <2>3
  <2> QED BY <1>4, <2>2, <2>3 DEF MatchingEvents
<1> QED BY <1>1, <1>2, <1>3, <1>4

\* What a sentence that took a goal to its children says: of what is gone from all of
\* them, of what each child shows, and of the lasting hypotheses it names.
LEMMA ChildEventsTell ==
    ASSUME NEW call, NEW parent, NEW children, 1 \in DOMAIN children
    PROVE  LET evs == ChildEvents(call, parent, children)
               pr(i) == Pair(parent, children[i])
           IN  /\ \A n : (\A i \in DOMAIN children : n \in pr(i).consumed) => Told(evs, n)
               /\ \A i \in DOMAIN children : MatchingEvents(call, pr(i)) \subseteq evs
               /\ \A i \in DOMAIN children : \A n \in call.named \cap DOMAIN parent.intuit \cap DOMAIN children[i].intuit :
                      parent.goal # children[i].goal => Told(evs, n)
               /\ \A e \in evs : e.at[1] = call.n
               /\ \A e \in evs : e.certain /\ e.kind \in {"Consume", "Frame"} /\ e.klass = "spatial"
                      => \A i \in DOMAIN children : e.hyp \in pr(i).consumed
               /\ \A e \in evs : Loses(e) =>
                      /\ e.sources = {e.hyp}
                      /\ \/ \A i \in DOMAIN children : e.hyp \in pr(i).consumed
                         \/ \A i \in DOMAIN children : e.hyp \in pr(i).gone
               /\ \A e \in evs : Uses(e) => e.sources = {e.hyp} /\ e.hyp \in DOMAIN parent.intuit
<1> DEFINE evs == ChildEvents(call, parent, children)
           pairs == [i \in DOMAIN children |-> Pair(parent, children[i])]
           consumed == FromAll([i \in DOMAIN pairs |-> pairs[i].consumed], pairs)
           gone == FromAll([i \in DOMAIN pairs |-> pairs[i].gone], pairs)
           produced == UNION {pairs[i].produced : i \in DOMAIN pairs}
           sources == consumed \cup (IF produced = {} THEN {} ELSE gone)
           ofChild(i) == MatchingEvents(call, pairs[i]) \cup Produces(call, pairs[i], sources, produced)
                            \cup UsesIn(call, parent, pairs[i])
<1>1. evs = Consumes(call, consumed) \cup (IF produced = {} THEN Clears(call, gone) ELSE {})
              \cup UNION {ofChild(i) : i \in DOMAIN pairs}
  BY DEF ChildEvents, PairsEvents
<1>2. DOMAIN pairs = DOMAIN children /\ \A i \in DOMAIN children : pairs[i] = Pair(parent, children[i])
  OBVIOUS
<1>3. /\ \A n : n \in consumed <=> \A i \in DOMAIN children : n \in pairs[i].consumed
      /\ \A n : n \in gone <=> \A i \in DOMAIN children : n \in pairs[i].gone
  BY <1>2 DEF FromAll
<1> HIDE DEF evs, pairs, consumed, gone, produced, sources
<1>4. ASSUME NEW n \in consumed PROVE Told(evs, n)
  <2>1. PICK e \in evs : e = Event(call, 3, ConsumeKind(call), n, {n}, "spatial", TRUE)
    BY <1>1 DEF Consumes
  <2> QED BY <2>1 DEF Told, UseKinds, Event, ConsumeKind
<1>5. \A i \in DOMAIN children : MatchingEvents(call, pairs[i]) \subseteq evs
  BY <1>1, <1>2
<1>6. ASSUME NEW i \in DOMAIN children, parent.goal # children[i].goal,
             NEW n \in call.named \cap DOMAIN parent.intuit \cap DOMAIN children[i].intuit
      PROVE  Told(evs, n)
  <2>1. pairs[i].child = children[i]
    BY <1>2, PairDiff
  <2>2. PICK e : /\ e \in UsesIn(call, parent, pairs[i])
                 /\ e = Event(call, 5, "Frame", n, {n}, "intuitionistic", TRUE)
    <3>1. n \in {m \in call.named \cap DOMAIN parent.intuit \cap DOMAIN children[i].intuit :
                     parent.goal # children[i].goal \/ pairs[i].produced # {}}
      BY <1>6
    <3> QED BY <2>1, <3>1 DEF UsesIn, PersistentUses
  <2>3. e \in ofChild(i) /\ i \in DOMAIN pairs
    BY <1>2, <2>2
  <2>4. e \in evs
    BY <1>1, <2>3, Zenon
  <2> QED BY <2>2, <2>4 DEF Told, UseKinds, Event
<1>7. \A e \in Consumes(call, consumed) : e.at[1] = call.n /\ e.hyp \in consumed /\ e.sources = {e.hyp} /\ ~Uses(e)
  BY DEF Event, Consumes, Uses
<1>8. \A e \in Clears(call, gone) :
          e.at[1] = call.n /\ e.klass # "spatial" /\ e.hyp \in gone /\ e.sources = {e.hyp} /\ ~Uses(e)
  BY DEF Event, Clears, Uses
<1>9. ASSUME NEW i \in DOMAIN children, NEW e \in ofChild(i)
      PROVE  /\ e.at[1] = call.n /\ (e.kind \in {"Consume", "Frame"} => e.klass # "spatial")
             /\ ~Loses(e)
             /\ Uses(e) => e.sources = {e.hyp} /\ e.hyp \in DOMAIN parent.intuit
  <2>1. CASE e \in MatchingEvents(call, pairs[i])
    BY <2>1, MatchingEventsTell DEF Loses, Lost, Uses
  <2>2. CASE e \in Produces(call, pairs[i], sources, produced)
    <3>1. PICK n, klass : e = Event(call, 4, ProduceKind(call, sources, produced), n, sources, klass, TRUE)
      BY <2>2 DEF Produces
    <3>2. ProduceKind(call, sources, produced) \in {"Intro", "Split", "Produce"}
      BY DEF ProduceKind
    <3> QED BY <3>1, <3>2 DEF Event, Loses, Lost, Uses
  <2>3. CASE e \in UsesIn(call, parent, pairs[i])
    <3>1. PICK n \in DOMAIN parent.intuit : e = Event(call, 5, "Frame", n, {n}, "intuitionistic", TRUE)
      BY <2>3 DEF UsesIn, PersistentUses
    <3> QED BY <3>1 DEF Event, Loses, Lost, Uses
  <2> QED BY <1>9, <2>1, <2>2, <2>3
<1>10. \A e \in evs : \/ e \in Consumes(call, consumed) \/ e \in Clears(call, gone)
                      \/ \E i \in DOMAIN children : e \in ofChild(i)
  BY <1>1, <1>2
<1>11. \A e \in evs : e.at[1] = call.n
  BY <1>7, <1>8, <1>9, <1>10
<1>12. \A e \in evs : e.certain /\ e.kind \in {"Consume", "Frame"} /\ e.klass = "spatial" => e.hyp \in consumed
  BY <1>7, <1>8, <1>9, <1>10
<1>13. \A e \in evs : Loses(e) => e.sources = {e.hyp} /\ (e.hyp \in consumed \/ e.hyp \in gone)
  BY <1>7, <1>8, <1>9, <1>10
<1>14. \A e \in evs : Uses(e) => e.sources = {e.hyp} /\ e.hyp \in DOMAIN parent.intuit
  BY <1>7, <1>8, <1>9, <1>10
<1> QED BY <1>2, <1>3, <1>4, <1>5, <1>6, <1>11, <1>12, <1>13, <1>14 DEF evs

\* A sentence that closed its goal: all the spatial context, and what it named.
LEMMA ClosedEventsTell ==
    ASSUME NEW call, NEW parent
    PROVE  LET evs == ClosedEvents(call, parent)
           IN  /\ \A n \in DOMAIN parent.spatial \cup (call.named \cap DOMAIN parent.intuit) : Told(evs, n)
               /\ \A e \in evs : e.at[1] = call.n
               /\ \A e \in evs : Loses(e) => e.sources = {e.hyp} /\ e.hyp \in DOMAIN parent.spatial
               /\ \A e \in evs : Uses(e) => e.sources = {e.hyp} /\ e.hyp \in DOMAIN parent.intuit
<1> DEFINE evs == ClosedEvents(call, parent)
<1>1. ASSUME NEW n \in DOMAIN parent.spatial PROVE Told(evs, n)
  <2>1. PICK e \in evs : e = Event(call, 3, ConsumeKind(call), n, {n}, "spatial", TRUE)
    BY DEF ClosedEvents, Consumes
  <2> QED BY <2>1 DEF Told, UseKinds, Event, ConsumeKind
<1>2. ASSUME NEW n \in call.named \cap DOMAIN parent.intuit PROVE Told(evs, n)
  <2>1. PICK e \in evs : e = Event(call, 5, "Frame", n, {n}, "intuitionistic", TRUE)
    BY DEF ClosedEvents, PersistentUses
  <2> QED BY <2>1 DEF Told, UseKinds, Event
<1>3. \A e \in evs : e.at[1] = call.n
  BY DEF Event, ClosedEvents, Consumes, PersistentUses
<1>4. ASSUME NEW e \in evs
      PROVE  /\ Loses(e) => e.sources = {e.hyp} /\ e.hyp \in DOMAIN parent.spatial
             /\ Uses(e) => e.sources = {e.hyp} /\ e.hyp \in DOMAIN parent.intuit
  <2>1. CASE e \in Consumes(call, DOMAIN parent.spatial)
    BY <2>1 DEF Consumes, Event, Uses
  <2>2. CASE e \in PersistentUses(call, parent, DOMAIN parent.intuit, TRUE)
    BY <2>2 DEF PersistentUses, Event, Loses, Lost
  <2> QED BY <2>1, <2>2 DEF ClosedEvents
<1> QED BY <1>1, <1>2, <1>3, <1>4

\* Several goals closed at once.
LEMMA MultiGoalEventsTell ==
    ASSUME NEW call, NEW touched, NEW children
    PROVE  LET evs == MultiGoalEvents(call, touched, children)
           IN  /\ children # <<>> => evs = {}
               /\ children = <<>> => \A i \in DOMAIN touched : \A n \in DOMAIN touched[i].spatial : Told(evs, n)
               /\ \A e \in evs : e.at[1] = call.n /\ ~e.certain /\ ~Uses(e)
<1> DEFINE evs == MultiGoalEvents(call, touched, children)
<1>1. ASSUME children = <<>>, NEW i \in DOMAIN touched, NEW n \in DOMAIN touched[i].spatial
      PROVE  Told(evs, n)
  <2>1. evs = UNION {{Event(call, 3, "Consume", m, {m}, "spatial", FALSE) : m \in DOMAIN touched[j].spatial} :
                         j \in DOMAIN touched}
    BY <1>1, Zenon DEF MultiGoalEvents
  <2>2. Event(call, 3, "Consume", n, {n}, "spatial", FALSE) \in evs
    <3>1. Event(call, 3, "Consume", n, {n}, "spatial", FALSE)
              \in {Event(call, 3, "Consume", m, {m}, "spatial", FALSE) : m \in DOMAIN touched[i].spatial}
      BY <1>1, Zenon
    <3> QED BY <1>1, <2>1, <3>1
  <2> QED BY <2>2 DEF Told, UseKinds, Event
<1>2. \A e \in evs : e.at[1] = call.n /\ ~e.certain /\ ~Uses(e)
  BY DEF Event, MultiGoalEvents, Uses
<1> QED BY <1>1, <1>2 DEF MultiGoalEvents

-----------------------------------------------------------------------------
(* The goals a sentence left alone *)

\* A bounded set of numbers has a greatest one.
LEMMA Greatest ==
    ASSUME NEW b \in Nat, NEW S \in SUBSET (0..b), NEW s \in S
    PROVE  Max(S) \in S /\ \A k \in S : k <= Max(S)
<1> DEFINE R == OpToRel(<, Nat)
           T == {k \in 0..b : b - k \in S}
<1>1. IsWellFoundedOn(R, Nat)
  BY NatLessThanWellFounded
<1>2. \A x, y \in Nat : <<x, y>> \in R <=> x < y
  BY DEF OpToRel
<1>3. T \subseteq Nat /\ T # {}
  <2>1. b - s \in T
    OBVIOUS
  <2> QED BY <2>1
<1> HIDE DEF R, T
<1>4. PICK t \in T : \A y \in T : ~(<<y, t>> \in R)
  BY <1>1, <1>3, WFMin
<1>5. t \in 0..b /\ b - t \in S
  BY DEF T
<1>6. ASSUME NEW k \in S PROVE k <= b - t
  <2>1. k \in 0..b /\ b - k \in 0..b /\ b - (b - k) = k
    OBVIOUS
  <2>2. b - k \in T
    BY <2>1 DEF T
  <2>3. ~(b - k < t)
    BY <1>2, <1>3, <1>4, <2>2
  <2> QED BY <1>5, <2>1, <2>3
<1>7. \A k \in S : b - t >= k
  BY <1>5, <1>6
<1>8. Max(S) \in S /\ \A k \in S : Max(S) >= k
  BY <1>5, <1>7 DEF Max
<1> QED BY <1>5, <1>8

\* The smaller of two numbers.
LEMMA Least2 == ASSUME NEW a \in Nat, NEW b \in Nat PROVE Min({a, b}) = IF a <= b THEN a ELSE b
BY DEF Min

\* The last k goals of two steps are the same.
Kept(prev, next, k) == \A i \in 0..(k - 1) : SameGoal(prev[Len(prev) - i], next[Len(next) - i])

\* What align_goals leaves alone: the longest of the tails it can.
LEMMA UntouchedIs ==
    ASSUME NEW prev \in Seq(Goal), NEW next \in Seq(Goal), prev # <<>>
    PROVE  /\ Untouched(prev, next) \in 0..(Len(prev) - 1) /\ Untouched(prev, next) <= Len(next)
           /\ \A k \in 0..(Len(prev) - 1) : k <= Len(next) /\ Kept(prev, next, k) => k <= Untouched(prev, next)
           /\ Kept(prev, next, Untouched(prev, next))
<1> DEFINE b == Min({Len(prev) - 1, Len(next)})
           S == {k \in 0..b : \A i \in 0..(k - 1) : SameGoal(prev[Len(prev) - i], next[Len(next) - i])}
<1>1. Len(prev) - 1 \in Nat /\ Len(next) \in Nat
  OBVIOUS
<1>2. b \in Nat /\ b <= Len(prev) - 1 /\ b <= Len(next) /\ (b = Len(prev) - 1 \/ b = Len(next))
  BY <1>1, Least2
<1>3. 0 \in S
  BY <1>2
<1>4. Max(S) \in S /\ \A k \in S : k <= Max(S)
  BY <1>2, <1>3, Greatest
<1>5. Untouched(prev, next) = Max(S)
  BY DEF Untouched
<1>6. \A k \in 0..(Len(prev) - 1) : k <= Len(next) /\ Kept(prev, next, k) => k \in S
  BY <1>1, <1>2 DEF Kept
<1>7. S \subseteq 0..b /\ \A k \in S : Kept(prev, next, k)
  BY DEF Kept
<1> HIDE DEF S, b
<1>8. Untouched(prev, next) \in S /\ Untouched(prev, next) \in 0..b /\ \A k \in S : k <= Untouched(prev, next)
  BY <1>4, <1>5, <1>7
<1>9. Untouched(prev, next) \in 0..(Len(prev) - 1) /\ Untouched(prev, next) <= Len(next)
  BY <1>1, <1>2, <1>8
<1> QED BY <1>6, <1>7, <1>8, <1>9

\* A sentence that made `children` of the focused goal and left the others, up to an evar
\* that was filled, is seen as that.
LEMMA Aligned ==
    ASSUME NEW prev \in Seq(Goal), prev # <<>>, NEW children \in Seq(Goal), NEW tail \in Seq(Goal),
           Len(tail) = Len(prev) - 1,
           \A j \in 1..Len(tail) : SameGoal(prev[j + 1], tail[j]),
           NEW call
    PROVE  LET next == children \o tail IN
           /\ SubSeq(next, 1, Len(next) - Untouched(prev, next)) = children
           /\ StepEvents(call, prev, next) = IF children = <<>> THEN ClosedEvents(call, prev[1])
                                             ELSE ChildEvents(call, prev[1], children)
<1> DEFINE next == children \o tail
           k == Len(prev) - 1
<1>1. /\ next \in Seq(Goal) /\ Len(next) = Len(children) + Len(tail) /\ Len(prev) \in Nat /\ Len(prev) >= 1
      /\ Len(children) \in Nat
      /\ \A i \in 1..Len(children) : next[i] = children[i]
      /\ \A i \in 1..Len(tail) : next[Len(children) + i] = tail[i]
  <2>1. /\ next \in Seq(Goal) /\ Len(next) = Len(children) + Len(tail)
        /\ \A i \in 1..(Len(children) + Len(tail)) :
               next[i] = IF i <= Len(children) THEN children[i] ELSE tail[i - Len(children)]
    BY ConcatProperties
  <2>2. Len(prev) \in Nat /\ Len(prev) >= 1 /\ Len(children) \in Nat /\ Len(tail) \in Nat
    OBVIOUS
  <2> HIDE DEF next
  <2>3. \A i \in 1..Len(children) : next[i] = children[i]
    BY <2>1, <2>2
  <2>4. ASSUME NEW i \in 1..Len(tail) PROVE next[Len(children) + i] = tail[i]
    <3>1. /\ Len(children) + i \in 1..(Len(children) + Len(tail)) /\ ~(Len(children) + i <= Len(children))
          /\ (Len(children) + i) - Len(children) = i
      BY <2>2
    <3> QED BY <2>1, <3>1
  <2> QED BY <2>1, <2>2, <2>3, <2>4
<1> HIDE DEF next
<1>2. ASSUME NEW i \in 0..(k - 1) PROVE SameGoal(prev[Len(prev) - i], next[Len(next) - i])
  <2>0. k \in Nat /\ Len(tail) = k /\ Len(prev) = k + 1 /\ i \in Nat /\ i < k
    BY <1>1
  <2>1. k - i \in 1..Len(tail) /\ Len(prev) - i = (k - i) + 1 /\ Len(next) - i = Len(children) + (k - i)
    BY <1>1, <2>0
  <2>2. SameGoal(prev[(k - i) + 1], tail[k - i]) /\ next[Len(children) + (k - i)] = tail[k - i]
    BY <1>1, <2>1
  <2> QED BY <2>1, <2>2
<1>3. Untouched(prev, next) = k
  <2>1. k \in 0..(Len(prev) - 1) /\ k <= Len(next)
    BY <1>1
  <2>2. Kept(prev, next, k)
    BY <1>2, Zenon DEF Kept
  <2>3. Untouched(prev, next) \in 0..k /\ k <= Untouched(prev, next)
    BY <1>1, <2>1, <2>2, UntouchedIs
  <2> QED BY <1>1, <2>3
<1>4. SubSeq(next, 1, Len(next) - k) = children
  <2>1. Len(next) - k = Len(children)
    BY <1>1
  <2>2. SubSeq(next, 1, Len(children)) \in Seq(Goal)
    BY <1>1
  <2>3. Len(SubSeq(next, 1, Len(children))) = Len(children)
    BY <1>1
  <2>4. \A i \in 1..Len(children) : SubSeq(next, 1, Len(children))[i] = children[i]
    BY <1>1
  <2> QED BY <2>1, <2>2, <2>3, <2>4, SeqEqual
<1>5. Len(SubSeq(prev, 1, Len(prev) - k)) = 1
  BY <1>1
<1>6. StepEvents(call, prev, next) = IF children = <<>> THEN ClosedEvents(call, prev[1])
                                     ELSE ChildEvents(call, prev[1], children)
  <2>1. /\ ~(Len(SubSeq(prev, 1, Len(prev) - Untouched(prev, next))) > 1)
        /\ Len(SubSeq(prev, 1, Len(prev) - Untouched(prev, next))) = 1
        /\ SubSeq(next, 1, Len(next) - Untouched(prev, next)) = children
    BY <1>3, <1>4, <1>5
  <2> QED BY <2>1, Zenon DEF StepEvents
<1> QED BY <1>3, <1>4, <1>6 DEF next

-----------------------------------------------------------------------------
(* What a sentence has to keep *)

\* What a goal holds, or some goals hold, it holds under a name.
LEMMA HeldBy ==
    /\ \A g, r : r \in Held(g) <=> \E n : Holds(g, n, r)
    /\ \A goals, r : r \in HeldIn(goals) <=> \E i \in DOMAIN goals : \E n : Holds(goals[i], n, r)
<1>1. \A g, r : r \in Held(g) <=> \E n : Holds(g, n, r)
  BY DEF Held, Resources, Holds
<1>2. \A goals, r : r \in HeldIn(goals) <=> \E i \in DOMAIN goals : r \in Held(goals[i])
  BY DEF HeldIn
<1> QED BY <1>1, <1>2

\* Uniqueness, with every name and resource in place of those that are there.
LEMMA UniqueIs ==
    ASSUME NEW goals
    PROVE  Unique(goals) <=> \A i, j \in DOMAIN goals : \A m, n, r :
               Holds(goals[i], m, r) /\ Holds(goals[j], n, r) => i = j /\ m = n
<1>1. \A g, n, r : Holds(g, n, r) => n \in Names(g)
  BY DEF Holds, Names
<1>2. \A i \in DOMAIN goals : \A n, r : Holds(goals[i], n, r) => r \in HeldIn(goals)
  BY HeldBy
<1> QED BY <1>1, <1>2 DEF Unique

\* The same of the account the ledger keeps.
LEMMA AccountedIs ==
    Accounted <=> \A k \in DOMAIN steps : \A i \in DOMAIN steps[k] : \A n, r : Holds(steps[k][i], n, r) =>
          \/ Told(events, n)
          \/ /\ r \in spent => IsSpatial(Final, n)
             /\ \A j \in DOMAIN Final : \A m : Holds(Final[j], m, r) => m = n
<1>1. \A g, n, r : Holds(g, n, r) => n \in Names(g) /\ r \in Held(g)
  BY HeldBy DEF Holds, Names
<1> QED BY <1>1 DEF Accounted

\* The resources there were before this sentence, and the sentence as the events know it.
Old == Res(Len(steps) - 1)
CallOf(head, named) == [n |-> Len(steps), head |-> head, named |-> named]

\* A hypothesis of `next` with an old resource had it before, under its own name or under
\* one of which the ledger says so; it was spatial unless it was lasting all along.
Origins(goals, g, used, evs) ==
    /\ \A m \in DOMAIN g.spatial : g.spatial[m].res \in Old =>
           /\ g.spatial[m].res \notin used
           /\ \E i \in DOMAIN goals : \E n \in DOMAIN goals[i].spatial :
                  goals[i].spatial[n].res = g.spatial[m].res /\ (n = m \/ Told(evs, n))
    /\ \A m \in DOMAIN g.intuit : g.intuit[m].res \in Old =>
           \E i \in DOMAIN goals :
              \/ m \in DOMAIN goals[i].intuit /\ goals[i].intuit[m].res = g.intuit[m].res
              \/ /\ g.intuit[m].res \notin used
                 /\ \E n \in DOMAIN goals[i].spatial :
                        goals[i].spatial[n].res = g.intuit[m].res /\ Told(evs, n)

\* A spatial hypothesis is still there, or the ledger says that it was used.
Vanishes(goals, next, evs) ==
    \A i \in DOMAIN goals : \A n \in DOMAIN goals[i].spatial : Told(evs, n) \/ IsSpatial(next, n)

\* What is used the focused goals held, under a name that is still spatial or is told of.
UsesTold(goals, next, used, evs) ==
    \A r \in used : \E i \in DOMAIN goals : \E n : Holds(goals[i], n, r) /\ (Told(evs, n) \/ IsSpatial(next, n))

\* The events that say for certain that a spatial hypothesis is gone.
Takes(e) == e.certain /\ e.kind \in {"Consume", "Frame"} /\ e.klass = "spatial"

\* What is said to be gone was held by the focused goal and is held no more; what is said to
\* be used and to stay was lasting.
Honest(goals, next, evs) ==
    /\ goals # <<>>
    /\ \A e \in evs :
          /\ Loses(e) => e.sources = {e.hyp} /\ \E r : Holds(goals[1], e.hyp, r) /\ r \notin HeldIn(next)
          /\ Uses(e) => e.sources = {e.hyp} /\ e.hyp \in DOMAIN goals[1].intuit

\* What a sentence has to do for the invariant: make well-formed goals, lose track of nothing it
\* does not tell of, and claim no more than it took.
Sound(head, named, next, used) ==
    LET evs == StepEvents(CallOf(head, named), Final, next)
    IN  /\ next \in Seq(Goal)
        /\ HeldIn(next) \subseteq Res(Len(steps))
        /\ Unique(next)
        /\ \A j \in DOMAIN next : Origins(Final, next[j], used, evs)
        /\ Vanishes(Final, next, evs)
        /\ UsesTold(Final, next, used, evs)
        /\ \A e \in evs : e.at[1] = Len(steps)
        /\ \A e \in evs : Takes(e) => Final[1].spatial[e.hyp].res
               \notin HeldIn(SubSeq(next, 1, Len(next) - Untouched(Final, next)))
        /\ Honest(Final, next, evs)

\* The proof goes on with a sound sentence.
SoundSentence == \E head, named, next, used : Sound(head, named, next, used) /\ Did(head, named, next, used)

\* The inductive invariant.
LedgerInv ==
    /\ StepsOK /\ Numbered /\ Known /\ Unique(Final) /\ SpatialUnspent /\ Accounted
    /\ ConsumptionIsReal

\* There is a last step, and it is a sequence of goals.
LEMMA FinalIs ==
    ASSUME StepsOK
    PROVE  /\ Len(steps) \in Nat \ {0} /\ Len(steps) \in DOMAIN steps /\ Len(steps) - 1 \in Nat
           /\ (Len(steps) - 1) + 1 = Len(steps)
           /\ \A k \in DOMAIN steps : steps[k] \in Seq(Goal)
           /\ Final \in Seq(Goal)
BY DEF StepsOK, Final

\* A sound sentence keeps the invariant.
LEMMA SoundKeeps ==
    ASSUME LedgerInv, NEW head, NEW named, NEW next, NEW used,
           Sound(head, named, next, used), Did(head, named, next, used)
    PROVE  LedgerInv'
<1> DEFINE evs == StepEvents(CallOf(head, named), Final, next)
           L == Len(steps)
<1>1. /\ L \in Nat \ {0} /\ L \in DOMAIN steps /\ L - 1 \in Nat /\ (L - 1) + 1 = L
      /\ \A k \in DOMAIN steps : steps[k] \in Seq(Goal)
      /\ Final \in Seq(Goal) /\ next \in Seq(Goal) /\ steps \in Seq(Seq(Goal))
  BY FinalIs DEF LedgerInv, StepsOK, Sound
<1>2. steps' = Append(steps, next) /\ events' = events \cup evs /\ spent' = spent \cup used
  BY DEF Did, CallOf
<1>3. /\ steps' \in Seq(Seq(Goal)) /\ Len(steps') = L + 1 /\ steps' # <<>>
      /\ DOMAIN steps' = DOMAIN steps \cup {L + 1}
      /\ Final' = next /\ \A k \in DOMAIN steps : steps'[k] = steps[k]
      /\ steps'[L + 1] = next /\ L + 1 \notin DOMAIN steps
  BY <1>1, <1>2 DEF Final
<1> HIDE DEF evs
<1>4. StepsOK'
  BY <1>3 DEF StepsOK
<1>5. Numbered'
  <2>1. \A e \in evs : e.at[1] = L
    BY DEF Sound, evs
  <2> QED BY <1>1, <1>2, <1>3, <2>1 DEF LedgerInv, Numbered
<1>6. Res(L - 1) \subseteq Res(L)
  BY <1>1, ResGrows
<1>7. used \subseteq Old
  <2>1. ASSUME NEW r \in used PROVE r \in Old
    <3>1. PICK i \in DOMAIN Final : \E n : Holds(Final[i], n, r)
      BY DEF Sound, UsesTold
    <3>2. r \in HeldIn(steps[L])
      BY <3>1, HeldBy DEF Final
    <3> QED BY <1>1, <3>2 DEF LedgerInv, Known, Old
  <2> QED BY <2>1
<1>8. HeldIn(Final) \subseteq Old /\ spent' \subseteq Old
  BY <1>1, <1>2, <1>7 DEF LedgerInv, Known, Old, Final
<1>9. Known'
  <2>1. spent' \subseteq Res(L)
    BY <1>6, <1>8 DEF Old
  <2>2. \A k \in DOMAIN steps : HeldIn(steps[k]) \subseteq Res(L)
    BY <1>6 DEF LedgerInv, Known
  <2>3. HeldIn(next) \subseteq Res(L)
    BY DEF Sound
  <2>4. Len(steps') - 1 = L
    BY <1>1, <1>3
  <2>5. \A k \in DOMAIN steps' : HeldIn(steps'[k]) \subseteq Res(L)
    BY <1>3, <2>2, <2>3
  <2> QED BY <2>1, <2>4, <2>5 DEF Known
<1>10. Unique(Final)'
  BY <1>3 DEF Unique, Sound
<1>11. SpatialUnspent'
  <2>1. ASSUME NEW j \in DOMAIN next, NEW m \in DOMAIN next[j].spatial, next[j].spatial[m].res \in spent'
        PROVE  FALSE
    <3>1. next[j].spatial[m].res \in Old
      BY <1>8, <2>1
    <3>2. /\ next[j].spatial[m].res \notin used
          /\ \E i \in DOMAIN Final : \E n \in DOMAIN Final[i].spatial :
                 Final[i].spatial[n].res = next[j].spatial[m].res
      BY <3>1 DEF Sound, Origins
    <3>3. next[j].spatial[m].res \in spent
      BY <1>2, <2>1, <3>2
    <3>4. \E i \in DOMAIN Final : next[j].spatial[m].res \in Resources(Final[i].spatial)
      BY <3>2 DEF Resources
    <3> QED BY <3>3, <3>4 DEF LedgerInv, SpatialUnspent
  <2> QED BY <1>3, <2>1 DEF SpatialUnspent, Resources
<1> DEFINE Fine(n, r) == \/ Told(events', n)
                         \/ /\ r \in spent' => IsSpatial(next, n)
                            /\ \A j \in DOMAIN next : \A m : Holds(next[j], m, r) => m = n
<1>12. \A n : Told(events, n) \/ Told(evs, n) => Told(events', n)
  BY <1>2 DEF Told
<1>13. \A i, j \in DOMAIN next : \A m, n, r : Holds(next[i], m, r) /\ Holds(next[j], n, r) => i = j /\ m = n
  BY UniqueIs DEF Sound
<1>14. ASSUME NEW k \in DOMAIN steps, NEW i \in DOMAIN steps[k], NEW n, NEW r, Holds(steps[k][i], n, r)
       PROVE  Fine(n, r)
  <2>1. SUFFICES ASSUME ~Told(events, n), ~Told(evs, n)
                 PROVE  /\ r \in spent' => IsSpatial(next, n)
                        /\ \A j \in DOMAIN next : \A m : Holds(next[j], m, r) => m = n
    BY <1>12
  <2>2. /\ r \in spent => IsSpatial(Final, n)
        /\ \A j \in DOMAIN Final : \A m : Holds(Final[j], m, r) => m = n
    BY <1>14, <2>1, AccountedIs DEF LedgerInv
  <2>3. r \in Old
    <3>1. r \in HeldIn(steps[k])
      BY <1>14, HeldBy
    <3> QED BY <3>1 DEF LedgerInv, Known, Old
  <2>4. ASSUME r \in spent' PROVE IsSpatial(next, n)
    <3>1. CASE r \in spent
      <4>1. PICK j \in DOMAIN Final : n \in DOMAIN Final[j].spatial
        BY <2>2, <3>1 DEF IsSpatial
      <4> QED BY <2>1, <4>1 DEF Sound, Vanishes, evs
    <3>2. CASE r \in used
      <4>1. PICK j \in DOMAIN Final : \E m : Holds(Final[j], m, r) /\ (Told(evs, m) \/ IsSpatial(next, m))
        BY <3>2 DEF Sound, UsesTold, evs
      <4> QED BY <2>1, <2>2, <4>1
    <3> QED BY <1>2, <2>4, <3>1, <3>2
  <2>5. ASSUME NEW j \in DOMAIN next, NEW m, Holds(next[j], m, r) PROVE m = n
    <3>1. Origins(Final, next[j], used, evs)
      BY DEF Sound, evs
    <3>2. PICK h \in DOMAIN Final : \E q : Holds(Final[h], q, r) /\ (q = m \/ Told(evs, q))
      <4>1. CASE m \in DOMAIN next[j].spatial /\ next[j].spatial[m].res = r
        BY <2>3, <3>1, <4>1 DEF Origins, Holds
      <4>2. CASE m \in DOMAIN next[j].intuit /\ next[j].intuit[m].res = r
        BY <2>3, <3>1, <4>2 DEF Origins, Holds
      <4> QED BY <2>5, <4>1, <4>2 DEF Holds
    <3> QED BY <2>1, <2>2, <3>2
  <2> QED BY <2>4, <2>5
<1>15. ASSUME NEW i \in DOMAIN next, NEW n, NEW r, Holds(next[i], n, r) PROVE Fine(n, r)
  <2>1. \A j \in DOMAIN next : \A m : Holds(next[j], m, r) => m = n
    BY <1>13, <1>15
  <2>2. CASE r \notin Old
    BY <1>8, <2>1, <2>2
  <2>3. CASE n \in DOMAIN next[i].spatial
    BY <2>1, <2>3 DEF IsSpatial
  <2>4. CASE r \in Old /\ n \in DOMAIN next[i].intuit /\ next[i].intuit[n].res = r
    <3>1. PICK h \in DOMAIN Final :
              \/ n \in DOMAIN Final[h].intuit /\ Final[h].intuit[n].res = r
              \/ r \notin used /\ \E q \in DOMAIN Final[h].spatial : Final[h].spatial[q].res = r
      BY <2>4 DEF Sound, Origins
    <3>2. CASE n \in DOMAIN Final[h].intuit /\ Final[h].intuit[n].res = r
      <4>1. Holds(steps[L][h], n, r) /\ h \in DOMAIN steps[L]
        BY <3>2 DEF Holds, Final
      <4> HIDE DEF Fine
      <4> QED BY <1>1, <1>14, <4>1
    <3>3. CASE r \notin used /\ \E q \in DOMAIN Final[h].spatial : Final[h].spatial[q].res = r
      <4>1. r \in Resources(Final[h].spatial)
        BY <3>3 DEF Resources
      <4>2. r \notin spent'
        BY <1>2, <3>3, <4>1 DEF LedgerInv, SpatialUnspent
      <4> QED BY <2>1, <4>2
    <3> QED BY <3>1, <3>2, <3>3
  <2> QED BY <1>15, <2>2, <2>3, <2>4 DEF Holds
<1>16. Accounted'
  <2>1. ASSUME NEW k \in DOMAIN steps', NEW i \in DOMAIN steps'[k], NEW n, NEW r, Holds(steps'[k][i], n, r)
        PROVE  Fine(n, r)
    <3> HIDE DEF Fine
    <3> QED BY <1>3, <1>14, <1>15, <2>1
  <2> QED BY <1>3, <2>1 DEF Accounted
<1>17. ConsumptionIsReal'
  <2>1. steps'[Len(steps') - 1] = Final /\ Len(steps') - 1 = L
    <3>1. Len(steps') - 1 = L
      BY <1>1, <1>3
    <3>3. steps'[L] = steps[L]
      BY <1>1, <1>3, Zenon
    <3>2. steps[L] = Final
      BY DEF Final
    <3> QED BY <3>1, <3>2, <3>3
  <2>2. ASSUME NEW e \in events', e.at[1] = L PROVE e \in evs
    <3>1. \A f \in events : f.at[1] \in 1..(L - 1)
      BY DEF LedgerInv, Numbered
    <3> QED BY <1>1, <1>2, <2>2, <3>1
  <2>3. ASSUME NEW e \in events', e.at[1] = L, Takes(e)
        PROVE  Final[1].spatial[e.hyp].res \notin HeldIn(SubSeq(next, 1, Len(next) - Untouched(Final, next)))
    BY <2>2, <2>3 DEF Sound, evs
  <2> QED BY <1>3, <2>1, <2>3 DEF ConsumptionIsReal, Takes
<1> QED BY <1>4, <1>5, <1>9, <1>10, <1>11, <1>16, <1>17 DEF LedgerInv

-----------------------------------------------------------------------------
(* A sentence of the focused goal *)

\* Two goals hold the same under the same names.
SameHeld(g, h) ==
    /\ DOMAIN h.spatial = DOMAIN g.spatial /\ \A n \in DOMAIN g.spatial : h.spatial[n].res = g.spatial[n].res
    /\ DOMAIN h.intuit = DOMAIN g.intuit /\ \A n \in DOMAIN g.intuit : h.intuit[n].res = g.intuit[n].res

\* The goals that are not focused stay, up to an evar that is filled.
LeftAlone(tail) ==
    /\ tail \in Seq(Goal) /\ Len(tail) = Len(Final) - 1
    /\ \A j \in 1..Len(tail) : SameGoal(Final[j + 1], tail[j]) /\ SameHeld(Final[j + 1], tail[j])

\* The events of a sentence that made `children` of the focused goal.
Says(head, named, children) ==
    IF children = <<>> THEN ClosedEvents(CallOf(head, named), Final[1])
    ELSE ChildEvents(CallOf(head, named), Final[1], children)

\* What is asked of the children of the focused goal, and of it alone.
Gives(head, named, children, used) ==
    LET evs == Says(head, named, children)
    IN  /\ children \in Seq(Goal)
        /\ HeldIn(children) \subseteq Res(Len(steps))
        /\ Unique(children)
        /\ \A j \in DOMAIN children : Origins(<<Final[1]>>, children[j], used, evs)
        /\ Vanishes(<<Final[1]>>, children, evs)
        /\ UsesTold(<<Final[1]>>, children, used, evs)
        /\ \A j \in DOMAIN children : \A n \in Pair(Final[1], children[j]).consumed :
               Final[1].spatial[n].res \notin Held(children[j])
        /\ \A j \in DOMAIN children : \A n \in Pair(Final[1], children[j]).gone :
               Final[1].intuit[n].res \notin Held(children[j])

\* What came from one of some goals came from those goals.
LEMMA OriginsOfOne ==
    ASSUME NEW goals, NEW i \in DOMAIN goals, NEW h, NEW used, NEW evs, Origins(<<goals[i]>>, h, used, evs)
    PROVE  Origins(goals, h, used, evs)
<1>1. DOMAIN <<goals[i]>> = {1} /\ <<goals[i]>>[1] = goals[i]
  OBVIOUS
<1> QED BY <1>1 DEF Origins

\* A sentence is sound when its children are and the other goals were left alone: the
\* alignment sees it as what it did (align_goals), and the others keep what they held.
LEMMA Sentence ==
    ASSUME LedgerInv, Final # <<>>, NEW head, NEW named, NEW used, NEW children, NEW tail,
           Gives(head, named, children, used), LeftAlone(tail)
    PROVE  Sound(head, named, children \o tail, used)
<1> DEFINE next == children \o tail
           evs == StepEvents(CallOf(head, named), Final, next)
           c == Len(children)
           F == Final
<1>1. /\ Final \in Seq(Goal) /\ children \in Seq(Goal) /\ tail \in Seq(Goal) /\ Len(tail) = Len(Final) - 1
      /\ Len(steps) \in Nat \ {0} /\ Len(steps) - 1 \in Nat /\ (Len(steps) - 1) + 1 = Len(steps)
      /\ Len(children) \in Nat /\ Len(Final) \in Nat \ {0} /\ 1 \in DOMAIN Final
  BY FinalIs DEF LedgerInv, Gives, LeftAlone
<1>2. /\ SubSeq(next, 1, Len(next) - Untouched(Final, next)) = children
      /\ evs = Says(head, named, children)
  <2>1. \A j \in 1..Len(tail) : SameGoal(Final[j + 1], tail[j])
    BY DEF LeftAlone
  <2>2. \A call : /\ SubSeq(next, 1, Len(next) - Untouched(Final, next)) = children
                  /\ StepEvents(call, Final, next) = IF children = <<>> THEN ClosedEvents(call, Final[1])
                                                     ELSE ChildEvents(call, Final[1], children)
    BY <1>1, <2>1, Aligned
  <2> HIDE DEF next
  <2> QED BY <2>2, Zenon DEF Says
<1>3. /\ next \in Seq(Goal) /\ Len(next) = c + Len(tail)
      /\ \A i \in 1..c : next[i] = children[i] /\ i \in DOMAIN next
      /\ \A i \in 1..Len(tail) : next[c + i] = tail[i] /\ c + i \in DOMAIN next
  <2>1. /\ next \in Seq(Goal) /\ Len(next) = Len(children) + Len(tail)
        /\ \A i \in 1..(Len(children) + Len(tail)) :
               next[i] = IF i <= Len(children) THEN children[i] ELSE tail[i - Len(children)]
    BY <1>1, ConcatProperties
  <2> HIDE DEF next
  <2>2. \A i \in 1..c : next[i] = children[i] /\ i \in DOMAIN next
    BY <1>1, <2>1
  <2>3. ASSUME NEW i \in 1..Len(tail) PROVE next[c + i] = tail[i] /\ c + i \in DOMAIN next
    <3>1. c + i \in 1..(c + Len(tail)) /\ ~(c + i <= c) /\ (c + i) - c = i
      BY <1>1
    <3> QED BY <2>1, <3>1
  <2> QED BY <2>1, <2>2, <2>3
<1> HIDE DEF next, evs
<1>4. ASSUME NEW j \in DOMAIN next
      PROVE  \/ j \in 1..c /\ j \in DOMAIN children
             \/ \E i \in 1..Len(tail) : j = c + i
  <2>1. j \in 1..(c + Len(tail))
    BY <1>3
  <2>2. CASE j <= c
    BY <1>1, <2>1, <2>2
  <2>3. CASE ~(j <= c)
    <3>1. j - c \in 1..Len(tail) /\ j = c + (j - c)
      BY <1>1, <2>1, <2>3
    <3> QED BY <3>1
  <2> QED BY <2>2, <2>3
<1>5. \A i \in 1..Len(tail) : i + 1 \in DOMAIN F /\ i + 1 # 1 /\ SameHeld(F[i + 1], tail[i])
  BY <1>1 DEF LeftAlone
<1>6. \A i \in 1..Len(tail) : \A n, r : Holds(tail[i], n, r) <=> Holds(F[i + 1], n, r)
  BY <1>5 DEF Holds, SameHeld
<1>7. \A r, i, n : i \in DOMAIN F /\ Holds(F[i], n, r) => r \in Old
  <2>1. HeldIn(Final) \subseteq Old
    BY <1>1, FinalIs DEF LedgerInv, Known, Old, Final
  <2> QED BY <2>1, HeldBy
<1>8. \A i, j \in DOMAIN F : \A m, n, r : Holds(F[i], m, r) /\ Holds(F[j], n, r) => i = j /\ m = n
  BY UniqueIs DEF LedgerInv
<1>9. DOMAIN <<Final[1]>> = {1} /\ <<Final[1]>>[1] = F[1]
  OBVIOUS
<1>10. \A j \in 1..c : Origins(<<Final[1]>>, children[j], used, evs)
  <2>1. \A j \in DOMAIN children : Origins(<<Final[1]>>, children[j], used, evs)
    BY <1>2, Zenon DEF Gives
  <2> QED BY <1>1, <2>1
<1>11. ASSUME NEW j \in 1..c, NEW n, NEW r \in Old, Holds(children[j], n, r) PROVE \E q : Holds(F[1], q, r)
  BY <1>9, <1>10, <1>11 DEF Origins, Holds
<1>12. HeldIn(next) \subseteq Res(Len(steps))
  <2>1. ASSUME NEW r \in HeldIn(next) PROVE r \in Res(Len(steps))
    <3>1. PICK j \in DOMAIN next : \E n : Holds(next[j], n, r)
      BY HeldBy
    <3>2. CASE j \in 1..c /\ j \in DOMAIN children
      <4>1. r \in HeldIn(children)
        BY <1>3, <3>1, <3>2, HeldBy
      <4> QED BY <4>1 DEF Gives
    <3>3. CASE \E i \in 1..Len(tail) : j = c + i
      <4>1. r \in Old
        BY <1>3, <1>5, <1>6, <1>7, <3>1, <3>3
      <4> QED BY <1>1, <4>1, ResGrows DEF Old
    <3> QED BY <1>4, <3>2, <3>3
  <2> QED BY <2>1
<1>13. Unique(next)
  <2>1. \A i, j \in DOMAIN children : \A m, n, r : Holds(children[i], m, r) /\ Holds(children[j], n, r) => i = j /\ m = n
    BY UniqueIs DEF Gives
  <2>2. ASSUME NEW i \in DOMAIN next, NEW j \in DOMAIN next, NEW m, NEW n, NEW r,
               Holds(next[i], m, r), Holds(next[j], n, r)
        PROVE  i = j /\ m = n
    <3>1. CASE i \in 1..c /\ i \in DOMAIN children /\ j \in 1..c /\ j \in DOMAIN children
      BY <1>3, <2>1, <2>2, <3>1
    <3>2. CASE i \in 1..c /\ \E k \in 1..Len(tail) : j = c + k
      <4>1. PICK k \in 1..Len(tail) : j = c + k
        BY <3>2
      <4>2. Holds(F[k + 1], n, r) /\ Holds(children[i], m, r)
        BY <1>3, <1>6, <2>2, <3>2, <4>1
      <4> QED BY <1>1, <1>5, <1>7, <1>8, <1>11, <3>2, <4>2
    <3>3. CASE j \in 1..c /\ \E k \in 1..Len(tail) : i = c + k
      <4>1. PICK k \in 1..Len(tail) : i = c + k
        BY <3>3
      <4>2. Holds(F[k + 1], m, r) /\ Holds(children[j], n, r)
        BY <1>3, <1>6, <2>2, <3>3, <4>1
      <4> QED BY <1>1, <1>5, <1>7, <1>8, <1>11, <3>3, <4>2
    <3>4. CASE (\E k \in 1..Len(tail) : i = c + k) /\ (\E k \in 1..Len(tail) : j = c + k)
      <4>1. PICK k \in 1..Len(tail), l \in 1..Len(tail) : i = c + k /\ j = c + l
        BY <3>4
      <4>2. Holds(F[k + 1], m, r) /\ Holds(F[l + 1], n, r)
        BY <1>3, <1>6, <2>2, <4>1
      <4>3. k + 1 = l + 1 /\ m = n
        BY <1>5, <1>8, <4>2
      <4> QED BY <4>1, <4>3
    <3> QED BY <1>4, <3>1, <3>2, <3>3, <3>4
  <2> QED BY <2>2, UniqueIs
<1>14. \A r \in used : \E q : Holds(F[1], q, r)
  BY <1>9 DEF Gives, UsesTold
<1>15. ASSUME NEW j \in DOMAIN next PROVE Origins(Final, next[j], used, evs)
  <2>1. CASE j \in 1..c
    BY <1>1, <1>3, <1>10, <2>1, OriginsOfOne
  <2>2. CASE \E i \in 1..Len(tail) : j = c + i
    <3>1. PICK i \in 1..Len(tail) : j = c + i
      BY <2>2
    <3>2. next[j] = tail[i] /\ i + 1 \in DOMAIN F /\ SameHeld(F[i + 1], next[j])
      BY <1>3, <1>5, <3>1
    <3>3. \A m \in DOMAIN next[j].spatial : next[j].spatial[m].res \notin used
      <4>1. \A m \in DOMAIN next[j].spatial : Holds(F[i + 1], m, next[j].spatial[m].res)
        BY <3>2 DEF SameHeld, Holds
      <4>2. ASSUME NEW m \in DOMAIN next[j].spatial, next[j].spatial[m].res \in used PROVE FALSE
        <5>1. PICK q : Holds(F[1], q, next[j].spatial[m].res)
          BY <1>14, <4>2
        <5>2. 1 = i + 1
          BY <1>1, <1>8, <3>2, <4>1, <5>1
        <5> QED BY <1>5, <5>2
      <4> QED BY <4>2
    <3> QED BY <3>2, <3>3 DEF Origins, SameHeld
  <2> QED BY <1>4, <2>1, <2>2
<1>16. \A n : IsSpatial(children, n) => IsSpatial(next, n)
  BY <1>1, <1>3 DEF IsSpatial
<1>17. Vanishes(Final, next, evs)
  <2>1. ASSUME NEW i \in DOMAIN Final, NEW n \in DOMAIN Final[i].spatial PROVE Told(evs, n) \/ IsSpatial(next, n)
    <3>1. CASE i = 1
      BY <1>2, <1>9, <1>16, <3>1 DEF Gives, Vanishes
    <3>2. CASE i # 1
      <4>1. i - 1 \in 1..Len(tail) /\ (i - 1) + 1 = i
        BY <1>1, <3>2
      <4>2. n \in DOMAIN tail[i - 1].spatial
        BY <1>5, <4>1 DEF SameHeld
      <4> QED BY <1>3, <4>1, <4>2 DEF IsSpatial
    <3> QED BY <3>1, <3>2
  <2> QED BY <2>1 DEF Vanishes
<1>18. UsesTold(Final, next, used, evs)
  BY <1>1, <1>2, <1>9, <1>16 DEF Gives, UsesTold
<1>19. ASSUME NEW e \in evs
       PROVE  /\ e.at[1] = Len(steps)
              /\ Takes(e) => Final[1].spatial[e.hyp].res \notin HeldIn(children)
  <2>1. CASE children = <<>>
    <3>1. e.at[1] = Len(steps)
      BY <1>2, <2>1, ClosedEventsTell DEF Says, CallOf
    <3>2. HeldIn(children) = {}
      BY <2>1 DEF HeldIn
    <3> QED BY <3>1, <3>2
  <2>2. CASE children # <<>>
    <3>1. 1 \in DOMAIN children
      BY <1>1, <2>2
    <3>2. evs = ChildEvents(CallOf(head, named), Final[1], children)
      BY <1>2, <2>2 DEF Says
    <3>3. e.at[1] = Len(steps)
      BY <3>1, <3>2, ChildEventsTell DEF CallOf
    <3>4. ASSUME Takes(e), NEW j \in DOMAIN children PROVE Final[1].spatial[e.hyp].res \notin Held(children[j])
      <4>1. e.hyp \in Pair(Final[1], children[j]).consumed
        BY <3>1, <3>2, <3>4, ChildEventsTell DEF Takes
      <4> QED BY <4>1 DEF Gives
    <3> QED BY <3>3, <3>4 DEF HeldIn
  <2> QED BY <2>1, <2>2
<1>20. ASSUME NEW n, NEW r, Holds(F[1], n, r), \A j \in DOMAIN children : r \notin Held(children[j])
       PROVE  r \notin HeldIn(next)
  <2>1. ASSUME NEW j \in DOMAIN next, NEW m, Holds(next[j], m, r) PROVE FALSE
    <3>1. CASE j \in 1..c /\ j \in DOMAIN children
      BY <1>3, <1>20, <2>1, <3>1, HeldBy
    <3>2. CASE \E i \in 1..Len(tail) : j = c + i
      <4>1. PICK i \in 1..Len(tail) : j = c + i
        BY <3>2
      <4>2. Holds(F[i + 1], m, r) /\ i + 1 \in DOMAIN F /\ i + 1 # 1
        BY <1>3, <1>5, <1>6, <2>1, <4>1
      <4> QED BY <1>1, <1>8, <1>20, <4>2
    <3> QED BY <1>4, <3>1, <3>2
  <2> QED BY <2>1, HeldBy
<1>21. Honest(Final, next, evs)
  <2>1. CASE children = <<>>
    <3>1. /\ \A e \in evs : Loses(e) => e.sources = {e.hyp} /\ e.hyp \in DOMAIN F[1].spatial
          /\ \A e \in evs : Uses(e) => e.sources = {e.hyp} /\ e.hyp \in DOMAIN F[1].intuit
      BY <1>2, <2>1, ClosedEventsTell DEF Says
    <3>2. DOMAIN children = {}
      BY <2>1
    <3>3. \A n \in DOMAIN F[1].spatial : \E r : Holds(F[1], n, r) /\ r \notin HeldIn(next)
      BY <1>20, <3>2 DEF Holds
    <3> QED BY <3>1, <3>3 DEF Honest
  <2>2. CASE children # <<>>
    <3>1. 1 \in DOMAIN children
      BY <1>1, <2>2
    <3>2. evs = ChildEvents(CallOf(head, named), F[1], children)
      BY <1>2, <2>2 DEF Says
    <3>3. /\ \A e \in evs : Loses(e) =>
                 /\ e.sources = {e.hyp}
                 /\ \/ \A i \in DOMAIN children : e.hyp \in Pair(F[1], children[i]).consumed
                    \/ \A i \in DOMAIN children : e.hyp \in Pair(F[1], children[i]).gone
          /\ \A e \in evs : Uses(e) => e.sources = {e.hyp} /\ e.hyp \in DOMAIN F[1].intuit
      BY <3>1, <3>2, ChildEventsTell
    <3>4. ASSUME NEW n, \A i \in DOMAIN children : n \in Pair(F[1], children[i]).consumed
          PROVE  \E r : Holds(F[1], n, r) /\ r \notin HeldIn(next)
      <4>1. n \in DOMAIN F[1].spatial
        BY <3>1, <3>4, PairDiff, Diff
      <4>2. \A i \in DOMAIN children : F[1].spatial[n].res \notin Held(children[i])
        BY <3>4 DEF Gives
      <4>3. Holds(F[1], n, F[1].spatial[n].res)
        BY <4>1 DEF Holds
      <4> QED BY <1>20, <4>2, <4>3
    <3>5. ASSUME NEW n, \A i \in DOMAIN children : n \in Pair(F[1], children[i]).gone
          PROVE  \E r : Holds(F[1], n, r) /\ r \notin HeldIn(next)
      <4>1. n \in DOMAIN F[1].intuit
        <5>1. n \in DiffContext(F[1].intuit, children[1].intuit).consumed
          BY <3>1, <3>5, PairDiff
        <5> QED BY <5>1, Diff
      <4>2. \A i \in DOMAIN children : F[1].intuit[n].res \notin Held(children[i])
        BY <3>5 DEF Gives
      <4>3. Holds(F[1], n, F[1].intuit[n].res)
        BY <4>1 DEF Holds
      <4> QED BY <1>20, <4>2, <4>3
    <3> QED BY <3>3, <3>4, <3>5 DEF Honest
  <2> QED BY <2>1, <2>2
<1> QED BY <1>2, <1>3, <1>12, <1>13, <1>15, <1>17, <1>18, <1>19, <1>21 DEF Sound, next, evs

-----------------------------------------------------------------------------
(* The children of the focused goal *)

\* The focused goal: its contexts are disjoint, and what it holds is old and held once.
LEMMA FocusIs ==
    ASSUME LedgerInv, Final # <<>>
    PROVE  /\ Final[1] = Focus /\ Focus \in Goal /\ 1 \in DOMAIN Final
           /\ Focus.spatial \in Context /\ Focus.intuit \in Context /\ Focus.goal \in Nat
           /\ DOMAIN Focus.spatial \cap DOMAIN Focus.intuit = {}
           /\ Names(Focus) \subseteq Name
           /\ \A n, r : Holds(Focus, n, r) => r \in Old
           /\ \A m, n, r : Holds(Focus, m, r) /\ Holds(Focus, n, r) => m = n
<1>1. Final[1] = Focus /\ Focus \in Goal /\ 1 \in DOMAIN Final
  BY FinalIs DEF LedgerInv, Focus
<1>2. /\ Focus.spatial \in Context /\ Focus.intuit \in Context /\ Focus.goal \in Nat
      /\ DOMAIN Focus.spatial \cap DOMAIN Focus.intuit = {}
  BY <1>1 DEF Goal
<1>3. Names(Focus) \subseteq Name
  BY <1>2, Contexts DEF Names
<1>4. ASSUME NEW n, NEW r, Holds(Focus, n, r) PROVE r \in Old
  <2>1. r \in HeldIn(Final)
    BY <1>1, <1>4, HeldBy
  <2> QED BY <2>1, FinalIs DEF LedgerInv, Known, Old, Final
<1>5. \A m, n, r : Holds(Focus, m, r) /\ Holds(Focus, n, r) => m = n
  BY <1>1, UniqueIs DEF LedgerInv
<1> QED BY <1>1, <1>2, <1>3, <1>4, <1>5

\* The copy this sentence makes of a resource, and what it makes under a name.
CopyOf(r) == Append(r, Len(steps))
Made(n) == <<Len(steps), n>>

\* The resources of this sentence and its copies are none of the old ones, nor each other.
LEMMA SentenceNumber ==
    ASSUME LedgerInv
    PROVE  /\ Old \subseteq Res(Len(steps)) /\ Len(steps) \in Nat
           /\ \A n \in Name : Made(n) \in Res(Len(steps)) \ Old /\ \A m : Made(m) = Made(n) => m = n
           /\ \A r \in Res(Len(steps)) :
                 /\ CopyOf(r) \in Res(Len(steps)) \ Old
                 /\ \A n \in Name : CopyOf(r) # Made(n)
                 /\ \A q \in Res(Len(steps)) : CopyOf(q) = CopyOf(r) => q = r
<1>1. Len(steps) - 1 \in Nat /\ (Len(steps) - 1) + 1 = Len(steps)
  BY FinalIs DEF LedgerInv
<1> DEFINE l == Len(steps) - 1
<1>2. /\ Res(l) \subseteq Res(l + 1)
      /\ \A n \in Name : <<l + 1, n>> \in Res(l + 1) \ Res(l)
      /\ \A r \in Res(l + 1) :
            /\ Append(r, l + 1) \in Res(l + 1) \ Res(l)
            /\ \A n \in Name : Append(r, l + 1) # <<l + 1, n>>
            /\ \A q \in Res(l + 1) : Append(q, l + 1) = Append(r, l + 1) => q = r
  BY <1>1, ResGrows, NewRes, CopyRes
<1>3. l + 1 = Len(steps)
  BY <1>1
<1>4. Len(steps) \in Nat
  BY <1>1
<1> HIDE DEF l
<1>5. Old = Res(l)
  BY DEF Old, l
<1> QED BY <1>2, <1>3, <1>4, <1>5 DEF CopyOf, Made

\* A context whose hypotheses are those of another, under their names, or new.
Built(old, new) ==
    \A m \in DOMAIN new : (m \in DOMAIN old /\ new[m].res = old[m].res) \/ new[m].res = Made(m)

\* A child whose contexts are built from those of the focused goal.
Grown(after) == after \in Goal /\ Built(Focus.spatial, after.spatial) /\ Built(Focus.intuit, after.intuit)

\* A child that holds what the focused goal held under the same names, and new resources.
Fits(after) ==
    /\ after \in Goal
    /\ \A m, r : Holds(after, m, r) => r \in Res(Len(steps))
    /\ \A m, n, r : Holds(after, m, r) /\ Holds(after, n, r) => m = n
    /\ \A m \in DOMAIN after.spatial : after.spatial[m].res \in Old =>
           m \in DOMAIN Focus.spatial /\ Focus.spatial[m].res = after.spatial[m].res
    /\ \A m \in DOMAIN after.intuit : after.intuit[m].res \in Old =>
           m \in DOMAIN Focus.intuit /\ Focus.intuit[m].res = after.intuit[m].res

\* What a child holds is what the focused goal held under that name, or new.
LEMMA GrownIs ==
    ASSUME LedgerInv, Final # <<>>, NEW after, Grown(after), NEW m, NEW r, Holds(after, m, r)
    PROVE  /\ m \in Name /\ r \in Res(Len(steps))
           /\ (r \in Old /\ Holds(Focus, m, r)) \/ (r \notin Old /\ r = Made(m))
<1>1. m \in Name
  BY Contexts DEF Grown, Goal, Holds
<1>2. Holds(Focus, m, r) \/ r = Made(m)
  BY DEF Grown, Built, Holds
<1> QED BY <1>1, <1>2, FocusIs, SentenceNumber

\* A child whose contexts are built from those of the focused goal fits.
LEMMA GrownFits ==
    ASSUME LedgerInv, Final # <<>>, NEW after, Grown(after) PROVE Fits(after)
<1>1. \A m, r : Holds(after, m, r) => r \in Res(Len(steps))
  BY GrownIs
<1>2. ASSUME NEW m, NEW n, NEW r, Holds(after, m, r), Holds(after, n, r) PROVE m = n
  <2>1. CASE r \in Old
    BY <1>2, <2>1, GrownIs, FocusIs
  <2>2. CASE r \notin Old
    <3>1. Made(m) = Made(n) /\ n \in Name
      BY <1>2, <2>2, GrownIs
    <3> QED BY <3>1, SentenceNumber
  <2> QED BY <2>1, <2>2
<1>3. \A m \in Name : Made(m) \notin Old
  BY SentenceNumber
<1>4. DOMAIN after.spatial \subseteq Name /\ DOMAIN after.intuit \subseteq Name
  BY Contexts DEF Grown, Goal
<1> QED BY <1>1, <1>2, <1>3, <1>4 DEF Grown, Fits, Built

\* The same, when some of it is copied.
LEMMA CopiedFits ==
    ASSUME LedgerInv, Final # <<>>, NEW g, Grown(g), NEW after \in Goal,
           DOMAIN after.spatial = DOMAIN g.spatial, DOMAIN after.intuit = DOMAIN g.intuit,
           \A m \in DOMAIN g.spatial : after.spatial[m].res \in {g.spatial[m].res, CopyOf(g.spatial[m].res)},
           \A m \in DOMAIN g.intuit : after.intuit[m].res \in {g.intuit[m].res, CopyOf(g.intuit[m].res)}
    PROVE  /\ Fits(after)
           /\ \A m, r : Holds(after, m, r) => \E q : Holds(g, m, q) /\ (r = q \/ r = CopyOf(q))
<1>1. ASSUME NEW m, NEW r, Holds(after, m, r)
      PROVE  \E q : Holds(g, m, q) /\ (r = q \/ r = CopyOf(q))
  BY <1>1 DEF Holds
<1>2. \A m, q : Holds(g, m, q) => m \in Name /\ q \in Res(Len(steps)) /\ (q \in Old \/ q = Made(m))
  BY GrownIs
<1>3. \A m, n, q : Holds(g, m, q) /\ Holds(g, n, q) => m = n
  BY GrownFits DEF Fits
<1>4. \A m, r : Holds(after, m, r) => r \in Res(Len(steps))
  BY <1>1, <1>2, SentenceNumber
<1>5. ASSUME NEW m, NEW n, NEW r, Holds(after, m, r), Holds(after, n, r) PROVE m = n
  <2>1. PICK p : Holds(g, m, p) /\ (r = p \/ r = CopyOf(p))
    BY <1>1, <1>5
  <2>2. PICK q : Holds(g, n, q) /\ (r = q \/ r = CopyOf(q))
    BY <1>1, <1>5
  <2>3. CASE r = p /\ r = q
    BY <1>3, <2>1, <2>2, <2>3
  <2>4. CASE r = CopyOf(p) /\ r = CopyOf(q)
    <3>1. p = q
      BY <1>2, <2>1, <2>2, <2>4, SentenceNumber
    <3> QED BY <1>3, <2>1, <2>2, <3>1
  <2>5. CASE r = p /\ r = CopyOf(q)
    BY <1>2, <2>1, <2>2, <2>5, SentenceNumber
  <2>6. CASE r = q /\ r = CopyOf(p)
    BY <1>2, <2>1, <2>2, <2>6, SentenceNumber
  <2> QED BY <2>1, <2>2, <2>3, <2>4, <2>5, <2>6
<1>6. \A m \in DOMAIN after.spatial : after.spatial[m].res \in Old =>
           m \in DOMAIN Focus.spatial /\ Focus.spatial[m].res = after.spatial[m].res
  <2>1. \A m \in DOMAIN g.spatial : g.spatial[m].res \in Res(Len(steps))
    BY <1>2 DEF Holds
  <2>2. \A m \in DOMAIN after.spatial : after.spatial[m].res \in Old => after.spatial[m].res = g.spatial[m].res
    BY <2>1, SentenceNumber
  <2> QED BY <2>2, GrownFits DEF Fits
<1>7. \A m \in DOMAIN after.intuit : after.intuit[m].res \in Old =>
           m \in DOMAIN Focus.intuit /\ Focus.intuit[m].res = after.intuit[m].res
  <2>1. \A m \in DOMAIN g.intuit : g.intuit[m].res \in Res(Len(steps))
    BY <1>2 DEF Holds
  <2>2. \A m \in DOMAIN after.intuit : after.intuit[m].res \in Old => after.intuit[m].res = g.intuit[m].res
    BY <2>1, SentenceNumber
  <2> QED BY <2>2, GrownFits DEF Fits
<1> QED BY <1>1, <1>4, <1>5, <1>6, <1>7 DEF Fits

\* Children that fit, hold nothing in common, and leave no use untold.
LEMMA FitsGives ==
    ASSUME LedgerInv, Final # <<>>, NEW head, NEW named, NEW children \in Seq(Goal), NEW used,
           \A j \in DOMAIN children : Fits(children[j]),
           \A i, j \in DOMAIN children : \A m, n, r : Holds(children[i], m, r) /\ Holds(children[j], n, r) => i = j,
           \A j \in DOMAIN children : \A m \in DOMAIN children[j].spatial :
               children[j].spatial[m].res \in Old => children[j].spatial[m].res \notin used,
           \A n \in DOMAIN Focus.spatial : Told(Says(head, named, children), n) \/ IsSpatial(children, n),
           \A r \in used : \E n : Holds(Focus, n, r) /\ (n \in DOMAIN Focus.spatial \/ Told(Says(head, named, children), n))
    PROVE  Gives(head, named, children, used)
<1> DEFINE evs == Says(head, named, children)
<1>1. DOMAIN <<Final[1]>> = {1} /\ <<Final[1]>>[1] = Focus /\ Final[1] = Focus
  BY FocusIs
<1>2. HeldIn(children) \subseteq Res(Len(steps))
  BY HeldBy DEF Fits
<1>3. Unique(children)
  <2>1. \A i, j \in DOMAIN children : \A m, n, r : Holds(children[i], m, r) /\ Holds(children[j], n, r) => i = j /\ m = n
    BY DEF Fits
  <2> QED BY <2>1, UniqueIs
<1>4. \A j \in DOMAIN children : Origins(<<Final[1]>>, children[j], used, evs)
  BY <1>1 DEF Fits, Origins
<1>5. Vanishes(<<Final[1]>>, children, evs)
  BY <1>1 DEF Vanishes
<1>6. UsesTold(<<Final[1]>>, children, used, evs)
  BY <1>1 DEF UsesTold
<1>7. ASSUME NEW j \in DOMAIN children, NEW n \in Pair(Final[1], children[j]).consumed
      PROVE  Final[1].spatial[n].res \notin Held(children[j])
  <2>1. n \in DOMAIN Focus.spatial /\ n \notin DOMAIN children[j].spatial
    BY <1>1, <1>7, PairDiff, Diff
  <2>2. ASSUME NEW m, Holds(children[j], m, Focus.spatial[n].res) PROVE FALSE
    <3>1. Holds(Focus, n, Focus.spatial[n].res) /\ Focus.spatial[n].res \in Old
      BY <2>1, FocusIs DEF Holds
    <3>2. Holds(Focus, m, Focus.spatial[n].res) /\ (m \in DOMAIN children[j].spatial \/ m \in DOMAIN Focus.intuit)
      BY <2>2, <3>1 DEF Fits, Holds
    <3>3. m = n
      BY <3>1, <3>2, FocusIs
    <3> QED BY <2>1, <3>2, <3>3, FocusIs
  <2> QED BY <1>1, <2>2, HeldBy
<1>8. ASSUME NEW j \in DOMAIN children, NEW n \in Pair(Final[1], children[j]).gone
      PROVE  Final[1].intuit[n].res \notin Held(children[j])
  <2>1. n \in DOMAIN Focus.intuit /\ n \notin DOMAIN children[j].intuit
    <3>1. n \in DiffContext(Focus.intuit, children[j].intuit).consumed
      BY <1>1, <1>8, PairDiff
    <3> QED BY <3>1, Diff
  <2>2. ASSUME NEW m, Holds(children[j], m, Focus.intuit[n].res) PROVE FALSE
    <3>1. Holds(Focus, n, Focus.intuit[n].res) /\ Focus.intuit[n].res \in Old
      BY <2>1, FocusIs DEF Holds
    <3>2. Holds(Focus, m, Focus.intuit[n].res) /\ (m \in DOMAIN children[j].intuit \/ m \in DOMAIN Focus.spatial)
      BY <2>2, <3>1 DEF Fits, Holds
    <3>3. m = n
      BY <3>1, <3>2, FocusIs
    <3> QED BY <2>1, <3>2, <3>3, FocusIs
  <2> QED BY <1>1, <2>2, HeldBy
<1> QED BY <1>2, <1>3, <1>4, <1>5, <1>6, <1>7, <1>8 DEF Gives

\* What is gone from the spatial context of the only child, the ledger tells of.
LEMMA VanishOne ==
    ASSUME NEW call, NEW parent, NEW after, NEW n \in DOMAIN parent.spatial \ DOMAIN after.spatial
    PROVE  Told(ChildEvents(call, parent, <<after>>), n)
<1> DEFINE evs == ChildEvents(call, parent, <<after>>)
           pr == Pair(parent, after)
<1>1. DOMAIN <<after>> = {1} /\ <<after>>[1] = after
  OBVIOUS
<1>2. /\ n \in pr.consumed => Told(evs, n)
      /\ MatchingEvents(call, pr) \subseteq evs
  BY <1>1, ChildEventsTell
<1>3. Told(MatchingEvents(call, pr), n) => Told(evs, n)
  BY <1>2 DEF Told
<1>4. \/ n \in pr.spatial.consumed \/ n \in pr.spatial.ambiguous
      \/ \E m : <<n, m>> \in pr.spatial.renamed
  <2>1. n \in DiffContext(parent.spatial, after.spatial).consumed
        \/ n \in DiffContext(parent.spatial, after.spatial).ambiguous
        \/ \E m : <<n, m>> \in DiffContext(parent.spatial, after.spatial).renamed
    BY Gone
  <2>2. pr.spatial = DiffContext(parent.spatial, after.spatial)
    BY PairDiff
  <2> HIDE DEF pr
  <2> QED BY <2>1, <2>2
<1>5. n \in pr.spatial.consumed => n \in pr.consumed \/ \E m : <<m, n>> \in pr.persisted
  BY PairDiff
<1> QED BY <1>2, <1>3, <1>4, <1>5, MatchingEventsTell

\* An only child that fits, when no use is untold.
LEMMA OneGives ==
    ASSUME LedgerInv, Final # <<>>, NEW head, NEW named, NEW after, NEW used, Fits(after),
           \A m \in DOMAIN after.spatial : after.spatial[m].res \in Old => after.spatial[m].res \notin used,
           \A r \in used : \E n : Holds(Focus, n, r)
               /\ (n \in DOMAIN Focus.spatial \/ Told(Says(head, named, <<after>>), n))
    PROVE  Gives(head, named, <<after>>, used)
<1>1. DOMAIN <<after>> = {1} /\ <<after>>[1] = after /\ <<after>> # <<>> /\ <<after>> \in Seq(Goal)
  BY DEF Fits
<1>2. Says(head, named, <<after>>) = ChildEvents(CallOf(head, named), Focus, <<after>>)
  BY <1>1, FocusIs DEF Says
<1>3. \A n \in DOMAIN Focus.spatial : Told(Says(head, named, <<after>>), n) \/ IsSpatial(<<after>>, n)
  BY <1>1, <1>2, VanishOne DEF IsSpatial
<1> QED BY <1>1, <1>3, FitsGives

-----------------------------------------------------------------------------
(* The sentences *)

\* The goals that are not focused are left alone by a sentence that keeps them.
LEMMA TailAlone == ASSUME LedgerInv, Final # <<>> PROVE LeftAlone(Tail(Final))
<1>1. Final \in Seq(Goal) /\ Len(Final) \in Nat \ {0}
  BY FinalIs DEF LedgerInv
<1>2. /\ Tail(Final) \in Seq(Goal) /\ Len(Tail(Final)) = Len(Final) - 1
      /\ \A j \in 1..(Len(Final) - 1) : Tail(Final)[j] = Final[j + 1]
  BY <1>1
<1>3. \A g : SameGoal(g, g) /\ SameHeld(g, g)
  BY DEF SameGoal, SameContext, SameProp, SameHeld
<1> QED BY <1>2, <1>3 DEF LeftAlone

\* A sentence that replaces the focused goal by sound children keeps the invariant.
LEMMA BecameKeeps ==
    ASSUME LedgerInv, Final # <<>>, NEW head, NEW named, NEW children, NEW used,
           Gives(head, named, children, used), Did(head, named, Became(children), used)
    PROVE  SoundSentence
<1>1. Sound(head, named, children \o Tail(Final), used)
  BY Sentence, TailAlone
<1> QED BY <1>1 DEF Became, SoundSentence

\* The same for an only child that fits, when nothing was used.
LEMMA NoUseKeeps ==
    ASSUME LedgerInv, Final # <<>>, NEW head, NEW named, NEW after, Fits(after),
           Did(head, named, Became(<<after>>), {})
    PROVE  SoundSentence
<1>1. Gives(head, named, <<after>>, {})
  BY OneGives
<1> QED BY <1>1, BecameKeeps

\* A goal with some of its parts replaced.
Parts(h, a, b, k) ==
    /\ h.spatial = a /\ h.intuit = b /\ h.goal = k
    /\ DOMAIN a \cap DOMAIN b = {} => h \in Goal

\* EXCEPT on a goal replaces the parts it names.
LEMMA Replaced ==
    ASSUME NEW g \in Goal, NEW a \in Context, NEW b \in Context, NEW k \in Nat
    PROVE  /\ Parts([g EXCEPT !.spatial = a, !.intuit = b, !.goal = k], a, b, k)
           /\ Parts([g EXCEPT !.spatial = a, !.intuit = b], a, b, g.goal)
           /\ Parts([g EXCEPT !.spatial = a, !.goal = k], a, g.intuit, k)
           /\ Parts([g EXCEPT !.spatial = a], a, g.intuit, g.goal)
           /\ Parts([g EXCEPT !.goal = k], g.spatial, g.intuit, k)
<1> DEFINE G == [spatial : Context, intuit : Context, goal : Nat]
<1>1. g \in G
  BY DEF Goal
<1>2. \A h \in G : \A x, y, z : h.spatial = x /\ h.intuit = y /\ h.goal = z => Parts(h, x, y, z)
  BY DEF Parts, Goal
<1>3. ASSUME NEW h, h \in {[g EXCEPT !.spatial = a, !.intuit = b, !.goal = k]}
      PROVE  h \in G /\ h.spatial = a /\ h.intuit = b /\ h.goal = k
  BY <1>1, <1>3
<1>4. ASSUME NEW h, h \in {[g EXCEPT !.spatial = a, !.intuit = b]}
      PROVE  h \in G /\ h.spatial = a /\ h.intuit = b /\ h.goal = g.goal
  BY <1>1, <1>4
<1>5. ASSUME NEW h, h \in {[g EXCEPT !.spatial = a, !.goal = k]}
      PROVE  h \in G /\ h.spatial = a /\ h.intuit = g.intuit /\ h.goal = k
  BY <1>1, <1>5
<1>6. ASSUME NEW h, h \in {[g EXCEPT !.spatial = a]}
      PROVE  h \in G /\ h.spatial = a /\ h.intuit = g.intuit /\ h.goal = g.goal
  BY <1>1, <1>6
<1>7. ASSUME NEW h, h \in {[g EXCEPT !.goal = k]}
      PROVE  h \in G /\ h.spatial = g.spatial /\ h.intuit = g.intuit /\ h.goal = k
  BY <1>1, <1>7
<1> HIDE DEF G
<1> QED BY <1>2, <1>3, <1>4, <1>5, <1>6, <1>7, Zenon

\* Some of the hypotheses of a context; hypotheses that are all new.
PartOf(kept, old) == \A n \in DOMAIN kept : n \in DOMAIN old /\ kept[n] = old[n]
AllNew(c) == \A n \in DOMAIN c : c[n].res = Made(n)

\* What is left of a context after names are taken out, or picked, is part of it.
LEMMA Parting ==
    ASSUME NEW a \in Context, NEW ns
    PROVE  PartOf(Without(a, ns), a) /\ PartOf(Only(a, ns), a)
<1>1. PartOf(Without(a, ns), a)
  BY WithoutCtx DEF PartOf
<1>2. PartOf(Only(a, ns), a)
  BY OnlyCtx DEF PartOf
<1> QED BY <1>1, <1>2

\* A context is part of itself, and its parts are built from it.
LEMMA PartsFit == /\ \A a : PartOf(a, a)
                  /\ \A a, b : PartOf(b, a) => Built(a, b)
BY DEF PartOf, Built

\* New hypotheses beside some of the old ones.
Carries(old, new, ns) == new \in Context /\ DOMAIN new = ns /\ Built(old, new)

\* New hypotheses beside part of the old ones are built from the old ones.
LEMMA Pieces ==
    ASSUME NEW old, NEW kept \in Context, NEW more \in Context, PartOf(kept, old), AllNew(more)
    PROVE  Carries(old, With(kept, more), DOMAIN kept \cup DOMAIN more)
<1> DEFINE c == With(kept, more)
<1>1. /\ c \in Context /\ DOMAIN c = DOMAIN kept \cup DOMAIN more
      /\ \A n \in DOMAIN more : c[n] = more[n]
      /\ \A n \in DOMAIN kept \ DOMAIN more : c[n] = kept[n]
  BY WithCtx
<1> HIDE DEF c
<1>2. \A n \in DOMAIN kept \ DOMAIN more : c[n] = old[n]
  BY <1>1 DEF PartOf
<1>3. Built(old, c)
  BY <1>1, <1>2 DEF Built, PartOf, AllNew
<1>4. Carries(old, c, DOMAIN kept \cup DOMAIN more)
  BY <1>1, <1>3 DEF Carries
<1> QED BY <1>4 DEF c

\* Part of a context is built from it.
LEMMA CarriesPart ==
    ASSUME NEW old, NEW part \in Context, PartOf(part, old)
    PROVE  Carries(old, part, DOMAIN part)
BY PartsFit DEF Carries

\* A goal with what its parts carry is a child of the focused one.
LEMMA CarriedGrown ==
    ASSUME LedgerInv, Final # <<>>, NEW after, NEW a, NEW b, NEW k, NEW ms, NEW ns,
           Parts(after, a, b, k), Carries(Focus.spatial, a, ms), Carries(Focus.intuit, b, ns), ms \cap ns = {}
    PROVE  after \in Goal /\ Grown(after) /\ Fits(after)
<1>1. DOMAIN a \cap DOMAIN b = {}
  BY DEF Carries
<1>2. after \in Goal /\ Grown(after)
  BY <1>1 DEF Parts, Carries, Grown
<1> QED BY <1>2, GrownFits

\* New hypotheses with these propositions, and part of them.
Labels(ps) == DOMAIN ps \subseteq Name /\ ps \in [DOMAIN ps -> Prop]

\* Hypotheses made by News are new.
LEMMA NewsAre ==
    ASSUME LedgerInv, NEW ps, Labels(ps)
    PROVE  /\ News(ps) \in Context /\ DOMAIN News(ps) = DOMAIN ps /\ AllNew(News(ps))
           /\ \A n \in DOMAIN ps : News(ps)[n].prop = ps[n]
<1>1. /\ News(ps) \in Context /\ DOMAIN News(ps) = DOMAIN ps
      /\ \A n \in DOMAIN ps : News(ps)[n].res = <<Len(steps), n>> /\ News(ps)[n].prop = ps[n]
  BY NewsCtx DEF LedgerInv, Labels
<1> QED BY <1>1 DEF AllNew, Made

\* Part of what is new is new.
LEMMA PartOfNew ==
    ASSUME NEW new \in Context, AllNew(new), NEW b, PartOf(b, new)
    PROVE  AllNew(b)
BY DEF AllNew, PartOf

\* iIntros: new hypotheses in both contexts.
LEMMA IntrosKeeps == ASSUME LedgerInv, Intros PROVE SoundSentence
<1> DEFINE S == Focus.spatial
           I == Focus.intuit
<1>1. PICK ns, is, ps :
          /\ Final # <<>> /\ ns \in SUBSET Fresh /\ is \in SUBSET ns /\ ps \in [ns -> Prop]
          /\ Did("iIntros", {}, Became(<<[Focus EXCEPT !.spatial = With(@, Without(News(ps), is)),
                                                       !.intuit = With(@, Only(News(ps), is)),
                                                       !.goal = @ + 1]>>), {})
  BY DEF Intros, Proving
<1> DEFINE new == News(ps)
           v == Without(new, is)
           w == Only(new, is)
           s == With(S, v)
           i == With(I, w)
           after == [Focus EXCEPT !.spatial = s, !.intuit = i, !.goal = Focus.goal + 1]
<1>2. Did("iIntros", {}, Became(<<after>>), {})
  BY <1>1
<1>3. Final # <<>> /\ ns \in SUBSET Fresh /\ is \in SUBSET ns /\ ps \in [ns -> Prop]
  BY <1>1, Zenon
<1> HIDE DEF after
<1>4. /\ Focus \in Goal /\ S \in Context /\ I \in Context /\ Focus.goal + 1 \in Nat
      /\ DOMAIN S \cap DOMAIN I = {} /\ PartOf(S, S) /\ PartOf(I, I)
  BY <1>3, FocusIs, PartsFit
<1>5. ns \subseteq Name /\ ns \cap DOMAIN S = {} /\ ns \cap DOMAIN I = {} /\ ns \cap is = is
  BY <1>3 DEF Fresh, Names
<1> HIDE DEF S, I
<1>6. Labels(ps) /\ DOMAIN ps = ns
  BY <1>3, <1>5 DEF Labels
<1>7. new \in Context /\ DOMAIN new = ns /\ AllNew(new)
  BY <1>6, NewsAre
<1> HIDE DEF new
<1>8. w \in Context /\ DOMAIN w = is /\ AllNew(w) /\ v \in Context /\ DOMAIN v = ns \ is /\ AllNew(v)
  BY <1>5, <1>7, OnlyCtx, WithoutCtx, Parting, PartOfNew
<1> HIDE DEF v, w
<1>9. Carries(S, s, DOMAIN S \cup DOMAIN v)
  BY <1>4, <1>8, Pieces
<1>10. Carries(I, i, DOMAIN I \cup DOMAIN w)
  BY <1>4, <1>8, Pieces
<1> HIDE DEF s, i
<1>11. Parts(after, s, i, Focus.goal + 1)
  <2>1. s \in Context /\ i \in Context
    BY <1>9, <1>10 DEF Carries
  <2> QED BY <1>4, <2>1, Replaced, Zenon DEF after
<1>12. (DOMAIN S \cup DOMAIN v) \cap (DOMAIN I \cup DOMAIN w) = {}
  BY <1>3, <1>4, <1>5, <1>8
<1>13. Fits(after)
  BY <1>3, <1>9, <1>10, <1>11, <1>12, CarriedGrown DEF S, I
<1> QED BY <1>2, <1>3, <1>13, NoUseKeeps

\* iDestruct: one or two pieces in the place of a hypothesis, in its context.
LEMMA DestructsKeeps == ASSUME LedgerInv, Destructs PROVE SoundSentence
<1> DEFINE S == Focus.spatial
           I == Focus.intuit
<1>1. PICK n, ns, ps :
          /\ Final # <<>> /\ n \in Names(Focus) /\ ns \in SUBSET (Fresh \cup {n}) /\ ps \in [ns -> Prop \ {PropOf(n)}]
          /\ LET pieces(ctx) == IF n \in DOMAIN ctx THEN With(Without(ctx, {n}), News(ps)) ELSE ctx
             IN  Did("iDestruct", {n}, Became(<<[Focus EXCEPT !.spatial = pieces(@), !.intuit = pieces(@)]>>), {})
  BY DEF Destructs, Proving
<1> DEFINE pieces(ctx) == IF n \in DOMAIN ctx THEN With(Without(ctx, {n}), News(ps)) ELSE ctx
           s == pieces(S)
           i == pieces(I)
           after == [Focus EXCEPT !.spatial = s, !.intuit = i]
<1>2. Did("iDestruct", {n}, Became(<<after>>), {})
  BY <1>1
<1>3. Final # <<>> /\ n \in Names(Focus) /\ ns \in SUBSET (Fresh \cup {n}) /\ ps \in [ns -> Prop \ {PropOf(n)}]
  BY <1>1, Zenon
<1> HIDE DEF after
<1>4. /\ Focus \in Goal /\ S \in Context /\ I \in Context /\ Focus.goal \in Nat
      /\ DOMAIN S \cap DOMAIN I = {} /\ PartOf(S, S) /\ PartOf(I, I) /\ Names(Focus) \subseteq Name
  BY <1>3, FocusIs, PartsFit
<1>5. ns \subseteq Name /\ ns \cap DOMAIN S \subseteq {n} /\ ns \cap DOMAIN I \subseteq {n}
  BY <1>3, <1>4 DEF Fresh, Names
<1> HIDE DEF S, I
<1>6. Labels(ps) /\ DOMAIN ps = ns
  BY <1>3, <1>5 DEF Labels
<1>7. News(ps) \in Context /\ DOMAIN News(ps) = ns /\ AllNew(News(ps))
  BY <1>6, NewsAre
<1>8. Carries(S, s, IF n \in DOMAIN S THEN (DOMAIN S \ {n}) \cup ns ELSE DOMAIN S)
  <2>1. ASSUME n \in DOMAIN S PROVE Carries(S, With(Without(S, {n}), News(ps)), (DOMAIN S \ {n}) \cup ns)
    BY <1>4, <1>7, WithoutCtx, Parting, Pieces
  <2>2. Carries(S, S, DOMAIN S)
    BY <1>4, CarriesPart
  <2> QED BY <2>1, <2>2
<1>9. Carries(I, i, IF n \in DOMAIN I THEN (DOMAIN I \ {n}) \cup ns ELSE DOMAIN I)
  <2>1. ASSUME n \in DOMAIN I PROVE Carries(I, With(Without(I, {n}), News(ps)), (DOMAIN I \ {n}) \cup ns)
    BY <1>4, <1>7, WithoutCtx, Parting, Pieces
  <2>2. Carries(I, I, DOMAIN I)
    BY <1>4, CarriesPart
  <2> QED BY <2>1, <2>2
<1> HIDE DEF s, i
<1>10. Parts(after, s, i, Focus.goal)
  <2>1. s \in Context /\ i \in Context
    BY <1>8, <1>9 DEF Carries
  <2> QED BY <1>4, <2>1, Replaced, Zenon DEF after
<1>11. (IF n \in DOMAIN S THEN (DOMAIN S \ {n}) \cup ns ELSE DOMAIN S)
           \cap (IF n \in DOMAIN I THEN (DOMAIN I \ {n}) \cup ns ELSE DOMAIN I) = {}
  BY <1>4, <1>5
<1>12. Fits(after)
  BY <1>3, <1>8, <1>9, <1>10, <1>11, CarriedGrown DEF S, I
<1> QED BY <1>2, <1>3, <1>12, NoUseKeeps

\* iClear: a name goes from both contexts.
LEMMA ClearKeeps == ASSUME LedgerInv, Clear PROVE SoundSentence
<1> DEFINE S == Focus.spatial
           I == Focus.intuit
<1>1. PICK n :
          /\ Final # <<>>
          /\ Did("iClear", {n}, Became(<<[Focus EXCEPT !.spatial = Without(@, {n}), !.intuit = Without(@, {n})]>>), {})
  BY DEF Clear, Proving
<1> DEFINE s == Without(S, {n})
           i == Without(I, {n})
           after == [Focus EXCEPT !.spatial = s, !.intuit = i]
<1>2. Did("iClear", {n}, Became(<<after>>), {})
  BY <1>1
<1>3. Final # <<>>
  BY <1>1, Zenon
<1> HIDE DEF after
<1>4. /\ Focus \in Goal /\ S \in Context /\ I \in Context /\ Focus.goal \in Nat
      /\ DOMAIN S \cap DOMAIN I = {}
  BY <1>3, FocusIs
<1> HIDE DEF S, I
<1>5. s \in Context /\ DOMAIN s = DOMAIN S \ {n} /\ PartOf(s, S) /\ i \in Context /\ DOMAIN i = DOMAIN I \ {n} /\ PartOf(i, I)
  BY <1>4, WithoutCtx, Parting
<1> HIDE DEF s, i
<1>6. Carries(S, s, DOMAIN s) /\ Carries(I, i, DOMAIN i)
  BY <1>5, CarriesPart
<1>7. Parts(after, s, i, Focus.goal)
  BY <1>4, <1>5, Replaced, Zenon DEF after
<1>8. DOMAIN s \cap DOMAIN i = {}
  BY <1>4, <1>5
<1>9. Fits(after)
  BY <1>3, <1>6, <1>7, <1>8, CarriedGrown DEF S, I
<1> QED BY <1>2, <1>3, <1>9, NoUseKeeps

\* iApply of a lasting hypothesis: it is used and stays; the ledger tells of it because the
\* sentence names it, keeps it and changes the goal.
LEMMA UsesLastingKeeps == ASSUME LedgerInv, UsesLasting PROVE SoundSentence
<1> DEFINE S == Focus.spatial
           I == Focus.intuit
<1>1. PICK n :
          /\ Final # <<>> /\ n \in DOMAIN Focus.intuit
          /\ Did("iApply", {n}, Became(<<[Focus EXCEPT !.goal = @ + 1]>>), {Focus.intuit[n].res})
  BY DEF UsesLasting, Proving
<1> DEFINE after == [Focus EXCEPT !.goal = Focus.goal + 1]
           used == {I[n].res}
<1>2. Did("iApply", {n}, Became(<<after>>), used)
  BY <1>1
<1>3. Final # <<>> /\ n \in DOMAIN I
  BY <1>1, Zenon
<1> HIDE DEF after
<1>4. /\ Focus \in Goal /\ S \in Context /\ I \in Context /\ Focus.goal \in Nat /\ Focus.goal + 1 \in Nat
      /\ DOMAIN S \cap DOMAIN I = {} /\ PartOf(S, S) /\ PartOf(I, I)
  BY <1>3, FocusIs, PartsFit
<1>5. \A m \in DOMAIN S : S[m].res \notin used
  BY <1>3, <1>4, FocusIs DEF Holds
<1>6. Carries(S, S, DOMAIN S) /\ Carries(I, I, DOMAIN I)
  BY <1>4, CarriesPart
<1>7. Parts(after, S, I, Focus.goal + 1)
  BY <1>4, Replaced, Zenon DEF after
<1>8. Fits(after)
  BY <1>3, <1>4, <1>6, <1>7, CarriedGrown
<1>9. Told(Says("iApply", {n}, <<after>>), n)
  <2>1. DOMAIN <<after>> = {1} /\ <<after>>[1] = after /\ <<after>> # <<>>
    OBVIOUS
  <2>2. n \in {n} \cap DOMAIN Focus.intuit \cap DOMAIN <<after>>[1].intuit /\ Focus.goal # <<after>>[1].goal
    BY <1>3, <1>4, <1>7, <2>1 DEF Parts
  <2>3. Told(ChildEvents(CallOf("iApply", {n}), Focus, <<after>>), n)
    <3> DEFINE cs == <<after>>
               call == CallOf("iApply", {n})
    <3>1. call.named = {n} /\ 1 \in DOMAIN cs
      BY <2>1 DEF CallOf
    <3>2. n \in call.named \cap DOMAIN Focus.intuit \cap DOMAIN cs[1].intuit /\ Focus.goal # cs[1].goal
      BY <2>2, <3>1
    <3> HIDE DEF cs, call
    <3>3. \A i \in DOMAIN cs : \A m \in call.named \cap DOMAIN Focus.intuit \cap DOMAIN cs[i].intuit :
              Focus.goal # cs[i].goal => Told(ChildEvents(call, Focus, cs), m)
      BY <3>1, ChildEventsTell
    <3> QED BY <3>1, <3>2, <3>3 DEF cs, call
  <2> QED BY <1>3, <2>1, <2>3, FocusIs DEF Says
<1>10. \A m \in DOMAIN after.spatial : after.spatial[m].res \notin used
  BY <1>5, <1>7 DEF Parts
<1>11. Holds(Focus, n, I[n].res)
  BY <1>3 DEF Holds
<1>12. Gives("iApply", {n}, <<after>>, used)
  BY <1>3, <1>8, <1>9, <1>10, <1>11, OneGives
<1> QED BY <1>2, <1>3, <1>12, BecameKeeps

\* iFrame and iApply of spatial hypotheses: they are used, and gone from the child or back
\* under their names with another proposition.
LEMMA SpendsKeeps == ASSUME LedgerInv, Spends PROVE SoundSentence
<1> DEFINE S == Focus.spatial
           I == Focus.intuit
<1>1. PICK head, ns, new, ps :
          /\ Final # <<>> /\ ns \in SUBSET DOMAIN Focus.spatial /\ new \in SUBSET (Fresh \cup ns)
          /\ ps \in [new -> Prop \ {PropOf(n) : n \in ns}]
          /\ Did(head, ns, Became(<<[Focus EXCEPT !.spatial = With(Without(@, ns), News(ps)), !.goal = @ + 1]>>),
                 Resources(Only(Focus.spatial, ns)))
  BY DEF Spends, Proving
<1> DEFINE kept == Without(S, ns)
           s == With(kept, News(ps))
           after == [Focus EXCEPT !.spatial = s, !.goal = Focus.goal + 1]
           used == Resources(Only(S, ns))
<1>2. Did(head, ns, Became(<<after>>), used)
  BY <1>1
<1>3. /\ Final # <<>> /\ ns \in SUBSET DOMAIN Focus.spatial /\ new \in SUBSET (Fresh \cup ns)
      /\ ps \in [new -> Prop \ {PropOf(n) : n \in ns}]
  BY <1>1, Zenon
<1> HIDE DEF after
<1>4. /\ Focus \in Goal /\ S \in Context /\ I \in Context /\ Focus.goal \in Nat /\ Focus.goal + 1 \in Nat
      /\ DOMAIN S \cap DOMAIN I = {} /\ PartOf(I, I) /\ Names(Focus) \subseteq Name
  BY <1>3, FocusIs, PartsFit
<1>c. \A m, n \in DOMAIN S : S[m].res = S[n].res => m = n
  BY <1>3, FocusIs DEF Holds
<1>5. ns \subseteq DOMAIN S /\ new \subseteq Name /\ new \cap DOMAIN S \subseteq ns /\ new \cap DOMAIN I = {}
  BY <1>3, <1>4 DEF Fresh, Names
<1>6. \A r : r \in used <=> \E n \in ns : r = S[n].res
  <2>1. DOMAIN Only(S, ns) = ns /\ \A n \in ns : Only(S, ns)[n] = S[n]
    BY <1>4, <1>5, OnlyCtx, DOMAIN S \cap ns = ns
  <2> QED BY <2>1 DEF Resources
<1> HIDE DEF S, I, used
<1>7. Labels(ps) /\ DOMAIN ps = new
  BY <1>3, <1>5 DEF Labels
<1>8. News(ps) \in Context /\ DOMAIN News(ps) = new /\ AllNew(News(ps))
  BY <1>7, NewsAre
<1>9. /\ kept \in Context /\ DOMAIN kept = DOMAIN S \ ns /\ PartOf(kept, S)
  BY <1>4, WithoutCtx, Parting
<1> HIDE DEF kept
<1>10. Carries(S, s, (DOMAIN S \ ns) \cup new) /\ Carries(I, I, DOMAIN I)
  BY <1>4, <1>8, <1>9, Pieces, CarriesPart
<1>11. \A m \in DOMAIN s : s[m].res \in Old => s[m].res \notin used
  <2>1. /\ DOMAIN s = (DOMAIN S \ ns) \cup new /\ \A m \in new : s[m] = News(ps)[m]
        /\ \A m \in (DOMAIN S \ ns) \ new : s[m] = kept[m]
    <3> DEFINE more == News(ps)
    <3>1. kept \in Context /\ more \in Context /\ DOMAIN more = new /\ DOMAIN kept = DOMAIN S \ ns
      BY <1>8, <1>9
    <3> HIDE DEF more
    <3>2. /\ DOMAIN With(kept, more) = DOMAIN kept \cup DOMAIN more
          /\ \A n \in DOMAIN more : With(kept, more)[n] = more[n]
          /\ \A n \in DOMAIN kept \ DOMAIN more : With(kept, more)[n] = kept[n]
      BY <3>1, WithCtx
    <3> QED BY <3>1, <3>2, Zenon DEF more
  <2>2. \A m \in new : s[m].res \notin Old
    <3>1. \A m \in new : s[m].res = Made(m)
      BY <1>8, <2>1 DEF AllNew
    <3> QED BY <1>5, <3>1, SentenceNumber
  <2>3. \A m \in (DOMAIN S \ ns) \ new : s[m].res \notin used
    BY <1>c, <1>5, <1>6, <1>9, <2>1 DEF PartOf
  <2> QED BY <2>1, <2>2, <2>3
<1> HIDE DEF s
<1>12. Parts(after, s, I, Focus.goal + 1)
  <2>1. s \in Context
    BY <1>10 DEF Carries
  <2> QED BY <1>4, <2>1, Replaced, Zenon DEF after, I
<1>13. ((DOMAIN S \ ns) \cup new) \cap DOMAIN I = {}
  BY <1>4, <1>5
<1>14. Fits(after)
  BY <1>3, <1>10, <1>12, <1>13, CarriedGrown DEF S, I
<1>15. \A m \in DOMAIN after.spatial : after.spatial[m].res \in Old => after.spatial[m].res \notin used
  BY <1>11, <1>12 DEF Parts
<1>16. \A r \in used : \E n : Holds(Focus, n, r) /\ n \in DOMAIN Focus.spatial
  BY <1>5, <1>6 DEF Holds, S
<1>17. Gives(head, ns, <<after>>, used)
  BY <1>3, <1>14, <1>15, <1>16, OneGives
<1> QED BY <1>2, <1>3, <1>17, BecameKeeps

\* A child that holds, under other names perhaps, what the focused goal held.
LEMMA MovesGives ==
    ASSUME LedgerInv, Final # <<>>, NEW head, NEW named, NEW after \in Goal,
           \A m, n, r : Holds(after, m, r) /\ Holds(after, n, r) => m = n,
           \A m, r : Holds(after, m, r) => \E n : Holds(Focus, n, r),
           Origins(<<Focus>>, after, {}, ChildEvents(CallOf(head, named), Focus, <<after>>)),
           \A n \in Pair(Focus, after).consumed : Focus.spatial[n].res \notin Held(after),
           DOMAIN Focus.intuit \subseteq DOMAIN after.intuit
    PROVE  Gives(head, named, <<after>>, {})
<1> DEFINE cs == <<after>>
           evs == ChildEvents(CallOf(head, named), Focus, cs)
<1>1. DOMAIN cs = {1} /\ cs[1] = after /\ cs # <<>> /\ cs \in Seq(Goal)
  OBVIOUS
<1>2. Final[1] = Focus /\ \A n, r : Holds(Focus, n, r) => r \in Old
  BY FocusIs
<1>3. DOMAIN <<Focus>> = {1} /\ <<Focus>>[1] = Focus
  OBVIOUS
<1>4. \A n \in DOMAIN Focus.spatial : n \notin DOMAIN after.spatial => Told(evs, n)
  BY VanishOne
<1>5. Origins(<<Focus>>, after, {}, evs)
  OBVIOUS
<1> HIDE DEF cs, evs
<1>6. Says(head, named, cs) = evs
  BY <1>1, <1>2 DEF Says, evs
<1>7. HeldIn(cs) \subseteq Res(Len(steps))
  <2>1. \A m, r : Holds(after, m, r) => r \in Res(Len(steps))
    BY <1>2, SentenceNumber
  <2> QED BY <1>1, <2>1, HeldBy
<1>8. Unique(cs)
  BY <1>1, UniqueIs
<1>9. Vanishes(<<Focus>>, cs, evs)
  BY <1>1, <1>3, <1>4 DEF Vanishes, IsSpatial
<1>10. UsesTold(<<Focus>>, cs, {}, evs)
  BY DEF UsesTold
<1>11. Pair(Focus, after).gone = {}
  <2>1. ASSUME NEW n \in Pair(Focus, after).gone PROVE FALSE
    <3>1. n \in DiffContext(Focus.intuit, after.intuit).consumed
      BY <2>1, PairDiff
    <3> QED BY <3>1, Diff
  <2> QED BY <2>1
<1>12. Gives(head, named, cs, {})
  BY <1>1, <1>2, <1>5, <1>6, <1>7, <1>8, <1>9, <1>10, <1>11 DEF Gives
<1> QED BY <1>12 DEF cs

\* A context with some of its names changed holds each hypothesis under its new name.
LEMMA RelabelCtx ==
    ASSUME NEW a \in Context, NEW ns \in SUBSET DOMAIN a, NEW f \in [ns -> Name],
           \A n, m \in ns : f[n] = f[m] => n = m
    PROVE  LET fs == {f[n] : n \in ns} IN
           /\ Relabel(a, f) \in Context /\ DOMAIN Relabel(a, f) = (DOMAIN a \ ns) \cup fs
           /\ \A n \in ns : Relabel(a, f)[f[n]] = a[n]
           /\ \A m \in (DOMAIN a \ ns) \ fs : Relabel(a, f)[m] = a[m]
<1> DEFINE fs == {f[n] : n \in ns}
           D == (DOMAIN a \ ns) \cup fs
           c == Relabel(a, f)
           v(m) == IF \E n \in ns : f[n] = m THEN a[CHOOSE n \in ns : f[n] = m] ELSE a[m]
<1>1. c = [m \in D |-> v(m)]
  BY DEF Relabel
<1>2. \A n \in ns : v(f[n]) = a[n]
  OBVIOUS
<1>3. \A m \in D \ fs : v(m) = a[m]
  OBVIOUS
<1>4. D \in SUBSET Name
  BY Contexts
<1>5. \A m \in D : v(m) \in Hyp
  <2>1. \A m \in fs : \E n \in ns : v(m) = a[n]
    BY <1>2
  <2> HIDE DEF v
  <2>2. \A n \in DOMAIN a : a[n] \in Hyp
    BY Contexts
  <2> QED BY <1>3, <2>1, <2>2
<1> HIDE DEF v, c
<1>6. c \in [D -> Hyp]
  BY <1>1, <1>5
<1>7. c \in Context /\ DOMAIN c = D
  BY <1>4, <1>6 DEF Context
<1>8. \A n \in ns : c[f[n]] = a[n]
  BY <1>1, <1>2
<1>9. \A m \in (DOMAIN a \ ns) \ fs : c[m] = a[m]
  BY <1>1, <1>3
<1> QED BY <1>7, <1>8, <1>9 DEF c

\* Of two names that swap, each becomes the other.
LEMMA TwoSwap ==
    ASSUME NameAssumption, NEW ns \in SUBSET Name, Cardinality(ns) \in {1, 2}, NEW f \in [ns -> ns],
           \A n, m \in ns : f[n] = f[m] => n = m, NEW n \in ns, f[n] # n
    PROVE  f[f[n]] = n
<1> DEFINE m == f[n]
           k == f[m]
<1>1. m \in ns /\ k \in ns /\ m # n /\ k # m
  OBVIOUS
<1>2. SUFFICES ASSUME k # n PROVE FALSE
  OBVIOUS
<1> HIDE DEF m, k
<1>3. IsFiniteSet(ns)
  BY FS_Subset DEF NameAssumption
<1>4. {n, m, k} \subseteq ns
  BY <1>1
<1> DEFINE one == {n}
           two == one \cup {m}
           three == two \cup {k}
<1>5. IsFiniteSet(one) /\ Cardinality(one) = 1 /\ m \notin one
  BY <1>1, FS_Singleton
<1>6. k \notin two /\ three \in SUBSET ns
  BY <1>1, <1>2, <1>4
<1> HIDE DEF one
<1>7. IsFiniteSet(two) /\ Cardinality(two) = 2
  BY <1>5, FS_AddElement
<1> HIDE DEF two
<1>8. Cardinality(three) = 3
  <2>1. k \notin two
    BY <1>6
  <2>2. Cardinality(three) = Cardinality(two) + 1
    BY <1>7, <2>1, FS_AddElement
  <2> QED BY <1>7, <2>2
<1> HIDE DEF three
<1>9. Cardinality(three) <= Cardinality(ns)
  BY <1>3, <1>6, FS_Subset
<1> QED BY <1>8, <1>9

\* The proposition of a name that is in the spatial context.
LEMMA PropOfSpatial == ASSUME LedgerInv, Final # <<>>, NEW n \in DOMAIN Focus.spatial PROVE PropOf(n) = Focus.spatial[n].prop
<1>1. n \in DOMAIN Focus.spatial \ DOMAIN Focus.intuit /\ Focus.spatial \in Context /\ Focus.intuit \in Context
  BY FocusIs
<1>2. With(Focus.spatial, Focus.intuit)[n] = Focus.spatial[n]
  BY <1>1, WithCtx
<1> QED BY <1>2 DEF PropOf

\* iRename, of one or two, in a cycle too: a name that went is told of as renamed or ambiguous,
\* two that changed places as ambiguous, and none is said to be consumed.
LEMMA RenamesKeeps == ASSUME NameAssumption, LedgerInv, Renames PROVE SoundSentence
<1> DEFINE S == Focus.spatial
           I == Focus.intuit
<1>1. PICK ns, f :
          /\ Final # <<>> /\ ns \in SUBSET DOMAIN Focus.spatial /\ f \in [ns -> Fresh \cup ns]
          /\ Cardinality(ns) \in {1, 2} /\ \A n, m \in ns : f[n] = f[m] => n = m
          /\ \/ {f[n] : n \in ns} \cap ns = {}
             \/ {f[n] : n \in ns} = ns /\ \A n \in ns : ~SameProp(PropOf(n), PropOf(f[n]))
          /\ Did("iRename", ns, Became(<<[Focus EXCEPT !.spatial = Relabel(@, f)]>>), {})
  BY DEF Renames, Proving
<1> DEFINE fs == {f[n] : n \in ns}
           R == Relabel(S, f)
           after == [Focus EXCEPT !.spatial = R]
           evs == ChildEvents(CallOf("iRename", ns), Focus, <<after>>)
<1>2. Did("iRename", ns, Became(<<after>>), {})
  BY <1>1
<1>3. /\ Final # <<>> /\ ns \in SUBSET DOMAIN S /\ f \in [ns -> Fresh \cup ns]
      /\ Cardinality(ns) \in {1, 2} /\ \A n, m \in ns : f[n] = f[m] => n = m
      /\ \/ fs \cap ns = {}
         \/ fs = ns /\ \A n \in ns : ~SameProp(PropOf(n), PropOf(f[n]))
  BY <1>1
<1> HIDE DEF after, evs
<1>4. /\ Focus \in Goal /\ S \in Context /\ I \in Context /\ Focus.goal \in Nat
      /\ DOMAIN S \cap DOMAIN I = {} /\ Names(Focus) \subseteq Name
  BY <1>3, FocusIs
<1>5. /\ ns \subseteq DOMAIN S /\ ns \subseteq Name /\ f \in [ns -> Name] /\ fs \subseteq Name
      /\ fs \cap DOMAIN I = {} /\ fs \cap (DOMAIN S \ ns) = {}
      /\ fs \cap ns = {} => fs \cap DOMAIN S = {}
  BY <1>3, <1>4 DEF Fresh, Names
<1>6. /\ R \in Context /\ DOMAIN R = (DOMAIN S \ ns) \cup fs
      /\ \A n \in ns : R[f[n]] = S[n]
      /\ \A m \in (DOMAIN S \ ns) \ fs : R[m] = S[m]
  <2>1. S \in Context /\ ns \in SUBSET DOMAIN S /\ f \in [ns -> Name] /\ \A n, m \in ns : f[n] = f[m] => n = m
    BY <1>3, <1>4, <1>5
  <2> HIDE DEF S
  <2> QED BY <2>1, RelabelCtx
<1> HIDE DEF R
<1>7. Parts(after, R, I, Focus.goal)
  BY <1>4, <1>6, Replaced, Zenon DEF after
<1>8. after \in Goal /\ after.spatial = R /\ after.intuit = I
  BY <1>4, <1>5, <1>6, <1>7 DEF Parts
<1>9. ASSUME NEW m \in DOMAIN R
      PROVE  \E n \in DOMAIN S : R[m] = S[n] /\ ((n \in ns /\ m = f[n]) \/ (n \notin ns /\ m = n))
  BY <1>5, <1>6
<1>10. \A m, r : Holds(after, m, r) => \E n : Holds(Focus, n, r) /\ ((n \in ns /\ m = f[n]) \/ (n \notin ns /\ m = n))
  <2>1. ASSUME NEW m \in DOMAIN R, NEW r, R[m].res = r
        PROVE  \E n : Holds(Focus, n, r) /\ ((n \in ns /\ m = f[n]) \/ (n \notin ns /\ m = n))
    BY <1>9, <2>1 DEF Holds
  <2>2. ASSUME NEW m \in DOMAIN I, NEW r, I[m].res = r
        PROVE  Holds(Focus, m, r) /\ m \notin ns
    BY <1>4, <1>5, <2>2 DEF Holds
  <2> QED BY <1>8, <2>1, <2>2 DEF Holds
<1>11. \A m, n, r : Holds(after, m, r) /\ Holds(after, n, r) => m = n
  BY <1>3, <1>10, FocusIs
<1>12. ASSUME NEW n \in ns PROVE Told(evs, n)
  <2>1. CASE fs \cap ns = {}
    <3>1. n \in DOMAIN Focus.spatial \ DOMAIN after.spatial
      BY <1>5, <1>6, <1>8, <2>1
    <3> QED BY <3>1, VanishOne DEF evs
  <2>2. CASE fs = ns /\ \A m \in ns : ~SameProp(PropOf(m), PropOf(f[m]))
    <3> DEFINE m == f[n]
    <3>1. m \in ns /\ f \in [ns -> ns]
      BY <1>3, <2>2
    <3>2. PropOf(n) = S[n].prop /\ PropOf(m) = S[m].prop
      BY <1>3, <3>1, PropOfSpatial
    <3>3. m # n
      BY <2>2 DEF SameProp
    <3>4. f[m] = n
      BY <1>3, <1>5, <3>1, <3>3, TwoSwap
    <3>5. R[m] = S[n] /\ R[n] = S[m] /\ {n, m} \subseteq DOMAIN S \cap DOMAIN R
      <4>1. R[f[n]] = S[n] /\ R[f[m]] = S[m]
        BY <1>6, <3>1
      <4>2. {n, m} \subseteq DOMAIN S \cap DOMAIN R
        BY <1>5, <1>6, <2>2, <3>1
      <4> QED BY <3>4, <4>1, <4>2
    <3>6. ~SameProp(S[n].prop, S[m].prop) /\ ~SameProp(S[m].prop, S[n].prop)
      BY <2>2, <3>1, <3>2, <3>4
    <3> HIDE DEF m, S
    <3>7. n \in DiffContext(S, R).ambiguous
      <4>1. /\ n \in DOMAIN S \cap DOMAIN R /\ m \in DOMAIN S \cap DOMAIN R /\ n # m /\ R[n].prop = S[m].prop
            /\ ~SameProp(S[n].prop, R[n].prop) /\ ~SameProp(S[m].prop, R[m].prop)
        BY <3>3, <3>5, <3>6
      <4> QED BY <4>1, Diff
    <3>8. n \in Pair(Focus, after).spatial.ambiguous
      <4>1. Pair(Focus, after).spatial = DiffContext(Focus.spatial, after.spatial)
        BY PairDiff
      <4> QED BY <1>8, <3>7, <4>1 DEF S
    <3> DEFINE cs == <<after>>
               call == CallOf("iRename", ns)
    <3>9. 1 \in DOMAIN cs /\ cs[1] = after
      OBVIOUS
    <3> HIDE DEF cs, call
    <3>10. Told(MatchingEvents(call, Pair(Focus, after)), n)
      BY <3>8, MatchingEventsTell
    <3>11. \A i \in DOMAIN cs : MatchingEvents(call, Pair(Focus, cs[i])) \subseteq ChildEvents(call, Focus, cs)
      BY <3>9, ChildEventsTell
    <3>12. MatchingEvents(call, Pair(Focus, after)) \subseteq ChildEvents(call, Focus, cs)
      BY <3>9, <3>11
    <3>13. Told(ChildEvents(call, Focus, cs), n)
      BY <3>10, <3>12 DEF Told
    <3> QED BY <3>13 DEF cs, call, evs
  <2> QED BY <1>3, <2>1, <2>2
<1>13. Origins(<<Focus>>, after, {}, evs)
  <2>1. \A m \in DOMAIN R : \E n \in DOMAIN S : S[n].res = R[m].res /\ (n = m \/ Told(evs, n))
    BY <1>9, <1>12
  <2>2. DOMAIN <<Focus>> = {1} /\ <<Focus>>[1] = Focus
    OBVIOUS
  <2> QED BY <1>8, <2>1, <2>2 DEF Origins
<1>14. Pair(Focus, after).consumed = {}
  <2>1. ASSUME NEW n \in Pair(Focus, after).consumed PROVE FALSE
    <3>1. n \in DiffContext(Focus.spatial, after.spatial).consumed
      BY <2>1, PairDiff
    <3>2. /\ n \in DOMAIN Focus.spatial \ DOMAIN after.spatial
          /\ \A m \in DOMAIN after.spatial \ DOMAIN Focus.spatial : after.spatial[m].prop # Focus.spatial[n].prop
      BY <3>1, Diff
    <3>3. n \in ns /\ fs \cap ns = {}
      BY <1>3, <1>6, <1>8, <3>2
    <3>4. f[n] \in DOMAIN R \ DOMAIN S /\ R[f[n]] = S[n]
      BY <1>5, <1>6, <3>3
    <3> QED BY <1>8, <3>2, <3>4
  <2> QED BY <2>1
<1>15. Gives("iRename", ns, <<after>>, {})
  BY <1>3, <1>8, <1>10, <1>11, <1>13, <1>14, MovesGives DEF evs
<1> QED BY <1>2, <1>3, <1>15, BecameKeeps

\* iDestruct as a lasting hypothesis: the spatial name is told of as persisted, and not
\* as consumed.
LEMMA MakesLastingKeeps == ASSUME LedgerInv, MakesLasting PROVE SoundSentence
<1> DEFINE S == Focus.spatial
           I == Focus.intuit
<1>1. PICK n, m :
          /\ Final # <<>> /\ n \in DOMAIN Focus.spatial /\ m \in Fresh \cup {n}
          /\ Did("iDestruct", {n}, Became(<<[Focus EXCEPT !.spatial = Without(@, {n}),
                                                          !.intuit = With(@, [x \in {m} |-> Focus.spatial[n]])]>>), {})
  BY DEF MakesLasting, Proving
<1> DEFINE moved == [x \in {m} |-> S[n]]
           s == Without(S, {n})
           i == With(I, moved)
           after == [Focus EXCEPT !.spatial = s, !.intuit = i]
           evs == ChildEvents(CallOf("iDestruct", {n}), Focus, <<after>>)
<1>2. Did("iDestruct", {n}, Became(<<after>>), {})
  BY <1>1
<1>3. Final # <<>> /\ n \in DOMAIN S /\ m \in Fresh \cup {n}
  BY <1>1, Zenon
<1> HIDE DEF after, evs
<1>4. /\ Focus \in Goal /\ S \in Context /\ I \in Context /\ Focus.goal \in Nat
      /\ DOMAIN S \cap DOMAIN I = {} /\ Names(Focus) \subseteq Name
  BY <1>3, FocusIs
<1>5. m \in Name /\ m \notin DOMAIN I /\ m \notin DOMAIN S \ {n}
  BY <1>3, <1>4 DEF Fresh, Names
<1>6. moved \in Context /\ DOMAIN moved = {m} /\ moved[m] = S[n]
  <2>1. S[n] \in Hyp
    BY <1>3, <1>4, Contexts
  <2>2. moved \in [{m} -> Hyp] /\ {m} \in SUBSET Name
    BY <1>5, <2>1
  <2> QED BY <2>2 DEF Context
<1> HIDE DEF moved
<1>7. /\ s \in Context /\ DOMAIN s = DOMAIN S \ {n} /\ \A k \in DOMAIN S \ {n} : s[k] = S[k]
      /\ i \in Context /\ DOMAIN i = DOMAIN I \cup {m} /\ i[m] = S[n] /\ \A k \in DOMAIN I : i[k] = I[k]
  <2>1. /\ s \in Context /\ DOMAIN s = DOMAIN S \ {n} /\ \A k \in DOMAIN S \ {n} : s[k] = S[k]
    BY <1>4, WithoutCtx
  <2>2. /\ i \in Context /\ DOMAIN i = DOMAIN I \cup DOMAIN moved
        /\ \A k \in DOMAIN moved : i[k] = moved[k]
        /\ \A k \in DOMAIN I \ DOMAIN moved : i[k] = I[k]
    <3>1. I \in Context /\ moved \in Context
      BY <1>4, <1>6
    <3> HIDE DEF I
    <3> QED BY <3>1, WithCtx
  <2> QED BY <1>5, <1>6, <2>1, <2>2
<1> HIDE DEF s, i
<1>8. after \in Goal /\ after.spatial = s /\ after.intuit = i
  <2>1. Parts(after, s, i, Focus.goal)
    BY <1>4, <1>7, Replaced, Zenon DEF after
  <2> QED BY <1>4, <1>5, <1>7, <2>1 DEF Parts
<1>9. \A k, r : Holds(after, k, r) => \/ k = m /\ Holds(Focus, n, r)
                                      \/ k # m /\ k # n /\ Holds(Focus, k, r)
  BY <1>3, <1>4, <1>5, <1>7, <1>8 DEF Holds
<1>10. \A j, k, r : Holds(after, j, r) /\ Holds(after, k, r) => j = k
  BY <1>3, <1>9, FocusIs
<1>11. Told(evs, n)
  BY <1>3, <1>7, <1>8, VanishOne DEF evs
<1>12. Origins(<<Focus>>, after, {}, evs)
  <2>1. DOMAIN <<Focus>> = {1} /\ <<Focus>>[1] = Focus
    OBVIOUS
  <2> QED BY <1>3, <1>7, <1>8, <1>11, <2>1 DEF Origins
<1>13. Pair(Focus, after).consumed = {}
  <2>1. ASSUME NEW k \in Pair(Focus, after).consumed PROVE FALSE
    <3>1. k \in DiffContext(Focus.spatial, after.spatial).consumed
      BY <2>1, PairDiff
    <3>2. k = n
      BY <1>7, <1>8, <3>1, Diff
    <3>3. m \in DiffContext(Focus.intuit, after.intuit).produced
      <4>1. m \in DOMAIN after.intuit \ DOMAIN Focus.intuit /\ DOMAIN Focus.intuit \ DOMAIN after.intuit = {}
        BY <1>5, <1>7, <1>8
      <4> QED BY <4>1, Diff
    <3>4. after.intuit[m].prop = Focus.spatial[n].prop
      BY <1>7, <1>8
    <3>5. <<m, n>> \in Pair(Focus, after).persisted
      BY <3>1, <3>2, <3>3, <3>4, PairDiff
    <3> QED BY <2>1, <3>1, <3>2, <3>5, PairDiff
  <2> QED BY <2>1
<1>14. Gives("iDestruct", {n}, <<after>>, {})
  <2>1. DOMAIN Focus.intuit \subseteq DOMAIN after.intuit
    BY <1>7, <1>8
  <2> QED BY <1>3, <1>8, <1>9, <1>10, <1>12, <1>13, <2>1, MovesGives DEF evs
<1> QED BY <1>2, <1>3, <1>14, BecameKeeps

\* A sentence that closes its goal: the ledger tells of all its spatial context and of the
\* lasting hypotheses it names.
LEMMA ClosesKeeps == ASSUME LedgerInv, Closes PROVE SoundSentence
<1> DEFINE S == Focus.spatial
           I == Focus.intuit
<1>1. PICK ns \in SUBSET DOMAIN Focus.intuit :
          /\ Final # <<>>
          /\ Did("iApply", ns, Tail(Final), Resources(Focus.spatial) \cup Resources(Only(Focus.intuit, ns)))
  BY DEF Closes, Proving
<1> DEFINE used == Resources(S) \cup Resources(Only(I, ns))
           evs == Says("iApply", ns, <<>>)
<1>2. /\ S \in Context /\ I \in Context /\ Final[1] = Focus /\ Final \in Seq(Goal)
  BY <1>1, FocusIs, FinalIs DEF LedgerInv
<1>3. \A r : r \in used <=> (\E n \in DOMAIN S : r = S[n].res) \/ (\E n \in ns : r = I[n].res)
  <2>1. DOMAIN Only(I, ns) = ns /\ \A n \in ns : Only(I, ns)[n] = I[n]
    BY <1>2, OnlyCtx, DOMAIN I \cap ns = ns
  <2> QED BY <2>1 DEF Resources
<1>4. \A n \in DOMAIN S \cup ns : Told(evs, n)
  <2>1. evs = ClosedEvents(CallOf("iApply", ns), Focus)
    BY <1>2 DEF Says
  <2>2. CallOf("iApply", ns).named = ns
    BY DEF CallOf
  <2>3. \A n \in DOMAIN Focus.spatial \cup (CallOf("iApply", ns).named \cap DOMAIN Focus.intuit) :
            Told(ClosedEvents(CallOf("iApply", ns), Focus), n)
    BY ClosedEventsTell
  <2> HIDE DEF evs
  <2> QED BY <1>1, <2>1, <2>2, <2>3
<1> HIDE DEF used, evs
<1>5. Gives("iApply", ns, <<>>, used)
  <2>1. <<>> \in Seq(Goal) /\ DOMAIN <<>> = {}
    OBVIOUS
  <2>2. \A r \in used : \E n : Holds(Focus, n, r) /\ (n \in DOMAIN Focus.spatial \/ Told(evs, n))
    BY <1>1, <1>3, <1>4 DEF Holds
  <2>3. \A n \in DOMAIN Focus.spatial : Told(evs, n) \/ IsSpatial(<<>>, n)
    BY <1>4
  <2> QED BY <1>1, <2>1, <2>2, <2>3, FitsGives DEF evs
<1>6. Became(<<>>) = Tail(Final)
  <2>1. Tail(Final) \in Seq(Goal)
    BY <1>1, <1>2
  <2> QED BY <2>1 DEF Became
<1>7. Did("iApply", ns, Became(<<>>), used)
  BY <1>1, <1>6 DEF used
<1> QED BY <1>1, <1>5, <1>7, BecameKeeps

\* all: done. Nothing is left, and the ledger says of every spatial name that it may be spent.
LEMMA ClosesAllKeeps == ASSUME LedgerInv, ClosesAll PROVE SoundSentence
<1>0. Len(Final) \in Nat /\ Len(Final) > 1
  BY FinalIs DEF LedgerInv, ClosesAll
<1> DEFINE used == UNION {Resources(Final[i].spatial) : i \in DOMAIN Final}
           call == CallOf("done", {})
           evs == StepEvents(call, Final, <<>>)
           keep == Untouched(Final, <<>>)
           F == Final
<1>1. Did("done", {}, <<>>, used) /\ Len(Final) > 1
  BY DEF ClosesAll
<1>2. Final \in Seq(Goal) /\ Len(Final) \in Nat /\ Final # <<>> /\ <<>> \in Seq(Goal) /\ Len(<<>>) = 0
  BY <1>1, FinalIs DEF LedgerInv
<1>3. keep = 0
  <2>1. keep \in 0..(Len(Final) - 1) /\ keep <= Len(<<>>)
    BY <1>2, UntouchedIs
  <2> HIDE DEF keep
  <2> QED BY <1>2, <2>1
<1>4. SubSeq(<<>>, 1, Len(<<>>) - keep) = <<>> /\ SubSeq(Final, 1, Len(Final) - keep) = Final
  <2>1. Len(<<>>) - keep = 0 /\ Len(Final) - keep = Len(Final)
    BY <1>2, <1>3
  <2> HIDE DEF keep
  <2>2. SubSeq(<<>>, 1, 0) = <<>>
    OBVIOUS
  <2>3. SubSeq(F, 1, Len(F)) = F
    <3> HIDE DEF F
    <3> QED BY <1>2 DEF F
  <2> QED BY <2>1, <2>2, <2>3
<1>5. evs = MultiGoalEvents(call, Final, <<>>)
  <2> DEFINE children == SubSeq(<<>>, 1, Len(<<>>) - keep)
             touched == SubSeq(Final, 1, Len(Final) - keep)
  <2>1. evs = CASE Len(touched) > 1 -> MultiGoalEvents(call, touched, children)
                [] Len(touched) = 1 /\ children = <<>> -> ClosedEvents(call, Final[1])
                [] OTHER -> ChildEvents(call, Final[1], children)
    BY DEF StepEvents
  <2>2. touched = Final /\ children = <<>>
    BY <1>4, Zenon
  <2> HIDE DEF children, touched, call, evs
  <2>4. Len(touched) > 1 /\ Len(touched) # 1
    <3>1. \A l \in Nat : l > 1 => l # 1
      OBVIOUS
    <3> QED BY <1>0, <2>2, <3>1, Zenon
  <2>3. evs = MultiGoalEvents(call, touched, children)
    BY <2>1, <2>4, Zenon
  <2> QED BY <2>2, <2>3
<1>6. /\ \A i \in DOMAIN Final : \A n \in DOMAIN Final[i].spatial : Told(evs, n)
      /\ \A e \in evs : e.at[1] = Len(steps) /\ ~e.certain /\ ~Uses(e)
  <2>1. call.n = Len(steps)
    BY DEF CallOf
  <2> HIDE DEF call, evs
  <2> QED BY <1>5, <2>1, MultiGoalEventsTell
<1> HIDE DEF evs
<1>7. HeldIn(<<>>) = {} /\ Unique(<<>>) /\ DOMAIN <<>> = {}
  BY DEF HeldIn, Unique
<1>8. UsesTold(Final, <<>>, used, evs)
  <2>1. ASSUME NEW r \in used PROVE \E i \in DOMAIN Final : \E n : Holds(Final[i], n, r) /\ Told(evs, n)
    BY <1>6 DEF Resources, Holds
  <2> QED BY <2>1 DEF UsesTold
<1> HIDE DEF used, keep
<1>9. Vanishes(Final, <<>>, evs)
  BY <1>6 DEF Vanishes
<1>10. Sound("done", {}, <<>>, used)
  BY <1>2, <1>6, <1>7, <1>8, <1>9 DEF Sound, Takes, Honest, Loses, evs, call
<1> QED BY <1>1, <1>10 DEF used, SoundSentence

\* Two goals have the same names.
SameNames(g, h) == DOMAIN g.spatial = DOMAIN h.spatial /\ DOMAIN g.intuit = DOMAIN h.intuit

\* Goals that pass their names on in a circle all have the same.
LEMMA RoundTrip ==
    ASSUME NEW F, NEW l \in Nat, l >= 2, SameNames(F[l], F[1]), \A k \in 2..(l - 1) : SameNames(F[k], F[k + 1])
    PROVE  SameNames(F[1], F[2])
<1> DEFINE T == {k \in 2..l : ~SameNames(F[k], F[1])}
<1>1. SUFFICES ASSUME T # {} PROVE FALSE
  <2>1. 2 \in 2..l
    OBVIOUS
  <2> QED BY <2>1 DEF SameNames
<1>2. PICK t : t \in T
  BY <1>1
<1>3. T \in SUBSET (0..l)
  OBVIOUS
<1> HIDE DEF T
<1>4. Max(T) \in T /\ \A k \in T : k <= Max(T)
  BY <1>2, <1>3, Greatest
<1> DEFINE m == Max(T)
<1> HIDE DEF m
<1>5. m \in 2..l /\ ~SameNames(F[m], F[1])
  BY <1>4 DEF T, m
<1>6. m # l /\ m \in 2..(l - 1) /\ m + 1 \in 2..l
  BY <1>5
<1>7. ~(m + 1 <= m) /\ m + 1 \notin T
  BY <1>4, <1>5 DEF m
<1>8. SameNames(F[m + 1], F[1])
  BY <1>6, <1>7 DEF T
<1>9. SameNames(F[m], F[m + 1])
  BY <1>6
<1> QED BY <1>5, <1>8, <1>9 DEF SameNames

\* cycle: the same goals in another order. Taken for a sentence of the first goal when the tails
\* match, it is said to consume only what the second goal does not hold.
LEMMA CyclesKeeps == ASSUME LedgerInv, Cycles PROVE SoundSentence
<1> DEFINE F == Final
           L == Len(F)
           next == Tail(F) \o <<F[1]>>
           call == CallOf("cycle", {})
           evs == StepEvents(call, F, next)
           keep == Untouched(F, next)
           children == SubSeq(next, 1, Len(next) - keep)
           touched == SubSeq(F, 1, L - keep)
<1>1. Did("cycle", {}, next, {}) /\ L > 1
  BY DEF Cycles, Focus
<1>2. F \in Seq(Goal) /\ L \in Nat /\ F # <<>> /\ F[1] \in Goal
  BY <1>1, FinalIs DEF LedgerInv
<1>3. \A i, j \in DOMAIN F : \A m, n, r : Holds(F[i], m, r) /\ Holds(F[j], n, r) => i = j /\ m = n
  BY UniqueIs DEF LedgerInv
<1>4. HeldIn(F) \subseteq Res(Len(steps))
  <2>1. HeldIn(F) \subseteq Res(Len(steps) - 1)
    BY FinalIs DEF LedgerInv, Known, Final
  <2>2. Len(steps) - 1 \in Nat /\ (Len(steps) - 1) + 1 = Len(steps)
    BY FinalIs DEF LedgerInv
  <2>3. Res(Len(steps) - 1) \subseteq Res(Len(steps))
    BY <2>2, ResGrows
  <2> QED BY <2>1, <2>3
<1>e. next = Tail(F) \o <<F[1]>>
  OBVIOUS
<1> HIDE DEF F
<1>5. /\ next \in Seq(Goal) /\ Len(next) = L /\ DOMAIN next = 1..L /\ DOMAIN F = 1..L
      /\ \A i \in 1..(L - 1) : next[i] = F[i + 1]
      /\ next[L] = F[1]
  BY <1>1, <1>2
<1> HIDE DEF next
<1>6. keep \in 0..(L - 1) /\ Kept(F, next, keep)
  BY <1>2, <1>5, UntouchedIs
<1> HIDE DEF keep
<1>7. /\ Len(children) = L - keep /\ \A i \in 1..(L - keep) : children[i] = next[i]
      /\ Len(touched) = L - keep /\ L - keep \in 1..L /\ children \in Seq(Goal)
  <2> DEFINE k == L - keep
  <2>1. k \in 1..L /\ Len(next) - keep = k /\ k \in Nat
    BY <1>2, <1>5, <1>6
  <2> HIDE DEF k, L
  <2>2. Len(SubSeq(next, 1, k)) = k /\ SubSeq(next, 1, k) \in Seq(Goal) /\ \A i \in 1..k : SubSeq(next, 1, k)[i] = next[i]
    BY <1>5, <2>1
  <2>3. Len(SubSeq(F, 1, k)) = k
    BY <1>2, <2>1 DEF L
  <2> QED BY <2>1, <2>2, <2>3 DEF k
<1>8. evs = CASE Len(touched) > 1 -> MultiGoalEvents(call, touched, children)
              [] Len(touched) = 1 /\ children = <<>> -> ClosedEvents(call, F[1])
              [] OTHER -> ChildEvents(call, F[1], children)
  BY DEF StepEvents, keep
<1>9. call.n = Len(steps)
  BY DEF CallOf
<1> HIDE DEF children, touched, evs, call
<1>10. \A e \in evs : /\ e.at[1] = Len(steps) /\ (Takes(e) => F[1].spatial[e.hyp].res \notin HeldIn(children))
                      /\ ~Loses(e)
                      /\ Uses(e) => e.sources = {e.hyp} /\ e.hyp \in DOMAIN F[1].intuit
  <2>1. CASE L - keep > 1
    <3>1. Len(touched) > 1 /\ children # <<>>
      BY <1>7, <2>1
    <3>2. evs = MultiGoalEvents(call, touched, children)
      BY <1>8, <3>1
    <3>3. evs = {}
      BY <3>1, <3>2, MultiGoalEventsTell
    <3> QED BY <3>3
  <2>2. CASE L - keep = 1
    <3>1. Len(touched) = 1 /\ Len(children) = 1 /\ children # <<>> /\ DOMAIN children = {1} /\ children[1] = F[2]
      BY <1>1, <1>2, <1>5, <1>7, <2>2
    <3>2. evs = ChildEvents(call, F[1], children)
      BY <1>8, <3>1
    <3>3. /\ \A e \in evs : e.at[1] = Len(steps)
          /\ \A e \in evs : Takes(e) => e.hyp \in Pair(F[1], F[2]).consumed
      BY <1>9, <3>1, <3>2, ChildEventsTell DEF Takes
    <3>4. \A n \in Pair(F[1], F[2]).consumed : n \in DOMAIN F[1].spatial
      BY PairDiff, Diff
    <3>5. ASSUME NEW n \in DOMAIN F[1].spatial, F[1].spatial[n].res \in HeldIn(children) PROVE FALSE
      <4>1. PICK m : Holds(F[2], m, F[1].spatial[n].res)
        BY <3>1, <3>5, HeldBy
      <4>2. Holds(F[1], n, F[1].spatial[n].res)
        BY <3>5 DEF Holds
      <4>3. 1 \in DOMAIN F /\ 2 \in DOMAIN F
        BY <1>1, <1>2, <1>5
      <4> QED BY <1>3, <4>1, <4>2, <4>3
    <3>6. SameNames(F[1], F[2])
      <4>1. keep = L - 1 /\ L \in Nat /\ L >= 2
        BY <1>1, <1>2, <1>6, <2>2
      <4>2. ASSUME NEW k \in 2..L PROVE SameGoal(F[k], next[k])
        <5>1. L - k \in 0..(keep - 1) /\ L - (L - k) = k
          BY <4>1
        <5> QED BY <1>5, <1>6, <5>1 DEF Kept
      <4>3. SameNames(F[L], F[1])
        BY <1>5, <4>1, <4>2 DEF SameGoal, SameContext, SameNames
      <4>4. ASSUME NEW k \in 2..(L - 1) PROVE SameNames(F[k], F[k + 1])
        BY <1>5, <4>1, <4>2 DEF SameGoal, SameContext, SameNames
      <4> QED BY <4>1, <4>3, <4>4, RoundTrip
    <3>7. Pair(F[1], F[2]).consumed = {} /\ Pair(F[1], F[2]).gone = {}
      <4>1. \A n : n \notin DiffContext(F[1].spatial, F[2].spatial).consumed
                  /\ n \notin DiffContext(F[1].intuit, F[2].intuit).consumed
        BY <3>6, Diff DEF SameNames
      <4>2. /\ Pair(F[1], F[2]).consumed \subseteq DiffContext(F[1].spatial, F[2].spatial).consumed
            /\ Pair(F[1], F[2]).gone = DiffContext(F[1].intuit, F[2].intuit).consumed
        BY PairDiff
      <4> QED BY <4>1, <4>2
    <3>8. \A e \in evs : ~Loses(e) /\ (Uses(e) => e.sources = {e.hyp} /\ e.hyp \in DOMAIN F[1].intuit)
      BY <3>1, <3>2, <3>7, ChildEventsTell
    <3> QED BY <3>3, <3>4, <3>5, <3>8
  <2> QED BY <1>7, <2>1, <2>2
<1> DEFINE p(i) == IF i < L THEN i + 1 ELSE 1
<1>11. /\ \A i \in DOMAIN next : p(i) \in DOMAIN F /\ next[i] = F[p(i)]
       /\ \A i, j \in DOMAIN next : p(i) = p(j) => i = j
       /\ \A i \in DOMAIN F : \E j \in DOMAIN next : next[j] = F[i]
  <2>1. \A i \in 1..L : i < L => i \in 1..(L - 1) /\ i + 1 \in 1..L
    BY <1>2
  <2>2. \A i \in 1..L : ~(i < L) => i = L
    BY <1>2
  <2>3. \A i \in DOMAIN next : p(i) \in DOMAIN F /\ next[i] = F[p(i)]
    <3>1. ASSUME NEW i \in 1..L, i < L PROVE p(i) \in DOMAIN F /\ next[i] = F[p(i)]
      <4>1. p(i) = i + 1
        BY <3>1
      <4> QED BY <1>5, <2>1, <3>1, <4>1
    <3>2. ASSUME NEW i \in 1..L, ~(i < L) PROVE p(i) \in DOMAIN F /\ next[i] = F[p(i)]
      <4>1. p(i) = 1 /\ i = L /\ 1 \in 1..L
        BY <1>1, <1>2, <2>2, <3>2
      <4> QED BY <1>5, <4>1
    <3> HIDE DEF p
    <3> QED BY <1>5, <3>1, <3>2
  <2>4. \A i, j \in DOMAIN next : p(i) = p(j) => i = j
    BY <1>1, <1>2, <1>5
  <2>5. ASSUME NEW i \in DOMAIN F PROVE \E j \in DOMAIN next : next[j] = F[i]
    <3>1. CASE i = 1
      BY <1>1, <1>2, <1>5, <3>1
    <3>2. CASE i # 1
      <4>1. i - 1 \in 1..(L - 1) /\ (i - 1) + 1 = i /\ i - 1 \in DOMAIN next
        BY <1>2, <1>5, <3>2
      <4> QED BY <1>5, <4>1
    <3> QED BY <3>1, <3>2
  <2> QED BY <2>3, <2>4, <2>5
<1> HIDE DEF p, L
<1>12. HeldIn(next) \subseteq Res(Len(steps))
  <2>1. \A r \in HeldIn(next) : r \in HeldIn(F)
    BY <1>11, HeldBy
  <2> QED BY <1>4, <2>1
<1>13. Unique(next)
  <2>1. \A i, j \in DOMAIN next : \A m, n, r : Holds(next[i], m, r) /\ Holds(next[j], n, r) => i = j /\ m = n
    BY <1>3, <1>11
  <2> QED BY <2>1, UniqueIs
<1>14. \A j \in DOMAIN next : Origins(F, next[j], {}, evs)
  BY <1>11 DEF Origins
<1>15. Vanishes(F, next, evs)
  BY <1>11 DEF Vanishes, IsSpatial
<1>16. UsesTold(F, next, {}, evs)
  BY DEF UsesTold
<1>17. Honest(F, next, evs)
  <2>1. F # <<>>
    BY <1>2
  <2>2. \A e \in evs : ~Loses(e)
    BY <1>10
  <2>3. \A e \in evs : Uses(e) => e.sources = {e.hyp} /\ e.hyp \in DOMAIN F[1].intuit
    BY <1>10
  <2> QED BY <2>1, <2>2, <2>3, Zenon DEF Honest
<1>18. Sound("cycle", {}, next, {})
  BY <1>5, <1>10, <1>12, <1>13, <1>14, <1>15, <1>16, <1>17 DEF Sound, F, evs, call, children, keep
<1> QED BY <1>1, <1>18 DEF SoundSentence

\* An instantiated evar changes no resource, and its propositions are the same.
Filled(ctx, i) == [n \in DOMAIN ctx |-> [ctx[n] EXCEPT !.prop = IF @ = i[1] THEN i[2] ELSE @]]
FilledGoal(g, i) == [g EXCEPT !.spatial = Filled(@, i), !.intuit = Filled(@, i)]

\* A context with an evar instantiated holds the same, up to the evar.
LEMMA FilledCtx ==
    ASSUME PropAssumption, NEW a \in Context, NEW i \in Instance
    PROVE  LET c == Filled(a, i) IN
           /\ c \in Context /\ DOMAIN c = DOMAIN a
           /\ \A n \in DOMAIN a : c[n].res = a[n].res /\ SameProp(a[n].prop, c[n].prop)
<1> DEFINE c == Filled(a, i)
           v(n) == [a[n] EXCEPT !.prop = IF @ = i[1] THEN i[2] ELSE @]
<1>1. i \in Prop \X Prop /\ i = <<i[1], i[2]>> /\ <<i[1], i[2]>> \in Instance
  BY DEF PropAssumption
<1>2. \A n \in DOMAIN a : a[n] \in Hyp
  BY Contexts
<1>3. ASSUME NEW n \in DOMAIN a
      PROVE  v(n) \in Hyp /\ v(n).res = a[n].res /\ (v(n).prop = a[n].prop \/ (a[n].prop = i[1] /\ v(n).prop = i[2]))
  BY <1>1, <1>2 DEF Hyp
<1>4. c = [n \in DOMAIN a |-> v(n)]
  BY DEF Filled
<1> HIDE DEF v, c
<1>5. c \in [DOMAIN a -> Hyp] /\ DOMAIN a \in SUBSET Name
  BY <1>3, <1>4, Contexts
<1>6. c \in Context
  BY <1>5 DEF Context
<1>7. \A n \in DOMAIN a : c[n].res = a[n].res /\ SameProp(a[n].prop, c[n].prop)
  BY <1>1, <1>3, <1>4 DEF SameProp
<1> QED BY <1>4, <1>6, <1>7 DEF c

\* So does a goal.
LEMMA FilledIs ==
    ASSUME PropAssumption, NEW g \in Goal, NEW i \in Instance
    PROVE  /\ FilledGoal(g, i) \in Goal
           /\ Parts(FilledGoal(g, i), Filled(g.spatial, i), Filled(g.intuit, i), g.goal)
           /\ SameGoal(g, FilledGoal(g, i)) /\ SameHeld(g, FilledGoal(g, i))
<1> DEFINE s == Filled(g.spatial, i)
           t == Filled(g.intuit, i)
           h == FilledGoal(g, i)
<1>1. g.spatial \in Context /\ g.intuit \in Context /\ g.goal \in Nat /\ DOMAIN g.spatial \cap DOMAIN g.intuit = {}
  BY DEF Goal
<1>2. h = [g EXCEPT !.spatial = s, !.intuit = t]
  BY DEF FilledGoal
<1>3. /\ s \in Context /\ DOMAIN s = DOMAIN g.spatial
      /\ \A n \in DOMAIN g.spatial : s[n].res = g.spatial[n].res /\ SameProp(g.spatial[n].prop, s[n].prop)
  BY <1>1, FilledCtx
<1>4. /\ t \in Context /\ DOMAIN t = DOMAIN g.intuit
      /\ \A n \in DOMAIN g.intuit : t[n].res = g.intuit[n].res /\ SameProp(g.intuit[n].prop, t[n].prop)
  BY <1>1, FilledCtx
<1> HIDE DEF s, t, h
<1>5. Parts(h, s, t, g.goal)
  BY <1>1, <1>2, <1>3, <1>4, Replaced, Zenon
<1>6. h \in Goal /\ h.spatial = s /\ h.intuit = t /\ h.goal = g.goal
  BY <1>1, <1>3, <1>4, <1>5 DEF Parts
<1>7. SameGoal(g, h) /\ SameHeld(g, h)
  BY <1>3, <1>4, <1>6 DEF SameGoal, SameContext, SameHeld
<1> QED BY <1>5, <1>6, <1>7 DEF s, t, h

\* iExists: an evar is instantiated in every goal, which the alignment does not see as a
\* change of the others.
LEMMA InstantiatesKeeps == ASSUME PropAssumption, LedgerInv, Instantiates PROVE SoundSentence
<1> DEFINE F == Final
           L == Len(F)
<1>1. PICK i \in Instance :
          /\ Final # <<>>
          /\ LET with(ctx) == [n \in DOMAIN ctx |-> [ctx[n] EXCEPT !.prop = IF @ = i[1] THEN i[2] ELSE @]]
                 filled(g) == [g EXCEPT !.spatial = with(@), !.intuit = with(@)]
             IN  Did("iExists", {}, [k \in DOMAIN Final |-> IF k = 1 THEN [filled(Focus) EXCEPT !.goal = @ + 1] ELSE filled(Final[k])], {})
  BY DEF Instantiates, Proving
<1> DEFINE h == FilledGoal(Focus, i)
           after == [h EXCEPT !.goal = h.goal + 1]
           tail == [k \in 1..(L - 1) |-> FilledGoal(F[k + 1], i)]
           next == [k \in DOMAIN F |-> IF k = 1 THEN after ELSE FilledGoal(F[k], i)]
<1>2. Did("iExists", {}, next, {})
  BY <1>1 DEF Filled, FilledGoal
<1>3. Final # <<>>
  BY <1>1
<1>4. F \in Seq(Goal) /\ L \in Nat /\ L >= 1 /\ F[1] = Focus /\ Focus \in Goal
  BY <1>3, FinalIs, FocusIs DEF LedgerInv
<1>5. /\ Focus.spatial \in Context /\ Focus.intuit \in Context /\ Focus.goal \in Nat
      /\ DOMAIN Focus.spatial \cap DOMAIN Focus.intuit = {}
  BY <1>3, FocusIs
<1> HIDE DEF after, F, h
<1>6. /\ h \in Goal /\ h.spatial = Filled(Focus.spatial, i) /\ h.intuit = Filled(Focus.intuit, i) /\ h.goal = Focus.goal
  BY <1>4, FilledIs DEF Parts, h
<1>7. Parts(after, h.spatial, h.intuit, h.goal + 1)
  <2>1. h.goal + 1 \in Nat /\ h.spatial \in Context
    BY <1>5, <1>6, FilledCtx
  <2> QED BY <1>6, <2>1, Replaced, Zenon DEF after
<1>8. Carries(Focus.spatial, h.spatial, DOMAIN Focus.spatial) /\ Carries(Focus.intuit, h.intuit, DOMAIN Focus.intuit)
  BY <1>5, <1>6, FilledCtx DEF Carries, Built
<1>9. after \in Goal /\ Fits(after)
  BY <1>3, <1>5, <1>7, <1>8, CarriedGrown
<1>10. Gives("iExists", {}, <<after>>, {})
  BY <1>3, <1>9, OneGives
<1>11. LeftAlone(tail)
  <2>1. \A k \in 1..(L - 1) : k + 1 \in 1..L /\ F[k + 1] \in Goal
    BY <1>4
  <2>2. \A k \in 1..(L - 1) : FilledGoal(F[k + 1], i) \in Goal /\ SameGoal(F[k + 1], FilledGoal(F[k + 1], i))
                              /\ SameHeld(F[k + 1], FilledGoal(F[k + 1], i))
    BY <2>1, FilledIs
  <2>3. tail \in Seq(Goal) /\ Len(tail) = L - 1 /\ \A k \in 1..(L - 1) : tail[k] = FilledGoal(F[k + 1], i)
    BY <1>4, <2>2
  <2> HIDE DEF tail
  <2> QED BY <1>4, <2>2, <2>3 DEF LeftAlone, F
<1>12. next = <<after>> \o tail
  <2>1. \A k \in 1..(L - 1) : k + 1 \in 1..L /\ F[k + 1] \in Goal
    BY <1>4
  <2>2. \A k \in 1..(L - 1) : FilledGoal(F[k + 1], i) \in Goal
    BY <2>1, FilledIs
  <2>3. \A k \in 1..L : k # 1 => FilledGoal(F[k], i) \in Goal
    BY <1>4, FilledIs
  <2>4. tail \in Seq(Goal) /\ Len(tail) = L - 1 /\ \A k \in 1..(L - 1) : tail[k] = FilledGoal(F[k + 1], i)
    BY <1>4, <2>2
  <2>5. next \in Seq(Goal) /\ Len(next) = L /\ \A k \in 1..L : next[k] = IF k = 1 THEN after ELSE FilledGoal(F[k], i)
    BY <1>4, <1>9, <2>3
  <2> DEFINE one == <<after>>
  <2>6. one \in Seq(Goal) /\ Len(one) = 1 /\ one[1] = after
    BY <1>9
  <2> HIDE DEF tail, next, one
  <2>7. /\ one \o tail \in Seq(Goal) /\ Len(one \o tail) = 1 + (L - 1)
        /\ \A k \in 1..(1 + (L - 1)) : (one \o tail)[k] = IF k <= 1 THEN one[k] ELSE tail[k - 1]
    <3>1. one \in Seq(Goal) /\ tail \in Seq(Goal)
      BY <2>4, <2>6
    <3>2. /\ one \o tail \in Seq(Goal) /\ Len(one \o tail) = Len(one) + Len(tail)
          /\ \A k \in 1..(Len(one) + Len(tail)) :
                 (one \o tail)[k] = IF k <= Len(one) THEN one[k] ELSE tail[k - Len(one)]
      BY <3>1, ConcatProperties
    <3>3. Len(one) = 1 /\ Len(tail) = L - 1
      BY <2>4, <2>6
    <3> QED BY <3>2, <3>3, Zenon
  <2>8. 1 + (L - 1) = L
    BY <1>4
  <2>9. ASSUME NEW k \in 1..L PROVE next[k] = (one \o tail)[k]
    <3>1. CASE k = 1
      BY <2>5, <2>6, <2>7, <2>8, <3>1
    <3>2. CASE k # 1
      <4>1. k - 1 \in 1..(L - 1) /\ (k - 1) + 1 = k /\ ~(k <= 1)
        BY <1>4, <3>2
      <4> QED BY <2>4, <2>5, <2>7, <2>8, <3>2, <4>1
    <3> QED BY <3>1, <3>2
  <2>10. next = one \o tail
    BY <2>5, <2>7, <2>8, <2>9, SeqEqual
  <2> QED BY <2>10 DEF one
<1> HIDE DEF next, tail
<1>13. Sound("iExists", {}, <<after>> \o tail, {})
  BY <1>3, <1>10, <1>11, Sentence
<1> QED BY <1>2, <1>12, <1>13 DEF SoundSentence

\* Two children that hold nothing in common, and what they leave of the spatial context.
Disjoint(g, h) == \A m, n, r : ~(Holds(g, m, r) /\ Holds(h, n, r))
Dealt(left, right) ==
    \A n \in DOMAIN Focus.spatial : \/ n \in DOMAIN left.spatial \/ n \in DOMAIN right.spatial
                                    \/ n \in Pair(Focus, left).consumed /\ n \in Pair(Focus, right).consumed

\* A sentence that made two such children keeps the invariant.
LEMMA TwoKeep ==
    ASSUME LedgerInv, Final # <<>>, NEW head, NEW named, NEW left, NEW right, Fits(left), Fits(right),
           Disjoint(left, right), Dealt(left, right),
           Did(head, named, Became(<<left, right>>), {})
    PROVE  SoundSentence
<1> DEFINE cs == <<left, right>>
           call == CallOf(head, named)
<1>1. cs \in Seq(Goal) /\ DOMAIN cs = {1, 2} /\ cs[1] = left /\ cs[2] = right /\ cs # <<>>
  BY DEF Fits
<1>2. Did(head, named, Became(cs), {})
  OBVIOUS
<1> HIDE DEF cs, call
<1>3. Says(head, named, cs) = ChildEvents(call, Focus, cs)
  BY <1>1, FocusIs DEF Says, call
<1>4. \A n : (\A i \in DOMAIN cs : n \in Pair(Focus, cs[i]).consumed) => Told(ChildEvents(call, Focus, cs), n)
  BY <1>1, ChildEventsTell
<1>5. \A n \in DOMAIN Focus.spatial : Told(Says(head, named, cs), n) \/ IsSpatial(cs, n)
  BY <1>1, <1>3, <1>4 DEF IsSpatial, Dealt
<1>6. \A j \in DOMAIN cs : Fits(cs[j])
  BY <1>1
<1>7. \A i, j \in DOMAIN cs : \A m, n, r : Holds(cs[i], m, r) /\ Holds(cs[j], n, r) => i = j
  BY <1>1 DEF Disjoint
<1>8. Gives(head, named, cs, {})
  BY <1>1, <1>5, <1>6, <1>7, FitsGives
<1> QED BY <1>2, <1>8, BecameKeeps

\* A copy of what a child of the focused goal would hold.
LEMMA Copying ==
    ASSUME LedgerInv, NEW a \in Context
    PROVE  /\ Copy(a) \in Context /\ DOMAIN Copy(a) = DOMAIN a
           /\ \A n \in DOMAIN a : Copy(a)[n].prop = a[n].prop /\ Copy(a)[n].res = CopyOf(a[n].res)
BY CopyCtx DEF LedgerInv, CopyOf

\* One new hypothesis.
LEMMA OneLabel ==
    ASSUME LedgerInv, NEW x \in Name, NEW p \in Prop
    PROVE  LET new == News([y \in {x} |-> p]) IN
           new \in Context /\ DOMAIN new = {x} /\ AllNew(new) /\ new[x].prop = p
<1> DEFINE ps == [y \in {x} |-> p]
<1>1. Labels(ps) /\ DOMAIN ps = {x} /\ ps[x] = p
  BY DEF Labels
<1> HIDE DEF ps
<1>2. News(ps) \in Context /\ DOMAIN News(ps) = DOMAIN ps /\ AllNew(News(ps)) /\ \A n \in DOMAIN ps : News(ps)[n].prop = ps[n]
  BY <1>1, NewsAre
<1>3. News(ps) \in Context /\ DOMAIN News(ps) = {x} /\ AllNew(News(ps)) /\ News(ps)[x].prop = p
  BY <1>1, <1>2
<1> QED BY <1>3 DEF ps

\* What a piece in the place of a spatial hypothesis says of it, if it has another name
\* and another proposition.
LEMMA PieceConsumes ==
    ASSUME NEW parent, NEW after, NEW n \in DOMAIN parent.spatial \ DOMAIN after.spatial, NEW x, NEW ns,
           DOMAIN after.spatial = ns \cup {x}, ns \subseteq DOMAIN parent.spatial,
           after.spatial[x].prop # parent.spatial[n].prop, DOMAIN after.intuit = DOMAIN parent.intuit
    PROVE  n \in Pair(parent, after).consumed
<1>1. n \in DiffContext(parent.spatial, after.spatial).consumed
  <2>1. \A m \in DOMAIN after.spatial \ DOMAIN parent.spatial : after.spatial[m].prop # parent.spatial[n].prop
    OBVIOUS
  <2> QED BY <2>1, Diff
<1>2. \A m : m \notin DiffContext(parent.intuit, after.intuit).produced
  BY Diff
<1>3. \A m : <<m, n>> \notin Pair(parent, after).persisted
  BY <1>2, PairDiff
<1> QED BY <1>1, <1>3, PairDiff

\* iDestruct by cases: a piece in each of two goals, everything else in both.
LEMMA CasesKeeps == ASSUME LedgerInv, Cases PROVE SoundSentence
<1> DEFINE S == Focus.spatial
           I == Focus.intuit
<1>0. PICK n \in DOMAIN Focus.spatial :
         \E a, b \in Fresh \cup {n}, p, q \in Prop \ {PropOf(n)} :
            LET rest == Without(Focus.spatial, {n})
                left == [Focus EXCEPT !.spatial = With(rest, News([x \in {a} |-> p]))]
                right == [Focus EXCEPT !.spatial = Copy(With(rest, News([x \in {b} |-> q]))), !.intuit = Copy(@)]
            IN  Did("iDestruct", {n}, Became(<<left, right>>), {})
  BY DEF Cases
<1>1. PICK a \in Fresh \cup {n}, b \in Fresh \cup {n}, p \in Prop \ {PropOf(n)}, q \in Prop \ {PropOf(n)} :
         LET rest == Without(Focus.spatial, {n})
             left == [Focus EXCEPT !.spatial = With(rest, News([x \in {a} |-> p]))]
             right == [Focus EXCEPT !.spatial = Copy(With(rest, News([x \in {b} |-> q]))), !.intuit = Copy(@)]
         IN  Did("iDestruct", {n}, Became(<<left, right>>), {})
  BY <1>0
<1> DEFINE rest == Without(S, {n})
           newA == News([x \in {a} |-> p])
           newB == News([x \in {b} |-> q])
           s == With(rest, newA)
           t == With(rest, newB)
           ct == Copy(t)
           ci == Copy(I)
           left == [Focus EXCEPT !.spatial = s]
           base == [Focus EXCEPT !.spatial = t]
           right == [Focus EXCEPT !.spatial = ct, !.intuit = ci]
<1>2. Did("iDestruct", {n}, Became(<<left, right>>), {})
  BY <1>1
<1>3. /\ Final # <<>> /\ n \in DOMAIN S /\ a \in Fresh \cup {n} /\ b \in Fresh \cup {n}
      /\ p \in Prop \ {PropOf(n)} /\ q \in Prop \ {PropOf(n)}
  BY DEF Cases, Proving
<1>4. /\ Focus \in Goal /\ S \in Context /\ I \in Context /\ Focus.goal \in Nat
      /\ DOMAIN S \cap DOMAIN I = {} /\ PartOf(I, I) /\ Names(Focus) \subseteq Name
  BY <1>3, FocusIs, PartsFit
<1> HIDE DEF left, base, right, newA, newB
<1>5. /\ a \in Name /\ b \in Name /\ a \notin DOMAIN I /\ b \notin DOMAIN I
      /\ p \in Prop /\ q \in Prop /\ p # S[n].prop /\ q # S[n].prop
  <2>1. PropOf(n) = S[n].prop
    BY <1>3, PropOfSpatial
  <2> QED BY <1>3, <1>4, <2>1 DEF Fresh, Names
<1>6. /\ newA \in Context /\ DOMAIN newA = {a} /\ AllNew(newA) /\ newA[a].prop = p
      /\ newB \in Context /\ DOMAIN newB = {b} /\ AllNew(newB) /\ newB[b].prop = q
  BY <1>5, OneLabel DEF newA, newB
<1> HIDE DEF S, I
<1>7. rest \in Context /\ DOMAIN rest = DOMAIN S \ {n} /\ PartOf(rest, S)
  BY <1>4, WithoutCtx, Parting
<1> HIDE DEF rest
<1>8. /\ s \in Context /\ DOMAIN s = (DOMAIN S \ {n}) \cup {a} /\ s[a].prop = p
      /\ t \in Context /\ DOMAIN t = (DOMAIN S \ {n}) \cup {b} /\ t[b].prop = q
  <2>1. \A new \in Context : /\ With(rest, new) \in Context /\ DOMAIN With(rest, new) = DOMAIN rest \cup DOMAIN new
                             /\ \A m \in DOMAIN new : With(rest, new)[m] = new[m]
    BY <1>7, WithCtx
  <2>2. /\ s \in Context /\ DOMAIN s = DOMAIN rest \cup DOMAIN newA /\ s[a] = newA[a]
        /\ t \in Context /\ DOMAIN t = DOMAIN rest \cup DOMAIN newB /\ t[b] = newB[b]
    BY <1>6, <2>1
  <2> HIDE DEF s, t
  <2> QED BY <1>6, <1>7, <2>2
<1>9. /\ Carries(S, s, DOMAIN s) /\ Carries(S, t, DOMAIN t) /\ Carries(I, I, DOMAIN I)
  <2>1. Carries(S, s, DOMAIN rest \cup DOMAIN newA) /\ Carries(S, t, DOMAIN rest \cup DOMAIN newB)
    BY <1>6, <1>7, Pieces
  <2>2. Carries(I, I, DOMAIN I)
    BY <1>4, CarriesPart
  <2> HIDE DEF s, t
  <2> QED BY <2>1, <2>2 DEF Carries
<1> HIDE DEF s, t
<1>10. /\ ct \in Context /\ DOMAIN ct = DOMAIN t
       /\ \A m \in DOMAIN t : ct[m].prop = t[m].prop /\ ct[m].res = CopyOf(t[m].res)
       /\ ci \in Context /\ DOMAIN ci = DOMAIN I /\ \A m \in DOMAIN I : ci[m].res = CopyOf(I[m].res)
  BY <1>4, <1>8, Copying
<1> HIDE DEF ct, ci
<1>11. /\ Parts(left, s, I, Focus.goal) /\ Parts(base, t, I, Focus.goal) /\ Parts(right, ct, ci, Focus.goal)
  BY <1>4, <1>8, <1>10, Replaced, Zenon DEF left, base, right, I
<1>12. DOMAIN s \cap DOMAIN I = {} /\ DOMAIN t \cap DOMAIN I = {}
  BY <1>4, <1>5, <1>8
<1>13. Fits(left) /\ Grown(left) /\ Grown(base)
  BY <1>3, <1>9, <1>11, <1>12, CarriedGrown DEF S, I
<1>14. /\ left.spatial = s /\ left.intuit = I /\ base.spatial = t /\ base.intuit = I
       /\ right.spatial = ct /\ right.intuit = ci /\ right \in Goal
  BY <1>10, <1>11, <1>12 DEF Parts
<1>15. Fits(right)
  BY <1>3, <1>10, <1>13, <1>14, CopiedFits
<1>16. ASSUME NEW m, NEW k, NEW r, Holds(left, m, r), Holds(right, k, r) PROVE FALSE
  <2>1. PICK o : Holds(base, k, o) /\ r = CopyOf(o)
    BY <1>10, <1>14, <1>16 DEF Holds
  <2>2. o \in Res(Len(steps))
    BY <1>3, <1>13, <2>1, GrownIs
  <2>3. m \in Name /\ (r \in Old \/ r = Made(m))
    BY <1>3, <1>13, <1>16, GrownIs
  <2> QED BY <2>1, <2>2, <2>3, SentenceNumber
<1>17. ASSUME NEW k \in DOMAIN Focus.spatial
       PROVE  \/ k \in DOMAIN left.spatial \/ k \in DOMAIN right.spatial
              \/ k \in Pair(Focus, left).consumed /\ k \in Pair(Focus, right).consumed
  <2>1. CASE k # n
    BY <1>8, <1>14, <2>1 DEF S
  <2>2. CASE k = n /\ (a = n \/ b = n)
    BY <1>8, <1>10, <1>14, <2>2
  <2>3. CASE k = n /\ a # n /\ b # n
    <3>1. n \in Pair(Focus, left).consumed
      BY <1>3, <1>5, <1>8, <1>14, <2>3, PieceConsumes DEF S, I
    <3>2. n \in Pair(Focus, right).consumed
      <4>1. /\ n \in DOMAIN Focus.spatial \ DOMAIN right.spatial
            /\ DOMAIN right.spatial = (DOMAIN S \ {n}) \cup {b} /\ DOMAIN S \ {n} \subseteq DOMAIN Focus.spatial
            /\ right.spatial[b].prop # Focus.spatial[n].prop /\ DOMAIN right.intuit = DOMAIN Focus.intuit
        BY <1>3, <1>5, <1>8, <1>10, <1>14, <2>3 DEF S, I
      <4> QED BY <4>1, PieceConsumes
    <3> QED BY <2>3, <3>1, <3>2
  <2> QED BY <2>1, <2>2, <2>3
<1>18. Disjoint(left, right)
  BY <1>16 DEF Disjoint
<1>19. Dealt(left, right)
  BY <1>17 DEF Dealt
<1> QED BY <1>2, <1>3, <1>13, <1>15, <1>18, <1>19, TwoKeep

\* iSplitL: the spatial hypotheses are dealt out, and both goals get the lasting ones.
LEMMA SplitsKeeps == ASSUME LedgerInv, Splits PROVE SoundSentence
<1> DEFINE S == Focus.spatial
           I == Focus.intuit
<1>1. PICK ns \in SUBSET DOMAIN Focus.spatial :
          /\ Final # <<>>
          /\ Did("iSplitL", ns, Became(<<[Focus EXCEPT !.spatial = Only(@, ns), !.goal = @ + 1],
                                         [Focus EXCEPT !.spatial = Without(@, ns), !.intuit = Copy(@), !.goal = @ + 1]>>), {})
  BY DEF Splits, Proving
<1> DEFINE s == Only(S, ns)
           t == Without(S, ns)
           ci == Copy(I)
           left == [Focus EXCEPT !.spatial = s, !.goal = Focus.goal + 1]
           base == [Focus EXCEPT !.spatial = t]
           right == [Focus EXCEPT !.spatial = t, !.intuit = ci, !.goal = Focus.goal + 1]
<1>2. Did("iSplitL", ns, Became(<<left, right>>), {})
  BY <1>1
<1>3. Final # <<>>
  BY <1>1, Zenon
<1>4. /\ Focus \in Goal /\ S \in Context /\ I \in Context /\ Focus.goal \in Nat /\ Focus.goal + 1 \in Nat
      /\ DOMAIN S \cap DOMAIN I = {} /\ PartOf(I, I)
  BY <1>3, FocusIs, PartsFit
<1> HIDE DEF left, base, right, S, I
<1>5. /\ s \in Context /\ DOMAIN s = DOMAIN S \cap ns /\ PartOf(s, S)
      /\ t \in Context /\ DOMAIN t = DOMAIN S \ ns /\ PartOf(t, S)
  BY <1>4, OnlyCtx, WithoutCtx, Parting
<1> HIDE DEF s, t
<1>6. ci \in Context /\ DOMAIN ci = DOMAIN I /\ \A m \in DOMAIN I : ci[m].res = CopyOf(I[m].res)
  BY <1>4, Copying
<1> HIDE DEF ci
<1>7. Carries(S, s, DOMAIN s) /\ Carries(S, t, DOMAIN t) /\ Carries(I, I, DOMAIN I)
  BY <1>4, <1>5, CarriesPart
<1>8. Parts(left, s, I, Focus.goal + 1) /\ Parts(base, t, I, Focus.goal) /\ Parts(right, t, ci, Focus.goal + 1)
  BY <1>4, <1>5, <1>6, Replaced, Zenon DEF left, base, right, I
<1>9. DOMAIN s \cap DOMAIN I = {} /\ DOMAIN t \cap DOMAIN I = {}
  BY <1>4, <1>5
<1>10. Fits(left) /\ Grown(base)
  BY <1>3, <1>7, <1>8, <1>9, CarriedGrown DEF S, I
<1>11. /\ left.spatial = s /\ left.intuit = I /\ base.spatial = t /\ base.intuit = I
       /\ right.spatial = t /\ right.intuit = ci /\ right \in Goal
  BY <1>6, <1>8, <1>9 DEF Parts
<1>12. Fits(right)
  BY <1>3, <1>6, <1>10, <1>11, CopiedFits
<1>13. \A m, r : Holds(left, m, r) => Holds(Focus, m, r) /\ (m \in ns \/ m \in DOMAIN I)
  BY <1>5, <1>11 DEF Holds, PartOf, S, I
<1>14. ASSUME NEW m, NEW r, Holds(right, m, r)
       PROVE  \/ Holds(Focus, m, r) /\ m \in DOMAIN S \ ns
              \/ \E o \in Old : r = CopyOf(o)
  <2>1. \A k \in DOMAIN I : I[k].res \in Old
    BY <1>3, FocusIs DEF Holds, I
  <2> QED BY <1>5, <1>6, <1>11, <1>14, <2>1 DEF Holds, PartOf, S
<1>15. ASSUME NEW m, NEW k, NEW r, Holds(left, m, r), Holds(right, k, r) PROVE FALSE
  <2>1. Holds(Focus, m, r) /\ r \in Old /\ (m \in ns \/ m \in DOMAIN I)
    BY <1>3, <1>13, <1>15, FocusIs
  <2>2. Holds(Focus, k, r) /\ k \in DOMAIN S \ ns
    BY <1>14, <1>15, <2>1, SentenceNumber
  <2>3. k = m
    BY <1>3, <2>1, <2>2, FocusIs
  <2> QED BY <1>4, <2>1, <2>2, <2>3
<1>16. \A k \in DOMAIN Focus.spatial : k \in DOMAIN left.spatial \/ k \in DOMAIN right.spatial
  BY <1>5, <1>11 DEF S
<1>17. Disjoint(left, right)
  BY <1>15 DEF Disjoint
<1>18. Dealt(left, right)
  BY <1>16 DEF Dealt
<1> QED BY <1>2, <1>3, <1>10, <1>12, <1>17, <1>18, TwoKeep

-----------------------------------------------------------------------------
(* The theorems *)

\* The proof begins with nothing held, nothing told and nothing spent.
LEMMA LedgerInitHolds == ASSUME LedgerInit PROVE LedgerInv
<1> DEFINE g == [spatial |-> Empty, intuit |-> Empty, goal |-> 0]
<1>1. g \in Goal /\ g.spatial = Empty /\ g.intuit = Empty
  BY Contexts DEF Goal
<1>2. /\ steps = <<<<g>>>> /\ events = {} /\ spent = {}
  BY DEF LedgerInit
<1> HIDE DEF g
<1>3. /\ steps \in Seq(Seq(Goal)) /\ steps # <<>> /\ Len(steps) = 1 /\ DOMAIN steps = {1}
      /\ steps[1] = <<g>> /\ DOMAIN <<g>> = {1} /\ <<g>>[1] = g
  BY <1>1, <1>2
<1>4. Names(g) = {} /\ \A n, r : ~Holds(g, n, r)
  BY <1>1, Contexts DEF Names, Holds
<1>5. HeldIn(steps[1]) = {}
  BY <1>3, <1>4, HeldBy
<1>6. Known
  BY <1>2, <1>3, <1>5 DEF Known
<1>7. Unique(Final)
  BY <1>3, <1>4 DEF Final, Unique
<1>8. SpatialUnspent /\ Numbered
  BY <1>2 DEF SpatialUnspent, Numbered
<1>9. Accounted
  BY <1>3, <1>4 DEF Accounted
<1>10. ConsumptionIsReal
  BY <1>3 DEF ConsumptionIsReal
<1> QED BY <1>3, <1>6, <1>7, <1>8, <1>9, <1>10 DEF LedgerInv, StepsOK

\* Every sentence is sound.
LEMMA SentencesAreSound ==
    ASSUME NameAssumption, PropAssumption, LedgerInv, LedgerNext PROVE SoundSentence
BY IntrosKeeps, RenamesKeeps, DestructsKeeps, CasesKeeps, SpendsKeeps, UsesLastingKeeps, MakesLastingKeeps, ClearKeeps,
   SplitsKeeps, ClosesKeeps, ClosesAllKeeps, CyclesKeeps, InstantiatesKeeps DEF LedgerNext

\* In every proof the ledger can follow: no resource is held twice, no spatial hypothesis has
\* been used against a goal, and what a name stood for is spent, or held under another name, only
\* once the ledger has said that the name was used or that it lost track of it.
THEOREM LedgerInvariant == LedgerSpec => []LedgerInv
<1>1. LedgerInit => LedgerInv
  BY LedgerInitHolds
<1>2. LedgerInv /\ [LedgerNext]_ledgerVars => LedgerInv'
  <2> SUFFICES ASSUME LedgerInv, [LedgerNext]_ledgerVars PROVE LedgerInv'
    OBVIOUS
  <2>1. CASE LedgerNext
    <3>1. SoundSentence
      BY <2>1, NameAssumption, PropAssumption, SentencesAreSound
    <3> QED BY <3>1, SoundKeeps DEF SoundSentence
  <2>2. CASE UNCHANGED ledgerVars
    BY <2>2 DEF ledgerVars, LedgerInv, StepsOK, Numbered, Known, Final, SpatialUnspent, Accounted, IsSpatial,
                ConsumptionIsReal
  <2> QED BY <2>1, <2>2
<1> QED BY <1>1, <1>2, PTL DEF LedgerSpec

\* What the ledger says for certain a sentence took from the spatial context is in none of the
\* goals the sentence made, under any name (diff.py, PLAN 4.4).
THEOREM ConsumptionTheorem == LedgerSpec => []ConsumptionIsReal
<1>1. LedgerInv => ConsumptionIsReal
  BY DEF LedgerInv
<1> QED BY <1>1, LedgerInvariant, PTL

\* What a name meant in a step, a goal of that step held under that name.
LEMMA MeantIs ==
    ASSUME NEW n, NEW k \in DOMAIN steps, NEW r \in MeantAt(n, k)
    PROVE  \E i \in DOMAIN steps[k] : Holds(steps[k][i], n, r)
<1>1. PICK i \in DOMAIN steps[k] : r \in Resources(Only(With(steps[k][i].spatial, steps[k][i].intuit), {n}))
  BY DEF MeantAt
<1> DEFINE s == steps[k][i].spatial
           t == steps[k][i].intuit
<1>2. n \in DOMAIN With(s, t) /\ With(s, t)[n].res = r
  BY <1>1 DEF Resources, Only
<1>3. Holds(steps[k][i], n, r)
  BY <1>2 DEF With, Holds
<1> QED BY <1>3

\* Nothing reported as never used at Qed has been used, unless the matcher said of the name that
\* it lost track of it (query.py, unused_at_qed).
THEOREM UnusedTheorem == LedgerSpec => []UnusedIsUnused
<1>1. LedgerInv => UnusedIsUnused
  <2> SUFFICES ASSUME LedgerInv, Final = <<>>, NEW n \in UnusedAtQed,
                      \A e \in events : e.kind = "Unknown" => e.hyp # n,
                      NEW r \in Meant(n), r \in spent
               PROVE  FALSE
    BY DEF UnusedIsUnused
  <2>1. ~Told(events, n)
    BY DEF UnusedAtQed, Told, UseKinds
  <2>2. PICK k \in DOMAIN steps : r \in MeantAt(n, k)
    BY DEF Meant
  <2>3. PICK i \in DOMAIN steps[k] : Holds(steps[k][i], n, r)
    BY <2>2, MeantIs
  <2>4. IsSpatial(Final, n)
    BY <2>1, <2>3, AccountedIs DEF LedgerInv
  <2> QED BY <2>4 DEF IsSpatial
<1> QED BY <1>1, LedgerInvariant, PTL
-----------------------------------------------------------------------------
(* What became of a name *)

\* A spatial name does not go without an event about it.
Traced ==
    \A k \in 1..(Len(steps) - 1) : \A i \in DOMAIN steps[k] : \A n \in DOMAIN steps[k][i].spatial :
        IsSpatial(steps[k + 1], n) \/ \E e \in events : e.at[1] = k /\ n \in {e.hyp} \cup e.sources

\* What an event says is gone no goal has held since.
GoneForGood ==
    \A e \in events : Loses(e) =>
        /\ e.sources = {e.hyp}
        /\ \E r : /\ \E i \in DOMAIN steps[e.at[1]] : Holds(steps[e.at[1]][i], e.hyp, r)
                  /\ \A k \in (e.at[1] + 1)..Len(steps) : r \notin HeldIn(steps[k])

\* What an event says was used and stays was lasting.
UsesAreOfLasting ==
    \A e \in events : Uses(e) =>
        e.sources = {e.hyp} /\ \E i \in DOMAIN steps[e.at[1]] : e.hyp \in DOMAIN steps[e.at[1]][i].intuit

History == Traced /\ GoneForGood /\ UsesAreOfLasting
FateInv == LedgerInv /\ History

\* A sound sentence adds to the history what became of the names before it.
LEMMA HistoryGrows ==
    ASSUME FateInv, NEW head, NEW named, NEW next, NEW used,
           Sound(head, named, next, used), Did(head, named, next, used)
    PROVE  History'
<1> DEFINE evs == StepEvents(CallOf(head, named), Final, next)
           L == Len(steps)
<1>1. /\ LedgerInv /\ History
      /\ L \in Nat /\ L >= 1 /\ L \in DOMAIN steps /\ L - 1 \in Nat /\ (L - 1) + 1 = L /\ L = Len(steps)
      /\ next \in Seq(Goal) /\ steps \in Seq(Seq(Goal)) /\ Final = steps[L]
  BY FinalIs DEF FateInv, LedgerInv, StepsOK, Sound, Final
<1>2. steps' = Append(steps, next) /\ events' = events \cup evs
  BY DEF Did, CallOf
<1>3. /\ Len(steps') = L + 1 /\ steps'[L + 1] = next /\ DOMAIN steps = 1..L
      /\ \A k \in 1..L : steps'[k] = steps[k]
  BY <1>1, <1>2
<1>4. \A e \in evs : e.at[1] = L
  BY DEF Sound
<1> HIDE DEF evs, L
<1>5. \A e \in events : e.at[1] \in 1..(L - 1)
  BY <1>1 DEF LedgerInv, Numbered
<1>6. Traced'
  <2>1. ASSUME NEW k \in 1..((L + 1) - 1), NEW i \in DOMAIN steps'[k], NEW n \in DOMAIN steps'[k][i].spatial
        PROVE  IsSpatial(steps'[k + 1], n) \/ \E e \in events' : e.at[1] = k /\ n \in {e.hyp} \cup e.sources
    <3>1. CASE k = L
      <4>1. Told(evs, n) \/ IsSpatial(next, n)
        BY <1>1, <1>3, <2>1, <3>1 DEF Sound, Vanishes, evs
      <4>2. Told(evs, n) => \E e \in evs : n \in {e.hyp} \cup e.sources
        BY DEF Told
      <4> QED BY <1>1, <1>2, <1>3, <1>4, <3>1, <4>1, <4>2
    <3>2. CASE k # L
      <4>1. k \in 1..(L - 1) /\ k \in 1..L /\ k + 1 \in 1..L
        <5>1. L \in Nat /\ L >= 1 /\ k \in 1..((L + 1) - 1)
          BY <1>1
        <5> QED BY <3>2, <5>1
      <4>2. IsSpatial(steps[k + 1], n) \/ \E e \in events : e.at[1] = k /\ n \in {e.hyp} \cup e.sources
        BY <1>1, <1>3, <2>1, <4>1 DEF History, Traced
      <4> QED BY <1>2, <1>3, <4>1, <4>2
    <3> QED BY <3>1, <3>2
  <2> QED BY <1>3, <2>1 DEF Traced
<1>7. ASSUME NEW r \in Old, r \notin HeldIn(Final) PROVE r \notin HeldIn(next)
  <2>1. ASSUME NEW j \in DOMAIN next, NEW n, Holds(next[j], n, r) PROVE FALSE
    <3>1. Origins(Final, next[j], used, evs)
      BY DEF Sound, evs
    <3>2. \E h \in DOMAIN Final : \E q : Holds(Final[h], q, r)
      <4>1. CASE n \in DOMAIN next[j].spatial /\ next[j].spatial[n].res = r
        BY <1>7, <3>1, <4>1 DEF Origins, Holds
      <4>2. CASE n \in DOMAIN next[j].intuit /\ next[j].intuit[n].res = r
        BY <1>7, <3>1, <4>2 DEF Origins, Holds
      <4> QED BY <2>1, <4>1, <4>2 DEF Holds
    <3> QED BY <1>7, <3>2, HeldBy
  <2> QED BY <2>1, HeldBy
<1>8. Honest(Final, next, evs)
  BY DEF Sound, evs
<1>9. 1 \in DOMAIN Final
  BY <1>1, <1>8, FinalIs DEF Honest, LedgerInv
<1>10. GoneForGood'
  <2>1. ASSUME NEW e \in events \cup evs, Loses(e)
        PROVE  /\ e.sources = {e.hyp}
               /\ \E r : /\ \E i \in DOMAIN steps'[e.at[1]] : Holds(steps'[e.at[1]][i], e.hyp, r)
                         /\ \A k \in (e.at[1] + 1)..(L + 1) : r \notin HeldIn(steps'[k])
    <3>1. CASE e \in evs
      <4>1. PICK r : Holds(Final[1], e.hyp, r) /\ r \notin HeldIn(next)
        BY <1>8, <2>1, <3>1 DEF Honest
      <4>2. e.sources = {e.hyp}
        BY <1>8, <2>1, <3>1 DEF Honest
      <4>3. e.at[1] = L /\ steps'[L] = Final
        BY <1>1, <1>3, <1>4, <3>1
      <4>4. \A k \in (L + 1)..(L + 1) : r \notin HeldIn(steps'[k])
        BY <1>1, <1>3, <4>1
      <4> QED BY <1>9, <4>1, <4>2, <4>3, <4>4
    <3>2. CASE e \in events
      <4> DEFINE a == e.at[1]
      <4>1. PICK r : /\ \E i \in DOMAIN steps[a] : Holds(steps[a][i], e.hyp, r)
                     /\ \A k \in (a + 1)..L : r \notin HeldIn(steps[k])
        BY <1>1, <2>1, <3>2 DEF History, GoneForGood
      <4>2. e.sources = {e.hyp}
        BY <1>1, <2>1, <3>2 DEF History, GoneForGood
      <4>3. a \in 1..(L - 1)
        BY <1>5, <3>2
      <4> HIDE DEF a
      <4>4. a \in 1..L /\ L \in (a + 1)..L /\ steps'[a] = steps[a]
        BY <1>1, <1>3, <4>3
      <4>5. r \in Old
        <5>1. r \in HeldIn(steps[a])
          BY <4>1, HeldBy
        <5> QED BY <1>1, <1>3, <4>4, <5>1 DEF LedgerInv, Known, Old
      <4>6. r \notin HeldIn(next)
        BY <1>1, <1>7, <4>1, <4>4, <4>5
      <4>7. ASSUME NEW k \in (a + 1)..(L + 1) PROVE r \notin HeldIn(steps'[k])
        <5>1. CASE k = L + 1
          <6>1. steps'[k] = next
            BY <1>3, <5>1
          <6> QED BY <4>6, <6>1
        <5>2. CASE k # L + 1
          <6>1. L \in Nat /\ a \in 1..(L - 1) /\ k \in (a + 1)..(L + 1)
            BY <1>1, <4>3, <4>7
          <6>2. k \in (a + 1)..L /\ k \in 1..L
            BY <5>2, <6>1
          <6>3. steps'[k] = steps[k] /\ r \notin HeldIn(steps[k])
            BY <1>3, <4>1, <6>2
          <6> QED BY <6>3
        <5> QED BY <5>1, <5>2
      <4> QED BY <4>1, <4>2, <4>4, <4>7 DEF a
    <3> QED BY <2>1, <3>1, <3>2
  <2> QED BY <1>2, <1>3, <2>1 DEF GoneForGood
<1>11. UsesAreOfLasting'
  <2>1. ASSUME NEW e \in events \cup evs, Uses(e)
        PROVE  e.sources = {e.hyp} /\ \E i \in DOMAIN steps'[e.at[1]] : e.hyp \in DOMAIN steps'[e.at[1]][i].intuit
    <3>1. CASE e \in evs
      <4>1. e.sources = {e.hyp} /\ e.hyp \in DOMAIN Final[1].intuit
        BY <1>8, <2>1, <3>1 DEF Honest
      <4>2. steps'[e.at[1]] = Final
        BY <1>1, <1>3, <1>4, <3>1
      <4> QED BY <1>9, <4>1, <4>2
    <3>2. CASE e \in events
      <4>1. e.sources = {e.hyp} /\ \E i \in DOMAIN steps[e.at[1]] : e.hyp \in DOMAIN steps[e.at[1]][i].intuit
        BY <1>1, <2>1, <3>2 DEF History, UsesAreOfLasting
      <4>2. steps'[e.at[1]] = steps[e.at[1]]
        <5>1. e.at[1] \in 1..L
          BY <1>1, <1>5, <3>2
        <5> QED BY <1>3, <5>1
      <4> QED BY <4>1, <4>2
    <3> QED BY <2>1, <3>1, <3>2
  <2> QED BY <1>2, <2>1 DEF UsesAreOfLasting
<1> QED BY <1>6, <1>10, <1>11 DEF History

\* A set of numbers up to a bound has a greatest one.
LEMMA LastOf ==
    ASSUME NEW b \in Nat, NEW S \in SUBSET (0..b), S # {}
    PROVE  \E m \in S : \A k \in S : k <= m
BY Greatest

\* What a goal holds under a name, the name means.
LEMMA MeansIt ==
    ASSUME StepsOK, NEW k \in DOMAIN steps, NEW n, NEW r
    PROVE  r \in MeantAt(n, k) <=> \E i \in DOMAIN steps[k] : Holds(steps[k][i], n, r)
<1>1. ASSUME NEW i \in DOMAIN steps[k], Holds(steps[k][i], n, r) PROVE r \in MeantAt(n, k)
  <2> DEFINE s == steps[k][i].spatial
             t == steps[k][i].intuit
  <2>1. DOMAIN s \cap DOMAIN t = {}
    <3>1. steps[k] \in Seq(Goal)
      BY FinalIs
    <3>2. steps[k][i] \in Goal
      BY <1>1, <3>1
    <3> QED BY <3>2 DEF Goal
  <2>2. n \in DOMAIN With(s, t) /\ With(s, t)[n].res = r
    BY <1>1, <2>1 DEF Holds, With
  <2>3. r \in Resources(Only(With(s, t), {n}))
    BY <2>2 DEF Resources, Only
  <2> QED BY <2>3 DEF MeantAt
<1> QED BY <1>1, MeantIs

\* A name that no goal has, and that was spatial after some sentence, has an event about it at
\* that sentence or later: the one that took it away (query.py, _last_seen would be reached otherwise).
LEMMA WentWithATrace ==
    ASSUME FateInv, NEW n, NEW l \in DOMAIN steps, IsSpatial(steps[l], n), ~IsSpatial(Final, n)
    PROVE  \E e \in events : e.at[1] >= l /\ n \in {e.hyp} \cup e.sources
<1> DEFINE L == Len(steps)
           S == {k \in 0..L : k \in DOMAIN steps /\ IsSpatial(steps[k], n)}
<1>1. L \in Nat /\ L >= 1 /\ DOMAIN steps = 1..L /\ Final = steps[L] /\ L = Len(steps)
  BY FinalIs DEF FateInv, LedgerInv, StepsOK, Final
<1> HIDE DEF L
<1>2. l \in S /\ S \in SUBSET (0..L)
  BY <1>1
<1>3. PICK m \in S : \A k \in S : k <= m
  BY <1>1, <1>2, LastOf
<1>4. m \in 1..(L - 1) /\ m + 1 \in 1..L /\ m >= l /\ IsSpatial(steps[m], n)
  <2>1. m \in 1..L /\ IsSpatial(steps[m], n)
    BY <1>1, <1>3
  <2>2. m # L
    BY <1>1, <2>1
  <2>3. m >= l
    <3>1. l <= m
      BY <1>2, <1>3
    <3>2. l \in Nat /\ m \in Nat
      BY <1>1, <2>1
    <3> QED BY <3>1, <3>2
  <2>4. L \in Nat /\ L >= 1
    BY <1>1
  <2>5. m \in 1..(L - 1) /\ m + 1 \in 1..L
    <3>1. m \in 1..L
      BY <2>1
    <3> HIDE DEF S
    <3> QED BY <2>2, <2>4, <3>1
  <2> QED BY <2>1, <2>3, <2>5
<1>5. ~IsSpatial(steps[m + 1], n)
  <2>1. m + 1 \notin S
    BY <1>3, <1>4
  <2> QED BY <1>1, <1>4, <2>1
<1>6. \E e \in events : e.at[1] = m /\ n \in {e.hyp} \cup e.sources
  BY <1>1, <1>4, <1>5 DEF FateInv, History, Traced, IsSpatial
<1> QED BY <1>4, <1>6

\* At the start there is no history.
LEMMA HistoryHolds == ASSUME LedgerInit PROVE History
<1>1. events = {} /\ Len(steps) = 1
  BY DEF LedgerInit
<1>2. 1..(Len(steps) - 1) = {}
  BY <1>1
<1> QED BY <1>1, <1>2 DEF History, Traced, GoneForGood, UsesAreOfLasting

\* In every proof the ledger can follow, no spatial name goes without an event about it, what an
\* event says is gone no goal has held since, and what it says was used and stays was lasting.
THEOREM FateInvariant == LedgerSpec => []FateInv
<1>1. LedgerInit => FateInv
  BY LedgerInitHolds, HistoryHolds DEF FateInv
<1>2. FateInv /\ [LedgerNext]_ledgerVars => FateInv'
  <2> SUFFICES ASSUME FateInv, [LedgerNext]_ledgerVars PROVE FateInv'
    OBVIOUS
  <2>1. LedgerInv
    BY DEF FateInv
  <2>2. CASE LedgerNext
    <3>1. PICK head, named, next, used : Sound(head, named, next, used) /\ Did(head, named, next, used)
      BY <2>1, <2>2, NameAssumption, PropAssumption, SentencesAreSound DEF SoundSentence
    <3> QED BY <2>1, <3>1, SoundKeeps, HistoryGrows DEF FateInv
  <2>3. CASE UNCHANGED ledgerVars
    <3>1. LedgerInv'
      BY <2>1, <2>3 DEF ledgerVars, LedgerInv, StepsOK, Numbered, Known, Final, SpatialUnspent, Accounted, IsSpatial,
                        ConsumptionIsReal
    <3>2. History'
      <4>1. History
        BY DEF FateInv
      <4>2. steps' = steps /\ events' = events
        BY <2>3 DEF ledgerVars
      <4>3. Traced'
        BY <4>1, <4>2 DEF History, Traced, IsSpatial
      <4>4. GoneForGood'
        BY <4>1, <4>2 DEF History, GoneForGood
      <4>5. UsesAreOfLasting'
        BY <4>1, <4>2 DEF History, UsesAreOfLasting
      <4> QED BY <4>3, <4>4, <4>5 DEF History
    <3> QED BY <3>1, <3>2 DEF FateInv
  <2> QED BY <2>2, <2>3
<1> QED BY <1>1, <1>2, PTL DEF LedgerSpec

\* What the query says is gone: no family name is in a goal, nothing it knows of the family is
\* uncertain, and an event of the last ones took the family away, or no lasting home is left.
LEMMA GoneMeans ==
    ASSUME NEW n, LET up == Len(steps) IN Fate(n, up) \in {"consumed", "framed"}, Numbered
    PROVE  LET family == Aliases(events, n)
               mine == About(events, family)
               last == Latest(mine)
           IN  /\ ~FindLive(Final, family)
               /\ \A e \in mine : e.certain
               /\ (\E e \in last : Lost(e)) \/ ~HadHome(family, Len(steps))
               /\ \E e \in last : e.kind \in {"Consume", "Frame"}
<1> DEFINE up == Len(steps)
           log == {e \in events : e.at[1] < up}
<1>1. log = events
  BY DEF Numbered
<1> DEFINE family == Aliases(log, n)
           mine == About(log, family)
           last == Latest(mine)
           lastIs(kind) == \E e \in last : e.kind = kind
           source(kind) == \E e \in last : e.kind = kind /\ e.sources \cap family # {} /\ e.hyp \notin family
           live == FindLive(steps[up], family) \/ ((\A e \in last : ~Lost(e)) /\ HadHome(family, up))
<1>2. Fate(n, up) =
        CASE live -> "live"
          [] ~live /\ mine = {} -> "never-seen"
          [] ~live /\ mine # {} /\ (\E e \in mine : ~e.certain) -> "unknown"
          [] OTHER -> IF lastIs("Consume") THEN "consumed"
                      ELSE IF lastIs("Frame") THEN "framed"
                      ELSE IF source("Rename") THEN "renamed"
                      ELSE IF source("Split") THEN "split"
                      ELSE IF source("Persist") THEN "persisted" ELSE "unknown"
  BY DEF Fate
<1> HIDE DEF source, live, mine
<1>3. ~live /\ (\A e \in mine : e.certain) /\ (lastIs("Consume") \/ lastIs("Frame"))
  BY <1>2
<1> QED BY <1>1, <1>3 DEF live, mine, Final

\* A family name with a lasting home at a step has no later spatial one, if no goal has it now and
\* nothing about it is later than that step: the ledger would find the home (query.py).
LEMMA HomeIsFound ==
    ASSUME FateInv, NEW family, NEW k \in DOMAIN steps,
           \E i \in DOMAIN steps[k] : DOMAIN steps[k][i].intuit \cap family # {},
           ~FindLive(Final, family),
           \A e \in About(events, family) : e.at[1] <= k
    PROVE  HadHome(family, Len(steps))
<1> DEFINE L == Len(steps)
<1>1. L \in Nat /\ DOMAIN steps = 1..L /\ L = Len(steps)
  BY FinalIs DEF FateInv, LedgerInv, StepsOK
<1>2. ASSUME NEW l \in (k + 1)..L, NEW i \in DOMAIN steps[l], NEW x \in DOMAIN steps[l][i].spatial \cap family
      PROVE  FALSE
  <2>1. l \in DOMAIN steps /\ l > k
    BY <1>1, <1>2
  <2>2. IsSpatial(steps[l], x)
    BY <1>2 DEF IsSpatial
  <2>3. ~IsSpatial(Final, x)
    BY <1>2 DEF IsSpatial, FindLive, Names
  <2>4. PICK e \in events : e.at[1] >= l /\ x \in {e.hyp} \cup e.sources
    BY <2>1, <2>2, <2>3, WentWithATrace
  <2>5. e.at[1] <= k
    BY <1>2, <2>4 DEF About
  <2>6. e.at[1] \in Nat /\ k \in Nat /\ l \in Nat
    BY <1>1, <2>1, <2>4 DEF FateInv, LedgerInv, Numbered
  <2> QED BY <2>1, <2>4, <2>5, <2>6
<1>3. k \in 1..L
  BY <1>1
<1>4. \A l \in (k + 1)..L : \A i \in DOMAIN steps[l] : DOMAIN steps[l][i].spatial \cap family = {}
  BY <1>2
<1> QED BY <1>3, <1>4 DEF HadHome

\* A name whose fate is consumed or framed stands for nothing in any goal, nor does a name it was
\* renamed from or to, and the sentence blamed took away for good what one of them stood for.
THEOREM FateTheorem == LedgerSpec => []FateIsHonest
<1>1. FateInv => FateIsHonest
  <2> SUFFICES ASSUME FateInv, NEW n \in Name, Fate(n, Len(steps)) \in {"consumed", "framed"}
               PROVE  /\ \A m \in Aliases(events, n) : MeantAt(m, Len(steps)) = {}
                      /\ \E e \in Culprit(n, Len(steps)), m \in Aliases(events, n) : \E r \in MeantAt(m, e.at[1]) :
                            \A k \in (e.at[1] + 1)..Len(steps) : r \notin HeldIn(steps[k])
    BY Zenon DEF FateIsHonest
  <2> DEFINE family == Aliases(events, n)
             mine == About(events, family)
             last == Latest(mine)
             L == Len(steps)
  <2>1. /\ StepsOK /\ Numbered /\ GoneForGood /\ UsesAreOfLasting
        /\ L \in Nat /\ L \in DOMAIN steps /\ DOMAIN steps = 1..L /\ Final = steps[L] /\ L = Len(steps)
    BY FinalIs DEF FateInv, LedgerInv, History, StepsOK, Final
  <2>2. /\ ~FindLive(Final, family)
        /\ \A e \in mine : e.certain
        /\ (\E e \in last : Lost(e)) \/ ~HadHome(family, L)
        /\ \E e \in last : e.kind \in {"Consume", "Frame"}
    BY <2>1, GoneMeans
  <2>3. {e \in events : e.at[1] < L} = events
    BY <2>1 DEF Numbered
  <2>4. ASSUME NEW e \in last, e.kind \in {"Consume", "Frame"} PROVE e \in Culprit(n, L)
    <3> DEFINE whys == {f \in events : \/ /\ f.kind \in {"Split", "Persist"}
                                         /\ f.sources \cap family # {} /\ f.hyp \notin family
                                      \/ /\ f.kind \in {"Consume", "Frame"}
                                         /\ ({f.hyp} \cup f.sources) \cap family # {}}
    <3>1. Culprit(n, L) = Latest(whys)
      BY <2>3 DEF Culprit
    <3>2. whys \subseteq mine /\ e \in whys
      BY <2>4 DEF About, Latest
    <3> QED BY <2>4, <3>1, <3>2 DEF Latest
  <2> HIDE DEF family, mine, last, L
  <2>5. ASSUME NEW m \in family, NEW r \in MeantAt(m, L) PROVE FALSE
    <3>1. PICK i \in DOMAIN steps[L] : Holds(steps[L][i], m, r)
      BY <2>1, <2>5, MeantIs
    <3>2. m \in Names(steps[L][i])
      BY <3>1 DEF Holds, Names
    <3> QED BY <2>1, <2>2, <2>5, <3>1, <3>2 DEF FindLive
  <2>6. ASSUME NEW e \in last, Lost(e)
        PROVE  \E d \in Culprit(n, L), m \in family : \E r \in MeantAt(m, d.at[1]) :
                   \A k \in (d.at[1] + 1)..L : r \notin HeldIn(steps[k])
    <3>1. e \in mine /\ e \in events /\ ({e.hyp} \cup e.sources) \cap family # {} /\ e.certain
      BY <2>2, <2>6 DEF last, mine, Latest, About
    <3>2. Loses(e) /\ e.kind \in {"Consume", "Frame"}
      BY <2>6, <3>1 DEF Loses, Lost
    <3>3. /\ e.sources = {e.hyp}
          /\ \E r : /\ \E i \in DOMAIN steps[e.at[1]] : Holds(steps[e.at[1]][i], e.hyp, r)
                    /\ \A k \in (e.at[1] + 1)..L : r \notin HeldIn(steps[k])
      BY <2>1, <3>1, <3>2 DEF GoneForGood
    <3>4. PICK r : /\ \E i \in DOMAIN steps[e.at[1]] : Holds(steps[e.at[1]][i], e.hyp, r)
                   /\ \A k \in (e.at[1] + 1)..L : r \notin HeldIn(steps[k])
      BY <3>3
    <3>5. e.at[1] \in DOMAIN steps
      BY <2>1, <3>1 DEF Numbered
    <3>6. r \in MeantAt(e.hyp, e.at[1])
      BY <2>1, <3>4, <3>5, MeansIt
    <3>7. e.hyp \in family /\ e \in Culprit(n, L)
      BY <2>4, <2>6, <3>1, <3>2, <3>3
    <3> QED BY <3>4, <3>6, <3>7
  <2>7. ASSUME \A e \in last : ~Lost(e) PROVE FALSE
    <3>1. PICK e \in last : e.kind \in {"Consume", "Frame"}
      BY <2>2
    <3>2. Uses(e)
      BY <2>7, <3>1 DEF Lost, Uses
    <3>3. /\ e \in events /\ ({e.hyp} \cup e.sources) \cap family # {}
          /\ \A f \in mine : ~Before(e, f)
      BY <3>1 DEF last, mine, Latest, About
    <3>4. e.sources = {e.hyp} /\ \E i \in DOMAIN steps[e.at[1]] : e.hyp \in DOMAIN steps[e.at[1]][i].intuit
      BY <2>1, <3>2, <3>3 DEF UsesAreOfLasting
    <3>5. \E i \in DOMAIN steps[e.at[1]] : DOMAIN steps[e.at[1]][i].intuit \cap family # {}
      BY <3>3, <3>4
    <3>6. e.at[1] \in DOMAIN steps /\ e.at[1] \in Nat
      BY <2>1, <3>3 DEF Numbered
    <3>7. ASSUME NEW f \in About(events, family) PROVE f.at[1] <= e.at[1]
      <4>1. ~(e.at[1] < f.at[1])
        BY <3>3, <3>7 DEF mine, Before
      <4>2. f.at[1] \in Nat
        BY <2>1, <3>7 DEF Numbered, About
      <4> QED BY <3>6, <4>1, <4>2
    <3>8. HadHome(family, Len(steps))
      BY <2>1, <2>2, <3>5, <3>6, <3>7, HomeIsFound
    <3> QED BY <2>1, <2>2, <2>7, <3>8
  <2>8. \A m \in family : MeantAt(m, L) = {}
    BY <2>5
  <2>9. \E e \in Culprit(n, L), m \in family : \E r \in MeantAt(m, e.at[1]) :
            \A k \in (e.at[1] + 1)..L : r \notin HeldIn(steps[k])
    BY <2>6, <2>7
  <2> QED BY <2>8, <2>9 DEF family, L
<1> QED BY <1>1, FateInvariant, PTL
=============================================================================
