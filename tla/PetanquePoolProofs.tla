------------------------- MODULE PetanquePoolProofs -------------------------
(***************************************************************************)
(* Proofs about PetanquePool: its type invariant, that a process's lock is  *)
(* held exactly by the session in a call or a restart of it, that no state  *)
(* id of a process that is gone is sent to its successor, and that the pool *)
(* implements PinnedSessions.  One invariant, IInv, carries all four.       *)
(***************************************************************************)
EXTENDS PetanquePool, FiniteSetTheorems, TLAPS

\* The pool's processes exist, a pool that is open knows them all, and neither it
\* nor what a close has left holds more than its size: one more can be spawned.
Processes ==
    /\ pool \cup killing \cup reaping \subseteq Born
    /\ ~closed => Born = pool
    /\ Cardinality(pool) <= PoolSize
    /\ Cardinality(Born \ pool) <= PoolSize

\* A session that has been given a process keeps one that exists; it is started
\* by a call only, and counts no steps before.
Placed ==
    \A s \in Session :
        /\ pc[s] \notin {"none", "choosing"} => proc[s] \in Born
        /\ pc[s] \in {"none", "choosing", "refreshing", "swapping", "registering"} => ~Started(s)
        /\ ~Started(s) => steps[s] = 0

\* The generation of a process moves under its lock only, so the lock's invariant is
\* what makes the check of a handle still hold when pet is called.
IInv == TypeOK /\ Processes /\ Placed /\ LocksAreOfCalls /\ NoForeignState

\* A pool with room has a process to spawn, and spawning it does not overfill it.
LEMMA SpareProcess ==
    ASSUME IInv, ~Full
    PROVE  /\ (CHOOSE q \in Unborn : TRUE) \in Unborn
           /\ \A q \in Proc : Cardinality(pool \cup {q}) <= PoolSize
<1>1. /\ IsFiniteSet(Proc) /\ IsFiniteSet(pool) /\ IsFiniteSet(Born \ pool)
  BY PoolAssumption, FS_Subset DEF IInv, TypeOK, Born
<1>2. /\ Cardinality(pool) \in Nat /\ Cardinality(Born \ pool) \in Nat /\ Cardinality(Proc) \in Nat
      /\ PoolSize \in Nat
  BY <1>1, FS_CardinalityType, PoolAssumption
<1>3. Cardinality(pool) < PoolSize
  BY <1>2 DEF Full
<1>4. /\ IsFiniteSet(pool \cup (Born \ pool))
      /\ Cardinality(pool \cup (Born \ pool)) <= Cardinality(pool) + Cardinality(Born \ pool)
  <2>1. pool \cap (Born \ pool) = {}
    OBVIOUS
  <2>2. IsFiniteSet({}) /\ Cardinality({}) = 0
    BY FS_EmptySet
  <2>3. /\ IsFiniteSet(pool \cup (Born \ pool))
        /\ Cardinality(pool \cup (Born \ pool)) =
               Cardinality(pool) + Cardinality(Born \ pool) - Cardinality(pool \cap (Born \ pool))
    BY <1>1, FS_Union
  <2> QED BY <1>2, <2>1, <2>2, <2>3
<1>5. pool \cup (Born \ pool) # Proc
  BY <1>2, <1>3, <1>4, PoolAssumption DEF IInv, Processes
<1>6. Unborn # {}
  <2>1. pool \subseteq Proc /\ Born \subseteq Proc
    BY DEF IInv, TypeOK, Born
  <2>2. PICK q \in Proc : q \notin Born
    BY <1>5, <2>1
  <2> QED BY <2>2 DEF Unborn, Born
<1>7. ASSUME NEW q \in Proc PROVE Cardinality(pool \cup {q}) <= PoolSize
  <2>1. CASE q \in pool
    <3>1. pool \cup {q} = pool
      BY <2>1
    <3> QED BY <3>1, <1>2, <1>3
  <2>2. CASE q \notin pool
    <3>1. Cardinality(pool \cup {q}) = Cardinality(pool) + 1
      BY <1>1, <2>2, FS_AddElement
    <3> QED BY <3>1, <1>2, <1>3
  <2> QED BY <2>1, <2>2
<1> QED BY <1>6, <1>7

\* Every action keeps the types.
LEMMA TypeKept ==
    ASSUME IInv, [Next]_vars
    PROVE  TypeOK'
<1> USE PoolAssumption, FileAssumption, BoundAssumption
        DEF TypeOK, PC, poolVars, tables, pet, session, local, world
<1>p. TypeOK /\ \A s \in Session : pc[s] \notin {"none", "choosing"} => proc[s] \in Proc
  BY DEF IInv, Placed, Born
<1>1. ASSUME NEW s \in Session, Open(s) PROVE TypeOK'
  BY <1>1, <1>p DEF Open, Goes
<1>2. ASSUME NEW s \in Session, PickRunning(s) PROVE TypeOK'
  <2>1. PICK p \in pool, then \in {"registering", "refreshing"} : Picks(s, p, then)
    BY <1>2 DEF PickRunning, LeastLoaded, WarmFor, Fresh
  <2>2. UNCHANGED <<poolVars, tables, pet, lock, callbacks, root, lost, steps, local, cache, world>>
    BY <1>2 DEF PickRunning
  <2> QED BY <1>p, <2>1, <2>2 DEF Picks, Goes
<1>3. ASSUME NEW s \in Session, Spawn(s) PROVE TypeOK'
  <2>1. PICK p \in Proc : /\ pool' = pool \cup {p} /\ os' = [os EXCEPT ![p] = "up"]
                          /\ Picks(s, p, "registering")
    BY <1>3, SpareProcess DEF Spawn, Unborn
  <2> QED BY <1>p, <1>3, <2>1 DEF Spawn, Picks, Goes
<1>r. ASSUME NEW s \in Session, NEW then \in PC, proc[s] \in Proc, Renews(s, then), Holds(s)
      PROVE  /\ registered' \in [Proc -> SUBSET Session] /\ noted' \in [Proc -> Nat \cup {Unread}]
             /\ gen' \in [Proc -> Nat] /\ os' \in [Proc -> {"unborn", "up", "fat", "dead"}]
             /\ warm' \in [Proc -> SUBSET File] /\ loaded' \in [Proc -> Nat \cup {Unread}]
             /\ pc' \in [Session -> PC] /\ proc' \in [Session -> Proc \cup {NoOne}]
             /\ root' \in [Session -> Nat \cup {NoRoot}] /\ lost' \in [Session -> BOOLEAN]
             /\ steps' \in [Session -> Nat] /\ keep' \in [Session -> SUBSET Session]
             /\ disk' \in Nat /\ opens' \in Nat /\ faults' \in Nat
             /\ lock' \in [Proc -> Session \cup {NoOne}]
  BY <1>p, <1>r DEF Renews, Restart, Loses, Goes, Holds
<1>f. ASSUME NEW p \in Proc, RestartFails(p)
      PROVE  /\ gen' \in [Proc -> Nat] /\ os' \in [Proc -> {"unborn", "up", "fat", "dead"}]
             /\ warm' \in [Proc -> SUBSET File] /\ loaded' \in [Proc -> Nat \cup {Unread}]
             /\ faults' \in Nat
  BY <1>p, <1>f DEF RestartFails
<1>g. ASSUME NEW s \in Session, Fails(s) \/ Forgets(s)
      PROVE  /\ pc' \in [Session -> PC] /\ proc' \in [Session -> Proc \cup {NoOne}]
             /\ root' \in [Session -> Nat \cup {NoRoot}] /\ lost' \in [Session -> BOOLEAN]
             /\ steps' \in [Session -> Nat] /\ registered' \in [Proc -> SUBSET Session]
  <2>1. CASE Forgets(s)
    BY <1>p, <2>1 DEF Forgets, Goes
  <2>2. CASE Goes(s, "ready") /\ UNCHANGED <<session, registered>>
    BY <1>p, <2>2 DEF Goes
  <2> QED BY <1>g, <2>1, <2>2 DEF Fails
<1>4. ASSUME NEW s \in Session, Refresh(s) PROVE TypeOK'
  <2>1. CASE Renews(s, "swapping") /\ Holds(s)
    BY <1>p, <1>4, <1>r, <2>1 DEF Refresh
  <2>2. CASE RestartFails(proc[s]) /\ Forgets(s) /\ UNCHANGED <<lock, keep, noted, opens, disk>>
    BY <1>p, <1>4, <1>f, <1>g, <2>2 DEF Refresh
  <2> QED BY <1>4, <2>1, <2>2 DEF Refresh
<1>5. ASSUME NEW s \in Session, RefreshDone(s) \/ HealthDone(s) PROVE TypeOK'
  <2>1. CASE RefreshDone(s)
    BY <1>p, <2>1 DEF RefreshDone, Goes, Releases
  <2>2. CASE HealthDone(s)
    BY <1>p, <2>2 DEF HealthDone, Goes
  <2> QED BY <1>5, <2>1, <2>2
<1>6. ASSUME NEW s \in Session, Register(s) PROVE TypeOK'
  BY <1>p, <1>6 DEF Register, NotedBy, Goes
<1>7. ASSUME NEW s \in Session, Enter(s) PROVE TypeOK'
  BY <1>p, <1>7 DEF Enter, Goes
<1>8. ASSUME NEW s \in Session, Busy(s) \/ Close(s) PROVE TypeOK'
  BY <1>p, <1>8, <1>g DEF Busy, Close
<1>9. ASSUME NEW s \in Session, Acquire(s) PROVE TypeOK'
  <2>1. CASE os[proc[s]] = "up" /\ Goes(s, "checking") /\ Holds(s)
             /\ UNCHANGED <<tables, pet, session, keep, world>>
    BY <1>p, <1>9, <2>1 DEF Acquire, Goes, Holds
  <2>2. CASE Renews(s, "keeping") /\ Holds(s)
    BY <1>p, <1>9, <1>r, <2>2 DEF Acquire
  <2>3. CASE RestartFails(proc[s]) /\ Fails(s) /\ UNCHANGED <<lock, keep, noted, opens, disk>>
    BY <1>p, <1>9, <1>f, <1>g, <2>3 DEF Acquire
  <2> QED BY <1>9, <2>1, <2>2, <2>3 DEF Acquire
<1>10. ASSUME NEW s \in Session, Refuse(s) PROVE TypeOK'
  BY <1>p, <1>10, <1>g DEF Refuse, Releases
<1>11. ASSUME NEW s \in Session, Call(s) PROVE TypeOK'
  BY <1>p, <1>11 DEF Call, Goes
<1>12. ASSUME NEW s \in Session, Resume(s) PROVE TypeOK'
  BY <1>p, <1>12 DEF Resume, Owns, Goes, Releases
<1>13. ASSUME NEW s \in Session, AnswerStart(s) PROVE TypeOK'
  BY <1>p, <1>13 DEF AnswerStart, Answers, Goes, Releases
<1>14. ASSUME NEW s \in Session, AnswerRun(s) PROVE TypeOK'
  BY <1>p, <1>14 DEF AnswerRun, Answers, Goes, Releases
<1>15. ASSUME NEW s \in Session, AnswerError(s) PROVE TypeOK'
  BY <1>p, <1>15, <1>g DEF AnswerError, Answers, Releases
<1>16. ASSUME NEW s \in Session, CallDies(s) PROVE TypeOK'
  BY <1>p, <1>16, <1>g DEF CallDies, Releases
<1>17. ASSUME NEW s \in Session, TimerFires(s) PROVE TypeOK'
  <2>1. [proc |-> proc[s], gen |-> gen[proc[s]], at |-> "check"]
            \in [proc : Proc, gen : Nat, at : {"check", "kill"}]
    BY <1>p, <1>17 DEF TimerFires
  <2> QED BY <1>p, <1>17, <2>1 DEF TimerFires
<1>18. CASE CallbackChecks
  <2>1. PICK c \in callbacks :
            callbacks' = (callbacks \ {c})
                \cup (IF Outdated(c) THEN {} ELSE {[proc |-> c.proc, gen |-> c.gen, at |-> "kill"]})
    BY <1>18 DEF CallbackChecks
  <2>2. [proc |-> c.proc, gen |-> c.gen, at |-> "kill"]
            \in [proc : Proc, gen : Nat, at : {"check", "kill"}]
    BY <1>p
  <2>3. callbacks' \subseteq [proc : Proc, gen : Nat, at : {"check", "kill"}]
    BY <1>p, <2>1, <2>2
  <2> QED BY <1>p, <1>18, <2>3 DEF CallbackChecks
<1>19. CASE CallbackKills
  <2>1. PICK c \in callbacks :
            /\ callbacks' = callbacks \ {c}
            /\ os' = [os EXCEPT ![c.proc] = IF Alive(c.proc) THEN "dead" ELSE @]
    BY <1>19 DEF CallbackKills
  <2>2. os' \in [Proc -> {"unborn", "up", "fat", "dead"}]
    BY <1>p, <2>1
  <2> QED BY <1>p, <1>19, <2>1, <2>2 DEF CallbackKills
<1>20. ASSUME NEW s \in Session, Cache(s) PROVE TypeOK'
  <2>1. [proc |-> proc[s], root |-> root[s]] \in [proc : Proc \cup {NoOne}, root : Nat \cup {NoRoot}]
    BY <1>p
  <2> QED BY <1>p, <1>20, <2>1 DEF Cache
<1>21. CASE PoolClose
  BY <1>p, <1>21 DEF PoolClose
<1>25. CASE Rebuild
  BY <1>p, <1>25 DEF Rebuild
<1>22. ASSUME NEW p \in Proc, StopKills(p) \/ StopReaps(p) PROVE TypeOK'
  BY <1>p, <1>22 DEF StopKills, StopReaps
<1>23. ASSUME NEW p \in Proc, Fault(p) PROVE TypeOK'
  BY <1>p, <1>23 DEF Fault
<1>24. CASE UNCHANGED vars
  BY <1>p, <1>24 DEF vars
<1> HIDE DEF TypeOK, PC, poolVars, tables, pet, session, local, world
<1> QED
  BY <1>1, <1>2, <1>3, <1>4, <1>5, <1>6, <1>7, <1>8, <1>9, <1>10, <1>11, <1>12, <1>13, <1>14,
     <1>15, <1>16, <1>17, <1>18, <1>19, <1>20, <1>21, <1>22, <1>23, <1>24, <1>25
  DEF Next, Thread, Callbacks

-----------------------------------------------------------------------------
(* Processes *)

\* A process, once spawned, is restarted in place or dies: only Spawn adds one.
LEMMA BornKept ==
    ASSUME IInv, [Next]_vars
    PROVE  (\E s \in Session : Spawn(s)) \/ Born' = Born
<1>p. TypeOK /\ \A s \in Session : pc[s] \notin {"none", "choosing"} => proc[s] \in Born
  BY DEF IInv, Placed
<1>a. ASSUME NEW p \in Born, NEW what \in {"up", "fat", "dead"}, os' = [os EXCEPT ![p] = what]
      PROVE  Born' = Born
  BY <1>p, <1>a DEF TypeOK, Born
<1>b. ASSUME UNCHANGED os PROVE Born' = Born
  BY <1>b DEF Born
<1>1. ASSUME NEW s \in Session, Refresh(s) \/ Acquire(s) PROVE Born' = Born
  <2>1. proc[s] \in Born
    BY <1>p, <1>1 DEF Refresh, Acquire
  <2>2. UNCHANGED os \/ Restart(proc[s]) \/ RestartFails(proc[s])
    BY <1>1 DEF Refresh, Acquire, Renews, pet
  <2>3. CASE os' = [os EXCEPT ![proc[s]] = "up"] \/ os' = [os EXCEPT ![proc[s]] = "dead"]
    BY <1>a, <2>1, <2>3
  <2>4. UNCHANGED os \/ os' = [os EXCEPT ![proc[s]] = "up"] \/ os' = [os EXCEPT ![proc[s]] = "dead"]
    BY <2>2 DEF Restart, RestartFails
  <2> QED BY <1>b, <2>3, <2>4
<1>2. ASSUME NEW p \in Proc, StopKills(p) \/ StopReaps(p) \/ Fault(p) PROVE Born' = Born
  <2>1. p \in Born
    BY <1>2, <1>p DEF IInv, Processes, StopKills, StopReaps, Fault, Born
  <2>2. CASE StopKills(p)
    <3>1. CASE Alive(p)
      <4>1. os' = [os EXCEPT ![p] = "dead"]
        BY <2>2, <3>1 DEF StopKills
      <4> QED BY <1>a, <2>1, <4>1
    <3>2. CASE ~Alive(p)
      <4>1. os' = [os EXCEPT ![p] = @]
        BY <2>2, <3>2 DEF StopKills
      <4>2. os' = os
        BY <4>1, <1>p DEF TypeOK
      <4> QED BY <1>b, <4>2
    <3> QED BY <3>1, <3>2
  <2>3. CASE StopReaps(p) \/ Fault(p)
    BY <1>a, <2>1, <2>3 DEF StopReaps, Fault
  <2> QED BY <1>2, <2>2, <2>3
<1>3. CASE CallbackKills
  <2>1. PICK c \in callbacks : os' = [os EXCEPT ![c.proc] = IF Alive(c.proc) THEN "dead" ELSE @]
    BY <1>3 DEF CallbackKills
  <2>2. c.proc \in Proc
    BY <1>p DEF TypeOK
  <2>3. CASE Alive(c.proc)
    BY <1>a, <2>1, <2>2, <2>3 DEF Alive, Born
  <2>4. CASE ~Alive(c.proc)
    BY <1>p, <1>b, <2>1, <2>2, <2>4 DEF TypeOK
  <2> QED BY <2>3, <2>4
<1>4. ASSUME NEW s \in Session,
             \/ Open(s) \/ PickRunning(s) \/ RefreshDone(s) \/ Register(s) \/ Enter(s) \/ Busy(s)
             \/ HealthDone(s) \/ Refuse(s) \/ Call(s) \/ Resume(s) \/ TimerFires(s) \/ CallDies(s)
             \/ AnswerStart(s) \/ AnswerRun(s) \/ AnswerError(s) \/ Cache(s) \/ Close(s)
      PROVE  UNCHANGED os
  BY <1>4 DEF Open, PickRunning, RefreshDone, Register, Enter, Busy, HealthDone, Refuse, Call, Resume,
              TimerFires, CallDies, AnswerStart, AnswerRun, AnswerError, Answers, Cache, Close, pet
<1>5. CASE CallbackChecks \/ PoolClose \/ Rebuild \/ UNCHANGED vars
  BY <1>b, <1>5 DEF CallbackChecks, PoolClose, Rebuild, vars, pet
<1> QED BY <1>b, <1>1, <1>2, <1>3, <1>4, <1>5 DEF Next, Thread, Callbacks

\* Spawning stays within the pool's size; closing it hands its processes on.
LEMMA ProcessesKept ==
    ASSUME IInv, [Next]_vars
    PROVE  Processes'
<1>i. Processes /\ TypeOK /\ PoolSize \in Nat
  BY PoolAssumption DEF IInv
<1>a. CASE UNCHANGED poolVars /\ Born' = Born
  BY <1>i, <1>a DEF Processes, poolVars
<1>1. ASSUME NEW s \in Session, Spawn(s) PROVE Processes'
  <2>1. ~Full
    BY <1>1 DEF Spawn
  <2>2. PICK p \in Unborn : pool' = pool \cup {p} /\ os' = [os EXCEPT ![p] = "up"]
    BY <1>1, <2>1, SpareProcess DEF Spawn
  <2>3. Born' = Born \cup {p} /\ p \notin Born
    BY <1>i, <2>2 DEF Born, Unborn, TypeOK
  <2>4. Born' \ pool' = Born \ pool
    BY <2>2, <2>3
  <2>5. Cardinality(pool') <= PoolSize
    BY <2>1, <2>2, SpareProcess DEF Unborn
  <2>6. UNCHANGED <<closed, killing, reaping>>
    BY <1>1 DEF Spawn
  <2> QED BY <1>i, <2>2, <2>3, <2>4, <2>5, <2>6 DEF Processes
<1>b. (\E s \in Session : Spawn(s)) \/ Born' = Born
  BY BornKept
<1>2. CASE PoolClose /\ Born' = Born
  <2>1. Born' \ pool' = pool /\ pool' = {} /\ killing' = pool /\ closed' /\ UNCHANGED reaping
    BY <1>i, <1>2 DEF PoolClose, Processes
  <2>2. Cardinality({}) = 0
    BY FS_EmptySet
  <2> QED BY <1>i, <1>2, <2>1, <2>2 DEF Processes
<1>3. ASSUME NEW p \in Proc, StopKills(p) \/ StopReaps(p), Born' = Born PROVE Processes'
  BY <1>i, <1>3 DEF StopKills, StopReaps, Processes
<1>4. CASE \E p \in Proc : Fault(p)
  BY <1>a, <1>1, <1>b, <1>4 DEF Fault
<1>5. ASSUME NEW s \in Session,
             \/ Open(s) \/ Enter(s) \/ Cache(s) \/ Close(s)
             \/ AnswerStart(s) \/ AnswerRun(s) \/ AnswerError(s)
      PROVE  UNCHANGED poolVars
  BY <1>5 DEF Open, Enter, Cache, Close, AnswerStart, AnswerRun, AnswerError, Answers
<1>6. ASSUME NEW s \in Session, Thread(s) PROVE Spawn(s) \/ UNCHANGED poolVars
  BY <1>6 DEF Thread, PickRunning, Refresh, RefreshDone, Register, Busy, Acquire, HealthDone,
              Refuse, Call, Resume, TimerFires, CallDies
<1>7. CASE Callbacks \/ Rebuild \/ UNCHANGED vars
  <2>1. UNCHANGED poolVars
    BY <1>7 DEF Callbacks, CallbackChecks, CallbackKills, Rebuild, vars
  <2> QED BY <1>a, <1>b, <1>1, <2>1
<1> QED BY <1>a, <1>b, <1>1, <1>2, <1>3, <1>4, <1>5, <1>6, <1>7 DEF Next

-----------------------------------------------------------------------------
(* Sessions *)

PlacedAt(s) ==
    /\ pc[s] \notin {"none", "choosing"} => proc[s] \in Born
    /\ pc[s] \in {"none", "choosing", "refreshing", "swapping", "registering"} => ~Started(s)
    /\ ~Started(s) => steps[s] = 0

\* What a step says of a session that is not its own.
Still(t) == UNCHANGED <<pc[t], proc[t], root[t], steps[t]>>

StepOf(s) ==
    \/ Open(s) \/ Thread(s) \/ Enter(s) \/ Cache(s) \/ Close(s)
    \/ AnswerStart(s) \/ AnswerRun(s) \/ AnswerError(s)

OfWorld ==
    \/ \E p \in Proc : StopKills(p) \/ StopReaps(p) \/ Fault(p)
    \/ Callbacks \/ PoolClose \/ Rebuild \/ UNCHANGED vars

\* Deaths, kills, rebuilds and the pool's end leave the sessions where they are.
LEMMA WorldLeavesSessions ==
    ASSUME OfWorld
    PROVE  UNCHANGED <<pc, session, lock, gen>>
BY DEF OfWorld, StopKills, StopReaps, Fault, Callbacks, CallbackChecks, CallbackKills, PoolClose, Rebuild,
       vars, pet

\* A session's step moves no other session, nor its process, root or count.
LEMMA OthersAreStill ==
    ASSUME IInv, NEW s \in Session, StepOf(s), NEW t \in Session, t # s
    PROVE  Still(t)
<1>p. /\ pc \in [Session -> PC] /\ proc \in [Session -> Proc \cup {NoOne}]
      /\ root \in [Session -> Nat \cup {NoRoot}] /\ steps \in [Session -> Nat]
  BY DEF IInv, TypeOK
<1>g. ASSUME Fails(s) \/ Forgets(s) PROVE Still(t)
  BY <1>p, <1>g DEF Fails, Forgets, Goes, session, Still
<1>1. CASE \/ Open(s) \/ PickRunning(s) \/ RefreshDone(s) \/ Register(s) \/ Enter(s)
           \/ HealthDone(s) \/ Call(s) \/ Resume(s) \/ TimerFires(s) \/ Cache(s)
  BY <1>p, <1>1 DEF Open, PickRunning, Picks, RefreshDone, Register, Enter, HealthDone, Call, Resume,
                    TimerFires, Cache, Goes, session, Still
<1>2. CASE Busy(s) \/ Refuse(s) \/ CallDies(s) \/ AnswerError(s) \/ Close(s)
  BY <1>g, <1>2 DEF Busy, Refuse, CallDies, AnswerError, Close
<1>3. CASE Spawn(s) \/ AnswerStart(s) \/ AnswerRun(s)
  BY <1>p, <1>3 DEF Spawn, Picks, AnswerStart, AnswerRun, Goes, Still
<1>4. CASE Refresh(s) \/ Acquire(s)
  <2>1. CASE Renews(s, "swapping") \/ Renews(s, "keeping")
    BY <1>p, <2>1 DEF Renews, Goes, Still
  <2>2. CASE Goes(s, "checking") /\ UNCHANGED session
    BY <1>p, <2>2 DEF Goes, session, Still
  <2> QED BY <1>4, <1>g, <2>1, <2>2 DEF Refresh, Acquire
<1> QED BY <1>1, <1>2, <1>3, <1>4 DEF StepOf, Thread

\* Sessions stay on processes that exist.
LEMMA PlacedKept ==
    ASSUME IInv, [Next]_vars
    PROVE Placed'
<1>p. TypeOK /\ \A s \in Session : PlacedAt(s)
  BY DEF IInv, Placed, PlacedAt
<1>b. Born \subseteq Born'
  <2>1. CASE \E s \in Session : Spawn(s)
    <3>1. PICK p \in Unborn : os' = [os EXCEPT ![p] = "up"]
      BY <2>1, SpareProcess DEF Spawn
    <3> QED BY <1>p, <3>1 DEF Born, Unborn, TypeOK
  <2> QED BY <2>1, BornKept
<1>s. ASSUME NEW t \in Session, Still(t) PROVE PlacedAt(t)'
  BY <1>p, <1>b, <1>s DEF Still, PlacedAt, Started
<1>g. ASSUME NEW s \in Session, Fails(s) \/ Forgets(s),
             pc[s] \in {"ready", "waiting", "refreshing", "checking", "calling"}
      PROVE PlacedAt(s)'
  <2>1. CASE Forgets(s)
    BY <1>p, <2>1 DEF Forgets, Goes, PlacedAt, Started, TypeOK
  <2>2. CASE Started(s) /\ Goes(s, "ready") /\ UNCHANGED <<session, registered>>
    BY <1>p, <1>b, <1>g, <2>2 DEF Goes, session, PlacedAt, Started, TypeOK
  <2> QED BY <1>g, <2>1, <2>2 DEF Fails
<1>1. ASSUME NEW s \in Session,
             \/ Open(s) \/ RefreshDone(s) \/ Register(s) \/ Enter(s)
             \/ HealthDone(s) \/ Call(s) \/ TimerFires(s) \/ Cache(s)
      PROVE PlacedAt(s)'
  BY <1>p, <1>b, <1>1 DEF Open, RefreshDone, Register, Enter, HealthDone, Call,
                    TimerFires, Cache, Goes, session, PlacedAt, Started, TypeOK
<1>2. ASSUME NEW s \in Session, Busy(s) \/ Refuse(s) \/ CallDies(s) \/ AnswerError(s) \/ Close(s)
      PROVE PlacedAt(s)'
  BY <1>g, <1>2 DEF Busy, Refuse, CallDies, AnswerError, Answers, Close
<1>3. ASSUME NEW s \in Session, Resume(s) \/ AnswerStart(s) \/ AnswerRun(s)
      PROVE PlacedAt(s)'
  <2>1. proc[s] \in Proc /\ gen[proc[s]] \in Nat /\ gen[proc[s]] # NoRoot
    BY <1>p, <1>3, BoundAssumption DEF Resume, AnswerStart, AnswerRun, Answers, PlacedAt, Born, TypeOK
  <2>2. pc'[s] = "ready" /\ UNCHANGED proc
    BY <1>p, <1>3 DEF Resume, AnswerStart, AnswerRun, Goes, TypeOK
  <2>3. root'[s] # NoRoot
    BY <1>p, <1>3, <2>1 DEF Resume, AnswerStart, AnswerRun, Owns, Started, TypeOK
  <2>4. pc[s] \in {"checking", "calling"}
    BY <1>3 DEF Resume, AnswerStart, AnswerRun, Answers
  <2> QED BY <1>p, <1>b, <2>2, <2>3, <2>4 DEF PlacedAt, Started
<1>4. ASSUME NEW s \in Session, Refresh(s) \/ Acquire(s)
      PROVE PlacedAt(s)'
  <2>1. CASE Refresh(s) /\ Renews(s, "swapping")
    BY <1>p, <1>b, <2>1 DEF Refresh, Renews, Goes, PlacedAt, Started, TypeOK
  <2>2. CASE Acquire(s) /\ Renews(s, "keeping")
    BY <1>p, <1>b, <2>2 DEF Acquire, Renews, Goes, PlacedAt, Started, TypeOK
  <2>3. CASE Acquire(s) /\ Goes(s, "checking") /\ UNCHANGED session
    BY <1>p, <1>b, <2>3 DEF Acquire, Goes, session, PlacedAt, Started, TypeOK
  <2> QED BY <1>4, <1>g, <2>1, <2>2, <2>3 DEF Refresh, Acquire
<1>5. ASSUME NEW s \in Session, PickRunning(s)
      PROVE PlacedAt(s)'
  <2>1. PICK p \in pool, then \in {"registering", "refreshing"} : Picks(s, p, then)
    BY <1>5 DEF PickRunning, LeastLoaded, WarmFor, Fresh
  <2>2. p \in Born /\ pc[s] = "choosing" /\ UNCHANGED <<root, steps>>
    BY <1>5 DEF PickRunning, IInv, Processes
  <2> QED BY <1>p, <1>b, <2>1, <2>2 DEF Picks, Goes, PlacedAt, Started, TypeOK
<1>6. ASSUME NEW s \in Session, Spawn(s)
      PROVE PlacedAt(s)'
  <2>1. PICK p \in Unborn : os' = [os EXCEPT ![p] = "up"] /\ Picks(s, p, "registering")
    BY <1>6, SpareProcess DEF Spawn
  <2>2. p \in Born'
    BY <1>p, <2>1 DEF Born, Unborn, TypeOK
  <2> QED BY <1>p, <1>6, <2>1, <2>2 DEF Spawn, Picks, Goes, PlacedAt, Started, TypeOK
<1>7. ASSUME NEW s \in Session, StepOf(s) PROVE Placed'
  <2>1. PlacedAt(s)'
    BY <1>7, <1>1, <1>2, <1>3, <1>4, <1>5, <1>6 DEF StepOf, Thread
  <2>2. \A t \in Session : t # s => PlacedAt(t)'
    BY <1>7, <1>s, OthersAreStill
  <2> QED BY <2>1, <2>2 DEF Placed, PlacedAt
<1>8. ASSUME OfWorld PROVE Placed'
  <2>1. UNCHANGED <<pc, session>>
    BY <1>8, WorldLeavesSessions
  <2>2. \A t \in Session : Still(t)
    BY <2>1 DEF session, Still
  <2> QED BY <1>s, <2>2 DEF Placed, PlacedAt
<1> QED BY <1>7, <1>8 DEF Next, StepOf, OfWorld

-----------------------------------------------------------------------------
(* Locks *)

\* The three things a session's step may do with its process's lock.
TakesLock(s) == lock[proc[s]] = NoOne /\ Holds(s) /\ Holding(s)' /\ proc'[s] = proc[s]
DropsLock(s) == Holding(s) /\ Releases(s) /\ ~Holding(s)'
KeepsLock(s) == UNCHANGED lock /\ (Holding(s)' <=> Holding(s)) /\ (Holding(s) => proc'[s] = proc[s])

\* Every way into a call takes the lock when it is free; every way out drops it.
LEMMA LockSteps ==
    ASSUME IInv, NEW s \in Session, StepOf(s)
    PROVE  TakesLock(s) \/ DropsLock(s) \/ KeepsLock(s)
<1>p. TypeOK
  BY DEF IInv
<1>g. ASSUME Fails(s) \/ Forgets(s) PROVE ~Holding(s)'
  BY <1>p, <1>g DEF Fails, Forgets, Goes, Holding, TypeOK
<1>1. CASE \/ Open(s) \/ Register(s) \/ Enter(s) \/ HealthDone(s) \/ Call(s) \/ TimerFires(s) \/ Cache(s)
  BY <1>p, <1>1 DEF Open, Register, Enter, HealthDone, Call, TimerFires, Cache, Goes, session,
                    KeepsLock, Holding, TypeOK
<1>2. CASE PickRunning(s) \/ Spawn(s)
  <2>1. pc[s] = "choosing" /\ UNCHANGED lock /\ (Goes(s, "registering") \/ Goes(s, "refreshing"))
    BY <1>2 DEF PickRunning, Spawn, Picks
  <2> QED BY <1>p, <2>1 DEF Goes, KeepsLock, Holding, TypeOK
<1>3. CASE Busy(s) \/ Close(s)
  BY <1>g, <1>3 DEF Busy, Close, KeepsLock, Holding
<1>4. CASE Refuse(s) \/ CallDies(s) \/ AnswerError(s)
  BY <1>g, <1>4 DEF Refuse, CallDies, AnswerError, Answers, DropsLock, Holding
<1>5. CASE RefreshDone(s) \/ Resume(s) \/ AnswerStart(s) \/ AnswerRun(s)
  BY <1>p, <1>5 DEF RefreshDone, Resume, AnswerStart, AnswerRun, Answers, Goes, DropsLock, Holding, TypeOK
<1>6. CASE Refresh(s) \/ Acquire(s)
  <2>0. lock[proc[s]] = NoOne /\ pc[s] \in {"refreshing", "waiting"}
    BY <1>6 DEF Refresh, Acquire
  <2>1. CASE (Renews(s, "swapping") \/ Renews(s, "keeping")) /\ Holds(s)
    BY <1>p, <2>0, <2>1 DEF Renews, Goes, TakesLock, Holding, TypeOK
  <2>2. CASE Goes(s, "checking") /\ Holds(s) /\ UNCHANGED session
    BY <1>p, <2>0, <2>2 DEF Goes, session, TakesLock, Holding, TypeOK
  <2>3. CASE (Fails(s) \/ Forgets(s)) /\ UNCHANGED lock
    BY <1>g, <2>0, <2>3 DEF KeepsLock, Holding
  <2> QED BY <1>6, <2>1, <2>2, <2>3 DEF Refresh, Acquire
<1> QED BY <1>1, <1>2, <1>3, <1>4, <1>5, <1>6 DEF StepOf, Thread

\* So holding a lock and being in a call stay the same thing.
LEMMA LocksKept ==
    ASSUME IInv, [Next]_vars
    PROVE  LocksAreOfCalls'
<1>p. TypeOK /\ LocksAreOfCalls /\ \A s \in Session : Holding(s) => proc[s] \in Proc
  BY DEF IInv, Placed, Holding, Born
<1>n. NoOne \notin Session
  BY PoolAssumption
<1>1. ASSUME NEW s \in Session, StepOf(s) PROVE LocksAreOfCalls'
  <2>o. \A t \in Session : t # s => (Holding(t)' <=> Holding(t)) /\ proc'[t] = proc[t]
    BY <1>1, OthersAreStill DEF Still, Holding
  <2>t. lock \in [Proc -> Session \cup {NoOne}]
    BY <1>p DEF TypeOK
  <2>1. CASE TakesLock(s)
    BY <1>p, <1>n, <2>o, <2>t, <2>1 DEF TakesLock, Holds, LocksAreOfCalls
  <2>2. CASE DropsLock(s)
    BY <1>p, <1>n, <2>o, <2>t, <2>2 DEF DropsLock, Releases, LocksAreOfCalls
  <2>3. CASE KeepsLock(s)
    BY <1>p, <2>o, <2>3 DEF KeepsLock, LocksAreOfCalls
  <2> QED BY <1>1, <2>1, <2>2, <2>3, LockSteps
<1>2. ASSUME OfWorld PROVE LocksAreOfCalls'
  <2>1. UNCHANGED <<pc, session, lock>>
    BY <1>2, WorldLeavesSessions
  <2> QED BY <1>p, <2>1 DEF session, LocksAreOfCalls, Holding
<1> QED BY <1>1, <1>2 DEF Next, StepOf, OfWorld

-----------------------------------------------------------------------------
(* Generations *)

\* A process's generation only moves under its lock, and only forward.
LEMMA GenerationsUnderLock ==
    ASSUME IInv, [Next]_vars, gen' # gen
    PROVE  \E s \in Session :
              /\ StepOf(s) /\ pc[s] \in {"refreshing", "waiting"}
              /\ proc[s] \in Proc /\ lock[proc[s]] = NoOne
              /\ gen' = [gen EXCEPT ![proc[s]] = @ + 1]
<1>1. PICK s \in Session : Refresh(s) \/ Acquire(s)
  <2>1. ASSUME NEW t \in Session, \/ Open(t) \/ Enter(t) \/ Cache(t) \/ Close(t)
                                  \/ AnswerStart(t) \/ AnswerRun(t) \/ AnswerError(t)
        PROVE  UNCHANGED gen
    BY <2>1 DEF Open, Enter, Cache, Close, AnswerStart, AnswerRun, AnswerError, Answers, pet
  <2>2. ASSUME NEW t \in Session, Thread(t) PROVE Refresh(t) \/ Acquire(t) \/ UNCHANGED gen
    BY <2>2 DEF Thread, PickRunning, Spawn, RefreshDone, Register, Busy, HealthDone, Refuse, Call, Resume,
                TimerFires, CallDies, pet
  <2>3. ASSUME OfWorld PROVE UNCHANGED gen
    BY <2>3, WorldLeavesSessions
  <2> QED BY <2>1, <2>2, <2>3 DEF Next, OfWorld
<1>2. pc[s] \in {"refreshing", "waiting"} /\ lock[proc[s]] = NoOne
  BY <1>1 DEF Refresh, Acquire
<1>3. proc[s] \in Proc
  BY <1>2 DEF IInv, Placed, Born
<1>4. gen' = [gen EXCEPT ![proc[s]] = @ + 1]
  BY <1>1 DEF Refresh, Acquire, Renews, Restart, RestartFails, pet
<1> QED BY <1>1, <1>2, <1>3, <1>4 DEF StepOf, Thread

\* While a session is in its call nobody restarts its process under it.
LEMMA NoForeignKept ==
    ASSUME IInv, [Next]_vars
    PROVE  NoForeignState'
<1>p. TypeOK /\ NoForeignState /\ LocksAreOfCalls /\ Placed
  BY DEF IInv
<1>n. NoOne \notin Session
  BY PoolAssumption
<1>1. SUFFICES ASSUME NEW s \in Session, pc'[s] = "calling", Started(s)'
               PROVE  root'[s] = gen'[proc'[s]]
  BY DEF NoForeignState
<1>2. CASE Call(s)
  BY <1>1, <1>2 DEF Call, Owns, pet, session, Started
<1>3. CASE ~Call(s)
  <2>1. pc[s] = "calling" /\ UNCHANGED <<root[s], proc[s]>>
    <3>1. CASE StepOf(s)
      BY <1>p, <1>1, <1>3, <3>1
      DEF StepOf, Thread, Open, PickRunning, Spawn, Picks, Refresh, RefreshDone, Register, Busy, Acquire,
          HealthDone, Refuse, Resume, TimerFires, CallDies, Enter, Cache, Close, AnswerStart, AnswerRun,
          AnswerError, Answers, Fails, Forgets, Renews, Goes, session, TypeOK
    <3>2. ASSUME NEW t \in Session, StepOf(t), t # s PROVE Still(s)
      BY <3>2, OthersAreStill
    <3>3. ASSUME OfWorld PROVE UNCHANGED <<pc, session>>
      BY <3>3, WorldLeavesSessions
    <3> QED BY <1>1, <3>1, <3>2, <3>3 DEF Next, StepOf, Still, session, OfWorld
  <2>2. root[s] = gen[proc[s]] /\ proc[s] \in Proc /\ lock[proc[s]] = s
    BY <1>p, <1>1, <2>1 DEF NoForeignState, Started, Placed, Born, LocksAreOfCalls, Holding
  <2>3. gen'[proc[s]] = gen[proc[s]]
    <3>1. CASE gen' # gen
      <4>1. PICK t \in Session : /\ proc[t] \in Proc /\ lock[proc[t]] = NoOne
                                 /\ gen' = [gen EXCEPT ![proc[t]] = @ + 1]
        BY <3>1, GenerationsUnderLock
      <4> QED BY <1>p, <1>n, <2>2, <4>1 DEF TypeOK
    <3> QED BY <3>1
  <2> QED BY <2>1, <2>2, <2>3
<1> QED BY <1>2, <1>3

-----------------------------------------------------------------------------
(* The invariant *)

\* The initial states satisfy the invariant ...
LEMMA InvInit ==
    ASSUME Init
    PROVE  IInv
<1> USE PoolAssumption, FileAssumption, BoundAssumption
<1>1. TypeOK
  BY DEF Init, TypeOK, PC
<1>2. Processes
  <2>1. pool = {} /\ Born = {} /\ killing = {} /\ reaping = {}
    BY DEF Init, Born
  <2>2. Cardinality({}) = 0 /\ Born \ pool = {}
    BY <2>1, FS_EmptySet
  <2> QED BY <2>1, <2>2 DEF Processes
<1>3. Placed /\ NoForeignState
  BY DEF Init, Placed, NoForeignState, Started
<1>4. LocksAreOfCalls
  BY DEF Init, LocksAreOfCalls, Holding
<1> QED BY <1>1, <1>2, <1>3, <1>4 DEF IInv

\* ... and every step keeps it.
LEMMA InvStep ==
    ASSUME IInv, [Next]_vars
    PROVE  IInv'
BY TypeKept, ProcessesKept, PlacedKept, LocksKept, NoForeignKept DEF IInv

\* The inductive invariant holds in every reachable state.
THEOREM Inductive == Spec => []IInv
BY InvInit, InvStep, PTL DEF Spec

\* Every variable keeps its type.
THEOREM TypeCorrect == Spec => []TypeOK
<1>1. IInv => TypeOK
  BY DEF IInv
<1> QED BY Inductive, <1>1, PTL

\* A process's lock is held by the one session in a restart or a call of it, and by
\* none else: no error path of _held leaves it locked or lets two calls in.
THEOREM LocksOfCalls == Spec => []LocksAreOfCalls
<1>1. IInv => LocksAreOfCalls
  BY DEF IInv
<1> QED BY Inductive, <1>1, PTL

\* Whatever dies, hangs, is restarted or resumed from the cache, pet is only ever
\* asked about states of its own generation.
THEOREM NoForeignStateEver == Spec => []NoForeignState
<1>1. IInv => NoForeignState
  BY DEF IInv
<1> QED BY Inductive, <1>1, PTL

-----------------------------------------------------------------------------
(* Sessions are pinned: every step is a step of PinnedSessions or a stutter *)

HomeOf(s) == IF Started(s) THEN <<proc[s], root[s]>> ELSE NoHome
Past == UNION {{<<p, g>> : g \in 0..gen[p]} : p \in Born}

\* Generations grow; a process that is up and was not is new, or in a new generation.
LEMMA ProcessSteps ==
    ASSUME IInv, [Next]_vars, NEW p \in Proc
    PROVE  /\ gen[p] \in Nat /\ gen'[p] \in Nat /\ gen[p] <= gen'[p]
           /\ p \in Born => p \in Born'
           /\ Alive(p)' => Alive(p) \/ p \notin Born \/ gen[p] < gen'[p]
<1>p. TypeOK /\ TypeOK'
  BY TypeKept DEF IInv
<1>1. gen[p] \in Nat /\ gen'[p] \in Nat /\ gen[p] <= gen'[p]
  <2>1. CASE gen' # gen
    <3>1. PICK s \in Session : gen' = [gen EXCEPT ![proc[s]] = @ + 1]
      BY <2>1, GenerationsUnderLock
    <3> QED BY <1>p, <3>1 DEF TypeOK
  <2> QED BY <1>p, <2>1 DEF TypeOK
<1>2. p \in Born => p \in Born'
  <2>1. CASE \E s \in Session : Spawn(s)
    <3>1. PICK q \in Unborn : os' = [os EXCEPT ![q] = "up"]
      BY <2>1, SpareProcess DEF Spawn
    <3> QED BY <1>p, <3>1 DEF Born, Unborn, TypeOK
  <2> QED BY <2>1, BornKept
<1>3. ASSUME Alive(p)', ~Alive(p), p \in Born PROVE gen[p] < gen'[p]
  <2>1. ASSUME NEW s \in Session, Spawn(s) PROVE FALSE
    <3>1. PICK q \in Unborn : os' = [os EXCEPT ![q] = "up"]
      BY <2>1, SpareProcess DEF Spawn
    <3> QED BY <1>3, <1>p, <3>1 DEF Born, Unborn, Alive, TypeOK
  <2>2. ASSUME NEW s \in Session, Refresh(s) \/ Acquire(s) PROVE gen[p] < gen'[p]
    <3>1. UNCHANGED os \/ Restart(proc[s]) \/ RestartFails(proc[s])
      BY <2>2 DEF Refresh, Acquire, Renews, pet
    <3> QED BY <1>3, <1>p, <3>1 DEF Restart, RestartFails, Alive, TypeOK
  <2>3. ASSUME NEW s \in Session, StepOf(s), ~Spawn(s), ~Refresh(s), ~Acquire(s) PROVE FALSE
    <3>1. UNCHANGED os
      BY <2>3 DEF StepOf, Thread, Open, PickRunning, RefreshDone, Register, Enter, Busy, HealthDone, Refuse,
                  Call, Resume, TimerFires, CallDies, AnswerStart, AnswerRun, AnswerError, Answers, Cache,
                  Close, pet
    <3> QED BY <1>3, <3>1 DEF Alive
  <2>4. ASSUME NEW q \in Proc, StopKills(q) \/ StopReaps(q) \/ Fault(q) PROVE FALSE
    BY <1>3, <1>p, <2>4 DEF StopKills, StopReaps, Fault, Alive, TypeOK
  <2>5. ASSUME CallbackKills PROVE FALSE
    <3>1. PICK c \in callbacks : os' = [os EXCEPT ![c.proc] = IF Alive(c.proc) THEN "dead" ELSE @]
      BY <2>5 DEF CallbackKills
    <3> QED BY <1>3, <1>p, <3>1 DEF Alive, TypeOK
  <2>6. ASSUME CallbackChecks \/ PoolClose \/ Rebuild \/ UNCHANGED vars PROVE FALSE
    <3>1. UNCHANGED os
      BY <2>6 DEF CallbackChecks, PoolClose, Rebuild, vars, pet
    <3> QED BY <1>3, <3>1 DEF Alive
  <2> QED BY <2>1, <2>2, <2>3, <2>4, <2>5, <2>6 DEF Next, StepOf, Thread, Callbacks
<1> QED BY <1>1, <1>2, <1>3

\* What comes up is new, and every home that was up or is stays on record.
LEMMA HomesAreNew ==
    ASSUME IInv, [Next]_vars
    PROVE  /\ (Homes' \ Homes) \cap Past = {}
           /\ Past \cup Homes' \subseteq Past'
<1>1. Born \subseteq Proc /\ Born' \subseteq Proc
  BY DEF Born
<1>2. ASSUME NEW h \in Homes', h \in Past PROVE h \in Homes
  <2>1. PICK p \in Proc : h = <<p, gen'[p]>> /\ Alive(p)'
    BY <1>2 DEF Homes
  <2>2. PICK q \in Born : h \in {<<q, g>> : g \in 0..gen[q]}
    BY <1>2 DEF Past
  <2>3. p = q /\ gen'[p] \in 0..gen[p]
    BY <2>1, <2>2
  <2>4. gen'[p] = gen[p] /\ Alive(p)
    BY <2>1, <2>2, <2>3, ProcessSteps
  <2> QED BY <2>1, <2>4 DEF Homes
<1>3. ASSUME NEW h \in Past PROVE h \in Past'
  <2>1. PICK p \in Born : h \in {<<p, g>> : g \in 0..gen[p]}
    BY <1>3 DEF Past
  <2>2. PICK g \in 0..gen[p] : h = <<p, g>>
    BY <2>1
  <2>3. g \in 0..gen'[p] /\ p \in Born'
    BY <1>1, <2>2, ProcessSteps
  <2>4. h \in {<<p, i>> : i \in 0..gen'[p]}
    BY <2>2, <2>3
  <2> QED BY <2>3, <2>4 DEF Past
<1>4. ASSUME NEW h \in Homes' PROVE h \in Past'
  <2>1. PICK p \in Proc : h = <<p, gen'[p]>> /\ Alive(p)'
    BY <1>4 DEF Homes
  <2>2. p \in Born' /\ gen'[p] \in 0..gen'[p]
    BY <2>1, ProcessSteps DEF Alive, Born
  <2>3. h \in {<<p, i>> : i \in 0..gen'[p]}
    BY <2>1, <2>2
  <2> QED BY <2>2, <2>3 DEF Past
<1> QED BY <1>2, <1>3, <1>4

\* No session has a home at first, and none is up.
LEMMA PinnedInit ==
    ASSUME Init
    PROVE  Pinned!Init
<1>1. \A s \in Session : ~Started(s)
  BY DEF Init, Started
<1>2. Born = {} /\ \A p \in Proc : ~Alive(p)
  BY DEF Init, Born, Alive
<1>3. Homes = {} /\ UNION {{<<p, g>> : g \in 0..gen[p]} : p \in Born} = {}
  BY <1>2 DEF Homes
<1> QED BY <1>1, <1>3 DEF Init, Pinned!Init

\* A first answer or a resumption is a Start, an answer to a run a Step, letting a
\* session go a Close, and everything else processes coming and going.
LEMMA PinnedStep ==
    ASSUME IInv, [Next]_vars
    PROVE  [Pinned!Next]_(Pinned!vars)
<1>p. TypeOK /\ Placed /\ NoForeignState
  BY DEF IInv
<1>w. (Homes' \ Homes) \cap Past = {} /\ Past \cup Homes' \subseteq Past'
  BY HomesAreNew
<1>a. ASSUME \A t \in Session : HomeOf(t)' = HomeOf(t), UNCHANGED steps
      PROVE  Pinned!Churn
  BY <1>a, <1>w DEF Pinned!Churn, HomeOf, Past
<1>c. ASSUME NEW s \in Session, Forgets(s), \A t \in Session : t # s => Still(t)
      PROVE  Pinned!Close(s)
  <2>1. HomeOf(s)' = NoHome /\ \A t \in Session : t # s => HomeOf(t)' = HomeOf(t)
    BY <1>p, <1>c DEF Forgets, Still, HomeOf, Started, TypeOK
  <2>2. steps' = [steps EXCEPT ![s] = 0]
    BY <1>c DEF Forgets
  <2> QED BY <1>w, <2>1, <2>2 DEF Pinned!Close, HomeOf, Past
<1>f. ASSUME NEW s \in Session, Fails(s) \/ Forgets(s), \A t \in Session : t # s => Still(t)
      PROVE  Pinned!Close(s) \/ Pinned!Churn
  <2>1. CASE Forgets(s)
    BY <1>c, <1>f, <2>1
  <2>2. CASE UNCHANGED session
    BY <1>a, <2>2 DEF session, HomeOf, Started
  <2> QED BY <1>f, <2>1, <2>2 DEF Fails
<1>n. ASSUME NEW s \in Session, StepOf(s) PROVE \A t \in Session : t # s => Still(t)
  BY <1>n, OthersAreStill
<1>1. ASSUME NEW s \in Session, Busy(s) \/ Refuse(s) \/ CallDies(s) \/ AnswerError(s) \/ Close(s)
      PROVE  Pinned!Next
  BY <1>1, <1>f, <1>n DEF StepOf, Thread, Busy, Refuse, CallDies, AnswerError, Close, Pinned!Next
<1>2. ASSUME NEW s \in Session, Resume(s) \/ AnswerStart(s)
      PROVE  Pinned!Next
  <2>1. proc[s] \in Born /\ ~Started(s) /\ steps[s] = 0 /\ gen[proc[s]] \in Nat /\ gen[proc[s]] # NoRoot
    BY <1>2, <1>p, BoundAssumption DEF Resume, AnswerStart, Answers, Placed, Born, TypeOK
  <2>2. /\ root' = [root EXCEPT ![s] = gen[proc[s]]]
        /\ UNCHANGED <<proc, steps, gen, os>>
    BY <1>2 DEF Resume, AnswerStart, Answers, Owns, pet
  <2>3. HomeOf(s)' = <<proc[s], gen[proc[s]]>> /\ \A t \in Session : t # s => HomeOf(t)' = HomeOf(t)
    BY <1>p, <2>1, <2>2 DEF HomeOf, Started, TypeOK
  <2>4. <<proc[s], gen[proc[s]]>> \in {<<proc[s], g>> : g \in 0..gen[proc[s]]}
    BY <2>1
  <2>5. <<proc[s], gen[proc[s]]>> \in Past
    BY <2>1, <2>4 DEF Past
  <2>6. steps' = [steps EXCEPT ![s] = 0]
    BY <1>p, <2>1, <2>2 DEF TypeOK
  <2>7. Homes' = Homes /\ Past' = Past
    BY <2>2 DEF Homes, Past, Alive, Born
  <2>8. PICK h \in Past : h = <<proc[s], gen[proc[s]]>>
    BY <2>5
  <2>9. Pinned!Start(s, h)
    BY <2>1, <2>3, <2>6, <2>7, <2>8 DEF Pinned!Start, HomeOf, Past
  <2>10. \E k \in UNION {{<<p, g>> : g \in 0..gen[p]} : p \in Born} : Pinned!Start(s, k)
    BY <2>9 DEF Past
  <2> QED BY <2>10 DEF Pinned!Next
<1>3. ASSUME NEW s \in Session, AnswerRun(s)
      PROVE  Pinned!Next
  <2>1. pc[s] = "calling" /\ Started(s) /\ Alive(proc[s]) /\ UNCHANGED <<proc, root, gen, os>>
    BY <1>3 DEF AnswerRun, Answers
  <2>2. proc[s] \in Proc /\ root[s] = gen[proc[s]]
    BY <1>p, <2>1 DEF Placed, NoForeignState, Born
  <2>3. HomeOf(s) \in Homes
    BY <2>1, <2>2 DEF HomeOf, Homes
  <2>4. /\ \A t \in Session : HomeOf(t)' = HomeOf(t)
        /\ Homes' = Homes /\ Past' = Past
    BY <2>1 DEF HomeOf, Started, Homes, Past, Alive, Born
  <2>5. steps' = [steps EXCEPT ![s] = @ + 1]
    BY <1>3 DEF AnswerRun
  <2>6. Pinned!Step(s)
    BY <2>3, <2>4, <2>5 DEF Pinned!Step, HomeOf, Past
  <2> QED BY <2>6 DEF Pinned!Next
<1>4. ASSUME NEW s \in Session, Refresh(s) \/ Acquire(s)
      PROVE  Pinned!Next
  <2>1. CASE Fails(s) \/ Forgets(s)
    BY <1>4, <1>f, <1>n, <2>1 DEF StepOf, Thread, Pinned!Next
  <2>2. CASE UNCHANGED <<proc, root, steps>>
    BY <1>a, <2>2 DEF HomeOf, Started, Pinned!Next
  <2> QED BY <1>4, <2>1, <2>2 DEF Refresh, Acquire, Renews, session
<1>5. ASSUME NEW s \in Session, PickRunning(s) \/ Spawn(s)
      PROVE  Pinned!Next
  <2>1. ~Started(s) /\ UNCHANGED <<root, steps>>
    BY <1>5, <1>p DEF PickRunning, Spawn, Placed
  <2>2. HomeOf(s)' = HomeOf(s)
    BY <2>1 DEF HomeOf, Started
  <2>3. \A t \in Session : t # s => HomeOf(t)' = HomeOf(t)
    BY <1>5, <1>n DEF StepOf, Thread, Still, HomeOf, Started
  <2> QED BY <1>a, <2>1, <2>2, <2>3 DEF Pinned!Next
<1>6. ASSUME UNCHANGED session PROVE Pinned!Next
  BY <1>a, <1>6 DEF session, HomeOf, Started, Pinned!Next
<1>7. ASSUME NEW s \in Session,
             \/ Open(s) \/ RefreshDone(s) \/ Register(s) \/ Enter(s) \/ HealthDone(s) \/ Call(s)
             \/ TimerFires(s) \/ Cache(s)
      PROVE  UNCHANGED session
  BY <1>7 DEF Open, RefreshDone, Register, Enter, HealthDone, Call, TimerFires, Cache
<1>8. ASSUME OfWorld PROVE UNCHANGED session
  BY <1>8, WorldLeavesSessions
<1> QED BY <1>1, <1>2, <1>3, <1>4, <1>5, <1>6, <1>7, <1>8 DEF Next, Thread, OfWorld

\* The pool implements PinnedSessions: a session's states stay in one run of one
\* process, it steps only while that is up, and no run of a process comes back.
THEOREM SessionsStayPinned == Spec => SessionsArePinned
<1>1. Init => Pinned!Init
  BY PinnedInit
<1>2. IInv /\ [Next]_vars => [Pinned!Next]_(Pinned!vars)
  BY PinnedStep
<1> QED BY <1>1, <1>2, Inductive, PTL DEF Spec, SessionsArePinned, Pinned!Spec
=============================================================================
