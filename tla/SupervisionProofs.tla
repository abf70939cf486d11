-------------------------- MODULE SupervisionProofs --------------------------
(***************************************************************************)
(* What supervision guarantees for any number of launches, graphs,          *)
(* workroots and restarts.  The properties are not inductive: whoever runs  *)
(* or wipes must be known to hold the locks of its place, and where a       *)
(* supervisor stands must say what its child can be.                        *)
(***************************************************************************)
EXTENDS Supervision, TLAPS

-----------------------------------------------------------------------------
(* The inductive invariant *)

\* Whoever is past a lock holds it.
PastMeansHeld ==
    \A l \in Launch :
        /\ at[l] \in {"freshening", "wiping"} => graphLock[GraphOf[l]] = l
        /\ at[l] = "wiping" => workLock[WorkOf[l]] = l
        /\ child[l] \in {"locking", "run"} => graphLock[GraphOf[l]] = l
        /\ child[l] = "run" => workLock[WorkOf[l]] = l

\* A launcher has no child, and a supervisor that waits has lost it.
Places ==
    \A l \in Launch :
        /\ at[l] \in {"typed", "freshening", "wiping", "top"} => child[l] = "none"
        /\ at[l] \in {"wait", "late"} => child[l] \in {"exited", "dead"}

\* What a run works on is there.
RunsHavePlace ==
    \A l \in Launch : child[l] = "run" => GraphOf[l] \in graphs /\ WorkOf[l] \in workroots

\* A supervisor that ended keeps its verdict, and an outcome file in a record of its
\* own is its own child's.
Verdicts ==
    \A l \in Launch :
        /\ verdict[l] # "none" => at[l] = "ended"
        /\ verdict[l] = "terminated" => ~Alive(l)
        /\ verdict[l] = "returned" /\ l \in Recorded => child[l] = "exited"
        /\ outcome[l] # NoOne => l \in Recorded /\ child[l] = "exited"

\* What runs is a living run's, and in a sandbox no worker outlives it.
Workers ==
    \A l \in Launch :
        /\ running[l] # {} => child[l] = "run"
        /\ Sandbox = TRUE => "worker" \notin orphan[l]

IInv ==
    /\ TypeOK
    /\ LocksDieWithTheirHolder
    /\ PastMeansHeld
    /\ Places
    /\ RunsHavePlace
    /\ Verdicts
    /\ Workers

-----------------------------------------------------------------------------
(* Every step keeps the invariant *)

\* Every step keeps the types: a restart is only counted while one is left.
LEMMA TypeKept ==
    ASSUME TypeOK, [Next]_vars
    PROVE  TypeOK'
<1> USE LaunchAssumption, PlaceAssumption, OptionAssumption
        DEF TypeOK, vars, supervisor, run, locks, files
<1>1. ASSUME NEW l \in Launch, LaunchRun(l) PROVE TypeOK'
  BY <1>1 DEF LaunchRun, Ends, Locks
<1>2. ASSUME NEW l \in Launch, FreshLock(l) PROVE TypeOK'
  BY <1>2 DEF FreshLock, Ends, LocksWork, Unlocks
<1>3. ASSUME NEW l \in Launch, FreshStart(l) PROVE TypeOK'
  BY <1>3 DEF FreshStart, Unlocks
<1>4. ASSUME NEW l \in Launch, Supervise(l) PROVE TypeOK'
  BY <1>4 DEF Supervise, StartChild, StateDir, MakesState
<1>5. ASSUME NEW l \in Launch, Restart(l) PROVE TypeOK'
  BY <1>5 DEF Restart, StartChild, StateDir, MakesState
<1>6. ASSUME NEW l \in Launch, Reap(l) PROVE TypeOK'
  BY <1>6 DEF Reap, Ends, StateDir
<1>7. ASSUME NEW l \in Launch, BackoffOver(l) PROVE TypeOK'
  BY <1>7 DEF BackoffOver
<1>8. ASSUME NEW l \in Launch, KillGroup(l) PROVE TypeOK'
  BY <1>8 DEF KillGroup, Dies, Unlocks, Alive
<1>9. ASSUME NEW l \in Launch, Terminated(l) PROVE TypeOK'
  BY <1>9 DEF Terminated, Ends, Alive
<1>10. ASSUME NEW l \in Launch, TakeGraphLock(l) PROVE TypeOK'
  BY <1>10 DEF TakeGraphLock, Locks
<1>11. ASSUME NEW l \in Launch, TakeWorkLock(l) PROVE TypeOK'
  BY <1>11 DEF TakeWorkLock, LocksWork, Unlocks
<1>12. ASSUME NEW l \in Launch, RunEnds(l) PROVE TypeOK'
  BY <1>12 DEF RunEnds, Unlocks
<1>13. ASSUME NEW l \in Launch, WriteOutcome(l) PROVE TypeOK'
  BY <1>13 DEF WriteOutcome, StateDir, MakesState
<1>14. ASSUME NEW l \in Launch, SessionEnds(l) PROVE TypeOK'
  BY <1>14 DEF SessionEnds
<1>15. ASSUME NEW l \in Launch, StartSessions(l) PROVE TypeOK'
  BY <1>15 DEF StartSessions
<1>21. ASSUME NEW l \in Launch, OrphanEnds(l) PROVE TypeOK'
  BY <1>21 DEF OrphanEnds
<1>16. ASSUME NEW l \in Launch, Crash(l) PROVE TypeOK'
  BY <1>16 DEF Crash, Dies, Unlocks, Alive
<1>17. ASSUME NEW l \in Launch, SpawnFails(l) PROVE TypeOK'
  BY <1>17 DEF SpawnFails, Ends, StateDir, MakesState
<1>18. ASSUME NEW l \in Launch, Signal(l) PROVE TypeOK'
  BY <1>18 DEF Signal, Alive
<1>19. ASSUME NEW l \in Launch, SupervisorDies(l) PROVE TypeOK'
  BY <1>19 DEF SupervisorDies, Ends
<1>20. CASE UNCHANGED vars
  BY <1>20
<1> HIDE DEF TypeOK, vars, supervisor, run, locks, files
<1> QED
  BY <1>1, <1>2, <1>3, <1>4, <1>5, <1>6, <1>7, <1>8, <1>9, <1>10,
     <1>11, <1>12, <1>13, <1>14, <1>15, <1>16, <1>17, <1>18, <1>19, <1>20, <1>21
  DEF Next, Supervisor, Child, Outside, Done

\* A lock is taken and given back with the place it is for: no step leaves one behind.
LEMMA LocksKept ==
    ASSUME TypeOK, LocksDieWithTheirHolder, PastMeansHeld, Places, [Next]_vars
    PROVE  LocksDieWithTheirHolder'
<1> USE LaunchAssumption, PlaceAssumption, OptionAssumption
        DEF TypeOK, LocksDieWithTheirHolder, PastMeansHeld, Places, vars, supervisor, run, locks, files
<1>1. ASSUME NEW l \in Launch, LaunchRun(l) PROVE LocksDieWithTheirHolder'
  BY <1>1 DEF LaunchRun, Ends, Locks
<1>2. ASSUME NEW l \in Launch, FreshLock(l) PROVE LocksDieWithTheirHolder'
  BY <1>2 DEF FreshLock, Ends, LocksWork, Unlocks
<1>3. ASSUME NEW l \in Launch, FreshStart(l) PROVE LocksDieWithTheirHolder'
  BY <1>3 DEF FreshStart, Unlocks
<1>4. ASSUME NEW l \in Launch, Supervise(l) PROVE LocksDieWithTheirHolder'
  BY <1>4 DEF Supervise, StartChild, StateDir, MakesState
<1>5. ASSUME NEW l \in Launch, Restart(l) PROVE LocksDieWithTheirHolder'
  BY <1>5 DEF Restart, StartChild, StateDir, MakesState
<1>6. ASSUME NEW l \in Launch, Reap(l) PROVE LocksDieWithTheirHolder'
  BY <1>6 DEF Reap, Ends, StateDir
<1>7. ASSUME NEW l \in Launch, BackoffOver(l) PROVE LocksDieWithTheirHolder'
  BY <1>7 DEF BackoffOver
<1>8. ASSUME NEW l \in Launch, KillGroup(l) PROVE LocksDieWithTheirHolder'
  BY <1>8 DEF KillGroup, Dies, Unlocks, Alive
<1>9. ASSUME NEW l \in Launch, Terminated(l) PROVE LocksDieWithTheirHolder'
  BY <1>9 DEF Terminated, Ends, Alive
<1>10. ASSUME NEW l \in Launch, TakeGraphLock(l) PROVE LocksDieWithTheirHolder'
  BY <1>10 DEF TakeGraphLock, Locks
<1>11. ASSUME NEW l \in Launch, TakeWorkLock(l) PROVE LocksDieWithTheirHolder'
  BY <1>11 DEF TakeWorkLock, LocksWork, Unlocks
<1>12. ASSUME NEW l \in Launch, RunEnds(l) PROVE LocksDieWithTheirHolder'
  BY <1>12 DEF RunEnds, Unlocks
<1>13. ASSUME NEW l \in Launch, WriteOutcome(l) PROVE LocksDieWithTheirHolder'
  BY <1>13 DEF WriteOutcome, StateDir, MakesState
<1>14. ASSUME NEW l \in Launch, SessionEnds(l) PROVE LocksDieWithTheirHolder'
  BY <1>14 DEF SessionEnds
<1>15. ASSUME NEW l \in Launch, StartSessions(l) PROVE LocksDieWithTheirHolder'
  BY <1>15 DEF StartSessions
<1>21. ASSUME NEW l \in Launch, OrphanEnds(l) PROVE LocksDieWithTheirHolder'
  BY <1>21 DEF OrphanEnds
<1>16. ASSUME NEW l \in Launch, Crash(l) PROVE LocksDieWithTheirHolder'
  BY <1>16 DEF Crash, Dies, Unlocks, Alive
<1>17. ASSUME NEW l \in Launch, SpawnFails(l) PROVE LocksDieWithTheirHolder'
  BY <1>17 DEF SpawnFails, Ends, StateDir, MakesState
<1>18. ASSUME NEW l \in Launch, Signal(l) PROVE LocksDieWithTheirHolder'
  BY <1>18 DEF Signal, Alive
<1>19. ASSUME NEW l \in Launch, SupervisorDies(l) PROVE LocksDieWithTheirHolder'
  BY <1>19 DEF SupervisorDies, Ends
<1>20. CASE UNCHANGED vars
  BY <1>20
<1> HIDE DEF TypeOK, LocksDieWithTheirHolder, PastMeansHeld, Places, vars, supervisor, run, locks, files
<1> QED
  BY <1>1, <1>2, <1>3, <1>4, <1>5, <1>6, <1>7, <1>8, <1>9, <1>10,
     <1>11, <1>12, <1>13, <1>14, <1>15, <1>16, <1>17, <1>18, <1>19, <1>20, <1>21
  DEF Next, Supervisor, Child, Outside, Done

\* No step takes a lock from a launcher or a child that is past it.
LEMMA HeldKept ==
    ASSUME TypeOK, LocksDieWithTheirHolder, PastMeansHeld, Places, [Next]_vars
    PROVE  PastMeansHeld'
<1> USE LaunchAssumption, PlaceAssumption, OptionAssumption
        DEF TypeOK, LocksDieWithTheirHolder, PastMeansHeld, Places, vars, supervisor, run, locks, files
<1>1. ASSUME NEW l \in Launch, LaunchRun(l) PROVE PastMeansHeld'
  BY <1>1 DEF LaunchRun, Ends, Locks
<1>2. ASSUME NEW l \in Launch, FreshLock(l) PROVE PastMeansHeld'
  BY <1>2 DEF FreshLock, Ends, LocksWork, Unlocks
<1>3. ASSUME NEW l \in Launch, FreshStart(l) PROVE PastMeansHeld'
  BY <1>3 DEF FreshStart, Unlocks
<1>4. ASSUME NEW l \in Launch, Supervise(l) PROVE PastMeansHeld'
  BY <1>4 DEF Supervise, StartChild, StateDir, MakesState
<1>5. ASSUME NEW l \in Launch, Restart(l) PROVE PastMeansHeld'
  BY <1>5 DEF Restart, StartChild, StateDir, MakesState
<1>6. ASSUME NEW l \in Launch, Reap(l) PROVE PastMeansHeld'
  BY <1>6 DEF Reap, Ends, StateDir
<1>7. ASSUME NEW l \in Launch, BackoffOver(l) PROVE PastMeansHeld'
  BY <1>7 DEF BackoffOver
<1>8. ASSUME NEW l \in Launch, KillGroup(l) PROVE PastMeansHeld'
  BY <1>8 DEF KillGroup, Dies, Unlocks, Alive
<1>9. ASSUME NEW l \in Launch, Terminated(l) PROVE PastMeansHeld'
  BY <1>9 DEF Terminated, Ends, Alive
<1>10. ASSUME NEW l \in Launch, TakeGraphLock(l) PROVE PastMeansHeld'
  BY <1>10 DEF TakeGraphLock, Locks
<1>11. ASSUME NEW l \in Launch, TakeWorkLock(l) PROVE PastMeansHeld'
  BY <1>11 DEF TakeWorkLock, LocksWork, Unlocks
<1>12. ASSUME NEW l \in Launch, RunEnds(l) PROVE PastMeansHeld'
  BY <1>12 DEF RunEnds, Unlocks
<1>13. ASSUME NEW l \in Launch, WriteOutcome(l) PROVE PastMeansHeld'
  BY <1>13 DEF WriteOutcome, StateDir, MakesState
<1>14. ASSUME NEW l \in Launch, SessionEnds(l) PROVE PastMeansHeld'
  BY <1>14 DEF SessionEnds
<1>15. ASSUME NEW l \in Launch, StartSessions(l) PROVE PastMeansHeld'
  BY <1>15 DEF StartSessions
<1>21. ASSUME NEW l \in Launch, OrphanEnds(l) PROVE PastMeansHeld'
  BY <1>21 DEF OrphanEnds
<1>16. ASSUME NEW l \in Launch, Crash(l) PROVE PastMeansHeld'
  BY <1>16 DEF Crash, Dies, Unlocks, Alive
<1>17. ASSUME NEW l \in Launch, SpawnFails(l) PROVE PastMeansHeld'
  BY <1>17 DEF SpawnFails, Ends, StateDir, MakesState
<1>18. ASSUME NEW l \in Launch, Signal(l) PROVE PastMeansHeld'
  BY <1>18 DEF Signal, Alive
<1>19. ASSUME NEW l \in Launch, SupervisorDies(l) PROVE PastMeansHeld'
  BY <1>19 DEF SupervisorDies, Ends
<1>20. CASE UNCHANGED vars
  BY <1>20
<1> HIDE DEF TypeOK, LocksDieWithTheirHolder, PastMeansHeld, Places, vars, supervisor, run, locks, files
<1> QED
  BY <1>1, <1>2, <1>3, <1>4, <1>5, <1>6, <1>7, <1>8, <1>9, <1>10,
     <1>11, <1>12, <1>13, <1>14, <1>15, <1>16, <1>17, <1>18, <1>19, <1>20, <1>21
  DEF Next, Supervisor, Child, Outside, Done

\* A child moves only while its supervisor watches it, or after that one is gone.
LEMMA PlacesKept ==
    ASSUME TypeOK, Places, [Next]_vars
    PROVE  Places'
<1> USE LaunchAssumption, PlaceAssumption, OptionAssumption
        DEF TypeOK, Places, vars, supervisor, run, locks, files
<1>1. ASSUME NEW l \in Launch, LaunchRun(l) PROVE Places'
  BY <1>1 DEF LaunchRun, Ends, Locks
<1>2. ASSUME NEW l \in Launch, FreshLock(l) PROVE Places'
  BY <1>2 DEF FreshLock, Ends, LocksWork, Unlocks
<1>3. ASSUME NEW l \in Launch, FreshStart(l) PROVE Places'
  BY <1>3 DEF FreshStart, Unlocks
<1>4. ASSUME NEW l \in Launch, Supervise(l) PROVE Places'
  BY <1>4 DEF Supervise, StartChild, StateDir, MakesState
<1>5. ASSUME NEW l \in Launch, Restart(l) PROVE Places'
  BY <1>5 DEF Restart, StartChild, StateDir, MakesState
<1>6. ASSUME NEW l \in Launch, Reap(l) PROVE Places'
  BY <1>6 DEF Reap, Ends, StateDir
<1>7. ASSUME NEW l \in Launch, BackoffOver(l) PROVE Places'
  BY <1>7 DEF BackoffOver
<1>8. ASSUME NEW l \in Launch, KillGroup(l) PROVE Places'
  BY <1>8 DEF KillGroup, Dies, Unlocks, Alive
<1>9. ASSUME NEW l \in Launch, Terminated(l) PROVE Places'
  BY <1>9 DEF Terminated, Ends, Alive
<1>10. ASSUME NEW l \in Launch, TakeGraphLock(l) PROVE Places'
  BY <1>10 DEF TakeGraphLock, Locks
<1>11. ASSUME NEW l \in Launch, TakeWorkLock(l) PROVE Places'
  BY <1>11 DEF TakeWorkLock, LocksWork, Unlocks
<1>12. ASSUME NEW l \in Launch, RunEnds(l) PROVE Places'
  BY <1>12 DEF RunEnds, Unlocks
<1>13. ASSUME NEW l \in Launch, WriteOutcome(l) PROVE Places'
  BY <1>13 DEF WriteOutcome, StateDir, MakesState
<1>14. ASSUME NEW l \in Launch, SessionEnds(l) PROVE Places'
  BY <1>14 DEF SessionEnds
<1>15. ASSUME NEW l \in Launch, StartSessions(l) PROVE Places'
  BY <1>15 DEF StartSessions
<1>21. ASSUME NEW l \in Launch, OrphanEnds(l) PROVE Places'
  BY <1>21 DEF OrphanEnds
<1>16. ASSUME NEW l \in Launch, Crash(l) PROVE Places'
  BY <1>16 DEF Crash, Dies, Unlocks, Alive
<1>17. ASSUME NEW l \in Launch, SpawnFails(l) PROVE Places'
  BY <1>17 DEF SpawnFails, Ends, StateDir, MakesState
<1>18. ASSUME NEW l \in Launch, Signal(l) PROVE Places'
  BY <1>18 DEF Signal, Alive
<1>19. ASSUME NEW l \in Launch, SupervisorDies(l) PROVE Places'
  BY <1>19 DEF SupervisorDies, Ends
<1>20. CASE UNCHANGED vars
  BY <1>20
<1> HIDE DEF TypeOK, Places, vars, supervisor, run, locks, files
<1> QED
  BY <1>1, <1>2, <1>3, <1>4, <1>5, <1>6, <1>7, <1>8, <1>9, <1>10,
     <1>11, <1>12, <1>13, <1>14, <1>15, <1>16, <1>17, <1>18, <1>19, <1>20, <1>21
  DEF Next, Supervisor, Child, Outside, Done

\* A fresh start wipes only what no run holds.
LEMMA PlaceKept ==
    ASSUME TypeOK, LocksDieWithTheirHolder, PastMeansHeld, Places, RunsHavePlace, [Next]_vars
    PROVE  RunsHavePlace'
<1> USE LaunchAssumption, PlaceAssumption, OptionAssumption
        DEF TypeOK, LocksDieWithTheirHolder, PastMeansHeld, Places, RunsHavePlace, vars, supervisor, run, locks, files
<1>1. ASSUME NEW l \in Launch, LaunchRun(l) PROVE RunsHavePlace'
  BY <1>1 DEF LaunchRun, Ends, Locks
<1>2. ASSUME NEW l \in Launch, FreshLock(l) PROVE RunsHavePlace'
  BY <1>2 DEF FreshLock, Ends, LocksWork, Unlocks
<1>3. ASSUME NEW l \in Launch, FreshStart(l) PROVE RunsHavePlace'
  BY <1>3 DEF FreshStart, Unlocks
<1>4. ASSUME NEW l \in Launch, Supervise(l) PROVE RunsHavePlace'
  BY <1>4 DEF Supervise, StartChild, StateDir, MakesState
<1>5. ASSUME NEW l \in Launch, Restart(l) PROVE RunsHavePlace'
  BY <1>5 DEF Restart, StartChild, StateDir, MakesState
<1>6. ASSUME NEW l \in Launch, Reap(l) PROVE RunsHavePlace'
  BY <1>6 DEF Reap, Ends, StateDir
<1>7. ASSUME NEW l \in Launch, BackoffOver(l) PROVE RunsHavePlace'
  BY <1>7 DEF BackoffOver
<1>8. ASSUME NEW l \in Launch, KillGroup(l) PROVE RunsHavePlace'
  BY <1>8 DEF KillGroup, Dies, Unlocks, Alive
<1>9. ASSUME NEW l \in Launch, Terminated(l) PROVE RunsHavePlace'
  BY <1>9 DEF Terminated, Ends, Alive
<1>10. ASSUME NEW l \in Launch, TakeGraphLock(l) PROVE RunsHavePlace'
  BY <1>10 DEF TakeGraphLock, Locks
<1>11. ASSUME NEW l \in Launch, TakeWorkLock(l) PROVE RunsHavePlace'
  BY <1>11 DEF TakeWorkLock, LocksWork, Unlocks
<1>12. ASSUME NEW l \in Launch, RunEnds(l) PROVE RunsHavePlace'
  BY <1>12 DEF RunEnds, Unlocks
<1>13. ASSUME NEW l \in Launch, WriteOutcome(l) PROVE RunsHavePlace'
  BY <1>13 DEF WriteOutcome, StateDir, MakesState
<1>14. ASSUME NEW l \in Launch, SessionEnds(l) PROVE RunsHavePlace'
  BY <1>14 DEF SessionEnds
<1>15. ASSUME NEW l \in Launch, StartSessions(l) PROVE RunsHavePlace'
  BY <1>15 DEF StartSessions
<1>21. ASSUME NEW l \in Launch, OrphanEnds(l) PROVE RunsHavePlace'
  BY <1>21 DEF OrphanEnds
<1>16. ASSUME NEW l \in Launch, Crash(l) PROVE RunsHavePlace'
  BY <1>16 DEF Crash, Dies, Unlocks, Alive
<1>17. ASSUME NEW l \in Launch, SpawnFails(l) PROVE RunsHavePlace'
  BY <1>17 DEF SpawnFails, Ends, StateDir, MakesState
<1>18. ASSUME NEW l \in Launch, Signal(l) PROVE RunsHavePlace'
  BY <1>18 DEF Signal, Alive
<1>19. ASSUME NEW l \in Launch, SupervisorDies(l) PROVE RunsHavePlace'
  BY <1>19 DEF SupervisorDies, Ends
<1>20. CASE UNCHANGED vars
  BY <1>20
<1> HIDE DEF TypeOK, LocksDieWithTheirHolder, PastMeansHeld, Places, RunsHavePlace, vars, supervisor, run, locks, files
<1> QED
  BY <1>1, <1>2, <1>3, <1>4, <1>5, <1>6, <1>7, <1>8, <1>9, <1>10,
     <1>11, <1>12, <1>13, <1>14, <1>15, <1>16, <1>17, <1>18, <1>19, <1>20, <1>21
  DEF Next, Supervisor, Child, Outside, Done

\* A verdict is final, and so is what it was given for.
LEMMA VerdictsKept ==
    ASSUME TypeOK, Places, Verdicts, [Next]_vars
    PROVE  Verdicts'
<1> USE LaunchAssumption, PlaceAssumption, OptionAssumption
        DEF TypeOK, Places, Verdicts, Alive, vars, supervisor, run, locks, files
<1>1. ASSUME NEW l \in Launch, LaunchRun(l) PROVE Verdicts'
  BY <1>1 DEF LaunchRun, Ends, Locks
<1>2. ASSUME NEW l \in Launch, FreshLock(l) PROVE Verdicts'
  BY <1>2 DEF FreshLock, Ends, LocksWork, Unlocks
<1>3. ASSUME NEW l \in Launch, FreshStart(l) PROVE Verdicts'
  BY <1>3 DEF FreshStart, Unlocks
<1>4. ASSUME NEW l \in Launch, Supervise(l) PROVE Verdicts'
  BY <1>4 DEF Supervise, StartChild, StateDir, MakesState
<1>5. ASSUME NEW l \in Launch, Restart(l) PROVE Verdicts'
  BY <1>5 DEF Restart, StartChild, StateDir, MakesState
<1>6. ASSUME NEW l \in Launch, Reap(l) PROVE Verdicts'
  BY <1>6 DEF Reap, Ends, StateDir
<1>7. ASSUME NEW l \in Launch, BackoffOver(l) PROVE Verdicts'
  BY <1>7 DEF BackoffOver
<1>8. ASSUME NEW l \in Launch, KillGroup(l) PROVE Verdicts'
  BY <1>8 DEF KillGroup, Dies, Unlocks
<1>9. ASSUME NEW l \in Launch, Terminated(l) PROVE Verdicts'
  BY <1>9 DEF Terminated, Ends
<1>10. ASSUME NEW l \in Launch, TakeGraphLock(l) PROVE Verdicts'
  BY <1>10 DEF TakeGraphLock, Locks
<1>11. ASSUME NEW l \in Launch, TakeWorkLock(l) PROVE Verdicts'
  BY <1>11 DEF TakeWorkLock, LocksWork, Unlocks
<1>12. ASSUME NEW l \in Launch, RunEnds(l) PROVE Verdicts'
  BY <1>12 DEF RunEnds, Unlocks
<1>13. ASSUME NEW l \in Launch, WriteOutcome(l) PROVE Verdicts'
  BY <1>13 DEF WriteOutcome, StateDir, MakesState
<1>14. ASSUME NEW l \in Launch, SessionEnds(l) PROVE Verdicts'
  BY <1>14 DEF SessionEnds
<1>15. ASSUME NEW l \in Launch, StartSessions(l) PROVE Verdicts'
  BY <1>15 DEF StartSessions
<1>21. ASSUME NEW l \in Launch, OrphanEnds(l) PROVE Verdicts'
  BY <1>21 DEF OrphanEnds
<1>16. ASSUME NEW l \in Launch, Crash(l) PROVE Verdicts'
  BY <1>16 DEF Crash, Dies, Unlocks
<1>17. ASSUME NEW l \in Launch, SpawnFails(l) PROVE Verdicts'
  BY <1>17 DEF SpawnFails, Ends, StateDir, MakesState
<1>18. ASSUME NEW l \in Launch, Signal(l) PROVE Verdicts'
  BY <1>18 DEF Signal
<1>19. ASSUME NEW l \in Launch, SupervisorDies(l) PROVE Verdicts'
  BY <1>19 DEF SupervisorDies, Ends
<1>20. CASE UNCHANGED vars
  BY <1>20
<1> HIDE DEF TypeOK, Places, Verdicts, Alive, vars, supervisor, run, locks, files
<1> QED
  BY <1>1, <1>2, <1>3, <1>4, <1>5, <1>6, <1>7, <1>8, <1>9, <1>10,
     <1>11, <1>12, <1>13, <1>14, <1>15, <1>16, <1>17, <1>18, <1>19, <1>20, <1>21
  DEF Next, Supervisor, Child, Outside, Done

\* A worker does not outlive its child in a sandbox.
LEMMA WorkersKept ==
    ASSUME TypeOK, Places, Workers, [Next]_vars
    PROVE  Workers'
<1> USE LaunchAssumption, PlaceAssumption, OptionAssumption
        DEF TypeOK, Places, Workers, vars, supervisor, run, locks, files
<1>1. ASSUME NEW l \in Launch, LaunchRun(l) PROVE Workers'
  BY <1>1 DEF LaunchRun, Ends, Locks
<1>2. ASSUME NEW l \in Launch, FreshLock(l) PROVE Workers'
  BY <1>2 DEF FreshLock, Ends, LocksWork, Unlocks
<1>3. ASSUME NEW l \in Launch, FreshStart(l) PROVE Workers'
  BY <1>3 DEF FreshStart, Unlocks
<1>4. ASSUME NEW l \in Launch, Supervise(l) PROVE Workers'
  BY <1>4 DEF Supervise, StartChild, StateDir, MakesState
<1>5. ASSUME NEW l \in Launch, Restart(l) PROVE Workers'
  BY <1>5 DEF Restart, StartChild, StateDir, MakesState
<1>6. ASSUME NEW l \in Launch, Reap(l) PROVE Workers'
  BY <1>6 DEF Reap, Ends, StateDir
<1>7. ASSUME NEW l \in Launch, BackoffOver(l) PROVE Workers'
  BY <1>7 DEF BackoffOver
<1>8. ASSUME NEW l \in Launch, KillGroup(l) PROVE Workers'
  BY <1>8 DEF KillGroup, Dies, Unlocks, Alive
<1>9. ASSUME NEW l \in Launch, Terminated(l) PROVE Workers'
  BY <1>9 DEF Terminated, Ends, Alive
<1>10. ASSUME NEW l \in Launch, TakeGraphLock(l) PROVE Workers'
  BY <1>10 DEF TakeGraphLock, Locks
<1>11. ASSUME NEW l \in Launch, TakeWorkLock(l) PROVE Workers'
  BY <1>11 DEF TakeWorkLock, LocksWork, Unlocks
<1>12. ASSUME NEW l \in Launch, RunEnds(l) PROVE Workers'
  BY <1>12 DEF RunEnds, Unlocks
<1>13. ASSUME NEW l \in Launch, WriteOutcome(l) PROVE Workers'
  BY <1>13 DEF WriteOutcome, StateDir, MakesState
<1>14. ASSUME NEW l \in Launch, SessionEnds(l) PROVE Workers'
  BY <1>14 DEF SessionEnds
<1>15. ASSUME NEW l \in Launch, StartSessions(l) PROVE Workers'
  BY <1>15 DEF StartSessions
<1>21. ASSUME NEW l \in Launch, OrphanEnds(l) PROVE Workers'
  BY <1>21 DEF OrphanEnds
<1>16. ASSUME NEW l \in Launch, Crash(l) PROVE Workers'
  BY <1>16 DEF Crash, Dies, Unlocks, Alive
<1>17. ASSUME NEW l \in Launch, SpawnFails(l) PROVE Workers'
  BY <1>17 DEF SpawnFails, Ends, StateDir, MakesState
<1>18. ASSUME NEW l \in Launch, Signal(l) PROVE Workers'
  BY <1>18 DEF Signal, Alive
<1>19. ASSUME NEW l \in Launch, SupervisorDies(l) PROVE Workers'
  BY <1>19 DEF SupervisorDies, Ends
<1>20. CASE UNCHANGED vars
  BY <1>20
<1> HIDE DEF TypeOK, Places, Workers, vars, supervisor, run, locks, files
<1> QED
  BY <1>1, <1>2, <1>3, <1>4, <1>5, <1>6, <1>7, <1>8, <1>9, <1>10,
     <1>11, <1>12, <1>13, <1>14, <1>15, <1>16, <1>17, <1>18, <1>19, <1>20, <1>21
  DEF Next, Supervisor, Child, Outside, Done
-----------------------------------------------------------------------------
(* The theorems *)

\* The invariant holds initially.
LEMMA InitIsSound == Init => IInv
<1> SUFFICES ASSUME Init PROVE IInv
  OBVIOUS
<1> USE LaunchAssumption, PlaceAssumption, OptionAssumption DEF Init
<1>1. TypeOK
  BY DEF TypeOK
<1>2. LocksDieWithTheirHolder
  BY DEF LocksDieWithTheirHolder
<1>3. PastMeansHeld /\ Places /\ RunsHavePlace
  BY DEF PastMeansHeld, Places, RunsHavePlace
<1>4. Verdicts /\ Workers
  BY DEF Verdicts, Workers, Alive
<1> QED
  BY <1>1, <1>2, <1>3, <1>4 DEF IInv

\* It is inductive: whatever launches, children, signals and crashes cross.
THEOREM Inductive == Spec => []IInv
<1>1. IInv /\ [Next]_vars => IInv'
  <2> SUFFICES ASSUME IInv, [Next]_vars PROVE IInv'
    OBVIOUS
  <2>1. TypeOK'
    BY TypeKept DEF IInv
  <2>2. LocksDieWithTheirHolder' /\ PastMeansHeld' /\ Places'
    BY LocksKept, HeldKept, PlacesKept DEF IInv
  <2>3. RunsHavePlace'
    BY PlaceKept DEF IInv
  <2>4. Verdicts' /\ Workers'
    BY VerdictsKept, WorkersKept DEF IInv
  <2> QED
    BY <2>1, <2>2, <2>3, <2>4 DEF IInv
<1> QED
  BY <1>1, InitIsSound, PTL DEF Spec

\* Supervisors, children, locks and files keep to their values, and no supervisor
\* restarts its run more often than it may.
THEOREM TypeCorrect == Spec => []TypeOK
<1>1. IInv => TypeOK
  BY DEF IInv
<1> QED
  BY <1>1, Inductive, PTL

\* A lock is held by a live process past it: a crash never wedges the next run.
THEOREM LocksAreOfTheLiving == Spec => []LocksDieWithTheirHolder
<1>1. IInv => LocksDieWithTheirHolder
  BY DEF IInv
<1> QED
  BY <1>1, Inductive, PTL

\* One run at a time writes a graph or a workroot, and a fresh start pulls neither
\* from under it, for any number of launches that share them.
THEOREM RunsAreExclusive == Spec => []RunsAreAlone
<1>1. IInv => RunsAreAlone
  <2> SUFFICES ASSUME IInv, NEW l \in Launch, child[l] = "run"
               PROVE  /\ GraphOf[l] \in graphs /\ WorkOf[l] \in workroots
                      /\ \A m \in Launch \ {l} : child[m] = "run" =>
                             GraphOf[m] # GraphOf[l] /\ WorkOf[m] # WorkOf[l]
    BY DEF RunsAreAlone
  <2>1. GraphOf[l] \in graphs /\ WorkOf[l] \in workroots
    BY DEF IInv, RunsHavePlace
  <2>2. ASSUME NEW m \in Launch \ {l}, child[m] = "run"
        PROVE  GraphOf[m] # GraphOf[l] /\ WorkOf[m] # WorkOf[l]
    <3>1. graphLock[GraphOf[m]] = m /\ workLock[WorkOf[m]] = m
      BY <2>2 DEF IInv, PastMeansHeld
    <3>2. graphLock[GraphOf[l]] = l /\ workLock[WorkOf[l]] = l
      BY DEF IInv, PastMeansHeld
    <3> QED
      BY <3>1, <3>2
  <2> QED
    BY <2>1, <2>2
<1> QED
  BY <1>1, Inductive, PTL

\* When every launch records, a supervisor calls its run finished only when the
\* child it watched last returned: no other run's outcome is read for its own.
THEOREM FinishedIsOwn ==
    ASSUME Recorded = Launch
    PROVE  Spec => []FinishedMeansReturned
<1>1. IInv => FinishedMeansReturned
  BY DEF IInv, Verdicts, FinishedMeansReturned
<1> QED
  BY <1>1, Inductive, PTL

\* In a sandbox, a supervisor that was terminated leaves no child, no worker of any of
\* its tries and no lock behind.
THEOREM TerminationIsComplete ==
    ASSUME Sandbox = TRUE
    PROVE  Spec => []TerminatedMeansStopped
<1>1. IInv => TerminatedMeansStopped
  <2> SUFFICES ASSUME IInv, NEW l \in Launch, verdict[l] = "terminated"
               PROVE  /\ ~Alive(l) /\ running[l] = {} /\ "worker" \notin orphan[l]
                      /\ graphLock[GraphOf[l]] # l /\ workLock[WorkOf[l]] # l
    BY DEF TerminatedMeansStopped
  <2>1. ~Alive(l) /\ at[l] = "ended"
    BY DEF IInv, Verdicts
  <2>2. running[l] = {}
    BY <2>1 DEF IInv, Workers, Alive
  <2>3. "worker" \notin orphan[l]
    BY DEF IInv, Workers
  <2>4. graphLock[GraphOf[l]] # l /\ workLock[WorkOf[l]] # l
    BY <2>1, LaunchAssumption, PlaceAssumption DEF IInv, LocksDieWithTheirHolder, Alive
  <2> QED
    BY <2>1, <2>2, <2>3, <2>4
<1> QED
  BY <1>1, Inductive, PTL
=============================================================================
