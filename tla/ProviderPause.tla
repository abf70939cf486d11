---------------------------- MODULE ProviderPause ----------------------------
(***************************************************************************)
(* The one pause of a run, and the coroutines of a dispatch that share it.  *)
(* The first attempt to end in a provider outage holds the pause: it clears *)
(* the event and probes, with a bounded backoff, until the provider answers *)
(* or the wait is spent.  Later outages join it.  A coroutine waits on the  *)
(* event before it queues for a slot; an attempt that has its slot runs on. *)
(*                                                                          *)
(* Time is counted in the shortest backoff step.  A step of a coroutine is   *)
(* what it does between two suspensions of the event loop.                  *)
(***************************************************************************)
EXTENDS Integers, Sequences, FiniteSets

CONSTANTS
    Dispatcher,     \* the run_node coroutines of one dispatch
    NoOne,
    Concurrency,    \* slots of the semaphore
    MaxAttempts,    \* attempts left to each node
    MaxOutages,     \* MAX_OUTAGE_RETRIES
    MaxWait,        \* PausePolicy.max_wait_s
    Backoff,        \* BACKOFF_S
    ResetGrace,     \* RESET_GRACE_S
    RepauseGrace,   \* REPAUSE_GRACE_S
    ProbeTime,      \* PROBE_TIMEOUT_S: the longest a probe runs
    ResetsIn        \* bound: how far ahead a message may put the window's reset

ASSUME DispatcherAssumption == IsFiniteSet(Dispatcher) /\ NoOne \notin Dispatcher
ASSUME CountsAssumption == /\ Concurrency \in Nat \ {0} /\ MaxAttempts \in Nat \ {0}
                           /\ MaxOutages \in Nat
ASSUME TimesAssumption == /\ MaxWait \in Nat \ {0} /\ ProbeTime \in Nat
                          /\ ResetGrace \in Nat /\ RepauseGrace \in Nat
                          /\ ResetsIn \subseteq Nat
ASSUME BackoffAssumption == /\ Backoff \in Seq(Nat \ {0}) /\ Backoff # << >>
                            /\ Backoff[1] <= RepauseGrace

\* What error evidence names, and what of it is worth waiting for.
Kinds == {"unauthenticated", "rate_limited", "provider_unreachable", "cli_missing"}
Retryable == Kinds \ {"cli_missing"}

VARIABLES
    resume,      \* the event: TRUE when nothing is paused
    holder,      \* the coroutine inside hold(), NoOne when `current` is None
    exhausted,   \* an earlier wait was spent
    doing,       \* what the holder waits for: "reset", "probe", "backoff", or "none"
    sleep,       \* how much of its sleep is left
    waited,      \* how long this pause has lasted
    tries,       \* backoff steps taken; past the last rung they are not told apart
    distrust,    \* the next probe is not asked: its answer counts as no
    probing,     \* how long the present probe has run
    since,       \* time since the last resume, up to RepauseGrace
    at,          \* where each coroutine is
    queue,       \* coroutines waiting for a slot, in order
    charged,     \* attempts charged to each node
    outages      \* outages each coroutine has met

pause == <<resume, holder, exhausted>>
wait == <<doing, sleep, waited, tries, distrust, probing>>
dispatch == <<at, queue, charged, outages>>
vars == <<pause, wait, since, dispatch>>

Least(a, b) == IF a < b THEN a ELSE b

Ended == {"proved", "stuck", "error", "outage"}
Place == Ended \cup {"new", "waiting", "released", "queued", "granted", "running",
                     "holding", "joined", "woken"}
Seated(to) == {d \in Dispatcher : to[d] \in {"granted", "running"}}
Waiting(d) == at[d] \in {"waiting", "joined"}

-----------------------------------------------------------------------------
(* The semaphore and the loop head *)

\* Each coroutine goes to the place `to` gives it; `left` is the queue then.  Free
\* slots are handed over in order, to coroutines that run later.
Seat(to, left) ==
    LET k == Least(Len(left), Concurrency - Cardinality(Seated(to)))
    IN /\ at' = [d \in Dispatcher |->
                    IF \E i \in 1..k : left[i] = d THEN "granted" ELSE to[d]]
       /\ queue' = SubSeq(left, k + 1, Len(left))

\* d asks for a slot, the others being at `to`.
Arrive(d, to) ==
    IF Cardinality(Seated(to)) < Concurrency /\ queue = << >>
    THEN at' = [to EXCEPT ![d] = "running"] /\ UNCHANGED queue
    ELSE Seat([to EXCEPT ![d] = "queued"], Append(queue, d))

\* The head of run_node's loop: the budget, the pause, a slot.
LoopHead(d, to, spent) ==
    IF spent >= MaxAttempts THEN Seat([to EXCEPT ![d] = "stuck"], queue)
    ELSE IF ~resume THEN Seat([to EXCEPT ![d] = "waiting"], queue)
    ELSE Arrive(d, to)

Begin(d) ==
    /\ at[d] = "new"
    /\ LoopHead(d, at, charged[d])
    /\ UNCHANGED <<pause, wait, since, charged, outages>>

\* Event.wait() does not look at the event again when its waiter runs.
PassPause(d) ==
    /\ at[d] = "released"
    /\ Arrive(d, at)
    /\ UNCHANGED <<pause, wait, since, charged, outages>>

StartAttempt(d) ==
    /\ at[d] = "granted"
    /\ at' = [at EXCEPT ![d] = "running"]
    /\ UNCHANGED <<pause, wait, since, queue, charged, outages>>

-----------------------------------------------------------------------------
(* Attempts end *)

Answered(d) ==
    /\ at[d] = "running"
    /\ \E to \in {"proved", "error"} : Seat([at EXCEPT ![d] = to], queue)
    /\ charged' = [charged EXCEPT ![d] = IF at'[d] = "proved" THEN @ + 1 ELSE @]
    /\ UNCHANGED <<pause, wait, since, outages>>

Failed(d) ==
    /\ at[d] = "running"
    /\ charged' = [charged EXCEPT ![d] = @ + 1]
    /\ LoopHead(d, [at EXCEPT ![d] = "new"], charged[d] + 1)
    /\ UNCHANGED <<pause, wait, since, outages>>

\* A faulty variant: an answer of the probe is always believed.
NeverFlaps == FALSE

\* The provider failed again soon after it answered a probe.
Flaps == since < RepauseGrace

\* hold(), up to its first suspension: the wait for the reset, or the first probe.
Hold(d) ==
    /\ resume' = FALSE /\ holder' = d /\ UNCHANGED exhausted
    /\ waited' = 0 /\ tries' = 0 /\ probing' = 0
    /\ distrust' = Flaps
    /\ \/ doing' = "probe" /\ sleep' = 0
       \/ \E r \in ResetsIn :
            /\ sleep' = Least(r + ResetGrace, MaxWait)
            /\ doing' = IF sleep' > 0 THEN "reset" ELSE "probe"

\* The outage parks the node instead of pausing the run.
GivesUp(d) == outages[d] >= MaxOutages \/ exhausted

\* The row is closed as an error, which charges nothing, and the slot is free.  An
\* outage no wait can mend is an error like any other.
Outage(d) ==
    /\ at[d] = "running"
    /\ \E kind \in Kinds :
        IF kind \notin Retryable
        THEN /\ Seat([at EXCEPT ![d] = "error"], queue)
             /\ UNCHANGED <<pause, wait, outages>>
        ELSE /\ outages' = [outages EXCEPT ![d] = @ + 1]
             /\ IF GivesUp(d)
                THEN Seat([at EXCEPT ![d] = "outage"], queue) /\ UNCHANGED <<pause, wait>>
                ELSE IF holder # NoOne
                THEN Seat([at EXCEPT ![d] = "joined"], queue) /\ UNCHANGED <<pause, wait>>
                ELSE Seat([at EXCEPT ![d] = "holding"], queue) /\ Hold(d)
    /\ UNCHANGED <<since, charged>>

\* A coroutine that joined the pause: try again, or give up with the holder.
Rejoin(d) ==
    /\ at[d] = "woken"
    /\ IF exhausted THEN Seat([at EXCEPT ![d] = "outage"], queue)
                    ELSE LoopHead(d, at, charged[d])
    /\ UNCHANGED <<pause, wait, since, charged, outages>>

-----------------------------------------------------------------------------
(* wait_for_provider *)

\* A faulty variant: the coroutines that joined the pause are not woken.
AwakeDispatch ==
    [d \in Dispatcher |-> IF at[d] = "waiting" THEN "released" ELSE at[d]]

\* Every waiter of the event is made ready to run.
Awake ==
    [d \in Dispatcher |-> CASE at[d] = "waiting" -> "released"
                            [] at[d] = "joined" -> "woken"
                            [] OTHER -> at[d]]

\* hold() returns: the event is set, and its own coroutine goes on at once.
Release(ok) ==
    /\ resume' = TRUE /\ holder' = NoOne
    /\ exhausted' = ~ok
    /\ since' = IF ok THEN 0 ELSE since
    /\ doing' = "none" /\ sleep' = 0 /\ waited' = 0 /\ tries' = 0
    /\ distrust' = FALSE /\ probing' = 0
    /\ IF ok THEN Arrive(holder, Awake)
             ELSE Seat([Awake EXCEPT ![holder] = "outage"], queue)
    /\ UNCHANGED <<charged, outages>>

BackOff ==
    /\ doing' = "backoff"
    /\ sleep' = Least(Backoff[Least(tries + 1, Len(Backoff))], MaxWait - waited)
    /\ distrust' = FALSE /\ probing' = 0
    /\ UNCHANGED <<pause, waited, tries, since, dispatch>>

\* A faulty variant: the wait is spent a moment after its last step.
WaitOverspent == waited > MaxWait

WaitSpent == waited >= MaxWait

\* The probe answers yes, no, or that it cannot tell.
Probe ==
    /\ doing = "probe"
    /\ \E answer \in {"yes", "no", "unknown"} :
        /\ distrust => answer = "no"
        /\ IF answer = "yes" \/ (answer = "unknown" /\ tries >= 1) THEN Release(TRUE)
           ELSE IF WaitSpent THEN Release(FALSE)
           ELSE BackOff

SleepOver ==
    /\ doing \in {"reset", "backoff"} /\ sleep = 0
    /\ doing' = "probe"
    /\ tries' = IF doing = "backoff" THEN Least(tries + 1, Len(Backoff)) ELSE tries
    /\ UNCHANGED <<pause, sleep, waited, distrust, probing, since, dispatch>>

\* Time passes when no coroutine is ready to run and no sleep is over.
Idle == /\ \A d \in Dispatcher : at[d] \notin {"new", "released", "woken", "granted"}
        /\ CASE doing = "none" -> since < RepauseGrace
             [] doing = "probe" -> probing < ProbeTime /\ ~distrust
             [] OTHER -> sleep > 0

Tick ==
    /\ Idle
    /\ since' = Least(since + 1, RepauseGrace)
    /\ IF doing = "none" THEN UNCHANGED wait
       ELSE /\ waited' = waited + 1
            /\ sleep' = IF doing = "probe" THEN 0 ELSE sleep - 1
            /\ probing' = IF doing = "probe" THEN probing + 1 ELSE 0
            /\ UNCHANGED <<doing, tries, distrust>>
    /\ UNCHANGED <<pause, dispatch>>

Done == (\A d \in Dispatcher : at[d] \in Ended) /\ UNCHANGED vars

-----------------------------------------------------------------------------
Init ==
    /\ resume = TRUE /\ holder = NoOne /\ exhausted = FALSE
    /\ doing = "none" /\ sleep = 0 /\ waited = 0 /\ tries = 0
    /\ distrust = FALSE /\ probing = 0
    /\ since = RepauseGrace
    /\ at = [d \in Dispatcher |-> "new"]
    /\ queue = << >>
    /\ charged = [d \in Dispatcher |-> 0]
    /\ outages = [d \in Dispatcher |-> 0]

Coroutine(d) ==
    \/ Begin(d) \/ PassPause(d) \/ StartAttempt(d)
    \/ Answered(d) \/ Failed(d) \/ Outage(d) \/ Rejoin(d)

Next == (\E d \in Dispatcher : Coroutine(d)) \/ Probe \/ SleepOver \/ Tick \/ Done

Spec == Init /\ [][Next]_vars

\* The event loop runs what is ready, attempts meet their deadline, and time passes.
FairSpec ==
    /\ Spec
    /\ \A d \in Dispatcher : WF_vars(Coroutine(d))
    /\ WF_vars(Probe) /\ WF_vars(SleepOver) /\ WF_vars(Tick)

-----------------------------------------------------------------------------
(* Properties *)

\* The pause, the semaphore and the coroutines keep to their values.
TypeOK ==
    /\ resume \in BOOLEAN /\ exhausted \in BOOLEAN /\ distrust \in BOOLEAN
    /\ holder \in Dispatcher \cup {NoOne}
    /\ doing \in {"none", "reset", "probe", "backoff"}
    /\ sleep \in 0..MaxWait
    /\ waited \in Nat /\ tries \in 0..Len(Backoff) /\ probing \in 0..ProbeTime
    /\ since \in 0..RepauseGrace
    /\ at \in [Dispatcher -> Place]
    /\ queue \in Seq(Dispatcher)
    /\ charged \in [Dispatcher -> 0..MaxAttempts]
    /\ outages \in [Dispatcher -> 0..MaxOutages + 1]

\* Nobody waits for a pause that is not there: whoever waits on the event or has
\* joined the pause is waited for by one coroutine inside hold(), whatever
\* outages, resumes and give-ups cross.
NobodyWaitsForNothing ==
    /\ resume <=> holder = NoOne
    /\ \A d \in Dispatcher : at[d] = "holding" <=> d = holder
    /\ \A d \in Dispatcher : Waiting(d) => ~resume

\* A free slot and a coroutine queued for one never meet, and no slot is held twice.
SlotsAreHandedOver ==
    LET taken == Cardinality(Seated(at))
    IN taken <= Concurrency /\ (queue # << >> => taken = Concurrency)

\* --pause-hours is what one pause may cost, whatever resets and backoffs add up to,
\* and but for the probe under way when it runs out.
PauseIsBounded == waited <= MaxWait + ProbeTime

\* Only a spent wait, or an outage too many, parks a node for an outage.
GivenUpForAReason ==
    \A d \in Dispatcher : at[d] = "outage" => exhausted \/ outages[d] > MaxOutages

\* After a spent wait no outage pauses the run again.
ExhaustedIsFinal == [][exhausted => exhausted' /\ holder' = NoOne]_vars

\* A provider that answers the probe and fails the next attempt does not make the
\* run spin: two resumes are a backoff step apart.
ResumesAreApart ==
    [][~resume /\ resume' /\ ~exhausted' => since >= Least(Backoff[1], MaxWait)]_vars

\* However long the provider is away, the dispatch ends and the run reports.
DispatchEnds == <>(\A d \in Dispatcher : at[d] \in Ended)
=============================================================================
