------------------------ MODULE ProviderPauseProofs ------------------------
(***************************************************************************)
(* The pause and the slots are sound for every number of coroutines and     *)
(* slots, and for all times: nobody waits for a pause that is not there, no *)
(* slot is idle while a coroutine queues for it, a pause is bounded, a spent *)
(* wait is final and resumes are apart.  The inductive invariant adds where  *)
(* each coroutine stands in the queue, how far its wait has come, and what   *)
(* a coroutine that goes on still has left.                                 *)
(***************************************************************************)
EXTENDS ProviderPause, SequenceTheorems, FiniteSetTheorems, TLAPS

\* The queue holds the queued coroutines, each once.
Filed(to, left) ==
    /\ to \in [Dispatcher -> Place]
    /\ left \in Seq(Dispatcher)
    /\ \A i \in 1..Len(left) : to[left[i]] = "queued"
    /\ \A i, j \in 1..Len(left) : left[i] = left[j] => i = j
    /\ \A d \in Dispatcher : to[d] = "queued" => \E i \in 1..Len(left) : left[i] = d

SlotInv == Filed(at, queue) /\ SlotsAreHandedOver

\* No coroutine but d moves, except from the queue to a slot.
OnlySeated(d, to) ==
    \A e \in Dispatcher \ {d} :
        at'[e] = to[e] \/ (to[e] = "queued" /\ at'[e] = "granted")

\* What a resume must be from the one before.
Gap == Least(Backoff[1], MaxWait)

PauseInv ==
    /\ resume \in BOOLEAN /\ exhausted \in BOOLEAN
    /\ holder \in Dispatcher \cup {NoOne}
    /\ resume <=> holder = NoOne
    /\ doing = "none" <=> holder = NoOne
    /\ exhausted => holder = NoOne

WaitInv ==
    /\ doing \in {"none", "reset", "probe", "backoff"}
    /\ sleep \in 0..MaxWait /\ waited \in Nat /\ tries \in 0..Len(Backoff)
    /\ distrust \in BOOLEAN
    /\ probing \in 0..ProbeTime /\ since \in 0..RepauseGrace
    /\ doing = "none" => waited = 0
    /\ doing \in {"reset", "backoff"} => waited + sleep <= MaxWait
    /\ doing = "probe" => waited <= MaxWait + probing
    /\ distrust => tries = 0 /\ doing \in {"reset", "probe"}
    /\ since >= Least(waited, RepauseGrace)
    /\ doing # "none" /\ ~distrust =>
          since >= Gap \/ (doing = "backoff" /\ since + sleep >= Gap)

CoroutineInv ==
    /\ charged \in [Dispatcher -> 0..MaxAttempts]
    /\ outages \in [Dispatcher -> 0..MaxOutages + 1]
    /\ \A d \in Dispatcher : at[d] = "holding" <=> d = holder
    /\ \A d \in Dispatcher : Waiting(d) => ~resume
    /\ \A d \in Dispatcher : at[d] \notin Ended =>
           charged[d] < MaxAttempts /\ outages[d] <= MaxOutages
    /\ GivenUpForAReason

IInv == SlotInv /\ PauseInv /\ WaitInv /\ CoroutineInv

-----------------------------------------------------------------------------
(* The semaphore *)

\* The coroutines in a slot are finitely many.
LEMMA SeatedFinite ==
    ASSUME NEW to
    PROVE  /\ IsFiniteSet(Seated(to))
           /\ Cardinality(Seated(to)) \in Nat
<1>1. Seated(to) \in SUBSET Dispatcher
    BY DEF Seated
<1> QED
    BY <1>1, FS_Subset, FS_CardinalityType, DispatcherAssumption

\* A coroutine that leaves its slot, or its wait, disturbs nobody.
LEMMA LeaveFiles ==
    ASSUME NEW to, NEW left, NEW d \in Dispatcher, NEW p \in Place,
           Filed(to, left), Cardinality(Seated(to)) <= Concurrency,
           to[d] # "queued", p \notin {"queued", "granted", "running"}
    PROVE  /\ Filed([to EXCEPT ![d] = p], left)
           /\ Cardinality(Seated([to EXCEPT ![d] = p])) <= Concurrency
<1> DEFINE there == [to EXCEPT ![d] = p]
<1>1. Filed(there, left)
    BY DEF Filed
<1>2. Seated(there) \in SUBSET Seated(to)
    BY DEF Seated, Filed
<1>3. Cardinality(Seated(there)) <= Cardinality(Seated(to))
    BY <1>2, SeatedFinite, FS_Subset
<1> QED
    BY <1>1, <1>3, SeatedFinite, CountsAssumption

\* Slots are handed over in order until none is free or nobody queues.
LEMMA SeatFiles ==
    ASSUME NEW to, NEW left,
           Filed(to, left), Cardinality(Seated(to)) <= Concurrency,
           Seat(to, left)
    PROVE  /\ Filed(at', queue') /\ SlotsAreHandedOver'
           /\ \A d \in Dispatcher :
                at'[d] = to[d] \/ (to[d] = "queued" /\ at'[d] = "granted")
<1> DEFINE k == Least(Len(left), Concurrency - Cardinality(Seated(to)))
           first == {left[i] : i \in 1..k}
<1>1. /\ Len(left) \in Nat /\ left \in [1..Len(left) -> Dispatcher]
      /\ k \in 0..Len(left)
      /\ k <= Concurrency - Cardinality(Seated(to))
      /\ k < Len(left) => k = Concurrency - Cardinality(Seated(to))
    BY SeatedFinite, CountsAssumption, LenProperties DEF Filed, Least
<1>2. /\ at' = [d \in Dispatcher |->
                    IF \E i \in 1..k : left[i] = d THEN "granted" ELSE to[d]]
      /\ queue' = SubSeq(left, k + 1, Len(left))
    BY DEF Seat
<1>3. /\ queue' \in Seq(Dispatcher)
      /\ Len(queue') = Len(left) - k
      /\ \A i \in 1..Len(left) - k : queue'[i] = left[i + k]
  <2> HIDE DEF k
  <2>1. \A i \in (k + 1)..Len(left) : left[i] \in Dispatcher
      BY <1>1
  <2>2. /\ SubSeq(left, k + 1, Len(left)) \in Seq(Dispatcher)
        /\ Len(SubSeq(left, k + 1, Len(left)))
              = IF k + 1 <= Len(left) THEN Len(left) - (k + 1) + 1 ELSE 0
        /\ \A i \in 1..Len(left) - (k + 1) + 1 :
              SubSeq(left, k + 1, Len(left))[i] = left[k + 1 + i - 1]
      BY <1>1, <2>1, SubSeqProperties
  <2> QED
      BY <1>1, <1>2, <2>2
<1>4. \A d \in Dispatcher : at'[d] = to[d] \/ (to[d] = "queued" /\ at'[d] = "granted")
  <2> HIDE DEF k
  <2> QED
      BY <1>1, <1>2 DEF Filed
<1>5. Filed(at', queue')
  <2> HIDE DEF k
  <2>1. at' \in [Dispatcher -> Place]
      BY <1>2 DEF Filed, Place
  <2>2. \A i \in 1..Len(queue') : at'[queue'[i]] = "queued"
      BY <1>1, <1>2, <1>3 DEF Filed
  <2>3. \A i, j \in 1..Len(queue') : queue'[i] = queue'[j] => i = j
      BY <1>1, <1>3 DEF Filed
  <2>4. ASSUME NEW d \in Dispatcher, at'[d] = "queued"
        PROVE  \E i \in 1..Len(queue') : queue'[i] = d
    <3>1. to[d] = "queued" /\ ~ \E i \in 1..k : left[i] = d
        BY <1>2, <2>4
    <3>2. PICK i \in 1..Len(left) : left[i] = d
        BY <3>1 DEF Filed
    <3>3. i - k \in 1..Len(queue') /\ queue'[i - k] = d
        BY <1>1, <1>3, <3>1, <3>2
    <3> QED
        BY <3>3
  <2> QED
      BY <1>3, <2>1, <2>2, <2>3, <2>4 DEF Filed
<1>6. IsFiniteSet(first) /\ Cardinality(first) = k
  <2> HIDE DEF k
  <2>1. [i \in 1..k |-> left[i]] \in Bijection(1..k, first)
    <3>1. [i \in 1..k |-> left[i]] \in [1..k -> first]
        OBVIOUS
    <3>2. \A i, j \in 1..k : left[i] = left[j] => i = j
        BY <1>1 DEF Filed
    <3> QED
        BY <3>1, <3>2 DEF Bijection, Injection, Surjection, IsInjective
  <2>2. IsFiniteSet(1..k) /\ Cardinality(1..k) = k
      BY <1>1, FS_Interval
  <2>3. ExistsBijection(1..k, first)
      BY <2>1 DEF ExistsBijection
  <2> QED
      BY <2>2, <2>3, FS_Bijection
<1>7. Seated(at') = Seated(to) \cup first /\ Seated(to) \cap first = {}
  <2> HIDE DEF k
  <2> QED
      BY <1>1, <1>2 DEF Seated, Filed
<1>8. Cardinality(Seated(at')) = Cardinality(Seated(to)) + k
  <2> HIDE DEF k, first
  <2>1. IsFiniteSet(Seated(to)) /\ Cardinality(Seated(to)) \in Nat
      BY SeatedFinite
  <2>2. Cardinality(Seated(to) \cup first)
          = Cardinality(Seated(to)) + Cardinality(first) - Cardinality(Seated(to) \cap first)
      BY <2>1, <1>6, FS_Union
  <2>3. Cardinality(Seated(to) \cap first) = 0
      BY <1>7, FS_EmptySet
  <2> QED
      BY <1>1, <1>6, <1>7, <2>1, <2>2, <2>3
<1>9. SlotsAreHandedOver'
  <2> HIDE DEF k, first
  <2>1. queue' # << >> => k < Len(left)
      BY <1>1, <1>3, EmptySeq
  <2> QED
      BY <1>1, <1>8, <2>1, SeatedFinite, CountsAssumption DEF SlotsAreHandedOver
<1> QED
    BY <1>4, <1>5, <1>9

\* d goes on to its attempt, or to the end of the queue.
LEMMA ArriveFiles ==
    ASSUME NEW d \in Dispatcher, NEW to,
           Filed(to, queue), Cardinality(Seated(to)) <= Concurrency,
           to[d] \notin {"queued", "granted", "running"},
           Arrive(d, to)
    PROVE  /\ Filed(at', queue') /\ SlotsAreHandedOver'
           /\ OnlySeated(d, to)
           /\ at'[d] \in {"running", "queued", "granted"}
<1>1. CASE Cardinality(Seated(to)) < Concurrency /\ queue = << >>
  <2>1. at' = [to EXCEPT ![d] = "running"] /\ queue' = << >>
      BY <1>1 DEF Arrive
  <2>2. Filed(at', queue')
      BY <1>1, <2>1 DEF Filed, Place
  <2>3. Seated(at') = Seated(to) \cup {d} /\ d \notin Seated(to)
      BY <2>1 DEF Seated, Filed
  <2>4. Cardinality(Seated(at')) = Cardinality(Seated(to)) + 1
      BY <2>3, SeatedFinite, FS_AddElement
  <2> QED
      BY <1>1, <2>1, <2>2, <2>4, SeatedFinite, CountsAssumption
         DEF SlotsAreHandedOver, OnlySeated, Filed
<1>2. CASE ~(Cardinality(Seated(to)) < Concurrency /\ queue = << >>)
  <2> DEFINE there == [to EXCEPT ![d] = "queued"]
             left == Append(queue, d)
  <2>1. Seat(there, left)
      BY <1>2 DEF Arrive
  <2>2. /\ left \in Seq(Dispatcher) /\ Len(left) = Len(queue) + 1
        /\ Len(queue) \in Nat
        /\ \A i \in 1..Len(queue) : left[i] = queue[i] /\ queue[i] \in Dispatcher
        /\ left[Len(queue) + 1] = d
      BY AppendProperties, LenProperties DEF Filed
  <2>3. Filed(there, left)
    <3> HIDE DEF left
    <3>1. \A i \in 1..Len(left) : i \in 1..Len(queue) \/ i = Len(queue) + 1
        BY <2>2
    <3>2. \A i \in 1..Len(queue) : queue[i] # d
        BY DEF Filed
    <3>3. \A e \in Dispatcher : there[e] = "queued" => \E i \in 1..Len(left) : left[i] = e
      <4>1. Len(queue) + 1 \in 1..Len(left) /\ 1..Len(queue) \subseteq 1..Len(left)
          BY <2>2
      <4> QED
          BY <2>2, <4>1 DEF Filed
    <3>4. there \in [Dispatcher -> Place]
        BY DEF Filed, Place
    <3>5. \A i \in 1..Len(left) : there[left[i]] = "queued"
        BY <2>2, <3>1, <3>2 DEF Filed
    <3>6. \A i, j \in 1..Len(left) : left[i] = left[j] => i = j
        BY <2>2, <3>1, <3>2 DEF Filed
    <3> QED
        BY <2>2, <3>3, <3>4, <3>5, <3>6 DEF Filed
  <2>4. Seated(there) = Seated(to)
      BY DEF Seated, Filed
  <2>5. /\ Filed(at', queue') /\ SlotsAreHandedOver'
        /\ \A e \in Dispatcher :
             at'[e] = there[e] \/ (there[e] = "queued" /\ at'[e] = "granted")
    <3> HIDE DEF there, left
    <3> QED
        BY <2>1, <2>3, <2>4, SeatFiles
  <2> QED
      BY <2>5 DEF OnlySeated, Filed
<1> QED
    BY <1>1, <1>2

\* At the head of its loop d is stuck with its budget spent, waits for the pause
\* while there is one, or goes for a slot.
LEMMA LoopHeadFiles ==
    ASSUME NEW d \in Dispatcher, NEW to, NEW spent \in Nat,
           Filed(to, queue), Cardinality(Seated(to)) <= Concurrency,
           to[d] \notin {"queued", "granted", "running"},
           LoopHead(d, to, spent)
    PROVE  /\ Filed(at', queue') /\ SlotsAreHandedOver'
           /\ OnlySeated(d, to)
           /\ \/ at'[d] = "stuck"
              \/ spent < MaxAttempts /\ at'[d] = "waiting" /\ ~resume
              \/ spent < MaxAttempts /\ at'[d] \in {"running", "queued", "granted"}
<1>1. ASSUME NEW p \in {"stuck", "waiting"}, Seat([to EXCEPT ![d] = p], queue)
      PROVE  Filed(at', queue') /\ SlotsAreHandedOver' /\ OnlySeated(d, to) /\ at'[d] = p
  <2> DEFINE there == [to EXCEPT ![d] = p]
  <2>1. p \in Place
      BY DEF Place, Ended
  <2>2. Filed(there, queue) /\ Cardinality(Seated(there)) <= Concurrency
      BY <2>1, LeaveFiles
  <2>3. /\ Filed(at', queue') /\ SlotsAreHandedOver'
        /\ \A e \in Dispatcher :
             at'[e] = there[e] \/ (there[e] = "queued" /\ at'[e] = "granted")
    <3> HIDE DEF there
    <3> QED
        BY <1>1, <2>2, SeatFiles DEF there
  <2> QED
      BY <2>3 DEF OnlySeated, Filed
<1> QED
    BY <1>1, ArriveFiles, CountsAssumption DEF LoopHead

-----------------------------------------------------------------------------
(* The coroutines *)

\* What SlotInv says to the lemmas above, and what the state keeps track of.
LEMMA Standing ==
    ASSUME SlotInv
    PROVE  /\ Filed(at, queue) /\ Cardinality(Seated(at)) <= Concurrency
           /\ at \in [Dispatcher -> Place]
    BY DEF SlotInv, SlotsAreHandedOver, Filed

\* Coroutines that move without touching the pause keep what concerns it.
LEMMA PauseUntouched ==
    ASSUME PauseInv, WaitInv, UNCHANGED <<pause, wait, since>>
    PROVE  PauseInv' /\ WaitInv'
    BY DEF PauseInv, WaitInv, pause, wait, Gap, Least

\* A coroutine that goes round its loop head keeps what holds of coroutines.
LEMMA LoopKeeps ==
    ASSUME IInv, NEW d \in Dispatcher, at[d] \notin Ended \cup {"holding"},
           at' \in [Dispatcher -> Place], OnlySeated(d, at),
           UNCHANGED <<pause, charged, outages>>,
           at'[d] \in {"stuck", "running", "queued", "granted"}
              \/ (at'[d] = "waiting" /\ ~resume) \/ (at'[d] = "outage" /\ exhausted)
    PROVE  CoroutineInv'
<1>1. CoroutineInv /\ at \in [Dispatcher -> Place]
    BY Standing DEF IInv
<1>2. /\ charged' = charged /\ outages' = outages /\ holder' = holder
      /\ resume' = resume /\ exhausted' = exhausted
    BY DEF pause
<1>3. \A e \in Dispatcher : at'[e] = "holding" <=> at[e] = "holding"
    BY <1>1 DEF OnlySeated
<1>4. \A e \in Dispatcher : Waiting(e)' => ~resume
    BY <1>1 DEF OnlySeated, Waiting, CoroutineInv
<1>5. \A e \in Dispatcher : at'[e] \notin Ended => at[e] \notin Ended
    BY <1>1 DEF OnlySeated, Ended
<1>6. \A e \in Dispatcher : at'[e] = "outage" => at[e] = "outage" \/ exhausted
    BY <1>1 DEF OnlySeated
<1> QED
    BY <1>1, <1>2, <1>3, <1>4, <1>5, <1>6 DEF CoroutineInv, GivenUpForAReason

\* run_node begins.
LEMMA BeginKeeps ==
    ASSUME IInv, NEW d \in Dispatcher, Begin(d)
    PROVE  IInv'
<1>1. /\ Filed(at', queue') /\ SlotsAreHandedOver' /\ OnlySeated(d, at)
      /\ at'[d] \in {"stuck", "running", "queued", "granted"}
            \/ (at'[d] = "waiting" /\ ~resume)
  <2>1. charged[d] \in Nat
      BY DEF IInv, CoroutineInv
  <2> QED
      BY <2>1, Standing, LoopHeadFiles DEF IInv, Begin
<1>2. CoroutineInv'
    BY <1>1, LoopKeeps DEF Begin, Filed, Ended
<1> QED
    BY <1>1, <1>2, PauseUntouched DEF IInv, SlotInv, Begin

\* A waiter of the event runs again and asks for a slot.
LEMMA PassPauseKeeps ==
    ASSUME IInv, NEW d \in Dispatcher, PassPause(d)
    PROVE  IInv'
<1>1. /\ Filed(at', queue') /\ SlotsAreHandedOver' /\ OnlySeated(d, at)
      /\ at'[d] \in {"running", "queued", "granted"}
    BY Standing, ArriveFiles DEF IInv, PassPause
<1>2. CoroutineInv'
    BY <1>1, LoopKeeps DEF PassPause, Filed, Ended
<1> QED
    BY <1>1, <1>2, PauseUntouched DEF IInv, SlotInv, PassPause

\* A coroutine that was given a slot starts its attempt in it.
LEMMA StartAttemptKeeps ==
    ASSUME IInv, NEW d \in Dispatcher, StartAttempt(d)
    PROVE  IInv'
<1>1. at \in [Dispatcher -> Place] /\ Filed(at, queue)
    BY Standing DEF IInv
<1>2. Seated(at') = Seated(at)
    BY <1>1 DEF Seated, StartAttempt
<1>3. Filed(at', queue')
    BY <1>1 DEF StartAttempt, Filed, Place
<1>4. SlotsAreHandedOver'
    BY <1>2 DEF IInv, SlotInv, SlotsAreHandedOver, StartAttempt
<1>5. CoroutineInv'
    BY <1>1, <1>3, LoopKeeps DEF StartAttempt, OnlySeated, Filed, Ended
<1> QED
    BY <1>3, <1>4, <1>5, PauseUntouched DEF IInv, SlotInv, StartAttempt

\* A coroutine leaves its slot, or its wait, for a place of its own; slots are
\* handed over.
LEMMA LeaveKeeps ==
    ASSUME SlotInv, NEW d \in Dispatcher,
           NEW p \in Place \ {"queued", "granted", "running"},
           at[d] # "queued", Seat([at EXCEPT ![d] = p], queue)
    PROVE  SlotInv' /\ OnlySeated(d, at) /\ at'[d] = p
<1> DEFINE there == [at EXCEPT ![d] = p]
<1>1. Filed(there, queue) /\ Cardinality(Seated(there)) <= Concurrency
    BY Standing, LeaveFiles
<1>2. /\ Filed(at', queue') /\ SlotsAreHandedOver'
      /\ \A e \in Dispatcher :
           at'[e] = there[e] \/ (there[e] = "queued" /\ at'[e] = "granted")
  <2> HIDE DEF there
  <2> QED
      BY <1>1, SeatFiles DEF there
<1> QED
    BY <1>2, Standing DEF SlotInv, OnlySeated

\* An attempt that is proved, or fails for good.
LEMMA AnsweredKeeps ==
    ASSUME IInv, NEW d \in Dispatcher, Answered(d)
    PROVE  IInv'
<1>1. PICK p \in {"proved", "error"} : Seat([at EXCEPT ![d] = p], queue)
    BY DEF Answered
<1>2. SlotInv' /\ OnlySeated(d, at) /\ at'[d] = p
    BY <1>1, LeaveKeeps DEF IInv, Answered, Place, Ended
<1>3. CoroutineInv'
  <2>1. CoroutineInv /\ at[d] = "running" /\ at \in [Dispatcher -> Place]
      BY Standing DEF IInv, Answered
  <2>2. charged[d] < MaxAttempts
      BY <2>1 DEF CoroutineInv, Ended
  <2>3. /\ charged' \in [Dispatcher -> 0..MaxAttempts]
        /\ \A e \in Dispatcher \ {d} : charged'[e] = charged[e]
      BY <2>1, <2>2, CountsAssumption DEF CoroutineInv, Answered
  <2>4. /\ outages' = outages /\ holder' = holder /\ resume' = resume
        /\ exhausted' = exhausted
      BY DEF Answered, pause
  <2>5. \A e \in Dispatcher \ {d} : at'[e] = at[e] \/ (at[e] = "queued" /\ at'[e] = "granted")
      BY <1>2 DEF OnlySeated
  <2> QED
      BY <1>1, <1>2, <2>1, <2>3, <2>4, <2>5
         DEF CoroutineInv, GivenUpForAReason, Waiting, Ended
<1> QED
    BY <1>2, <1>3, PauseUntouched DEF IInv, Answered

\* A failed attempt is charged; the node tries again, or is stuck.
LEMMA FailedKeeps ==
    ASSUME IInv, NEW d \in Dispatcher, Failed(d)
    PROVE  IInv'
<1> DEFINE to == [at EXCEPT ![d] = "new"]
<1>1. /\ CoroutineInv /\ at[d] = "running" /\ at \in [Dispatcher -> Place]
      /\ charged[d] \in Nat /\ charged[d] < MaxAttempts
  <2>1. CoroutineInv /\ at[d] = "running" /\ at \in [Dispatcher -> Place]
      BY Standing DEF IInv, Failed
  <2>2. charged[d] \in Nat /\ charged[d] < MaxAttempts
      BY <2>1 DEF CoroutineInv, Ended
  <2> QED
      BY <2>1, <2>2
<1>2. Filed(to, queue) /\ Cardinality(Seated(to)) <= Concurrency
    BY <1>1, Standing, LeaveFiles DEF IInv, Place
<1>3. to[d] = "new" /\ LoopHead(d, to, charged[d] + 1)
    BY <1>1 DEF Failed
<1>4. /\ Filed(at', queue') /\ SlotsAreHandedOver' /\ OnlySeated(d, to)
      /\ \/ at'[d] = "stuck"
         \/ charged[d] + 1 < MaxAttempts /\ at'[d] = "waiting" /\ ~resume
         \/ charged[d] + 1 < MaxAttempts /\ at'[d] \in {"running", "queued", "granted"}
  <2> HIDE DEF to
  <2> QED
      BY <1>1, <1>2, <1>3, LoopHeadFiles
<1>5. CoroutineInv'
  <2>1. /\ charged' = [charged EXCEPT ![d] = @ + 1]
        /\ outages' = outages /\ holder' = holder /\ resume' = resume
        /\ exhausted' = exhausted
      BY DEF Failed, pause
  <2>2. charged' \in [Dispatcher -> 0..MaxAttempts]
      BY <1>1, <2>1, CountsAssumption DEF CoroutineInv
  <2>3. \A e \in Dispatcher \ {d} : at'[e] = at[e] \/ (at[e] = "queued" /\ at'[e] = "granted")
      BY <1>4 DEF OnlySeated
  <2> QED
      BY <1>1, <1>4, <2>1, <2>2, <2>3
         DEF CoroutineInv, GivenUpForAReason, Waiting, Ended
<1> QED
    BY <1>4, <1>5, PauseUntouched DEF IInv, SlotInv, Failed

\* A coroutine that joined the pause gives up with it, or tries again.
LEMMA RejoinKeeps ==
    ASSUME IInv, NEW d \in Dispatcher, Rejoin(d)
    PROVE  IInv'
<1>1. CASE exhausted
  <2>1. SlotInv' /\ OnlySeated(d, at) /\ at'[d] = "outage"
      BY <1>1, LeaveKeeps DEF IInv, Rejoin, Place, Ended
  <2>2. CoroutineInv'
      BY <1>1, <2>1, LoopKeeps DEF Rejoin, SlotInv, Filed, Ended
  <2> QED
      BY <2>1, <2>2, PauseUntouched DEF IInv, Rejoin
<1>2. CASE ~exhausted
  <2>1. charged[d] \in Nat
      BY DEF IInv, CoroutineInv
  <2>2. /\ Filed(at', queue') /\ SlotsAreHandedOver' /\ OnlySeated(d, at)
        /\ at'[d] \in {"stuck", "running", "queued", "granted"}
              \/ (at'[d] = "waiting" /\ ~resume)
      BY <1>2, <2>1, Standing, LoopHeadFiles DEF IInv, Rejoin
  <2>3. CoroutineInv'
      BY <2>2, LoopKeeps DEF Rejoin, Filed, Ended
  <2> QED
      BY <2>2, <2>3, PauseUntouched DEF IInv, SlotInv, Rejoin
<1> QED
    BY <1>1, <1>2

-----------------------------------------------------------------------------
(* The pause *)

\* The gap between resumes is a time, and no longer than the grace.
LEMMA GapType == Gap \in Nat /\ Gap <= RepauseGrace /\ Gap <= MaxWait
<1>1. Backoff[1] \in Nat
    BY BackoffAssumption, EmptySeq, LenProperties
<1> QED
    BY <1>1, BackoffAssumption, TimesAssumption DEF Gap, Least

\* Facts about sums, for terms that hold in the next state.
LEMMA ZeroSum ==
    \A a, b, c \in Int : a = 0 /\ b <= c => a + b <= c
    OBVIOUS

\* A sum reaches what one of its terms reaches.
LEMMA SumReaches == \A a, b \in Nat, c \in Nat : a >= c \/ b >= c => a + b >= c
    OBVIOUS

\* What is left of a time, added to what has passed of it, reaches any part of it.
LEMMA SumCompletes ==
    \A a, b, c, d, e \in Nat : a >= c /\ b = d - c /\ e <= d => a + b >= e
    OBVIOUS

\* The grace is a time.
LEMMA RepauseGraceType == RepauseGrace \in Nat
    BY TimesAssumption

\* hold() begins: its wait is within bounds, and distrusts a provider that flaps.
LEMMA HoldKeeps ==
    ASSUME PauseInv, WaitInv, holder = NoOne, ~exhausted,
           NEW d \in Dispatcher, Hold(d), since' = since
    PROVE  PauseInv' /\ WaitInv'
<1>1. /\ resume' = FALSE /\ holder' = d /\ exhausted' = exhausted
      /\ waited' = 0 /\ tries' = 0 /\ probing' = 0
    BY DEF Hold
<1>2. sleep' \in 0..MaxWait /\ doing' \in {"reset", "probe"}
    BY TimesAssumption DEF Hold, Least
<1>3. PauseInv'
    BY <1>1, <1>2, DispatcherAssumption DEF PauseInv
<1>4. WaitInv'
  <2>1. Len(Backoff) \in Nat
      BY BackoffAssumption, LenProperties
  <2>2. since \in 0..RepauseGrace
      BY DEF WaitInv
  <2>3. distrust' \in BOOLEAN /\ (~distrust' => ~(since < RepauseGrace))
    <3>1. distrust' = (since < RepauseGrace)
        BY DEF Hold, Flaps
    <3>2. distrust' \in BOOLEAN
        BY <3>1
    <3> QED
        BY <3>1, <3>2
  <2>4. /\ sleep' \in 0..MaxWait /\ waited' \in Nat /\ tries' \in 0..Len(Backoff)
        /\ probing' \in 0..ProbeTime /\ since' \in 0..RepauseGrace
      BY <1>1, <1>2, <2>1, <2>2, TimesAssumption
  <2>5. /\ waited' + sleep' <= MaxWait /\ waited' <= MaxWait + probing'
        /\ since' >= Least(waited', RepauseGrace)
    <3>1. waited' + sleep' <= MaxWait
      <4>1. waited' \in Int /\ sleep' \in Int /\ sleep' <= MaxWait /\ MaxWait \in Int
          BY <1>1, <1>2, TimesAssumption
      <4> QED
          BY <1>1, <4>1, ZeroSum, Zenon
    <3>3. waited' <= MaxWait + probing'
        BY <1>1, TimesAssumption
    <3>2. Least(waited', RepauseGrace) = 0
        BY <1>1, TimesAssumption DEF Least
    <3> QED
        BY <2>2, <3>1, <3>2, <3>3
  <2>6. ~distrust' => since' >= Gap
    <3>1. ~(since < RepauseGrace) => since' >= Gap
        BY <2>2, GapType, TimesAssumption
    <3> QED
        BY <2>3, <3>1
  <2> QED
      BY <1>1, <1>2, <2>3, <2>4, <2>5, <2>6 DEF WaitInv
<1> QED
    BY <1>3, <1>4

\* An attempt ends in an outage: an error, a park, a join or a pause.
LEMMA OutageKeeps ==
    ASSUME IInv, NEW d \in Dispatcher, Outage(d)
    PROVE  IInv'
<1>1. /\ CoroutineInv /\ at[d] = "running" /\ at \in [Dispatcher -> Place]
      /\ since' = since /\ charged' = charged
    BY Standing DEF IInv, Outage
<1>2. outages[d] \in Nat /\ outages[d] <= MaxOutages
    BY <1>1 DEF CoroutineInv, Ended
<1>3. ASSUME NEW p \in {"error", "outage", "joined", "holding"},
             Seat([at EXCEPT ![d] = p], queue),
             /\ outages' \in [Dispatcher -> 0..MaxOutages + 1]
             /\ \A e \in Dispatcher \ {d} : outages'[e] = outages[e],
             p \in {"joined", "holding"} => outages'[d] <= MaxOutages /\ ~resume',
             p = "outage" => exhausted' \/ outages'[d] > MaxOutages,
             p = "holding" <=> d = holder',
             \A e \in Dispatcher \ {d} : e = holder' <=> e = holder,
             exhausted => exhausted', resume' => resume
      PROVE  SlotInv' /\ CoroutineInv'
  <2>1. SlotInv' /\ OnlySeated(d, at) /\ at'[d] = p
      BY <1>1, <1>3, LeaveKeeps DEF IInv, Place, Ended
  <2>2. \A e \in Dispatcher \ {d} : at'[e] = at[e] \/ (at[e] = "queued" /\ at'[e] = "granted")
      BY <2>1 DEF OnlySeated
  <2>3. \A e \in Dispatcher : at'[e] = "holding" <=> e = holder'
      BY <1>1, <1>3, <2>1, <2>2 DEF CoroutineInv
  <2>4. \A e \in Dispatcher : Waiting(e)' => ~resume'
      BY <1>1, <1>3, <2>1, <2>2 DEF CoroutineInv, Waiting
  <2>5. \A e \in Dispatcher : at'[e] \notin Ended =>
           charged'[e] < MaxAttempts /\ outages'[e] <= MaxOutages
      BY <1>1, <1>3, <2>1, <2>2 DEF CoroutineInv, Ended
  <2>6. GivenUpForAReason'
      BY <1>1, <1>3, <2>1, <2>2 DEF CoroutineInv, GivenUpForAReason
  <2> QED
      BY <1>1, <1>3, <2>1, <2>3, <2>4, <2>5, <2>6 DEF CoroutineInv
<1>4. CASE /\ Seat([at EXCEPT ![d] = "error"], queue)
           /\ UNCHANGED <<pause, wait, outages>>
  <2>1. SlotInv' /\ CoroutineInv'
    <3>1. d # holder
        BY <1>1, <1>4 DEF CoroutineInv
    <3> QED
        BY <1>1, <1>3, <1>4, <3>1 DEF CoroutineInv, pause
  <2> QED
      BY <1>1, <1>4, <2>1, PauseUntouched DEF IInv
<1>5. CASE outages' = [outages EXCEPT ![d] = @ + 1]
           /\ IF GivesUp(d)
              THEN Seat([at EXCEPT ![d] = "outage"], queue) /\ UNCHANGED <<pause, wait>>
              ELSE IF holder # NoOne
              THEN Seat([at EXCEPT ![d] = "joined"], queue) /\ UNCHANGED <<pause, wait>>
              ELSE Seat([at EXCEPT ![d] = "holding"], queue) /\ Hold(d)
  <2>1. /\ outages' \in [Dispatcher -> 0..MaxOutages + 1]
        /\ \A e \in Dispatcher \ {d} : outages'[e] = outages[e]
        /\ outages'[d] = outages[d] + 1
      BY <1>1, <1>2, <1>5, CountsAssumption DEF CoroutineInv
  <2>2. d # holder
      BY <1>1 DEF CoroutineInv
  <2>3. CASE GivesUp(d)
    <3>1. Seat([at EXCEPT ![d] = "outage"], queue) /\ UNCHANGED <<pause, wait>>
        BY <1>5, <2>3
    <3>2. SlotInv' /\ CoroutineInv'
      <4>1. exhausted' \/ outages'[d] > MaxOutages
          BY <1>2, <2>1, <2>3, <3>1, CountsAssumption DEF GivesUp, pause
      <4> QED
          BY <1>3, <2>1, <2>2, <3>1, <4>1 DEF pause
    <3> QED
        BY <1>1, <3>1, <3>2, PauseUntouched DEF IInv
  <2>4. CASE ~GivesUp(d)
    <3>1. outages'[d] <= MaxOutages /\ ~exhausted
        BY <1>2, <2>1, <2>4, CountsAssumption DEF GivesUp
    <3>2. CASE holder # NoOne
      <4>1. Seat([at EXCEPT ![d] = "joined"], queue) /\ UNCHANGED <<pause, wait>>
          BY <1>5, <2>4, <3>2
      <4>2. ~resume' /\ holder' = holder /\ exhausted' = exhausted /\ resume' = resume
          BY <3>2, <4>1 DEF IInv, PauseInv, pause
      <4>3. SlotInv' /\ CoroutineInv'
          BY <1>3, <2>1, <2>2, <3>1, <4>1, <4>2
      <4> QED
          BY <1>1, <4>1, <4>3, PauseUntouched DEF IInv
    <3>3. CASE holder = NoOne
      <4>1. Seat([at EXCEPT ![d] = "holding"], queue) /\ Hold(d)
          BY <1>5, <2>4, <3>3
      <4>2. /\ holder' = d /\ resume' = FALSE /\ exhausted' = exhausted
          BY <4>1 DEF Hold
      <4>3. \A e \in Dispatcher \ {d} : e = holder' <=> e = holder
          BY <3>3, <4>2, DispatcherAssumption
      <4>4. SlotInv' /\ CoroutineInv'
          BY <1>3, <2>1, <3>1, <4>1, <4>2, <4>3
      <4> QED
          BY <1>1, <3>1, <3>3, <4>1, <4>4, HoldKeeps DEF IInv
    <3> QED
        BY <3>2, <3>3
  <2> QED
      BY <2>3, <2>4
<1> QED
    BY <1>4, <1>5 DEF Outage

\* hold() returns, because the provider answered or because the wait is spent.
LEMMA ReleaseKeeps ==
    ASSUME IInv, holder \in Dispatcher, NEW ok \in BOOLEAN, Release(ok)
    PROVE  IInv'
<1>1. /\ CoroutineInv /\ at \in [Dispatcher -> Place]
      /\ Filed(at, queue) /\ Cardinality(Seated(at)) <= Concurrency
      /\ at[holder] = "holding"
    BY Standing DEF IInv, CoroutineInv
<1>2. /\ Awake \in [Dispatcher -> Place] /\ Awake[holder] = "holding"
      /\ \A e \in Dispatcher :
           /\ Awake[e] \notin {"waiting", "joined"}
           /\ Awake[e] = at[e] \/ (Waiting(e) /\ Awake[e] \in {"released", "woken"})
    BY <1>1 DEF Awake, Place, Waiting
<1>3. Filed(Awake, queue) /\ Cardinality(Seated(Awake)) <= Concurrency
  <2>1. Seated(Awake) = Seated(at)
      BY <1>2 DEF Seated, Waiting
  <2>2. Filed(Awake, queue)
      BY <1>1, <1>2 DEF Filed, Waiting
  <2> QED
      BY <1>1, <2>1, <2>2
<1>4. /\ Filed(at', queue') /\ SlotsAreHandedOver' /\ OnlySeated(holder, Awake)
      /\ at'[holder] \in {"running", "queued", "granted"}
           \/ (at'[holder] = "outage" /\ ~ok)
  <2>1. CASE ok
    <3>1. Arrive(holder, Awake)
        BY <2>1 DEF Release
    <3> HIDE DEF Awake
    <3> QED
        BY <1>2, <1>3, <3>1, ArriveFiles
  <2>2. CASE ~ok
    <3> DEFINE there == [Awake EXCEPT ![holder] = "outage"]
    <3>1. Seat(there, queue)
        BY <2>2 DEF Release
    <3>2. "outage" \in Place
        BY DEF Place, Ended
    <3>3. Filed(there, queue) /\ Cardinality(Seated(there)) <= Concurrency
        BY <1>2, <1>3, <3>2, LeaveFiles
    <3>4. /\ Filed(at', queue') /\ SlotsAreHandedOver'
          /\ \A e \in Dispatcher :
               at'[e] = there[e] \/ (there[e] = "queued" /\ at'[e] = "granted")
      <4> HIDE DEF there
      <4> QED
          BY <3>1, <3>3, SeatFiles
    <3> QED
        BY <1>2, <2>2, <3>4 DEF OnlySeated
  <2> QED
      BY <2>1, <2>2
<1>5. /\ resume' = TRUE /\ holder' = NoOne /\ exhausted' = ~ok
      /\ since' = (IF ok THEN 0 ELSE since)
      /\ doing' = "none" /\ sleep' = 0 /\ waited' = 0 /\ tries' = 0
      /\ distrust' = FALSE /\ probing' = 0 /\ charged' = charged /\ outages' = outages
    BY DEF Release
<1>6. PauseInv'
    BY <1>5 DEF PauseInv
<1>7. WaitInv'
  <2>1. Len(Backoff) \in Nat /\ since \in 0..RepauseGrace
      BY BackoffAssumption, LenProperties DEF IInv, WaitInv
  <2>2. /\ sleep' \in 0..MaxWait /\ waited' \in Nat /\ tries' \in 0..Len(Backoff)
        /\ probing' \in 0..ProbeTime /\ since' \in 0..RepauseGrace
      BY <1>5, <2>1, TimesAssumption
  <2>3. since' >= Least(waited', RepauseGrace)
      BY <1>5, <2>1, <2>2, TimesAssumption DEF Least
  <2>4. distrust' \in BOOLEAN /\ ~distrust'
      BY <1>5
  <2> QED
      BY <1>5, <2>2, <2>3, <2>4 DEF WaitInv
<1>8. CoroutineInv'
  <2>1. \A e \in Dispatcher \ {holder} :
          at'[e] = Awake[e] \/ (Awake[e] = "queued" /\ at'[e] = "granted")
      BY <1>4 DEF OnlySeated
  <2>2. \A e \in Dispatcher : at'[e] \notin {"holding", "waiting", "joined"}
      BY <1>1, <1>2, <1>4, <2>1 DEF CoroutineInv, Waiting
  <2>3. \A e \in Dispatcher : at'[e] \notin Ended => at[e] \notin Ended
      BY <1>1, <1>2, <2>1 DEF Ended, Waiting
  <2>4. \A e \in Dispatcher : at'[e] = "outage" =>
            (at[e] = "outage" /\ e # holder) \/ exhausted'
      BY <1>1, <1>2, <1>4, <1>5, <2>1 DEF Waiting
  <2>5. ~exhausted
      BY DispatcherAssumption DEF IInv, PauseInv
  <2>6. GivenUpForAReason'
      BY <1>1, <1>5, <2>4, <2>5 DEF CoroutineInv, GivenUpForAReason
  <2> QED
      BY <1>1, <1>5, <2>2, <2>3, <2>6, DispatcherAssumption DEF CoroutineInv, Waiting
<1> QED
    BY <1>4, <1>6, <1>7, <1>8 DEF IInv, SlotInv

-----------------------------------------------------------------------------
(* The wait *)

\* Coroutines that stay where they are keep their part.
LEMMA DispatchUntouched ==
    ASSUME SlotInv, CoroutineInv, UNCHANGED <<pause, dispatch>>
    PROVE  SlotInv' /\ CoroutineInv'
    BY DEF SlotInv, Filed, SlotsAreHandedOver, Seated, CoroutineInv, GivenUpForAReason,
           Waiting, pause, dispatch

\* The probe said no: another step of the ladder, within what is left of the wait.
LEMMA BackOffKeeps ==
    ASSUME IInv, doing = "probe", waited < MaxWait, BackOff
    PROVE  IInv'
<1> DEFINE rung == Least(tries + 1, Len(Backoff))
<1>1. WaitInv /\ PauseInv /\ SlotInv /\ CoroutineInv
    BY DEF IInv
<1>2. /\ doing' = "backoff" /\ distrust' = FALSE /\ probing' = 0 /\ waited' = waited
      /\ tries' = tries /\ since' = since
      /\ sleep' = Least(Backoff[rung], MaxWait - waited)
    BY DEF BackOff
<1>3. /\ tries \in 0..Len(Backoff) /\ waited \in Nat /\ since \in 0..RepauseGrace
      /\ since >= Least(waited, RepauseGrace)
    BY <1>1 DEF WaitInv
<1>3a. (distrust => tries = 0) /\ (~distrust => since >= Gap)
    BY <1>1 DEF WaitInv
<1>4. Backoff[rung] \in Nat \ {0} /\ Backoff[1] \in Nat \ {0} /\ (tries = 0 => rung = 1)
  <2>1. Len(Backoff) \in Nat \ {0} /\ Backoff \in [1..Len(Backoff) -> Nat \ {0}]
      BY BackoffAssumption, EmptySeq, LenProperties
  <2>2. rung \in 1..Len(Backoff) /\ (tries = 0 => rung = 1)
      BY <1>3, <2>1 DEF Least
  <2> QED
      BY <2>1, <2>2
<1>5. sleep' \in 0..MaxWait /\ waited + sleep' <= MaxWait
  <2> HIDE DEF rung
  <2> QED
      BY <1>2, <1>3, <1>4, TimesAssumption DEF Least
<1>6. since >= Gap \/ since + sleep' >= Gap
  <2>1. CASE distrust
    <3>1. rung = 1
        BY <1>4, <1>3a, <2>1
    <3>2. sleep' = Gap \/ sleep' = MaxWait - waited \/ sleep' >= Gap
      <4> HIDE DEF rung
      <4> QED
          BY <1>2, <1>3, <1>4, <3>1, TimesAssumption DEF Least, Gap
    <3>3. since >= waited \/ since >= RepauseGrace
        BY <1>3, TimesAssumption DEF Least
    <3>4. since \in Nat /\ waited \in Nat /\ sleep' \in Nat
        BY <1>3, <1>5, TimesAssumption
    <3>5. MaxWait \in Nat
        BY TimesAssumption
    <3> QED
      <4>1. since >= RepauseGrace => since >= Gap
          BY <3>4, GapType, RepauseGraceType
      <4>2. sleep' = Gap => sleep' >= Gap
          BY GapType
      <4>3. since >= waited /\ sleep' = MaxWait - waited => since + sleep' >= Gap
          BY <3>4, <3>5, SumCompletes, GapType, Zenon
      <4>4. sleep' >= Gap => since + sleep' >= Gap
          BY <3>4, SumReaches, GapType, Zenon
      <4> QED
          BY <3>2, <3>3, <4>1, <4>2, <4>3, <4>4, Zenon
  <2>2. CASE ~distrust
      BY <1>3a, <2>2
  <2> QED
      BY <2>1, <2>2
<1>7. WaitInv'
  <2>1. distrust' \in BOOLEAN /\ ~distrust'
      BY <1>2
  <2>2. 0 \in 0..ProbeTime
      BY TimesAssumption
  <2> QED
      BY <1>2, <1>3, <1>5, <1>6, <2>1, <2>2 DEF WaitInv
<1>8. PauseInv'
    BY <1>1, <1>2 DEF BackOff, PauseInv, pause
<1> QED
    BY <1>1, <1>7, <1>8, DispatchUntouched DEF BackOff, IInv

\* The probe ends the pause, finds the wait spent, or backs off.
LEMMA ProbeKeeps ==
    ASSUME IInv, Probe
    PROVE  IInv'
<1>1. doing = "probe" /\ holder \in Dispatcher
    BY DEF Probe, IInv, PauseInv
<1>2. waited \in Nat
    BY DEF IInv, WaitInv
<1>2a. waited >= MaxWait \/ waited < MaxWait
    BY <1>2, TimesAssumption
<1>3. Release(TRUE) \/ Release(FALSE) \/ (BackOff /\ waited < MaxWait)
    BY <1>2a, Zenon DEF Probe, WaitSpent
<1> QED
    BY <1>1, <1>3, ReleaseKeeps, BackOffKeeps

\* The sleep is over, and the provider is asked again.
LEMMA SleepOverKeeps ==
    ASSUME IInv, SleepOver
    PROVE  IInv'
<1>1. WaitInv /\ PauseInv /\ SlotInv /\ CoroutineInv
    BY DEF IInv
<1>2. /\ doing \in {"reset", "backoff"} /\ sleep = 0 /\ doing' = "probe"
      /\ tries' = (IF doing = "backoff" THEN Least(tries + 1, Len(Backoff)) ELSE tries)
      /\ UNCHANGED <<pause, sleep, waited, distrust, probing, since, dispatch>>
    BY DEF SleepOver
<1>3. Len(Backoff) \in Nat
    BY BackoffAssumption, LenProperties
<1>4. tries \in 0..Len(Backoff)
    BY <1>1 DEF WaitInv
<1>5. tries' \in 0..Len(Backoff)
    BY <1>2, <1>3, <1>4 DEF Least
<1>6. /\ waited \in Nat /\ waited + sleep <= MaxWait /\ probing \in 0..ProbeTime
      /\ since \in 0..RepauseGrace
    BY <1>1, <1>2 DEF WaitInv
<1>7. waited' <= MaxWait + probing'
    BY <1>2, <1>6, TimesAssumption
<1>8. ~distrust' => since' >= Gap
    BY <1>1, <1>2, <1>6, GapType DEF WaitInv
<1>9. distrust' => tries' = 0
    BY <1>1, <1>2 DEF WaitInv
<1>10. WaitInv'
    BY <1>1, <1>2, <1>5, <1>7, <1>8, <1>9 DEF WaitInv
<1>11. PauseInv'
    BY <1>1, <1>2 DEF PauseInv, pause
<1> QED
    BY <1>1, <1>2, <1>10, <1>11, DispatchUntouched DEF IInv

\* A unit of time passes.
LEMMA TickKeeps ==
    ASSUME IInv, Tick
    PROVE  IInv'
<1>1. WaitInv /\ PauseInv /\ SlotInv /\ CoroutineInv
    BY DEF IInv
<1>2. since' = Least(since + 1, RepauseGrace) /\ UNCHANGED <<pause, dispatch>>
    BY DEF Tick
<1>3. PauseInv'
    BY <1>1, <1>2 DEF Tick, PauseInv, pause, wait
<1>4. /\ since \in 0..RepauseGrace /\ since >= Least(waited, RepauseGrace)
      /\ waited \in Nat /\ sleep \in 0..MaxWait /\ probing \in 0..ProbeTime
    BY <1>1 DEF WaitInv
<1>5. /\ since' \in 0..RepauseGrace /\ since' >= since
      /\ since' = since + 1 \/ since' = RepauseGrace
    BY <1>2, <1>4, TimesAssumption DEF Least
<1>6. WaitInv'
  <2>1. CASE doing = "none"
    <3>1. UNCHANGED wait
        BY <2>1 DEF Tick
    <3>2. since' >= Least(waited', RepauseGrace)
        BY <1>4, <1>5, <3>1, TimesAssumption DEF Least, wait
    <3> QED
        BY <1>1, <1>5, <2>1, <3>1, <3>2 DEF WaitInv, wait
  <2>2. CASE doing # "none"
    <3>1. /\ waited' = waited + 1
          /\ sleep' = (IF doing = "probe" THEN 0 ELSE sleep - 1)
          /\ probing' = (IF doing = "probe" THEN probing + 1 ELSE 0)
          /\ UNCHANGED <<doing, tries, distrust>>
        BY <2>2 DEF Tick
    <3>2. /\ doing = "probe" => probing < ProbeTime /\ ~distrust
          /\ doing # "probe" => sleep > 0
        BY <2>2 DEF Tick, Idle
    <3>3. /\ waited' \in Nat /\ sleep' \in 0..MaxWait /\ probing' \in 0..ProbeTime
        BY <1>4, <3>1, <3>2, TimesAssumption
    <3>4. since' >= Least(waited', RepauseGrace)
        BY <1>4, <1>5, <3>1, TimesAssumption DEF Least
    <3>5. /\ doing \in {"reset", "backoff"} => waited' + sleep' <= MaxWait
          /\ doing = "probe" => waited' <= MaxWait + probing'
      <4>1. /\ doing \in {"reset", "backoff"} => waited + sleep <= MaxWait
            /\ doing = "probe" => waited <= MaxWait + probing
          BY <1>1 DEF WaitInv
      <4> QED
          BY <1>4, <3>1, <4>1, TimesAssumption
    <3>6. ~distrust' => since' >= Gap \/ (doing' = "backoff" /\ since' + sleep' >= Gap)
      <4>1. ~distrust => since >= Gap \/ (doing = "backoff" /\ since + sleep >= Gap)
          BY <1>1, <2>2 DEF WaitInv
      <4> QED
        <5>1. since >= Gap => since' >= Gap
            BY <1>4, <1>5, GapType, TimesAssumption
        <5>2. doing = "backoff" /\ since + sleep >= Gap =>
                 since' >= Gap \/ since' + sleep' >= Gap
          <6> SUFFICES ASSUME doing = "backoff", since + sleep >= Gap
                       PROVE  since' >= Gap \/ since' + sleep' >= Gap
              OBVIOUS
          <6>1. sleep' = sleep - 1 /\ sleep \in Nat /\ sleep > 0 /\ since \in Nat
              BY <1>4, <3>1, <3>2, TimesAssumption
          <6> QED
            <7>1. since' = RepauseGrace => since' >= Gap
                BY <1>5, GapType, RepauseGraceType
            <7>2. (since + 1) + (sleep - 1) >= Gap
                BY <6>1, GapType
            <7>3. since' = since + 1 => since' + sleep' >= Gap
                BY <6>1, <7>2, Zenon
            <7> QED
                BY <1>5, <7>1, <7>3, Zenon
        <5>3. doing' = doing /\ (distrust' <=> distrust)
            BY <3>1
        <5> QED
            BY <4>1, <5>1, <5>2, <5>3
    <3> QED
        BY <1>1, <1>5, <2>2, <3>1, <3>3, <3>4, <3>5, <3>6 DEF WaitInv
  <2> QED
      BY <2>1, <2>2
<1> QED
    BY <1>1, <1>2, <1>3, <1>6, DispatchUntouched DEF IInv

-----------------------------------------------------------------------------
(* Theorems *)

\* The run begins with nothing paused, nobody queued and nothing charged.
LEMMA InitInv ==
    ASSUME Init
    PROVE  IInv
<1>1. at = [d \in Dispatcher |-> "new"] /\ queue = << >>
    BY DEF Init
<1>2. Seated(at) = {} /\ Cardinality(Seated(at)) = 0
    BY <1>1, FS_EmptySet DEF Seated
<1>3. SlotInv
    BY <1>1, <1>2, CountsAssumption, EmptySeq
       DEF SlotInv, Filed, SlotsAreHandedOver, Place
<1>4. PauseInv
    BY DEF Init, PauseInv
<1>5. WaitInv
  <2>1. Len(Backoff) \in Nat
      BY BackoffAssumption, LenProperties
  <2>2. doing = "none" /\ waited = 0 /\ sleep = 0 /\ tries = 0 /\ probing = 0
        /\ since = RepauseGrace /\ distrust \in BOOLEAN /\ ~distrust
      BY DEF Init
  <2>3. /\ sleep \in 0..MaxWait /\ waited \in Nat /\ tries \in 0..Len(Backoff)
        /\ probing \in 0..ProbeTime /\ since \in 0..RepauseGrace
        /\ since >= Least(waited, RepauseGrace)
      BY <2>1, <2>2, TimesAssumption DEF Least
  <2> QED
      BY <2>2, <2>3 DEF WaitInv
<1>6. CoroutineInv
    BY CountsAssumption, DispatcherAssumption
       DEF Init, CoroutineInv, GivenUpForAReason, Waiting, Ended
<1> QED
    BY <1>3, <1>4, <1>5, <1>6 DEF IInv

\* Every step of a coroutine, of the wait and of time keeps the invariant.
LEMMA NextInv ==
    ASSUME IInv, [Next]_vars
    PROVE  IInv'
<1>1. ASSUME NEW d \in Dispatcher, Coroutine(d)
      PROVE  IInv'
    BY <1>1, BeginKeeps, PassPauseKeeps, StartAttemptKeeps, AnsweredKeeps, FailedKeeps,
       OutageKeeps, RejoinKeeps DEF Coroutine
<1>2. CASE Probe \/ SleepOver \/ Tick
    BY <1>2, ProbeKeeps, SleepOverKeeps, TickKeeps
<1>3. CASE UNCHANGED vars
    BY <1>3, PauseUntouched, DispatchUntouched DEF IInv, vars, dispatch
<1> QED
    BY <1>1, <1>2, <1>3 DEF Next, Done

\* The conjunction of the parts is an invariant of the specification.
THEOREM Inductive == Spec => []IInv
<1>1. Init => IInv
    BY InitInv
<1>2. IInv /\ [Next]_vars => IInv'
    BY NextInv
<1> QED
    BY <1>1, <1>2, PTL DEF Spec

\* The pause, the semaphore and the coroutines keep to their values.
THEOREM TypeCorrect == Spec => []TypeOK
<1>1. IInv => TypeOK
    BY DEF IInv, SlotInv, Filed, PauseInv, WaitInv, CoroutineInv, TypeOK
<1> QED
    BY <1>1, Inductive, PTL

\* Whoever waits for the pause is waited for by a coroutine inside hold(): no
\* wakeup is lost, whatever outages, resumes and give-ups cross.
THEOREM NoWakeupIsLost == Spec => []NobodyWaitsForNothing
<1>1. IInv => NobodyWaitsForNothing
    BY DEF IInv, PauseInv, CoroutineInv, NobodyWaitsForNothing
<1> QED
    BY <1>1, Inductive, PTL

\* A free slot and a queued coroutine never meet, and no slot is held twice.
THEOREM SlotsHandedOver == Spec => []SlotsAreHandedOver
<1>1. IInv => SlotsAreHandedOver
    BY DEF IInv, SlotInv
<1> QED
    BY <1>1, Inductive, PTL

\* One pause costs no more than --pause-hours and the probe under way.
THEOREM PauseBounded == Spec => []PauseIsBounded
<1>1. IInv => PauseIsBounded
  <2> SUFFICES ASSUME WaitInv PROVE PauseIsBounded
      BY DEF IInv
  <2>1. waited \in Nat /\ sleep \in 0..MaxWait /\ probing \in 0..ProbeTime
      BY DEF WaitInv
  <2>2. doing \in {"none", "reset", "probe", "backoff"}
      BY DEF WaitInv
  <2>3. CASE doing = "none"
      BY <2>3, TimesAssumption DEF WaitInv, PauseIsBounded
  <2>4. CASE doing = "probe"
      BY <2>1, <2>4, TimesAssumption DEF WaitInv, PauseIsBounded
  <2>5. CASE doing \in {"reset", "backoff"}
      BY <2>1, <2>5, TimesAssumption DEF WaitInv, PauseIsBounded
  <2> QED
      BY <2>2, <2>3, <2>4, <2>5
<1> QED
    BY <1>1, Inductive, PTL

\* A node parked for an outage met one too many, or the run's wait was spent.
THEOREM ParkedForAReason == Spec => []GivenUpForAReason
<1>1. IInv => GivenUpForAReason
    BY DEF IInv, CoroutineInv
<1> QED
    BY <1>1, Inductive, PTL

\* Once a wait is spent no step pauses the run again, nor forgets it.
THEOREM SpentIsSpent == Spec => ExhaustedIsFinal
<1>1. ASSUME IInv, [Next]_vars, exhausted
      PROVE  exhausted' /\ holder' = NoOne
  <2>1. holder = NoOne /\ doing = "none"
      BY <1>1 DEF IInv, PauseInv
  <2>2. UNCHANGED <<exhausted, holder>>
    <3>1. ASSUME NEW d \in Dispatcher, Outage(d)
          PROVE  UNCHANGED <<exhausted, holder>>
        BY <1>1, <3>1, Zenon DEF Outage, GivesUp, pause
    <3>2. ASSUME NEW d \in Dispatcher, Coroutine(d)
          PROVE  UNCHANGED <<exhausted, holder>>
        BY <3>1, <3>2 DEF Coroutine, Begin, PassPause, StartAttempt, Answered, Failed,
           Rejoin, pause
    <3>3. CASE Tick \/ UNCHANGED vars
        BY <3>3 DEF Tick, vars, pause
    <3>4. ~Probe /\ ~SleepOver
        BY <2>1 DEF Probe, SleepOver
    <3> QED
        BY <1>1, <3>2, <3>3, <3>4 DEF Next, Done
  <2> QED
      BY <1>1, <2>1, <2>2
<1> QED
    BY <1>1, Inductive, PTL DEF Spec, ExhaustedIsFinal

\* Two resumes are a backoff step apart: a provider that answers the probe and
\* fails the next attempt does not make the run spin.
THEOREM NoSpinning == Spec => ResumesAreApart
<1>1. ASSUME IInv, [Next]_vars, ~resume, resume', ~exhausted'
      PROVE  since >= Gap
  <2>1. Probe
    <3>1. ASSUME NEW d \in Dispatcher, Outage(d)
          PROVE  resume' = resume \/ resume' = FALSE
        BY <3>1 DEF Outage, Hold, pause
    <3>2. ASSUME NEW d \in Dispatcher, Coroutine(d)
          PROVE  resume' = resume \/ resume' = FALSE
        BY <3>1, <3>2 DEF Coroutine, Begin, PassPause, StartAttempt, Answered, Failed,
           Rejoin, pause
    <3>3. CASE SleepOver \/ Tick \/ UNCHANGED vars
        BY <1>1, <3>3 DEF SleepOver, Tick, vars, pause
    <3> QED
        BY <1>1, <3>2, <3>3 DEF Next, Done
  <2>2. Release(TRUE)
    <3>1. ~BackOff
        BY <1>1 DEF BackOff, pause
    <3>2. ~Release(FALSE)
        BY <1>1 DEF Release
    <3> QED
        BY <2>1, <3>1, <3>2, Zenon DEF Probe
  <2>3. doing = "probe" /\ ~distrust
    <3>1. CASE distrust
      <4>1. ~Release(TRUE)
        <5>1. Release(FALSE) \/ BackOff
            BY <2>1, <3>1 DEF Probe
        <5>2. Release(FALSE) => exhausted'
            BY DEF Release
        <5>3. BackOff => resume' = resume
            BY DEF BackOff, pause
        <5> QED
            BY <1>1, <5>1, <5>2, <5>3
      <4> QED
          BY <2>2, <4>1
    <3> QED
        BY <2>1, <3>1 DEF Probe
  <2> QED
      BY <1>1, <2>3 DEF IInv, WaitInv
<1>2. IInv /\ [Next]_vars => (~resume /\ resume' /\ ~exhausted' => since >= Gap)
    BY <1>1
<1> QED
    BY <1>2, Inductive, PTL DEF Spec, ResumesAreApart, Gap
=============================================================================
